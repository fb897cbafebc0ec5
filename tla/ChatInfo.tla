------------------------------- MODULE ChatInfo -------------------------------
(***************************************************************************)
(* The info dialog of a group or channel: ChannelInfoModal and its views,  *)
(* the stores channel.ts and invites.ts behind them.  The dialog belongs   *)
(* to no chat: its chat-id is the active chat, whatever that becomes, and  *)
(* what it shows is what the stores, shared by all chats, hold.            *)
(***************************************************************************)
EXTENDS Chats, Naturals, FiniteSets

CONSTANTS
  Own,         \* the chats this user owns: the others only have him as member
  Link,        \* the invite tokens the server may make
  MaxEdits,    \* bounds how often a chat is edited
  MaxCalls     \* bounds the calls in flight; no two of them are alike

ASSUME InfoAssumption ==
  Own \subseteq Chat /\ MaxEdits \in Nat /\ MaxCalls \in Nat

VARIABLES
  server,      \* per chat: its text, another member's role, its active links
  mine,        \* the chats the server has this user in
  listed,      \* the chats of the list, loaded before
  active,      \* activeChatId
  channelInfoModalOpen,
  activeView,  \* "none" while the dialog is not mounted
  detail,      \* the channel store: the chat's text,
  people,      \* and the other member's role, with the chat it was loaded for
  invites,     \* the invites store
  detailLoading,
  form,        \* the text the edit form was filled from
  calls,       \* the calls in flight
  spoiled,     \* history: the stores that a failed or overlapping call left behind
  strayed      \* history: the dialog changed its chat, or edited what was spoiled

infoVars == <<server, mine, listed, active, channelInfoModalOpen, activeView, detail,
              people, invites, detailLoading, form, calls, spoiled, strayed>>

Views == {"main", "invites", "admins", "subscribers", "edit", "danger"}
Loads == {"loadDetail", "loadMembers", "loadInvites"}
Ops == Loads \cup {"updateChannel", "promoteMember", "demoteMember", "createInvite",
                   "revokeInvite", "leave", "deleteChat"}

NoText == [of |-> NoChat, edit |-> 0]
Text == [of : Chat, edit : 0..MaxEdits]
People == [of : Chat, role : {"member", "admin"}]
NoPeople == [of |-> NoChat, role |-> "member"]

\* What a call carries: the saved form, the list before a revocation and the
\* link revoked.  gone: the server has let the user go, the answer is under way.
\* at: NoChat while the component that called is mounted and follows the active
\* chat, afterwards the last chat it had.
NewCall(op, c) ==
  [op |-> op, chat |-> c, form |-> NoText, before |-> {}, revoking |-> {},
   gone |-> FALSE, at |-> NoChat]

InfoInit ==
  /\ server = [c \in Chat |->
       [text |-> [of |-> c, edit |-> 0], role |-> "member", links |-> {}]]
  /\ mine \in SUBSET Chat /\ listed = mine /\ active = NoChat
  /\ channelInfoModalOpen = FALSE /\ activeView = "none"
  /\ detail = NoText /\ people = NoPeople /\ invites = {} /\ detailLoading = FALSE
  /\ form = NoText /\ calls = {} /\ spoiled = {} /\ strayed = FALSE

InfoTypeOK ==
  /\ server \in [Chat -> [text : Text, role : {"member", "admin"}, links : SUBSET Link]]
  /\ mine \subseteq Chat /\ listed \subseteq Chat
  /\ active \in Chat \cup {NoChat} /\ activeView \in Views \cup {"none"}
  /\ detail \in Text \cup {NoText} /\ people \in People \cup {NoPeople}
  /\ invites \subseteq Link /\ form \in Text \cup {NoText}
  /\ calls \subseteq [op : Ops, chat : Chat, form : Text \cup {NoText},
       before : SUBSET Link, revoking : SUBSET Link,
       gone : BOOLEAN, at : Chat \cup {NoChat}]
  /\ spoiled \subseteq {"detail", "people", "invites"}
  /\ {channelInfoModalOpen, detailLoading, strayed} \subseteq BOOLEAN
  /\ (activeView = "none") = (active = NoChat \/ ~channelInfoModalOpen)

\* The store that a call is about.
Store(op) ==
  CASE op \in {"loadDetail", "updateChannel"} -> "detail"
    [] op \in {"loadMembers", "promoteMember", "demoteMember"} -> "people"
    [] op \in {"loadInvites", "createInvite", "revokeInvite"} -> "invites"
    [] OTHER -> "none"

\* A load heals its store, unless another call about it is in flight.
Heals(new, rest) ==
  LET about(ks) == {Store(k.op) : k \in ks} \ {"none"}
  IN (spoiled \ about({k \in new : k.op \in Loads})) \cup (about(new) \cap about(rest))

Sends(new) ==
  /\ new \cap calls = {} /\ Cardinality(calls \cup new) <= MaxCalls
  /\ calls' = calls \cup new
  /\ spoiled' = Heals(new, calls)

Heard(k) == k.at = NoChat
Busy(op) == \E k \in calls : k.op = op /\ Heard(k)

\* The calls of a view that goes: nobody hears what they emit.
Orphans(ks) == {IF Heard(k) THEN [k EXCEPT !.at = active] ELSE k : k \in ks}

isOwner == people.of \in Own
isAdmin == isOwner

-----------------------------------------------------------------------------
\* The dialog.

MountLoads(c) == {NewCall("loadDetail", c), NewCall("loadMembers", c)}

Appears(c) ==
  /\ activeView' = "main" /\ detailLoading' = TRUE
  /\ Sends(MountLoads(c))

Vanishes(rest) ==
  /\ activeView' = "none" /\ form' = NoText
  /\ calls' = Orphans(rest)
  /\ UNCHANGED <<detailLoading, spoiled>>

OpenChannelInfo ==
  /\ active # NoChat /\ ~channelInfoModalOpen
  /\ channelInfoModalOpen' = TRUE
  /\ Appears(active)
  /\ UNCHANGED <<server, mine, listed, active, detail, people, invites, form, strayed>>

CloseInfo ==
  /\ activeView # "none"
  /\ channelInfoModalOpen' = FALSE
  /\ Vanishes(calls)
  /\ UNCHANGED <<server, mine, listed, active, detail, people, invites, strayed>>

\* setActiveChat(null): the panel goes with its dialog, which is not closed by it.
Deactivate(rest) ==
  /\ active' = NoChat /\ UNCHANGED channelInfoModalOpen
  /\ IF activeView = "none"
     THEN calls' = rest /\ UNCHANGED <<activeView, detailLoading, form, spoiled>>
     ELSE Vanishes(rest)

\* setActiveChat: an open dialog stays, for another chat; one that went with the
\* panel comes back with it.
Activate(c) ==
  /\ active' = c /\ UNCHANGED channelInfoModalOpen
  /\ IF ~channelInfoModalOpen
     THEN UNCHANGED <<activeView, detailLoading, form, calls, spoiled, strayed>>
     ELSE IF active = NoChat THEN Appears(c) /\ UNCHANGED <<form, strayed>>
     ELSE /\ strayed' = TRUE /\ spoiled' = {"detail", "people", "invites"}
          /\ UNCHANGED <<activeView, detailLoading, form, calls>>

SelectChat(c) ==
  /\ c \in listed \ {active}
  /\ Activate(c)
  /\ UNCHANGED <<server, mine, listed, detail, people, invites>>

handleBack ==
  /\ active # NoChat
  /\ Deactivate(calls)
  /\ UNCHANGED <<server, mine, listed, detail, people, invites, strayed>>

\* chat_deleted or member_left.
RemoveChatLocal(c) ==
  /\ c \in listed \ mine
  /\ listed' = listed \ {c}
  /\ IF c = active THEN Deactivate(calls)
     ELSE UNCHANGED <<active, channelInfoModalOpen, activeView, form, calls,
                    detailLoading, spoiled>>
  /\ UNCHANGED <<server, mine, detail, people, invites, strayed>>

\* The items of the main view.
ShowView(v) ==
  /\ activeView = "main" /\ ~detailLoading /\ detail # NoText
  /\ v = "edit" => isAdmin
  /\ activeView' = v
  /\ form' = IF v = "edit" THEN detail ELSE form
  /\ strayed' = (strayed \/ (v = "edit" /\ "detail" \in spoiled))
  /\ IF v = "invites" THEN Sends({NewCall("loadInvites", active)})
                      ELSE UNCHANGED <<calls, spoiled>>
  /\ UNCHANGED <<server, mine, listed, active, channelInfoModalOpen, detail, people,
                 invites, detailLoading>>

Back ==
  /\ activeView \in Views \ {"main"}
  /\ activeView' = "main" /\ form' = NoText
  /\ calls' = Orphans({k \in calls : k.op \notin Loads}) \cup {k \in calls : k.op \in Loads}
  /\ UNCHANGED <<server, mine, listed, active, channelInfoModalOpen, detail, people,
                 invites, detailLoading, spoiled, strayed>>

-----------------------------------------------------------------------------
\* Its buttons.  Each call goes to the chat that is active at the click.

Does(view, call) ==
  /\ activeView = view
  /\ Sends({call})
  /\ UNCHANGED <<server, mine, listed, active, channelInfoModalOpen, activeView, detail,
                 people, detailLoading, form, strayed>>

save ==
  /\ ~Busy("updateChannel") /\ form.edit < MaxEdits
  /\ Does("edit", [NewCall("updateChannel", active) EXCEPT !.form = form])
  /\ UNCHANGED invites

handlePromote ==
  /\ isOwner /\ people.role = "member"
  /\ Does("admins", NewCall("promoteMember", active)) /\ UNCHANGED invites

handleDemote ==
  /\ isOwner /\ people.role = "admin"
  /\ Does("admins", NewCall("demoteMember", active)) /\ UNCHANGED invites

handleCreate ==
  /\ ~Busy("createInvite")
  /\ Does("invites", NewCall("createInvite", active)) /\ UNCHANGED invites

\* The link goes from the list at once; the list as it was is kept for a failure.
handleRevoke(l) ==
  /\ l \in invites
  /\ invites' = invites \ {l}
  /\ Does("invites", [NewCall("revokeInvite", active) EXCEPT !.before = invites,
                                                         !.revoking = {l}])

handleLeave == Does("danger", NewCall("leave", active)) /\ UNCHANGED invites

handleDelete ==
  /\ isOwner /\ ~Busy("deleteChat")
  /\ Does("danger", NewCall("deleteChat", active)) /\ UNCHANGED invites

-----------------------------------------------------------------------------
\* The answers.  The server's part is one step with them: what it does between
\* the call and the answer is seen by other calls about the same store only,
\* and such an overlap spoils the store.  It refuses what this user may not do,
\* and may fail.  A component that is gone writes to the stores all the same.

Rest(k) == calls \ {k}

\* A token that nobody holds any longer stands for a new one.
Fresh == Link \ (invites \cup UNION {server[c].links : c \in Chat}
                         \cup UNION {k.before \cup k.revoking : k \in calls})

\* Mutant: a failed revocation is not rolled back.
CallFailedKeeps(k) ==
  /\ k.op \notin {"leave", "deleteChat"}
  /\ calls' = Rest(k)
  /\ detailLoading' = (detailLoading /\ k.op # "loadDetail")
  /\ spoiled' = IF k.op \in Loads THEN spoiled \cup {Store(k.op)} ELSE spoiled
  /\ UNCHANGED <<server, mine, listed, active, channelInfoModalOpen, activeView, detail,
                 people, invites, form, strayed>>

CallFailed(k) ==
  /\ k.op \notin {"leave", "deleteChat"}
  /\ calls' = Rest(k)
  /\ detailLoading' = (detailLoading /\ k.op # "loadDetail")
  /\ spoiled' = IF k.op \in Loads THEN spoiled \cup {Store(k.op)} ELSE spoiled
  /\ invites' = IF k.op = "revokeInvite" THEN k.before ELSE invites
  /\ UNCHANGED <<server, mine, listed, active, channelInfoModalOpen, activeView, detail,
                 people, form, strayed>>

Loaded(k) ==
  /\ k.op \in Loads /\ k.chat \in mine
  /\ k.op = "loadInvites" => k.chat \in Own
  /\ LET s == server[k.chat] IN
     /\ detail' = IF k.op = "loadDetail" THEN s.text ELSE detail
     /\ people' = IF k.op = "loadMembers" THEN [of |-> k.chat, role |-> s.role] ELSE people
     /\ invites' = IF k.op = "loadInvites" THEN s.links ELSE invites
  /\ detailLoading' = (detailLoading /\ k.op # "loadDetail")
  /\ calls' = Rest(k)
  /\ UNCHANGED <<server, mine, listed, active, channelInfoModalOpen, activeView, form,
                 spoiled, strayed>>

\* A saved form closes, and the detail is loaded once more: of the active chat.
Updated(k) ==
  /\ k.op = "updateChannel" /\ k.chat \in Own \cap mine
  /\ detail' = [k.form EXCEPT !.edit = @ + 1]
  /\ server' = [server EXCEPT ![k.chat].text = detail']
  /\ IF Heard(k)
     THEN LET load == NewCall("loadDetail", active) IN
          /\ activeView' = "main" /\ form' = NoText /\ detailLoading' = TRUE
          /\ load \notin Rest(k)
          /\ calls' = Rest(k) \cup {load}
          /\ spoiled' = Heals({load}, Rest(k))
     ELSE calls' = Rest(k) /\ UNCHANGED <<activeView, form, detailLoading, spoiled>>
  /\ UNCHANGED <<mine, listed, active, channelInfoModalOpen, people, invites, strayed>>

\* The member is looked for among the people that the store has by now.
RoleChanged(k) ==
  /\ k.op \in {"promoteMember", "demoteMember"} /\ k.chat \in Own \cap mine
  /\ LET role == IF k.op = "promoteMember" THEN "admin" ELSE "member" IN
     /\ server[k.chat].role # role
     /\ server' = [server EXCEPT ![k.chat].role = role]
     /\ people' = IF people = NoPeople THEN people ELSE [people EXCEPT !.role = role]
  /\ calls' = Rest(k)
  /\ UNCHANGED <<mine, listed, active, channelInfoModalOpen, activeView, detail, invites,
                 detailLoading, form, spoiled, strayed>>

Invited(k) ==
  /\ k.op = "createInvite" /\ k.chat \in Own \cap mine
  /\ \E l \in Fresh :
       /\ server' = [server EXCEPT ![k.chat].links = @ \cup {l}]
       /\ invites' = invites \cup {l}
  /\ calls' = Rest(k)
  /\ UNCHANGED <<mine, listed, active, channelInfoModalOpen, activeView, detail, people,
                 detailLoading, form, spoiled, strayed>>

\* The link alone says which chat it is of.
Revoked(k) ==
  /\ k.op = "revokeInvite"
  /\ \E c \in Own \cap mine :
       /\ k.revoking \subseteq server[c].links
       /\ server' = [server EXCEPT ![c].links = @ \ k.revoking]
  /\ calls' = Rest(k)
  /\ UNCHANGED <<mine, listed, active, channelInfoModalOpen, activeView, detail, people,
                 invites, detailLoading, form, spoiled, strayed>>

\* chat_deleted or member_left may come before the answer.
LetGo(k) ==
  /\ k.op = "leave" \/ (k.op = "deleteChat" /\ k.chat \in Own)
  /\ ~k.gone /\ k.chat \in mine
  /\ mine' = mine \ {k.chat}
  /\ calls' = Rest(k) \cup {[k EXCEPT !.gone = TRUE]}
  /\ UNCHANGED <<server, listed, active, channelInfoModalOpen, activeView, detail, people,
                 invites, detailLoading, form, spoiled, strayed>>

PartRefused(k) ==
  /\ k.op \in {"leave", "deleteChat"} /\ ~k.gone
  /\ calls' = Rest(k)
  /\ UNCHANGED <<server, mine, listed, active, channelInfoModalOpen, activeView, detail,
                 people, invites, detailLoading, form, spoiled, strayed>>

\* leave() knows its chat; the panel goes before the dialog can say it closed.
Left(k) ==
  /\ k.op = "leave" /\ k.gone
  /\ listed' = listed \ {k.chat}
  /\ \/ active = k.chat /\ Deactivate(Rest(k))
     \/ /\ active # k.chat /\ Heard(k)
        /\ channelInfoModalOpen' = FALSE /\ Vanishes(Rest(k)) /\ UNCHANGED active
     \/ /\ active # k.chat /\ ~Heard(k)
        /\ calls' = Rest(k)
        /\ UNCHANGED <<active, channelInfoModalOpen, activeView, detailLoading, form,
                       spoiled>>
  /\ UNCHANGED <<server, mine, detail, people, invites, strayed>>

\* handleDelete reads its chat again: the one the dialog has come to by now.
ChatDeleted(k) ==
  /\ k.op = "deleteChat" /\ k.gone
  /\ \/ /\ Heard(k)
        /\ listed' = listed \ {active}
        /\ channelInfoModalOpen' = FALSE /\ active' = NoChat /\ Vanishes(Rest(k))
     \/ /\ ~Heard(k)
        /\ listed' = listed \ {k.at}
        /\ IF active = k.at THEN Deactivate(Rest(k))
           ELSE /\ calls' = Rest(k)
                /\ UNCHANGED <<active, channelInfoModalOpen, activeView, detailLoading, form,
                               spoiled>>
  /\ UNCHANGED <<server, mine, detail, people, invites, strayed>>

\* What the user may look at is for the composition to say.
InfoNext(views) ==
  \/ OpenChannelInfo \/ CloseInfo \/ Back \/ save \/ handlePromote \/ handleDemote
  \/ handleCreate \/ handleLeave \/ handleDelete \/ handleBack
  \/ \E c \in Chat : SelectChat(c) \/ RemoveChatLocal(c)
  \/ \E v \in views : ShowView(v)
  \/ \E l \in Link : handleRevoke(l)
  \/ \E k \in calls : \/ CallFailed(k) \/ Loaded(k) \/ Updated(k) \/ RoleChanged(k)
                      \/ Invited(k) \/ Revoked(k) \/ LetGo(k) \/ PartRefused(k)
                      \/ Left(k) \/ ChatDeleted(k)

-----------------------------------------------------------------------------
Steady(s) == s \notin spoiled /\ ~\E k \in calls : Store(k.op) = s

\* The dialog shows the active chat as the server has it, whichever chats were
\* looked at before and whatever of their calls was answered late: for each
\* store, unless a load failed, two calls about it overlapped, or the chat was
\* changed under the dialog, since the last clean load.
InfoRight ==
  activeView # "none" =>
    /\ Steady("detail") => detail = server[active].text
    /\ Steady("people") => people = [of |-> active, role |-> server[active].role]
    /\ activeView = "invites" /\ Steady("invites") => invites = server[active].links

\* A chat is never given the name and description of another one, unless the
\* chat was changed under the dialog, or the form was filled from a store that
\* a failed or overlapping load had left with the other chat.
SavedIsOwn == \A c \in Chat : server[c].text.of # c => strayed

\* What the dialog shows and what it saves is of the chat on screen.
DialogRight == InfoRight /\ SavedIsOwn
===============================================================================
