-------------------------------- MODULE Dialogs --------------------------------
(***************************************************************************)
(* The layers of MessengerView over the chat: drawer, dialogs, selection,  *)
(* what Escape does to them, and the asynchronous ways in which they bring *)
(* a chat on screen: create or join it, load the list, make it active.     *)
(***************************************************************************)
EXTENDS ChatInfo, Sequences

CONSTANTS
  MaxFlows,   \* bounds the flows under way; no two of them are alike
  Poll        \* names for the list loads that open nothing

ASSUME DialogsAssumption == MaxFlows \in Nat

VARIABLES
  shown,    \* the layers of the messenger that are open
  panel,    \* the layers of the chat panel: emoji panel, search
  flows,    \* the openings under way
  polls,    \* the list loads of polls, resyncs, events and sends
  outrun,   \* history: the chats made after the last of these that came was answered
  blind     \* history: the chat that was opened although the list lacked it

pollVars == <<polls, outrun>>
dialogVars == <<shown, panel, flows, pollVars, blind>>

\* In the order in which Escape looks at them.
Layers == <<"invite", "selection", "userProfile", "newChat", "profile", "settings",
            "download", "drawer">>
Layer == {Layers[i] : i \in 1..Len(Layers)}

\* heard: the dialog that asked is still there.  snap: the list as the server sent it.
Flow(op, c) == [op |-> op, chat |-> c, stage |-> "call", heard |-> TRUE, snap |-> {}]

\* since: the chats made after snap was taken.
NoPoll == [stage |-> "none", snap |-> {}, since |-> {}]

DialogsInit ==
  /\ shown = {} /\ panel = {} /\ flows = {} /\ blind = NoChat
  /\ polls = [p \in Poll |-> NoPoll] /\ outrun = {}

DialogsTypeOK ==
  /\ shown \subseteq Layer /\ panel \subseteq {"emoji", "search"}
  /\ flows \subseteq [op : {"dm", "newChat", "invite", "byName"}, chat : Chat,
       stage : {"call", "load", "loaded"}, heard : BOOLEAN, snap : SUBSET Chat]
  /\ polls \in [Poll -> [stage : {"none", "load", "loaded"}, snap : SUBSET Chat,
                         since : SUBSET Chat]]
  /\ outrun \subseteq Chat /\ blind \in Chat \cup {NoChat}

\* A dialog that goes does not hear the answer to what it asked.
Deaf(layers) ==
  {IF f.op \in layers /\ f.stage = "call" THEN [f EXCEPT !.heard = FALSE] ELSE f : f \in flows}

storeVars == <<server, mine, listed, detail, people, invites>>
dialogOnly == <<active, channelInfoModalOpen, activeView, detailLoading, form, calls,
                spoiled, strayed>>

-----------------------------------------------------------------------------
\* Opening and closing.

\* Every layer but the selection covers what it could be covered by; profile and
\* settings replace the drawer; a link may bring a profile up over any of them.
Open(layer) ==
  /\ layer \notin shown
  /\ layer = "userProfile" \/ shown \ {"selection", "drawer"} = {}
  /\ "drawer" \in shown =>
       layer \in {"profile", "settings", "newChat", "download", "userProfile"}
  /\ layer \in {"profile", "settings"} => "drawer" \in shown
  /\ layer = "selection" => active # NoChat
  /\ shown' = (IF layer \in {"profile", "settings", "newChat"} THEN shown \ {"drawer"}
                                                            ELSE shown) \cup {layer}
  /\ UNCHANGED <<storeVars, dialogOnly, panel, flows, blind, pollVars>>

Close(layer) ==
  /\ layer \in shown
  /\ shown' = shown \ {layer} /\ flows' = Deaf({layer})
  /\ UNCHANGED <<storeVars, dialogOnly, panel, blind, pollVars>>

OpenPanel(p) ==
  /\ active # NoChat /\ p \notin panel
  /\ panel' = panel \cup {p}
  /\ UNCHANGED <<storeVars, dialogOnly, shown, flows, blind, pollVars>>

\* The watches of the active chat: selection and search end with it.
Watches(c) ==
  /\ shown' = IF c = active THEN shown ELSE shown \ {"selection"}
  /\ panel' = IF c = active THEN panel ELSE panel \ {"search"}

FirstShown ==
  LET i == CHOOSE i \in 1..Len(Layers) :
             Layers[i] \in shown /\ \A j \in 1..(i - 1) : Layers[j] \notin shown
  IN Layers[i]

\* Both listeners are on document, the panel's first: stopPropagation there does
\* not keep the key from the messenger's.
Escape ==
  /\ shown \cup panel # {} \/ channelInfoModalOpen \/ active # NoChat
  /\ panel' = IF "emoji" \in panel THEN panel \ {"emoji"} ELSE panel \ {"search"}
  /\ IF shown # {}
     THEN shown' = shown \ {FirstShown} /\ flows' = Deaf({FirstShown}) /\ UNCHANGED active
     ELSE UNCHANGED <<shown, flows>> /\ active' = NoChat
  /\ channelInfoModalOpen' = (channelInfoModalOpen /\ panel # {})
  /\ IF activeView # "none" /\ (~channelInfoModalOpen' \/ active' = NoChat)
     THEN Vanishes(calls) ELSE UNCHANGED <<activeView, form, calls, detailLoading, spoiled>>
  /\ UNCHANGED <<storeVars, strayed, blind, pollVars>>

-----------------------------------------------------------------------------
\* Chats on screen.

SetActive(c) ==
  /\ Watches(c)
  /\ IF c = active THEN UNCHANGED dialogOnly ELSE Activate(c)

handleSelectChat(c) ==
  /\ c \in listed /\ c # active
  /\ SetActive(c)
  /\ UNCHANGED <<storeVars, flows, blind, pollVars>>

\* /c/<id>: whether or not the list has the chat; with a message only if it has.
FollowChatLink(c) ==
  /\ c # active
  /\ SetActive(c)
  /\ blind' = IF c \in listed THEN blind ELSE c
  /\ UNCHANGED <<storeVars, flows, pollVars>>

Begins(f) ==
  /\ f \notin flows /\ Cardinality(flows) < MaxFlows
  /\ flows' = flows \cup {f}

\* openDM by link or from a profile, which closes; Saved Messages from the drawer.
openDM(c) ==
  /\ Begins(Flow("dm", c))
  /\ shown' \in {shown, shown \ {"userProfile"}, shown \ {"drawer"}}
  /\ UNCHANGED <<storeVars, dialogOnly, panel, blind, pollVars>>

openChannelByName(c) ==
  /\ Begins(Flow("byName", c))
  /\ UNCHANGED <<storeVars, dialogOnly, shown, panel, blind, pollVars>>

\* createDirectChat, createGroupChat, createChannelChat, and handleJoin, whose
\* button waits; a user may be clicked again before the answer.
AsksFor(op, c) ==
  /\ op \in shown
  /\ op = "invite" => ~\E f \in flows : f.op = op /\ f.heard
  /\ Begins(Flow(op, c))
  /\ UNCHANGED <<storeVars, dialogOnly, shown, panel, blind, pollVars>>

Others(f) == flows \ {f}

Step(f, stage, snap) ==
  flows' = Others(f) \cup {[f EXCEPT !.stage = stage, !.snap = snap]}

\* The chat is there; the dialog that asked closes and the list is loaded.
ChatMade(f) ==
  /\ f.stage = "call" /\ f.op # "byName"
  /\ mine' = mine \cup {f.chat}
  /\ polls' = [p \in Poll |-> IF polls[p].stage = "loaded"
                              THEN [polls[p] EXCEPT !.since = @ \cup {f.chat}] ELSE polls[p]]
  /\ IF f.heard
     THEN /\ flows' = {IF g.op = f.op /\ g.stage = "call" /\ f.op # "dm"
                       THEN [g EXCEPT !.heard = FALSE] ELSE g : g \in Others(f)}
                        \cup {[f EXCEPT !.stage = "load"]}
          /\ shown' = shown \ {f.op}
     ELSE flows' = Others(f) /\ UNCHANGED shown
  /\ UNCHANGED <<server, listed, detail, people, invites, dialogOnly, panel, blind, outrun>>

CallFails(f) ==
  /\ f.stage = "call"
  /\ flows' = Others(f)
  /\ UNCHANGED <<storeVars, dialogOnly, shown, panel, blind, pollVars>>

NameFound(f) ==
  /\ f.stage = "call" /\ f.op = "byName"
  /\ flows' = Others(f) /\ UNCHANGED <<storeVars, blind, pollVars>>
  /\ IF f.chat \in listed THEN SetActive(f.chat) ELSE UNCHANGED <<dialogOnly, shown, panel>>

ListRead(f) ==
  /\ f.stage = "load"
  /\ Step(f, "loaded", mine)
  /\ UNCHANGED <<storeVars, dialogOnly, shown, panel, blind, pollVars>>

\* Mutant: the chat is made active without a wait for its list.
ListLoadedLate(f) ==
  /\ f.stage \in {"load", "loaded"}
  /\ flows' = Others(f) /\ UNCHANGED <<listed, blind, outrun>>
  /\ SetActive(f.chat)
  /\ UNCHANGED <<server, mine, detail, people, invites, polls>>

\* loadChats swallows its failure: the chat is made active all the same.
ListLoaded(f) ==
  /\ flows' = Others(f)
  /\ \/ f.stage = "loaded" /\ listed' = f.snap /\ outrun' = {} /\ UNCHANGED blind
     \/ /\ f.stage \in {"load", "loaded"}
        /\ UNCHANGED <<listed, outrun>>
        /\ blind' = IF f.chat \in listed THEN blind ELSE f.chat
  /\ SetActive(f.chat)
  /\ UNCHANGED <<server, mine, detail, people, invites, polls>>

\* loadChats of a poll, of a resync, after chat_created or a message sent: what comes
\* takes the list's place, and makes nothing active.
PollAsks(p) ==
  /\ polls[p] = NoPoll
  /\ polls' = [polls EXCEPT ![p].stage = "load"]
  /\ UNCHANGED <<storeVars, dialogOnly, shown, panel, flows, blind, outrun>>

PollRead(p) ==
  /\ polls[p].stage = "load"
  /\ polls' = [polls EXCEPT ![p] = [@ EXCEPT !.stage = "loaded", !.snap = mine]]
  /\ UNCHANGED <<storeVars, dialogOnly, shown, panel, flows, blind, outrun>>

PollArrives(p) ==
  /\ polls[p].stage = "loaded"
  /\ listed' = polls[p].snap /\ outrun' = polls[p].since
  /\ polls' = [polls EXCEPT ![p] = NoPoll]
  /\ UNCHANGED <<server, mine, detail, people, invites, dialogOnly, shown, panel, flows, blind>>

PollFails(p) ==
  /\ polls[p] # NoPoll
  /\ polls' = [polls EXCEPT ![p] = NoPoll]
  /\ UNCHANGED <<storeVars, dialogOnly, shown, panel, flows, blind, outrun>>

LayersNext(layers) ==
  \/ \E l \in layers : Open(l) \/ Close(l)
  \/ Escape
  \/ \E c \in Chat : handleSelectChat(c)

PanelNext == \E p \in {"emoji", "search"} : OpenPanel(p)

OpeningsNext ==
  \/ \E c \in Chat : FollowChatLink(c) \/ openDM(c) \/ openChannelByName(c)
                     \/ \E op \in {"newChat", "invite"} : AsksFor(op, c)
  \/ \E f \in flows : ChatMade(f) \/ CallFails(f) \/ NameFound(f) \/ ListRead(f)
                      \/ ListLoaded(f)
  \/ \E p \in Poll : PollAsks(p) \/ PollRead(p) \/ PollArrives(p) \/ PollFails(p)

-----------------------------------------------------------------------------
\* The chat on screen is one of the list, however openings overlap and whichever of
\* their lists arrives last.  It is missing there, and the panel shows an empty chat, only
\* if its own load failed, a link named a chat that the list lacks, or the list came from
\* a load of a poll, an event or a send that was answered before the chat was made.
OpenedIsListed == active \in listed \cup outrun \cup {NoChat, blind}
===============================================================================
