-------------------------------- MODULE Client --------------------------------
(***************************************************************************)
(* The messenger view.  Its chat list is joined to its socket: the first   *)
(* load before the first connection, the resync after a reconnection, the  *)
(* polls while there is none.  Over the chats lie its layers and the info  *)
(* dialog.  One part of all this moves in a behaviour: what the others do  *)
(* is nothing to it (Dialogs and ChatInfo have their own view of list and  *)
(* active chat), and the number of states is a sum, not a product.  The    *)
(* view stays; App unmounts it.                                            *)
(***************************************************************************)
EXTENDS Peers, Dialogs

CONSTANT Moving    \* the chats that come, go and are pinned

ASSUME MovingAssumption == Moving \subseteq Chat

VARIABLE part

clientVars == <<wsVars, listVars, peersVars>>
vars == <<clientVars, infoVars, dialogVars, part>>

ListParts == {"members", "unread", "flags", "online", "typing"}
InfoParts == {"edit", "admins", "invites", "danger", "subscribers"}

Init ==
  /\ part \in ListParts \cup InfoParts \cup {"layers", "openings"}
  /\ WsInit /\ token /\ ListInit /\ PeersInit
  /\ Members \subseteq (IF part = "unread" THEN Chat ELSE Moving)
  /\ part = "unread" => Members = Chat
  /\ part = "flags" => Members = Moving
  /\ part \notin {"members", "unread", "flags"} => Members = {}
  /\ part # "online" => onlineAtServer = {}
  /\ InfoInit /\ DialogsInit
  /\ mine = IF part = "openings" THEN {} ELSE Chat

\* The socket's steps with what they do to the list and the peers.
OpenView ==
  /\ Mount /\ UNCHANGED token /\ Ask([op |-> "mount", chat |-> NoChat])
  /\ UNCHANGED <<serverVars, wire, chats, activeChatId, isNearBottom, toggles, leaving,
                 marks, pendingMarkReadChatId, stale, peersVars>>

ListArrives(l) ==
  /\ LoadArrives(l) /\ SeedApplied(l)
  /\ IF loads[l].after.op = "mount" THEN Mounted ELSE UNCHANGED wsVars

ListFails(l) ==
  /\ LoadFails(l) /\ SeedFails(loads[l].after)
  /\ IF loads[l].after.op = "mount" THEN Mounted ELSE UNCHANGED wsVars

ListTaken(l) == Answer(l) /\ SeedTaken(l) /\ UNCHANGED wsVars

Opens == onopen /\ OnOpen /\ UNCHANGED peersVars

Closes == sock = "open" /\ onclose /\ OnClose /\ PresenceLost

Retries == Reconnect /\ UNCHANGED <<listVars, peersVars>>

FocusReads == onWindowFocus /\ OnFocus /\ UNCHANGED peersVars

LoseFocus == onWindowBlur /\ UNCHANGED <<listVars, peersVars>>

Lifecycle ==
  \/ OpenView \/ Opens \/ Retries
  \/ part # "unread" /\ Closes
  \/ (Auth \/ PollTick) /\ UNCHANGED <<wsVars, peersVars>>
  \/ \E l \in Load : ListTaken(l) \/ ListArrives(l) \/ ListFails(l)

MembersNext ==
  \/ HandleCreated \/ HandleRemoved
  \/ \E c \in Moving : Created(c) \/ Added(c) \/ Deleted(c) \/ Leave(c) \/ LeaveAnswered(c)
  \/ view = "on" /\ \E c \in Moving : CreateOwn(c)

UnreadNext ==
  \/ HandleMessage \/ markReadTimer \/ onMsgListScroll
  \/ (\A l \in Load : loads[l] = Idle) /\ SendLoads
  \/ \E c \in Chat : Posted(c) \/ Unposted(c) \/ Marked(c) \/ MarkFails(c)
  \/ \E c \in DOMAIN chats \cup {NoChat} : setActiveChat(c)

FlagsNext ==
  \/ \E c \in Moving : AskToggle(c)
  \/ \E t \in Toggle : Toggled(t) \/ ToggleAnswered(t) \/ ToggleFails(t)

OnlineNext ==
  \/ \E event \in presenceWire : HandlePresence(event)
  \/ \E u \in User : PresenceChanges(u)

TypingNext == \E u \in User : setTyping(u) \/ clearTyping(u) \/ \E t \in Timer : TypingExpires(t, u)

ListNext ==
  /\ part \in ListParts /\ UNCHANGED <<infoVars, dialogVars>>
  /\ \/ part # "typing" /\ Lifecycle
     \/ part = "members" /\ MembersNext /\ UNCHANGED <<wsVars, peersVars>>
     \/ part = "unread" /\ UnreadNext /\ UNCHANGED <<wsVars, peersVars>>
     \/ part = "unread" /\ (FocusReads \/ LoseFocus)
     \/ part = "flags" /\ FlagsNext /\ UNCHANGED <<wsVars, peersVars>>
     \/ part = "online" /\ OnlineNext /\ UNCHANGED <<wsVars, listVars>>
     \/ part = "typing" /\ TypingNext /\ UNCHANGED <<wsVars, listVars>>

DialogNext ==
  /\ part \notin ListParts /\ UNCHANGED clientVars
  /\ \/ part = "layers" /\ (LayersNext(Layer) \/ PanelNext)
     \/ part = "openings"
        /\ (LayersNext({"newChat", "invite", "userProfile"}) \/ OpeningsNext)
     \/ part \in InfoParts
        /\ (Escape \/ (InfoNext({part}) /\ UNCHANGED dialogVars))

Next == UNCHANGED part /\ (ListNext \/ DialogNext)

Spec == Init /\ [][Next]_vars

\* Every part of the view is of the shape the code gives it.
TypeOK == WsTypeOK /\ ListTypeOK /\ PeersTypeOK /\ InfoTypeOK /\ DialogsTypeOK
===============================================================================
