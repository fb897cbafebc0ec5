------------------------------- MODULE ChatList -------------------------------
(***************************************************************************)
(* stores/chats.ts and the events of useWebSocket that change it: which    *)
(* chats are listed, how many unread messages each shows and whether it is *)
(* pinned (favourite and muted are toggled alike).  The truth is at the    *)
(* server: answers of GET /chats are taken there at one time and arrive at *)
(* another, events come over the socket, and both replace what is shown.   *)
(* stale is the history of the chats such a crossing has touched.          *)
(***************************************************************************)
EXTENDS Chats, WsClient, Sequences

CONSTANTS
  Load,       \* bounds the loadChats calls in flight
  Toggle,     \* bounds the toggle calls in flight
  MaxWire,    \* bounds the events on the wire
  MaxNews     \* bounds the unread messages of a chat

ASSUME ListAssumption ==
  MaxWire \in Nat \ {0} /\ MaxNews \in Nat \ {0}

VARIABLES
  member,     \* server: this user in each chat, "none", "adding", "in" or "out"
  news,       \* server: the messages after last_read_msg_id
  pins,       \* server: the pinned chats
  authed,     \* server: the auth message of this socket was handled
  subs,       \* the chats this socket asked for, once authed those it receives
  wire,       \* the events sent to this socket
  chats,      \* the store's list: the entry of each listed chat
  activeChatId, isNearBottom,
  loads,      \* the loadChats calls
  toggles,    \* the toggle calls; live: the object it holds is still listed
  leaving,    \* the chats whose leave was done and not yet answered
  marks,      \* the markRead calls; overtaken: by a message
  pendingMarkReadChatId,   \* waits for markReadTimer
  stale

serverVars == <<member, news, pins, authed, subs>>
listVars == <<serverVars, wire, chats, activeChatId, isNearBottom, loads,
              toggles, leaving, marks, pendingMarkReadChatId, stale>>

Entry == [unread : Nat, pinned : BOOLEAN]
Nothing == [op |-> "none", chat |-> NoChat]
Idle == [state |-> "idle", list |-> <<>>, since |-> {}, after |-> Nothing]
NoToggle == [chat |-> NoChat, on |-> FALSE, done |-> FALSE, live |-> FALSE]

ListInit ==
  /\ member \in [Chat -> {"none", "in"}]
  /\ news = [c \in Chat |-> 0] /\ pins = {}
  /\ authed = FALSE /\ subs = {} /\ wire = <<>>
  /\ chats = <<>> /\ activeChatId = NoChat /\ isNearBottom = TRUE
  /\ loads = [l \in Load |-> Idle] /\ toggles = [t \in Toggle |-> NoToggle]
  /\ leaving = {} /\ marks = [c \in Chat |-> "none"]
  /\ pendingMarkReadChatId = NoChat /\ stale = {}

ListTypeOK ==
  /\ member \in [Chat -> {"none", "adding", "in", "out"}]
  /\ news \in [Chat -> 0..MaxNews] /\ pins \subseteq Chat /\ authed \in BOOLEAN
  /\ subs \subseteq Chat /\ Len(wire) <= MaxWire /\ stale \subseteq Chat
  /\ DOMAIN chats \subseteq Chat /\ \A c \in DOMAIN chats : chats[c] \in Entry
  /\ activeChatId \in Chat \cup {NoChat} /\ isNearBottom \in BOOLEAN
  /\ \A l \in Load : loads[l].state \in {"idle", "asked", "answered"}
  /\ \A t \in Toggle : toggles[t].chat \in Chat \cup {NoChat}
  /\ leaving \subseteq Chat /\ marks \in [Chat -> {"none", "asked", "overtaken"}]
  /\ pendingMarkReadChatId \in Chat \cup {NoChat}

Members == {c \in Chat : member[c] = "in"}

OnWire(types) ==
  {c \in Chat : \E i \in DOMAIN wire : wire[i].chat = c /\ wire[i].type \in types}

Membership == {"chat_created", "chat_deleted", "chat_member_left"}

-----------------------------------------------------------------------------
\* The server.  A change is in no answer taken before it.

Changed(c) ==
  loads' = [l \in Load |-> IF loads[l].state = "answered"
                           THEN [loads[l] EXCEPT !.since = @ \cup {c}] ELSE loads[l]]

Reaches(type, c) == authed /\ (type \in Membership \/ c \in subs)

Publish(type, c) ==
  IF Reaches(type, c)
  THEN Len(wire) < MaxWire /\ wire' = Append(wire, [type |-> type, chat |-> c])
  ELSE UNCHANGED wire

\* The socket's auth message, and the subscribe messages sent after it.
Auth ==
  /\ sock = "open" /\ ~authed
  /\ authed' = TRUE /\ subs' = subs \cap Members
  /\ UNCHANGED <<member, news, pins, wire, chats, activeChatId, isNearBottom, loads,
                 toggles, leaving, marks, pendingMarkReadChatId, stale>>

\* Somebody creates a chat with this user: chat_created goes out while the
\* insert of the member is still under way.
Created(c) ==
  /\ member[c] = "none"
  /\ member' = [member EXCEPT ![c] = "adding"]
  /\ Publish("chat_created", c)
  /\ UNCHANGED <<news, pins, authed, subs, chats, activeChatId, isNearBottom, loads,
                 toggles, leaving, marks, pendingMarkReadChatId, stale>>

Added(c) ==
  /\ member[c] = "adding"
  /\ member' = [member EXCEPT ![c] = "in"]
  /\ Changed(c)
  /\ stale' = stale \cup ({c} \ OnWire(Membership))
  /\ UNCHANGED <<news, pins, authed, subs, wire, chats, activeChatId, isNearBottom,
                 toggles, leaving, marks, pendingMarkReadChatId>>

\* The owner deletes the chat; ids are never used again.
Deleted(c) ==
  /\ member[c] = "in"
  /\ member' = [member EXCEPT ![c] = "out"]
  /\ Publish("chat_deleted", c)
  /\ Changed(c)
  /\ stale' = stale \cup (IF authed THEN {} ELSE {c})
  /\ UNCHANGED <<news, pins, authed, subs, chats, activeChatId, isNearBottom,
                 toggles, leaving, marks, pendingMarkReadChatId>>

\* A message of somebody else.
Posted(c) ==
  /\ member[c] = "in" /\ news[c] < MaxNews
  /\ news' = [news EXCEPT ![c] = @ + 1]
  /\ Publish("message", c)
  /\ Changed(c)
  /\ stale' = stale \cup (IF Reaches("message", c) THEN {} ELSE {c})
  /\ marks' = [marks EXCEPT ![c] = IF @ = "none" THEN @ ELSE "overtaken"]
  /\ UNCHANGED <<member, pins, authed, subs, chats, activeChatId, isNearBottom,
                 toggles, leaving, pendingMarkReadChatId>>

\* One of the unread messages is deleted for everyone, or the user reads the chat on
\* another device: no event touches the badge.  (Bounds the badge: not twice before the
\* list is answered again.)
Unposted(c) ==
  /\ news[c] > 0 /\ c \notin stale
  /\ \E left \in {news[c] - 1, 0} : news' = [news EXCEPT ![c] = left]
  /\ Changed(c)
  /\ stale' = stale \cup {c}
  /\ UNCHANGED <<member, pins, authed, subs, wire, chats, activeChatId, isNearBottom,
                 toggles, leaving, marks, pendingMarkReadChatId>>

-----------------------------------------------------------------------------
\* loadChats.  A failure is logged and swallowed: what comes after goes on.

\* The slots are alike: a call takes any free one.
Free(slots, none) == {s \in DOMAIN slots : slots[s] = none}
Slot(slots, none) == CHOOSE s \in Free(slots, none) : TRUE

Asked(after) == [Idle EXCEPT !.state = "asked", !.after = after]

Ask(after) ==
  /\ Free(loads, Idle) # {}
  /\ loads' = [loads EXCEPT ![Slot(loads, Idle)] = Asked(after)]

\* The server lists this user's chats (the archived ones apart: no component emits the
\* event that archives one).
Answer(l) ==
  /\ loads[l].state = "asked"
  /\ loads' = [loads EXCEPT ![l].state = "answered",
        ![l].list = [c \in Members |-> [unread |-> news[c], pinned |-> c \in pins]],
        ![l].since = OnWire({"message"})]
  /\ UNCHANGED <<serverVars, wire, chats, activeChatId, isNearBottom, toggles, leaving,
                 marks, pendingMarkReadChatId, stale>>

\* markRead(c), at most one in flight per chat: the server will mark whatever
\* is there when it runs.
AskMark(c) ==
  /\ marks[c] = "none"
  /\ marks' = [marks EXCEPT ![c] = IF c \in OnWire({"message"}) THEN "overtaken" ELSE "asked"]

\* Mutant: one message is taken off the badge.
NoUnreadByOne(list, c) ==
  IF c \in DOMAIN list THEN [list EXCEPT ![c].unread = @ - 1] ELSE list

NoUnread(list, c) == IF c \in DOMAIN list THEN [list EXCEPT ![c].unread = 0] ELSE list

\* Mutant: opening a chat marks it read at the server only.
OpenedKeepsBadge(list, after) == list

\* The list after setActiveChat, if that comes after the load.
Opened(list, after) == IF after.op = "open" THEN NoUnread(list, after.chat) ELSE list

\* subscribeToChat, setActiveChat, or nothing.
After(after) ==
  /\ subs' = IF after.op = "subscribe" /\ sock = "open"
             THEN subs \cup (IF authed THEN {after.chat} \cap Members ELSE {after.chat})
             ELSE subs
  /\ IF after.op = "open" THEN activeChatId' = after.chat /\ AskMark(after.chat)
                          ELSE UNCHANGED <<activeChatId, marks>>

\* Mutant: the answer is merged into the list.
LoadArrivesMerged(l) ==
  /\ loads[l].state = "answered"
  /\ chats' = Opened([c \in DOMAIN chats \cup DOMAIN loads[l].list |->
                IF c \in DOMAIN loads[l].list THEN loads[l].list[c] ELSE chats[c]], loads[l].after)
  /\ loads' = [loads EXCEPT ![l] = Idle]
  /\ After(loads[l].after)
  /\ toggles' = [t \in Toggle |-> [toggles[t] EXCEPT !.live = FALSE]]
  /\ stale' = {c \in loads[l].since : c \notin OnWire(Membership) \cup leaving}
              \cup {c \in Chat : marks[c] # "none" \/ pendingMarkReadChatId = c}
  /\ UNCHANGED <<member, news, pins, authed, wire, isNearBottom, leaving,
                 pendingMarkReadChatId>>

LoadArrives(l) ==
  /\ loads[l].state = "answered"
  /\ chats' = Opened(loads[l].list, loads[l].after)
  /\ loads' = [loads EXCEPT ![l] = Idle]
  /\ After(loads[l].after)
  /\ toggles' = [t \in Toggle |-> [toggles[t] EXCEPT !.live = FALSE]]
  /\ stale' = {c \in loads[l].since : c \notin OnWire(Membership) \cup leaving}
              \cup {c \in Chat : marks[c] # "none" \/ pendingMarkReadChatId = c}
  /\ UNCHANGED <<member, news, pins, authed, wire, isNearBottom, leaving,
                 pendingMarkReadChatId>>

LoadFails(l) ==
  /\ loads[l].state = "asked"
  /\ chats' = Opened(chats, loads[l].after)
  /\ loads' = [loads EXCEPT ![l] = Idle]
  /\ After(loads[l].after)
  /\ stale' = stale \cup (IF loads[l].after.op = "mount" THEN Chat ELSE {loads[l].after.chat} \cap Chat)
  /\ UNCHANGED <<member, news, pins, authed, wire, isNearBottom, toggles, leaving,
                 pendingMarkReadChatId>>

-----------------------------------------------------------------------------
\* The events.

Received(type) == wire # <<>> /\ Head(wire).type = type /\ wire' = Tail(wire)

HandleCreated ==
  /\ Received("chat_created")
  /\ Ask([op |-> "subscribe", chat |-> Head(wire).chat])
  /\ UNCHANGED <<serverVars, chats, activeChatId, isNearBottom, toggles, leaving,
                 marks, pendingMarkReadChatId, stale>>

removeChatLocal(c) ==
  /\ chats' = [d \in DOMAIN chats \ {c} |-> chats[d]]
  /\ activeChatId' = IF activeChatId = c THEN NoChat ELSE activeChatId
  /\ toggles' = [t \in Toggle |-> IF toggles[t].chat = c
                                  THEN [toggles[t] EXCEPT !.live = FALSE] ELSE toggles[t]]

HandleRemoved ==
  /\ Received("chat_deleted") \/ Received("chat_member_left")
  /\ removeChatLocal(Head(wire).chat)
  /\ UNCHANGED <<serverVars, isNearBottom, loads, leaving, marks,
                 pendingMarkReadChatId, stale>>

willBeRead(c) ==
  c = activeChatId /\ isPresenceActive /\ windowHasFocus /\ isNearBottom

\* debouncedMarkRead: one timer for all chats, the last one named is marked; a
\* badge the open chat still shows stays.
HandleMessage ==
  /\ Received("message")
  /\ LET c == Head(wire).chat IN
       IF willBeRead(c)
       THEN /\ pendingMarkReadChatId' = c
            /\ stale' = stale \cup ({pendingMarkReadChatId} \ {c, NoChat})
                            \cup {d \in {c} \cap DOMAIN chats : chats[d].unread > 0}
            /\ UNCHANGED chats
       ELSE /\ chats' = IF c \in DOMAIN chats THEN [chats EXCEPT ![c].unread = @ + 1] ELSE chats
            /\ stale' = stale \cup ({pendingMarkReadChatId} \cap {c})
            /\ UNCHANGED pendingMarkReadChatId
  /\ UNCHANGED <<serverVars, activeChatId, isNearBottom, loads, toggles, leaving, marks>>

-----------------------------------------------------------------------------
\* Reading.

markReadTimer ==
  /\ pendingMarkReadChatId # NoChat
  /\ AskMark(pendingMarkReadChatId)
  /\ pendingMarkReadChatId' = NoChat
  /\ UNCHANGED <<serverVars, wire, chats, activeChatId, isNearBottom, loads, toggles,
                 leaving, stale>>

Marked(c) ==
  /\ marks[c] # "none"
  /\ marks' = [marks EXCEPT ![c] = "none"]
  /\ news' = [news EXCEPT ![c] = 0]
  /\ Changed(c)
  /\ stale' = stale \cup (IF marks[c] = "overtaken" THEN {c} ELSE {})
  /\ UNCHANGED <<member, pins, authed, subs, wire, chats, activeChatId, isNearBottom,
                 toggles, leaving, pendingMarkReadChatId>>

MarkFails(c) ==
  /\ marks[c] # "none"
  /\ marks' = [marks EXCEPT ![c] = "none"]
  /\ stale' = stale \cup {c}
  /\ UNCHANGED <<serverVars, wire, chats, activeChatId, isNearBottom, loads, toggles,
                 leaving, pendingMarkReadChatId>>

\* A chat of the list is clicked, or the panel is closed (NoChat).
setActiveChat(c) ==
  /\ activeChatId' = c
  /\ chats' = Opened(chats, [op |-> "open", chat |-> c])
  /\ IF c = NoChat THEN UNCHANGED marks ELSE AskMark(c)
  /\ UNCHANGED <<serverVars, wire, isNearBottom, loads, toggles, leaving,
                 pendingMarkReadChatId, stale>>

\* Near the bottom, on focus or when the document is shown: what is open is read.
ReadActive(near) ==
  IF activeChatId = NoChat \/ ~near
  THEN UNCHANGED <<chats, marks>>
  ELSE chats' = NoUnread(chats, activeChatId) /\ AskMark(activeChatId)

onMsgListScroll ==
  /\ activeChatId # NoChat
  /\ isNearBottom' \in BOOLEAN
  /\ ReadActive(isNearBottom')
  /\ UNCHANGED <<serverVars, wire, activeChatId, loads, toggles, leaving,
                 pendingMarkReadChatId, stale>>

-----------------------------------------------------------------------------
\* Calls of the user.

\* createChat, joinInvite: the chat is there when the answer comes, then it
\* is loaded and opened.
CreateOwn(c) ==
  /\ member[c] = "none"
  /\ member' = [member EXCEPT ![c] = "in"]
  /\ Publish("chat_created", c)
  /\ Free(loads, Idle) # {}
  /\ loads' = [l \in Load |->
       IF l = Slot(loads, Idle) THEN Asked([op |-> "open", chat |-> c])
       ELSE IF loads[l].state = "answered" THEN [loads[l] EXCEPT !.since = @ \cup {c}]
       ELSE loads[l]]
  /\ stale' = stale \cup (IF authed THEN {} ELSE {c})
  /\ UNCHANGED <<news, pins, authed, subs, chats, activeChatId, isNearBottom, toggles,
                 leaving, marks, pendingMarkReadChatId>>

\* leave and deleteChat: done at the server, then removed from the list.
Leave(c) ==
  /\ c \in DOMAIN chats /\ member[c] = "in"
  /\ member' = [member EXCEPT ![c] = "out"]
  /\ Publish("chat_member_left", c)
  /\ Changed(c)
  /\ leaving' = leaving \cup {c}
  /\ UNCHANGED <<news, pins, authed, subs, chats, activeChatId, isNearBottom, toggles,
                 marks, pendingMarkReadChatId, stale>>

LeaveAnswered(c) ==
  /\ c \in leaving
  /\ leaving' = leaving \ {c}
  /\ removeChatLocal(c)
  /\ UNCHANGED <<serverVars, wire, isNearBottom, loads, marks, pendingMarkReadChatId, stale>>

\* togglePin reads the flag of the object it holds, then asks for its opposite.
AskToggle(c) ==
  /\ Free(toggles, NoToggle) # {} /\ c \in DOMAIN chats
  /\ toggles' = [toggles EXCEPT ![Slot(toggles, NoToggle)] =
       [chat |-> c, on |-> ~chats[c].pinned, done |-> FALSE, live |-> TRUE]]
  /\ stale' = stale \cup (IF \E u \in Toggle : toggles[u].chat = c THEN {c} ELSE {})
  /\ UNCHANGED <<serverVars, wire, chats, activeChatId, isNearBottom, loads, leaving,
                 marks, pendingMarkReadChatId>>

Toggled(t) ==
  /\ toggles[t].chat # NoChat /\ ~toggles[t].done
  /\ toggles' = [toggles EXCEPT ![t].done = TRUE]
  /\ pins' = IF toggles[t].on THEN pins \cup {toggles[t].chat} ELSE pins \ {toggles[t].chat}
  /\ Changed(toggles[t].chat)
  /\ UNCHANGED <<member, news, authed, subs, wire, chats, activeChatId, isNearBottom,
                 leaving, marks, pendingMarkReadChatId, stale>>

\* The answer flips the object, which a load may have taken out of the list.
ToggleAnswered(t) ==
  /\ toggles[t].done
  /\ LET c == toggles[t].chat IN
       /\ chats' = IF toggles[t].live THEN [chats EXCEPT ![c].pinned = ~@] ELSE chats
       /\ stale' = stale \cup (IF toggles[t].live THEN {} ELSE {c})
  /\ toggles' = [toggles EXCEPT ![t] = NoToggle]
  /\ UNCHANGED <<serverVars, wire, activeChatId, isNearBottom, loads, leaving, marks,
                 pendingMarkReadChatId>>

\* The request is refused, or its answer is lost: the flag stays as it is shown.
ToggleFails(t) ==
  /\ toggles[t].chat # NoChat
  /\ stale' = stale \cup (IF toggles[t].done THEN {toggles[t].chat} ELSE {})
  /\ toggles' = [toggles EXCEPT ![t] = NoToggle]
  /\ UNCHANGED <<serverVars, wire, chats, activeChatId, isNearBottom, loads, leaving,
                 marks, pendingMarkReadChatId>>

-----------------------------------------------------------------------------
\* What the socket's own steps do to the list.

OnOpen ==
  /\ subs' = DOMAIN chats
  /\ IF hasConnectedBefore THEN Ask(Nothing) ELSE UNCHANGED loads
  /\ UNCHANGED <<member, news, pins, authed, wire, chats, activeChatId, isNearBottom,
                 toggles, leaving, marks, pendingMarkReadChatId, stale>>

OnClose ==
  /\ authed' = FALSE /\ subs' = {} /\ wire' = <<>>
  /\ stale' = stale \cup OnWire(Membership \cup {"message"})
  /\ UNCHANGED <<member, news, pins, chats, activeChatId, isNearBottom, loads, toggles,
                 leaving, marks, pendingMarkReadChatId>>

PollTick ==
  /\ fallbackPollTimer
  /\ Ask(Nothing)
  /\ UNCHANGED <<serverVars, wire, chats, activeChatId, isNearBottom, toggles, leaving,
                 marks, pendingMarkReadChatId, stale>>

\* Sending into the open chat ends with loadChats.
SendLoads ==
  /\ activeChatId # NoChat
  /\ Ask(Nothing)
  /\ UNCHANGED <<serverVars, wire, chats, activeChatId, isNearBottom, toggles, leaving,
                 marks, pendingMarkReadChatId, stale>>

OnFocus ==
  /\ ReadActive(isNearBottom)
  /\ UNCHANGED <<serverVars, wire, activeChatId, isNearBottom, loads, toggles, leaving,
                 pendingMarkReadChatId, stale>>

-----------------------------------------------------------------------------
\* Nothing is under way that will still change the list.
Settled ==
  /\ authed /\ wire = <<>> /\ leaving = {} /\ pendingMarkReadChatId = NoChat
  /\ \A l \in Load : loads[l] = Idle
  /\ \A t \in Toggle : toggles[t] = NoToggle
  /\ \A c \in Chat : marks[c] = "none" /\ member[c] # "adding"

\* Once everything has settled the list shows this user's chats, and no other.
\* It may be wrong only about a chat whose change was announced while nobody
\* listened, or crossed an answer taken before it.
ListIsMine == Settled => \A c \in Chat \ stale : c \in DOMAIN chats <=> c \in Members

\* The badge of a chat counts the messages the server holds for unread, unless
\* a message or a read of the chat crossed a load, a markRead or the one timer,
\* or a markRead failed, or an unread message was deleted or read elsewhere after
\* the list was last answered: no event ever takes a badge down.
UnreadRight == Settled => \A c \in DOMAIN chats \ stale : chats[c].unread = news[c]

\* The flag shown is the server's, unless two toggles of the chat overlapped, a load
\* replaced the entry under a toggle, or the answer of one was lost.
FlagRight == Settled => \A c \in DOMAIN chats \ stale : chats[c].pinned <=> c \in pins

\* Badge and flag of each entry are right.
EntriesRight == UnreadRight /\ FlagRight

\* "Subscribe to all chats": a settled connection receives the messages of
\* every chat in the list.
AllSubscribed == Settled => DOMAIN chats \cap Members \subseteq subs

===============================================================================
