------------------------------- MODULE Delivery -------------------------------
(***************************************************************************)
(* How the messages of a chat reach a client that has the chat open:        *)
(* MessagesController writes the row and publishes the event, Redis passes  *)
(* it to the process that holds the client's WebSocket, WsHandler sends it  *)
(* to the subscribed connection, and the store of ChatView.tla shows it.    *)
(* Beside that path the client asks the server for pages over HTTP: when    *)
(* the chat is opened, when the socket comes back, and, as long as it is    *)
(* down, every few seconds.                                                 *)
(*                                                                          *)
(* The process publishes over four Redis connections, so events are not     *)
(* ordered until they reach the socket; a socket keeps the order.  Rows are *)
(* committed in any order, though their ids were drawn in sequence, and of  *)
(* two INSERTs at a time the one that started first may draw the higher id. *)
(* A message hidden by one user for himself and the contents of a message   *)
(* are left out.                                                            *)
(***************************************************************************)
EXTENDS Naturals, FiniteSets, Sequences

CONSTANTS
  MaxId,  \* bound on the messages
  Earlier,\* how many of them the chat has to begin with
  Own,    \* bound: which of them the client itself may send
  Load,   \* bound on the page loads in flight
  Limit,  \* messages in a page
  Context,\* how far in front of a message the page of a jump begins
  Backlog,\* bound on the events sent to the client and not handled
  Scrolls,\* bound: whether the user scrolls up for older messages
  Jumps,  \* bound: whether the user jumps to a message that is not on screen
  Swaps,  \* bound: whether creation times may be in another order than ids
  Year    \* the number a creation time starts with: what the server reads as "before"

Id == 1 .. MaxId

ASSUME LimitAssumption ==
  MaxId \in Nat /\ Earlier \in 0 .. MaxId /\ Own \subseteq Id /\ Limit \in Nat \ {0}
  /\ Backlog \in Nat \ {0} /\ Context \in Nat /\ Year \in Nat
  /\ Scrolls \in BOOLEAN /\ Jumps \in BOOLEAN /\ Swaps \in BOOLEAN

VARIABLES
  view, cursor, loadingChat, load, detached, olderArray, replaced, \* the store: ChatView.tla
  after,       \* the resume point a newer load was asked with, the message a jump is to
  read,        \* the server has answered the load
  answer,      \* with these messages
  replies,     \* the client's own messages whose answer is under way
  createdAt,   \* when the INSERT of each message starts: the order of its created_at
  drawn,       \* last id drawn from the sequence
  inserting,   \* ids drawn for rows that are not committed
  mine,        \* ids drawn for the client's own messages
  rows,        \* committed rows the client's user may read
  publishing,  \* events on their way through Redis
  link,        \* the client's WebSocket: "down" or "up"
  subscription,\* of its connection: "none", "asked" (until events reach it) or "on"
  wire,        \* events sent to the client and not handled
  connectedBefore, \* hasConnectedBefore
  overtaken    \* history: rows committed when the INSERT of a higher id was over

store   == <<view, cursor, loadingChat, load, detached, olderArray, replaced>>
http    == <<after, read, answer, replies>>
db      == <<createdAt, drawn, inserting, mine, rows, overtaken>>
socket  == <<link, subscription, wire, connectedBefore>>
vars    == <<store, http, db, publishing, socket>>

Store == INSTANCE ChatView

Event == [type : {"message", "message_deleted"}, id : Id]
Message(m)        == [type |-> "message", id |-> m]
MessageDeleted(m) == [type |-> "message_deleted", id |-> m]

TypeOK ==
  /\ Store!TypeOK
  /\ after \in [Load -> 0 .. MaxId]
  /\ read \in [Load -> BOOLEAN]
  /\ answer \in [Load -> SUBSET Id]
  /\ replies \subseteq mine
  /\ createdAt \in [Id -> Id]
  /\ drawn \in 0 .. MaxId
  /\ inserting \subseteq 1 .. drawn
  /\ mine \subseteq 1 .. drawn
  /\ rows \subseteq (1 .. drawn) \ inserting
  /\ publishing \subseteq Event
  /\ link \in {"down", "up"}
  /\ subscription \in IF link = "up" THEN {"none", "asked", "on"} ELSE {"none"}
  /\ wire \in Seq(Event)
  /\ connectedBefore \in BOOLEAN
  /\ overtaken \subseteq Id

Init ==
  /\ Store!Init
  /\ after = [l \in Load |-> 0]
  /\ read = [l \in Load |-> FALSE]
  /\ answer = [l \in Load |-> {}]
  /\ replies = {}
  /\ createdAt \in [Id -> Id]
  /\ \A m, n \in Id : m # n => createdAt[m] # createdAt[n]
  /\ \A m \in Id : m <= Earlier \/ ~Swaps => createdAt[m] = m
  /\ drawn = Earlier
  /\ rows = 1 .. Earlier
  /\ inserting = {} /\ mine = {} /\ overtaken = {}
  /\ publishing = {}
  /\ link = "down"
  /\ subscription = "none"
  /\ wire = <<>>
  /\ connectedBefore = FALSE

-------------------------------------------------------------------------------
(* MessagesController. *)

\* sendMessage up to its INSERT, by the client itself or by another member.
SendMessage(byClient) ==
  /\ drawn < MaxId
  /\ drawn' = drawn + 1
  /\ byClient => drawn' \in Own
  /\ inserting' = inserting \cup {drawn'}
  /\ mine' = IF byClient THEN mine \cup {drawn'} ELSE mine
  /\ UNCHANGED <<store, http, createdAt, rows, overtaken, publishing, socket>>

\* The row is committed; the callback publishes it and answers the sender.
Inserted(m) ==
  /\ m \in inserting
  /\ inserting' = inserting \ {m}
  /\ rows' = rows \cup {m}
  /\ publishing' = publishing \cup {Message(m)}
  /\ replies' = IF m \in mine THEN replies \cup {m} ELSE replies
  /\ overtaken' = IF \E n \in 1 .. drawn \ inserting : n > m
                  THEN overtaken \cup {m} ELSE overtaken
  /\ UNCHANGED <<store, after, read, answer, createdAt, drawn, mine, socket>>

InsertFailed(m) ==
  /\ m \in inserting
  /\ inserting' = inserting \ {m}
  /\ UNCHANGED <<store, http, createdAt, drawn, mine, rows, overtaken, publishing, socket>>

\* deleteMessage for everyone, by another member.
DeleteMessage(m) ==
  /\ m \in rows
  /\ rows' = rows \ {m}
  /\ publishing' = publishing \cup {MessageDeleted(m)}
  /\ UNCHANGED <<store, http, createdAt, drawn, inserting, mine, overtaken, socket>>

Newest(messages, n) ==
  {m \in messages : Cardinality({k \in messages : createdAt[k] > createdAt[m]}) < n}
Oldest(messages, n) ==
  {m \in messages : Cardinality({k \in messages : createdAt[k] < createdAt[m]}) < n}

\* Mutant: the page from an id on, that id included.
ListMessagesFrom(l) ==
  CASE load[l] = "full"  -> Newest(rows, Limit)
    [] load[l] = "newer" -> Oldest({m \in rows : m >= after[l]}, Limit)
    [] load[l] = "older" -> Newest({m \in rows : m < Year}, Limit)
    [] load[l] = "jump"  -> Oldest({m \in rows : m + Context > after[l]}, Limit)

\* Mutant: the newest page of what is missing.
ListMessagesNewest(l) ==
  CASE load[l] = "full"  -> Newest(rows, Limit)
    [] load[l] = "newer" -> Newest({m \in rows : m > after[l]}, Limit)
    [] load[l] = "older" -> Newest({m \in rows : m < Year}, Limit)
    [] load[l] = "jump"  -> Oldest({m \in rows : m + Context > after[l]}, Limit)

\* The pages, by creation time: the newest one, the one after an id, the one "before"
\* a creation time, of which the server reads the digits in front and takes them for
\* an id, and for a jump the one after the id that lies Context in front of its message.
ListMessages(l) ==
  CASE load[l] = "full"  -> Newest(rows, Limit)
    [] load[l] = "newer" -> Oldest({m \in rows : m > after[l]}, Limit)
    [] load[l] = "older" -> Newest({m \in rows : m < Year}, Limit)
    [] load[l] = "jump"  -> Oldest({m \in rows : m + Context > after[l]}, Limit)

AnswerLoad(l) ==
  /\ load[l] # "none" /\ ~read[l]
  /\ read' = [read EXCEPT ![l] = TRUE]
  /\ answer' = [answer EXCEPT ![l] = ListMessages(l)]
  /\ UNCHANGED <<store, after, replies, db, publishing, socket>>

-------------------------------------------------------------------------------
(* WsDispatch and WsHandler. *)

\* An event passes through Redis; broadcast sends it to the connection if the
\* process listens to the channel and the connection is subscribed.
Publish(e) ==
  /\ e \in publishing
  /\ Len(wire) < Backlog
  /\ publishing' = publishing \ {e}
  /\ wire' = IF subscription = "on" THEN Append(wire, e) ELSE wire
  /\ UNCHANGED <<store, http, db, link, subscription, connectedBefore>>

\* The PUBLISH failed, which is only logged.
PublishError(e) ==
  /\ e \in publishing
  /\ publishing' = publishing \ {e}
  /\ UNCHANGED <<store, http, db, socket>>

\* The membership query of subscribe came back, the connection is entered, and
\* the process listens to the channel.
Subscribed ==
  /\ subscription = "asked"
  /\ subscription' = "on"
  /\ UNCHANGED <<store, http, db, publishing, link, wire, connectedBefore>>

-------------------------------------------------------------------------------
(* The client: requests. *)

Over(l) ==
  /\ after' = [after EXCEPT ![l] = 0]
  /\ read' = [read EXCEPT ![l] = FALSE]
  /\ answer' = [answer EXCEPT ![l] = {}]
  /\ UNCHANGED replies

\* The chat becomes the active one.
OpenChat(l) ==
  /\ Store!LoadMessages(l)
  /\ UNCHANGED <<http, db, publishing, socket>>

ScrollToTop(l) ==
  /\ Scrolls
  /\ Store!LoadOlder(l)
  /\ UNCHANGED <<http, db, publishing, socket>>

\* The user clicks a quoted, pinned or found message that is not on screen; it may be
\* gone by now.
Jump(l, m) ==
  /\ Jumps
  /\ m \in 1 .. drawn \ inserting /\ m \notin Store!Shown
  /\ Store!JumpTo(l)
  /\ after' = [after EXCEPT ![l] = m]
  /\ UNCHANGED <<read, answer, replies, db, publishing, socket>>

RequestNewer(l) ==
  /\ Store!LoadNewer(l)
  /\ after' = [after EXCEPT ![l] = cursor]
  /\ UNCHANGED <<read, answer, replies>>

\* A tick of the fallback poll, once the socket has been down for ten seconds; a
\* first connection that fails starts it too.
Poll(l) ==
  /\ link = "down"
  /\ RequestNewer(l)
  /\ UNCHANGED <<db, publishing, socket>>

\* The socket opens: authenticate, subscribe, and after a reconnect ask once for
\* what came in the meantime.
Connect ==
  /\ link = "down"
  /\ link' = "up"
  /\ subscription' = "asked"
  /\ connectedBefore' = TRUE
  /\ IF connectedBefore /\ cursor # 0
     THEN \E l \in Load : RequestNewer(l)
     ELSE UNCHANGED <<store, http>>
  /\ UNCHANGED <<db, publishing, wire>>

\* Mutant: the connection ends and its subscription stays.
DisconnectSubscribed ==
  /\ link = "up"
  /\ link' = "down"
  /\ wire' = <<>>
  /\ UNCHANGED <<store, http, db, publishing, subscription, connectedBefore>>

\* The connection ends; what it had not delivered is gone, and so is its
\* subscription.
Disconnect ==
  /\ link = "up"
  /\ link' = "down"
  /\ subscription' = "none"
  /\ wire' = <<>>
  /\ UNCHANGED <<store, http, db, publishing, connectedBefore>>

-------------------------------------------------------------------------------
(* The client: what arrives. *)

ReceiveAnswer(l) ==
  /\ read[l]
  /\ \/ Store!MessagesLoaded(l, answer[l])
     \/ Store!NewerLoaded(l, answer[l])
     \/ Store!OlderLoaded(l, answer[l])
     \/ after[l] \in answer[l] /\ Store!JumpLoaded(l, answer[l])
     \/ load[l] = "jump" /\ after[l] \notin answer[l] /\ Store!LoadFailed(l)
  /\ Over(l)
  /\ UNCHANGED <<db, publishing, socket>>

RequestFailed(l) ==
  /\ Store!LoadFailed(l)
  /\ Over(l)
  /\ UNCHANGED <<db, publishing, socket>>

HandleMessage ==
  /\ wire # <<>>
  /\ LET e == Head(wire) IN
       IF e.type = "message" THEN Store!PushMessage(e.id) ELSE Store!RemoveMessage(e.id)
  /\ wire' = Tail(wire)
  /\ UNCHANGED <<http, db, publishing, link, subscription, connectedBefore>>

ReceiveReply(m) ==
  /\ m \in replies
  /\ Store!MessageSent(m)
  /\ replies' = replies \ {m}
  /\ UNCHANGED <<after, read, answer, db, publishing, socket>>

ReplyLost(m) ==
  /\ m \in replies
  /\ replies' = replies \ {m}
  /\ UNCHANGED <<store, after, read, answer, db, publishing, socket>>

\* The process dies with everything it held.  A row whose INSERT was under way
\* may be committed without ever being published.
Crash(committed) ==
  /\ committed \subseteq inserting
  /\ rows' = rows \cup committed
  /\ inserting' = {}
  /\ overtaken' = overtaken \cup
       {m \in committed : \E n \in (1 .. drawn \ inserting) \cup committed : n > m}
  /\ publishing' = {}
  /\ replies' = {}
  /\ link' = "down" /\ subscription' = "none"
  /\ wire' = <<>>
  /\ UNCHANGED <<store, after, read, answer, createdAt, drawn, mine, connectedBefore>>

-------------------------------------------------------------------------------
Request(l) ==
  OpenChat(l) \/ ScrollToTop(l) \/ Poll(l) \/ \E m \in Id : Jump(l, m)

\* What goes wrong only by a failure.
Failure ==
  \/ \E m \in Id : InsertFailed(m)
  \/ \E e \in publishing : PublishError(e)
  \/ \E l \in Load : RequestFailed(l)
  \/ \E m \in replies : ReplyLost(m)
  \/ \E committed \in SUBSET inserting : Crash(committed)

Normal ==
  \/ \E byClient \in BOOLEAN : SendMessage(byClient)
  \/ \E m \in Id : Inserted(m) \/ DeleteMessage(m)
  \/ \E e \in publishing : Publish(e)
  \/ \E l \in Load : Request(l) \/ AnswerLoad(l) \/ ReceiveAnswer(l)
  \/ \E m \in replies : ReceiveReply(m)
  \/ HandleMessage
  \/ Subscribed
  \/ Connect
  \/ Disconnect

Next == Normal \/ Failure

Spec == Init /\ [][Next]_vars

\* Without failures: what the protocol itself does to the messages.
CalmSpec == Init /\ [][Normal]_vars

\* The poll timer ticks as long as the socket is down (strong fairness, as other
\* requests may hold the slots of Load at times, which do not exist in the code),
\* every request is answered or fails, and polls that are made again and again do
\* not all fail.
Fairness ==
  /\ SF_vars(\E l \in Load : Poll(l))
  /\ \A l \in Load : /\ SF_vars(load[l] = "newer" /\ AnswerLoad(l))
                     /\ SF_vars(load[l] = "newer" /\ ReceiveAnswer(l))
                     /\ WF_vars(AnswerLoad(l) \/ ReceiveAnswer(l) \/ RequestFailed(l))

FairSpec == Spec /\ Fairness

-------------------------------------------------------------------------------
(* Properties. *)

\* A message with a higher id was created earlier.
Swapped(m) == \E n \in Id : n > m /\ createdAt[n] < createdAt[m]

\* An answer to loadNewer raises the resume point only past messages that are
\* shown from then on, whatever was deleted, sent or reloaded meanwhile; only a
\* row that was committed, or created, later than one with a higher id is passed.
NewerSkipsNothing ==
  [][\A l \in Load :
       load[l] = "newer" /\ read[l] /\ load'[l] = "none" /\ cursor' # cursor
       => \A m \in rows : after[l] < m /\ m <= cursor'
                       => m \in Store!Held(view') \cup overtaken \/ Swapped(m)]_vars

\* While the socket is down, polling shows every message above the resume point,
\* except one committed or created out of order and one older than a message the
\* client sent itself meanwhile.
CatchUp ==
  \A m \in Id :
    (m \in rows /\ 0 < cursor /\ cursor < m /\ link = "down")
    ~> \/ m \in Store!Shown
       \/ m \notin rows
       \/ link = "up"
       \/ m \in overtaken \/ Swapped(m)
       \/ \E n \in mine : n > m
       \/ \A n \in Store!Shown : m < n

\* "GET /chats/{id}/messages?limit=50&before=<id>": the older page is the page in
\* front of the oldest message shown.
OlderPageAdjoins ==
  [][\A l \in Load :
       load[l] = "older" /\ ~read[l] /\ read'[l] /\ ~detached
       => answer'[l] = Newest({m \in rows : \A n \in Store!Shown : m < n}, Limit)]_vars

===============================================================================
