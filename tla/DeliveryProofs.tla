---------------------------- MODULE DeliveryProofs ----------------------------
(***************************************************************************)
(* What is proved of the way of a message to the client, for any messages,  *)
(* any page size, any number of loads in flight and every failure.          *)
(***************************************************************************)
EXTENDS Delivery, FiniteSetTheorems, TLAPS

\* The properties of the store, which hold for any answers.
View == INSTANCE ChatViewProofs

\* What a step may be to the store.
LEMMA StepOfStore ==
  ASSUME TypeOK, [Next]_vars
  PROVE  [Store!Next]_(Store!vars)
<1> SUFFICES ASSUME ~(UNCHANGED store) PROVE Store!Next
  BY DEF store, Store!vars, Store!loads
<1> USE DEF store, socket, http, db
<1>1. ASSUME NEW l \in Load, Request(l) PROVE Store!Next
  BY <1>1 DEF Request, OpenChat, ScrollToTop, Jump, Poll, RequestNewer, Store!Next
<1>2. CASE Connect
  BY <1>2 DEF Connect, RequestNewer, Store!Next
<1>3. ASSUME NEW l \in Load, ReceiveAnswer(l) PROVE Store!Next
  <2>1. answer[l] \in SUBSET Id
    BY DEF TypeOK
  <2> QED
    BY <1>3, <2>1 DEF ReceiveAnswer, Store!Next
<1>4. ASSUME NEW l \in Load, RequestFailed(l) PROVE Store!Next
  BY <1>4 DEF RequestFailed, Store!Next
<1>5. CASE HandleMessage
  <2>1. Head(wire) \in Event
    BY <1>5 DEF HandleMessage, TypeOK
  <2>2. Head(wire).id \in Id
    BY <2>1 DEF Event
  <2> QED
    BY <1>5, <2>2 DEF HandleMessage, Store!Next
<1>6. ASSUME NEW m \in replies, ReceiveReply(m) PROVE Store!Next
  <2>1. m \in Id
    BY LimitAssumption DEF TypeOK, Id
  <2> QED
    BY <1>6, <2>1 DEF ReceiveReply, Store!Next
<1>7. UNCHANGED vars => UNCHANGED store
  BY DEF vars
<1>8. ASSUME NEW l \in Load, AnswerLoad(l) PROVE UNCHANGED store
  BY <1>8 DEF AnswerLoad
<1>9. ASSUME NEW m, \/ Inserted(m) \/ DeleteMessage(m) \/ InsertFailed(m)
                    \/ ReplyLost(m) \/ SendMessage(m)
      PROVE  UNCHANGED store
  BY <1>9 DEF Inserted, DeleteMessage, InsertFailed, ReplyLost, SendMessage
<1>10. ASSUME NEW e, Publish(e) \/ PublishError(e) PROVE UNCHANGED store
  BY <1>10 DEF Publish, PublishError
<1>11. ASSUME NEW committed, Subscribed \/ Disconnect \/ Crash(committed) PROVE UNCHANGED store
  BY <1>11 DEF Subscribed, Disconnect, Crash
<1> QED
  BY <1>1, <1>2, <1>3, <1>4, <1>5, <1>6, <1>7, <1>8, <1>9, <1>10, <1>11
  DEF Next, Normal, Failure

-------------------------------------------------------------------------------
\* Types.

\* Both instances of the store are the same.
LEMMA SameNext == View!Next <=> Store!Next
BY DEF View!Next, Store!Next, View!LoadMessages, Store!LoadMessages, View!LoadNewer,
       Store!LoadNewer, View!LoadOlder, Store!LoadOlder, View!LoadFailed, Store!LoadFailed,
       View!MessagesLoaded, Store!MessagesLoaded, View!NewerLoaded, Store!NewerLoaded,
       View!OlderLoaded, Store!OlderLoaded, View!JumpTo, Store!JumpTo, View!JumpLoaded,
       Store!JumpLoaded, View!PushMessage, Store!PushMessage,
       View!MessageSent, Store!MessageSent, View!RemoveMessage, Store!RemoveMessage,
       View!Finish, Store!Finish, View!Replace, Store!Replace, View!Append, Store!Append,
       View!AppendNew, Store!AppendNew, View!Without, Store!Without, View!Held, Store!Held,
       View!Shown, Store!Shown, View!LoadingOlder, Store!LoadingOlder, View!Empty, Store!Empty,
       View!SetCursor, Store!SetCursor, View!RaiseCursor, Store!RaiseCursor,
       View!DropOlderArray, Store!DropOlderArray, View!loads, Store!loads

\* The types of the store, which every step of it keeps.
LEMMA StoreTyped ==
  ASSUME TypeOK, [Next]_vars
  PROVE  Store!TypeOK'
<1>1. Id \subseteq Nat \ {0}
  BY LimitAssumption DEF Id
<1>2. View!TypeOK /\ [View!Next]_(View!vars) => View!TypeOK'
  BY <1>1, View!TypeStep DEF View!IdAssumption
<1>3. View!TypeOK <=> Store!TypeOK
  BY DEF View!TypeOK, Store!TypeOK, View!Arrays, Store!Arrays
<1>4. View!Next <=> Store!Next
  BY SameNext
<1>5. UNCHANGED Store!vars => UNCHANGED View!vars
  BY DEF Store!vars, View!vars, Store!loads, View!loads
<1> QED
  BY <1>2, <1>3, <1>4, <1>5, StepOfStore DEF TypeOK, View!TypeOK, Store!TypeOK, View!Arrays,
                                            Store!Arrays

\* Types over what the server writes.
LEMMA RowsTyped ==
  ASSUME TypeOK, Store!TypeOK',
         \/ \E byClient \in BOOLEAN : SendMessage(byClient)
         \/ \E m \in Id : Inserted(m) \/ DeleteMessage(m) \/ InsertFailed(m)
  PROVE  TypeOK'
<1> USE LimitAssumption DEF TypeOK, store, http, db, socket
<1>1. ASSUME NEW byClient \in BOOLEAN, SendMessage(byClient) PROVE TypeOK'
  BY <1>1 DEF SendMessage
<1>2. ASSUME NEW m \in Id, Inserted(m) PROVE TypeOK'
  <2>1. Message(m) \in Event
    BY DEF Message, Event
  <2>2. \A n \in inserting : n \in Id
    BY DEF Id
  <2> QED
    BY <1>2, <2>1, <2>2 DEF Inserted
<1>3. ASSUME NEW m \in Id, DeleteMessage(m) PROVE TypeOK'
  <2>1. MessageDeleted(m) \in Event
    BY DEF MessageDeleted, Event
  <2> QED
    BY <1>3, <2>1 DEF DeleteMessage
<1>4. ASSUME NEW m \in Id, InsertFailed(m) PROVE TypeOK'
  BY <1>4 DEF InsertFailed
<1> QED
  BY <1>1, <1>2, <1>3, <1>4

\* Types over what becomes of an event.
LEMMA EventsTyped ==
  ASSUME TypeOK, Store!TypeOK',
         \/ \E e \in publishing : Publish(e) \/ PublishError(e)
         \/ HandleMessage \/ Subscribed \/ Disconnect
         \/ \E committed \in SUBSET inserting : Crash(committed)
  PROVE  TypeOK'
<1> USE DEF TypeOK, store, http, db, socket
<1>1. ASSUME NEW e \in publishing, Publish(e) PROVE TypeOK'
  <2>1. e \in Event /\ Append(wire, e) \in Seq(Event)
    OBVIOUS
  <2> QED
    BY <1>1, <2>1 DEF Publish
<1>2. ASSUME NEW e \in publishing, PublishError(e) PROVE TypeOK'
  BY <1>2 DEF PublishError
<1>3. CASE HandleMessage
  <2>1. wire # <<>> => Tail(wire) \in Seq(Event)
    OBVIOUS
  <2> QED
    BY <1>3, <2>1 DEF HandleMessage
<1>4. <<>> \in Seq(Event)
  OBVIOUS
<1>5. CASE Subscribed \/ Disconnect
  BY <1>4, <1>5 DEF Subscribed, Disconnect
<1>6. ASSUME NEW committed \in SUBSET inserting, Crash(committed) PROVE TypeOK'
  <2>1. inserting \subseteq Id
    BY LimitAssumption DEF Id
  <2> QED
    BY <1>4, <1>6, <2>1 DEF Crash
<1> QED
  BY <1>1, <1>2, <1>3, <1>5, <1>6

\* A page is a set of committed rows.
LEMMA PageOfRows ==
  ASSUME TypeOK, NEW l \in Load, load[l] # "none" PROVE ListMessages(l) \subseteq rows
<1>1. load[l] \in {"full", "newer", "older", "jump"}
  BY DEF TypeOK, Store!TypeOK
<1> QED
  BY <1>1 DEF ListMessages, Newest, Oldest

\* Types over the requests of the client.
LEMMA LoadsTyped ==
  ASSUME TypeOK, Store!TypeOK',
         \/ \E l \in Load : \/ Request(l) \/ AnswerLoad(l) \/ ReceiveAnswer(l)
                            \/ RequestFailed(l)
         \/ \E m \in replies : ReceiveReply(m) \/ ReplyLost(m)
         \/ Connect
  PROVE  TypeOK'
<1> USE DEF TypeOK, store, http, db, socket
<1>0. cursor \in 0 .. MaxId
  BY LimitAssumption DEF Store!TypeOK, Id
<1>1. ASSUME NEW l \in Load, RequestNewer(l)
      PROVE  /\ after' \in [Load -> 0 .. MaxId] /\ read' \in [Load -> BOOLEAN]
             /\ answer' \in [Load -> SUBSET Id] /\ replies' = replies
  BY <1>0, <1>1 DEF RequestNewer
<1>2. ASSUME NEW l \in Load, Request(l) PROVE TypeOK'
  <2>1. \A m \in Id : m \in 0 .. MaxId
    BY LimitAssumption DEF Id
  <2>2. ASSUME NEW m \in Id, Jump(l, m) PROVE TypeOK'
    BY <2>1, <2>2 DEF Jump
  <2> QED
    BY <1>1, <1>2, <2>2 DEF Request, OpenChat, ScrollToTop, Poll
<1>3. ASSUME NEW l \in Load, AnswerLoad(l) PROVE TypeOK'
  <2>1. ListMessages(l) \subseteq rows
    BY <1>3, PageOfRows DEF AnswerLoad
  <2>2. rows \subseteq Id
    BY LimitAssumption DEF Id
  <2> QED
    BY <1>3, <2>1, <2>2 DEF AnswerLoad
<1>4. ASSUME NEW l \in Load, ReceiveAnswer(l) \/ RequestFailed(l) PROVE TypeOK'
  <2>1. 0 \in 0 .. MaxId
    BY LimitAssumption
  <2> QED
    BY <1>4, <2>1 DEF ReceiveAnswer, RequestFailed, Over
<1>5. ASSUME NEW m \in replies, ReceiveReply(m) \/ ReplyLost(m) PROVE TypeOK'
  BY <1>5 DEF ReceiveReply, ReplyLost
<1>6. CASE Connect
  BY <1>1, <1>6 DEF Connect
<1> QED
  BY <1>2, <1>3, <1>4, <1>5, <1>6

\* Every step keeps the types.
LEMMA TypeStep == TypeOK /\ [Next]_vars => TypeOK'
<1> SUFFICES ASSUME TypeOK, [Next]_vars PROVE TypeOK'
  OBVIOUS
<1>1. Store!TypeOK'
  BY StoreTyped
<1>2. CASE UNCHANGED vars
  BY <1>1, <1>2 DEF vars, store, http, db, socket, TypeOK
<1> QED
  BY <1>1, <1>2, RowsTyped, EventsTyped, LoadsTyped DEF Next, Normal, Failure

\* The tables, the requests, the events on their way and the store keep their types.
THEOREM DeliveryTypeCorrect == Spec => []TypeOK
<1>1. Init => TypeOK
  <2>1. <<>> \in Seq(Event)
    OBVIOUS
  <2>2. Store!Init => Store!TypeOK
    <3>1. Store!Empty \in Store!Arrays
      BY DEF Store!Empty, Store!Arrays
    <3> QED
      BY <3>1 DEF Store!Init, Store!TypeOK
  <2>3. Earlier \in 0 .. MaxId /\ 0 \in 0 .. MaxId
    BY LimitAssumption
  <2> QED
    BY <2>1, <2>2, <2>3, ZenonT(30) DEF Init, TypeOK
<1> QED
  BY <1>1, TypeStep, PTL DEF Spec

\* The server's answers and events are among those that ChatView allows: the store does
\* nothing here that it does not do there.
THEOREM ImplementsStore == Spec => Store!Spec
<1>1. Init => Store!Init
  BY DEF Init
<1> QED
  BY <1>1, StepOfStore, DeliveryTypeCorrect, PTL DEF Spec, Store!Spec

\* So the chat that is open shows no message twice, whatever the server and the network do,
\* and a message it shows goes away for a reason.
THEOREM StoreKept == Spec => []Store!NoDuplicates /\ Store!ShownStays
<1>1. Id \subseteq Nat \ {0}
  BY LimitAssumption DEF Id
<1>2. View!Spec => []View!NoDuplicates /\ View!ShownStays
  BY <1>1, View!ShownOnce, View!ShownStaysCorrect DEF View!IdAssumption
<1>3. View!Init <=> Store!Init
  BY DEF View!Init, Store!Init, View!Empty, Store!Empty
<1>4. UNCHANGED Store!vars => UNCHANGED View!vars
  BY DEF View!vars, Store!vars, View!loads, Store!loads
<1>5. [Store!Next]_(Store!vars) => [View!Next]_(View!vars)
  BY <1>4, SameNext
<1>6. View!NoDuplicates <=> Store!NoDuplicates
  BY DEF View!NoDuplicates, Store!NoDuplicates
<1>7. View!ShownStays <=> Store!ShownStays
  BY DEF View!ShownStays, Store!ShownStays, View!Shown, Store!Shown, View!Held, Store!Held,
         View!vars, Store!vars, View!loads, Store!loads
<1> QED
  BY <1>2, <1>3, <1>5, <1>6, <1>7, ImplementsStore, PTL DEF View!Spec, Store!Spec

-------------------------------------------------------------------------------
\* What a page that was answered, and has not arrived, leaves out.

\* A message that may be missing below one that was read.
Late(m) == m \in overtaken \/ Swapped(m)

\* An answer holds rows that were committed, and between the resume point it was asked
\* with and any of these all rows that are not late.
PageOf(l) ==
  /\ answer[l] \subseteq 1 .. drawn \ inserting
  /\ read[l] => load[l] # "none"
  /\ load[l] = "newer" /\ read[l] =>
       \A m \in rows, n \in answer[l] : after[l] < m /\ m <= n => m \in answer[l] \/ Late(m)

PageInv == \A l \in Load : PageOf(l)

\* The page after an id is closed downwards but for rows created out of order.
LEMMA OldestClosed ==
  ASSUME TypeOK, NEW p \in Nat, NEW m \in Oldest({k \in rows : k > p}, Limit),
         NEW k \in rows, p < k, k <= m
  PROVE  k \in Oldest({j \in rows : j > p}, Limit) \/ Swapped(k)
<1> DEFINE S == {j \in rows : j > p}
           Before(x) == {j \in S : createdAt[j] < createdAt[x]}
<1>1. k \in S /\ m \in S /\ Cardinality(Before(m)) < Limit
  BY LimitAssumption DEF TypeOK, Oldest
<1>2. k \in Id /\ m \in Id /\ createdAt[k] \in Nat /\ createdAt[m] \in Nat
  BY <1>1, LimitAssumption, SMTT(20) DEF TypeOK, Id
<1>3. CASE createdAt[m] < createdAt[k]
  BY <1>2, <1>3, LimitAssumption DEF Swapped, Id
<1>4. CASE createdAt[k] <= createdAt[m]
  <2>1. \A j \in S : createdAt[j] \in Nat
    BY LimitAssumption DEF TypeOK, Id
  <2>2. Before(k) \subseteq Before(m)
    BY <1>2, <1>4, <2>1
  <2>3. IsFiniteSet(1 .. MaxId) /\ Before(m) \subseteq 1 .. MaxId
    <3>1. IsFiniteSet(1 .. MaxId)
      BY FS_Interval, LimitAssumption
    <3>2. rows \subseteq 1 .. MaxId
      BY LimitAssumption DEF TypeOK
    <3> QED
      BY <3>1, <3>2
  <2>4. IsFiniteSet(Before(m))
    BY <2>3, FS_Subset
  <2>5. Cardinality(Before(k)) <= Cardinality(Before(m)) /\ IsFiniteSet(Before(k))
    BY <2>2, <2>4, FS_Subset
  <2>6. Cardinality(Before(k)) \in Nat /\ Cardinality(Before(m)) \in Nat
    BY <2>4, <2>5, FS_CardinalityType
  <2>7. Cardinality(Before(k)) < Limit
    BY <1>1, <2>5, <2>6, LimitAssumption
  <2> QED
    BY <1>1, <2>7 DEF Oldest
<1> QED
  BY <1>2, <1>3, <1>4

\* A step that answers no load, and draws or commits nothing.
LEMMA PageStays ==
  ASSUME PageInv, rows' \subseteq rows, overtaken \subseteq overtaken',
         UNCHANGED <<createdAt, drawn>>, inserting' \subseteq inserting,
         \A l \in Load :
           \/ answer'[l] = answer[l] /\ read'[l] = read[l] /\ after'[l] = after[l]
              /\ load'[l] = load[l]
           \/ answer'[l] = answer[l] /\ ~read[l] /\ ~read'[l]
           \/ answer'[l] = {} /\ ~read'[l]
  PROVE  PageInv'
BY DEF PageInv, PageOf, Late, Swapped

\* Rows that come are late for a page that holds a higher one.
LEMMA PageCommits ==
  ASSUME TypeOK, PageInv, NEW committed \in SUBSET inserting, rows' = rows \cup committed,
         inserting' \in {inserting \ committed, {}},
         \A m \in committed :
           (\E n \in 1 .. drawn \ inserting : n > m) => m \in overtaken',
         overtaken \subseteq overtaken', UNCHANGED <<createdAt, drawn, answer, read, after, load>>
  PROVE  PageInv'
<1> SUFFICES ASSUME NEW l \in Load PROVE PageOf(l)'
  BY DEF PageInv
<1>1. PageOf(l)
  BY DEF PageInv
<1>2. \A m \in committed, n \in answer[l] : m <= n => m \in overtaken'
  <2> TAKE m \in committed, n \in answer[l]
  <2>1. n \in 1 .. drawn \ inserting /\ m \in inserting /\ m \in Nat
    BY <1>1 DEF PageOf, TypeOK
  <2> QED
    BY <2>1
<1> QED
  BY <1>1, <1>2 DEF PageOf, Late, Swapped

\* Every step keeps the pages closed.
LEMMA PageStep == TypeOK /\ PageInv /\ [Next]_vars => PageInv'
<1> SUFFICES ASSUME TypeOK, PageInv, [Next]_vars PROVE PageInv'
  OBVIOUS
<1> USE DEF store, http, db, socket
<1>1. ASSUME NEW byClient \in BOOLEAN, SendMessage(byClient) PROVE PageInv'
  <2>1. \A l \in Load : 1 .. drawn \ inserting \subseteq 1 .. drawn' \ inserting'
    BY <1>1 DEF SendMessage, TypeOK
  <2> QED
    BY <1>1, <2>1 DEF SendMessage, PageInv, PageOf, Late, Swapped
<1>2. ASSUME NEW m \in Id, Inserted(m) PROVE PageInv'
  <2>1. {m} \subseteq inserting /\ rows' = rows \cup {m} /\ inserting' = inserting \ {m}
    BY <1>2 DEF Inserted
  <2> QED
    BY <1>2, <2>1, PageCommits DEF Inserted
<1>3. ASSUME NEW committed \in SUBSET inserting, Crash(committed) PROVE PageInv'
  BY <1>3, PageCommits DEF Crash
<1>4. ASSUME NEW m, \/ m \in Id /\ (DeleteMessage(m) \/ InsertFailed(m))
                    \/ m \in replies /\ ReplyLost(m)
                    \/ m \in publishing /\ (Publish(m) \/ PublishError(m))
      PROVE  PageInv'
  BY <1>4, PageStays DEF DeleteMessage, InsertFailed, ReplyLost, Publish, PublishError
<1>5. CASE Subscribed \/ Disconnect \/ UNCHANGED vars
  BY <1>5, PageStays DEF Subscribed, Disconnect, vars
<1>6. CASE HandleMessage \/ \E m \in replies : ReceiveReply(m)
  <2>1. UNCHANGED load
    BY <1>6 DEF HandleMessage, ReceiveReply, Store!PushMessage, Store!RemoveMessage,
                Store!MessageSent, Store!loads
  <2> QED
    BY <1>6, <2>1, PageStays DEF HandleMessage, ReceiveReply
<1>7. ASSUME NEW l \in Load, Request(l) \/ (Connect /\ RequestNewer(l)) PROVE PageInv'
  <2>1. /\ load[l] = "none" /\ \A x \in Load \ {l} : load'[x] = load[x] /\ after'[x] = after[x]
        /\ load' \in [Load -> {"none", "full", "newer", "older", "jump"}]
        /\ UNCHANGED <<read, answer, rows, inserting, overtaken, createdAt, drawn>>
    BY <1>7 DEF Request, OpenChat, ScrollToTop, Jump, Poll, Connect, RequestNewer,
                Store!LoadMessages, Store!LoadOlder, Store!LoadNewer, Store!JumpTo, TypeOK,
                Store!TypeOK
  <2>2. ~read[l]
    BY <2>1 DEF PageInv, PageOf
  <2> QED
    BY <2>1, <2>2, PageStays
<1>8. CASE Connect /\ UNCHANGED <<store, http>>
  BY <1>8, PageStays DEF Connect
<1>9. ASSUME NEW l \in Load, AnswerLoad(l) PROVE PageInv'
  <2>1. /\ answer' = [answer EXCEPT ![l] = ListMessages(l)] /\ load[l] # "none"
        /\ read' = [read EXCEPT ![l] = TRUE]
        /\ UNCHANGED <<load, after, rows, inserting, overtaken, createdAt, drawn>>
    BY <1>9 DEF AnswerLoad
  <2>2. \A x \in Load \ {l} : PageOf(x)'
    BY <2>1 DEF PageInv, PageOf, Late, Swapped, TypeOK
  <2>3. ListMessages(l) \subseteq 1 .. drawn \ inserting
    BY <2>1, PageOfRows DEF TypeOK
  <2>4. CASE load[l] = "newer"
    <3>1. ListMessages(l) = Oldest({m \in rows : m > after[l]}, Limit)
      BY <2>4 DEF ListMessages
    <3>2. after[l] \in Nat
      BY LimitAssumption DEF TypeOK
    <3>3. \A m \in rows, n \in ListMessages(l) :
            after[l] < m /\ m <= n => m \in ListMessages(l) \/ Swapped(m)
      BY <3>1, <3>2, OldestClosed
    <3>4. answer'[l] = ListMessages(l)
      BY <2>1 DEF TypeOK
    <3> QED
      BY <2>1, <2>2, <2>3, <3>3, <3>4 DEF PageInv, PageOf, Late, Swapped
  <2>5. CASE load[l] # "newer"
    BY <2>1, <2>2, <2>3, <2>5 DEF PageInv, PageOf, TypeOK
  <2> QED
    BY <2>4, <2>5
<1>10. ASSUME NEW l \in Load, ReceiveAnswer(l) \/ RequestFailed(l) PROVE PageInv'
  <2>1. \A x \in Load \ {l} : load'[x] = load[x]
    BY <1>10 DEF ReceiveAnswer, RequestFailed, Store!MessagesLoaded, Store!NewerLoaded,
                 Store!OlderLoaded, Store!JumpLoaded, Store!LoadFailed, Store!Finish, TypeOK,
                 Store!TypeOK
  <2>2. /\ answer'[l] = {} /\ ~read'[l]
        /\ \A x \in Load \ {l} : /\ answer'[x] = answer[x] /\ read'[x] = read[x]
                                 /\ after'[x] = after[x]
        /\ UNCHANGED <<rows, inserting, overtaken, createdAt, drawn>>
    BY <1>10 DEF ReceiveAnswer, RequestFailed, Over, TypeOK
  <2> QED
    BY <2>1, <2>2, PageStays
<1> QED
  BY <1>1, <1>2, <1>3, <1>4, <1>5, <1>6, <1>7, <1>8, <1>9, <1>10
  DEF Next, Normal, Failure, Connect

\* What a load leaves behind that was asked for newer messages: its page is shown, and
\* the resume point is its newest message.
LEMMA NewerEnds ==
  ASSUME TypeOK, NEW l \in Load, load[l] = "newer", read[l], [Next]_vars, load'[l] = "none",
         cursor' # cursor
  PROVE  /\ cursor' \in answer[l]
         /\ answer[l] \subseteq Store!Held(view')
         /\ UNCHANGED rows
<1> USE DEF store, http, db, socket
<1>1. PICK x \in Load : ReceiveAnswer(x) \/ UNCHANGED cursor \/ UNCHANGED load
  <2>1. ASSUME NEW x \in Load, RequestFailed(x) \/ Request(x) \/ (Connect /\ RequestNewer(x))
        PROVE  UNCHANGED cursor
    BY <2>1 DEF RequestFailed, Store!LoadFailed, Request, OpenChat, ScrollToTop, Jump, Poll,
                RequestNewer, Store!LoadMessages, Store!LoadOlder, Store!LoadNewer, Store!JumpTo
  <2>2. CASE HandleMessage \/ \E m \in replies : ReceiveReply(m)
    BY <2>2 DEF HandleMessage, ReceiveReply, Store!PushMessage, Store!RemoveMessage,
                Store!MessageSent, Store!loads
  <2> QED
    BY <2>1, <2>2 DEF Next, Normal, Failure, vars, Connect, SendMessage, Inserted, DeleteMessage,
       InsertFailed, Publish, PublishError, AnswerLoad, Subscribed, Disconnect, ReplyLost, Crash
<1>2. ReceiveAnswer(x) /\ x = l
  BY <1>1 DEF ReceiveAnswer, Store!MessagesLoaded, Store!NewerLoaded, Store!OlderLoaded,
              Store!JumpLoaded, Store!LoadFailed, Store!Finish, TypeOK, Store!TypeOK
<1>3. Store!NewerLoaded(l, answer[l]) /\ UNCHANGED rows
  BY <1>2 DEF ReceiveAnswer, Store!MessagesLoaded, Store!OlderLoaded, Store!JumpLoaded
<1>4. cursor' \in answer[l]
  BY <1>3 DEF Store!NewerLoaded, Store!SetCursor
<1>5. answer[l] \subseteq Store!Held(view')
  BY <1>3 DEF Store!NewerLoaded, Store!AppendNew, Store!Append, Store!Without, Store!Held,
              Store!Arrays, TypeOK, Store!TypeOK
<1> QED
  BY <1>3, <1>4, <1>5

\* A newer page raises the resume point only past messages that are shown from then on,
\* except rows committed or created out of order.
THEOREM NewerCorrect == Spec => NewerSkipsNothing
<1>1. Init => PageInv
  BY LimitAssumption DEF Init, Store!Init, PageInv, PageOf
<1>2. TypeOK /\ PageInv /\ [Next]_vars =>
        [\A l \in Load :
           load[l] = "newer" /\ read[l] /\ load'[l] = "none" /\ cursor' # cursor
           => \A m \in rows : after[l] < m /\ m <= cursor'
                           => m \in Store!Held(view') \cup overtaken \/ Swapped(m)]_vars
  BY NewerEnds DEF PageInv, PageOf, Late
<1> QED
  BY <1>1, <1>2, PageStep, DeliveryTypeCorrect, PTL DEF Spec, NewerSkipsNothing
===============================================================================
