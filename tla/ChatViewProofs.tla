---------------------------- MODULE ChatViewProofs ----------------------------
(***************************************************************************)
(* For any messages, any number of loads in flight and any answers, the     *)
(* client shows no message twice and loses none without a reason.           *)
(***************************************************************************)
EXTENDS ChatView, TLAPS

\* Putting messages into an array leaves an array.
LEMMA AppendType ==
  ASSUME NEW array \in Arrays, NEW messages
  PROVE  Append(array, messages) \in Arrays /\ AppendNew(array, messages) \in Arrays
BY DEF Append, AppendNew, Arrays

\* Filtered messages are never added to those held: an array without a message
\* twice stays one.
LEMMA AppendNewOnce ==
  ASSUME NEW array \in Arrays, NEW messages, NEW m \in Id, array[m] <= 1
  PROVE  AppendNew(array, messages)[m] <= 1
BY DEF AppendNew, Append, Without, Held, Arrays

\* What an array holds stays in it when messages are put in.
LEMMA AppendNewHolds ==
  ASSUME NEW array \in Arrays, NEW messages
  PROVE  Held(array) \subseteq Held(AppendNew(array, messages))
BY DEF AppendNew, Append, Without, Held, Arrays

\* The empty array is an array without messages.
LEMMA EmptyType == Empty \in Arrays /\ \A m \in Id : Empty[m] = 0
BY DEF Empty, Arrays

\* What a step may be, for the proofs that go through the actions.
LEMMA StepCases ==
  ASSUME [Next]_vars, NEW P,
         ASSUME NEW l \in Load, LoadMessages(l) PROVE P,
         ASSUME NEW l \in Load, LoadNewer(l) PROVE P,
         ASSUME NEW l \in Load, LoadOlder(l) PROVE P,
         ASSUME NEW l \in Load, JumpTo(l) PROVE P,
         ASSUME NEW l \in Load, LoadFailed(l) PROVE P,
         ASSUME NEW l \in Load, NEW messages \in SUBSET Id,
                MessagesLoaded(l, messages) PROVE P,
         ASSUME NEW l \in Load, NEW messages \in SUBSET Id,
                NewerLoaded(l, messages) PROVE P,
         ASSUME NEW l \in Load, NEW messages \in SUBSET Id,
                OlderLoaded(l, messages) PROVE P,
         ASSUME NEW l \in Load, NEW messages \in SUBSET Id,
                JumpLoaded(l, messages) PROVE P,
         ASSUME NEW m \in Id, PushMessage(m) PROVE P,
         ASSUME NEW m \in Id, MessageSent(m) PROVE P,
         ASSUME NEW m \in Id, RemoveMessage(m) PROVE P,
         ASSUME UNCHANGED vars PROVE P
  PROVE  P
BY DEF Next

-------------------------------------------------------------------------------
\* The resume point is a message id or 0 after every operation that moves it.
LEMMA CursorType ==
  ASSUME TypeOK, NEW messages \in SUBSET Id, NEW m \in Id
  PROVE  /\ SetCursor(messages) => cursor' \in Id \cup {0}
         /\ RaiseCursor(m) => cursor' \in Id \cup {0}
BY DEF TypeOK, SetCursor, RaiseCursor

\* Another array in the place of the shown one leaves two arrays.
LEMMA ReplaceType ==
  ASSUME TypeOK, NEW array \in Arrays, Replace(array)
  PROVE  /\ view' \in Arrays /\ detached' \in BOOLEAN /\ olderArray' \in Arrays
         /\ replaced' \in BOOLEAN
BY DEF TypeOK, Replace, LoadingOlder

\* Every operation and every arrival keeps the types.
LEMMA TypeStep == TypeOK /\ [Next]_vars => TypeOK'
<1> SUFFICES ASSUME TypeOK, [Next]_vars PROVE TypeOK'
    OBVIOUS
<1> USE EmptyType
<1>1. ASSUME NEW l \in Load, LoadMessages(l) PROVE TypeOK'
      BY <1>1 DEF LoadMessages, TypeOK
<1>2. ASSUME NEW l \in Load, LoadNewer(l) PROVE TypeOK'
      BY <1>2 DEF LoadNewer, TypeOK
<1>3. ASSUME NEW l \in Load, LoadOlder(l) PROVE TypeOK'
      BY <1>3 DEF LoadOlder, TypeOK
<1>4. ASSUME NEW l \in Load, LoadFailed(l) PROVE TypeOK'
      BY <1>4 DEF LoadFailed, Finish, DropOlderArray, TypeOK
<1>5. ASSUME NEW l \in Load, NEW messages \in SUBSET Id, MessagesLoaded(l, messages)
      PROVE  TypeOK'
  <2>1. Append(Empty, messages) \in Arrays
        BY AppendType
  <2>2. view' \in Arrays /\ detached' \in BOOLEAN /\ olderArray' \in Arrays /\ replaced' \in BOOLEAN
        BY <1>5, <2>1, ReplaceType DEF MessagesLoaded
  <2>3. cursor' \in Id \cup {0}
        BY <1>5, CursorType DEF MessagesLoaded, TypeOK
  <2> QED BY <1>5, <2>2, <2>3 DEF MessagesLoaded, Finish, TypeOK
<1>6. ASSUME NEW l \in Load, NEW messages \in SUBSET Id, NewerLoaded(l, messages)
      PROVE  TypeOK'
  <2>1. view' \in Arrays
        BY <1>6, AppendType DEF NewerLoaded, TypeOK
  <2>2. cursor' \in Id \cup {0}
        BY <1>6, CursorType DEF NewerLoaded, TypeOK
  <2> QED BY <1>6, <2>1, <2>2 DEF NewerLoaded, Finish, TypeOK
<1>7. ASSUME NEW l \in Load, NEW messages \in SUBSET Id, OlderLoaded(l, messages)
      PROVE  TypeOK'
  <2>1. view' \in Arrays
        BY <1>7, AppendType DEF OlderLoaded, TypeOK
  <2> QED BY <1>7, <2>1 DEF OlderLoaded, Finish, DropOlderArray, TypeOK
<1>8. ASSUME NEW m \in Id, PushMessage(m) PROVE TypeOK'
  <2>1. view' \in Arrays
        BY <1>8, AppendType DEF PushMessage, TypeOK
  <2>2. cursor' \in Id \cup {0}
        BY <1>8, CursorType DEF PushMessage, TypeOK
  <2> QED BY <1>8, <2>1, <2>2 DEF PushMessage, loads, TypeOK
<1>9. ASSUME NEW m \in Id, MessageSent(m) PROVE TypeOK'
  <2>1. view' \in Arrays
        BY <1>9, AppendType DEF MessageSent, TypeOK
  <2>2. cursor' \in Id \cup {0}
        BY <1>9, CursorType DEF MessageSent, TypeOK
  <2> QED BY <1>9, <2>1, <2>2 DEF MessageSent, loads, TypeOK
<1>10. ASSUME NEW m \in Id, RemoveMessage(m) PROVE TypeOK'
  <2>1. [view EXCEPT ![m] = 0] \in Arrays
        BY DEF TypeOK, Arrays
  <2>2. view' \in Arrays /\ detached' \in BOOLEAN /\ olderArray' \in Arrays /\ replaced' \in BOOLEAN
        BY <1>10, <2>1, ReplaceType DEF RemoveMessage
  <2> QED BY <1>10, <2>2 DEF RemoveMessage, TypeOK
<1>11. ASSUME UNCHANGED vars PROVE TypeOK'
      BY <1>11 DEF vars, loads, TypeOK
<1>12. ASSUME NEW l \in Load, JumpTo(l) PROVE TypeOK'
      BY <1>12 DEF JumpTo, TypeOK
<1>13. ASSUME NEW l \in Load, NEW messages \in SUBSET Id, JumpLoaded(l, messages)
      PROVE  TypeOK'
  <2>1. Append(Empty, messages) \in Arrays
        BY AppendType
  <2>2. view' \in Arrays /\ detached' \in BOOLEAN /\ olderArray' \in Arrays /\ replaced' \in BOOLEAN
        BY <1>13, <2>1, ReplaceType DEF JumpLoaded
  <2>3. cursor' \in Id \cup {0}
        BY <1>13, CursorType DEF JumpLoaded, TypeOK
  <2> QED BY <1>13, <2>2, <2>3 DEF JumpLoaded, Finish, TypeOK
<1> QED BY <1>1, <1>2, <1>3, <1>4, <1>5, <1>6, <1>7, <1>8, <1>9, <1>10, <1>11, <1>12, <1>13, StepCases

\* Every variable of the store stays in its type, whatever the answers are.
THEOREM TypeCorrect == Spec => []TypeOK
<1>1. Init => TypeOK
      BY EmptyType DEF Init, TypeOK
<1> QED BY <1>1, TypeStep, PTL DEF Spec

-------------------------------------------------------------------------------
\* None of them shows a message twice, in the view or in an array about to come back.
LEMMA NoDuplicatesStep == TypeOK /\ NoDuplicates /\ [Next]_vars => NoDuplicates'
<1> SUFFICES ASSUME TypeOK, NoDuplicates, [Next]_vars PROVE NoDuplicates'
    OBVIOUS
<1> USE EmptyType
<1>0. ASSUME NEW array \in Arrays, \A m \in Id : array[m] <= 1, Replace(array)
      PROVE  NoDuplicates'
      BY <1>0 DEF Replace, NoDuplicates
<1>1. ASSUME NEW l \in Load, LoadMessages(l) PROVE NoDuplicates'
      BY <1>1 DEF LoadMessages, NoDuplicates
<1>2. ASSUME NEW l \in Load, LoadNewer(l) PROVE NoDuplicates'
      BY <1>2 DEF LoadNewer, NoDuplicates
<1>3. ASSUME NEW l \in Load, LoadOlder(l) PROVE NoDuplicates'
      BY <1>3 DEF LoadOlder, NoDuplicates
<1>4. ASSUME NEW l \in Load, LoadFailed(l) PROVE NoDuplicates'
      BY <1>4 DEF LoadFailed, DropOlderArray, NoDuplicates
<1>5. ASSUME NEW l \in Load, NEW messages \in SUBSET Id, MessagesLoaded(l, messages)
      PROVE  NoDuplicates'
  <2>1. Append(Empty, messages) \in Arrays
        BY AppendType
  <2>2. \A m \in Id : Append(Empty, messages)[m] <= 1
        BY DEF Append
  <2> QED BY <1>0, <1>5, <2>1, <2>2 DEF MessagesLoaded
<1>6. ASSUME NEW l \in Load, NEW messages \in SUBSET Id, NewerLoaded(l, messages)
      PROVE  NoDuplicates'
      BY <1>6, AppendNewOnce DEF NewerLoaded, NoDuplicates, TypeOK
<1>7. ASSUME NEW l \in Load, NEW messages \in SUBSET Id, OlderLoaded(l, messages)
      PROVE  NoDuplicates'
  <2>1. \A m \in Id : view'[m] <= 1
        BY <1>7, AppendNewOnce DEF OlderLoaded, NoDuplicates, TypeOK
  <2> QED BY <1>7, <2>1 DEF OlderLoaded, DropOlderArray, NoDuplicates
<1>8. ASSUME NEW m \in Id, PushMessage(m) PROVE NoDuplicates'
      BY <1>8 DEF PushMessage, Append, Shown, Held, loads, NoDuplicates, TypeOK, Arrays
<1>9. ASSUME NEW m \in Id, MessageSent(m) PROVE NoDuplicates'
      BY <1>9, AppendNewOnce DEF MessageSent, loads, NoDuplicates, TypeOK
<1>10. ASSUME NEW m \in Id, RemoveMessage(m) PROVE NoDuplicates'
  <2>1. [view EXCEPT ![m] = 0] \in Arrays
        BY DEF TypeOK, Arrays
  <2>2. \A n \in Id : [view EXCEPT ![m] = 0][n] <= 1
        BY DEF TypeOK, Arrays, NoDuplicates
  <2> QED BY <1>0, <1>10, <2>1, <2>2 DEF RemoveMessage
<1>11. ASSUME UNCHANGED vars PROVE NoDuplicates'
      BY <1>11 DEF vars, loads, NoDuplicates
<1>12. ASSUME NEW l \in Load, JumpTo(l) PROVE NoDuplicates'
      BY <1>12 DEF JumpTo, NoDuplicates
<1>13. ASSUME NEW l \in Load, NEW messages \in SUBSET Id, JumpLoaded(l, messages)
      PROVE  NoDuplicates'
  <2>1. Append(Empty, messages) \in Arrays
        BY AppendType
  <2>2. \A m \in Id : Append(Empty, messages)[m] <= 1
        BY DEF Append
  <2> QED BY <1>0, <1>13, <2>1, <2>2 DEF JumpLoaded
<1> QED BY <1>1, <1>2, <1>3, <1>4, <1>5, <1>6, <1>7, <1>8, <1>9, <1>10, <1>11, <1>12, <1>13, StepCases

\* However pushes, answers, reloads and deletions overlap, no message is shown
\* twice, nor held twice by an array that an older load brings back.
THEOREM ShownOnce == Spec => []NoDuplicates
<1>1. Init => NoDuplicates
  <2> SUFFICES ASSUME Init, NEW m \in Id PROVE view[m] <= 1 /\ olderArray[m] <= 1
      BY DEF NoDuplicates
  <2>1. view[m] = 0 /\ olderArray[m] = 0
        BY EmptyType DEF Init
  <2> QED BY <2>1
<1> QED BY <1>1, TypeCorrect, NoDuplicatesStep, PTL DEF Spec

-------------------------------------------------------------------------------
\* What ShownStays allows to happen to a shown message.
Excused(m) ==
  \/ m \in Held(view')
  \/ view' = [view EXCEPT ![m] = 0]
  \/ \E l \in Load : load[l] \in {"full", "jump"} /\ load'[l] = "none"
  \/ \E l \in Load : /\ load[l] = "older" /\ load'[l] = "none"
                    /\ replaced /\ m \notin Held(olderArray)

\* The array an older load holds on to is another one than the shown one only when one
\* of the replacements the history records put it aside.
DetachedMeans == detached => replaced

\* Every step keeps it so: the array goes aside and the history grows in one step, and
\* both end with the load.
LEMMA DetachedStep == TypeOK /\ DetachedMeans /\ [Next]_vars => DetachedMeans'
BY DEF DetachedMeans, Next, vars, loads, LoadMessages, LoadNewer, LoadOlder, LoadFailed, JumpTo,
       MessagesLoaded, NewerLoaded, OlderLoaded, JumpLoaded, PushMessage, MessageSent,
       RemoveMessage, Replace, DropOlderArray

\* What a step takes from the view is excused by that step.
LEMMA ShownStaysStep == TypeOK /\ DetachedMeans /\ [Next]_vars => \A m \in Shown : Excused(m)
<1> SUFFICES ASSUME TypeOK, DetachedMeans, [Next]_vars, NEW m \in Shown PROVE Excused(m)
    OBVIOUS
<1> m \in Id
    BY DEF Shown, Held
<1>0. ASSUME UNCHANGED view PROVE Excused(m)
      BY <1>0 DEF Excused, Shown, Held
<1>1. ASSUME NEW l \in Load, LoadMessages(l) PROVE Excused(m)
      BY <1>0, <1>1 DEF LoadMessages
<1>2. ASSUME NEW l \in Load, LoadNewer(l) PROVE Excused(m)
      BY <1>0, <1>2 DEF LoadNewer
<1>3. ASSUME NEW l \in Load, LoadOlder(l) PROVE Excused(m)
      BY <1>0, <1>3 DEF LoadOlder
<1>4. ASSUME NEW l \in Load, LoadFailed(l) PROVE Excused(m)
      BY <1>0, <1>4 DEF LoadFailed
<1>5. ASSUME NEW l \in Load, NEW messages \in SUBSET Id, MessagesLoaded(l, messages)
      PROVE  Excused(m)
      BY <1>5 DEF MessagesLoaded, Finish, Excused, TypeOK
<1>6. ASSUME NEW l \in Load, NEW messages \in SUBSET Id, NewerLoaded(l, messages)
      PROVE  Excused(m)
      BY <1>6, AppendNewHolds DEF NewerLoaded, Excused, Shown, TypeOK
<1>7. ASSUME NEW l \in Load, NEW messages \in SUBSET Id, OlderLoaded(l, messages)
      PROVE  Excused(m)
  <2>1. CASE detached /\ messages # {}
    <3>1. load[l] = "older" /\ load'[l] = "none" /\ replaced
          BY <1>7, <2>1 DEF OlderLoaded, Finish, DetachedMeans, TypeOK
    <3>2. Held(olderArray) \subseteq Held(view')
          BY <1>7, <2>1, AppendNewHolds DEF OlderLoaded, TypeOK
    <3> QED BY <3>1, <3>2 DEF Excused
  <2>2. CASE ~detached /\ messages # {}
        BY <1>7, <2>2, AppendNewHolds DEF OlderLoaded, Excused, Shown, TypeOK
  <2>3. CASE messages = {}
        BY <1>0, <1>7, <2>3 DEF OlderLoaded
  <2> QED BY <2>1, <2>2, <2>3 DEF TypeOK
<1>8. ASSUME NEW n \in Id, PushMessage(n) PROVE Excused(m)
  <2>1. CASE n \in Shown
        BY <1>0, <1>8, <2>1 DEF PushMessage
  <2>2. CASE n \notin Shown
        BY <1>8, <2>2 DEF PushMessage, Append, Excused, Shown, Held, TypeOK, Arrays
  <2> QED BY <2>1, <2>2
<1>9. ASSUME NEW n \in Id, MessageSent(n) PROVE Excused(m)
      BY <1>9, AppendNewHolds DEF MessageSent, Excused, Shown, TypeOK
<1>10. ASSUME NEW n \in Id, RemoveMessage(n) PROVE Excused(m)
  <2>1. view' = [view EXCEPT ![n] = 0]
        BY <1>10 DEF RemoveMessage, Replace
  <2>2. CASE m = n
        BY <2>1, <2>2 DEF Excused
  <2>3. CASE m # n
        BY <2>1, <2>3 DEF Excused, Shown, Held, TypeOK, Arrays
  <2> QED BY <2>2, <2>3
<1>11. ASSUME UNCHANGED vars PROVE Excused(m)
      BY <1>0, <1>11 DEF vars
<1>12. ASSUME NEW l \in Load, JumpTo(l) PROVE Excused(m)
      BY <1>0, <1>12 DEF JumpTo
<1>13. ASSUME NEW l \in Load, NEW messages \in SUBSET Id, JumpLoaded(l, messages)
      PROVE  Excused(m)
      BY <1>13 DEF JumpLoaded, Finish, Excused, TypeOK
<1> QED BY <1>1, <1>2, <1>3, <1>4, <1>5, <1>6, <1>7, <1>8, <1>9, <1>10, <1>11, <1>12, <1>13, StepCases

\* A message leaves the screen only by its deletion, by a reload, by a jump, or by an
\* older page that does not have it and whose array one of these had replaced.
THEOREM ShownStaysCorrect == Spec => ShownStays
<1>1. Init => DetachedMeans
      BY DEF Init, DetachedMeans
<1>2. TypeOK /\ DetachedMeans /\ [Next]_vars => DetachedMeans'
      BY DetachedStep
<1>3. TypeOK /\ DetachedMeans /\ [Next]_vars
      => [\A m \in Shown :
            \/ m \in Held(view')
            \/ view' = [view EXCEPT ![m] = 0]
            \/ \E l \in Load : load[l] \in {"full", "jump"} /\ load'[l] = "none"
            \/ \E l \in Load : /\ load[l] = "older" /\ load'[l] = "none"
                              /\ replaced /\ m \notin Held(olderArray)]_vars
      BY ShownStaysStep DEF Excused
<1> QED BY <1>1, <1>2, <1>3, TypeCorrect, PTL DEF Spec, ShownStays
===============================================================================
