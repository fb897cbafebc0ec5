------------------------------- MODULE ChatView -------------------------------
(***************************************************************************)
(* What the web client shows of one chat (stores/messages.ts): the message  *)
(* array messagesByChat[chat], the resume point lastMsgId[chat], and the    *)
(* loads that have been requested and not answered, the jump to a message   *)
(* of ChatPanel.vue among them, which writes both from outside the store.   *)
(*                                                                          *)
(* The client is single-threaded; a load is two steps, the request and what *)
(* follows its await, and any other step may run between them.  The answers *)
(* are arbitrary here; Delivery.tla says which ones the server gives.       *)
(*                                                                          *)
(* The array is a bag of ids: its order, which nothing below reads, is left *)
(* out.  Its identity is not: loadOlder keeps a reference across its await, *)
(* and some operations change the array in place while others put a new     *)
(* array in its stead.                                                      *)
(***************************************************************************)
EXTENDS Naturals

CONSTANTS
  Id,     \* message ids
  Load    \* names of the loads in flight: the bound on how many there are at a time

ASSUME IdAssumption == Id \subseteq Nat \ {0}

VARIABLES
  view,        \* how many times messagesByChat[chat] holds each message
  cursor,      \* lastMsgId[chat], 0 when there is none
  loadingChat, \* loadingChat is this chat
  load,        \* what each load in flight fetches
  detached,    \* the array the older load refers to is no longer the shown one
  olderArray,  \* that array, when detached
  replaced     \* history: the shown array was replaced since the older load was asked

loads == <<load, detached, olderArray, replaced>>
vars  == <<view, cursor, loadingChat, loads>>

Arrays == [Id -> Nat]
Empty  == [m \in Id |-> 0]

TypeOK ==
  /\ view \in Arrays
  /\ cursor \in Id \cup {0}
  /\ loadingChat \in BOOLEAN
  /\ load \in [Load -> {"none", "full", "newer", "older", "jump"}]
  /\ detached \in BOOLEAN
  /\ olderArray \in Arrays
  /\ replaced \in BOOLEAN

Init ==
  /\ view = Empty
  /\ cursor = 0
  /\ loadingChat = FALSE
  /\ load = [l \in Load |-> "none"]
  /\ detached = FALSE
  /\ olderArray = Empty
  /\ replaced = FALSE

-------------------------------------------------------------------------------
Held(array)   == {m \in Id : array[m] > 0}
Shown         == Held(view)
LoadingOlder  == \E l \in Load : load[l] = "older"

\* The array with those of the messages it does not hold yet.
Without(messages, array) == messages \ Held(array)
Append(array, messages)  ==
  [m \in Id |-> IF m \in messages THEN array[m] + 1 ELSE array[m]]

\* The filter that keeps an answer from repeating what is held.
AppendNew(array, messages) == Append(array, Without(messages, array))

\* Another array takes the place of the shown one.
Replace(array) ==
  /\ view' = array
  /\ replaced' = (replaced \/ LoadingOlder)
  /\ IF LoadingOlder /\ ~detached
     THEN detached' = TRUE /\ olderArray' = view
     ELSE UNCHANGED <<detached, olderArray>>

\* Mutant: the resume point becomes the id after the newest message.
SetCursorPast(messages) ==
  \E newest \in messages :
    /\ \A m \in messages : m <= newest
    /\ cursor' = newest + 1

\* The resume point becomes the newest message of an answer.
SetCursor(messages) ==
  \E newest \in messages :
    /\ \A m \in messages : m <= newest
    /\ cursor' = newest

\* The resume point moves up to a message, never back.
RaiseCursor(m) == cursor' = IF cursor < m THEN m ELSE cursor

Finish(l) == load' = [load EXCEPT ![l] = "none"]

\* The older load is over and its reference with it.
DropOlderArray == detached' = FALSE /\ olderArray' = Empty /\ replaced' = FALSE

-------------------------------------------------------------------------------
(* The loads. *)

\* The chat is opened, or reloaded after a voice message: its newest page.
LoadMessages(l) ==
  /\ load[l] = "none"
  /\ load' = [load EXCEPT ![l] = "full"]
  /\ loadingChat' = TRUE
  /\ UNCHANGED <<view, cursor, detached, olderArray, replaced>>

MessagesLoaded(l, messages) ==
  /\ load[l] = "full"
  /\ Finish(l)
  /\ Replace(Append(Empty, messages))
  /\ IF messages = {} THEN UNCHANGED cursor ELSE SetCursor(messages)
  /\ loadingChat' = FALSE

\* Without a resume point there is nothing to ask for.
LoadNewer(l) ==
  /\ load[l] = "none" /\ cursor # 0
  /\ load' = [load EXCEPT ![l] = "newer"]
  /\ UNCHANGED <<view, cursor, loadingChat, detached, olderArray, replaced>>

NewerLoaded(l, messages) ==
  /\ load[l] = "newer"
  /\ Finish(l)
  /\ view' = AppendNew(view, messages)
  /\ IF messages = {} THEN UNCHANGED cursor ELSE SetCursor(messages)
  /\ UNCHANGED <<loadingChat, detached, olderArray, replaced>>

\* Mutant: the older load takes a copy of the array instead of a reference.
LoadOlderCopies(l) ==
  /\ load[l] = "none" /\ ~LoadingOlder /\ ~loadingChat /\ Shown # {}
  /\ load' = [load EXCEPT ![l] = "older"]
  /\ detached' = TRUE /\ olderArray' = view
  /\ UNCHANGED <<view, cursor, loadingChat, replaced>>

\* The panel scrolled to the top: one older load at a time, none during a full one.
LoadOlder(l) ==
  /\ load[l] = "none" /\ ~LoadingOlder /\ ~loadingChat /\ Shown # {}
  /\ load' = [load EXCEPT ![l] = "older"]
  /\ UNCHANGED <<view, cursor, loadingChat, detached, olderArray, replaced>>

\* The array the load refers to comes back in front of the answer, also when
\* another one has taken its place since.
OlderLoaded(l, messages) ==
  /\ load[l] = "older"
  /\ Finish(l)
  /\ IF messages = {} THEN UNCHANGED view
     ELSE view' = AppendNew(IF detached THEN olderArray ELSE view, messages)
  /\ DropOlderArray
  /\ UNCHANGED <<cursor, loadingChat>>

\* A quoted, pinned or found message that is not on screen: the page around it is
\* fetched, whatever other loads there are.
JumpTo(l) ==
  /\ load[l] = "none"
  /\ load' = [load EXCEPT ![l] = "jump"]
  /\ UNCHANGED <<view, cursor, loadingChat, detached, olderArray, replaced>>

\* The page holds the message and takes the place of the array; the resume point is
\* its newest message, which may lie behind the one before.
JumpLoaded(l, messages) ==
  /\ load[l] = "jump" /\ messages # {}
  /\ Finish(l)
  /\ Replace(Append(Empty, messages))
  /\ SetCursor(messages)
  /\ UNCHANGED loadingChat

\* The request failed, or the page of a jump lacks the message; a failed full load is
\* reported, the others answer [].
LoadFailed(l) ==
  /\ load[l] # "none"
  /\ Finish(l)
  /\ loadingChat' = (loadingChat /\ load[l] # "full")
  /\ IF load[l] = "older" THEN DropOlderArray ELSE UNCHANGED <<detached, olderArray, replaced>>
  /\ UNCHANGED <<view, cursor>>

-------------------------------------------------------------------------------
(* Single messages. *)

\* Mutant: no look for the message among the shown ones.
PushAlways(m) ==
  /\ view' = Append(view, {m})
  /\ RaiseCursor(m)
  /\ UNCHANGED <<loadingChat, loads>>

\* A message arrives over the WebSocket, or in the answer of a forward.
PushMessage(m) ==
  /\ IF m \in Shown
     THEN UNCHANGED <<view, cursor>>
     ELSE view' = Append(view, {m}) /\ RaiseCursor(m)
  /\ UNCHANGED <<loadingChat, loads>>

\* The answer to the client's own sendMessage.
MessageSent(m) ==
  /\ view' = AppendNew(view, {m})
  /\ RaiseCursor(m)
  /\ UNCHANGED <<loadingChat, loads>>

\* message_deleted, or the answer to the client's own deleteMessage.
RemoveMessage(m) ==
  /\ Replace([view EXCEPT ![m] = 0])
  /\ UNCHANGED <<cursor, loadingChat, load>>

-------------------------------------------------------------------------------
Next ==
  \/ \E l \in Load :
       \/ LoadMessages(l)
       \/ LoadNewer(l)
       \/ LoadOlder(l)
       \/ JumpTo(l)
       \/ LoadFailed(l)
       \/ \E messages \in SUBSET Id :
            \/ MessagesLoaded(l, messages)
            \/ NewerLoaded(l, messages)
            \/ OlderLoaded(l, messages)
            \/ JumpLoaded(l, messages)
  \/ \E m \in Id : PushMessage(m) \/ MessageSent(m) \/ RemoveMessage(m)

Spec == Init /\ [][Next]_vars

-------------------------------------------------------------------------------
(* Properties. *)

\* No message is shown twice, whatever pushes, answers and reloads overlap, and
\* none is held twice by the array an older load is about to bring back.
NoDuplicates == \A m \in Id : view[m] <= 1 /\ olderArray[m] <= 1

\* What is shown stays in whatever order the answers come: a message goes away only by
\* its deletion, when the newest page is reloaded, by a jump to another part of the
\* chat, and by an older page whose array one of these had replaced after it was
\* asked; of the older page's own array nothing is lost even then.
ShownStays ==
  [][\A m \in Shown :
       \/ m \in Held(view')
       \/ view' = [view EXCEPT ![m] = 0]
       \/ \E l \in Load : load[l] \in {"full", "jump"} /\ load'[l] = "none"
       \/ \E l \in Load : /\ load[l] = "older" /\ load'[l] = "none"
                         /\ replaced /\ m \notin Held(olderArray)]_vars

===============================================================================
