------------------------------- MODULE Forwarding ------------------------------
(***************************************************************************)
(* One forwardMessages request: an INSERT for each message, all at once    *)
(* over the pool's connections, whose callbacks run on the threads of      *)
(* these connections and share an array, a counter and a flag without a    *)
(* lock.                                                                   *)
(***************************************************************************)
EXTENDS Naturals, Sequences, FiniteSets

CONSTANT N   \* the messages of the request, in the order of their ids

ASSUME CountAssumption == N \in Nat \ {0}

Message == 1 .. N

VARIABLES
  rows,       \* the forwarded rows, in the order of their new ids
  published,  \* the messages whose events were published
  at,         \* where the INSERT of each message, or its callback, stands
  newMessages,
  remaining,
  read,       \* the value of remaining that a callback's decrement has read
  hasError,
  answers,    \* the answers given so far
  lost        \* history: what two callbacks did at once, "append" or "decrement"

forwardVars == <<rows, published, at, newMessages, remaining, read, hasError, answers, lost>>

ForwardInit ==
  /\ rows = <<>> /\ published = {} /\ at = [m \in Message |-> "none"]
  /\ newMessages = {} /\ remaining = 0 /\ read = [m \in Message |-> 0]
  /\ hasError = FALSE /\ answers = <<>> /\ lost = {}

ForwardSteps == {"none", "sent", "row", "append", "count", "write", "failed", "error", "over"}

\* What a callback holds is of its type; remaining goes down from the number of
\* messages found, and no callback that runs goes below zero.
ForwardTypeOK ==
  /\ rows \in Seq(Message) /\ published \subseteq Message
  /\ at \in [Message -> ForwardSteps] /\ newMessages \subseteq Message
  /\ remaining \in 0 .. N /\ read \in [Message -> 0 .. N]
  /\ hasError \in BOOLEAN /\ lost \subseteq {"append", "decrement"}
  /\ answers \in Seq([kind : {"ok"}, list : SUBSET Message] \cup [kind : {"missing", "error"}])

Moves(m, from, to) == at[m] = from /\ at' = [at EXCEPT ![m] = to]
Others(m, step) == \E n \in Message \ {m} : at[n] = step

\* The messages that are there, of those asked for.
Fetched ==
  /\ at = [m \in Message |-> "none"] /\ answers = <<>>
  /\ \E found \in SUBSET Message :
       /\ at' = [m \in Message |-> IF m \in found THEN "sent" ELSE "none"]
       /\ remaining' = Cardinality(found)
       /\ answers' = IF found = {} THEN <<[kind |-> "missing"]>> ELSE answers
  /\ UNCHANGED <<rows, published, newMessages, read, hasError, lost>>

FetchFails ==
  /\ at = [m \in Message |-> "none"] /\ answers = <<>>
  /\ answers' = <<[kind |-> "error"]>>
  /\ UNCHANGED <<rows, published, at, newMessages, remaining, read, hasError, lost>>

Insert(m) ==
  /\ Moves(m, "sent", "row")
  /\ rows' = Append(rows, m)
  /\ UNCHANGED <<published, newMessages, remaining, read, hasError, answers, lost>>

InsertFails(m) ==
  /\ Moves(m, "sent", "failed")
  /\ UNCHANGED <<rows, published, newMessages, remaining, read, hasError, answers, lost>>

-----------------------------------------------------------------------------
\* The callback of an INSERT.

Publish(m) ==
  /\ Moves(m, "row", "append")
  /\ published' = published \cup {m}
  /\ UNCHANGED <<rows, newMessages, remaining, read, hasError, answers, lost>>

\* Two appends at once: either element may be the one that stays.
AppendNew(m) ==
  /\ Moves(m, "append", "count")
  /\ \/ newMessages' = newMessages \cup {m}
     \/ Others(m, "append") /\ newMessages' = newMessages
  /\ lost' = IF Others(m, "append") THEN lost \cup {"append"} ELSE lost
  /\ UNCHANGED <<rows, published, remaining, read, hasError, answers>>

\* --(*remaining) on an int that threads share: a read, then a write.
ReadRemaining(m) ==
  /\ Moves(m, "count", "write")
  /\ read' = [read EXCEPT ![m] = remaining]
  /\ lost' = IF Others(m, "write") THEN lost \cup {"decrement"} ELSE lost
  /\ UNCHANGED <<rows, published, newMessages, remaining, hasError, answers>>

\* Mutant: the last but one answers.
WriteRemainingEarly(m) ==
  /\ Moves(m, "write", "over")
  /\ remaining' = read[m] - 1
  /\ answers' = IF read[m] - 1 =< 1 /\ ~hasError
                THEN Append(answers, [kind |-> "ok", list |-> newMessages]) ELSE answers
  /\ UNCHANGED <<rows, published, newMessages, read, hasError, lost>>

WriteRemaining(m) ==
  /\ Moves(m, "write", "over")
  /\ remaining' = read[m] - 1
  /\ answers' = IF read[m] - 1 = 0 /\ ~hasError
                THEN Append(answers, [kind |-> "ok", list |-> newMessages]) ELSE answers
  /\ UNCHANGED <<rows, published, newMessages, read, hasError, lost>>

\* The error callback: hasError is read, then set by who found it FALSE.
ReadError(m) ==
  /\ Moves(m, "failed", IF hasError THEN "over" ELSE "error")
  /\ UNCHANGED <<rows, published, newMessages, remaining, read, hasError, answers, lost>>

AnswerError(m) ==
  /\ Moves(m, "error", "over")
  /\ hasError' = TRUE
  /\ answers' = Append(answers, [kind |-> "error"])
  /\ UNCHANGED <<rows, published, newMessages, remaining, read, lost>>

Callback(m) ==
  \/ Insert(m) \/ InsertFails(m) \/ Publish(m) \/ AppendNew(m)
  \/ ReadRemaining(m) \/ WriteRemaining(m) \/ ReadError(m) \/ AnswerError(m)

ForwardNext == Fetched \/ FetchFails \/ \E m \in Message : Callback(m)

-----------------------------------------------------------------------------
\* The messages whose row is there.
Forwarded == {rows[i] : i \in DOMAIN rows}
Oks == {i \in DOMAIN answers : answers[i].kind = "ok"}

\* The request is told "ok" at most once, and then there was no error, and every
\* message it found has its row and its event; the list lacks none, unless appends
\* overlapped.  No lost decrement can bring the counter to zero too early.
OkMeansAll ==
  \A i \in Oks :
    /\ Len(answers) = 1
    /\ \A m \in Message : at[m] # "none" => m \in Forwarded \cap published
    /\ "append" \notin lost => answers[i].list = Forwarded

\* Once all callbacks have run the request was answered, whatever failed, unless two
\* decrements overlapped.
NoneWaits ==
  /\ \A m \in Message : at[m] \in {"none", "over"}
  /\ \E m \in Message : at[m] = "over"
  => answers # <<>> \/ "decrement" \in lost

\* An answer comes, and it is the right one.
AnswerRight == OkMeansAll /\ NoneWaits
===============================================================================
