-------------------------------- MODULE Channel --------------------------------
(***************************************************************************)
(* What the channel of a chat promises to the connections of one api        *)
(* process, "PUBLISH -> WS push -> all subscribed connections on this node":*)
(* from the moment events reach a connection it is sent every event, once   *)
(* and in the one order Redis gave them, until it ends.  Events may be lost, *)
(* but then for all connections.  Fanout.tla implements it.                 *)
(***************************************************************************)
EXTENDS Naturals, Sequences

CONSTANT Conn  \* connections

VARIABLES
  passed,   \* events dealt with: those numbered 1 .. passed
  lost,     \* those of them that nobody was sent
  reached,  \* the connections that events reach
  heard     \* the events each of these was sent

vars == <<passed, lost, reached, heard>>

TypeOK ==
  /\ passed \in Nat
  /\ lost \subseteq 1 .. passed
  /\ reached \subseteq Conn
  /\ heard \in [Conn -> Seq(1 .. passed)]

Init ==
  /\ passed = 0
  /\ lost = {}
  /\ reached = {}
  /\ heard = [c \in Conn |-> <<>>]

Join(c) ==
  /\ c \notin reached
  /\ reached' = reached \cup {c}
  /\ UNCHANGED <<passed, lost, heard>>

Leave(c) ==
  /\ c \in reached
  /\ reached' = reached \ {c}
  /\ heard' = [heard EXCEPT ![c] = <<>>]
  /\ UNCHANGED <<passed, lost>>

Send ==
  /\ passed' = passed + 1
  /\ heard' = [c \in Conn |->
                 IF c \in reached THEN Append(heard[c], passed + 1) ELSE heard[c]]
  /\ UNCHANGED <<lost, reached>>

Lose ==
  /\ passed' \in Nat /\ passed' > passed
  /\ lost' = lost \cup (passed + 1) .. passed'
  /\ UNCHANGED <<reached, heard>>

Next ==
  \/ \E c \in Conn : Join(c) \/ Leave(c)
  \/ Send
  \/ Lose

Spec == Init /\ [][Next]_vars

\* From the first event it was sent, a connection has been sent exactly the events
\* that were not lost, each once and in their order.
OnceInOrder ==
  \A c \in Conn : heard[c] # <<>> =>
    /\ \A i \in 2 .. Len(heard[c]) : heard[c][i - 1] < heard[c][i]
    /\ heard[c][1] .. passed \ lost = {heard[c][i] : i \in 1 .. Len(heard[c])}
================================================================================
