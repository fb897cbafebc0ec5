------------------------------- MODULE Requests --------------------------------
(***************************************************************************)
(* Requests of the api process whose statements and callbacks interleave:  *)
(* those that change who is a member of what, and a forward, which is many *)
(* statements at once.  They share the pool of database connections and no *)
(* row that either looks at, so a behaviour moves one of the two parts.    *)
(***************************************************************************)
EXTENDS Membership, Forwarding

VARIABLE part

vars == <<memberVars, forwardVars, part>>

Init == part \in {"members", "forward"} /\ MembershipInit /\ ForwardInit

Next ==
  /\ UNCHANGED part
  /\ \/ part = "members" /\ MembershipNext /\ UNCHANGED forwardVars
     \/ part = "forward" /\ ForwardNext /\ UNCHANGED memberVars

Spec == Init /\ [][Next]_vars

\* The rows, and what requests and callbacks hold, are of their types.
TypeOK == MembershipTypeOK /\ ForwardTypeOK
===============================================================================
