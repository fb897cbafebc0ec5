---------------------------------- MODULE App ----------------------------------
(***************************************************************************)
(* The page: the session with the view it mounts and unmounts, and the     *)
(* socket of that view.  Presence moves in behaviours of its own, in which *)
(* the view comes and goes freely.  Tokens expire in some of a session's   *)
(* behaviours, messages arrive to be marked read in others.                *)
(***************************************************************************)
EXTENDS Session

VARIABLE part

vars == <<wsVars, sessionVars, part>>

Init ==
  /\ part \in {"link", "session", "reads"}
  /\ WsInit /\ SessionInit

Next ==
  /\ UNCHANGED part
  /\ \/ part = "link" /\ (LinkNext \/ PresenceNext) /\ UNCHANGED sessionVars
     \/ part # "link" /\ SessionNext
     \/ part # "link" /\ (Mounted \/ onopen \/ onclose \/ Reconnect)
        /\ UNCHANGED sessionVars
     \/ part = "session" /\ Expires
     \/ part = "reads" /\ debouncedMarkRead

Spec == Init /\ [][Next]_vars

\* The clock of the presence moves in part "link" only.
PresenceFairness ==
  /\ WF_wsVars(part = "link" /\ AwayGraceEnds) /\ WF_wsVars(part = "link" /\ TimePasses)
  /\ WF_wsVars(part = "link" /\ presenceCheck)

\* What the browser, the network and the server owe the client, and no more.
FairSpec == Spec /\ LinkFairness /\ PresenceFairness /\ SessionFairness

\* Session and socket are of the shape the code gives them.
TypeOK == WsTypeOK /\ SessionTypeOK
===============================================================================
