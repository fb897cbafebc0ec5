------------------------------ MODULE ChatScreen ------------------------------
(***************************************************************************)
(* The chat panel: its parts over one active chat.  The parts read and     *)
(* write nothing of one another but the chat on screen, its menu and the   *)
(* request they make, so that a behaviour lets one part move and the       *)
(* others rest: what a part may do does not depend on the others.          *)
(***************************************************************************)
EXTENDS Compose, Selecting, Media, Finding

VARIABLE part    \* the part the user works with in this behaviour

vars == <<screenVars, request, composeVars, selectVars, mediaVars, findVars, part>>

Init ==
  /\ part \in {"compose", "forward", "delete", "attach", "record", "play",
              "search", "pin", "jump"}
  /\ ScreenInit /\ ComposeInit /\ SelectInit /\ MediaInit /\ FindInit
  /\ part \notin {"search", "pin", "jump"} => \A c \in Chat : held[c] = In(c)

Next ==
  /\ UNCHANGED part
  /\ \/ part = "compose" /\ ComposeNext
        /\ UNCHANGED <<selectVars, mediaVars, findVars>>
     \/ part \in {"forward", "delete"} /\ SelectNext
        /\ (part = "forward" => UNCHANGED <<delete, batch>>)
        /\ (part = "delete" => UNCHANGED <<dragVars, forward>>)
        /\ UNCHANGED <<composeVars, mediaVars, findVars>>
     \/ part \in {"attach", "record", "play"} /\ MediaNext
        /\ (part # "attach" => UNCHANGED attachment)
        /\ (part # "record" => UNCHANGED recVars)
        /\ (part # "play" => UNCHANGED player)
        /\ UNCHANGED <<composeVars, selectVars, findVars>>
     \/ part \in {"search", "pin", "jump"} /\ FindNext
        /\ (part # "search" => UNCHANGED searchVars)
        /\ (part # "pin" => UNCHANGED <<menu, pinVars>>)
        /\ (part # "jump" => UNCHANGED pending)
        /\ UNCHANGED <<composeVars, selectVars, mediaVars>>

Spec == Init /\ [][Next]_vars

FairSpec == Spec /\ DeleteFairness

\* The state of every part is of the shape the code gives it.
TypeOK ==
  /\ ScreenTypeOK /\ ComposeTypeOK /\ SelectTypeOK /\ MediaTypeOK /\ FindTypeOK
===============================================================================
