------------------------------ MODULE MCChatView ------------------------------
(***************************************************************************)
(* ChatView on a small instance: three messages and three loads in flight   *)
(* (one of each kind, or several of one).                                   *)
(***************************************************************************)
EXTENDS ChatView, TLC

LoadSymmetry == Permutations(Load)
===============================================================================
