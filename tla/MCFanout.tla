------------------------------- MODULE MCFanout -------------------------------
(* TLC instance of Fanout. *)
EXTENDS Fanout
===============================================================================
