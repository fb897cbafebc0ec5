------------------------------ MODULE MCPresence ------------------------------
(***************************************************************************)
(* Presence on a small instance: two devices (a third behaves as one of the *)
(* two reconnecting) and two pending timers.                                *)
(***************************************************************************)
EXTENDS Presence
===============================================================================
