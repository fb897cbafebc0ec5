------------------------------ MODULE MCDelivery ------------------------------
(***************************************************************************)
(* Delivery on small instances: up to three messages, one load in flight,   *)
(* pages of one message or two.                                             *)
(***************************************************************************)
EXTENDS Delivery
===============================================================================
