--------------------------------- MODULE MCApp ---------------------------------
(* TLC instance of App.                                                       *)
EXTENDS App, TLC
===============================================================================
