------------------------------ MODULE MCRequests -------------------------------
(* TLC instance of Requests.                                                  *)
EXTENDS Requests, TLC

Symmetry == Permutations(User) \cup Permutations(Chat)
            \cup Permutations(Invite) \cup Permutations(Request)
===============================================================================
