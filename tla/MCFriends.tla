------------------------------ MODULE MCFriends -----------------------------
(***************************************************************************)
(* The symmetries of Friends.                                               *)
(***************************************************************************)
EXTENDS Friends, TLC

Symmetry == Permutations(Users) \cup Permutations(Requests) \cup Permutations(Handlers)
=============================================================================
