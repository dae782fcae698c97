------------------------------- MODULE MCGroups -------------------------------
(***************************************************************************)
(* Values for the constants of Groups and its symmetries.                   *)
(***************************************************************************)
EXTENDS Groups, TLC

CONSTANTS u0, u1, u2, u3, u4

Symmetry ==
  Permutations(Users \ ({Creator} \cup Founders)) \cup Permutations(Requests)
  \cup Permutations(Messages) \cup Permutations(Handlers)
=============================================================================
