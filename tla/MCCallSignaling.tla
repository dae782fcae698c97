-------------------------- MODULE MCCallSignaling --------------------------
(* Two users; each has one socket and u1 calls u2.  *)
EXTENDS CallRefinement, TLC

CONSTANTS u1, u2, k1, k2

OneDeviceEach == (k1 :> u1) @@ (k2 :> u2)

u1CallsU2 == {<<k1, u2>>}

Symmetry == Permutations(Handlers) \cup Permutations(Calls)
=============================================================================
