---------------------------- MODULE MCGroupSends ----------------------------
(***************************************************************************)
(* Values for the constants of GroupSends.  No symmetry: the run checks      *)
(* liveness.                                                                *)
(***************************************************************************)
EXTENDS GroupSends, TLC

CONSTANTS u1, u2, t1, d1, d2

\* u2 writes, first as the ADMIN and, once removed and added again, as a MEMBER;
\* u1 has two devices.
Authors == t1 :> u2
Owners == d1 :> u1 @@ d2 :> u1
=============================================================================
