----------------------------- MODULE MCModeration -----------------------------
(***************************************************************************)
(* Values for the constants of Moderation and its symmetries.               *)
(***************************************************************************)
EXTENDS Moderation, TLC

CONSTANTS u1, u2, m1, m2

\* m1 is a message of u1 with a media file.
OneMessage == m1 :> {u1}
OnePair == {<<u2, u1>>}
OnePicture == {m1}

Symmetry == Permutations(Reports) \cup Permutations(Devices) \cup Permutations(Admins)
=============================================================================
