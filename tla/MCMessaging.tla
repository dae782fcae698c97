---------------------------- MODULE MCMessaging ----------------------------
(* Two users who write to each other; u1 may have two devices.              *)
EXTENDS MessagingRefinement, TLC

CONSTANTS u1, u2, k1, k2, k3, t1, t2

OneDeviceEach == (k1 :> u1) @@ (k2 :> u2)
OneDevice == k1 :> u1
TwoDevices == (k1 :> u1) @@ (k3 :> u1)
FromU1 == t1 :> u1
ToU2 == t1 :> u2
EachAuthor == (t1 :> u1) @@ (t2 :> u2)
EachReceiver == (t1 :> u2) @@ (t2 :> u1)

Symmetry == Permutations(Handlers) \cup Permutations(Chats) \cup Permutations(Messages)
=============================================================================
