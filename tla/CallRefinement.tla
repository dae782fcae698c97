--------------------------- MODULE CallRefinement ---------------------------
(***************************************************************************)
(* CallSignaling implements CallLifecycle.  A call rings while its session  *)
(* is in the table; the ACCEPTED notice is owed while an acceptCall is in   *)
(* flight.                                                                  *)
(***************************************************************************)
EXTENDS CallSignaling

PhaseOf(c) ==
  IF ~Rung(c) THEN "none"
  ELSE IF c \notin activeCallSessions THEN "over"
  ELSE IF Accepted(c) THEN "answered" ELSE "ringing"

NoticeOf(c) ==
  IF Told(c, "ACCEPTED") THEN "given"
  ELSE IF ~Accepted(c) THEN "none"
  ELSE IF \E x \in Slots : Accepting(x, c) THEN "owed" ELSE "lost"

Lifecycle == INSTANCE CallLifecycle WITH
  phase <- [c \in Calls |-> PhaseOf(c)],
  notice <- [c \in Calls |-> NoticeOf(c)]

\* Every behaviour of the gateway is one the lifecycle allows: a call is answered
\* only while ringing, is over once, and its ACCEPTED is announced at most once.
ImplementsLifecycle == Lifecycle!LSpec

\* And it keeps what the lifecycle promises to do in the end: every ringing call is
\* answered or over, every owed ACCEPTED is announced, unless the process dies --
\* also when statements fail, as call.service.ts:46 wants ("handle the DB error
\* without breaking signaling").
KeepsPromises == Lifecycle!LFairSpec
=============================================================================
