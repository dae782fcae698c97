--------------------------- MODULE CallLifecycle ---------------------------
(***************************************************************************)
(* What the call-service promises about one call, without sockets, handlers *)
(* or statements in flight: it rings, is answered at most once, is over once *)
(* and for all, and the caller is owed exactly one ACCEPTED for an answer.   *)
(* CallSignaling implements it (CallRefinement).                             *)
(***************************************************************************)
CONSTANT Calls

VARIABLES
  phase,   \* phase[c]: "none", "ringing", "answered" or "over"
  notice   \* notice[c]: the caller's ACCEPTED: "none", "owed", "given", "lost"

lvars == <<phase, notice>>

LTypeOK ==
  /\ phase \in [Calls -> {"none", "ringing", "answered", "over"}]
  /\ notice \in [Calls -> {"none", "owed", "given", "lost"}]

LInit ==
  /\ phase = [c \in Calls |-> "none"]
  /\ notice = [c \in Calls |-> "none"]

Ring(c) ==
  /\ phase[c] = "none"
  /\ phase' = [phase EXCEPT ![c] = "ringing"]
  /\ UNCHANGED notice

Answer(c) ==
  /\ phase[c] = "ringing"
  /\ phase' = [phase EXCEPT ![c] = "answered"]
  /\ notice' = [notice EXCEPT ![c] = "owed"]

\* The answer is announced even if the call has been ended meanwhile.
GiveNotice(c) ==
  /\ notice[c] = "owed"
  /\ notice' = [notice EXCEPT ![c] = "given"]
  /\ UNCHANGED phase

Conclude(c) ==
  /\ phase[c] \in {"ringing", "answered"}
  /\ phase' = [phase EXCEPT ![c] = "over"]
  /\ UNCHANGED notice

\* The process dies: every live call is over and what was owed is lost.
LoseAll ==
  /\ phase' = [c \in Calls |-> IF phase[c] = "none" THEN "none" ELSE "over"]
  /\ notice' = [c \in Calls |-> IF notice[c] = "owed" THEN "lost" ELSE notice[c]]

LNext ==
  \/ \E c \in Calls : Ring(c) \/ Answer(c) \/ GiveNotice(c) \/ Conclude(c)
  \/ LoseAll

LSpec == LInit /\ [][LNext]_lvars

LFairSpec ==
  /\ LSpec
  /\ \A c \in Calls :
       /\ WF_lvars(phase[c] = "ringing" /\ (Answer(c) \/ Conclude(c) \/ LoseAll))
       /\ WF_lvars(notice[c] = "owed" /\ (GiveNotice(c) \/ LoseAll))
=============================================================================
