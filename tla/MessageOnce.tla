---------------------------- MODULE MessageOnce ----------------------------
(***************************************************************************)
(* What the chat-service promises a client that retries a send under one    *)
(* token: while the token is remembered no second send is accepted, every   *)
(* accepted send stores its message or is dropped, every stored message is  *)
(* announced once or its announcement is lost.  Messaging implements it     *)
(* (MessagingRefinement).                                                   *)
(***************************************************************************)
EXTENDS Naturals

CONSTANT Tokens

VARIABLES
  remembered,  \* tokens a new send is refused for
  claims,      \* claims[t]: accepted sends of t that have stored nothing yet
  owed,        \* owed[t]: stored messages of t still to be announced
  stored,      \* stored[t]: messages stored for t so far
  told         \* told[t]: messages announced for t so far

mvars == <<remembered, claims, owed, stored, told>>

None == [t \in Tokens |-> 0]

MInit ==
  /\ remembered = {}
  /\ claims = None /\ owed = None /\ stored = None /\ told = None

Accept(t) ==
  /\ t \notin remembered
  /\ remembered' = remembered \cup {t}
  /\ claims' = [claims EXCEPT ![t] = @ + 1]
  /\ UNCHANGED <<owed, stored, told>>

Store(t) ==
  /\ claims[t] > 0
  /\ claims' = [claims EXCEPT ![t] = @ - 1]
  /\ owed' = [owed EXCEPT ![t] = @ + 1]
  /\ stored' = [stored EXCEPT ![t] = @ + 1]
  /\ UNCHANGED <<remembered, told>>

Announce(t) ==
  /\ owed[t] > 0
  /\ owed' = [owed EXCEPT ![t] = @ - 1]
  /\ told' = [told EXCEPT ![t] = @ + 1]
  /\ UNCHANGED <<remembered, claims, stored>>

\* A send fails before or after its message is stored.
GiveUp(t) ==
  /\ \/ claims[t] > 0 /\ claims' = [claims EXCEPT ![t] = @ - 1] /\ UNCHANGED owed
     \/ owed[t] > 0 /\ owed' = [owed EXCEPT ![t] = @ - 1] /\ UNCHANGED claims
  /\ UNCHANGED <<remembered, stored, told>>

\* The clients of a user, or an hour, are gone.
Forget(S) ==
  /\ remembered' = remembered \ S
  /\ UNCHANGED <<claims, owed, stored, told>>

\* The process dies.
LoseAll ==
  /\ remembered' = {} /\ claims' = None /\ owed' = None
  /\ UNCHANGED <<stored, told>>

MNext ==
  \/ \E t \in Tokens : Accept(t) \/ Store(t) \/ Announce(t) \/ GiveUp(t)
  \/ \E S \in SUBSET Tokens : Forget(S)
  \/ LoseAll

MSpec == MInit /\ [][MNext]_mvars

\* Neither an accepted send nor an announcement is put off for ever.
MFairSpec ==
  /\ MSpec
  /\ \A t \in Tokens :
       WF_mvars(claims[t] + owed[t] > 0 /\ (Store(t) \/ Announce(t) \/ GiveUp(t) \/ LoseAll))
=============================================================================
