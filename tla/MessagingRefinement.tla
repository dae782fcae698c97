------------------------ MODULE MessagingRefinement ------------------------
(* Messaging implements MessageOnce: a token's sends, counted.              *)
EXTENDS Messaging

Count(stages) ==
  [t \in Tokens |-> Cardinality({h \in Handlers :
     task[h] # Null /\ task[h].token = t /\ task[h].at \in stages})]

CountMessages(S) == [t \in Tokens |-> Cardinality({m \in S : message[m].token = t})]

Once == INSTANCE MessageOnce WITH
  remembered <- uniqueMsgTokens,
  claims <- Count({"finding", "creating", "storing"}),
  owed <- Count({"linking", "emitting"}),
  stored <- CountMessages({m \in Messages : message[m] # Null}),
  told <- CountMessages(emitted)

\* However sends, retries, disconnects and failures interleave, only a token the
\* gateway has dropped is accepted again, and each accepted send stores and announces
\* at most one message.
StoresAtMostOnce == Once!MSpec

\* Every accepted send comes to an end: its message is stored and announced, or the
\* send fails, also when two sends insert the same chat or the chat is deleted.
SendsEnd == Once!MFairSpec
=============================================================================
