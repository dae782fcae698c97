-------------------------- MODULE GroupSends_proofs --------------------------
(***************************************************************************)
(* Proofs about GroupSends, for every set of users, tokens and devices and   *)
(* every finite set of handlers.                                            *)
(***************************************************************************)
EXTENDS GroupSends, FiniteSetTheorems, TLAPS

-----------------------------------------------------------------------------
(* The inductive invariant.                                                 *)

Unstored == Sending \ {"listing"}

\* The sends of t that may still store a message.
Sends(t) == {h \in Handlers : task[h] # Null /\ task[h].token = t /\ task[h].at \in Unstored}

\* Every such send may store one, and the bound holds even then.
RoomForAll == \A t \in Tokens : stored[t] + Cardinality(Sends(t)) <= MaxStored

\* The history of a send remembers the members and the permission of now, and what
\* the two checks saw.
HistoryKept ==
  \A h \in Handlers : task[h] # Null /\ task[h].at \in Unstored =>
    /\ Author[task[h].token] \in members => task[h].wasMember
    /\ MayBeAllowed(Author[task[h].token]) => task[h].wasAllowed
    /\ task[h].at \in {"permission", "storing"} => task[h].wasMember
    /\ task[h].at = "storing" => task[h].wasAllowed

Claiming(h, t) ==
  task[h] # Null /\ task[h].token = t /\ task[h].at \in {"member", "permission", "storing"}

\* A token the gateway never dropped is remembered while a send of it is past the
\* check or stored, and that is one send.
TokensHeld ==
  \A t \in Tokens \ forgotten :
    /\ \A h \in Handlers : Claiming(h, t) => t \in uniqueMsgTokens /\ stored[t] = 0
    /\ \A h, x \in Handlers : Claiming(h, t) /\ Claiming(x, t) => h = x
    /\ stored[t] <= 1 /\ (stored[t] = 1 => t \in uniqueMsgTokens)

IInv == TypeOK /\ RoomForAll /\ HistoryKept /\ TokensHeld

-----------------------------------------------------------------------------
(* What the steps of a send do to the slots.                                *)

LEMMA TaskType ==
  ASSUME TypeOK, NEW h \in Handlers, task[h] # Null
  PROVE  /\ task[h] \in Task /\ task[h].token \in Tokens
         /\ task[h].at \in Sending \cup Pushing /\ Sender(h) \in Users
         /\ task[h].wasMember \in BOOLEAN /\ task[h].wasAllowed \in BOOLEAN
BY GroupSendsAssumption DEF TypeOK, Task, Sender

\* The send in slot h goes on; the others stay where they are.
Moves(h, at) ==
  /\ task[h] # Null /\ task'[h] # Null /\ task'[h] \in Task
  /\ task'[h].at = at /\ task'[h].token = task[h].token
  /\ task'[h].wasMember = task[h].wasMember /\ task'[h].wasAllowed = task[h].wasAllowed
  /\ \A x \in Handlers : x # h => task'[x] = task[x]
  /\ task' \in [Handlers -> Task \cup {Null}]

LEMMA FinishTask ==
  ASSUME TypeOK, NEW h \in Handlers, Finish(h)
  PROVE  /\ task' \in [Handlers -> Task \cup {Null}] /\ task'[h] = Null
         /\ \A x \in Handlers : x # h => task'[x] = task[x]
BY DEF Finish, TypeOK

LEMMA SlotMoves ==
  ASSUME TypeOK, NEW h \in Handlers, task[h] # Null, NEW r \in Task,
         task' = [task EXCEPT ![h] = r], r.token = task[h].token,
         r.wasMember = task[h].wasMember, r.wasAllowed = task[h].wasAllowed
  PROVE  Moves(h, r.at)
BY GroupSendsAssumption DEF Moves, TypeOK

LEMMA GoesToMoves ==
  ASSUME TypeOK, NEW h \in Handlers, task[h] # Null, NEW at \in Sending \cup Pushing,
         GoesTo(h, at)
  PROVE  Moves(h, at)
<1> DEFINE r == [task[h] EXCEPT !.at = at]
<1>1. task[h] \in Task
  BY TaskType
<1>2. r \in Task /\ r.at = at /\ r.token = task[h].token
      /\ r.wasMember = task[h].wasMember /\ r.wasAllowed = task[h].wasAllowed
  BY <1>1 DEF Task
<1>3. task' = [task EXCEPT ![h] = r]
  BY DEF GoesTo
<1> HIDE DEF r
<1> QED
  BY <1>2, <1>3, SlotMoves

LEMMA ListedMoves ==
  ASSUME TypeOK, NEW h \in Handlers, HandleEmitNewMessage(h)
  PROVE  Moves(h, "next")
<1> DEFINE r == [task[h] EXCEPT !.at = "next", !.queue = members \ {Sender(h)}]
<1>0. task[h] # Null
  BY DEF HandleEmitNewMessage, Waits
<1>1. task[h] \in Task /\ members \ {Sender(h)} \in SUBSET Users
  BY <1>0, TaskType DEF TypeOK
<1>2. r \in Task /\ r.at = "next" /\ r.token = task[h].token
      /\ r.wasMember = task[h].wasMember /\ r.wasAllowed = task[h].wasAllowed
  BY <1>1 DEF Task, Pushing
<1>3. task' = [task EXCEPT ![h] = r]
  BY DEF HandleEmitNewMessage
<1> HIDE DEF r
<1> QED
  BY <1>0, <1>2, <1>3, SlotMoves

LEMMA NextMoves ==
  ASSUME TypeOK, NEW h \in Handlers, NextReceiver(h)
  PROVE  Finish(h) \/ Moves(h, "enabled")
<1>0. task[h] # Null /\ task[h] \in Task
  BY TaskType DEF NextReceiver, Waits
<1>1. ASSUME NEW u \in task[h].queue, NEW r, r = [task[h] EXCEPT !.at = "enabled", !.to = u, !.queue = @ \ {u}],
             task' = [task EXCEPT ![h] = r]
      PROVE  Moves(h, "enabled")
  <2>1. u \in Users /\ task[h].queue \ {u} \in SUBSET Users
    BY <1>0 DEF Task
  <2>2. r \in Task /\ r.at = "enabled" /\ r.token = task[h].token
        /\ r.wasMember = task[h].wasMember /\ r.wasAllowed = task[h].wasAllowed
    BY <1>0, <1>1, <2>1 DEF Task, Pushing
  <2> QED
    BY <1>0, <1>1, <2>2, SlotMoves
<1>2. ASSUME NEW u \in task[h].queue,
             task' = [task EXCEPT ![h].at = "enabled", ![h].to = u, ![h].queue = @ \ {u}]
      PROVE  Moves(h, "enabled")
  BY <1>1, <1>2
<1> QED
  BY <1>2 DEF NextReceiver

LEMMA SettledMoves ==
  ASSUME TypeOK, NEW h \in Handlers, task[h] # Null, Settled(h)
  PROVE  Moves(h, "next")
<1> DEFINE r == [task[h] EXCEPT !.at = "next", !.to = Null, !.devices = {}]
<1>1. task[h] \in Task
  BY TaskType
<1>2. r \in Task /\ r.at = "next" /\ r.token = task[h].token
      /\ r.wasMember = task[h].wasMember /\ r.wasAllowed = task[h].wasAllowed
  BY <1>1 DEF Task, Pushing
<1>3. task' = [task EXCEPT ![h] = r]
  BY DEF Settled
<1> HIDE DEF r
<1> QED
  BY <1>2, <1>3, SlotMoves

LEMMA FoundMoves ==
  ASSUME TypeOK, NEW h \in Handlers, FindSubscriptionsByUserId(h)
  PROVE  Moves(h, "unsettled") \/ Moves(h, "sending")
<1> DEFINE found == {d \in subscribed : Owner[d] = task[h].to}
           at == IF found = {} THEN "unsettled" ELSE "sending"
           r == [task[h] EXCEPT !.at = at, !.devices = found]
<1>0. task[h] # Null /\ found \in SUBSET Devices
  BY DEF FindSubscriptionsByUserId, Waits, TypeOK
<1>1. task[h] \in Task
  BY <1>0, TaskType
<1>2. r \in Task /\ r.at = at /\ r.token = task[h].token
      /\ r.wasMember = task[h].wasMember /\ r.wasAllowed = task[h].wasAllowed
  BY <1>0, <1>1 DEF Task, Pushing
<1>3. task' = [task EXCEPT ![h] = r]
  BY DEF FindSubscriptionsByUserId
<1>4. at = "unsettled" \/ at = "sending"
  OBVIOUS
<1> HIDE DEF r, at
<1>5. Moves(h, at)
  BY <1>0, <1>2, <1>3, SlotMoves
<1> QED
  BY <1>4, <1>5

LEMMA AnswerMoves ==
  ASSUME TypeOK, NEW h \in Handlers, NEW d \in Devices, DeviceAnswers(h, d)
  PROVE  Moves(h, "next") \/ Moves(h, "sending")
<1> DEFINE r == [task[h] EXCEPT !.devices = @ \ {d}]
<1>0. task[h] # Null /\ task[h].at = "sending" /\ Counted(h, d)
  BY DEF DeviceAnswers, Waits
<1>1. task[h] \in Task
  BY <1>0, TaskType
<1>2. r \in Task /\ r.at = "sending" /\ r.token = task[h].token
      /\ r.wasMember = task[h].wasMember /\ r.wasAllowed = task[h].wasAllowed
  BY <1>0, <1>1 DEF Task
<1>3. Settled(h) \/ task' = [task EXCEPT ![h] = r]
  BY <1>0 DEF Counted
<1> HIDE DEF r
<1> QED
  BY <1>0, <1>2, <1>3, SlotMoves, SettledMoves

-----------------------------------------------------------------------------
(* The invariant is inductive.                                              *)

LEMMA SendsFinite ==
  ASSUME NEW t
  PROVE  IsFiniteSet(Sends(t)) /\ Cardinality(Sends(t)) \in Nat
BY GroupSendsAssumption, FS_Subset, FS_CardinalityType DEF Sends

\* Fewer sends, no more messages: room for all is kept.
LEMMA RoomKept ==
  ASSUME TypeOK, RoomForAll, stored' = stored, \A t \in Tokens : Sends(t)' \subseteq Sends(t)
  PROVE  RoomForAll'
<1> SUFFICES ASSUME NEW t \in Tokens
             PROVE  stored'[t] + Cardinality(Sends(t)') <= MaxStored
  BY DEF RoomForAll, Sends
<1>1. Cardinality(Sends(t)') <= Cardinality(Sends(t)) /\ Cardinality(Sends(t)') \in Nat
  BY SendsFinite, FS_Subset, FS_CardinalityType
<1>2. stored[t] + Cardinality(Sends(t)) <= MaxStored /\ stored[t] \in Nat
  BY DEF RoomForAll, TypeOK
<1> QED
  BY <1>1, <1>2, SendsFinite, GroupSendsAssumption

\* A send stays where it is, ends, or has stored its message.
Fades(x) ==
  task'[x] = task[x] \/ task'[x] = Null \/ (task'[x] # Null /\ task'[x].at \notin Unstored)

LEMMA FadesKeeps ==
  ASSUME IInv, TypeOK', UNCHANGED <<groupVars, stored>>, \A x \in Handlers : Fades(x),
         UNCHANGED tokenVars \/ \E S : Forget(S)
  PROVE  IInv'
<1> USE DEF IInv, Fades, groupVars, tokenVars
<1>1. RoomForAll'
  <2>1. \A t \in Tokens : Sends(t)' \subseteq Sends(t)
    BY DEF Sends
  <2> QED
    BY <2>1, RoomKept
<1>2. HistoryKept'
  BY DEF HistoryKept, MayBeAllowed
<1>3. TokensHeld'
  <2>1. \A h \in Handlers, t \in Tokens : Claiming(h, t)' => Claiming(h, t)
    BY DEF Claiming, Unstored, Sending
  <2>2. \A t \in Tokens \ forgotten' : t \notin forgotten /\ (t \in uniqueMsgTokens => t \in uniqueMsgTokens')
    BY DEF Forget
  <2> QED
    BY <2>1, <2>2 DEF TokensHeld
<1> QED
  BY <1>1, <1>2, <1>3

LEMMA FinishKeeps ==
  ASSUME IInv, NEW h \in Handlers, Finish(h), UNCHANGED <<groupVars, stored, tokenVars, pushVars>>
  PROVE  IInv'
<1>1. TypeOK' /\ \A x \in Handlers : Fades(x)
  BY FinishTask DEF IInv, Fades, TypeOK, groupVars, tokenVars, pushVars
<1> QED
  BY <1>1, FadesKeeps

LEMMA PushedKeeps ==
  ASSUME IInv, NEW h \in Handlers, NEW at \in Pushing \cup {"listing"}, Moves(h, at), removing' \subseteq Devices,
         UNCHANGED <<groupVars, stored, tokenVars, enabled, subscribed, expired>>
  PROVE  IInv'
<1>1. TypeOK'
  BY DEF IInv, Moves, TypeOK, groupVars, tokenVars
<1>2. \A x \in Handlers : Fades(x)
  BY DEF Moves, Fades, Unstored, Sending, Pushing
<1> QED
  BY <1>1, <1>2, FadesKeeps

\* Everything the loop over the receivers does.
LEMMA PushKeeps ==
  ASSUME IInv, NEW h \in Handlers,
         \/ HandleEmitNewMessage(h) \/ NextReceiver(h) \/ CheckIfUserEnablePushNotification(h)
         \/ FindSubscriptionsByUserId(h) \/ \E d \in Devices : DeviceAnswers(h, d)
  PROVE  IInv'
<1>0. TypeOK /\ removing \subseteq Devices
  BY DEF IInv, TypeOK
<1> USE DEF Pushing
<1>1. CASE HandleEmitNewMessage(h)
  BY <1>0, <1>1, ListedMoves, PushedKeeps DEF HandleEmitNewMessage, pushVars
<1>2. CASE NextReceiver(h)
  BY <1>0, <1>2, NextMoves, PushedKeeps, FinishKeeps DEF NextReceiver, pushVars
<1>3. CASE CheckIfUserEnablePushNotification(h)
  <2>1. Moves(h, "found") \/ Moves(h, "next")
    BY <1>0, <1>3, GoesToMoves, SettledMoves DEF CheckIfUserEnablePushNotification, Waits
  <2> QED
    BY <1>0, <1>3, <2>1, PushedKeeps DEF CheckIfUserEnablePushNotification, pushVars
<1>4. CASE FindSubscriptionsByUserId(h)
  BY <1>0, <1>4, FoundMoves, PushedKeeps DEF FindSubscriptionsByUserId, pushVars
<1>5. ASSUME NEW d \in Devices, DeviceAnswers(h, d) PROVE IInv'
  <2>1. removing' \subseteq Devices
    BY <1>0, <1>5 DEF DeviceAnswers
  <2> QED
    BY <1>0, <1>5, <2>1, AnswerMoves, PushedKeeps DEF DeviceAnswers
<1> QED
  BY <1>1, <1>2, <1>3, <1>4, <1>5

LEMMA SendKeeps ==
  ASSUME IInv, NEW h \in Handlers, NEW t \in Tokens, HandleSendGroupMessage(h, t)
  PROVE  IInv'
<1> USE DEF IInv
<1>1. /\ task[h] = Null /\ task'[h] # Null
      /\ task'[h].at = "auth" /\ task'[h].token = t
      /\ task'[h].wasMember = (Author[t] \in members)
      /\ task'[h].wasAllowed = MayBeAllowed(Author[t])
      /\ \A x \in Handlers : x # h => task'[x] = task[x]
      /\ task' \in [Handlers -> Task \cup {Null}]
  <2> DEFINE r == [at |-> "auth", token |-> t, queue |-> {}, to |-> Null, devices |-> {},
                   wasMember |-> Author[t] \in members, wasAllowed |-> MayBeAllowed(Author[t])]
  <2>0. MayBeAllowed(Author[t]) \in BOOLEAN
    BY DEF MayBeAllowed, TypeOK
  <2>1. r \in Task
    BY <2>0 DEF Task, Sending
  <2>2. task' = [task EXCEPT ![h] = r] /\ task[h] = Null
    BY DEF HandleSendGroupMessage
  <2>3. /\ r.at = "auth" /\ r.token = t /\ r.wasMember = (Author[t] \in members)
        /\ r.wasAllowed = MayBeAllowed(Author[t])
    OBVIOUS
  <2> HIDE DEF r
  <2> QED
    BY <2>1, <2>2, <2>3, GroupSendsAssumption DEF TypeOK
<1>2. UNCHANGED <<groupVars, tokenVars, stored, pushVars>> /\ stored[t] + InFlight(t) < MaxStored
  BY DEF HandleSendGroupMessage
<1>3. TypeOK'
  BY <1>1, <1>2 DEF TypeOK, groupVars, tokenVars, pushVars
<1>4. RoomForAll'
  <2>1. \A u \in Tokens : u # t => Sends(u)' = Sends(u)
    BY <1>1 DEF Sends
  <2>2. Sends(t)' \subseteq Sends(t) \cup {h} /\ h \notin Sends(t)
    BY <1>1 DEF Sends
  <2>3. Cardinality(Sends(t)') <= Cardinality(Sends(t)) + 1 /\ Cardinality(Sends(t)') \in Nat
    <3>1. /\ IsFiniteSet(Sends(t) \cup {h})
          /\ Cardinality(Sends(t) \cup {h}) = Cardinality(Sends(t)) + 1
      BY <2>2, SendsFinite, FS_AddElement
    <3>2. /\ Cardinality(Sends(t)') <= Cardinality(Sends(t) \cup {h})
          /\ IsFiniteSet(Sends(t)')
      BY <2>2, <3>1, FS_Subset
    <3> QED
      BY <3>1, <3>2, FS_CardinalityType
  <2>4. Cardinality(Sends(t)) <= InFlight(t) /\ InFlight(t) \in Nat
    <3>1. IsFiniteSet({x \in Handlers : task[x] # Null /\ task[x].token = t})
      BY GroupSendsAssumption, FS_Subset
    <3>2. Sends(t) \subseteq {x \in Handlers : task[x] # Null /\ task[x].token = t}
      BY DEF Sends
    <3> QED
      BY <3>1, <3>2, FS_Subset, FS_CardinalityType DEF InFlight
  <2>5. stored[t] + Cardinality(Sends(t)') <= MaxStored
    BY <1>2, <2>3, <2>4, SendsFinite, GroupSendsAssumption DEF TypeOK
  <2> QED
    BY <1>2, <2>1, <2>5 DEF RoomForAll, Sends
<1>5. HistoryKept'
  BY <1>1, <1>2 DEF HistoryKept, groupVars, MayBeAllowed
<1>6. TokensHeld'
  <2>1. \A x \in Handlers, u \in Tokens : Claiming(x, u)' => Claiming(x, u)
    BY <1>1 DEF Claiming
  <2> QED
    BY <1>2, <2>1 DEF TokensHeld, tokenVars
<1> QED
  BY <1>3, <1>4, <1>5, <1>6

\* The group changes: every send in flight remembers it.
LEMMA NoteTasks ==
  ASSUME TypeOK, NEW M, NEW allowed \in BOOLEAN, Note(M, allowed)
  PROVE  /\ task' \in [Handlers -> Task \cup {Null}]
         /\ \A x \in Handlers : task[x] = Null => task'[x] = Null
         /\ \A x \in Handlers : task[x] # Null =>
              /\ task'[x] # Null
              /\ task'[x].at = task[x].at /\ task'[x].token = task[x].token
              /\ task'[x].wasMember = (task[x].wasMember \/ Author[task[x].token] \in M)
              /\ task'[x].wasAllowed = (task[x].wasAllowed \/ allowed)
<1>1. ASSUME NEW x \in Handlers, task[x] # Null
      PROVE  /\ task'[x] \in Task
             /\ task'[x].at = task[x].at /\ task'[x].token = task[x].token
             /\ task'[x].wasMember = (task[x].wasMember \/ Author[task[x].token] \in M)
             /\ task'[x].wasAllowed = (task[x].wasAllowed \/ allowed)
  <2>1. task[x] \in Task
    BY <1>1, TaskType
  <2>2. task'[x] = [task[x] EXCEPT !.wasMember = task[x].wasMember \/ Author[task[x].token] \in M,
                                   !.wasAllowed = task[x].wasAllowed \/ allowed]
    BY <1>1 DEF Note
  <2> QED
    BY <2>1, <2>2 DEF Task
<1>2. \A x \in Handlers : task[x] = Null => task'[x] = Null
  BY DEF Note
<1>3. task' \in [Handlers -> Task \cup {Null}]
  <2>1. \A x \in Handlers : task'[x] \in Task \cup {Null}
    BY <1>1, <1>2
  <2>2. DOMAIN task' = Handlers /\ task' = [x \in Handlers |-> task'[x]]
    BY DEF Note
  <2> QED
    BY <2>1, <2>2
<1> QED
  BY <1>1, <1>2, <1>3, GroupSendsAssumption

LEMMA GroupKeeps ==
  ASSUME IInv, (\E u \in Users : ChangeMembers(u)) \/ UpdateGroupChatPermissions
  PROVE  IInv'
<1> USE DEF IInv
<1>1. /\ members' \subseteq Users /\ admins' \subseteq members' /\ maySend' \in BOOLEAN
      /\ admins' \subseteq admins
      /\ UNCHANGED <<tokenVars, stored, pushVars>>
  BY DEF ChangeMembers, UpdateGroupChatPermissions, TypeOK
<1>2. /\ task' \in [Handlers -> Task \cup {Null}]
      /\ \A x \in Handlers : task[x] = Null => task'[x] = Null
      /\ \A x \in Handlers : task[x] # Null =>
           /\ task'[x] # Null
           /\ task'[x].at = task[x].at /\ task'[x].token = task[x].token
           /\ task[x].wasMember => task'[x].wasMember
           /\ task[x].wasAllowed => task'[x].wasAllowed
           /\ Author[task[x].token] \in members' => task'[x].wasMember \/ Author[task[x].token] \in members
           /\ Author[task[x].token] \in admins' \/ maySend' => task'[x].wasAllowed \/ MayBeAllowed(Author[task[x].token])
  <2>1. ASSUME NEW u \in Users, ChangeMembers(u) PROVE <1>2!1 /\ <1>2!2 /\ <1>2!3
    <3>1. Note(members', FALSE) /\ UNCHANGED maySend
      BY <2>1 DEF ChangeMembers
    <3> QED
      BY <1>1, <3>1, NoteTasks DEF MayBeAllowed
  <2>2. ASSUME UpdateGroupChatPermissions PROVE <1>2!1 /\ <1>2!2 /\ <1>2!3
    <3>1. Note({}, maySend') /\ UNCHANGED <<members, admins>>
      BY <2>2 DEF UpdateGroupChatPermissions
    <3> QED
      BY <1>1, <3>1, NoteTasks DEF MayBeAllowed
  <2> QED
    BY <2>1, <2>2
<1>3. TypeOK'
  BY <1>1, <1>2 DEF TypeOK, tokenVars, pushVars
<1>4. RoomForAll'
  <2>1. \A t \in Tokens : Sends(t)' \subseteq Sends(t)
    BY <1>2 DEF Sends
  <2> QED
    BY <1>1, <2>1, RoomKept
<1>5. HistoryKept'
  <2>1. ASSUME NEW x \in Handlers, task'[x] # Null, task'[x].at \in Unstored
        PROVE  /\ Author[task'[x].token] \in members' => task'[x].wasMember
               /\ Author[task'[x].token] \in admins' \/ maySend' => task'[x].wasAllowed
               /\ task'[x].at \in {"permission", "storing"} => task'[x].wasMember
               /\ task'[x].at = "storing" => task'[x].wasAllowed
    <3>1. task[x] # Null /\ task[x].at \in Unstored /\ task'[x].token = task[x].token
      BY <1>2, <2>1
    <3> QED
      BY <1>2, <3>1 DEF HistoryKept, MayBeAllowed
  <2> QED
    BY <2>1 DEF HistoryKept, MayBeAllowed
<1>6. TokensHeld'
  <2>1. \A x \in Handlers, u \in Tokens : Claiming(x, u)' => Claiming(x, u)
    BY <1>2 DEF Claiming
  <2> QED
    BY <1>1, <2>1 DEF TokensHeld, tokenVars
<1> QED
  BY <1>3, <1>4, <1>5, <1>6

\* The steps of a send that has not stored its message: what its two checks see is
\* what its history says.
LEMMA CheckKeeps ==
  ASSUME IInv, NEW h \in Handlers, NEW from \in Unstored, Waits(h, from),
         NEW at \in Unstored, Moves(h, at),
         from \in {"permission", "storing"} \/ at \in {"permission", "storing"} => task[h].wasMember,
         at = "storing" => task[h].wasAllowed,
         UNCHANGED <<groupVars, stored, pushVars, forgotten>>,
         \/ from # "auth" /\ at # "auth" /\ UNCHANGED uniqueMsgTokens
         \/ /\ task[h].token \notin uniqueMsgTokens
            /\ uniqueMsgTokens' = uniqueMsgTokens \cup {task[h].token}
  PROVE  IInv'
<1> USE DEF IInv, Waits, Moves
<1>0. task[h].token \in Tokens
  BY TaskType
<1>1. TypeOK'
  BY <1>0 DEF TypeOK, groupVars, pushVars
<1>2. RoomForAll'
  <2>1. \A t \in Tokens : Sends(t)' \subseteq Sends(t)
    BY DEF Sends
  <2> QED
    BY <2>1, RoomKept
<1>3. HistoryKept'
  BY DEF HistoryKept, MayBeAllowed, groupVars
<1>4. TokensHeld'
  <2>1. CASE from # "auth" /\ at # "auth" /\ UNCHANGED uniqueMsgTokens
    <3>1. \A x \in Handlers, t \in Tokens : Claiming(x, t)' => Claiming(x, t)
      BY <2>1 DEF Claiming, Unstored, Sending
    <3> QED
      BY <2>1, <3>1 DEF TokensHeld
  <2>2. CASE /\ task[h].token \notin uniqueMsgTokens
             /\ uniqueMsgTokens' = uniqueMsgTokens \cup {task[h].token}
    <3>1. \A x \in Handlers, t \in Tokens :
            Claiming(x, t)' => Claiming(x, t) \/ (x = h /\ t = task[h].token)
      BY DEF Claiming
    <3>2. \A t \in Tokens \ forgotten : stored[t] \in Nat
      BY DEF TypeOK
    <3> QED
      BY <2>2, <3>1, <3>2 DEF TokensHeld
  <2> QED
    BY <2>1, <2>2
<1> QED
  BY <1>1, <1>2, <1>3, <1>4

LEMMA StoreKeeps ==
  ASSUME IInv, NEW h \in Handlers, CreateNewMessage(h)
  PROVE  IInv'
<1> USE DEF IInv
<1>0. task[h] # Null /\ task[h].at = "storing" /\ task[h].token \in Tokens /\ task[h] \in Task
  BY TaskType DEF CreateNewMessage, Waits
<1>1. PICK t \in Tokens : t = task[h].token
  BY <1>0
<1>2. /\ task' \in [Handlers -> Task \cup {Null}]
      /\ task'[h] # Null /\ task'[h].at = "listing"
      /\ \A x \in Handlers : x # h => task'[x] = task[x]
  <2> DEFINE r == [task[h] EXCEPT !.at = "listing", !.wasMember = TRUE, !.wasAllowed = TRUE]
  <2>1. r \in Task /\ r.at = "listing"
    BY <1>0 DEF Task, Sending
  <2>2. task' = [task EXCEPT ![h] = r]
    BY DEF CreateNewMessage
  <2> HIDE DEF r
  <2> QED
    BY <2>1, <2>2, GroupSendsAssumption DEF TypeOK
<1>3. /\ stored' = [stored EXCEPT ![t] = stored[t] + 1]
      /\ UNCHANGED <<groupVars, tokenVars, pushVars>>
  BY <1>1 DEF CreateNewMessage
<1>4. stored[t] \in Nat /\ stored[t] + Cardinality(Sends(t)) <= MaxStored
  BY DEF RoomForAll, TypeOK
<1>5. /\ h \in Sends(t) /\ Sends(t)' \subseteq Sends(t) \ {h}
      /\ \A u \in Tokens : u # t => Sends(u)' = Sends(u)
  BY <1>0, <1>1, <1>2 DEF Sends, Unstored, Sending
<1>6. Cardinality(Sends(t)') + 1 <= Cardinality(Sends(t)) /\ Cardinality(Sends(t)') \in Nat
  <2>1. /\ IsFiniteSet(Sends(t) \ {h})
        /\ Cardinality(Sends(t) \ {h}) = Cardinality(Sends(t)) - 1
    BY <1>5, SendsFinite, FS_RemoveElement
  <2>2. Cardinality(Sends(t)') <= Cardinality(Sends(t) \ {h}) /\ IsFiniteSet(Sends(t)')
    BY <1>5, <2>1, FS_Subset
  <2> QED
    BY <2>1, <2>2, SendsFinite, FS_CardinalityType
<1>7. stored[t] + 1 + Cardinality(Sends(t)') <= MaxStored
  BY <1>4, <1>6, SendsFinite, GroupSendsAssumption
<1>8. TypeOK'
  <2>1. stored[t] + 1 \in 0 .. MaxStored
    BY <1>4, <1>6, <1>7, GroupSendsAssumption
  <2> QED
    BY <1>2, <1>3, <2>1 DEF TypeOK, groupVars, tokenVars, pushVars
<1>9. RoomForAll'
  <2>1. ASSUME NEW u \in Tokens PROVE stored'[u] + Cardinality(Sends(u)') <= MaxStored
    BY <1>3, <1>5, <1>7 DEF RoomForAll, TypeOK
  <2> QED
    BY <2>1 DEF RoomForAll, Sends
<1>10. HistoryKept'
  BY <1>2, <1>3 DEF HistoryKept, MayBeAllowed, groupVars, Unstored, Sending
<1>11. TokensHeld'
  <2>1. \A x \in Handlers, u \in Tokens : Claiming(x, u)' => Claiming(x, u) /\ x # h
    BY <1>2 DEF Claiming
  <2>2. Claiming(h, t)
    BY <1>0, <1>1 DEF Claiming
  <2>3. stored'[t] = stored[t] + 1 /\ \A u \in Tokens : u # t => stored'[u] = stored[u]
    BY <1>3 DEF TypeOK
  <2>4. t \notin forgotten => stored[t] = 0 /\ t \in uniqueMsgTokens /\ \A x \in Handlers : ~Claiming(x, t)'
    BY <2>1, <2>2 DEF TokensHeld
  <2> QED
    BY <1>3, <2>1, <2>3, <2>4 DEF TokensHeld, tokenVars
<1> QED
  BY <1>8, <1>9, <1>10, <1>11

LEMMA InitInv == Init => IInv
<1> SUFFICES ASSUME Init
             PROVE  IInv
  OBVIOUS
<1>1. TypeOK
  BY GroupSendsAssumption DEF Init, TypeOK
<1>2. \A t : Sends(t) = {}
  BY DEF Init, Sends
<1>3. RoomForAll
  BY <1>2, FS_EmptySet, GroupSendsAssumption DEF Init, RoomForAll
<1>4. HistoryKept /\ TokensHeld
  BY DEF Init, HistoryKept, TokensHeld, Claiming
<1> QED
  BY <1>1, <1>3, <1>4 DEF IInv

LEMMA InvStep == IInv /\ [Next]_vars => IInv'
<1> SUFFICES ASSUME IInv, [Next]_vars
             PROVE  IInv'
  OBVIOUS
<1>0. TypeOK
  BY DEF IInv
<1>1. ASSUME UNCHANGED <<groupVars, stored, task>>,
             UNCHANGED tokenVars \/ \E t \in Tokens : Forget({t}),
             enabled' \subseteq Users, subscribed' \subseteq Devices,
             expired' \subseteq Devices, removing' \subseteq Devices
      PROVE  IInv'
  <2>1. TypeOK'
    BY <1>0, <1>1 DEF TypeOK, groupVars, tokenVars, Forget
  <2>2. \A x \in Handlers : Fades(x)
    BY <1>1 DEF Fades
  <2> QED
    BY <1>1, <2>1, <2>2, FadesKeeps
<1>2. ASSUME NEW h \in Handlers, CheckUniqueMessage(h) PROVE IInv'
  <2>1. task[h] # Null /\ task[h].at = "auth"
    BY <1>2 DEF CheckUniqueMessage, Waits
  <2>2. CASE task[h].token \in uniqueMsgTokens
    <3>1. UNCHANGED <<groupVars, tokenVars, stored, pushVars>> /\ Finish(h)
      BY <1>0, <1>2, <2>2 DEF CheckUniqueMessage, tokenVars, TypeOK
    <3> QED
      BY <3>1, FinishKeeps
  <2>3. CASE task[h].token \notin uniqueMsgTokens
    <3>1. Moves(h, "member")
      BY <1>0, <1>2, <2>1, <2>3, GoesToMoves DEF CheckUniqueMessage, Sending
    <3> QED
      BY <1>2, <2>1, <2>3, <3>1, CheckKeeps DEF CheckUniqueMessage, Waits, Unstored, Sending
  <2> QED
    BY <2>2, <2>3
<1>3. ASSUME NEW h \in Handlers, FindMemberInGroupChat(h) PROVE IInv'
  <2>1. /\ task[h] # Null /\ task[h].at = "member"
        /\ UNCHANGED <<groupVars, tokenVars, stored, pushVars>>
    BY <1>3 DEF FindMemberInGroupChat, Waits
  <2>2. CASE Sender(h) \notin members
    BY <1>3, <2>1, <2>2, FinishKeeps DEF FindMemberInGroupChat
  <2>3. CASE Sender(h) \in members
    <3>1. task[h].wasMember /\ (Sender(h) \in admins => task[h].wasAllowed)
      BY <2>1, <2>3 DEF IInv, HistoryKept, Unstored, Sending, Sender, MayBeAllowed
    <3>2. \/ Sender(h) \in admins /\ Moves(h, "storing")
          \/ Moves(h, "permission")
      BY <1>0, <1>3, <2>1, <2>3, GoesToMoves DEF FindMemberInGroupChat, Sending
    <3> QED
      BY <2>1, <3>1, <3>2, CheckKeeps DEF Waits, Unstored, Sending, tokenVars
  <2> QED
    BY <2>2, <2>3
<1>4. ASSUME NEW h \in Handlers, CheckGroupChatPermission(h) PROVE IInv'
  <2>1. /\ task[h] # Null /\ task[h].at = "permission"
        /\ UNCHANGED <<groupVars, tokenVars, stored, pushVars>>
    BY <1>4 DEF CheckGroupChatPermission, Waits
  <2>2. CASE ~maySend
    BY <1>4, <2>1, <2>2, FinishKeeps DEF CheckGroupChatPermission
  <2>3. CASE maySend
    <3>1. task[h].wasMember /\ task[h].wasAllowed
      BY <2>1, <2>3 DEF IInv, HistoryKept, Unstored, Sending, MayBeAllowed
    <3>2. Moves(h, "storing")
      BY <1>0, <1>4, <2>1, <2>3, GoesToMoves DEF CheckGroupChatPermission, Sending
    <3> QED
      BY <2>1, <3>1, <3>2, CheckKeeps DEF Waits, Unstored, Sending, tokenVars
  <2> QED
    BY <2>2, <2>3
<1>5. ASSUME NEW h \in Handlers, FailSend(h) PROVE IInv'
  BY <1>5, FinishKeeps DEF FailSend
<1>6. ASSUME NEW h \in Handlers, PushFails(h) PROVE IInv'
  <2>1. TypeOK' /\ \A x \in Handlers : Fades(x)
    BY <1>0, <1>6 DEF PushFails, Fades, TypeOK, groupVars, pushVars, Forget
  <2> QED
    BY <1>6, <2>1, FadesKeeps DEF PushFails
<1>7. ASSUME NEW t \in Tokens, DropToken(t) PROVE IInv'
  BY <1>0, <1>1, <1>7 DEF DropToken, pushVars, TypeOK
<1>8. ASSUME NEW u \in Users, UpdateUserSettings(u) PROVE IInv'
  BY <1>0, <1>1, <1>8 DEF UpdateUserSettings, TypeOK
<1>9. ASSUME NEW d \in Devices, AddSubscription(d) \/ Unsubscribe(d) \/ RemoveExpired(d) \/ Expire(d)
      PROVE  IInv'
  BY <1>0, <1>1, <1>9, GroupSendsAssumption
     DEF AddSubscription, Unsubscribe, RemoveExpired, RemoveSubscription, Expire, TypeOK
<1>10. CASE UNCHANGED vars
  BY <1>0, <1>1, <1>10 DEF vars, pushVars, TypeOK
<1> QED
  BY <1>2, <1>3, <1>4, <1>5, <1>6, <1>7, <1>8, <1>9, <1>10, PushKeeps, SendKeeps,
     StoreKeeps, GroupKeeps, GroupSendsAssumption DEF Next, Resume

LEMMA Invariant == Spec => []IInv
BY InitInv, InvStep, PTL DEF Spec

-----------------------------------------------------------------------------

\* GroupSends: every variable keeps its type, and no interleaving of retries stores
\* more messages for a token than the bound of the model.
THEOREM TypeCorrect == Spec => []TypeOK
<1>1. IInv => TypeOK
  BY DEF IInv
<1> QED
  BY <1>1, Invariant, PTL

LEMMA HeldIsOnce ==
  ASSUME TypeOK, TokensHeld, NEW t \in Tokens \ forgotten
  PROVE  stored[t] + Claims(t) <= 1
<1> DEFINE C == {h \in Handlers : Claiming(h, t)}
<1>1. /\ stored[t] \in {0, 1} /\ \A h, x \in C : h = x
      /\ C = {} \/ stored[t] = 0
  BY DEF TokensHeld, TypeOK
<1>2. Claims(t) = Cardinality(C)
  BY DEF Claims, Claiming
<1>3. CASE C = {}
  BY <1>1, <1>2, <1>3, FS_EmptySet
<1>4. ASSUME NEW h \in C PROVE stored[t] + Cardinality(C) <= 1
  <2>1. C = {h} /\ stored[t] = 0
    BY <1>1
  <2>2. Cardinality(C) = 1
    BY <2>1, FS_Singleton
  <2> QED
    BY <2>1, <2>2
<1> QED
  BY <1>2, <1>3, <1>4

\* checkUniqueMessage in handleSendGroupMessage: however often clients retry, at most
\* one send of a message is past the check or stored while the gateway never dropped
\* its token.
THEOREM RetriesStoreOnce == Spec => []StoredOnce
<1>1. IInv => StoredOnce
  BY HeldIsOnce DEF IInv, StoredOnce
<1> QED
  BY <1>1, Invariant, PTL

\* checkCanSendMessageInGroupChat: although it reads the member and the permission
\* one after the other, whoever was no member, or was not allowed, ever since the send
\* arrived stores nothing.
THEOREM StrangersStoreNothing == Spec => []OnlyAllowedStore
<1>1. IInv => OnlyAllowedStore
  BY DEF IInv, HistoryKept, OnlyAllowedStore, Waits, Unstored, Sending
<1> QED
  BY <1>1, Invariant, PTL
=============================================================================
