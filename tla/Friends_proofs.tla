---------------------------- MODULE Friends_proofs ---------------------------
(***************************************************************************)
(* Proofs about Friends, for every set of users and every finite set of      *)
(* request ids and of handlers.                                             *)
(***************************************************************************)
EXTENDS Friends, FiniteSetTheorems, TLAPS

-----------------------------------------------------------------------------
(* The inductive invariant.                                                 *)

Pair(r) == {request[r].sender, request[r].recipient}

\* What a suspended request knows: the row it found rejected is of its two users or
\* gone, the blocks it remembers stand, and it got past the check without any.
Sound(t) ==
  /\ t.op \in {"send", "accept"} => t.from # t.to
  /\ t.op = "send" /\ t.row # Null =>
       /\ t.at = "write" /\ request[t.row] # Null
       /\ Live(t.row) => Pair(t.row) = {t.from, t.to}
  /\ t.op \in {"send", "message"} => t.held \subseteq BlocksBetween(t.from, t.to)
  /\ (t.op = "send" /\ t.at \in {"existing", "write"}) \/ (t.op = "message" /\ t.at = "allowed")
       => t.held = {}

TasksSound == \A h \in Handlers : task[h] # Null => Sound(task[h])

\* The rows of two users, and the requests about to create one.
Rows(p) == {r \in Requests : Live(r) /\ Pair(r) = p}
WritesNew(t, p) == t.op = "send" /\ t.at = "write" /\ t.row = Null /\ {t.from, t.to} = p
Writers(p) == {h \in Handlers : task[h] # Null /\ WritesNew(task[h], p)}

\* Whoever creates a row found none, so that the rows and their writers together
\* were once writers alone.
RowsAndWriters ==
  \A p \in SUBSET Users : Cardinality(Rows(p)) + Cardinality(Writers(p)) <= Cardinality(Handlers)

IInv == TypeOK /\ TasksSound /\ RowsAndWriters

-----------------------------------------------------------------------------
(* Tasks and finite sets.                                                   *)

LEMMA TaskType ==
  ASSUME TypeOK, NEW h \in Handlers, task[h] # Null
  PROVE  /\ task[h] \in Task /\ task[h].from \in Users /\ task[h].to \in Users
         /\ task[h].op = "send" =>
              /\ task[h].at \in {"block", "existing", "write"}
              /\ task[h].row \in Requests \cup {Null} /\ task[h].held \in SUBSET Couples
         /\ task[h].op = "message" => task[h].held \in SUBSET Couples
<1>1. task[h] \in Task
  BY DEF TypeOK
<1> QED
  BY <1>1 DEF Task

LEMMA Finite ==
  ASSUME NEW p
  PROVE  /\ IsFiniteSet(Rows(p)) /\ Cardinality(Rows(p)) \in Nat
         /\ IsFiniteSet(Writers(p)) /\ Cardinality(Writers(p)) \in Nat
         /\ Cardinality(Writers(p)) <= Cardinality(Handlers) /\ Cardinality(Handlers) \in Nat
<1>1. Rows(p) \subseteq Requests /\ Writers(p) \subseteq Handlers
  BY DEF Rows, Writers
<1> QED
  BY <1>1, FriendsAssumption, FS_Subset, FS_CardinalityType

LEMMA SlotSet ==
  ASSUME TypeOK, NEW h \in Handlers, NEW r \in Task \cup {Null}, task' = [task EXCEPT ![h] = r]
  PROVE  /\ task' \in [Handlers -> Task \cup {Null}] /\ task'[h] = r
         /\ \A x \in Handlers : x # h => task'[x] = task[x]
BY DEF TypeOK

\* The records GoesTo and FindSentFriendRequest put into a slot.
LEMMA SendGoes ==
  ASSUME TypeOK, NEW h \in Handlers, task[h] # Null, task[h].op = "send",
         NEW at \in {"block", "existing", "write"}, GoesTo(h, at)
  PROVE  /\ task' \in [Handlers -> Task \cup {Null}] /\ task'[h] # Null
         /\ task'[h].op = "send" /\ task'[h].at = at /\ task'[h].row = task[h].row
         /\ task'[h].from = task[h].from /\ task'[h].to = task[h].to
         /\ task'[h].held = task[h].held
         /\ \A x \in Handlers : x # h => task'[x] = task[x]
<1> DEFINE r == [task[h] EXCEPT !.at = at]
<1>1. task[h] \in [op : {"send"}, at : {"block", "existing", "write"}, from : Users, to : Users,
                   row : Requests \cup {Null}, held : SUBSET Couples]
  BY TaskType DEF Task
<1>2. /\ r \in Task /\ r.op = "send" /\ r.at = at /\ r.row = task[h].row
      /\ r.from = task[h].from /\ r.to = task[h].to /\ r.held = task[h].held
  BY <1>1 DEF Task
<1>3. task' = [task EXCEPT ![h] = r]
  BY DEF GoesTo
<1> HIDE DEF r
<1> QED
  BY <1>2, <1>3, SlotSet, FriendsAssumption

LEMMA MessageGoes ==
  ASSUME TypeOK, NEW h \in Handlers, task[h] # Null, task[h].op = "message",
         NEW at \in {"settings", "friend", "block", "asFriend", "allowed"}, GoesTo(h, at)
  PROVE  /\ task' \in [Handlers -> Task \cup {Null}] /\ task'[h] # Null
         /\ task'[h].op = "message" /\ task'[h].at = at
         /\ task'[h].from = task[h].from /\ task'[h].to = task[h].to
         /\ task'[h].held = task[h].held
         /\ \A x \in Handlers : x # h => task'[x] = task[x]
<1> DEFINE r == [task[h] EXCEPT !.at = at]
<1>1. task[h] \in [op : {"message"}, at : {"settings", "friend", "block", "asFriend", "allowed"},
                   from : Users, to : Users, held : SUBSET Couples]
  BY TaskType DEF Task
<1>2. /\ r \in Task /\ r.op = "message" /\ r.at = at
      /\ r.from = task[h].from /\ r.to = task[h].to /\ r.held = task[h].held
  BY <1>1 DEF Task
<1>3. task' = [task EXCEPT ![h] = r]
  BY DEF GoesTo
<1> HIDE DEF r
<1> QED
  BY <1>2, <1>3, SlotSet, FriendsAssumption

\* FindSentFriendRequest takes the rejected row r.
Reuses(h, r) == task' = [task EXCEPT ![h].at = "write", ![h].row = r]

LEMMA ReuseGoes ==
  ASSUME TypeOK, NEW h \in Handlers, task[h] # Null, task[h].op = "send",
         NEW r \in Requests, Reuses(h, r)
  PROVE  /\ task' \in [Handlers -> Task \cup {Null}] /\ task'[h] # Null
         /\ task'[h].op = "send" /\ task'[h].at = "write" /\ task'[h].row = r
         /\ task'[h].from = task[h].from /\ task'[h].to = task[h].to
         /\ task'[h].held = task[h].held
         /\ \A x \in Handlers : x # h => task'[x] = task[x]
<1> DEFINE s == [task[h] EXCEPT !.at = "write", !.row = r]
<1>1. task[h] \in [op : {"send"}, at : {"block", "existing", "write"}, from : Users, to : Users,
                   row : Requests \cup {Null}, held : SUBSET Couples]
  BY TaskType DEF Task
<1>2. /\ s \in Task /\ s.op = "send" /\ s.at = "write" /\ s.row = r
      /\ s.from = task[h].from /\ s.to = task[h].to /\ s.held = task[h].held
  BY <1>1 DEF Task
<1>3. task' = [task EXCEPT ![h] = s]
  BY DEF Reuses
<1> HIDE DEF s
<1> QED
  BY <1>2, <1>3, SlotSet, FriendsAssumption

LEMMA FinishSlot ==
  ASSUME TypeOK, NEW h \in Handlers, Finish(h)
  PROVE  /\ task' \in [Handlers -> Task \cup {Null}] /\ task'[h] = Null
         /\ \A x \in Handlers : x # h => task'[x] = task[x]
BY SlotSet DEF Finish

LEMMA BeginSlot ==
  ASSUME TypeOK, NEW h \in Handlers, NEW r \in Task, Begin(h, r)
  PROVE  /\ task' \in [Handlers -> Task \cup {Null}] /\ task[h] = Null /\ task'[h] = r
         /\ \A x \in Handlers : x # h => task'[x] = task[x]
BY SlotSet DEF Begin

-----------------------------------------------------------------------------
(* The invariant is inductive.                                              *)

\* Fewer rows and fewer writers stay within the bound.
LEMMA BoundKept ==
  ASSUME RowsAndWriters,
         \A p \in SUBSET Users : Rows(p)' \subseteq Rows(p) /\ Writers(p)' \subseteq Writers(p)
  PROVE  RowsAndWriters'
<1> SUFFICES ASSUME NEW p \in SUBSET Users
             PROVE  Cardinality(Rows(p)') + Cardinality(Writers(p)') <= Cardinality(Handlers)
  BY DEF RowsAndWriters
<1>1. /\ Cardinality(Rows(p)') <= Cardinality(Rows(p)) /\ Cardinality(Rows(p)') \in Nat
      /\ Cardinality(Writers(p)') <= Cardinality(Writers(p)) /\ Cardinality(Writers(p)') \in Nat
  BY Finite, FS_Subset, FS_CardinalityType
<1> QED
  BY <1>1, Finite DEF RowsAndWriters

\* A slot begins, goes on or ends; nobody comes to create a row.
LEMMA SlotKeeps ==
  ASSUME IInv, NEW h \in Handlers, task' \in [Handlers -> Task \cup {Null}],
         UNCHANGED <<request, blocks>>,
         friends' \subseteq {{p[1], p[2]} : p \in Couples}, friendsOnly' \subseteq Users,
         \A x \in Handlers : x # h => task'[x] = task[x],
         task'[h] # Null => Sound(task'[h]) /\ \A p \in SUBSET Users : ~WritesNew(task'[h], p)
  PROVE  IInv'
<1> USE DEF IInv
<1>1. TypeOK'
  BY DEF TypeOK
<1>2. \A t : Sound(t) <=> Sound(t)'
  BY DEF Sound, BlocksBetween, Live, Pair
<1>3. TasksSound'
  BY <1>2 DEF TasksSound, Sound, BlocksBetween, Live, Pair
<1>4. RowsAndWriters'
  <2>1. \A p \in SUBSET Users : Rows(p)' \subseteq Rows(p) /\ Writers(p)' \subseteq Writers(p)
    BY DEF Rows, Writers, WritesNew, Live, Pair
  <2> QED
    BY <2>1, BoundKept
<1> QED
  BY <1>1, <1>3, <1>4

\* Rows change their status, or their direction between the same two users, or go.
LEMMA RowsKeep ==
  ASSUME IInv, TypeOK', UNCHANGED blocks,
         \A r \in Requests : request'[r] = request[r] \/ (Live(r) /\ request'[r] = Removed)
                             \/ (Live(r) /\ Live(r)' /\ Pair(r)' = Pair(r)),
         \A h \in Handlers : task'[h] = task[h] \/ task'[h] = Null
                             \/ (task'[h].op = "accept" /\ task'[h].from # task'[h].to)
  PROVE  IInv'
<1> USE DEF IInv
<1>1. \A r \in Requests : request[r] # Null => request'[r] # Null /\ (Live(r)' => Live(r) /\ Pair(r)' = Pair(r))
  BY FriendsAssumption DEF Live, Pair, TypeOK
<1>2. TasksSound'
  <2>1. ASSUME NEW h \in Handlers, task'[h] # Null, task'[h] = task[h] PROVE Sound(task[h])'
    <3>1. Sound(task[h]) /\ (task[h].op = "send" => task[h].row \in Requests \cup {Null})
      BY <2>1, TaskType DEF TasksSound
    <3> QED
      BY <1>1, <2>1, <3>1 DEF Sound, BlocksBetween
  <2>2. ASSUME NEW h \in Handlers, task'[h].op = "accept", task'[h].from # task'[h].to
        PROVE  Sound(task[h])'
    BY <2>2 DEF Sound
  <2> QED
    BY <2>1, <2>2 DEF TasksSound
<1>3. RowsAndWriters'
  <2>1. \A p \in SUBSET Users : Rows(p)' \subseteq Rows(p) /\ Writers(p)' \subseteq Writers(p)
    <3>1. \A r \in Requests : Live(r)' => Live(r) /\ Pair(r)' = Pair(r)
      BY <1>1 DEF Live, Pair
    <3> QED
      BY <3>1 DEF Rows, Writers, WritesNew
  <2> QED
    BY <2>1, BoundKept
<1> QED
  BY <1>2, <1>3

LEMMA FinishKeeps ==
  ASSUME IInv, NEW h \in Handlers, Finish(h), UNCHANGED <<request, blocks, friendsOnly>>,
         friends' \subseteq {{p[1], p[2]} : p \in Couples}
  PROVE  IInv'
BY FinishSlot, SlotKeeps DEF IInv, TypeOK

LEMMA BeginKeeps ==
  ASSUME IInv, NEW h \in Handlers, NEW r \in Task, Begin(h, r), UNCHANGED <<request, blocks, friendsOnly>>,
         friends' \subseteq {{p[1], p[2]} : p \in Couples},
         Sound(r), \A p \in SUBSET Users : ~WritesNew(r, p)
  PROVE  IInv'
<1>1. /\ task' \in [Handlers -> Task \cup {Null}] /\ task'[h] = r
      /\ \A x \in Handlers : x # h => task'[x] = task[x]
  BY BeginSlot DEF IInv
<1> QED
  BY <1>1, SlotKeeps DEF IInv, TypeOK

LEMMA SendBegins ==
  ASSUME IInv, NEW h \in Handlers, NEW u \in Users, NEW v \in Users, SendFriendRequest(h, u, v)
  PROVE  IInv'
<1> DEFINE r == [op |-> "send", at |-> "block", from |-> u, to |-> v, row |-> Null,
                 held |-> blocks \cap {<<u, v>>, <<v, u>>}]
<1>1. r \in Task
  BY DEF Task, IInv, TypeOK
<1>2. Sound(r) /\ \A p \in SUBSET Users : ~WritesNew(r, p)
  BY DEF SendFriendRequest, Sound, WritesNew, BlocksBetween
<1>3. Begin(h, r) /\ UNCHANGED tables
  BY DEF SendFriendRequest
<1> HIDE DEF r
<1> QED
  BY <1>1, <1>2, <1>3, BeginKeeps DEF tables, IInv, TypeOK

LEMMA MessageBegins ==
  ASSUME IInv, NEW h \in Handlers, NEW u \in Users, NEW v \in Users, CheckCanSend(h, u, v)
  PROVE  IInv'
<1> DEFINE r == [op |-> "message", at |-> "settings", from |-> u, to |-> v,
                 held |-> blocks \cap {<<u, v>>, <<v, u>>}]
<1>1. r \in Task
  BY DEF Task, IInv, TypeOK
<1>2. Sound(r) /\ \A p \in SUBSET Users : ~WritesNew(r, p)
  BY DEF Sound, WritesNew, BlocksBetween
<1>3. Begin(h, r) /\ UNCHANGED tables
  BY DEF CheckCanSend
<1> HIDE DEF r
<1> QED
  BY <1>1, <1>2, <1>3, BeginKeeps DEF tables, IInv, TypeOK

LEMMA RemoveOrUnblockBegins ==
  ASSUME IInv, NEW h \in Handlers, NEW u \in Users, NEW v \in Users,
         RemoveFriend(h, u, v) \/ UnblockUser(h, u, v)
  PROVE  IInv'
<1>1. ASSUME NEW r \in {[op |-> "remove", at |-> "requests", from |-> u, to |-> v],
                        [op |-> "unblock", at |-> "delete", from |-> u, to |-> v]},
             Begin(h, r)
      PROVE  IInv'
  <2>1. r \in Task /\ Sound(r) /\ \A p \in SUBSET Users : ~WritesNew(r, p)
    BY DEF Task, Sound, WritesNew
  <2>2. UNCHANGED <<request, blocks, friendsOnly>> /\ friends' \subseteq {{p[1], p[2]} : p \in Couples}
    BY DEF RemoveFriend, UnblockUser, tables, IInv, TypeOK
  <2> QED
    BY <1>1, <2>1, <2>2, BeginKeeps
<1> QED
  BY <1>1 DEF RemoveFriend, UnblockUser

LEMMA BlockCheckKeeps ==
  ASSUME IInv, NEW h \in Handlers, CheckBlockedUser(h)
  PROVE  IInv'
<1> USE DEF IInv
<1>1. UNCHANGED tables /\ task[h] # Null /\ Sound(task[h]) /\ friends \subseteq {{p[1], p[2]} : p \in Couples}
  BY DEF CheckBlockedUser, ReadThen, Waits, TasksSound, TypeOK
<1>2. CASE Finish(h)
  BY <1>1, <1>2, FinishKeeps DEF tables
<1>3. CASE ~Finish(h)
  <2>1. BlocksBetween(task[h].from, task[h].to) = {}
    BY <1>3 DEF CheckBlockedUser, ReadThen
  <2>2. task[h].op \in {"send", "message"} => task[h].held = {}
    BY <1>1, <2>1 DEF Sound
  <2>3. CASE Waits(h, "send", "block")
    <3>1. GoesTo(h, "existing")
      BY <1>3, <2>3 DEF CheckBlockedUser, ReadThen, Waits
    <3>2. /\ task' \in [Handlers -> Task \cup {Null}] /\ task'[h] # Null
          /\ task'[h].op = "send" /\ task'[h].at = "existing" /\ task'[h].row = task[h].row
          /\ task'[h].from = task[h].from /\ task'[h].to = task[h].to
          /\ task'[h].held = task[h].held
          /\ \A x \in Handlers : x # h => task'[x] = task[x]
      BY <2>3, <3>1, SendGoes DEF Waits
    <3>3. Sound(task'[h])
      BY <1>1, <2>2, <2>3, <3>2 DEF Sound, Waits
    <3> QED
      BY <1>1, <3>2, <3>3, SlotKeeps DEF WritesNew, tables, TypeOK
  <2>4. CASE Waits(h, "message", "block")
    <3>1. GoesTo(h, "allowed")
      BY <1>3, <2>4 DEF CheckBlockedUser, ReadThen, Waits
    <3>2. /\ task' \in [Handlers -> Task \cup {Null}] /\ task'[h] # Null
          /\ task'[h].op = "message" /\ task'[h].at = "allowed"
          /\ task'[h].from = task[h].from /\ task'[h].to = task[h].to
          /\ task'[h].held = task[h].held
          /\ \A x \in Handlers : x # h => task'[x] = task[x]
      BY <2>4, <3>1, MessageGoes DEF Waits
    <3>3. Sound(task'[h])
      BY <1>1, <2>2, <2>4, <3>2 DEF Sound, Waits
    <3> QED
      BY <1>1, <3>2, <3>3, SlotKeeps DEF WritesNew, tables, TypeOK
  <2> QED
    BY <2>3, <2>4 DEF CheckBlockedUser
<1> QED
  BY <1>2, <1>3

LEMMA MessageKeeps ==
  ASSUME IInv, NEW h \in Handlers, ReadSettings(h) \/ IsFriend(h) \/ Answer(h)
  PROVE  IInv'
<1> USE DEF IInv
<1>1. UNCHANGED tables /\ task[h] # Null /\ task[h].op = "message" /\ Sound(task[h])
      /\ friends \subseteq {{p[1], p[2]} : p \in Couples}
  BY DEF ReadSettings, IsFriend, ReadThen, Answer, Waits, TasksSound, TypeOK
<1>2. CASE Finish(h)
  BY <1>1, <1>2, FinishKeeps DEF tables
<1>3. ASSUME NEW at \in {"friend", "block", "asFriend"}, GoesTo(h, at) PROVE IInv'
  <2>1. /\ task' \in [Handlers -> Task \cup {Null}] /\ task'[h] # Null
        /\ task'[h].op = "message" /\ task'[h].at = at
        /\ task'[h].from = task[h].from /\ task'[h].to = task[h].to
        /\ task'[h].held = task[h].held
        /\ \A x \in Handlers : x # h => task'[x] = task[x]
    BY <1>1, <1>3, MessageGoes
  <2>2. Sound(task'[h])
    BY <1>1, <2>1 DEF Sound
  <2> QED
    BY <1>1, <2>1, <2>2, SlotKeeps DEF WritesNew, tables, TypeOK
<1> QED
  BY <1>2, <1>3 DEF ReadSettings, IsFriend, ReadThen, Answer

\* Whoever finds no row may create one: there is none now, so that the bound is that
\* of the slots.
LEMMA FindNoneKeeps ==
  ASSUME IInv, NEW h \in Handlers, Waits(h, "send", "existing"),
         RequestsBetween(task[h].from, task[h].to) = {}, GoesTo(h, "write"), UNCHANGED tables
  PROVE  IInv'
<1> USE DEF IInv
<1>1. /\ task' \in [Handlers -> Task \cup {Null}] /\ task'[h] # Null
      /\ task'[h].op = "send" /\ task'[h].at = "write" /\ task'[h].row = task[h].row
      /\ task'[h].from = task[h].from /\ task'[h].to = task[h].to
      /\ task'[h].held = task[h].held
      /\ \A x \in Handlers : x # h => task'[x] = task[x]
  BY SendGoes DEF Waits
<1>2. TypeOK'
  BY <1>1 DEF TypeOK, tables
<1>3. Sound(task[h]) /\ task[h].op = "send" /\ task[h].at = "existing"
  BY DEF TasksSound, Waits
<1>4. TasksSound'
  <2>1. Sound(task'[h])
    BY <1>1, <1>3 DEF Sound
  <2>2. \A x \in Handlers : task'[x] # Null => Sound(task'[x])
    BY <1>1, <2>1 DEF TasksSound
  <2>3. ASSUME NEW x \in Handlers, task'[x] # Null PROVE Sound(task[x])'
    BY <2>2, <2>3 DEF Sound, BlocksBetween, Live, Pair, tables
  <2> QED
    BY <2>3 DEF TasksSound
<1>5. RowsAndWriters'
  <2>1. ASSUME NEW p \in SUBSET Users, p # {task[h].from, task[h].to}
        PROVE  Rows(p)' = Rows(p) /\ Writers(p)' = Writers(p)
    BY <1>1, <1>3, <2>1 DEF Rows, Live, Pair, tables, Writers, WritesNew
  <2>2. ASSUME NEW p \in SUBSET Users, p = {task[h].from, task[h].to}
        PROVE  Cardinality(Rows(p)') + Cardinality(Writers(p)') <= Cardinality(Handlers)
    <3>1. Rows(p)' = {}
      BY <2>2 DEF Rows, Live, Pair, tables, RequestsBetween, Between
    <3>2. Writers(p)' \subseteq Handlers
      BY DEF Writers
    <3>3. Cardinality(Rows(p)') = 0 /\ Cardinality(Writers(p)') <= Cardinality(Handlers)
          /\ Cardinality(Writers(p)') \in Nat
      BY <3>1, <3>2, FriendsAssumption, FS_EmptySet, FS_Subset, FS_CardinalityType
    <3> QED
      BY <3>3, Finite
  <2>3. ASSUME NEW p \in SUBSET Users
        PROVE  Cardinality(Rows(p)') + Cardinality(Writers(p)') <= Cardinality(Handlers)
    BY <2>1, <2>2 DEF RowsAndWriters
  <2> QED
    BY <2>3 DEF RowsAndWriters
<1> QED
  BY <1>2, <1>4, <1>5

LEMMA FindKeeps ==
  ASSUME IInv, NEW h \in Handlers, FindSentFriendRequest(h)
  PROVE  IInv'
<1> USE DEF IInv
<1>1. UNCHANGED tables /\ Waits(h, "send", "existing") /\ task[h] # Null /\ task[h].op = "send"
      /\ Sound(task[h]) /\ friends \subseteq {{p[1], p[2]} : p \in Couples}
  BY DEF FindSentFriendRequest, Waits, TasksSound, TypeOK
<1>2. CASE Finish(h)
  BY <1>1, <1>2, FinishKeeps DEF tables
<1>3. CASE RequestsBetween(task[h].from, task[h].to) = {} /\ GoesTo(h, "write")
  BY <1>1, <1>3, FindNoneKeeps
<1>4. ASSUME NEW r \in RequestsBetween(task[h].from, task[h].to), Reuses(h, r) PROVE IInv'
  <2>1. r \in Requests /\ Live(r) /\ Pair(r) = {task[h].from, task[h].to}
    BY DEF RequestsBetween, Between, Pair
  <2>2. /\ task' \in [Handlers -> Task \cup {Null}] /\ task'[h] # Null
        /\ task'[h].op = "send" /\ task'[h].at = "write" /\ task'[h].row = r
        /\ task'[h].from = task[h].from /\ task'[h].to = task[h].to
        /\ task'[h].held = task[h].held
        /\ \A x \in Handlers : x # h => task'[x] = task[x]
    BY <1>1, <1>4, <2>1, ReuseGoes
  <2>3. Sound(task'[h])
    BY <1>1, <2>1, <2>2 DEF Sound, Live, Waits
  <2>4. \A p \in SUBSET Users : ~WritesNew(task'[h], p)
    BY <2>1, <2>2, FriendsAssumption DEF WritesNew
  <2> QED
    BY <1>1, <2>2, <2>3, <2>4, SlotKeeps DEF tables, TypeOK
<1> QED
  BY <1>2, <1>3, <1>4 DEF FindSentFriendRequest, Reuses

LEMMA CreateKeeps ==
  ASSUME IInv, NEW h \in Handlers, NEW r \in Requests, CreateFriendRequest(h, r)
  PROVE  IInv'
<1> USE DEF IInv
<1>1. PICK p \in SUBSET Users : p = {task[h].from, task[h].to}
  BY TaskType DEF CreateFriendRequest, Waits
<1>2. /\ task[h] # Null /\ task[h].op = "send" /\ task[h].at = "write" /\ task[h].row = Null
      /\ task[h].from # task[h].to /\ task[h].from \in Users /\ task[h].to \in Users
      /\ request[r] = Null
  BY TaskType DEF CreateFriendRequest, Waits, TasksSound, Sound
<1>3. [sender |-> task[h].from, recipient |-> task[h].to, status |-> "PENDING"] \in FriendRequest
  BY <1>2 DEF FriendRequest, Statuses
<1>4. /\ request' \in [Requests -> FriendRequest \cup {Removed, Null}]
      /\ Live(r)' /\ Pair(r)' = p /\ ~Live(r) /\ request'[r] # Null
      /\ \A s \in Requests : s # r => request'[s] = request[s]
  BY <1>1, <1>2, <1>3, FriendsAssumption DEF CreateFriendRequest, TypeOK, Live, Pair
<1>5. /\ task' \in [Handlers -> Task \cup {Null}] /\ task'[h] = Null
      /\ \A x \in Handlers : x # h => task'[x] = task[x]
  BY FinishSlot DEF CreateFriendRequest
<1>6. TypeOK'
  BY <1>4, <1>5 DEF CreateFriendRequest, TypeOK
<1>7. TasksSound'
  <2>1. ASSUME NEW x \in Handlers, x # h, task[x] # Null PROVE Sound(task[x])'
    <3>1. Sound(task[x]) /\ (task[x].op = "send" => task[x].row \in Requests \cup {Null})
      BY <2>1, TaskType DEF TasksSound
    <3>2. task'[x] = task[x] /\ UNCHANGED blocks
      BY <1>5, <2>1 DEF CreateFriendRequest
    <3>3. \A s \in Requests : request[s] # Null => s # r /\ request'[s] = request[s]
      BY <1>2, <1>4
    <3> QED
      BY <3>1, <3>2, <3>3 DEF Sound, BlocksBetween, Live, Pair
  <2> QED
    BY <1>5, <2>1 DEF TasksSound
<1>8. RowsAndWriters'
  <2>1. ASSUME NEW q \in SUBSET Users, q # p
        PROVE  Rows(q)' = Rows(q) /\ Writers(q)' = Writers(q)
    BY <1>1, <1>2, <1>4, <1>5, <2>1 DEF Rows, Live, Pair, Writers, WritesNew
  <2>2. Rows(p)' = Rows(p) \cup {r} /\ r \notin Rows(p)
    BY <1>4 DEF Rows, Live, Pair
  <2>3. h \in Writers(p) /\ Writers(p)' = Writers(p) \ {h}
    BY <1>1, <1>2, <1>5 DEF Writers, WritesNew
  <2>4. Cardinality(Rows(p)') = Cardinality(Rows(p)) + 1
    BY <2>2, Finite, FS_AddElement
  <2>5. Cardinality(Writers(p)') = Cardinality(Writers(p)) - 1
    BY <2>3, Finite, FS_RemoveElement
  <2>6. Cardinality(Rows(p)') + Cardinality(Writers(p)') <= Cardinality(Handlers)
    BY <2>4, <2>5, Finite DEF RowsAndWriters
  <2>7. ASSUME NEW q \in SUBSET Users
        PROVE  Cardinality(Rows(q)') + Cardinality(Writers(q)') <= Cardinality(Handlers)
    BY <2>1, <2>6 DEF RowsAndWriters
  <2> QED
    BY <2>7 DEF RowsAndWriters
<1> QED
  BY <1>6, <1>7, <1>8

LEMMA UpdateKeeps ==
  ASSUME IInv, NEW h \in Handlers, UpdateFriendRequest(h)
  PROVE  IInv'
<1> USE DEF IInv
<1>1. /\ task[h] # Null /\ task[h].op = "send" /\ task[h].row \in Requests
      /\ task[h].from # task[h].to /\ task[h].from \in Users /\ task[h].to \in Users
      /\ Live(task[h].row) => Pair(task[h].row) = {task[h].from, task[h].to}
  BY TaskType DEF UpdateFriendRequest, Waits, TasksSound, Sound
<1>2. [sender |-> task[h].from, recipient |-> task[h].to, status |-> "PENDING"] \in FriendRequest
  BY <1>1 DEF FriendRequest, Statuses
<1>3. /\ task' \in [Handlers -> Task \cup {Null}] /\ task'[h] = Null
      /\ \A x \in Handlers : x # h => task'[x] = task[x]
  BY FinishSlot DEF UpdateFriendRequest
<1>4. /\ request' \in [Requests -> FriendRequest \cup {Removed, Null}]
      /\ \A r \in Requests : request'[r] = request[r] \/ (Live(r) /\ Live(r)' /\ Pair(r)' = Pair(r))
  BY <1>1, <1>2, FriendsAssumption DEF UpdateFriendRequest, TypeOK, Live, Pair
<1>5. TypeOK'
  BY <1>3, <1>4 DEF UpdateFriendRequest, TypeOK
<1> QED
  BY <1>3, <1>4, <1>5, RowsKeep DEF UpdateFriendRequest

LEMMA AnswerKeeps ==
  ASSUME IInv, NEW r \in Requests,
         RejectFriendRequest(r) \/ \E h \in Handlers : AcceptFriendRequest(h, r)
  PROVE  IInv'
<1> USE DEF IInv
<1>1. request[r] \in FriendRequest /\ Live(r)
  BY DEF RejectFriendRequest, AcceptFriendRequest, Live, TypeOK
<1>2. ASSUME NEW st \in Statuses, request' = [request EXCEPT ![r].status = st]
      PROVE  /\ request' \in [Requests -> FriendRequest \cup {Removed, Null}]
             /\ \A s \in Requests : request'[s] = request[s] \/ (Live(s) /\ Live(s)' /\ Pair(s)' = Pair(s))
  <2>1. /\ [request[r] EXCEPT !.status = st] \in FriendRequest
        /\ [request[r] EXCEPT !.status = st].sender = request[r].sender
        /\ [request[r] EXCEPT !.status = st].recipient = request[r].recipient
    BY <1>1 DEF FriendRequest
  <2>2. /\ request'[r] = [request[r] EXCEPT !.status = st]
        /\ \A s \in Requests : s # r => request'[s] = request[s]
        /\ request' \in [Requests -> FriendRequest \cup {Removed, Null}]
    BY <1>2, <2>1 DEF TypeOK
  <2>3. Live(r)' /\ Pair(r)' = Pair(r)
    BY <2>1, <2>2, FriendsAssumption DEF Live, Pair
  <2> QED
    BY <1>1, <2>2, <2>3
<1>3. CASE RejectFriendRequest(r)
  <2>1. request' = [request EXCEPT ![r].status = "REJECTED"]
    BY <1>3 DEF RejectFriendRequest
  <2>2. /\ request' \in [Requests -> FriendRequest \cup {Removed, Null}]
        /\ \A s \in Requests : request'[s] = request[s] \/ (Live(s) /\ Live(s)' /\ Pair(s)' = Pair(s))
    BY <1>2, <2>1 DEF Statuses
  <2>3. UNCHANGED <<friends, blocks, friendsOnly, task>> /\ TypeOK'
    BY <1>3, <2>2 DEF RejectFriendRequest, TypeOK
  <2> QED
    BY <2>2, <2>3, RowsKeep
<1>4. ASSUME NEW h \in Handlers, AcceptFriendRequest(h, r) PROVE IInv'
  <2>1. request' = [request EXCEPT ![r].status = "ACCEPTED"]
    BY <1>4 DEF AcceptFriendRequest
  <2>2. /\ request' \in [Requests -> FriendRequest \cup {Removed, Null}]
        /\ \A s \in Requests : request'[s] = request[s] \/ (Live(s) /\ Live(s)' /\ Pair(s)' = Pair(s))
    BY <1>2, <2>1 DEF Statuses
  <2> DEFINE t == [op |-> "accept", at |-> "befriend", from |-> request[r].sender,
                   to |-> request[r].recipient]
  <2>3. t \in Task /\ t.op = "accept" /\ t.from # t.to
    BY <1>1 DEF Task, FriendRequest
  <2>4. Begin(h, t)
    BY <1>4 DEF AcceptFriendRequest
  <2> HIDE DEF t
  <2>5. /\ task' \in [Handlers -> Task \cup {Null}] /\ task'[h] = t
        /\ \A x \in Handlers : x # h => task'[x] = task[x]
    BY <2>3, <2>4, BeginSlot
  <2>6. UNCHANGED <<friends, blocks, friendsOnly>> /\ TypeOK'
    BY <1>4, <2>2, <2>5 DEF AcceptFriendRequest, TypeOK
  <2> QED
    BY <2>2, <2>3, <2>5, <2>6, RowsKeep
<1> QED
  BY <1>3, <1>4

LEMMA DeleteRequestsKeeps ==
  ASSUME IInv, NEW h \in Handlers, DeleteFriendRequests(h)
  PROVE  IInv'
<1> USE DEF IInv
<1>1. /\ task' \in [Handlers -> Task \cup {Null}] /\ task'[h] = Null
      /\ \A x \in Handlers : x # h => task'[x] = task[x]
  BY FinishSlot DEF DeleteFriendRequests
<1>2. /\ request' \in [Requests -> FriendRequest \cup {Removed, Null}]
      /\ \A r \in Requests : request'[r] = request[r] \/ (Live(r) /\ request'[r] = Removed)
  BY DEF DeleteFriendRequests, Between, TypeOK
<1>3. TypeOK'
  BY <1>1, <1>2 DEF DeleteFriendRequests, TypeOK
<1> QED
  BY <1>1, <1>2, <1>3, RowsKeep DEF DeleteFriendRequests

LEMMA BlockKeeps ==
  ASSUME IInv, NEW u \in Users, NEW v \in Users, BlockUser(u, v)
  PROVE  IInv'
<1> USE DEF IInv
<1>1. UNCHANGED <<request, friends, friendsOnly, task>> /\ blocks \subseteq blocks'
      /\ blocks' \subseteq Couples
  BY DEF BlockUser, TypeOK, Couples
<1>2. TypeOK'
  BY <1>1 DEF TypeOK
<1>3. TasksSound'
  BY <1>1 DEF TasksSound, Sound, BlocksBetween, Live, Pair
<1>4. RowsAndWriters'
  <2>1. \A p \in SUBSET Users : Rows(p)' \subseteq Rows(p) /\ Writers(p)' \subseteq Writers(p)
    BY <1>1 DEF Rows, Writers, WritesNew, Live, Pair
  <2> QED
    BY <2>1, BoundKept
<1> QED
  BY <1>2, <1>3, <1>4

\* Forget takes the block from what the others remember.
LEMMA ForgetTasks ==
  ASSUME TypeOK, NEW h \in Handlers, NEW gone, Forget(h, gone)
  PROVE  /\ task' \in [Handlers -> Task \cup {Null}] /\ task'[h] = Null
         /\ \A x \in Handlers : x # h =>
              \/ task'[x] = task[x] /\ (task[x] # Null => task[x].op \notin {"send", "message"})
              \/ /\ task[x] # Null /\ task'[x] # Null
                 /\ task[x].op \in {"send", "message"} /\ task'[x].op = task[x].op
                 /\ task'[x].at = task[x].at /\ task'[x].held = task[x].held \ gone
                 /\ task'[x].from = task[x].from /\ task'[x].to = task[x].to
                 /\ task[x].op = "send" => task'[x].row = task[x].row
<1>1. ASSUME NEW x \in Handlers, x # h, task[x] # Null, task[x].op = "send"
      PROVE  /\ task'[x] \in Task /\ task'[x].op = "send" /\ task'[x].row = task[x].row
             /\ task'[x].at = task[x].at /\ task'[x].held = task[x].held \ gone
             /\ task'[x].from = task[x].from /\ task'[x].to = task[x].to
  <2>1. task[x] \in [op : {"send"}, at : {"block", "existing", "write"}, from : Users, to : Users,
                     row : Requests \cup {Null}, held : SUBSET Couples]
    BY <1>1, TaskType DEF Task
  <2>2. task'[x] = [task[x] EXCEPT !.held = task[x].held \ gone]
    BY <1>1 DEF Forget
  <2> QED
    BY <2>1, <2>2 DEF Task
<1>2. ASSUME NEW x \in Handlers, x # h, task[x] # Null, task[x].op = "message"
      PROVE  /\ task'[x] \in Task /\ task'[x].op = "message"
             /\ task'[x].at = task[x].at /\ task'[x].held = task[x].held \ gone
             /\ task'[x].from = task[x].from /\ task'[x].to = task[x].to
  <2>1. task[x] \in [op : {"message"}, at : {"settings", "friend", "block", "asFriend", "allowed"},
                     from : Users, to : Users, held : SUBSET Couples]
    BY <1>2, TaskType DEF Task
  <2>2. task'[x] = [task[x] EXCEPT !.held = task[x].held \ gone]
    BY <1>2 DEF Forget
  <2> QED
    BY <2>1, <2>2 DEF Task
<1>3. \A x \in Handlers : x # h /\ (task[x] = Null \/ task[x].op \notin {"send", "message"}) => task'[x] = task[x]
  BY DEF Forget
<1>4. task'[h] = Null
  BY DEF Forget
<1>5. task' \in [Handlers -> Task \cup {Null}]
  <2>1. \A x \in Handlers : task'[x] \in Task \cup {Null}
    BY <1>1, <1>2, <1>3, <1>4 DEF TypeOK
  <2>2. DOMAIN task' = Handlers /\ task' = [x \in Handlers |-> task'[x]]
    BY DEF Forget
  <2> QED
    BY <2>1, <2>2
<1> QED
  BY <1>1, <1>2, <1>3, <1>4, <1>5, FriendsAssumption

LEMMA UnblockKeeps ==
  ASSUME IInv, NEW h \in Handlers, DeleteBlock(h)
  PROVE  IInv'
<1> USE DEF IInv
<1> DEFINE gone == {<<task[h].from, task[h].to>>}
<1>1. blocks' = blocks \ gone /\ UNCHANGED <<request, friends, friendsOnly>> /\ Forget(h, gone)
  BY DEF DeleteBlock
<1> HIDE DEF gone
<1>2. /\ task' \in [Handlers -> Task \cup {Null}] /\ task'[h] = Null
      /\ \A x \in Handlers : x # h =>
           \/ task'[x] = task[x] /\ (task[x] # Null => task[x].op \notin {"send", "message"})
           \/ /\ task[x] # Null /\ task'[x] # Null
              /\ task[x].op \in {"send", "message"} /\ task'[x].op = task[x].op
              /\ task'[x].at = task[x].at /\ task'[x].held = task[x].held \ gone
              /\ task'[x].from = task[x].from /\ task'[x].to = task[x].to
              /\ task[x].op = "send" => task'[x].row = task[x].row
  BY <1>1, ForgetTasks
<1>3. TypeOK'
  BY <1>1, <1>2 DEF TypeOK
<1>4. TasksSound'
  <2>1. ASSUME NEW x \in Handlers, x # h, task'[x] # Null
        PROVE  /\ task'[x].op \in {"send", "accept"} => task'[x].from # task'[x].to
               /\ task'[x].op = "send" /\ task'[x].row # Null =>
                    /\ task'[x].at = "write" /\ request[task'[x].row] # Null
                    /\ Live(task[x].row) => Pair(task[x].row) = {task'[x].from, task'[x].to}
               /\ task'[x].op \in {"send", "message"} =>
                    task'[x].held \subseteq BlocksBetween(task'[x].from, task'[x].to) \ gone
               /\ \/ task'[x].op = "send" /\ task'[x].at \in {"existing", "write"}
                  \/ task'[x].op = "message" /\ task'[x].at = "allowed"
                  => task'[x].held = {}
    <3>1. task[x] # Null /\ Sound(task[x])
      BY <1>2, <2>1 DEF TasksSound
    <3> QED
      BY <1>2, <2>1, <3>1 DEF Sound, BlocksBetween
  <2>2. ASSUME NEW x \in Handlers, x # h, task'[x] # Null, task'[x].op = "send" PROVE task'[x].row = task[x].row
    BY <1>2, <2>2
  <2> QED
    BY <1>1, <1>2, <2>1, <2>2 DEF TasksSound, Sound, BlocksBetween, Live, Pair
<1>5. RowsAndWriters'
  <2>1. \A p \in SUBSET Users : Rows(p)' \subseteq Rows(p) /\ Writers(p)' \subseteq Writers(p)
    BY <1>1, <1>2 DEF Rows, Writers, WritesNew, Live, Pair
  <2> QED
    BY <2>1, BoundKept
<1> QED
  BY <1>3, <1>4, <1>5

LEMMA InitInv == Init => IInv
<1> SUFFICES ASSUME Init
             PROVE  IInv
  OBVIOUS
<1>1. TypeOK /\ TasksSound
  BY DEF Init, TypeOK, TasksSound
<1>2. \A p : Rows(p) = {} /\ Writers(p) = {}
  BY DEF Init, Rows, Live, Writers
<1>3. RowsAndWriters
  BY <1>2, FS_EmptySet, Finite DEF RowsAndWriters
<1> QED
  BY <1>1, <1>3 DEF IInv

LEMMA InvStep == IInv /\ [Next]_vars => IInv'
<1> SUFFICES ASSUME IInv, [Next]_vars
             PROVE  IInv'
  OBVIOUS
<1>1. ASSUME UNCHANGED <<request, friends, blocks, task>>, friendsOnly' \subseteq Users PROVE IInv'
  <2>1. TypeOK'
    BY <1>1 DEF IInv, TypeOK
  <2> QED
    BY <1>1, <2>1, RowsKeep
<1>2. ASSUME NEW h \in Handlers, CreateFriend(h) PROVE IInv'
  <2>1. /\ task[h].from # task[h].to /\ task[h].from \in Users /\ task[h].to \in Users
    BY <1>2, TaskType DEF IInv, TasksSound, Sound, CreateFriend, Waits
  <2>2. {task[h].from, task[h].to} \in {{p[1], p[2]} : p \in Couples}
    <3>1. <<task[h].from, task[h].to>> \in Couples
      BY <2>1 DEF Couples
    <3> QED
      BY <3>1
  <2>3. friends' \subseteq {{p[1], p[2]} : p \in Couples}
    BY <1>2, <2>2 DEF CreateFriend, IInv, TypeOK
  <2> QED
    BY <1>2, <2>3, FinishKeeps DEF CreateFriend
<1>3. ASSUME NEW u \in Users, UpdateUserSettings(u) PROVE IInv'
  BY <1>1, <1>3 DEF UpdateUserSettings, IInv, TypeOK
<1>4. CASE UNCHANGED vars
  BY <1>1, <1>4 DEF vars, IInv, TypeOK
<1> QED
  BY <1>2, <1>3, <1>4, SendBegins, MessageBegins, RemoveOrUnblockBegins, BlockCheckKeeps,
     MessageKeeps, FindKeeps, CreateKeeps, UpdateKeeps, AnswerKeeps, DeleteRequestsKeeps,
     BlockKeeps, UnblockKeeps DEF Next, Resume

LEMMA Invariant == Spec => []IInv
BY InitInv, InvStep, PTL DEF Spec

-----------------------------------------------------------------------------

\* Friends: every table keeps its type; no request and no friendship is of a user
\* with himself.
THEOREM TypeCorrect == Spec => []TypeOK
<1>1. IInv => TypeOK
  BY DEF IInv
<1> QED
  BY <1>1, Invariant, PTL

\* sendFriendRequest: requests that cross are all created, but a pair never has more
\* rows than there were requests at once, whatever is rejected, removed and asked again.
THEOREM RowsOfPairAreBounded == Spec => []RequestsBounded
<1>1. IInv => RequestsBounded
  <2> SUFFICES ASSUME IInv, NEW p \in Couples
               PROVE  Cardinality({r \in Requests : Between(r, p[1], p[2])}) <= Cardinality(Handlers)
    BY DEF RequestsBounded
  <2>1. PICK q \in SUBSET Users : q = {p[1], p[2]}
    BY DEF Couples
  <2>2. {r \in Requests : Between(r, p[1], p[2])} = Rows(q)
    BY <2>1 DEF Rows, Between, Pair
  <2>3. Cardinality(Rows(q)) <= Cardinality(Handlers)
    BY Finite DEF IInv, RowsAndWriters
  <2> QED
    BY <2>2, <2>3
<1> QED
  BY <1>1, Invariant, PTL

\* checkBlockedUser, for a friend request and for a message: a block that stands from
\* before the request came refuses it, whatever the other block of the two does.
THEOREM StandingBlocksRefuse == Spec => []BlockedIsRefused
<1>1. IInv => BlockedIsRefused
  BY DEF IInv, TasksSound, Sound, BlockedIsRefused, Waits
<1> QED
  BY <1>1, Invariant, PTL

\* unblockUser: a block ends only when the one who set it asked for that.
THEOREM BlocksEndByBlocker == Spec => OnlyBlockerUnblocks
<1>1. [Next]_vars => [\A b \in blocks \ blocks' :
        \E h \in Handlers : Waits(h, "unblock", "delete") /\ <<task[h].from, task[h].to>> = b]_vars
  <2> SUFFICES ASSUME Next, NEW b \in blocks \ blocks'
               PROVE  \E h \in Handlers : Waits(h, "unblock", "delete") /\ <<task[h].from, task[h].to>> = b
    OBVIOUS
  <2>1. PICK h \in Handlers : DeleteBlock(h)
    <3>1. ASSUME NEW h \in Handlers, Resume(h), ~DeleteBlock(h) PROVE UNCHANGED blocks
      BY <3>1 DEF Resume, CheckBlockedUser, FindSentFriendRequest, UpdateFriendRequest,
         CreateFriend, DeleteFriendRequests, ReadSettings, IsFriend, Answer,
         CreateFriendRequest, ReadThen, tables
    <3>2. ASSUME NEW h \in Handlers, NEW u \in Users, NEW v \in Users,
                 SendFriendRequest(h, u, v) \/ RemoveFriend(h, u, v)
                   \/ UnblockUser(h, u, v) \/ CheckCanSend(h, u, v)
          PROVE  UNCHANGED blocks
      BY <3>2 DEF SendFriendRequest, RemoveFriend, UnblockUser, CheckCanSend, tables
    <3> QED
      BY <3>1, <3>2 DEF Next, AcceptFriendRequest, RejectFriendRequest, BlockUser,
         UpdateUserSettings, tables
  <2> QED
    BY <2>1 DEF DeleteBlock
<1> QED
  BY <1>1, PTL DEF Spec, OnlyBlockerUnblocks
=============================================================================
