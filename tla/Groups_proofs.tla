---------------------------- MODULE Groups_proofs ----------------------------
(***************************************************************************)
(* Proofs about Groups, for every finite set of users and of handlers, and   *)
(* every set of messages and of ids of join requests.                       *)
(***************************************************************************)
EXTENDS Groups, FiniteSetTheorems, TLAPS

-----------------------------------------------------------------------------
(* The inductive invariant.                                                 *)

\* Nobody but the creator is ADMIN.
CreatorIsAdmin == admins \subseteq {Creator}

\* An add has at most what may be added at once.
AddsAreSmall ==
  \A h \in Handlers : task[h] # Null /\ task[h].op = "add" => Cardinality(task[h].who) <= MaxAtOnce

\* The adds that counted the members and have not inserted theirs.
Counted(t) == t # Null /\ t.op = "add" /\ t.at \in {"check", "insert"}
Adding == {h \in Handlers : Counted(task[h])}

MembersLimit == MaxTotal + Unseen * MaxAtOnce

\* The members with n more adds of the size allowed at once.
WithAdds(n) == Cardinality(members) + n * MaxAtOnce

\* What the adds that counted may still insert stays within the limit: the one that
\* counted last fits MaxTotal, and the others are at most Unseen.
AddsFit ==
  \/ WithAdds(Cardinality(Adding)) <= MembersLimit
  \/ \E h \in Adding :
       WithAdds(Cardinality(Adding) - 1) + Cardinality(task[h].who) <= MembersLimit

\* The same of the pins.
Pinning == {h \in Handlers : task[h] # Null /\ task[h].op = "pin" /\ task[h].at = "write"}
PinsFit == IsFiniteSet(PinRows) /\ Pinned + Cardinality(Pinning) <= MaxPins + Unseen

IInv == /\ TypeOK /\ CreatorIsAdmin /\ AddsAreSmall /\ AddsFit /\ PinsFit /\ NothingOutlivesGroup

-----------------------------------------------------------------------------
(* Tasks.                                                                   *)

AddTask == [op : {"add"}, at : {"count", "check", "insert"}, who : SUBSET Users]
PinTask ==
  [op : {"pin", "unpin"}, at : {"permission", "existing", "count", "write"}, message : Messages]

LEMMA TaskType ==
  ASSUME TypeOK, NEW h \in Handlers, task[h] # Null
  PROVE  /\ task[h] \in Task
         /\ task[h].op = "add" => task[h] \in AddTask
         /\ task[h].op = "remove" =>
              task[h] \in [op : {"remove"}, at : {"count", "delete"}, user : Users]
         /\ task[h].op = "join" =>
              task[h] \in [op : {"join"}, at : {"existing", "create"}, user : Users]
         /\ task[h].op = "process" =>
              task[h] \in [op : {"process"}, at : {"update"}, request : Requests, status : Statuses]
         /\ task[h].op = "permit" => task[h] \in [op : {"permit"}, at : {"update"}, value : BOOLEAN]
         /\ task[h].op \in {"pin", "unpin"} => task[h] \in PinTask
<1>1. task[h] \in Task
  BY DEF TypeOK
<1> QED
  BY <1>1 DEF Task, AddTask, PinTask

LEMMA SlotSet ==
  ASSUME TypeOK, NEW h \in Handlers, NEW r \in Task \cup {Null}, task' = [task EXCEPT ![h] = r]
  PROVE  /\ task' \in [Handlers -> Task \cup {Null}] /\ task'[h] = r
         /\ \A x \in Handlers : x # h => task'[x] = task[x]
BY DEF TypeOK

\* The slot of h goes to `at`: a read that lets the request go on.
GoesTo(h, at) == task' = [task EXCEPT ![h].at = at]

Stage(op) ==
  CASE op = "add" -> {"count", "check", "insert"}
    [] op = "remove" -> {"count", "delete"}
    [] op = "join" -> {"existing", "create"}
    [] op \in {"pin", "unpin"} -> {"permission", "existing", "count", "write"}

LEMMA SlotGoes ==
  ASSUME TypeOK, NEW h \in Handlers, task[h] # Null,
         task[h].op \in {"add", "remove", "join", "pin", "unpin"},
         NEW at \in Stage(task[h].op), GoesTo(h, at)
  PROVE  /\ task' \in [Handlers -> Task \cup {Null}] /\ task'[h] # Null
         /\ task'[h].op = task[h].op /\ task'[h].at = at
         /\ task[h].op = "add" => task'[h].who = task[h].who
         /\ \A x \in Handlers : x # h => task'[x] = task[x]
<1> DEFINE r == [task[h] EXCEPT !.at = at]
<1>1. /\ r \in Task /\ r.op = task[h].op /\ r.at = at
      /\ task[h].op = "add" => r.who = task[h].who
  <2>1. CASE task[h].op = "add"
    BY <2>1, TaskType DEF Task, AddTask, Stage
  <2>2. CASE task[h].op = "remove"
    BY <2>2, TaskType DEF Task, Stage
  <2>3. CASE task[h].op = "join"
    BY <2>3, TaskType DEF Task, Stage
  <2>4. CASE task[h].op \in {"pin", "unpin"}
    BY <2>4, TaskType DEF Task, PinTask, Stage
  <2> QED
    BY <2>1, <2>2, <2>3, <2>4
<1>2. task' = [task EXCEPT ![h] = r]
  BY DEF GoesTo
<1> HIDE DEF r
<1> QED
  BY <1>1, <1>2, SlotSet, GroupsAssumption

LEMMA FinishSlot ==
  ASSUME TypeOK, NEW h \in Handlers, Finish(h)
  PROVE  /\ task' \in [Handlers -> Task \cup {Null}] /\ task'[h] = Null
         /\ \A x \in Handlers : x # h => task'[x] = task[x]
BY SlotSet DEF Finish

-----------------------------------------------------------------------------
(* Counting members, adds and pins.                                         *)

LEMMA Finite ==
  ASSUME TypeOK
  PROVE  /\ IsFiniteSet(members) /\ Cardinality(members) \in Nat
         /\ IsFiniteSet(Adding) /\ Cardinality(Adding) \in Nat
         /\ IsFiniteSet(Pinning) /\ Cardinality(Pinning) \in Nat
         /\ Unseen \in Nat /\ MembersLimit \in Nat
         /\ Cardinality(Adding) <= Unseen + 1 /\ Cardinality(Pinning) <= Unseen + 1
<1>1. members \subseteq Users /\ Adding \subseteq Handlers /\ Pinning \subseteq Handlers
  BY DEF TypeOK, Adding, Pinning
<1>2. Cardinality(Handlers) \in Nat /\ Cardinality(Handlers) # 0
  BY GroupsAssumption, FS_CardinalityType, FS_EmptySet
<1> QED
  BY <1>1, <1>2, GroupsAssumption, FS_Subset, FS_CardinalityType DEF Unseen, MembersLimit

LEMMA FiniteAdd ==
  ASSUME TypeOK, AddsAreSmall, NEW h \in Handlers, task[h] # Null, task[h].op = "add"
  PROVE  /\ task[h].who \subseteq Users /\ IsFiniteSet(task[h].who)
         /\ Cardinality(task[h].who) \in Nat /\ Cardinality(task[h].who) <= MaxAtOnce
<1>1. task[h].who \subseteq Users
  BY TaskType DEF AddTask
<1> QED
  BY <1>1, GroupsAssumption, FS_Subset, FS_CardinalityType DEF AddsAreSmall

\* Multiplication by a constant: all the arithmetic the bound on members needs.
LEMMA Times ==
  /\ \A n \in Nat : n * MaxAtOnce \in Nat /\ (n + 1) * MaxAtOnce = n * MaxAtOnce + MaxAtOnce
  /\ \A m, n \in Nat : m <= n => m * MaxAtOnce <= n * MaxAtOnce
BY GroupsAssumption

\* Members leave, adds end: the rest still fits.
LEMMA FewerFit ==
  ASSUME TypeOK, TypeOK', AddsAreSmall, AddsFit, members' \subseteq members,
         \A x \in Handlers : Counted(task'[x]) => Counted(task[x]) /\ task'[x].who = task[x].who
  PROVE  AddsFit'
<1> DEFINE n == Cardinality(Adding)
           k == Cardinality(Adding')
<1>1. Adding' \subseteq Adding
  BY DEF Adding
<1>2. /\ n \in Nat /\ k \in Nat /\ k <= n
      /\ Cardinality(members') \in Nat /\ Cardinality(members') <= Cardinality(members)
  BY <1>1, Finite, FS_Subset, FS_CardinalityType
<1>3. \A i \in Nat : i * MaxAtOnce \in Nat /\ WithAdds(i) = Cardinality(members) + i * MaxAtOnce
  BY Times DEF WithAdds
<1>4. \A i \in Nat : WithAdds(i)' = Cardinality(members') + i * MaxAtOnce
  BY DEF WithAdds
<1>5. UNCHANGED MembersLimit /\ MembersLimit \in Nat
  BY Finite DEF MembersLimit, Unseen
<1>6. CASE WithAdds(n) <= MembersLimit
  <2>1. k * MaxAtOnce <= n * MaxAtOnce
    BY <1>2, Times
  <2>2. Cardinality(members') + k * MaxAtOnce <= MembersLimit
    BY <1>2, <1>3, <1>5, <1>6, <2>1, Finite
  <2>3. WithAdds(Cardinality(Adding))' <= MembersLimit'
    BY <1>2, <1>4, <1>5, <2>2 DEF WithAdds
  <2> QED
    BY <2>3 DEF AddsFit
<1>7. ASSUME NEW h \in Adding, WithAdds(n - 1) + Cardinality(task[h].who) <= MembersLimit
      PROVE  AddsFit'
  <2>1. /\ task[h] # Null /\ task[h].op = "add" /\ Counted(task[h]) /\ h \in Handlers
    BY DEF Adding, Counted
  <2>2. Cardinality(task[h].who) \in Nat
    BY <2>1, FiniteAdd
  <2>3. n # 0
    BY Finite, FS_EmptySet
  <2>4. CASE h \in Adding'
    <3>1. task'[h].who = task[h].who /\ k # 0
      BY <2>4, <1>1, Finite, FS_Subset, FS_EmptySet DEF Adding
    <3>2. (k - 1) * MaxAtOnce <= (n - 1) * MaxAtOnce
      <4>1. k - 1 \in Nat /\ n - 1 \in Nat /\ k - 1 <= n - 1
        BY <1>2, <2>3, <3>1
      <4> HIDE DEF k, n
      <4> QED
        BY <4>1, Times
    <3>3. Cardinality(members') + (k - 1) * MaxAtOnce + Cardinality(task[h].who) <= MembersLimit
      BY <1>2, <1>3, <1>5, <1>7, <2>2, <2>3, <3>1, <3>2, Finite
    <3>4. WithAdds(Cardinality(Adding) - 1)' + Cardinality(task'[h].who) <= MembersLimit'
      BY <1>5, <3>1, <3>3 DEF WithAdds
    <3> QED
      BY <2>4, <3>4 DEF AddsFit
  <2>5. CASE h \notin Adding'
    <3>1. k <= n - 1
      <4>1. Adding' \subseteq Adding \ {h}
        BY <1>1, <2>5
      <4>2. IsFiniteSet(Adding \ {h}) /\ Cardinality(Adding \ {h}) = n - 1
        BY Finite, FS_RemoveElement
      <4>3. k <= Cardinality(Adding \ {h})
        BY <4>1, <4>2, FS_Subset
      <4> QED
        BY <4>2, <4>3
    <3>2. k * MaxAtOnce <= (n - 1) * MaxAtOnce
      BY <1>2, <2>3, <3>1, Times
    <3>3. Cardinality(members') + k * MaxAtOnce <= MembersLimit
      BY <1>2, <1>3, <1>5, <1>7, <2>2, <2>3, <3>2, Finite
    <3>4. WithAdds(Cardinality(Adding))' <= MembersLimit'
      BY <1>5, <3>3 DEF WithAdds
    <3> QED
      BY <3>4 DEF AddsFit
  <2> QED
    BY <2>4, <2>5
<1> QED
  BY <1>6, <1>7 DEF AddsFit

\* CountBeforeAdd: whoever counted last fits the maximum, and at most Unseen others
\* have counted before.
LEMMA CountFits ==
  ASSUME TypeOK, TypeOK', AddsAreSmall, UNCHANGED members,
         NEW h \in Handlers, Counted(task'[h]), task'[h].who = task[h].who,
         task[h] # Null, task[h].op = "add",
         Cardinality(members) + Cardinality(task[h].who) <= MaxTotal
  PROVE  AddsFit'
<1> DEFINE k == Cardinality(Adding')
<1>1. h \in Adding'
  BY DEF Adding
<1>2. IsFiniteSet(Adding') /\ k \in Nat /\ k <= Unseen + 1 /\ Unseen \in Nat
  <2>1. Adding' \subseteq Handlers
    BY DEF Adding
  <2> QED
    BY <2>1, Finite, GroupsAssumption, FS_Subset, FS_CardinalityType DEF Unseen
<1>3. k # 0
  BY <1>1, <1>2, FS_EmptySet
<1>4. (k - 1) * MaxAtOnce <= Unseen * MaxAtOnce /\ (k - 1) * MaxAtOnce \in Nat
  BY <1>2, <1>3, Times
<1>5. Cardinality(members) + (k - 1) * MaxAtOnce + Cardinality(task[h].who) <= MembersLimit
  BY <1>2, <1>4, Finite, FiniteAdd, Times, GroupsAssumption DEF MembersLimit
<1>6. WithAdds(Cardinality(Adding) - 1)' + Cardinality(task'[h].who) <= MembersLimit'
  BY <1>5 DEF WithAdds, MembersLimit, Unseen
<1> QED
  BY <1>1, <1>6 DEF AddsFit

\* InsertMembers: the members grow by what the add had still to insert.
LEMMA InsertFits ==
  ASSUME TypeOK, TypeOK', AddsAreSmall, AddsFit, NEW h \in Adding, Adding' = Adding \ {h},
         members' \subseteq members \cup task[h].who,
         \A x \in Handlers : x # h => task'[x] = task[x]
  PROVE  AddsFit'
<1> DEFINE n == Cardinality(Adding)
           w == Cardinality(task[h].who)
<1>0. h \in Handlers /\ task[h] # Null /\ task[h].op = "add"
  BY DEF Adding, Counted
<1>1. /\ IsFiniteSet(task[h].who) /\ w \in Nat /\ w <= MaxAtOnce
      /\ Cardinality(members) \in Nat /\ n \in Nat /\ n # 0 /\ MembersLimit \in Nat
      /\ Cardinality(Adding') = n - 1
  BY <1>0, FiniteAdd, Finite, FS_RemoveElement, FS_EmptySet
<1>2. Cardinality(members') <= Cardinality(members) + w /\ Cardinality(members') \in Nat
  <2>1. IsFiniteSet(members \cup task[h].who)
        /\ Cardinality(members \cup task[h].who)
             = Cardinality(members) + w - Cardinality(members \cap task[h].who)
    BY <1>1, Finite, FS_Union
  <2>2. Cardinality(members \cap task[h].who) \in Nat
    BY <1>1, FS_Subset, FS_CardinalityType
  <2>3. Cardinality(members') <= Cardinality(members \cup task[h].who) /\ IsFiniteSet(members')
    BY <2>1, FS_Subset
  <2> QED
    BY <1>1, <2>1, <2>2, <2>3, FS_CardinalityType
<1>3. n * MaxAtOnce = (n - 1) * MaxAtOnce + MaxAtOnce /\ (n - 1) * MaxAtOnce \in Nat
  BY <1>1, Times, GroupsAssumption
<1>4. CASE WithAdds(n) <= MembersLimit
  <2>1. Cardinality(members') + (n - 1) * MaxAtOnce <= MembersLimit
    BY <1>1, <1>2, <1>3, <1>4, GroupsAssumption DEF WithAdds
  <2>2. WithAdds(Cardinality(Adding))' <= MembersLimit'
    BY <1>1, <2>1 DEF WithAdds, MembersLimit, Unseen
  <2> QED
    BY <2>2 DEF AddsFit
<1>5. ASSUME NEW g \in Adding, WithAdds(n - 1) + Cardinality(task[g].who) <= MembersLimit
      PROVE  AddsFit'
  <2>1. CASE g = h
    <3>1. Cardinality(members') + (n - 1) * MaxAtOnce <= MembersLimit
      BY <1>1, <1>2, <1>3, <1>5, <2>1 DEF WithAdds
    <3>2. WithAdds(Cardinality(Adding))' <= MembersLimit'
      BY <1>1, <3>1 DEF WithAdds, MembersLimit, Unseen
    <3> QED
      BY <3>2 DEF AddsFit
  <2>2. CASE g # h
    <3>1. g \in Adding' /\ g \in Handlers /\ task'[g] = task[g] /\ Cardinality(task[g].who) \in Nat
      BY <2>2, FiniteAdd DEF Adding, Counted
    <3>2. n - 1 # 0 /\ n - 1 \in Nat
      <4>1. IsFiniteSet(Adding')
        BY Finite, FS_RemoveElement
      <4> QED
        BY <1>1, <3>1, <4>1, FS_EmptySet
    <3>3. (n - 1) * MaxAtOnce = (n - 2) * MaxAtOnce + MaxAtOnce /\ (n - 2) * MaxAtOnce \in Nat
      <4>1. PICK k \in Nat : n - 2 = k /\ n - 1 = k + 1
        BY <1>1, <3>2
      <4>2. k * MaxAtOnce \in Nat /\ (k + 1) * MaxAtOnce = k * MaxAtOnce + MaxAtOnce
        BY Times
      <4> QED
        BY <4>1, <4>2
    <3>4. Cardinality(members') + (n - 2) * MaxAtOnce + Cardinality(task[g].who) <= MembersLimit
      BY <1>1, <1>2, <1>5, <3>1, <3>3, GroupsAssumption DEF WithAdds
    <3>5. Cardinality(Adding') - 1 = n - 2
      BY <1>1
    <3>6. WithAdds(Cardinality(Adding) - 1)' + Cardinality(task'[g].who) <= MembersLimit'
      BY <3>1, <3>4, <3>5 DEF WithAdds, MembersLimit, Unseen
    <3> QED
      BY <3>1, <3>6 DEF AddsFit
  <2> QED
    BY <2>1, <2>2
<1> QED
  BY <1>4, <1>5 DEF AddsFit

LEMMA SamePins ==
  ASSUME pins' = pins
  PROVE  PinRows' = PinRows /\ Pinned' = Pinned
BY DEF PinRows, Pinned

\* A slot that keeps an add from inserting more and a pin from being written.
Harmless(t) ==
  t # Null =>
    /\ t.op = "add" => t.at = "count" /\ Cardinality(t.who) <= MaxAtOnce
    /\ ~(t.op = "pin" /\ t.at = "write")

\* A slot changes and comes no nearer to a write; members may leave, join requests be
\* made.
LEMMA QuietKeeps ==
  ASSUME IInv, NEW h \in Handlers, task' \in [Handlers -> Task \cup {Null}],
         \A x \in Handlers : x # h => task'[x] = task[x],
         \/ Harmless(task'[h])
         \/ /\ Counted(task[h]) /\ task'[h] # Null /\ task'[h].op = "add"
            /\ task'[h].who = task[h].who,
         UNCHANGED <<exists, pins>>, mayPin' \in BOOLEAN,
         members' \subseteq members, admins' \subseteq admins, admins' \subseteq members',
         joinRequest' \in [Requests -> JoinRequest \cup {Null}],
         exists \/ UNCHANGED joinRequest
  PROVE  IInv'
<1> USE DEF IInv
<1>1. TypeOK'
  BY DEF TypeOK
<1>2. CreatorIsAdmin'
  BY DEF CreatorIsAdmin
<1>3. AddsAreSmall'
  BY DEF AddsAreSmall, Harmless, Counted
<1>4. AddsFit'
  <2>1. \A x \in Handlers : Counted(task'[x]) => Counted(task[x]) /\ task'[x].who = task[x].who
    BY DEF Harmless, Counted
  <2> QED
    BY <1>1, <2>1, FewerFit
<1>5. PinsFit'
  <2>1. Pinning' \subseteq Pinning
    BY DEF Pinning, Harmless, Counted
  <2>2. Cardinality(Pinning') <= Cardinality(Pinning)
    BY <2>1, Finite, FS_Subset
  <2>3. IsFiniteSet(PinRows') /\ Pinned' = Pinned /\ Pinned \in Nat
    BY SamePins, FS_CardinalityType DEF PinsFit, Pinned
  <2>4. Cardinality(Pinning') \in Nat /\ Cardinality(Pinning) \in Nat
    BY <2>1, Finite, FS_Subset, FS_CardinalityType
  <2>5. Pinned + Cardinality(Pinning) <= MaxPins + Unseen /\ MaxPins + Unseen \in Nat
    BY Finite, GroupsAssumption DEF PinsFit
  <2>6. Pinned + Cardinality(Pinning') <= MaxPins + Unseen
    BY <2>2, <2>3, <2>4, <2>5
  <2> QED
    BY <2>3, <2>6 DEF PinsFit, Unseen
<1>6. NothingOutlivesGroup'
  BY SamePins DEF NothingOutlivesGroup, TypeOK
<1> QED
  BY <1>1, <1>2, <1>3, <1>4, <1>5, <1>6

LEMMA BeginKeeps ==
  ASSUME IInv, NEW h \in Handlers, NEW t \in Task, Begin(h, t), Harmless(t)
  PROVE  IInv'
<1>1. /\ task' \in [Handlers -> Task \cup {Null}] /\ task'[h] = t
      /\ \A x \in Handlers : x # h => task'[x] = task[x]
  BY SlotSet DEF Begin, IInv
<1> QED
  BY <1>1, QuietKeeps DEF Begin, IInv, TypeOK, memberRows

LEMMA FinishKeeps ==
  ASSUME IInv, NEW h \in Handlers, Finish(h),
         UNCHANGED <<exists, memberRows, joinRequest, pins>>, mayPin' \in BOOLEAN
  PROVE  IInv'
<1>1. /\ task' \in [Handlers -> Task \cup {Null}] /\ task'[h] = Null
      /\ \A x \in Handlers : x # h => task'[x] = task[x]
  BY FinishSlot DEF IInv
<1> QED
  BY <1>1, QuietKeeps DEF Harmless, IInv, TypeOK, memberRows

LEMMA ReadKeeps ==
  ASSUME IInv, NEW h \in Handlers, task[h] # Null,
         task[h].op \in {"add", "remove", "join", "pin", "unpin"},
         NEW at \in Stage(task[h].op), NEW ok, ReadThen(h, ok, at),
         \/ task[h].op \in {"remove", "join", "unpin"}
         \/ task[h].op = "pin" /\ at # "write"
         \/ Counted(task[h])
  PROVE  IInv'
<1>1. UNCHANGED <<exists, memberRows, mayPin, joinRequest, pins>> /\ (Finish(h) \/ GoesTo(h, at))
  BY DEF ReadThen, Finish, GoesTo
<1>2. CASE Finish(h)
  BY <1>1, <1>2, FinishKeeps DEF IInv, TypeOK
<1>3. CASE GoesTo(h, at)
  <2>1. /\ task' \in [Handlers -> Task \cup {Null}] /\ task'[h] # Null
        /\ task'[h].op = task[h].op /\ task'[h].at = at
        /\ task[h].op = "add" => task'[h].who = task[h].who
        /\ \A x \in Handlers : x # h => task'[x] = task[x]
    BY <1>3, SlotGoes DEF IInv
  <2> QED
    BY <1>1, <2>1, QuietKeeps DEF Harmless, Counted, IInv, TypeOK, memberRows
<1> QED
  BY <1>1, <1>2, <1>3

LEMMA RequestKeeps ==
  ASSUME IInv, NEW h \in Handlers, Request(h)
  PROVE  IInv'
<1>1. ASSUME NEW S \in SUBSET Users, AddMembersToGroupChat(h, S) PROVE IInv'
  <2>1. [op |-> "add", at |-> "count", who |-> S] \in Task
    BY DEF Task
  <2>2. Harmless([op |-> "add", at |-> "count", who |-> S])
    BY <1>1 DEF Harmless, AddMembersToGroupChat
  <2> QED
    BY <1>1, <2>1, <2>2, BeginKeeps DEF AddMembersToGroupChat
<1>2. ASSUME NEW u \in Users, RemoveGroupChatMember(h, u) PROVE IInv'
  <2>1. [op |-> "remove", at |-> "count", user |-> u] \in Task
    BY DEF Task
  <2>2. Harmless([op |-> "remove", at |-> "count", user |-> u])
    BY DEF Harmless
  <2> QED
    BY <1>2, <2>1, <2>2, BeginKeeps DEF RemoveGroupChatMember
<1>3. ASSUME NEW u \in Users, CreateJoinRequest(h, u) PROVE IInv'
  <2>1. [op |-> "join", at |-> "existing", user |-> u] \in Task
    BY DEF Task
  <2>2. Harmless([op |-> "join", at |-> "existing", user |-> u])
    BY DEF Harmless
  <2> QED
    BY <1>3, <2>1, <2>2, BeginKeeps DEF CreateJoinRequest
<1>4. ASSUME NEW r \in Requests, NEW st \in Statuses, ProcessJoinRequest(h, r, st) PROVE IInv'
  <2>1. [op |-> "process", at |-> "update", request |-> r, status |-> st] \in Task
    BY DEF Task
  <2>2. Harmless([op |-> "process", at |-> "update", request |-> r, status |-> st])
    BY DEF Harmless
  <2> QED
    BY <1>4, <2>1, <2>2, BeginKeeps DEF ProcessJoinRequest
<1>5. ASSUME NEW b \in BOOLEAN, UpdateGroupChatPermissions(h, b) PROVE IInv'
  <2>1. [op |-> "permit", at |-> "update", value |-> b] \in Task
    BY DEF Task
  <2>2. Harmless([op |-> "permit", at |-> "update", value |-> b])
    BY DEF Harmless
  <2> QED
    BY <1>5, <2>1, <2>2, BeginKeeps DEF UpdateGroupChatPermissions
<1>6. ASSUME DeleteGroupChat(h) PROVE IInv'
  <2>1. [op |-> "delete", at |-> "delete"] \in Task
    BY DEF Task
  <2>2. Harmless([op |-> "delete", at |-> "delete"])
    BY DEF Harmless
  <2> QED
    BY <1>6, <2>1, <2>2, BeginKeeps DEF DeleteGroupChat
<1>7. ASSUME NEW u \in Users, NEW op \in {"pin", "unpin"}, NEW m \in Messages,
             PinOrUnpinMessageInGroupChat(h, u, op, m)
      PROVE  IInv'
  <2> DEFINE t == [op |-> op, message |-> m,
                   at |-> IF u \notin admins THEN "permission"
                          ELSE IF op = "pin" THEN "existing" ELSE "write"]
  <2>1. t \in Task
    BY DEF Task
  <2>2. Harmless(t)
    BY DEF Harmless
  <2>3. Begin(h, t)
    BY <1>7 DEF PinOrUnpinMessageInGroupChat
  <2> HIDE DEF t
  <2> QED
    BY <2>1, <2>2, <2>3, BeginKeeps
<1> QED
  BY <1>1, <1>2, <1>3, <1>4, <1>5, <1>6, <1>7 DEF Request

LEMMA AddKeeps ==
  ASSUME IInv, NEW h \in Handlers, CountBeforeAdd(h) \/ CheckIfMembersInGroupChat(h)
  PROVE  IInv'
<1>0. TypeOK /\ task[h] # Null /\ task[h].op = "add" /\ Stage(task[h].op) = {"count", "check", "insert"}
  BY DEF IInv, CountBeforeAdd, CheckIfMembersInGroupChat, Waits, Stage
<1>1. CASE CountBeforeAdd(h)
  <2>1. UNCHANGED <<exists, memberRows, mayPin, joinRequest, pins>>
    BY <1>1 DEF CountBeforeAdd, ReadThen
  <2>2. CASE ~(Cardinality(members) + Cardinality(task[h].who) <= MaxTotal)
    BY <1>1, <2>1, <2>2, FinishKeeps DEF CountBeforeAdd, ReadThen, Finish, IInv, TypeOK
  <2>3. CASE Cardinality(members) + Cardinality(task[h].who) <= MaxTotal
    <3>1. /\ task' \in [Handlers -> Task \cup {Null}] /\ task'[h] # Null
          /\ task'[h].op = "add" /\ task'[h].at = "check" /\ task'[h].who = task[h].who
          /\ \A x \in Handlers : x # h => task'[x] = task[x]
      BY <1>0, <1>1, <2>3, SlotGoes DEF CountBeforeAdd, ReadThen, GoesTo
    <3>2. TypeOK'
      BY <2>1, <3>1 DEF IInv, TypeOK, memberRows
    <3>3. AddsFit'
      BY <1>0, <2>1, <2>3, <3>1, <3>2, CountFits DEF IInv, Counted, memberRows
    <3>4. CreatorIsAdmin' /\ AddsAreSmall'
      BY <1>0, <2>1, <3>1 DEF IInv, CreatorIsAdmin, AddsAreSmall, memberRows
    <3>5. PinsFit' /\ NothingOutlivesGroup'
      <4>1. Pinning' = Pinning
        BY <1>0, <3>1 DEF Pinning
      <4> QED
        BY <2>1, <4>1, SamePins DEF IInv, PinsFit, NothingOutlivesGroup, Unseen, memberRows
    <3> QED
      BY <3>2, <3>3, <3>4, <3>5 DEF IInv
  <2> QED
    BY <2>2, <2>3
<1>2. CASE CheckIfMembersInGroupChat(h)
  <2>1. Counted(task[h])
    BY <1>2 DEF CheckIfMembersInGroupChat, Waits, Counted
  <2> QED
    BY <1>0, <1>2, <2>1, ReadKeeps DEF CheckIfMembersInGroupChat
<1> QED
  BY <1>1, <1>2

LEMMA InsertKeeps ==
  ASSUME IInv, NEW h \in Handlers, InsertMembers(h)
  PROVE  IInv'
<1> USE DEF IInv
<1>1. CASE ~(exists /\ task[h].who \cap members = {})
  BY <1>1, FinishKeeps DEF InsertMembers, TypeOK, memberRows
<1>2. CASE exists /\ task[h].who \cap members = {}
  <2>1. /\ task[h] # Null /\ task[h].op = "add" /\ Counted(task[h]) /\ task[h].who \subseteq Users
        /\ members' = members \cup task[h].who
        /\ UNCHANGED <<exists, admins, mayPin, joinRequest, pins>>
    BY <1>2, FiniteAdd DEF InsertMembers, Waits, Counted
  <2>2. /\ task' \in [Handlers -> Task \cup {Null}] /\ task'[h] = Null
        /\ \A x \in Handlers : x # h => task'[x] = task[x]
    BY FinishSlot DEF InsertMembers
  <2>3. TypeOK'
    BY <2>1, <2>2 DEF TypeOK
  <2>4. AddsFit'
    <3>1. h \in Adding /\ Adding' = Adding \ {h}
      BY <2>1, <2>2 DEF Adding, Counted
    <3> QED
      BY <2>1, <2>2, <2>3, <3>1, InsertFits
  <2>5. CreatorIsAdmin' /\ AddsAreSmall'
    BY <2>1, <2>2 DEF CreatorIsAdmin, AddsAreSmall
  <2>6. PinsFit' /\ NothingOutlivesGroup'
    <3>1. Pinning' = Pinning
      BY <2>1, <2>2 DEF Pinning
    <3> QED
      BY <1>2, <2>1, <3>1, SamePins DEF PinsFit, NothingOutlivesGroup, Unseen
  <2> QED
    BY <2>3, <2>4, <2>5, <2>6
<1> QED
  BY <1>1, <1>2

LEMMA RemoveKeeps ==
  ASSUME IInv, NEW h \in Handlers, CountBeforeRemove(h) \/ DeleteMember(h)
  PROVE  IInv'
<1>0. TypeOK /\ task[h] # Null /\ task[h].op = "remove" /\ Stage(task[h].op) = {"count", "delete"}
  BY DEF IInv, CountBeforeRemove, DeleteMember, Waits, Stage
<1>1. CASE CountBeforeRemove(h)
  BY <1>0, <1>1, ReadKeeps DEF CountBeforeRemove
<1>2. CASE DeleteMember(h)
  <2>1. /\ task' \in [Handlers -> Task \cup {Null}] /\ task'[h] = Null
        /\ \A x \in Handlers : x # h => task'[x] = task[x]
    BY <1>0, <1>2, FinishSlot DEF DeleteMember
  <2> QED
    BY <1>2, <2>1, QuietKeeps DEF DeleteMember, Harmless, IInv, TypeOK
<1> QED
  BY <1>1, <1>2

LEMMA JoinKeeps ==
  ASSUME IInv, NEW h \in Handlers,
         FindJoinRequest(h) \/ \E r \in Requests : InsertJoinRequest(h, r)
  PROVE  IInv'
<1>0. TypeOK /\ task[h] # Null /\ task[h].op = "join" /\ Stage(task[h].op) = {"existing", "create"}
      /\ task[h].user \in Users
  BY TaskType DEF IInv, FindJoinRequest, InsertJoinRequest, Waits, Stage
<1>1. CASE FindJoinRequest(h)
  BY <1>0, <1>1, ReadKeeps DEF FindJoinRequest
<1>2. ASSUME NEW r \in Requests, InsertJoinRequest(h, r) PROVE IInv'
  <2>1. /\ task' \in [Handlers -> Task \cup {Null}] /\ task'[h] = Null
        /\ \A x \in Handlers : x # h => task'[x] = task[x]
    BY <1>0, <1>2, FinishSlot DEF InsertJoinRequest
  <2>2. [user |-> task[h].user, status |-> "PENDING"] \in JoinRequest
    BY <1>0 DEF JoinRequest, Statuses
  <2>3. joinRequest' \in [Requests -> JoinRequest \cup {Null}] /\ (exists \/ UNCHANGED joinRequest)
    BY <1>0, <1>2, <2>2 DEF InsertJoinRequest, TypeOK
  <2> QED
    BY <1>2, <2>1, <2>3, QuietKeeps DEF InsertJoinRequest, Harmless, IInv, TypeOK, memberRows
<1> QED
  BY <1>1, <1>2

LEMMA ProcessKeeps ==
  ASSUME IInv, NEW h \in Handlers, UpdateJoinRequest(h)
  PROVE  IInv'
<1>0. /\ TypeOK /\ task[h] # Null /\ task[h].request \in Requests /\ task[h].status \in Statuses
      /\ UNCHANGED <<exists, memberRows, mayPin, pins>>
  BY TaskType DEF IInv, UpdateJoinRequest, Waits
<1>1. PICK r \in Requests : r = task[h].request
  BY <1>0
<1>2. CASE joinRequest[r] = Null
  BY <1>0, <1>1, <1>2, FinishKeeps DEF UpdateJoinRequest, TypeOK
<1>3. CASE joinRequest[r] # Null
  <2>1. joinRequest[r] \in JoinRequest /\ joinRequest[r].user \in Users /\ exists
    BY <1>0, <1>3 DEF TypeOK, JoinRequest, IInv, NothingOutlivesGroup
  <2>2. joinRequest' \in [Requests -> JoinRequest \cup {Null}]
    <3>1. [joinRequest[r] EXCEPT !.status = task[h].status] \in JoinRequest
      BY <1>0, <2>1 DEF JoinRequest
    <3>2. joinRequest' = [joinRequest EXCEPT ![r] = [joinRequest[r] EXCEPT !.status = task[h].status]]
      BY <1>1, <1>3 DEF UpdateJoinRequest
    <3> QED
      BY <1>0, <3>1, <3>2 DEF TypeOK
  <2> DEFINE t == [op |-> "add", at |-> "count", who |-> {joinRequest[r].user}]
  <2>3. t \in Task /\ Harmless(t)
    <3>1. Cardinality({joinRequest[r].user}) = 1
      BY FS_Singleton
    <3> QED
      BY <2>1, <3>1, GroupsAssumption DEF Task, Harmless
  <2>4. Finish(h) \/ task' = [task EXCEPT ![h] = t]
    BY <1>1, <1>3 DEF UpdateJoinRequest
  <2> HIDE DEF t
  <2>5. /\ task' \in [Handlers -> Task \cup {Null}] /\ (task'[h] = Null \/ task'[h] = t)
        /\ \A x \in Handlers : x # h => task'[x] = task[x]
    BY <1>0, <2>3, <2>4, SlotSet, FinishSlot
  <2>6. Harmless(task'[h])
    BY <2>3, <2>5 DEF Harmless
  <2> QED
    BY <1>0, <2>1, <2>2, <2>5, <2>6, QuietKeeps DEF IInv, TypeOK, memberRows
<1> QED
  BY <1>2, <1>3

LEMMA PermitKeeps ==
  ASSUME IInv, NEW h \in Handlers, UpdatePermission(h)
  PROVE  IInv'
<1>1. TypeOK /\ task[h] # Null /\ task[h].value \in BOOLEAN
  BY TaskType DEF IInv, UpdatePermission, Waits
<1>2. mayPin' \in BOOLEAN
  BY <1>1 DEF UpdatePermission, TypeOK
<1> QED
  BY <1>2, FinishKeeps DEF UpdatePermission

LEMMA DeleteKeeps ==
  ASSUME IInv, NEW h \in Handlers, DeleteGroup(h)
  PROVE  IInv'
<1> USE DEF IInv
<1>1. CASE UNCHANGED <<exists, memberRows, joinRequest, pins>>
  BY <1>1, FinishKeeps DEF DeleteGroup, TypeOK
<1>2. CASE /\ exists' = FALSE
           /\ members' = {} /\ admins' = {}
           /\ joinRequest' = [r \in Requests |-> Null]
           /\ pins' = [m \in Messages |-> 0]
  <2>1. /\ task' \in [Handlers -> Task \cup {Null}] /\ task'[h] = Null
        /\ \A x \in Handlers : x # h => task'[x] = task[x]
    BY FinishSlot DEF DeleteGroup
  <2>2. TypeOK'
    BY <1>2, <2>1 DEF DeleteGroup, TypeOK
  <2>3. PinRows' = {}
    <3>1. TypeOK' => \A x : x \in PinRows' => FALSE
      BY <1>2 DEF PinRows
    <3> QED
      BY <2>2, <3>1
  <2>4. CreatorIsAdmin' /\ AddsAreSmall'
    BY <1>2, <2>1 DEF CreatorIsAdmin, AddsAreSmall
  <2>5. AddsFit'
    BY <1>2, <2>1, <2>2, FewerFit DEF Counted
  <2>6. PinsFit'
    <3>1. Pinning' \subseteq Pinning
      BY <2>1 DEF Pinning
    <3>2. Cardinality(Pinning') <= Cardinality(Pinning) /\ Cardinality(Pinning') \in Nat
      BY <3>1, Finite, FS_Subset, FS_CardinalityType
    <3>3. IsFiniteSet(PinRows') /\ Pinned' = 0 /\ Pinned \in Nat
      BY <2>3, FS_EmptySet, FS_CardinalityType DEF Pinned, PinsFit
    <3>4. 0 + Cardinality(Pinning') <= MaxPins + Unseen
      BY <3>2, <3>3, Finite, GroupsAssumption DEF PinsFit
    <3> QED
      BY <3>3, <3>4 DEF PinsFit, Unseen
  <2>7. NothingOutlivesGroup'
    BY <1>2, <2>3, FS_EmptySet DEF NothingOutlivesGroup, Pinned
  <2> QED
    BY <2>2, <2>4, <2>5, <2>6, <2>7
<1> QED
  BY <1>1, <1>2 DEF DeleteGroup

\* Everything but the pins and their writers.
LEMMA PinStepKeeps ==
  ASSUME IInv, NEW h \in Handlers, task[h] # Null, task[h].op \in {"pin", "unpin"},
         task' \in [Handlers -> Task \cup {Null}],
         task'[h] = Null \/ (task'[h] # Null /\ task'[h].op \in {"pin", "unpin"}),
         \A x \in Handlers : x # h => task'[x] = task[x],
         UNCHANGED <<exists, memberRows, mayPin, joinRequest>>,
         pins' \in [Messages -> Nat], PinsFit',
         ~exists => Pinned' = 0
  PROVE  IInv'
<1> USE DEF IInv, memberRows
<1>1. TypeOK'
  BY DEF TypeOK
<1>2. CreatorIsAdmin' /\ AddsAreSmall'
  BY DEF CreatorIsAdmin, AddsAreSmall
<1>3. AddsFit'
  BY <1>1, FewerFit DEF Counted
<1>4. NothingOutlivesGroup'
  BY DEF NothingOutlivesGroup
<1> QED
  BY <1>1, <1>2, <1>3, <1>4

LEMMA CountPinsKeeps ==
  ASSUME IInv, NEW h \in Handlers, CountPins(h)
  PROVE  IInv'
<1>0. /\ TypeOK /\ task[h] # Null /\ task[h].op = "pin" /\ task[h].at = "count"
      /\ Stage(task[h].op) = {"permission", "existing", "count", "write"}
      /\ UNCHANGED <<exists, memberRows, mayPin, joinRequest, pins>>
  BY DEF IInv, CountPins, ReadThen, Waits, Stage
<1>1. CASE ~(Pinned < MaxPins)
  BY <1>0, <1>1, FinishKeeps DEF CountPins, ReadThen, Finish, TypeOK
<1>2. CASE Pinned < MaxPins
  <2>1. /\ task' \in [Handlers -> Task \cup {Null}] /\ task'[h] # Null
        /\ task'[h].op = "pin" /\ task'[h].at = "write"
        /\ \A x \in Handlers : x # h => task'[x] = task[x]
    BY <1>0, <1>2, SlotGoes DEF CountPins, ReadThen, GoesTo
  <2>2. PinsFit'
    <3>1. Pinning' \subseteq Handlers
      BY DEF Pinning
    <3>2. Cardinality(Pinning') <= Unseen + 1 /\ Cardinality(Pinning') \in Nat
      BY <3>1, GroupsAssumption, FS_Subset, FS_CardinalityType DEF Unseen
    <3>3. IsFiniteSet(PinRows') /\ Pinned' = Pinned /\ Pinned \in Nat
      BY <1>0, SamePins, FS_CardinalityType DEF IInv, PinsFit, Pinned
    <3>4. Pinned + Cardinality(Pinning') <= MaxPins + Unseen
      BY <1>0, <1>2, <3>2, <3>3, Finite, GroupsAssumption
    <3> QED
      BY <3>3, <3>4 DEF PinsFit, Unseen
  <2>3. pins' \in [Messages -> Nat] /\ (~exists => Pinned' = 0)
    BY <1>0, SamePins DEF IInv, TypeOK, NothingOutlivesGroup
  <2> QED
    BY <1>0, <2>1, <2>2, <2>3, PinStepKeeps
<1> QED
  BY <1>1, <1>2

LEMMA PinReadsKeep ==
  ASSUME IInv, NEW h \in Handlers, CheckGroupChatPermission(h) \/ FindPin(h)
  PROVE  IInv'
<1>1. CASE Waits(h, "pin", "permission") /\ ReadThen(h, ~exists \/ mayPin, "existing")
  BY <1>1, ReadKeeps DEF Waits, Stage
<1>2. CASE Waits(h, "unpin", "permission") /\ ReadThen(h, ~exists \/ mayPin, "write")
  BY <1>2, ReadKeeps DEF Waits, Stage
<1>3. CASE FindPin(h)
  BY <1>3, ReadKeeps DEF FindPin, Waits, Stage
<1> QED
  BY <1>1, <1>2, <1>3 DEF CheckGroupChatPermission

LEMMA InsertPinKeeps ==
  ASSUME IInv, NEW h \in Handlers, InsertPin(h)
  PROVE  IInv'
<1>0. /\ TypeOK /\ task[h] # Null /\ task[h].op = "pin" /\ task[h].at = "write"
      /\ task[h].message \in Messages
      /\ UNCHANGED <<exists, memberRows, mayPin, joinRequest>>
  BY TaskType DEF IInv, InsertPin, Waits, PinTask
<1>1. /\ task' \in [Handlers -> Task \cup {Null}] /\ task'[h] = Null
      /\ \A x \in Handlers : x # h => task'[x] = task[x]
  BY <1>0, FinishSlot DEF InsertPin
<1>2. CASE ~exists
  BY <1>0, <1>2, FinishKeeps DEF InsertPin, TypeOK
<1>3. CASE exists
  <2>1. PICK m \in Messages : m = task[h].message
    BY <1>0
  <2>2. /\ pins' \in [Messages -> Nat] /\ pins[m] \in Nat /\ pins'[m] = pins[m] + 1
        /\ \A n \in Messages : n # m => pins'[n] = pins[n]
    BY <1>0, <1>3, <2>1 DEF InsertPin, TypeOK
  <2>3. PinRows' \subseteq PinRows \cup {<<m, pins[m] + 1>>}
    <3> SUFFICES ASSUME NEW n \in Messages, NEW i \in 1 .. pins'[n]
                 PROVE  <<n, i>> \in PinRows \cup {<<m, pins[m] + 1>>}
      BY DEF PinRows
    <3>1. CASE n = m
      <4>1. i \in 1 .. pins[m] \/ i = pins[m] + 1
        BY <2>2, <3>1
      <4> QED
        BY <3>1, <4>1 DEF PinRows
    <3>2. CASE n # m
      BY <2>2, <3>2 DEF PinRows
    <3> QED
      BY <3>1, <3>2
  <2>4. IsFiniteSet(PinRows') /\ Pinned' <= Pinned + 1 /\ Pinned' \in Nat /\ Pinned \in Nat
    <3>1. IsFiniteSet(PinRows) /\ Cardinality(PinRows) \in Nat
      BY FS_CardinalityType DEF IInv, PinsFit
    <3>2. /\ IsFiniteSet(PinRows \cup {<<m, pins[m] + 1>>})
          /\ Cardinality(PinRows \cup {<<m, pins[m] + 1>>}) \in Nat
          /\ Cardinality(PinRows \cup {<<m, pins[m] + 1>>}) <= Cardinality(PinRows) + 1
      <4> DEFINE x == <<m, pins[m] + 1>>
      <4> HIDE DEF x
      <4>1. CASE x \in PinRows
        <5>1. PinRows \cup {x} = PinRows
          BY <4>1
        <5> QED
          BY <3>1, <5>1 DEF x
      <4>2. CASE x \notin PinRows
        <5>1. /\ IsFiniteSet(PinRows \cup {x})
              /\ Cardinality(PinRows \cup {x}) = Cardinality(PinRows) + 1
          BY <3>1, <4>2, FS_AddElement
        <5> QED
          BY <3>1, <5>1 DEF x
      <4> QED
        BY <4>1, <4>2
    <3>3. /\ IsFiniteSet(PinRows') /\ Cardinality(PinRows') \in Nat
          /\ Cardinality(PinRows') <= Cardinality(PinRows \cup {<<m, pins[m] + 1>>})
      BY <2>3, <3>2, FS_Subset, FS_CardinalityType
    <3> QED
      BY <3>1, <3>2, <3>3 DEF Pinned
  <2>5. Cardinality(Pinning') = Cardinality(Pinning) - 1
    <3>1. h \in Pinning /\ Pinning' = Pinning \ {h}
      BY <1>0, <1>1 DEF Pinning
    <3> QED
      BY <1>0, <3>1, Finite, FS_RemoveElement
  <2>6. Pinned' + Cardinality(Pinning') <= MaxPins + Unseen
    <3>1. Pinned + Cardinality(Pinning) <= MaxPins + Unseen
      BY DEF IInv, PinsFit
    <3> QED
      BY <1>0, <2>4, <2>5, <3>1, Finite, GroupsAssumption
  <2>7. PinsFit'
    BY <2>4, <2>6 DEF PinsFit, Unseen
  <2> QED
    BY <1>0, <1>1, <1>3, <2>2, <2>7, PinStepKeeps
<1> QED
  BY <1>2, <1>3

LEMMA DeletePinsKeeps ==
  ASSUME IInv, NEW h \in Handlers, DeletePins(h)
  PROVE  IInv'
<1>0. /\ TypeOK /\ task[h] # Null /\ task[h].op = "unpin"
      /\ UNCHANGED <<exists, memberRows, mayPin, joinRequest>>
  BY DEF IInv, DeletePins, Waits
<1>1. /\ task' \in [Handlers -> Task \cup {Null}] /\ task'[h] = Null
      /\ \A x \in Handlers : x # h => task'[x] = task[x]
  BY <1>0, FinishSlot DEF DeletePins
<1>2. /\ pins' \in [Messages -> Nat] /\ pins \in [Messages -> Nat]
      /\ \A n \in Messages : pins'[n] = pins[n] \/ pins'[n] = 0
  BY <1>0 DEF DeletePins, TypeOK
<1>3. PinRows' \subseteq PinRows
  BY <1>2 DEF PinRows
<1>4. IsFiniteSet(PinRows') /\ Pinned' <= Pinned /\ Pinned' \in Nat /\ Pinned \in Nat
  BY <1>3, FS_Subset, FS_CardinalityType DEF IInv, PinsFit, Pinned
<1>5. Pinning' = Pinning
  BY <1>0, <1>1 DEF Pinning
<1>6. PinsFit'
  <2>1. Pinned + Cardinality(Pinning) <= MaxPins + Unseen
    BY DEF IInv, PinsFit
  <2>2. Pinned' + Cardinality(Pinning') <= MaxPins + Unseen
    BY <1>0, <1>4, <1>5, <2>1, Finite, GroupsAssumption
  <2> QED
    BY <1>4, <2>2 DEF PinsFit, Unseen
<1>7. ~exists => Pinned' = 0
  BY <1>4 DEF IInv, NothingOutlivesGroup
<1> QED
  BY <1>0, <1>1, <1>2, <1>6, <1>7, PinStepKeeps

LEMMA InitInv == Init => IInv
<1> SUFFICES ASSUME Init
             PROVE  IInv
  OBVIOUS
<1>1. TypeOK
  BY GroupsAssumption DEF Init, TypeOK
<1>2. CreatorIsAdmin /\ AddsAreSmall
  BY DEF Init, CreatorIsAdmin, AddsAreSmall
<1>3. Adding = {} /\ Pinning = {} /\ PinRows = {}
  BY DEF Init, Adding, Counted, Pinning, PinRows
<1>4. AddsFit
  <2>1. Cardinality(members) <= MaxTotal
    <3>1. IsFiniteSet(Founders) /\ Creator \notin Founders /\ members = Founders \cup {Creator}
      BY GroupsAssumption, FS_Subset DEF Init
    <3>2. Cardinality(members) = Cardinality(Founders) + 1
      BY <3>1, FS_AddElement
    <3>3. Cardinality(Founders) \in Nat
      BY <3>1, FS_CardinalityType
    <3> QED
      BY <3>2, <3>3, GroupsAssumption DEF MinMembers
  <2>2. WithAdds(0) <= MembersLimit
    BY <1>1, <2>1, Finite, Times, GroupsAssumption DEF WithAdds, MembersLimit
  <2>3. Cardinality(Adding) = 0
    BY <1>3, FS_EmptySet
  <2> QED
    BY <2>2, <2>3 DEF AddsFit
<1>5. PinsFit /\ NothingOutlivesGroup
  BY <1>1, <1>3, Finite, FS_EmptySet, GroupsAssumption DEF PinsFit, NothingOutlivesGroup, Pinned, Init
<1> QED
  BY <1>1, <1>2, <1>4, <1>5 DEF IInv

LEMMA InvStep == IInv /\ [Next]_vars => IInv'
<1> SUFFICES ASSUME IInv, [Next]_vars
             PROVE  IInv'
  OBVIOUS
<1>1. ASSUME UNCHANGED <<exists, mayPin, joinRequest, pins, task>>,
             members' \subseteq members, admins' \subseteq admins, admins' \subseteq members'
      PROVE  IInv'
  <2> USE DEF IInv
  <2>1. TypeOK'
    BY <1>1 DEF TypeOK
  <2>2. CreatorIsAdmin' /\ AddsAreSmall'
    BY <1>1 DEF CreatorIsAdmin, AddsAreSmall
  <2>3. AddsFit'
    BY <1>1, <2>1, FewerFit DEF Counted
  <2>4. PinsFit' /\ NothingOutlivesGroup'
    <3>1. Pinning' = Pinning
      BY <1>1 DEF Pinning
    <3> QED
      BY <1>1, <3>1, SamePins DEF PinsFit, Unseen, NothingOutlivesGroup
  <2> QED
    BY <2>1, <2>2, <2>3, <2>4
<1>2. ASSUME NEW u \in Users, LeaveGroupChat(u) PROVE IInv'
  BY <1>1, <1>2 DEF LeaveGroupChat, IInv, TypeOK
<1>3. CASE UNCHANGED vars
  BY <1>1, <1>3 DEF vars, memberRows, IInv, TypeOK
<1> QED
  BY <1>2, <1>3, RequestKeeps, AddKeeps, InsertKeeps, RemoveKeeps, JoinKeeps, ProcessKeeps,
     PermitKeeps, DeleteKeeps, CountPinsKeeps, PinReadsKeep, InsertPinKeeps, DeletePinsKeeps
     DEF Next, Resume

LEMMA Invariant == Spec => []IInv
BY InitInv, InvStep, PTL DEF Spec

-----------------------------------------------------------------------------
(* The theorems.                                                            *)

\* The tables and the requests in progress keep their types; an ADMIN has a member
\* row.
THEOREM TypeCorrect == Spec => []TypeOK
BY Invariant, PTL DEF IInv

\* However many addMembersToGroupChat run at once, and processJoinRequest behind
\* them, the members pass MAX_ADD_MEMBER_TOTAL by no more than what the requests
\* that could not see each other may add.
THEOREM ConcurrentAddsAreBounded == Spec => []MembersBounded
<1>1. IInv => MembersBounded
  <2> SUFFICES ASSUME IInv
               PROVE  Cardinality(members) <= MembersLimit
    BY DEF MembersBounded, MembersLimit
  <2> USE DEF IInv
  <2>1. CASE WithAdds(Cardinality(Adding)) <= MembersLimit
    <3>1. Cardinality(Adding) * MaxAtOnce \in Nat
      BY Finite, Times
    <3> QED
      BY <2>1, <3>1, Finite DEF WithAdds
  <2>2. ASSUME NEW h \in Adding,
               WithAdds(Cardinality(Adding) - 1) + Cardinality(task[h].who) <= MembersLimit
        PROVE  Cardinality(members) <= MembersLimit
    <3>1. Cardinality(Adding) \in Nat /\ Cardinality(Adding) # 0
      BY Finite, FS_EmptySet
    <3>2. (Cardinality(Adding) - 1) * MaxAtOnce \in Nat
      BY <3>1, Times
    <3>3. Cardinality(task[h].who) \in Nat
      BY FiniteAdd DEF Adding, Counted
    <3> QED
      BY <2>2, <3>2, <3>3, Finite DEF WithAdds
  <2> QED
    BY <2>1, <2>2 DEF AddsFit
<1> QED
  BY <1>1, Invariant, PTL

\* Concurrent pins pass the limit on pinned messages by no more than the requests
\* that counted before one of them inserted.
THEOREM ConcurrentPinsAreBounded == Spec => []PinsBounded
<1>1. IInv => PinsBounded
  <2> SUFFICES ASSUME IInv
               PROVE  PinsBounded
    OBVIOUS
  <2>1. /\ Pinned \in Nat /\ Cardinality(Pinning) \in Nat
        /\ Pinned + Cardinality(Pinning) <= MaxPins + Unseen
    BY Finite, FS_CardinalityType DEF IInv, PinsFit, Pinned
  <2>2. Unseen \in Nat /\ MaxPins \in Nat
    BY Finite, GroupsAssumption DEF IInv
  <2> QED
    BY <2>1, <2>2 DEF PinsBounded
<1> QED
  BY <1>1, Invariant, PTL

\* What a request reads before deleteGroupChat and writes after it never stays:
\* without the group no member, request to join or pin is left.
THEOREM RowsGoWithTheGroup == Spec => []NothingOutlivesGroup
BY Invariant, PTL DEF IInv

\* The check of leaveGroupChat suffices: only a removal that a role let in, or the
\* end of the group, takes the last administrator.
THEOREM LastAdminIsRemoved == Spec => AdminGoesByRemoval
<1>1. IInv /\ [Next]_vars =>
        [admins # {} /\ admins' = {} /\ exists' =>
           \E h \in Handlers : Waits(h, "remove", "delete") /\ task[h].user \in admins]_vars
  <2> SUFFICES ASSUME IInv, Next, admins # {}, admins' = {}, exists'
               PROVE  \E h \in Handlers : Waits(h, "remove", "delete") /\ task[h].user \in admins
    OBVIOUS
  <2>1. ASSUME NEW u \in Users, LeaveGroupChat(u)
        PROVE  FALSE
    BY <2>1 DEF LeaveGroupChat, IInv, CreatorIsAdmin
  <2>2. ASSUME NEW h \in Handlers, Request(h)
        PROVE  FALSE
    BY <2>2 DEF Request, AddMembersToGroupChat, RemoveGroupChatMember, CreateJoinRequest,
       ProcessJoinRequest, UpdateGroupChatPermissions, DeleteGroupChat,
       PinOrUnpinMessageInGroupChat, Begin, memberRows
  <2>3. ASSUME NEW h \in Handlers, Resume(h)
        PROVE  DeleteMember(h)
    <3>1. CASE DeleteGroup(h)
      BY <3>1 DEF DeleteGroup, memberRows
    <3> QED
      BY <2>3, <3>1 DEF Resume, CountBeforeAdd, CheckIfMembersInGroupChat, InsertMembers,
         CountBeforeRemove, FindJoinRequest, UpdateJoinRequest, InsertJoinRequest,
         UpdatePermission, CheckGroupChatPermission, FindPin, CountPins, InsertPin, DeletePins,
         ReadThen, memberRows
  <2>4. ASSUME NEW h \in Handlers, DeleteMember(h)
        PROVE  Waits(h, "remove", "delete") /\ task[h].user \in admins
    BY <2>4 DEF DeleteMember
  <2> QED
    BY <2>1, <2>2, <2>3, <2>4 DEF Next
<1> QED
  BY <1>1, Invariant, PTL DEF Spec, AdminGoesByRemoval
=============================================================================
