------------------------------- MODULE Groups -------------------------------
(***************************************************************************)
(* One group chat of the conversation-service: its members, the requests to *)
(* join it, its pinned messages and its deletion (group-member.service.ts,   *)
(* join-requests.service.ts, pin.service.ts, group-chat.service.ts).         *)
(*                                                                          *)
(* A request reads what it checks, one statement at a time, and writes last. *)
(* `task[h]` is the request in slot h between two of its statements; nothing *)
(* it read is locked.  What holds the tables together are the unique index   *)
(* on (group, user) and the foreign keys to the group.                       *)
(***************************************************************************)
EXTENDS Naturals, FiniteSets

CONSTANTS
  Users,      \* user ids
  Creator,    \* the user who created the group
  Founders,   \* the others it was created with
  Requests,   \* the ids group_join_requests may give
  Messages,   \* messages of the group
  Handlers,   \* slots for concurrent requests
  MaxTotal,   \* MAX_ADD_MEMBER_TOTAL
  MaxAtOnce,  \* MAX_ADD_MEMBER_AT_ONCE
  MaxPins,    \* the limit on pinned messages
  OtherGroups,\* whether some user is ADMIN of another group
  Null        \* no row, no request

\* MIN_MEMBER_IN_GROUP_CHAT
MinMembers == 2

VARIABLES
  exists,      \* the row in group_chats
  members,     \* users with a row in group_chat_members
  admins,      \* those whose row has the role ADMIN
  mayPin,      \* pinMessage of the group's permissions
  joinRequest, \* joinRequest[r]: a row of group_join_requests, or Null
  pins,        \* pins[m]: rows of pinned_messages for m
  task         \* task[h]: the request in slot h, or Null

memberRows == <<members, admins>>
vars == <<exists, memberRows, mayPin, joinRequest, pins, task>>

Statuses == {"PENDING", "APPROVED", "REJECTED"}
JoinRequest == [user : Users, status : Statuses]
Task ==
  [op : {"add"}, at : {"count", "check", "insert"}, who : SUBSET Users]
  \cup [op : {"remove"}, at : {"count", "delete"}, user : Users]
  \cup [op : {"join"}, at : {"existing", "create"}, user : Users]
  \cup [op : {"process"}, at : {"update"}, request : Requests, status : Statuses]
  \cup [op : {"permit"}, at : {"update"}, value : BOOLEAN]
  \cup [op : {"delete"}, at : {"delete"}]
  \cup [op : {"pin", "unpin"}, at : {"permission", "existing", "count", "write"},
        message : Messages]

ASSUME GroupsAssumption ==
  /\ Creator \in Users /\ Founders \subseteq Users \ {Creator}
  /\ IsFiniteSet(Users) /\ IsFiniteSet(Handlers) /\ Handlers # {}
  /\ OtherGroups \in BOOLEAN
  /\ MaxTotal \in Nat /\ MaxAtOnce \in Nat \ {0} /\ MaxPins \in Nat
  /\ Cardinality(Founders) + 1 \in MinMembers .. MaxTotal
  /\ Null \notin JoinRequest \cup Task

TypeOK ==
  /\ exists \in BOOLEAN
  /\ members \in SUBSET Users /\ admins \in SUBSET members
  /\ mayPin \in BOOLEAN
  /\ joinRequest \in [Requests -> JoinRequest \cup {Null}]
  /\ pins \in [Messages -> Nat]
  /\ task \in [Handlers -> Task \cup {Null}]

\* createGroupChat inserts the group, its members and its permissions at once.
Init ==
  /\ exists = TRUE
  /\ members = {Creator} \cup Founders /\ admins = {Creator}
  /\ mayPin = TRUE
  /\ joinRequest = [r \in Requests |-> Null]
  /\ pins = [m \in Messages |-> 0]
  /\ task = [h \in Handlers |-> Null]

-----------------------------------------------------------------------------
Waits(h, op, at) == task[h] # Null /\ task[h].op = op /\ task[h].at = at

Begin(h, t) ==
  /\ task[h] = Null /\ task' = [task EXCEPT ![h] = t]
  /\ UNCHANGED <<exists, memberRows, mayPin, joinRequest, pins>>

\* A read: the request goes on to `at`, or ends in an exception.
ReadThen(h, ok, at) ==
  /\ IF ok THEN task' = [task EXCEPT ![h].at = at]
           ELSE task' = [task EXCEPT ![h] = Null]
  /\ UNCHANGED <<exists, memberRows, mayPin, joinRequest, pins>>

Finish(h) == task' = [task EXCEPT ![h] = Null]

\* GroupChatRoleGuard looks for the sender's row with the role ADMIN in the group
\* that the query names, or the body when the query names none.  Where the handler
\* takes its group from the query too, that is an ADMIN of this group.
GroupChatRoleGuard == admins # {}

\* Where the group comes from the body, or from the row of a request to join, the
\* guard may have asked about another group.
GuardOfSomeGroup == GroupChatRoleGuard \/ OtherGroups

-----------------------------------------------------------------------------
(* Members: addMembersToGroupChat, removeGroupChatMember, leaveGroupChat.    *)

AddMembersToGroupChat(h, S) ==
  /\ GuardOfSomeGroup
  /\ S # {} /\ Cardinality(S) <= MaxAtOnce
  /\ Begin(h, [op |-> "add", at |-> "count", who |-> S])

\* Slip: the members to add are not counted.
CountMembersOnly(h) ==
  /\ Waits(h, "add", "count")
  /\ ReadThen(h, Cardinality(members) <= MaxTotal, "check")

CountBeforeAdd(h) ==
  /\ Waits(h, "add", "count")
  /\ ReadThen(h, Cardinality(members) + Cardinality(task[h].who) <= MaxTotal, "check")

CheckIfMembersInGroupChat(h) ==
  /\ Waits(h, "add", "check")
  /\ ReadThen(h, task[h].who \cap members = {}, "insert")

\* Everybody is inserted as MEMBER, the creator too: nothing gives the role ADMIN
\* to anybody again.  The nested create fails as a whole on the unique index, or
\* without a group.
InsertMembers(h) ==
  /\ Waits(h, "add", "insert")
  /\ IF exists /\ task[h].who \cap members = {}
       THEN members' = members \cup task[h].who
       ELSE UNCHANGED members
  /\ Finish(h)
  /\ UNCHANGED <<exists, admins, mayPin, joinRequest, pins>>

RemoveGroupChatMember(h, u) ==
  /\ GroupChatRoleGuard
  /\ Begin(h, [op |-> "remove", at |-> "count", user |-> u])

\* A count of zero is let through.
CountBeforeRemove(h) ==
  /\ Waits(h, "remove", "count")
  /\ ReadThen(h, Cardinality(members) \notin 1 .. MinMembers, "delete")

\* Slip: the role outlives the member.
DeleteMemberKeepingRole(h) ==
  /\ Waits(h, "remove", "delete")
  /\ members' = members \ {task[h].user}
  /\ Finish(h)
  /\ UNCHANGED <<exists, admins, mayPin, joinRequest, pins>>

DeleteMember(h) ==
  /\ Waits(h, "remove", "delete")
  /\ members' = members \ {task[h].user}
  /\ admins' = admins \ {task[h].user}
  /\ Finish(h)
  /\ UNCHANGED <<exists, mayPin, joinRequest, pins>>

\* Slip: leaving does not ask who created the group.
AnyoneLeaves(u) ==
  /\ u \in members
  /\ members' = members \ {u} /\ admins' = admins \ {u}
  /\ UNCHANGED <<exists, mayPin, joinRequest, pins, task>>

\* The creator never changes, so that looking for it and the delete are one step.
LeaveGroupChat(u) ==
  /\ u # Creator /\ u \in members
  /\ members' = members \ {u} /\ admins' = admins \ {u}
  /\ UNCHANGED <<exists, mayPin, joinRequest, pins, task>>

-----------------------------------------------------------------------------
(* Requests to join: createJoinRequest, processJoinRequest.                 *)

RequestsOf(u) == {r \in Requests : joinRequest[r] # Null /\ joinRequest[r].user = u}

CreateJoinRequest(h, u) ==
  /\ u \notin members
  /\ Begin(h, [op |-> "join", at |-> "existing", user |-> u])

\* findFirst has no order: one row of the user, whichever, decides.
FindJoinRequest(h) ==
  /\ Waits(h, "join", "existing")
  /\ \/ RequestsOf(task[h].user) = {} /\ ReadThen(h, TRUE, "create")
     \/ \E r \in RequestsOf(task[h].user) :
          ReadThen(h, joinRequest[r].status # "PENDING", "create")

InsertJoinRequest(h, r) ==
  /\ Waits(h, "join", "create")
  /\ joinRequest[r] = Null
  /\ IF exists
       THEN joinRequest' = [joinRequest EXCEPT ![r] =
              [user |-> task[h].user, status |-> "PENDING"]]
       ELSE UNCHANGED joinRequest
  /\ Finish(h)
  /\ UNCHANGED <<exists, memberRows, mayPin, pins>>

ProcessJoinRequest(h, r, s) ==
  /\ GuardOfSomeGroup
  /\ Begin(h, [op |-> "process", at |-> "update", request |-> r, status |-> s])

\* The decision is written whatever the row said, and before the member is added.
UpdateJoinRequest(h) ==
  /\ Waits(h, "process", "update")
  /\ LET r == task[h].request  s == task[h].status IN
       IF joinRequest[r] = Null
         THEN Finish(h) /\ UNCHANGED joinRequest
         ELSE /\ joinRequest' = [joinRequest EXCEPT ![r].status = s]
              /\ IF s = "APPROVED"
                   THEN task' = [task EXCEPT ![h] =
                          [op |-> "add", at |-> "count", who |-> {joinRequest[r].user}]]
                   ELSE Finish(h)
  /\ UNCHANGED <<exists, memberRows, mayPin, pins>>

-----------------------------------------------------------------------------
(* Permissions and the end of the group: updateGroupChatPermissions,        *)
(* deleteGroupChat.                                                         *)

UpdateGroupChatPermissions(h, b) ==
  /\ GuardOfSomeGroup
  /\ Begin(h, [op |-> "permit", at |-> "update", value |-> b])

\* Without its group the row is gone too, and the update fails.
UpdatePermission(h) ==
  /\ Waits(h, "permit", "update")
  /\ mayPin' = IF exists THEN task[h].value ELSE mayPin
  /\ Finish(h)
  /\ UNCHANGED <<exists, memberRows, joinRequest, pins>>

DeleteGroupChat(h) ==
  /\ GroupChatRoleGuard
  /\ Begin(h, [op |-> "delete", at |-> "delete"])

\* One transaction.  A row another request inserts into the group meanwhile
\* makes its last statement fail, and then nothing is deleted.
DeleteGroup(h) ==
  /\ Waits(h, "delete", "delete")
  /\ \/ /\ exists' = FALSE
        /\ members' = {} /\ admins' = {}
        /\ joinRequest' = [r \in Requests |-> Null]
        /\ pins' = [m \in Messages |-> 0]
     \/ UNCHANGED <<exists, memberRows, joinRequest, pins>>
  /\ Finish(h)
  /\ UNCHANGED mayPin

-----------------------------------------------------------------------------
(* Pins: pinOrUnpinMessageInGroupChat.                                      *)

\* The rows of pinned_messages: the first of m, the second, and so on.
PinRows == UNION {{m} \X (1 .. pins[m]) : m \in Messages}
Pinned == Cardinality(PinRows)

\* The member row is read; an ADMIN needs no permission.
PinOrUnpinMessageInGroupChat(h, u, op, m) ==
  /\ u \in members
  /\ Begin(h, [op |-> op, message |-> m,
               at |-> IF u \notin admins THEN "permission"
                      ELSE IF op = "pin" THEN "existing" ELSE "write"])

\* checkGroupChatPermission: a group without a row of permissions allows all.
CheckGroupChatPermission(h) ==
  \/ Waits(h, "pin", "permission") /\ ReadThen(h, ~exists \/ mayPin, "existing")
  \/ Waits(h, "unpin", "permission") /\ ReadThen(h, ~exists \/ mayPin, "write")

FindPin(h) ==
  /\ Waits(h, "pin", "existing")
  /\ ReadThen(h, pins[task[h].message] = 0, "count")

\* Slip: the limit is checked as if the new pin were already counted.
CountPinsAfter(h) ==
  /\ Waits(h, "pin", "count")
  /\ ReadThen(h, Pinned <= MaxPins, "write")

CountPins(h) ==
  /\ Waits(h, "pin", "count")
  /\ ReadThen(h, Pinned < MaxPins, "write")

\* Slip: pinned_messages has no foreign key to its group.
InsertPinAnyway(h) ==
  /\ Waits(h, "pin", "write")
  /\ pins' = [pins EXCEPT ![task[h].message] = @ + 1]
  /\ Finish(h)
  /\ UNCHANGED <<exists, memberRows, mayPin, joinRequest>>

InsertPin(h) ==
  /\ Waits(h, "pin", "write")
  /\ pins' = IF exists THEN [pins EXCEPT ![task[h].message] = @ + 1] ELSE pins
  /\ Finish(h)
  /\ UNCHANGED <<exists, memberRows, mayPin, joinRequest>>

\* deleteMany takes every row of the message.
DeletePins(h) ==
  /\ Waits(h, "unpin", "write")
  /\ pins' = [pins EXCEPT ![task[h].message] = 0]
  /\ Finish(h)
  /\ UNCHANGED <<exists, memberRows, mayPin, joinRequest>>

-----------------------------------------------------------------------------
Request(h) ==
  \/ \E S \in SUBSET Users : AddMembersToGroupChat(h, S)
  \/ \E u \in Users : RemoveGroupChatMember(h, u) \/ CreateJoinRequest(h, u)
  \/ \E r \in Requests, s \in Statuses : ProcessJoinRequest(h, r, s)
  \/ \E b \in BOOLEAN : UpdateGroupChatPermissions(h, b)
  \/ DeleteGroupChat(h)
  \/ \E u \in Users, op \in {"pin", "unpin"}, m \in Messages :
       PinOrUnpinMessageInGroupChat(h, u, op, m)

Resume(h) ==
  \/ CountBeforeAdd(h) \/ CheckIfMembersInGroupChat(h) \/ InsertMembers(h)
  \/ CountBeforeRemove(h) \/ DeleteMember(h)
  \/ FindJoinRequest(h) \/ UpdateJoinRequest(h)
  \/ \E r \in Requests : InsertJoinRequest(h, r)
  \/ UpdatePermission(h) \/ DeleteGroup(h)
  \/ CheckGroupChatPermission(h) \/ FindPin(h) \/ CountPins(h)
  \/ InsertPin(h) \/ DeletePins(h)

Next ==
  \/ \E h \in Handlers : Request(h) \/ Resume(h)
  \/ \E u \in Users : LeaveGroupChat(u)

Spec == Init /\ [][Next]_vars

-----------------------------------------------------------------------------
(* Properties.                                                              *)

\* How far requests that all count before any of them writes may pass a limit:
\* all but the one that counts last have been counted without.
Unseen == Cardinality(Handlers) - 1

\* addMembersToGroupChat, also behind an approved request: concurrent adds pass
\* the maximum by no more than what they add at once.
MembersBounded == Cardinality(members) <= MaxTotal + Unseen * MaxAtOnce

\* pinOrUnpinMessageInGroupChat: the same of the limit on pinned messages.
PinsBounded == Pinned <= MaxPins + Unseen

\* A request that outlasts its group leaves no row behind: no member, no request
\* to join, no pin.
NothingOutlivesGroup ==
  ~exists => members = {} /\ Pinned = 0 /\ \A r \in Requests : joinRequest[r] = Null

\* "Check: an admin may not leave the group" (group-member.service.ts:164): a
\* group loses its administrator only to a removal, which asked for a role, or
\* with its own end.
AdminGoesByRemoval ==
  [][admins # {} /\ admins' = {} /\ exists' =>
       \E h \in Handlers : Waits(h, "remove", "delete") /\ task[h].user \in admins]_vars
=============================================================================
