------------------------------- MODULE Friends ------------------------------
(***************************************************************************)
(* Friend requests, friends and blocks of the user-auth-service              *)
(* (friend-request.service.ts, friend.service.ts, block-user.service.ts,     *)
(* user-settings.service.ts), and the check the chat-service makes with them *)
(* before a direct message (messaging.gateway.ts).                           *)
(*                                                                          *)
(* None of the three tables has a unique index.  `task[h]` is the request in *)
(* slot h between two statements; no two statements share a transaction, the *)
(* two of an accept neither: its callback does not use the transaction.      *)
(***************************************************************************)
EXTENDS Naturals, FiniteSets

CONSTANTS
  Users,     \* user ids
  Requests,  \* the ids friend_requests may give
  Handlers,  \* slots for concurrent requests
  Removed,   \* an id whose row was deleted
  Null       \* an id not given yet, no request

VARIABLES
  request,      \* request[r]: a row of friend_requests, Removed or Null
  friends,      \* the pairs with a row in friends
  blocks,       \* <<blocker, blocked>>, the rows of blocked_users
  friendsOnly,  \* users whose settings say onlyReceiveFriendMessage
  task          \* task[h]: the request in slot h, or Null

vars == <<request, friends, blocks, friendsOnly, task>>

Statuses == {"PENDING", "ACCEPTED", "REJECTED"}
Couples == {p \in Users \X Users : p[1] # p[2]}
FriendRequest == {r \in [sender : Users, recipient : Users, status : Statuses] :
                    r.sender # r.recipient}

\* held is history: the blocks between the two that stand since the request came.
Task ==
  [op : {"send"}, at : {"block", "existing", "write"}, from : Users, to : Users,
   row : Requests \cup {Null}, held : SUBSET Couples]
  \cup [op : {"accept"}, at : {"befriend"}, from : Users, to : Users]
  \cup [op : {"remove"}, at : {"requests"}, from : Users, to : Users]
  \cup [op : {"unblock"}, at : {"delete"}, from : Users, to : Users]
  \cup [op : {"message"}, at : {"settings", "friend", "block", "asFriend", "allowed"},
        from : Users, to : Users, held : SUBSET Couples]

ASSUME FriendsAssumption ==
  /\ IsFiniteSet(Requests) /\ IsFiniteSet(Handlers)
  /\ Removed \notin FriendRequest /\ Null \notin FriendRequest \cup Task \cup Requests \cup {Removed}

TypeOK ==
  /\ request \in [Requests -> FriendRequest \cup {Removed, Null}]
  /\ friends \subseteq {{p[1], p[2]} : p \in Couples}
  /\ blocks \subseteq Couples
  /\ friendsOnly \subseteq Users
  /\ task \in [Handlers -> Task \cup {Null}]

Init ==
  /\ request = [r \in Requests |-> Null]
  /\ friends = {} /\ blocks = {} /\ friendsOnly = {}
  /\ task = [h \in Handlers |-> Null]

-----------------------------------------------------------------------------
Waits(h, op, at) == task[h] # Null /\ task[h].op = op /\ task[h].at = at

tables == <<request, friends, blocks, friendsOnly>>

Begin(h, t) == task[h] = Null /\ task' = [task EXCEPT ![h] = t]
GoesTo(h, at) == task' = [task EXCEPT ![h].at = at]
Finish(h) == task' = [task EXCEPT ![h] = Null]

\* A read that lets the request go on, or refuses it.
ReadThen(h, ok, at) ==
  /\ IF ok THEN GoesTo(h, at) ELSE Finish(h)
  /\ UNCHANGED tables

Live(r) == request[r] \notin {Removed, Null}
Between(r, u, v) == Live(r) /\ {request[r].sender, request[r].recipient} = {u, v}

\* Slip: the request is looked up in one direction.
RequestsSent(u, v) ==
  {r \in Requests : Live(r) /\ request[r].sender = u /\ request[r].recipient = v}

RequestsBetween(u, v) == {r \in Requests : Between(r, u, v)}

\* Slip: only the blocks of the one who asks are looked up.
BlocksBy(u, v) == blocks \cap {<<u, v>>}

BlocksBetween(u, v) == blocks \cap {<<u, v>>, <<v, u>>}

-----------------------------------------------------------------------------
(* Friend requests: sendFriendRequest, friendRequestAction.                 *)

\* Slip: a request to oneself is not refused.
SendToAnyone(h, u, v) ==
  /\ Begin(h, [op |-> "send", at |-> "block", from |-> u, to |-> v, row |-> Null,
               held |-> blocks \cap {<<u, v>>, <<v, u>>}])
  /\ UNCHANGED tables

SendFriendRequest(h, u, v) ==
  /\ u # v
  /\ Begin(h, [op |-> "send", at |-> "block", from |-> u, to |-> v, row |-> Null,
               held |-> blocks \cap {<<u, v>>, <<v, u>>}])
  /\ UNCHANGED tables

\* findFirst has no order: any row of the two decides, and each refuses.
CheckBlockedUser(h) ==
  \/ /\ Waits(h, "send", "block")
     /\ ReadThen(h, BlocksBetween(task[h].from, task[h].to) = {}, "existing")
  \/ /\ Waits(h, "message", "block")
     /\ ReadThen(h, BlocksBetween(task[h].from, task[h].to) = {}, "allowed")

FindSentFriendRequest(h) ==
  /\ Waits(h, "send", "existing")
  /\ LET found == RequestsBetween(task[h].from, task[h].to) IN
       \/ found = {} /\ GoesTo(h, "write")
       \/ \E r \in found :
            IF request[r].status = "REJECTED"
              THEN task' = [task EXCEPT ![h].at = "write", ![h].row = r]
              ELSE Finish(h)
  /\ UNCHANGED tables

CreateFriendRequest(h, r) ==
  /\ Waits(h, "send", "write") /\ task[h].row = Null
  /\ request[r] = Null
  /\ request' = [request EXCEPT ![r] =
       [sender |-> task[h].from, recipient |-> task[h].to, status |-> "PENDING"]]
  /\ Finish(h)
  /\ UNCHANGED <<friends, blocks, friendsOnly>>

\* The rejected row is asked again, in the direction of this request, whatever
\* became of it since it was read; without the row the update fails.
UpdateFriendRequest(h) ==
  /\ Waits(h, "send", "write") /\ task[h].row # Null
  /\ request' = IF Live(task[h].row)
                  THEN [request EXCEPT ![task[h].row] =
                         [sender |-> task[h].from, recipient |-> task[h].to,
                          status |-> "PENDING"]]
                  ELSE request
  /\ Finish(h)
  /\ UNCHANGED <<friends, blocks, friendsOnly>>

\* The status is overwritten, whatever it was.
AcceptFriendRequest(h, r) ==
  /\ Live(r)
  /\ request' = [request EXCEPT ![r].status = "ACCEPTED"]
  /\ Begin(h, [op |-> "accept", at |-> "befriend", from |-> request[r].sender,
               to |-> request[r].recipient])
  /\ UNCHANGED <<friends, blocks, friendsOnly>>

\* When this fails the request stays accepted and the two are no friends.
CreateFriend(h) ==
  /\ Waits(h, "accept", "befriend")
  /\ friends' \in {friends, friends \cup {{task[h].from, task[h].to}}}
  /\ Finish(h)
  /\ UNCHANGED <<request, blocks, friendsOnly>>

RejectFriendRequest(r) ==
  /\ Live(r)
  /\ request' = [request EXCEPT ![r].status = "REJECTED"]
  /\ UNCHANGED <<friends, blocks, friendsOnly, task>>

-----------------------------------------------------------------------------
(* Friends, blocks and settings.                                            *)

RemoveFriend(h, u, v) ==
  /\ u # v
  /\ friends' = friends \ {{u, v}}
  /\ Begin(h, [op |-> "remove", at |-> "requests", from |-> u, to |-> v])
  /\ UNCHANGED <<request, blocks, friendsOnly>>

\* When this fails the requests stay, and with them what IsFriend reads.
DeleteFriendRequests(h) ==
  /\ Waits(h, "remove", "requests")
  /\ \/ request' = [r \in Requests |->
            IF Between(r, task[h].from, task[h].to) THEN Removed ELSE request[r]]
     \/ UNCHANGED request
  /\ Finish(h)
  /\ UNCHANGED <<friends, blocks, friendsOnly>>

BlockUser(u, v) ==
  /\ u # v
  /\ blocks' = blocks \cup {<<u, v>>}
  /\ UNCHANGED <<request, friends, friendsOnly, task>>

\* When each blocked the other, the row found may be the other's, which refuses.
UnblockUser(h, u, v) ==
  /\ u # v /\ <<u, v>> \in blocks
  /\ Begin(h, [op |-> "unblock", at |-> "delete", from |-> u, to |-> v])
  /\ UNCHANGED tables

Forget(h, gone) ==
  task' = [g \in Handlers |->
    IF g = h THEN Null
    ELSE IF task[g] # Null /\ task[g].op \in {"send", "message"}
      THEN [task[g] EXCEPT !.held = @ \ gone]
    ELSE task[g]]

\* Slip: the blocks of both are deleted.
DeleteBlocksBetween(h) ==
  /\ Waits(h, "unblock", "delete")
  /\ LET gone == BlocksBetween(task[h].from, task[h].to) IN
       blocks' = blocks \ gone /\ Forget(h, gone)
  /\ UNCHANGED <<request, friends, friendsOnly>>

DeleteBlock(h) ==
  /\ Waits(h, "unblock", "delete")
  /\ LET gone == {<<task[h].from, task[h].to>>} IN
       blocks' = blocks \ gone /\ Forget(h, gone)
  /\ UNCHANGED <<request, friends, friendsOnly>>

UpdateUserSettings(u) ==
  /\ friendsOnly' \in {friendsOnly \cup {u}, friendsOnly \ {u}}
  /\ UNCHANGED <<request, friends, blocks, task>>

-----------------------------------------------------------------------------
(* checkCanSendMessageInDirectChat.                                         *)

CheckCanSend(h, u, v) ==
  /\ u # v
  /\ Begin(h, [op |-> "message", at |-> "settings", from |-> u, to |-> v,
               held |-> blocks \cap {<<u, v>>, <<v, u>>}])
  /\ UNCHANGED tables

ReadSettings(h) ==
  /\ Waits(h, "message", "settings")
  /\ GoesTo(h, IF task[h].to \in friendsOnly THEN "friend" ELSE "block")
  /\ UNCHANGED tables

\* A friend is whoever has a request with the receiver, in any state; blocks are
\* not asked for.
IsFriend(h) ==
  /\ Waits(h, "message", "friend")
  /\ ReadThen(h, \E r \in Requests : Between(r, task[h].from, task[h].to), "asFriend")

\* The message goes on its way (module Messaging).
Answer(h) ==
  /\ Waits(h, "message", "asFriend") \/ Waits(h, "message", "allowed")
  /\ Finish(h)
  /\ UNCHANGED tables

-----------------------------------------------------------------------------
Resume(h) ==
  \/ CheckBlockedUser(h) \/ FindSentFriendRequest(h) \/ UpdateFriendRequest(h)
  \/ CreateFriend(h) \/ DeleteFriendRequests(h) \/ DeleteBlock(h)
  \/ ReadSettings(h) \/ IsFriend(h) \/ Answer(h)
  \/ \E r \in Requests : CreateFriendRequest(h, r)

Next ==
  \/ \E h \in Handlers :
       \/ \E u, v \in Users : SendFriendRequest(h, u, v) \/ RemoveFriend(h, u, v)
                              \/ UnblockUser(h, u, v) \/ CheckCanSend(h, u, v)
       \/ \E r \in Requests : AcceptFriendRequest(h, r)
       \/ Resume(h)
  \/ \E r \in Requests : RejectFriendRequest(r)
  \/ \E u, v \in Users : BlockUser(u, v)
  \/ \E u \in Users : UpdateUserSettings(u)

Spec == Init /\ [][Next]_vars

-----------------------------------------------------------------------------
(* Properties.                                                              *)

\* sendFriendRequest: requests that cross each find none and all are created,
\* but no pair ever has more rows than there were requests at once, in whatever
\* direction, however often they reject, remove and ask again.
RequestsBounded ==
  \A p \in Couples :
    Cardinality({r \in Requests : Between(r, p[1], p[2])}) <= Cardinality(Handlers)

\* checkBlockedUser, before a request and before a message: a block of either
\* that stands from before the request came refuses it, also when the other
\* block of the two comes or goes meanwhile.  Only a receiver who takes messages
\* from friends alone is written to past a block.
BlockedIsRefused ==
  \A h \in Handlers :
    Waits(h, "send", "existing") \/ Waits(h, "send", "write") \/ Waits(h, "message", "allowed")
      => task[h].held = {}

\* unblockUser: a block ends only when the one who set it asked for that, also
\* when both blocked each other and the lookup may find either row.
OnlyBlockerUnblocks ==
  [][\A b \in blocks \ blocks' :
       \E h \in Handlers : Waits(h, "unblock", "delete") /\ <<task[h].from, task[h].to>> = b]_vars
=============================================================================
