----------------------------- MODULE GroupSends -----------------------------
(***************************************************************************)
(* A message to a group chat, from the gateway of the chat-service           *)
(* (messaging.gateway.ts: handleSendGroupMessage, handleEmitNewMessage,      *)
(* handleSendPushNotification) to the push notifications of the             *)
(* notification_service (push-notification.service.ts).  The members and the *)
(* permission of the group change under it (module Groups).                 *)
(*                                                                          *)
(* `task[h]` is one send between two awaits.  From "next" on the client has  *)
(* its answer, and nobody awaits the loop over the receivers:                *)
(*   next       between two receivers                                       *)
(*   enabled    SendNotificationToUser awaits the settings of `to`           *)
(*   found      and then the subscriptions                                   *)
(*   sending    and then web-push, for each of `devices`                     *)
(*   unsettled  a promise that no device is left to settle                   *)
(***************************************************************************)
EXTENDS Naturals, FiniteSets

CONSTANTS
  Users,     \* user ids
  Admin,     \* the user the group was created by, the first ADMIN
  Tokens,    \* the uuids clients draw, one per message; a retry reuses it
  Author,    \* Author[t]: the user whose client drew t
  Devices,   \* endpoints of push subscriptions
  Owner,     \* Owner[d]: the user who subscribes with d
  Choosers,  \* users who turn their notifications on and off in the settings
  Handlers,  \* slots for concurrent sends
  MaxStored, \* bound on the messages stored for one token
  Null       \* no receiver, no send

VARIABLES
  members,          \* users with a row in group_chat_members
  admins,           \* those whose row has the role ADMIN
  maySend,          \* sendMessage of the group's permissions
  uniqueMsgTokens,  \* tokens in the uniqueMsgTokens map
  forgotten,        \* history: tokens that left it at least once
  stored,           \* stored[t]: the messages stored for t
  task,             \* task[h]: the send in slot h, or Null
  enabled,          \* users whose settings say pushNotificationEnabled
  subscribed,       \* devices with a row in push_notification_subscriptions
  expired,          \* devices the push service answers 404 or 410 for
  removing          \* devices a removeSubscription is about to delete

groupVars == <<members, admins, maySend>>
tokenVars == <<uniqueMsgTokens, forgotten>>
pushVars == <<enabled, subscribed, expired, removing>>
vars == <<groupVars, tokenVars, stored, task, pushVars>>

Sending == {"auth", "member", "permission", "storing", "listing"}
Pushing == {"next", "enabled", "found", "sending", "unsettled"}

\* wasMember and wasAllowed are history: whether the author was a member, and
\* could send, at any time since the send arrived; TRUE once it is stored.
Task == [at : Sending \cup Pushing, token : Tokens, queue : SUBSET Users,
         to : Users \cup {Null}, devices : SUBSET Devices,
         wasMember : BOOLEAN, wasAllowed : BOOLEAN]

ASSUME GroupSendsAssumption ==
  /\ Admin \in Users /\ Choosers \subseteq Users
  /\ Author \in [Tokens -> Users] /\ Owner \in [Devices -> Users]
  /\ IsFiniteSet(Handlers) /\ MaxStored \in Nat
  /\ Null \notin Users \cup Task

TypeOK ==
  /\ members \subseteq Users /\ admins \subseteq members /\ maySend \in BOOLEAN
  /\ uniqueMsgTokens \subseteq Tokens /\ forgotten \subseteq Tokens
  /\ stored \in [Tokens -> 0 .. MaxStored]
  /\ task \in [Handlers -> Task \cup {Null}]
  /\ enabled \subseteq Users
  /\ subscribed \subseteq Devices /\ expired \subseteq Devices /\ removing \subseteq Devices

Init ==
  /\ members = Users /\ admins = {Admin} /\ maySend = TRUE
  /\ uniqueMsgTokens = {} /\ forgotten = {}
  /\ stored = [t \in Tokens |-> 0]
  /\ task = [h \in Handlers |-> Null]
  /\ enabled = {} /\ subscribed = {} /\ expired = {} /\ removing = {}

-----------------------------------------------------------------------------
Waits(h, at) == task[h] # Null /\ task[h].at = at
GoesTo(h, at) == task' = [task EXCEPT ![h].at = at]
Finish(h) == task' = [task EXCEPT ![h] = Null]
Sender(h) == Author[task[h].token]

Forget(S) ==
  /\ uniqueMsgTokens' = uniqueMsgTokens \ S
  /\ forgotten' = forgotten \cup (uniqueMsgTokens \cap S)

MayBeAllowed(u) == u \in admins \/ maySend

(* The group and the tokens, which change while sends are suspended.        *)

Note(M, allowed) ==
  task' = [h \in Handlers |->
    IF task[h] = Null THEN Null
    ELSE [task[h] EXCEPT !.wasMember = @ \/ Author[task[h].token] \in M,
                         !.wasAllowed = @ \/ allowed]]

\* Who is added is a MEMBER, also an ADMIN who was removed before.
ChangeMembers(u) ==
  /\ \/ u \in members /\ members' = members \ {u} /\ admins' = admins \ {u}
     \/ u \notin members /\ members' = members \cup {u} /\ UNCHANGED admins
  /\ Note(members', FALSE)
  /\ UNCHANGED <<maySend, tokenVars, stored, pushVars>>

UpdateGroupChatPermissions ==
  /\ maySend' = ~maySend
  /\ Note({}, maySend')
  /\ UNCHANGED <<members, admins, tokenVars, stored, pushVars>>

\* After its hour, or with a device of its user.
DropToken(t) ==
  /\ t \in uniqueMsgTokens
  /\ Forget({t})
  /\ UNCHANGED <<groupVars, stored, task, pushVars>>

-----------------------------------------------------------------------------
(* The send.                                                                *)

\* Bound: MaxStored.
InFlight(t) == Cardinality({h \in Handlers : task[h] # Null /\ task[h].token = t})

HandleSendGroupMessage(h, t) ==
  /\ task[h] = Null /\ stored[t] + InFlight(t) < MaxStored
  /\ task' = [task EXCEPT ![h] =
       [at |-> "auth", token |-> t, queue |-> {}, to |-> Null, devices |-> {},
        wasMember |-> Author[t] \in members, wasAllowed |-> MayBeAllowed(Author[t])]]
  /\ UNCHANGED <<groupVars, tokenVars, stored, pushVars>>

\* Slip: the token is looked up and not stored.
CheckTokenOnly(h) ==
  /\ Waits(h, "auth")
  /\ IF task[h].token \in uniqueMsgTokens THEN Finish(h) ELSE GoesTo(h, "member")
  /\ UNCHANGED <<groupVars, tokenVars, stored, pushVars>>

\* The token is spent before anything says that the send is allowed.
CheckUniqueMessage(h) ==
  /\ Waits(h, "auth")
  /\ IF task[h].token \in uniqueMsgTokens THEN Finish(h) ELSE GoesTo(h, "member")
  /\ uniqueMsgTokens' = uniqueMsgTokens \cup {task[h].token}
  /\ UNCHANGED <<groupVars, forgotten, stored, pushVars>>

\* Slip: an ADMIN alone is asked for the permission.
AskAdminOnly(h) ==
  /\ Waits(h, "member")
  /\ IF Sender(h) \notin members THEN Finish(h)
     ELSE GoesTo(h, IF Sender(h) \in admins THEN "permission" ELSE "storing")
  /\ UNCHANGED <<groupVars, tokenVars, stored, pushVars>>

FindMemberInGroupChat(h) ==
  /\ Waits(h, "member")
  /\ IF Sender(h) \notin members THEN Finish(h)
     ELSE GoesTo(h, IF Sender(h) \in admins THEN "storing" ELSE "permission")
  /\ UNCHANGED <<groupVars, tokenVars, stored, pushVars>>

CheckGroupChatPermission(h) ==
  /\ Waits(h, "permission")
  /\ IF maySend THEN GoesTo(h, "storing") ELSE Finish(h)
  /\ UNCHANGED <<groupVars, tokenVars, stored, pushVars>>

\* Slip: the call is made again although it was answered.
StoreAgain(h) ==
  /\ Waits(h, "storing")
  /\ stored' = [stored EXCEPT ![task[h].token] = @ + 1]
  /\ \/ UNCHANGED task
     \/ task' = [task EXCEPT ![h].at = "listing", ![h].wasMember = TRUE, ![h].wasAllowed = TRUE]
  /\ UNCHANGED <<groupVars, tokenVars, pushVars>>

CreateNewMessage(h) ==
  /\ Waits(h, "storing")
  /\ stored' = [stored EXCEPT ![task[h].token] = @ + 1]
  /\ task' = [task EXCEPT ![h].at = "listing", ![h].wasMember = TRUE, ![h].wasAllowed = TRUE]
  /\ UNCHANGED <<groupVars, tokenVars, pushVars>>

\* The room of the group has the message; the members are read, the loop over
\* them is started, and the client is answered.
HandleEmitNewMessage(h) ==
  /\ Waits(h, "listing")
  /\ task' = [task EXCEPT ![h].at = "next", ![h].queue = members \ {Sender(h)}]
  /\ UNCHANGED <<groupVars, tokenVars, stored, pushVars>>

\* A call to another service fails: the client gets an error.
FailSend(h) ==
  /\ \E at \in Sending : Waits(h, at)
  /\ Finish(h)
  /\ UNCHANGED <<groupVars, tokenVars, stored, pushVars>>

-----------------------------------------------------------------------------
(* The push notifications: sendNotificationToUser.                          *)

NextReceiver(h) ==
  /\ Waits(h, "next")
  /\ \/ task[h].queue = {} /\ Finish(h)
     \/ \E u \in task[h].queue :
          task' = [task EXCEPT ![h].at = "enabled", ![h].to = u, ![h].queue = @ \ {u}]
  /\ UNCHANGED <<groupVars, tokenVars, stored, pushVars>>

Settled(h) == task' = [task EXCEPT ![h].at = "next", ![h].to = Null, ![h].devices = {}]

CheckIfUserEnablePushNotification(h) ==
  /\ Waits(h, "enabled")
  /\ IF task[h].to \in enabled THEN GoesTo(h, "found") ELSE Settled(h)
  /\ UNCHANGED <<groupVars, tokenVars, stored, pushVars>>

\* Without a subscription the loop that would settle the promise does not run.
FindSubscriptionsByUserId(h) ==
  /\ Waits(h, "found")
  /\ LET found == {d \in subscribed : Owner[d] = task[h].to} IN
       task' = [task EXCEPT ![h].at = IF found = {} THEN "unsettled" ELSE "sending",
                            ![h].devices = found]
  /\ UNCHANGED <<groupVars, tokenVars, stored, pushVars>>

Counted(h, d) ==
  IF task[h].devices = {d} THEN Settled(h)
  ELSE task' = [task EXCEPT ![h].devices = @ \ {d}]

\* Slip: only a device that takes the notification is counted.
CountSuccesses(h, d) ==
  /\ Waits(h, "sending") /\ d \in task[h].devices
  /\ IF d \in expired
       THEN d \notin removing /\ removing' = removing \cup {d} /\ UNCHANGED task
       ELSE Counted(h, d) /\ UNCHANGED removing
  /\ UNCHANGED <<groupVars, tokenVars, stored, enabled, subscribed, expired>>

\* An expired subscription is removed, by a call nobody awaits.
DeviceAnswers(h, d) ==
  /\ Waits(h, "sending") /\ d \in task[h].devices
  /\ removing' = IF d \in expired THEN removing \cup {d} ELSE removing
  /\ Counted(h, d)
  /\ UNCHANGED <<groupVars, tokenVars, stored, enabled, subscribed, expired>>

\* Any other error, of web-push or of a read, rejects a promise that nobody
\* handles and ends the chat-service, with every send and every token.
PushFails(h) ==
  /\ \E at \in {"enabled", "found", "sending"} : Waits(h, at)
  /\ task' = [g \in Handlers |-> Null]
  /\ Forget(Tokens)
  /\ UNCHANGED <<groupVars, stored, pushVars>>

-----------------------------------------------------------------------------
(* Subscriptions and settings.                                              *)

AddSubscription(d) ==
  /\ d \notin subscribed \cup expired
  /\ subscribed' = subscribed \cup {d}
  /\ enabled' = enabled \cup {Owner[d]}
  /\ UNCHANGED <<groupVars, tokenVars, stored, task, expired, removing>>

\* One transaction, which without the row fails.  The user's notifications end
\* on every device.
RemoveSubscription(d) ==
  IF d \in subscribed
    THEN subscribed' = subscribed \ {d} /\ enabled' = enabled \ {Owner[d]}
    ELSE UNCHANGED <<subscribed, enabled>>

Unsubscribe(d) ==
  /\ RemoveSubscription(d)
  /\ UNCHANGED <<groupVars, tokenVars, stored, task, expired, removing>>

RemoveExpired(d) ==
  /\ d \in removing /\ removing' = removing \ {d}
  /\ RemoveSubscription(d)
  /\ UNCHANGED <<groupVars, tokenVars, stored, task, expired>>

Expire(d) ==
  /\ d \in subscribed
  /\ expired' = expired \cup {d}
  /\ UNCHANGED <<groupVars, tokenVars, stored, task, enabled, subscribed, removing>>

UpdateUserSettings(u) ==
  /\ enabled' \in {enabled \cup {u}, enabled \ {u}}
  /\ UNCHANGED <<groupVars, tokenVars, stored, task, subscribed, expired, removing>>

-----------------------------------------------------------------------------
Resume(h) ==
  \/ CheckUniqueMessage(h) \/ FindMemberInGroupChat(h) \/ CheckGroupChatPermission(h)
  \/ CreateNewMessage(h) \/ HandleEmitNewMessage(h) \/ FailSend(h)
  \/ NextReceiver(h) \/ CheckIfUserEnablePushNotification(h)
  \/ FindSubscriptionsByUserId(h) \/ \E d \in Devices : DeviceAnswers(h, d)

Next ==
  \/ \E h \in Handlers :
       \/ \E t \in Tokens : HandleSendGroupMessage(h, t)
       \/ Resume(h) \/ PushFails(h)
  \/ \E u \in Users : ChangeMembers(u)
  \/ \E u \in Choosers : UpdateUserSettings(u)
  \/ UpdateGroupChatPermissions
  \/ \E t \in Tokens : DropToken(t)
  \/ \E d \in Devices : AddSubscription(d) \/ Unsubscribe(d) \/ RemoveExpired(d) \/ Expire(d)

Spec == Init /\ [][Next]_vars

\* Every gRPC call is answered, the push service answers for each device, and the
\* event loop resumes its handlers.
Fairness == \A h \in Handlers : WF_vars(Resume(h))

FairSpec == Spec /\ Fairness

-----------------------------------------------------------------------------
(* Properties.                                                              *)

\* A send that got past its token and has stored nothing yet.
Claims(t) ==
  Cardinality({h \in Handlers : task[h] # Null /\ task[h].token = t
                                /\ task[h].at \in {"member", "permission", "storing"}})

\* checkUniqueMessage in handleSendGroupMessage: as long as the gateway never
\* dropped its token, at most one send of a message is past the check or stored,
\* however often the client retries.
StoredOnce == \A t \in Tokens \ forgotten : stored[t] + Claims(t) <= 1

\* checkCanSendMessageInGroupChat reads the row and the permission one after the
\* other, and both may change: still whoever was out of the group, or was not
\* allowed to send, ever since the send arrived, stores nothing.
OnlyAllowedStore ==
  \A h \in Handlers : Waits(h, "storing") => task[h].wasMember /\ task[h].wasAllowed

\* The loop over the receivers ends, however devices expire and subscriptions
\* and settings change meanwhile, unless it meets a user with notifications
\* enabled and no subscription left: that promise never settles.
PushEnds ==
  \A h \in Handlers :
    (\E at \in Pushing : Waits(h, at)) ~> (task[h] = Null \/ Waits(h, "unsettled"))
=============================================================================
