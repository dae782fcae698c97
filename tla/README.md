# ThunderChat server: TLA+ models and proofs

This directory holds TLA+ specifications of the ThunderChat microservices, TLC
configurations that model-check them and TLAPS proofs about them. Every
definition is translated from the TypeScript source; `PROJECT.json` maps each
definition to the lines it stands for.

- [The system](#the-system): components, state, operations, what is hard
- [The models](#the-models): which module models what, and how
- [The runs](#the-runs): what each configuration checks, its bounds, fairness
- [The proofs](#the-proofs)
- [Where the code and its comments disagree](#where-the-code-and-its-comments-disagree)
- [What is not modelled](#what-is-not-modelled)
- [Plan](#plan)

## The system

Ten NestJS services share one Postgres schema (Prisma) and call each other by
gRPC. Two of them keep sockets open to the clients and keep their working state
in memory; the others are handlers over tables. Every service is one Node
process: a handler runs alone until it awaits, and anything may happen between
an await and what follows it. That is where nearly all the hazards are.

| component | state | operations | talks to |
|---|---|---|---|
| **call-service**: gateway, sessions, registry | `activeCallSessions`, `usersCalling`, `connectedClients` maps, one timer per call, `callSession` rows | connect, disconnect, call_request, accept, reject, hangup, timeout, SDP and ICE relay | auth-service, Postgres, client sockets |
| **chat-service**: gateway, registry, tokens, typing | `connectedClients`, `userChattingConnections`, `uniqueMsgTokens` and its timers, typing timers, socket rooms | connect, recover, disconnect, send direct, send group, seen, typing, join rooms, broadcasts | auth, user, friend, block, conversation, notification services |
| **conversation-service**: direct chats, messages | `direct_chats`, `messages` | find or create a chat, create, update, recall, delete, page | search-service (index), chat-service (notices) |
| conversation-service: groups | `group_chats`, `group_chat_members`, join requests, invite codes | create, update, delete, add, remove, leave, request, process, join by code | chat-service |
| conversation-service: pins | `pinned_messages`, `pinned_chats` | pin, unpin, toggle, at most five | chat-service |
| **user-auth-service**: friends, blocks | `friend_requests`, `friends`, `blocked_users` | send, accept, reject, remove, block, unblock | chat-service |
| user-auth-service: users, auth, settings, reports | `users`, `profiles`, `user_settings`, `violation_reports`, `reported_messages` | register, log in (which looks bans up), log out, report | chat-service registry, S3 |
| **search-service**: index worker, mappings | Elasticsearch documents, the encryptor in memory, the `message_mappings` row that keeps its key | sync create, update, delete, bulk delete; search | conversation and user services, Elasticsearch |
| **notification-service** | `push_notification_subscriptions` | subscribe, unsubscribe, send | web push |
| **admin-service** | `violation_actions`, the status of reports | set a status, ban or warn, listings, statistics, lock | S3, Postgres |
| media-service | S3 objects | upload, thumbnails | S3 |

What makes each correct:

- *Calls.* One accept wins; a call ends once and stays ended; both parties learn
  how a call turned out; a call that was answered does not time out; a row says
  ENDED only of a call that ends. Hard: every ending (reject, hangup, timeout,
  disconnect) awaits a statement between looking the session up and deleting it,
  several may be in that window at once, an accept may slip in, statements of one
  call commit in any order, the timer is never cleared, and an unhandled
  rejection ends the process.
- *Direct messages.* A retried send stores one message; a chat is introduced once;
  a chat's last message is one of its own; every accepted send ends; a connected
  client is reachable. Hard: one send makes up to nine service calls and nothing
  is undone when one fails; two sends create the same chat; a disconnect drops the
  user's tokens under a send in flight; a chat is deleted under a send.
- *Group messages.* A message is stored once however often it is retried, and only
  for somebody who was a member and allowed to send; the loop over the receivers ends.
  Hard: token, membership, permission and members are read by five calls, and all may
  change between them; the push notifications run on after the answer, unawaited.
- *Groups.* Membership and pins keep to their limits; a group has an administrator; a
  request to join is decided once; nothing outlives the group. Hard: roles, limits
  and rows are read by statements of their own before the write they guard.
- *Friends.* A pair are friends or not, whoever asked; a block stops requests and
  messages. Hard: both ask at once, decisions are taken twice, no table has a unique
  index, lookups take any row they find, deletions are two statements.
- *Search index.* What is stored can be found, what is recalled cannot, also across
  restarts. Hard: events overtake each other twice on their way, and the key that
  everything is encrypted with is drawn on first use, across awaits.
- *Moderation.* One act per report; a ban lasts; what a report says of a message
  stands; S3 agrees with the rows. Hard: transactions of two administrators, uploads
  that no transaction rolls back.
- *Notifications.* A send settles. Hard: a promise that settles by counting devices.

## The models

### Calls

| module | what it is |
|---|---|
| `CallSignaling` | the call-service, with its properties |
| `CallLifecycle` | the abstract promise about one call: rings, is answered at most once, is over for good, its answer is announced once |
| `CallRefinement` | the refinement mapping and the properties `ImplementsLifecycle`, `KeepsPromises` |
| `MCCallSignaling` | values of the constants and symmetry for TLC |
| `CallSignaling_proofs`, `CallRefinement_proofs` | TLAPS proofs |

`CallSignaling` takes the code up to an await as one action. `task[x]` is the
handler suspended in slot `x`: what it does (`op`), what it waits for (`at`) and
the session and users it holds, as read *before* the await, which is how stale
reads enter the model. A Postgres statement is a step of its own (`DbSettles`),
apart from the resumption of the handler that sent it, because the two can be
separated by other handlers and because two statements go through a pool and
commit in either order. A failed statement is logged and its handler goes on
(call.service.ts:46), so `DbSettles` either writes the row or does not.

The timer callback and the disconnect handler run once per call and per socket,
so they use the call and the socket as their slot and only client events share
`Handlers`. `session[c]` is the JavaScript object, which handlers keep after the
map `activeCallSessions` has forgotten it; the map is the set of its keys, with
`older` giving its insertion order, which decides which call
`findSessionByUserId` finds. `emitted[c]` records who was told what about `c`: it
holds a notice even when the user has no socket left, as `announceCallStatus`
does nothing then and the properties are about what the server undertakes.

`onHangup` calls `endCall` without awaiting it, after an auth await: when the call
ended meanwhile its rejection is nobody's to handle, and Node ends the process
(`UnhandledRejection`). `Restart` brings up an empty process.

No handler asks who sends an accept, a reject or a hangup: whoever is online may send
one about any session (`AnyoneOnline`), and a hangup of a third user counts as the
callee's, since its peer is the caller. The hangup whose `endCall` is rejected still
tells the peer before the process ends. Handlers that find no session throw before
changing anything, and a client may always not send. `session` ids are fresh uuids.

### Direct messages

| module | what it is |
|---|---|
| `Messaging` | the chat-service's connections, tokens and direct sends over the tables they use |
| `MessageOnce` | the abstract promise about one token: at most one accepted send while it is remembered, each stores at most one message, each message is announced at most once, nothing is put off for ever |
| `MessagingRefinement` | the refinement mapping and the properties `StoresAtMostOnce`, `SendsEnd` |
| `MCMessaging` | values of the constants and symmetry for TLC |
| `Messaging_proofs` | TLAPS proofs |

A send is a chain of gRPC calls. A step of `Messaging` is one call taking effect
together with the handler's code up to its next await. That merges the commit of
a statement with the resumption of its handler, which is sound here: between two
awaits a send changes memory in only two places, the token check and the emission,
and both have a step of their own (`CheckUniqueMessage`, `HandleEmitNewMessage`,
the latter apart from the update that precedes it). Auth, settings, friendship and
blocks are answers of other services and come before any state changes:
`CannotSend` refuses for any of them.

`deleteDirectChat` is one transaction but not one step: at read committed the
statement that deletes the messages sees the messages of its own moment
(`DeleteMessages`), and the chat row goes later (`DeleteDirectChat`).

A push notification is a promise nobody awaits; its failure ends the process
(`PushFails`), and it may also never settle. The process comes back empty in the
same step, as nothing of this component happens while it is down; a call that a
lost handler had sent has taken effect before or never does.

`uniqueMsgTokens` is keyed by token alone, since a uuid belongs to the user whose
client drew it. A recovering client (one with a `messageOffset` and a
`directChatId` in its handshake) always has its connection dropped, because the
reply to `GetNewerDirectMessages` lacks the field the caller reads.

### Group messages and push notifications

`GroupSends` (constants in `MCGroupSends`, proofs in `GroupSends_proofs`) is
`handleSendGroupMessage` from the gateway to the push service. `task[h]` is one send;
its `at` names the call it waits for. The first five are the send the client waits for,
in the code's order: auth, then the token (`CheckUniqueMessage`, spent before anything
says that the send is allowed), the member row (`FindMemberInGroupChat`), the permission
for everybody but an ADMIN (`CheckGroupChatPermission`), the insert
(`CreateNewMessage`), the list of members (`HandleEmitNewMessage`). From there the
client has its answer, and the slot goes on as the loop over the receivers that nobody
awaits: settings, subscriptions, then an answer of web-push per device, counted towards
the one promise. A receiver with notifications on and no subscription left is never
counted (`unsettled`), and any error but "expired" is an unhandled rejection that ends
the chat-service with all sends and tokens (`PushFails`). Members, permission,
subscriptions and settings change at any time.

`admins` holds the user of `Admin` until he is removed, and nobody after: an add inserts
a MEMBER, and no statement gives the role again (see `Groups`). `wasMember`, `wasAllowed` and
`forgotten` are history variables for `OnlyAllowedStore` and `StoredOnce`.

### Groups

`Groups` (constants in `MCGroups`, proofs in `Groups_proofs`) is one group chat:
`members`, `admins` and `mayPin` are its rows, `joinRequest` and `pins` those that refer
to it. A request is `task[h]` between two statements: adding counts (`CountBeforeAdd`),
looks for members among the new ones (`CheckIfMembersInGroupChat`), then inserts
(`InsertMembers`); a pin reads the permission, the pin and the number of pins, then
inserts. The unique index on (group, user) and the foreign keys are what holds the tables
together, so that they are in the writes: a duplicate or a group that is gone makes an
insert fail as a whole. `processJoinRequest` writes its decision and then goes on as an
add of one. `GroupChatRoleGuard` reads the sender's own row in the group that the query
names, or the body when the query names none (group-chat-role.guard.ts:40, :57). Where the
handler takes its group from there too, the sender is an ADMIN of this group, and as any
user may be the sender the model asks that there is one (`admins # {}`). An add and a
change of permissions take their group from the body, a decision on a request to join
takes it from the request's row (join-requests.service.ts:82): there the guard may have
asked about another group, one the sender does administer (`GuardOfSomeGroup`, with the
constant `OtherGroups`). `LeaveGroupChat` is one step, since the creator it looks for
never changes. `DeleteGroup` is the whole transaction, which fails when a row is inserted
into the group under it.

### Friends

`Friends` (symmetries in `MCFriends`, proofs in `Friends_proofs`): `request[r]` is a row
of `friend_requests`, `friends` the pairs with a row, in either direction, `blocks` the
rows of `blocked_users`. A request to the service is `task[h]` between two statements;
those with one statement are one action (`RejectFriendRequest`, `BlockUser`). The second
statement of an accept and of a removal may fail and leaves what the first one did
(`CreateFriend`, `DeleteFriendRequests`). Lookups
without an order take any row that matches: `CheckBlockedUser` and
`FindSentFriendRequest` choose one. `UnblockUser` finds one of the two blocks of a pair
and refuses when it is the other's, so that only its own goes on to `DeleteBlock`.
`CheckCanSend` to `Answer` is the check of the chat-service before a direct message, the
part that `Messaging` takes as an answer. `held` is history: the blocks that have stood
ever since the request came.

### Search

`SearchIndex` (constants in `MCSearchIndex`, proofs in `SearchIndex_proofs`): `row`, `doc`
and `mapping` are what Postgres, Elasticsearch and `message_mappings` hold; `encryptor` is
the search-service's memory. `job[j]` is one sync from the call in the
conversation-service that nobody awaits, through the encryptor (`GetESMessageEncryptor`
... `InitESMessageEncryptor`), the save of the mappings (`FindMappings`,
`UpdateMessageMappings`, `CreateMessageMappings`) and the worker (`Connect`,
`WriteDocument`, `RequestFails`, `RetryAsyncRequest`), or one search. Nothing orders two
jobs. A key stands for a secret key with its dek and the mappings under it; `text` says
whether a document holds the words or, as after `UpdateMsg`, the row's ciphertext. `Crash`
empties the memory of the search-service and loses every job it has. A sync that is not
answered, or answered with an error, rejects a promise in the conversation-service that
nobody handles (message.service.ts:116), and ends that process too (`Fails`): recalls
under way, searches waiting for rows and syncs it had not sent are lost with it. Only when
no sync was waiting for an answer (`Asking`) does a recall live through a crash. A recall
and a bulk delete send their sync whether their transaction commits or fails, so the rows
change or do not in the same step. `hidden` is history: what was already recalled or gone
when a search began.

### Moderation

`Moderation` (constants in `MCModeration`, proofs in `Moderation_proofs`): `report`,
`actions`, `exists`, `removed` and `media` are committed rows, `files` and `images` what
S3 holds. `filing[d]` is a `createViolationReport`: an image, then each message with its
media, in one transaction that shows nothing before `ReportCreated`. The image is first in
S3 (`sent`) and then, when the reply has come, on the list of uploads (`listed`). Evidence
of a media message puts whatever URL the client names on the list, that of any media
message. `FilingFails` is anything that throws, `RollbackUploadedFiles` the deletion of
what is on the list, `ServiceDies` the end of the process, which rolls back rows and
nothing else. `lost` is history: the images in S3 of which no list knew. Left out is
evidence given as a path on the server's disk, which is uploaded for real and raced
against a timer of 60 seconds (user-report.service.ts:183). `ruling[a]` is an
administrator's request: a status is read and then written
(`UpdateViolationReportStatus`); a ban reads (`ReadForBan`), writes (`WriteBan`, which
holds row locks: `Locked`, `LockedMessages`) and commits (`CommitBan`). `Banned` is what a
login looks up. The time of an act is any of `0..MaxTime`: two acts may bear the same
time, and a later one an earlier time. The deletes of the admin-service never reach S3,
because it awaits an Observable that nobody subscribes to, so no action of a ban changes
`files`.

## The runs

All bounds are the sizes of the sets in the `.cfg` files and the constants named here.
`MaxDeletes` and `IdLeft` (a send starts only while there is a message id for it) bound
`Messaging`; `MaxStored` the messages stored for one token in `GroupSends`, whose
`Choosers` are the users who change their settings; `MaxRetries` (the code's
`MAX_RETRIES`, 3 there), `MaxFaults` (requests Elasticsearch fails) and `MaxLosses`
(crashes and failed connections) bound `SearchIndex`; `MaxEvidence` the messages of a
report and `MaxTime` the times an act may bear in `Moderation` (with 1, two acts are in
order, in disorder or equal); `MaxTotal`,
`MaxAtOnce` and `MaxPins` in `Groups` are the code's own limits, made small. Nothing
else bounds the models: a socket connects once, an id is used once.

| run | configuration | shows |
|---|---|---|
| `call_race` | 1 call, 2 client events at once beside timer and disconnects, failing statements, fairness | `TypeOK`, `AcceptedOnce`, `RingsFirst`, `NoTimeoutOnceAccepted`, `ImplementsLifecycle`, `CallerLearns`, `KeepsPromises` |
| `call_pair` | 2 calls between the same two users, 1 client event at a time | `EndedRowIsEnding`, `NoSilentEnd`, `EndedForGood` |
| `chat_retry` | 1 message, 2 devices of its author (one returning), 2 sends at once, failing calls | `TypeOK`, `StoredOnce`, `OpenIsRegistered`, `StoresAtMostOnce` |
| `chat_pair` | 2 users who write to each other, 2 sends at once, a chat deleted | `IntroducedOnce`, `ChatShowsMessages` |
| `chat_live` | 1 message and its retries, a chat deleted, fairness | `SendsEnd` |
| `chat_delete` | 2 messages, a chat deleted | a counterexample to `ChatTakesMessages`, see below |
| `group_sends` | 1 message and its retries in 2 sends at once, its author the ADMIN until removed, a receiver with 2 devices, fairness | `TypeOK`, `StoredOnce`, `OnlyAllowedStore`, `PushEnds` |
| `group_limits` | 5 users, room for 2, 2 requests at once, 1 join request, 2 messages and 1 pin, administrators of other groups | `TypeOK`, `MembersBounded`, `PinsBounded`, `NothingOutlivesGroup`, `AdminGoesByRemoval` |
| `friends_blocks` | 2 users, 3 friend requests, 2 requests at once | `TypeOK`, `RequestsBounded`, `BlockedIsRefused`, `OnlyBlockerUnblocks` |
| `search_index` | 1 message, 2 jobs at once, 2 keys, 1 fault, 1 loss, fairness | `TypeOK`, `RecalledNotShown`, `OneKey`, `StoredIsIndexed` |
| `moderation_reports` | 2 reports, 1 filing beside 2 administrators, 1 message with media | `TypeOK`, `ActedOnce`, `EvidenceStands`, `NoStrayImages`, `BansHold`, `HiddenWithAct` |
| `moderation_files` | 1 report that fails | a counterexample to `ShownMediaHasFile`, see below |

Why the bounds are enough. The hazards of a call are races of two events about one session
with its timer, with the disconnect of either party and with statements in flight: two
handler slots beside the timer's and the sockets' own give up to five suspended handlers
at a time. A third concurrent event meets the same states as the second. A third user, who
may send as well, adds only events that come while both parties are away. Two calls matter
where a handler must choose between sessions (a disconnect ends the older) or where one
may disturb another, which `call_pair` covers. A race of sends is between two of them,
about one token (`chat_retry`, `group_sends`), one chat in either direction (`chat_pair`),
or one deletion; three chat ids let a chat be deleted and created again. `StoredOnce` is
checked with two message ids, or two stored messages, so that a duplicate has room to
appear. `MembersBounded` and `PinsBounded` say how far two concurrent requests pass a
limit; five users leave room to pass the maximum and, if a check were missing, the bound
too. Three friend requests are one more than two concurrent senders may create. A document
depends on the jobs about its own message only, and two of them are enough for one to
overtake the other, or for a sync to run under a search; the second key is there to be
drawn by a service that should have used the first. Two reports about one user give two
acts, of which the later must decide.

Symmetry is used for interchangeable model values that no definition orders, in runs
without liveness and never for a constant a `.cfg` gives a role to.

Fairness. `CallSignaling!Fairness`: Postgres settles every statement (a failure is
an answer too), the event loop resumes a handler whose promise settled and runs a
timer that elapsed. `Messaging!Fairness`: every gRPC call of a send is answered
and its handler resumes. `GroupSends!Fairness`: the same of a group send, and the push
service answers for each device; a promise without a device gets no answer from
anybody, and none is assumed. `SearchIndex!Fairness`: every request of a job is answered
or fails, and the event loop gets to each answer. All of it is weak fairness per
handler. Nothing is assumed of clients, sockets, the auth call of a connection, logouts,
deletions, crashes or the outcome of a call: an unanswered call must end by the timer
alone.

Deadlock is checked in every run but `group_limits` and the two of `Moderation`, where
the ids of requests and reports run out and nothing else may be left to do. In
`CallSignaling`, `Quiet` is the idle event loop, enabled only when no handler waits for
anything owed to it.

## The proofs

Every component's module has a module of proofs, and every safety property a run
checks is a theorem there. A run shows it on the few users, sockets and
messages of its `.cfg`; the theorem says it of all values of the constants. The proofs
use the `ASSUME` of their module and nothing else: that `Null` is none of the values it
stands beside, that authors and sockets name users, that kinds of slots do not overlap,
and, where something is counted, that the slots for concurrent requests (and in
`Groups` the users, in `Friends` the ids of requests) are finitely many.

| theorem | states | of the code |
|---|---|---|
| *`CallSignaling_proofs`* | | |
| `TypeCorrect` | `[]TypeOK` | |
| `OneAcceptWins` | `[]AcceptedOnce` | one `acceptCall` of a call is in flight at most, none once ACCEPTED was announced |
| `EndedRowsLeave` | `[]EndedRowIsEnding` | a row reads ENDED only when its call is gone or about to go |
| `RingingComesFirst` | `[]RingsFirst` | nothing is announced of a call before its ring |
| `NoCallComesBack` | `EndedForGood` | |
| `AcceptedCallsDoNotTimeOut` | `NoTimeoutOnceAccepted` | although the timer is never cleared |
| `NobodyIsLeftInACall` | `NoSilentEnd` | |
| *`CallRefinement_proofs`* | | |
| `GatewayImplementsLifecycle` | `ImplementsLifecycle` | the safety of the whole lifecycle at once |
| *`Messaging_proofs`* | | |
| `TypeCorrect` | `[]TypeOK` | |
| `ChatsAreIntroducedOnce` | `[]IntroducedOnce` | by the send that created them |
| `AnnouncedChatsShow` | `[]ChatShowsMessages` | a chat with an announced message has a last message, one of its own |
| `OpenSocketsAreRegistered` | `[]OpenIsRegistered` | |
| `RetriesStoreOnce` | `[]StoredOnce` | |
| `MessagingStoresOnce` | `StoresAtMostOnce` | the safety of `MessageOnce` |
| *`GroupSends_proofs`* | | |
| `TypeCorrect` | `[]TypeOK` | |
| `RetriesStoreOnce` | `[]StoredOnce` | |
| `StrangersStoreNothing` | `[]OnlyAllowedStore` | who stores was a member, and allowed, at some time since the send came |
| *`Groups_proofs`* | | |
| `TypeCorrect` | `[]TypeOK` | |
| `ConcurrentAddsAreBounded` | `[]MembersBounded` | n requests at once pass the maximum by what n - 1 of them may add |
| `ConcurrentPinsAreBounded` | `[]PinsBounded` | and the limit on pins by n - 1 |
| `RowsGoWithTheGroup` | `[]NothingOutlivesGroup` | |
| `LastAdminIsRemoved` | `AdminGoesByRemoval` | |
| *`Friends_proofs`* | | |
| `TypeCorrect` | `[]TypeOK` | |
| `RowsOfPairAreBounded` | `[]RequestsBounded` | |
| `StandingBlocksRefuse` | `[]BlockedIsRefused` | |
| `BlocksEndByBlocker` | `OnlyBlockerUnblocks` | |
| *`SearchIndex_proofs`* | | |
| `TypeCorrect` | `[]TypeOK` | |
| `SearchesHideRecalled` | `[]RecalledNotShown` | |
| `TheKeyStays` | `OneKey` | |
| *`Moderation_proofs`* | | |
| `TypeCorrect` | `[]TypeOK` | |
| `OneActPerReport` | `[]ActedOnce` | |
| `EvidenceOutlivesDeletes` | `[]EvidenceStands` | |
| `RollbacksLeaveNoImage` | `[]NoStrayImages` | |
| `HidingTakesAnAct` | `HiddenWithAct` | |
| `OnlyBansLiftBans` | `BansHold` | |

Few of these properties are inductive. Each module proves `IInv`, the conjunction of
`TypeOK` with what the code relies on without saying it: `InitInv`, `InvStep` (a lemma
`...Keeps` per action) and `Invariant`, which combines them. Each `IInv` was checked by
TLC on the run of its module before it was proved.

*Calls.* A suspended handler holds a session that exists
(`TasksHaveSessions`) and, unless it is the request, one that has rung
(`TasksHaveRung`); a session in the table has rung (`ActiveHaveRung`); a request
whose insert is in flight holds its call alone, outside the table and unannounced
(`RequestsAreNew`), which is why no other handler can end or accept it; an
`acceptCall` in flight, or announced, has its session marked ACCEPTED
(`AcceptsAreMarked`), which is why the status check of a second accept fails
although the first one's update has not come back. `AcceptedCallsDoNotTimeOut` follows
because only `Expire` announces TIMEOUT and it looks at the status.
`NobodyIsLeftInACall` needs a second layer, `EndersTell`: of the handlers about to
delete a call, those that were to tell somebody on the way already have, the others tell
in the step that deletes.

*Calls implement `CallLifecycle`.* Two facts more (`RInv`): an accepted call has
rung, and an `acceptCall` never waits for the auth service, so that nothing but its
announcement or a crash makes it go away. What the mapping reads of a call is whether
it rang, is in the table, is marked accepted, was announced accepted, and has an
`acceptCall` in flight; one lemma each says which actions can change it
(`AnnouncedBy`, `TableChangedBy`, `MarkedBy`, `AcceptsHeldBy`). Then `RingCallee` is
`Ring`, `OnAccept` is `Answer`, `AnnounceAccepted` is `GiveNotice`, `EndCall` is
`Conclude` or comes too late and is a stutter, `UnhandledRejection` is `LoseAll`, and
every other step is a stutter (`StepRefines`).

*Direct messages.* A send holds rows that were created, and from the insert to the
announcement it alone holds its message (`TasksHoldRows`); ids name rows that were
created, and a chat that is gone has no last message (`RowsWereCreated`); between the
update of the chat and the announcement the chat keeps a last message, unless it is
deleted (`LinkedShows`). `StoredOnce` needs one invariant more, `TokensHeld`: a token the
gateway never dropped is remembered from the check on, by one send or one message.

*Direct messages implement `MessageOnce`.* The mapping counts slots and messages of a
token, so each step must change a count by what the abstract action says (`LeavesSlots`,
`EntersSlots`, `OneMoreMessage`, `OneMoreTold`). A count means something only of a finite
set: `FiniteWork` says that only finitely many slots are busy and messages created, in
every reachable state, whatever the size of `Handlers` and `Messages`. `CheckUniqueMessage`
is an accept, `CreateNewMessage` a store, `HandleEmitNewMessage` an announcement, a
failure gives up a claim, a crash loses all; everything else is a stutter (`RefStep`).

*Group messages.* `TokensHeld` as above, with the messages counted in `stored`.
`RoomForAll`: the bound `MaxStored` of the model leaves room for every send past the
start. `HistoryKept`: the history of a send knows of the members and permission of now,
and a send past a check has what the check saw in its history; this is why a permission
that was taken away between two reads does not matter.

*Groups.* Nobody but the creator is ADMIN (`CreatorIsAdmin`), and an add is small
(`AddsAreSmall`). Neither limit is inductive: a request past its count writes whatever
was written since. `AddsFit` counts what the requests past their count may still insert:
with all of them of the size allowed at once, the members are within the bound; or one of
them is the one that counted last, and with its real size and all others of the greatest
they are. The first is what an insert leaves, the second what a count does, as it knows
that its own add fits `MaxTotal`; the others are at most `Unseen`. `PinsFit` is the same
of pins, which are added one by one.

*Friends.* A request to the service remembers blocks that stand and got past the check
without any, and the row it found rejected is of its two users or gone (`TasksSound`;
ids are not used again, the assumption that `Removed` is not `Null`). `RowsAndWriters`:
the rows of a pair and the requests about to create one are together no more than the
slots, because who creates a row found none, so that then there were writers alone.

*Search.* `JobsSound`: a job has a key before it saves or posts one, no search reaches
the worker, and what a search must hide is hidden in the rows still. `KeysStay` says of
each step that a key which is everybody's stays so: who reads the row gets it, who finds
the encryptor made gets it, nobody draws another, and `UpdateMessageMappings` saves its
text again.

*Moderation.* A report in a transaction that has not committed is nobody else's
(`FilingsSound`); what a ruling read is there (`RulingSound`); a transaction that has
written its action is the first on its report, and alone (`FirstAct`: the unique index
and the row locks). An image in S3 is a report's, a filing's or `lost`
(`UploadKeeps`, `FailKeeps`, `DeathKeeps`).
`OnlyBansLiftBans` goes by who changes actions (`StepsOnRows`): a commit adds one, time
replaces one by another of the same report, and by `ActedOnce` that one is new.

Model-checked only: `CallerLearns`, `KeepsPromises`, `SendsEnd`, `PushEnds` and
`StoredIsIndexed`. They are liveness under fairness, which is outside the prover's reach.
`ShownMediaHasFile` and `ChatTakesMessages` are false, as their runs show. No module reaches a RECURSIVE operator.
The pins of a group are counted as the cardinality of a set of rows (`PinRows`) and not
as a sum over the messages, because a fold has no properties the provers know.

## Where the code and its comments disagree

Two are runs that find a counterexample; `PROJECT.json` quotes the lines.

- `moderation_files`: "Rolling back uploaded files" (user-report.service.ts:359). The
  URL of a reported media message goes on the list of uploads although nothing was
  uploaded, so a report that fails deletes the file of a message that is still shown.
- `chat_delete`: "deletes the direct chat and all messages in it, in a transaction"
  (direct-chat.service.ts:134). A message inserted between the statement on the messages
  (:153) and the one on the chat (:160) stays, as a message of no chat.

The others come from reading the code beside the models, which keep what the code does.

*Calls*

- `usersCalling` is read (call.service.ts:200) and cleared but never filled, so a callee
  who is in a call is rung, though the reply BUSY exists (call.gateway.ts:189).
- "It removes the client from the connected clients list" (call.gateway.ts:108):
  `removeConnectedClient` (call-connection.service.ts:46) has no caller, so a socket stays
  registered after it closed, and OFFLINE is answered only for users who never connected.
- Nobody asks whether the sender of an accept or a reject is the callee, or that of a
  hangup a party (call.gateway.ts:206, :217, :258).
- TIMEOUT is announced (call.gateway.ts:148) while `endCall` still awaits; an accept in
  that window is announced too, of a call about to be deleted.

*Messages*

- The same sentence at messaging.gateway.ts:207: a socket that closes while
  `handleConnection` awaits is removed first and added afterwards (:192), for good.
- A disconnect or logout of one device drops the tokens of all (messaging.gateway.ts:219),
  and the end of the process those of everybody: a retry after it is stored again.
- Two users who write to each other first at once get two chats, one per direction.
- The reply to `GetNewerDirectMessages` lacks the field `messages_json` that its caller
  reads (message-grpc.controller.ts:30, conversation.proto:48), so asking for missed
  messages disconnects the client.
- A group send that is refused has spent its token (messaging.gateway.ts:625): its retry
  is refused as a duplicate.
- A socket joins the room of any group it names and never leaves: a removed member goes
  on receiving what is sent to the room.
- The typing flag is kept per sender and overwritten per socket of the receiver
  (conversation-typing.helper.ts:10), so that the devices but the last are not told when
  typing ends.
- Removing one expired subscription turns notifications off on all of the user's devices,
  and notifications turned on in the settings without a subscription leave the sends of
  a group waiting at that user: later receivers are not notified.

*Groups*

- The role is looked up in the group the request names, which need not be the group it
  acts on (`GuardOfSomeGroup`), and is not looked at again when the request writes.
- An admin may not leave, but may remove himself (group-member.service.ts:164); no
  statement gives the role again, so that the group has no administrator for good.
- The minimum of members is checked before a removal and not before a leave: a group can
  be left with one member, or none.
- Several requests of one user may be PENDING; a request that was decided may be decided
  again; APPROVED is written before an add that may be refused
  (join-requests.service.ts:77).
- `joinGroupChatByInviteCode` is never called.

*Friends*

- `isFriend` finds a request of any status: somebody whose request was rejected counts as
  a friend where only friends may write, and there blocks are not asked for either.
- Accepting and rejecting do not look at the current status. The callback of the
  transaction that accepts does not use the transaction. `removeFriend` uses none: when its
  second statement fails, the accepted request stays and refuses a new one.

*Search*

- A sync that fails is an error nobody handles in the conversation-service
  (message.service.ts:116): it ends that process.
- Marking a message as seen indexes the row's ciphertext: a seen message is no longer
  found. It also clears the mark of a recalled one, which only the rows' filter then hides.
- The delete of a recall may reach Elasticsearch before the document it is about; it is
  retried at once, three times, and lost.
- The delete is sent also when the recall's transaction failed
  (delete-message.service.ts:104), and the bulk delete before the transaction ends
  (group-chat.service.ts:307, direct-chat.service.ts:156): if that fails, stored
  messages are no longer indexed.
- Two syncs that both come first draw two keys, and the row may keep the text of one under
  the dek of the other, which no later process can read
  (es-message-encryption.service.ts:33). `OneKey` is about the time after that.

*Moderation*

- The deletes of the admin-service wait for an Observable nobody subscribes to
  (upload.service.ts:9 there): the media of a hidden message stays in S3. The comment at
  admin.service.ts:645 puts them outside the transaction, where they are not.
- "within 24 hours" (user-report.service.ts:60) is ten seconds.
- A status that was read as PENDING may overwrite RESOLVED after a ban.
- A temporary ban without an end bans nobody, and a later, shorter ban replaces a
  permanent one. A ban is looked up at login only, and an error there counts as no ban.
- `lockUnlockUser` writes `isActive`, which the schema does not have.

No property is about these; the models do what the code does, and a property that is near
one of them exempts it. `StoredOnce` and `StoresAtMostOnce` are about tokens the gateway never
dropped, `PushEnds` stops at the loop that waits for no device, `OneKey` begins with the
stored key, `NoStrayImages` leaves out the images that are `lost`, and `RecalledNotShown`
holds by the filter on the rows, in whatever order the index was written. In
`PROJECT.json` such a hazard has no property, or a note says which part of it is not covered.

## What is not modelled

- *call-service:* SDP and ICE relays change no state; `updateCallStatus` is never
  called; Agora tokens are pure functions.
- *chat-service:* seen notices, typing timers, presence broadcasts, the
  chatting-connection table and the rooms: they tell clients what the rows already say
  and keep nothing that a row or a later answer depends on.
- *conversation-service:* listings and pages; names and avatars; pinned conversations, one
  user's own toggle; the notices that follow a change. The pins of a direct chat are
  the statements of `Groups` without the permission.
- *user-auth-service:* registration, passwords, tokens and profiles: single statements
  around bcrypt and JWT. Their answers are free inputs.
- *search-service:* the sync of users and the scripts that index everything anew, ranking and
  highlighting, the word dictionary's contents.
- *admin-service:* listings and statistics. *media-service:* pure I/O without a state.
- *Content:* the encryption of stored messages, message types, stickers, wording: no
  property depends on them.
- *Generated protos, bootstrap, loggers, seeders:* no behaviour of their own. They, the
  listings and the DTOs are most of the repository's lines.

## Plan

Modelled: calls with their lifecycle, direct messages, group messages with their push
notifications, groups, friends and blocks, the search index, moderation. Proved: every
safety property the runs check, and that calls and direct messages implement the
abstract specifications `CallLifecycle` and `MessageOnce`. What is left, in order:

1. `GroupSends`: that it implements `MessageOnce` too, once the model keeps which messages
   were announced.
2. An abstract specification of `Moderation` (a report is filed, decided, acted on
   once) and of the key in `SearchIndex` (drawn once, then read), with their mappings.
3. The hazards of `PROJECT.json` that no property covers, where the code can be given
   something to promise: first the tokens that are dropped under a send in flight, and the
   toggle of a pinned conversation, which is not modelled.
4. The pure algorithms: the page of messages with one row more than it shows, the split
   of a ban's time.
