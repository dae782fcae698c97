----------------------------- MODULE Messaging -----------------------------
(***************************************************************************)
(* The chat-service: the socket gateway that accepts direct messages        *)
(* (messaging.gateway.ts), the registry of client sockets                   *)
(* (user-connection.service.ts) and the message tokens that make a retried  *)
(* send harmless (message-tokens.helper.ts), over the direct_chats and      *)
(* messages tables of the conversation-service.                             *)
(*                                                                          *)
(* A send is one handler that awaits gRPC calls one after another; a step   *)
(* of the model is one call taking effect and the handler's code up to the  *)
(* next await.  `task` holds what the handler of a slot waits for:          *)
(*   checking  auth, the receiver's settings, friendship and blocks         *)
(*   finding   findConversationWithOtherUser                                *)
(*   creating  createNewDirectChat                                          *)
(*   storing   the sender's profile and createNewMessage                    *)
(*   linking   updateLastSentMessage                                        *)
(*   emitting  the reply of that update                                     *)
(*   pushing   nothing: the client has its answer, the push notification is *)
(*             a promise nobody awaits                                      *)
(***************************************************************************)
EXTENDS Naturals, FiniteSets

CONSTANTS
  Users,       \* user ids
  Sockets,     \* every socket.io connection a client may open
  SocketUser,  \* SocketUser[k]: the user id in the handshake of socket k
  Returning,   \* sockets whose handshake has a messageOffset and a directChatId
  Tokens,      \* the uuids clients draw, one per message; a retry reuses it
  Author,      \* Author[t]: the user whose client drew t
  Receiver,    \* Receiver[t]: the user its message is for
  Handlers,    \* slots for concurrent sends
  Chats,       \* the ids direct_chats may give, in any order
  Messages,    \* the ids messages may give, in any order
  DbFaults,    \* whether a call to another service may fail without a reason
  MaxDeletes,  \* bound on deleteDirectChat transactions
  Null         \* no row, no suspended handler

VARIABLES
  sock,              \* sock[k]: "absent", "open" or "closed"
  validating,        \* sockets whose handleConnection awaits its auth call
  recovering,        \* sockets whose handleConnection awaits GetNewerDirectMessages
  connectedClients,  \* sockets in the connectedClients map
  loggedOut,         \* open sockets a logout took out of that map
  uniqueMsgTokens,   \* tokens in the uniqueMsgTokens map
  tokenTimers,       \* tokenTimers[t]: pending cleanTokenAutomatically timeouts
  forgotten,         \* tokens that left uniqueMsgTokens at least once
  task,              \* task[h]: the send suspended in slot h, or Null
  directChat,        \* directChat[c]: the row c was created as, or Null
  directChats,       \* rows now in direct_chats
  lastSent,          \* lastSent[c]: c's last_sent_message_id, or Null
  message,           \* message[m]: token and chat m was created with, or Null
  messages,          \* rows now in messages
  deleting,          \* chats a deleteDirectChat transaction is about to delete
  doomed,            \* messages such a transaction saw and deletes with them
  emitted,           \* messages announced to the sockets of both users
  heralded           \* chats announced by new_conversation

connVars == <<sock, validating, recovering, connectedClients, loggedOut>>
tokenVars == <<uniqueMsgTokens, tokenTimers, forgotten>>
dbVars == <<directChat, directChats, lastSent, message, messages, deleting, doomed>>
vars == <<connVars, tokenVars, task, dbVars, emitted, heralded>>

Stages == {"checking", "finding", "creating", "storing", "linking", "emitting", "pushing"}
Task == [at : Stages, token : Tokens, chat : Chats \cup {Null}, isNew : BOOLEAN,
         msg : Messages \cup {Null}]
DirectChat == [creator : Users, recipient : Users]
Message == [token : Tokens, chat : Chats]

ASSUME MessagingAssumption ==
  /\ SocketUser \in [Sockets -> Users]
  /\ Returning \subseteq Sockets
  /\ Author \in [Tokens -> Users] /\ Receiver \in [Tokens -> Users]
  /\ DbFaults \in BOOLEAN
  /\ MaxDeletes \in Nat
  /\ Null \notin Chats \cup Messages \cup Task \cup DirectChat \cup Message

TypeOK ==
  /\ sock \in [Sockets -> {"absent", "open", "closed"}]
  /\ validating \in SUBSET Sockets /\ recovering \in SUBSET Sockets
  /\ connectedClients \in SUBSET Sockets /\ loggedOut \in SUBSET Sockets
  /\ uniqueMsgTokens \in SUBSET Tokens
  /\ tokenTimers \in [Tokens -> Nat]
  /\ forgotten \in SUBSET Tokens
  /\ task \in [Handlers -> Task \cup {Null}]
  /\ directChat \in [Chats -> DirectChat \cup {Null}]
  /\ directChats \in SUBSET Chats
  /\ lastSent \in [Chats -> Messages \cup {Null}]
  /\ message \in [Messages -> Message \cup {Null}]
  /\ messages \in SUBSET Messages
  /\ deleting \in SUBSET Chats /\ doomed \in SUBSET Messages
  /\ emitted \in SUBSET Messages
  /\ heralded \in SUBSET Chats

Init ==
  /\ sock = [k \in Sockets |-> "absent"]
  /\ validating = {} /\ recovering = {}
  /\ connectedClients = {} /\ loggedOut = {}
  /\ uniqueMsgTokens = {} /\ forgotten = {}
  /\ tokenTimers = [t \in Tokens |-> 0]
  /\ task = [h \in Handlers |-> Null]
  /\ directChat = [c \in Chats |-> Null]
  /\ directChats = {}
  /\ lastSent = [c \in Chats |-> Null]
  /\ message = [m \in Messages |-> Null]
  /\ messages = {}
  /\ deleting = {} /\ doomed = {}
  /\ emitted = {} /\ heralded = {}

-----------------------------------------------------------------------------
Waits(h, stage) == task[h] # Null /\ task[h].at = stage
Finish(h) == task' = [task EXCEPT ![h] = Null]
Goto(h, stage) == task' = [task EXCEPT ![h].at = stage]

Forget(S) ==
  /\ uniqueMsgTokens' = uniqueMsgTokens \ S
  /\ forgotten' = forgotten \cup (uniqueMsgTokens \cap S)

\* The direct chats findFirst may return: either user may be the creator.
Between(u, v) ==
  {c \in directChats : directChat[c] \in {[creator |-> u, recipient |-> v],
                                          [creator |-> v, recipient |-> u]}}

-----------------------------------------------------------------------------
(* Connections.                                                             *)

\* A client passes the namespace middleware; handleConnection starts to validate.
Connect(k) ==
  /\ sock[k] = "absent"
  /\ sock' = [sock EXCEPT ![k] = "open"]
  /\ validating' = validating \cup {k}
  /\ UNCHANGED <<recovering, connectedClients, loggedOut, tokenVars, task, dbVars, emitted, heralded>>

\* handleConnection resumes, whether or not the socket is still open.
AddConnectedClient(k) ==
  /\ k \in validating
  /\ validating' = validating \ {k}
  /\ connectedClients' = connectedClients \cup {k}
  /\ recovering' = IF k \in Returning THEN recovering \cup {k} ELSE recovering
  /\ UNCHANGED <<sock, loggedOut, tokenVars, task, dbVars, emitted, heralded>>

\* Slip: the socket id is not passed on, and every device of the user goes.
RemoveAllClients(k) ==
  /\ connectedClients' = {j \in connectedClients : SocketUser[j] # SocketUser[k]}
  /\ loggedOut' = loggedOut \ {k}
  /\ Forget({t \in Tokens : Author[t] = SocketUser[k]})

\* What a closing socket takes along: its entry, and its user's tokens even when
\* the user has other devices.
HandleDisconnect(k) ==
  /\ connectedClients' = connectedClients \ {k}
  /\ loggedOut' = loggedOut \ {k}
  /\ Forget({t \in Tokens : Author[t] = SocketUser[k]})

Disconnect(k) ==
  /\ sock[k] = "open"
  /\ sock' = [sock EXCEPT ![k] = "closed"]
  /\ HandleDisconnect(k)
  /\ UNCHANGED <<validating, recovering, tokenTimers, task, dbVars, emitted, heralded>>

\* handleConnection catches an error: the server disconnects the socket, if it is
\* still there, and the disconnect handler runs.
Drop(k) ==
  /\ sock' = [sock EXCEPT ![k] = "closed"]
  /\ IF sock[k] = "open" THEN HandleDisconnect(k)
     ELSE UNCHANGED <<connectedClients, loggedOut, uniqueMsgTokens, forgotten>>
  /\ UNCHANGED <<tokenTimers, task, dbVars, emitted, heralded>>

RefuseConnection(k) ==
  /\ k \in validating
  /\ validating' = validating \ {k}
  /\ Drop(k)
  /\ UNCHANGED recovering

\* The reply to GetNewerDirectMessages names its list `messages`, which the
\* contract does not know: `messagesJson` is undefined, and reading it throws.
RecoverMissingMessages(k) ==
  /\ k \in recovering
  /\ recovering' = recovering \ {k}
  /\ Drop(k)
  /\ UNCHANGED validating

\* POST /auth/logout names the socket it comes from, or none: then all go.
Logout(u, S) ==
  /\ S \cap connectedClients # {}
  /\ connectedClients' = connectedClients \ S
  /\ loggedOut' = loggedOut \cup {k \in S \cap connectedClients : sock[k] = "open"}
  /\ UNCHANGED <<sock, validating, recovering, tokenVars, task, dbVars, emitted, heralded>>

-----------------------------------------------------------------------------
(* Sending.                                                                 *)

\* Bound: there is a message id left for every send in flight.
IdLeft ==
  Cardinality({h \in Handlers : task[h] # Null}) < Cardinality({m \in Messages : message[m] = Null})

\* send_message_direct arrives, the first time or as a retry of the client.
HandleSendDirectMessage(h, k, t) ==
  /\ sock[k] = "open" /\ SocketUser[k] = Author[t]
  /\ task[h] = Null /\ IdLeft
  /\ task' = [task EXCEPT ![h] =
       [at |-> "checking", token |-> t, chat |-> Null, isNew |-> FALSE, msg |-> Null]]
  /\ UNCHANGED <<connVars, tokenVars, dbVars, emitted, heralded>>

\* The session is not authorised, the receiver takes messages of friends only, or
\* one blocked the other: an error reply.
CannotSend(h) ==
  /\ Waits(h, "checking")
  /\ Finish(h)
  /\ UNCHANGED <<connVars, tokenVars, dbVars, emitted, heralded>>

\* MESSAGE_OVERLAPS.
RefuseOverlap(h) ==
  /\ Waits(h, "checking") /\ task[h].token \in uniqueMsgTokens
  /\ Finish(h)
  /\ UNCHANGED <<connVars, tokenVars, dbVars, emitted, heralded>>

\* Slip: the token is looked up but stored only with the message.
CheckTokenOnly(h) ==
  /\ Waits(h, "checking") /\ task[h].token \notin uniqueMsgTokens
  /\ Goto(h, "finding")
  /\ UNCHANGED <<connVars, tokenVars, dbVars, emitted, heralded>>

\* isUniqueToken looks the token up and stores it in one turn of the event loop.
CheckUniqueMessage(h) ==
  LET t == task[h].token IN
  /\ Waits(h, "checking") /\ t \notin uniqueMsgTokens
  /\ uniqueMsgTokens' = uniqueMsgTokens \cup {t}
  /\ tokenTimers' = [tokenTimers EXCEPT ![t] = @ + 1]
  /\ Goto(h, "finding")
  /\ UNCHANGED <<connVars, forgotten, dbVars, emitted, heralded>>

\* An hour after a token was stored its timer drops it, also if a disconnect
\* dropped it before and it was stored again since.
CleanTokenAutomatically(t) ==
  /\ tokenTimers[t] > 0
  /\ tokenTimers' = [tokenTimers EXCEPT ![t] = @ - 1]
  /\ Forget({t})
  /\ UNCHANGED <<connVars, task, dbVars, emitted, heralded>>

FindConversation(h) ==
  /\ Waits(h, "finding")
  /\ LET t == task[h].token
         found == Between(Author[t], Receiver[t])
     IN \/ found = {} /\ Goto(h, "creating")
        \/ \E c \in found : task' = [task EXCEPT ![h].at = "storing", ![h].chat = c]
  /\ UNCHANGED <<connVars, tokenVars, dbVars, emitted, heralded>>

\* The unique index on (creatorId, recipientId): an insert it refuses fails the send.
Taken(t) ==
  \E c \in directChats : directChat[c] = [creator |-> Author[t], recipient |-> Receiver[t]]

\* Slip: the insert is an upsert, and whoever ran it thinks the chat is new.
UpsertDirectChat(h, c) ==
  /\ Waits(h, "creating")
  /\ IF Taken(task[h].token)
     THEN c \in Between(Author[task[h].token], Receiver[task[h].token]) /\ UNCHANGED <<directChat, directChats>>
     ELSE /\ directChat[c] = Null
          /\ directChat' = [directChat EXCEPT ![c] =
               [creator |-> Author[task[h].token], recipient |-> Receiver[task[h].token]]]
          /\ directChats' = directChats \cup {c}
  /\ task' = [task EXCEPT ![h].at = "storing", ![h].chat = c, ![h].isNew = TRUE]
  /\ UNCHANGED <<connVars, tokenVars, lastSent, message, messages, deleting, doomed, emitted, heralded>>

CreateNewDirectChat(h, c) ==
  LET t == task[h].token IN
  /\ Waits(h, "creating") /\ ~Taken(t) /\ directChat[c] = Null
  /\ directChat' = [directChat EXCEPT ![c] = [creator |-> Author[t], recipient |-> Receiver[t]]]
  /\ directChats' = directChats \cup {c}
  /\ task' = [task EXCEPT ![h].at = "storing", ![h].chat = c, ![h].isNew = TRUE]
  /\ UNCHANGED <<connVars, tokenVars, lastSent, message, messages, deleting, doomed, emitted, heralded>>

CreateNewMessage(h, m) ==
  LET c == task[h].chat IN
  /\ Waits(h, "storing") /\ c \in directChats /\ message[m] = Null
  /\ message' = [message EXCEPT ![m] = [token |-> task[h].token, chat |-> c]]
  /\ messages' = messages \cup {m}
  /\ task' = [task EXCEPT ![h].at = "linking", ![h].msg = m]
  /\ UNCHANGED <<connVars, tokenVars, directChat, directChats, lastSent, deleting, doomed, emitted, heralded>>

\* Slip: the two ids are passed in the wrong order.
UpdateLastSentSwapped(h) ==
  /\ Waits(h, "linking") /\ task[h].chat \in directChats
  /\ lastSent' = [lastSent EXCEPT ![task[h].chat] = task[h].chat]
  /\ Goto(h, "emitting")
  /\ UNCHANGED <<connVars, tokenVars, directChat, directChats, message, messages, deleting, doomed, emitted, heralded>>

UpdateLastSentMessage(h) ==
  /\ Waits(h, "linking") /\ task[h].chat \in directChats
  /\ lastSent' = [lastSent EXCEPT ![task[h].chat] = task[h].msg]
  /\ Goto(h, "emitting")
  /\ UNCHANGED <<connVars, tokenVars, directChat, directChats, message, messages, deleting, doomed, emitted, heralded>>

\* A chat created by another send, or deleted meanwhile, fails the statement that
\* needs it absent or present; the error goes to the client and nothing is undone.
Conflict(h) ==
  \/ Waits(h, "creating") /\ Taken(task[h].token)
  \/ Waits(h, "storing") /\ task[h].chat \notin directChats
  \/ Waits(h, "linking") /\ task[h].chat \notin directChats

Awaits(h) == \E stage \in Stages \ {"checking", "pushing"} : Waits(h, stage)

\* Slip: the conflict of two inserts is retried until it goes away.
FailUnlessTaken(h) ==
  /\ (DbFaults /\ Awaits(h)) \/ (Conflict(h) /\ ~Waits(h, "creating"))
  /\ Finish(h)
  /\ UNCHANGED <<connVars, tokenVars, dbVars, emitted, heralded>>

\* Slip: a send that fails after its message was stored creates it again.
FailAndRestore(h) ==
  /\ (DbFaults /\ Awaits(h)) \/ Conflict(h)
  /\ IF Waits(h, "linking") THEN Goto(h, "storing") ELSE Finish(h)
  /\ UNCHANGED <<connVars, tokenVars, dbVars, emitted, heralded>>

FailSend(h) ==
  /\ (DbFaults /\ Awaits(h)) \/ Conflict(h)
  /\ Finish(h)
  /\ UNCHANGED <<connVars, tokenVars, dbVars, emitted, heralded>>

\* Slip: the message is announced before its chat points to it.
EmitBeforeLink(h) ==
  /\ Waits(h, "linking") \/ Waits(h, "emitting")
  /\ emitted' = emitted \cup {task[h].msg}
  /\ heralded' = IF task[h].isNew THEN heralded \cup {task[h].chat} ELSE heralded
  /\ Goto(h, "pushing")
  /\ UNCHANGED <<connVars, tokenVars, dbVars>>

HandleEmitNewMessage(h) ==
  /\ Waits(h, "emitting")
  /\ emitted' = emitted \cup {task[h].msg}
  /\ heralded' = IF task[h].isNew THEN heralded \cup {task[h].chat} ELSE heralded
  /\ Goto(h, "pushing")
  /\ UNCHANGED <<connVars, tokenVars, dbVars>>

\* The notification service answers; it need not.
PushDone(h) ==
  /\ Waits(h, "pushing")
  /\ Finish(h)
  /\ UNCHANGED <<connVars, tokenVars, dbVars, emitted, heralded>>

\* Its error rejects a promise nobody handles, and Node ends the process; whatever
\* supervises it starts it again with empty maps.  What a lost handler had asked
\* of another service has happened or never does.
PushFails(h) ==
  /\ Waits(h, "pushing")
  /\ sock' = [k \in Sockets |-> IF sock[k] = "open" THEN "closed" ELSE sock[k]]
  /\ validating' = {} /\ recovering' = {}
  /\ connectedClients' = {} /\ loggedOut' = {}
  /\ Forget(Tokens)
  /\ tokenTimers' = [t \in Tokens |-> 0]
  /\ task' = [x \in Handlers |-> Null]
  /\ UNCHANGED <<dbVars, emitted, heralded>>

-----------------------------------------------------------------------------
(* deleteDirectChat of the conversation-service, one transaction.           *)

Deleted == {c \in Chats : directChat[c] # Null /\ c \notin directChats}

\* Read committed: the statement that deletes the messages sees those of now.
DeleteMessages(c) ==
  /\ c \in directChats \ deleting
  /\ Cardinality(Deleted \cup deleting) < MaxDeletes
  /\ deleting' = deleting \cup {c}
  /\ doomed' = doomed \cup {m \in messages : message[m].chat = c}
  /\ UNCHANGED <<connVars, tokenVars, task, directChat, directChats, lastSent, message, messages, emitted, heralded>>

\* The row of the chat goes too; a message inserted in between stays, without a
\* chat (ON DELETE SET NULL).
DeleteDirectChat(c) ==
  /\ c \in deleting
  /\ directChats' = directChats \ {c}
  /\ messages' = {m \in messages : message[m].chat = c => m \notin doomed}
  /\ lastSent' = [lastSent EXCEPT ![c] = Null]
  /\ deleting' = deleting \ {c}
  /\ UNCHANGED <<connVars, tokenVars, task, directChat, message, doomed, emitted, heralded>>

\* No send awaits anything: the gateway waits for its clients.
Quiet ==
  /\ \A h \in Handlers : task[h] = Null \/ Waits(h, "pushing")
  /\ UNCHANGED vars

-----------------------------------------------------------------------------
SocketStep(k) ==
  \/ Connect(k) \/ AddConnectedClient(k) \/ Disconnect(k)
  \/ RefuseConnection(k) \/ RecoverMissingMessages(k)
  \/ Logout(SocketUser[k], {k})
  \/ Logout(SocketUser[k], {j \in Sockets : SocketUser[j] = SocketUser[k]})

Resume(h) ==
  \/ CannotSend(h) \/ RefuseOverlap(h) \/ CheckUniqueMessage(h)
  \/ FindConversation(h)
  \/ \E c \in Chats : CreateNewDirectChat(h, c)
  \/ \E m \in Messages : CreateNewMessage(h, m)
  \/ UpdateLastSentMessage(h) \/ FailSend(h) \/ HandleEmitNewMessage(h)

Next ==
  \/ \E k \in Sockets : SocketStep(k)
  \/ \E h \in Handlers, k \in Sockets, t \in Tokens : HandleSendDirectMessage(h, k, t)
  \/ \E h \in Handlers : Resume(h) \/ PushDone(h) \/ PushFails(h)
  \/ \E t \in Tokens : CleanTokenAutomatically(t)
  \/ \E c \in Chats : DeleteMessages(c) \/ DeleteDirectChat(c)
  \/ Quiet

Spec == Init /\ [][Next]_vars

\* Every gRPC call of a send is answered and the event loop resumes its handler.
\* Clients, sockets, logouts, deletions and the notification service owe nothing.
Fairness == \A h \in Handlers : WF_vars(Resume(h))

FairSpec == Spec /\ Fairness
-----------------------------------------------------------------------------
(* Properties.                                                              *)

\* A send whose token was accepted and whose message is not stored yet.
Claims(h, t) ==
  task[h] # Null /\ task[h].token = t /\ task[h].at \in {"finding", "creating", "storing"}

\* However often a client retries, from however many devices at once: as long as
\* the gateway never dropped its token, at most one send of a message got past the
\* check, and none once the message is stored.
StoredOnce ==
  \A t \in Tokens \ forgotten :
    Cardinality({h \in Handlers : Claims(h, t)})
      + Cardinality({m \in Messages : message[m] # Null /\ message[m].token = t}) <= 1

\* One send introduces a chat, although several may find none and insert: no two
\* hold the chat as theirs, and none does once new_conversation was sent for it.
IntroducedOnce ==
  \A h \in Handlers : Awaits(h) /\ task[h].isNew =>
    /\ task[h].chat \notin heralded
    /\ \A x \in Handlers : Awaits(x) /\ task[x].isNew /\ task[x].chat = task[h].chat => x = h

\* An open socket whose connection was accepted gets its user's messages, whatever
\* other devices of the user, or logouts from them, do: it is in connectedClients,
\* unless a logout took it out.
OpenIsRegistered ==
  \A k \in Sockets : sock[k] = "open" /\ k \notin validating => k \in connectedClients \cup loggedOut

\* The chat of an announced message is not listed as empty, as findDirectChatsByUser
\* orders chats by their last message, and what it shows there is a message of it.
ChatShowsMessages ==
  \A c \in directChats :
    /\ lastSent[c] # Null => message[lastSent[c]].chat = c
    /\ (\E m \in emitted : message[m].chat = c) => lastSent[c] # Null
-----------------------------------------------------------------------------
(* What the source says, and the code does not do.                          *)

\* "deletes the direct chat and all messages in the direct chat (in a transaction)"
\* (direct-chat.service.ts:134).
ChatTakesMessages == \A m \in messages : message[m].chat \in directChats
=============================================================================
