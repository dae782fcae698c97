--------------------------- MODULE CallSignaling ---------------------------
(***************************************************************************)
(* The call-service: the socket gateway that rings, answers, rejects, hangs *)
(* up and times out calls (call.gateway.ts), the in-memory table of active  *)
(* sessions (call.service.ts) and the registry of client sockets            *)
(* (call-connection.service.ts).                                            *)
(*                                                                          *)
(* One Node process runs many handlers; a handler runs alone until it       *)
(* awaits.  A promise slot of `task` holds what a suspended handler waits   *)
(* for: `auth`, the gRPC call to the auth service; `writing`, a statement   *)
(* sent to Postgres; `written`, the statement settled but the handler not   *)
(* yet resumed.  Statements go through a connection pool, so two of them    *)
(* commit in either order.                                                  *)
(***************************************************************************)
CONSTANTS
  Users,       \* user ids
  Sockets,     \* every socket.io connection a client may open
  SocketUser,  \* SocketUser[k]: the user id in the handshake of socket k
  Calls,       \* the uuids initActiveCallSession may draw
  Handlers,    \* slots for concurrent request, accept, reject and hangup events
  Dials,       \* the <<socket, callee>> pairs clients may send call_request with
  DbFaults,    \* whether a statement may fail
  Null         \* no session, no call, no suspended handler

VARIABLES
  up,                  \* the process is running
  sock,                \* sock[k]: "absent", "open" or "closed"
  validating,          \* sockets whose handleConnection awaits its auth call
  connectedClients,    \* sockets in the connectedClients map
  session,             \* session[c]: the session object of call c, or Null
  activeCallSessions,  \* keys of the activeCallSessions map
  older,               \* older[c]: keys of that map when c was inserted
  usersCalling,        \* the usersCalling map: user -> call, or Null
  timer,               \* calls whose autoCancelCall timeout is pending
  row,                 \* row[c]: status column of c's callSession row
  task,                \* task[x]: the handler suspended in slot x, or Null
  emitted              \* emitted[c]: the <<user, event>> announced for c

vars == <<up, sock, validating, connectedClients, session, activeCallSessions,
          older, usersCalling, timer, row, task, emitted>>

\* A timer callback and a disconnect each run once per call and per socket, so
\* the call and the socket name their slots; only client events share Handlers.
Slots == Handlers \cup Calls \cup Sockets

Pending == {"REQUESTING", "RINGING"}
Session == [caller : Users, callee : Users, status : Pending \cup {"ACCEPTED"}]
Events == {"REQUESTING", "ACCEPTED", "REJECTED", "TIMEOUT", "ENDED", "HANGUP"}

EndOps == {"reject", "hangup", "expire", "disconnect"}
Ops == EndOps \cup {"request", "accept"}
Task == [op : Ops, at : {"auth", "writing", "written"},
         call : Calls \cup {Null}, user : Users, peer : Users]

ASSUME CallAssumption ==
  /\ SocketUser \in [Sockets -> Users]
  /\ DbFaults \in BOOLEAN
  /\ Dials \subseteq Sockets \X Users
  /\ Null \notin Calls \cup Session \cup Task
  /\ Calls \cap (Handlers \cup Sockets) = {}
  /\ Handlers \cap Sockets = {}

TypeOK ==
  /\ up \in BOOLEAN
  /\ sock \in [Sockets -> {"absent", "open", "closed"}]
  /\ validating \in SUBSET Sockets
  /\ connectedClients \in SUBSET Sockets
  /\ session \in [Calls -> Session \cup {Null}]
  /\ activeCallSessions \in SUBSET Calls
  /\ older \in [Calls -> SUBSET Calls]
  /\ usersCalling \in [Users -> Calls \cup {Null}]
  /\ timer \in SUBSET Calls
  /\ row \in [Calls -> {"NONE", "REQUESTING", "ACCEPTED", "ENDED"}]
  /\ task \in [Slots -> Task \cup {Null}]
  /\ emitted \in [Calls -> SUBSET (Users \X Events)]

Init ==
  /\ up = TRUE
  /\ sock = [k \in Sockets |-> "absent"]
  /\ validating = {}
  /\ connectedClients = {}
  /\ session = [c \in Calls |-> Null]
  /\ activeCallSessions = {}
  /\ older = [c \in Calls |-> {}]
  /\ usersCalling = [u \in Users |-> Null]
  /\ timer = {}
  /\ row = [c \in Calls |-> "NONE"]
  /\ task = [x \in Slots |-> Null]
  /\ emitted = [c \in Calls |-> {}]

-----------------------------------------------------------------------------
(* The tables and the handlers' vocabulary.                                 *)

Online(u) == \E k \in Sockets : SocketUser[k] = u /\ sock[k] = "open"
AnyoneOnline == \E u \in Users : Online(u)
CheckUserIsConnected(u) == \E k \in connectedClients : SocketUser[k] = u
IsUserBusy(u) == usersCalling[u] # Null
Parties(c) == {session[c].caller, session[c].callee}
Peer(c, u) == IF session[c].caller = u THEN session[c].callee ELSE session[c].caller

\* Map iteration order is insertion order: the first session u takes part in.
FindSessionByUserId(u, c) ==
  /\ c \in activeCallSessions /\ u \in Parties(c)
  /\ \A d \in activeCallSessions \cap older[c] : u \notin Parties(d)

Suspend(x, op, at, c, u, v) ==
  /\ task[x] = Null
  /\ task' = [task EXCEPT ![x] = [op |-> op, at |-> at, call |-> c, user |-> u, peer |-> v]]

Waits(x, op, at) == task[x] # Null /\ task[x].op = op /\ task[x].at = at
Finish(x) == task' = [task EXCEPT ![x] = Null]
Announce(c, notices) == emitted' = [emitted EXCEPT ![c] = @ \cup notices]

connVars == <<sock, validating, connectedClients>>
callVars == <<session, activeCallSessions, older, usersCalling, timer>>

-----------------------------------------------------------------------------
(* Connections.                                                             *)

\* A client passes the namespace middleware; handleConnection starts to validate.
Connect(k) ==
  /\ up /\ sock[k] = "absent"
  /\ sock' = [sock EXCEPT ![k] = "open"]
  /\ validating' = validating \cup {k}
  /\ UNCHANGED <<up, connectedClients, callVars, row, task, emitted>>

\* handleConnection resumes, whether or not the socket is still open.
AddConnectedClient(k) ==
  /\ up /\ k \in validating
  /\ validating' = validating \ {k}
  /\ connectedClients' = connectedClients \cup {k}
  /\ UNCHANGED <<up, sock, callVars, row, task, emitted>>

\* handleDisconnect up to its await: endCall of the first session of the user.
\* No registry entry is touched.
HandleDisconnect(k) ==
  LET u == SocketUser[k] IN
  \/ /\ \A c \in activeCallSessions : u \notin Parties(c)
     /\ UNCHANGED task
  \/ \E c \in activeCallSessions :
       /\ FindSessionByUserId(u, c)
       /\ Suspend(k, "disconnect", "writing", c, u, Peer(c, u))

Disconnect(k) ==
  /\ up /\ sock[k] = "open"
  /\ sock' = [sock EXCEPT ![k] = "closed"]
  /\ HandleDisconnect(k)
  /\ UNCHANGED <<up, validating, connectedClients, callVars, row, emitted>>

\* validateCallSocketAuth rejects: the server disconnects the socket, if it is
\* still there, and the disconnect handler runs.
RefuseConnection(k) ==
  /\ up /\ k \in validating
  /\ validating' = validating \ {k}
  /\ sock' = [sock EXCEPT ![k] = "closed"]
  /\ IF sock[k] = "open" THEN HandleDisconnect(k) ELSE UNCHANGED task
  /\ UNCHANGED <<up, connectedClients, callVars, row, emitted>>

-----------------------------------------------------------------------------
(* Requesting a call.                                                       *)

OnCallRequest(h, k, v) ==
  /\ up /\ sock[k] = "open" /\ <<k, v>> \in Dials
  /\ Suspend(h, "request", "auth", Null, SocketUser[k], v)
  /\ UNCHANGED <<up, connVars, callVars, row, emitted>>

\* The auth call of a request or a hangup fails: an error reply.
AuthFails(h) ==
  /\ up /\ task[h] # Null /\ task[h].at = "auth"
  /\ Finish(h)
  /\ UNCHANGED <<up, connVars, callVars, row, emitted>>

\* The reply is OFFLINE or BUSY.
RefuseRequest(h) ==
  /\ up /\ Waits(h, "request", "auth")
  /\ ~CheckUserIsConnected(task[h].peer) \/ IsUserBusy(task[h].peer)
  /\ Finish(h)
  /\ UNCHANGED <<up, connVars, callVars, row, emitted>>

\* Slip: the session enters the map before its row is written.
InsertBeforeWrite(h, c) ==
  /\ up /\ Waits(h, "request", "auth")
  /\ CheckUserIsConnected(task[h].peer) /\ session[c] = Null
  /\ session' = [session EXCEPT ![c] =
       [caller |-> task[h].user, callee |-> task[h].peer, status |-> "REQUESTING"]]
  /\ activeCallSessions' = activeCallSessions \cup {c}
  /\ task' = [task EXCEPT ![h].at = "writing", ![h].call = c]
  /\ UNCHANGED <<up, connVars, older, usersCalling, timer, row, emitted>>

\* The session object is built under a fresh uuid and its row sent to Postgres.
InitActiveCallSession(h, c) ==
  /\ up /\ Waits(h, "request", "auth")
  /\ CheckUserIsConnected(task[h].peer) /\ ~IsUserBusy(task[h].peer)
  /\ session[c] = Null
  /\ session' = [session EXCEPT ![c] =
       [caller |-> task[h].user, callee |-> task[h].peer, status |-> "REQUESTING"]]
  /\ task' = [task EXCEPT ![h].at = "writing", ![h].call = c]
  /\ UNCHANGED <<up, connVars, activeCallSessions, older, usersCalling, timer, row, emitted>>

\* Slip: autoCancelCall is forgotten.
RingWithoutTimer(h) ==
  /\ up /\ Waits(h, "request", "written")
  /\ LET c == task[h].call IN
       /\ activeCallSessions' = activeCallSessions \cup {c}
       /\ older' = [older EXCEPT ![c] = activeCallSessions]
       /\ Announce(c, {<<session[c].callee, "REQUESTING">>})
  /\ Finish(h)
  /\ UNCHANGED <<up, connVars, session, usersCalling, timer, row>>

\* Only then does the session enter the map; the callee is rung, the timer armed.
RingCallee(h) ==
  /\ up /\ Waits(h, "request", "written")
  /\ LET c == task[h].call IN
       /\ activeCallSessions' = activeCallSessions \cup {c}
       /\ older' = [older EXCEPT ![c] = activeCallSessions]
       /\ timer' = timer \cup {c}
       /\ Announce(c, {<<session[c].callee, "REQUESTING">>})
  /\ Finish(h)
  /\ UNCHANGED <<up, connVars, session, usersCalling, row>>

-----------------------------------------------------------------------------
(* Answering and ending.                                                    *)

\* Slip: the status is left for after the await.
AcceptWithoutMark(h, c) ==
  /\ up /\ c \in activeCallSessions /\ AnyoneOnline
  /\ session[c].status \in Pending
  /\ Suspend(h, "accept", "writing", c, session[c].callee, session[c].caller)
  /\ UNCHANGED <<up, connVars, callVars, row, emitted>>

\* acceptCall: the status changes before the first await.  Accept and reject name
\* a session and nothing else: the gateway never asks who sent them.
OnAccept(h, c) ==
  /\ up /\ c \in activeCallSessions /\ AnyoneOnline
  /\ session[c].status \in Pending
  /\ session' = [session EXCEPT ![c].status = "ACCEPTED"]
  /\ Suspend(h, "accept", "writing", c, session[c].callee, session[c].caller)
  /\ UNCHANGED <<up, connVars, activeCallSessions, older, usersCalling, timer, row, emitted>>

\* Slip: the accepted session is stored back into the map.
AnnounceAndStore(h) ==
  /\ up /\ Waits(h, "accept", "written")
  /\ activeCallSessions' = activeCallSessions \cup {task[h].call}
  /\ Announce(task[h].call, {<<task[h].peer, "ACCEPTED">>})
  /\ Finish(h)
  /\ UNCHANGED <<up, connVars, session, older, usersCalling, timer, row>>

AnnounceAccepted(h) ==
  /\ up /\ Waits(h, "accept", "written")
  /\ Announce(task[h].call, {<<task[h].peer, "ACCEPTED">>})
  /\ Finish(h)
  /\ UNCHANGED <<up, connVars, callVars, row>>

\* endCall of the session a reject names: no status is checked.
OnReject(h, c) ==
  /\ up /\ c \in activeCallSessions /\ AnyoneOnline
  /\ Suspend(h, "reject", "writing", c, session[c].callee, session[c].caller)
  /\ UNCHANGED <<up, connVars, callVars, row, emitted>>

\* onHangup looks the session up, then awaits auth.  A sender who is not the caller
\* counts as the callee.
OnHangup(h, c, u) ==
  /\ up /\ c \in activeCallSessions /\ Online(u)
  /\ Suspend(h, "hangup", "auth", c, u, Peer(c, u))
  /\ UNCHANGED <<up, connVars, callVars, row, emitted>>

\* endCall is called without await: the peer is told while the row is written.
AnnounceCallHangup(h) ==
  /\ up /\ Waits(h, "hangup", "auth") /\ task[h].call \in activeCallSessions
  /\ Announce(task[h].call, {<<task[h].peer, "HANGUP">>})
  /\ task' = [task EXCEPT ![h].at = "writing"]
  /\ UNCHANGED <<up, connVars, callVars, row>>

\* The session went away during the await: endCall's rejection is nobody's to
\* handle.  The handler's last line, the notice to the peer, still runs; then Node
\* ends the process.  Memory and sockets are gone, rows stay.
\* (`session` and `older` keep the dead objects for the properties only.)
UnhandledRejection(h) ==
  /\ up /\ Waits(h, "hangup", "auth") /\ task[h].call \notin activeCallSessions
  /\ up' = FALSE
  /\ sock' = [k \in Sockets |-> IF sock[k] = "open" THEN "closed" ELSE sock[k]]
  /\ validating' = {} /\ connectedClients' = {}
  /\ activeCallSessions' = {} /\ timer' = {}
  /\ usersCalling' = [u \in Users |-> Null]
  /\ Announce(task[h].call, {<<task[h].peer, "HANGUP">>})
  /\ task' = [x \in Slots |-> Null]
  /\ UNCHANGED <<session, older, row>>

\* Whatever supervises the process starts it again; it reads no callSession row.
Restart ==
  /\ ~up /\ up' = TRUE
  /\ UNCHANGED <<connVars, callVars, row, task, emitted>>

\* Slip: the callback does not look at the status.
ExpireUnchecked(c) ==
  /\ up /\ c \in timer
  /\ timer' = timer \ {c}
  /\ IF c \in activeCallSessions
     THEN /\ Suspend(c, "expire", "writing", c, session[c].caller, session[c].callee)
          /\ Announce(c, {<<u, "TIMEOUT">> : u \in Parties(c)})
     ELSE UNCHANGED <<task, emitted>>
  /\ UNCHANGED <<up, connVars, session, activeCallSessions, older, usersCalling, row>>

\* The autoCancelCall callback: endCall not awaited, both parties told at once.
Expire(c) ==
  /\ up /\ c \in timer
  /\ timer' = timer \ {c}
  /\ IF c \in activeCallSessions /\ session[c].status \in Pending
     THEN /\ Suspend(c, "expire", "writing", c, session[c].caller, session[c].callee)
          /\ Announce(c, {<<u, "TIMEOUT">> : u \in Parties(c)})
     ELSE UNCHANGED <<task, emitted>>
  /\ UNCHANGED <<up, connVars, session, activeCallSessions, older, usersCalling, row>>

\* Slip: a disconnect tells the peer nothing.
RejectNoticeOnly(t) == IF t.op = "reject" THEN {<<t.peer, "REJECTED">>} ELSE {}

\* Who is told what when endCall's promise resolves for the handler awaiting it.
EndNotices(t) ==
  CASE t.op = "reject" -> {<<t.peer, "REJECTED">>}
    [] t.op = "disconnect" -> {<<t.peer, "ENDED">>}
    [] OTHER -> {}

\* Slip: an accepted session stays in the map.
EndCallIfPending(x) ==
  /\ up /\ \E op \in EndOps : Waits(x, op, "written")
  /\ LET c == task[x].call IN
       /\ activeCallSessions' =
            IF session[c].status \in Pending THEN activeCallSessions \ {c} ELSE activeCallSessions
       /\ Announce(c, EndNotices(task[x]))
  /\ Finish(x)
  /\ UNCHANGED <<up, connVars, session, older, usersCalling, timer, row>>

\* endCall resumes after its update settled, and with it the caller's last lines.
EndCall(x) ==
  /\ up /\ \E op \in EndOps : Waits(x, op, "written")
  /\ LET c == task[x].call IN
       /\ activeCallSessions' = activeCallSessions \ {c}
       /\ usersCalling' = [u \in Users |->
            IF u \in Parties(c) /\ usersCalling[u] = c THEN Null ELSE usersCalling[u]]
       /\ Announce(c, EndNotices(task[x]))
  /\ Finish(x)
  /\ UNCHANGED <<up, connVars, session, older, timer, row>>

-----------------------------------------------------------------------------
(* Postgres.                                                                *)

\* Slip: the row of an unanswered call is given the announced status.
StatusAnnounced(op) ==
  CASE op = "request" -> "REQUESTING" [] op = "expire" -> "TIMEOUT" [] OTHER -> "ENDED"

StatusWritten(op) ==
  CASE op = "request" -> "REQUESTING"
    [] op = "accept" -> "ACCEPTED"
    [] OTHER -> "ENDED"

\* Slip: a failed statement is not caught and takes its handler with it.
DbSettlesUncaught(x) ==
  /\ up /\ task[x] # Null /\ task[x].at = "writing"
  /\ \/ DbFaults /\ UNCHANGED row /\ Finish(x)
     \/ /\ row' = [row EXCEPT ![task[x].call] = StatusWritten(task[x].op)]
        /\ task' = [task EXCEPT ![x].at = "written"]
  /\ UNCHANGED <<up, connVars, callVars, emitted>>

\* An insert creates the row, an update needs one; a failure is logged and the
\* handler goes on as if it had succeeded.
DbSettles(x) ==
  /\ up /\ task[x] # Null /\ task[x].at = "writing"
  /\ \/ /\ DbFaults \/ (task[x].op # "request" /\ row[task[x].call] = "NONE")
        /\ UNCHANGED row
     \/ /\ task[x].op = "request" \/ row[task[x].call] # "NONE"
        /\ row' = [row EXCEPT ![task[x].call] = StatusWritten(task[x].op)]
  /\ task' = [task EXCEPT ![x].at = "written"]
  /\ UNCHANGED <<up, connVars, callVars, emitted>>

\* No handler is suspended and no timer armed: the gateway waits for clients.
Quiet ==
  /\ up /\ timer = {} /\ \A x \in Slots : task[x] = Null
  /\ UNCHANGED vars

-----------------------------------------------------------------------------
SocketStep(k) ==
  \/ Connect(k) \/ AddConnectedClient(k) \/ Disconnect(k) \/ RefuseConnection(k)

ClientEvent(h) ==
  \/ \E k \in Sockets, v \in Users : OnCallRequest(h, k, v)
  \/ \E c \in Calls : OnAccept(h, c) \/ OnReject(h, c)
  \/ \E c \in Calls, u \in Users : OnHangup(h, c, u)

AuthReply(h) ==
  \/ AuthFails(h) \/ RefuseRequest(h)
  \/ AnnounceCallHangup(h) \/ UnhandledRejection(h)
  \/ \E c \in Calls : InitActiveCallSession(h, c)

Resume(x) == RingCallee(x) \/ AnnounceAccepted(x) \/ EndCall(x)

Next ==
  \/ \E k \in Sockets : SocketStep(k)
  \/ \E h \in Handlers : ClientEvent(h) \/ AuthReply(h)
  \/ \E x \in Slots : DbSettles(x) \/ Resume(x)
  \/ \E c \in Calls : Expire(c)
  \/ Restart
  \/ Quiet

Spec == Init /\ [][Next]_vars

\* Postgres settles every statement, the event loop resumes settled promises and
\* runs elapsed timers.  Clients, sockets and the auth service owe nothing.
Fairness ==
  /\ \A x \in Slots : WF_vars(DbSettles(x)) /\ WF_vars(Resume(x))
  /\ \A c \in Calls : WF_vars(Expire(c))

FairSpec == Spec /\ Fairness
-----------------------------------------------------------------------------
(* Properties.                                                              *)

Accepted(c) == session[c] # Null /\ session[c].status = "ACCEPTED"
Accepting(x, c) == task[x] # Null /\ task[x].op = "accept" /\ task[x].call = c
Ending(x, c) == task[x] # Null /\ task[x].call = c /\ task[x].op \in EndOps /\ task[x].at # "auth"
Told(c, e) == \E u \in Users : <<u, e>> \in emitted[c]
Rung(c) == Told(c, "REQUESTING")
CallerTold(c, S) == session[c] # Null /\ \E e \in S : <<session[c].caller, e>> \in emitted[c]
CalleeTold(c, S) == session[c] # Null /\ \E e \in S : <<session[c].callee, e>> \in emitted[c]

\* However many devices of the callee tap "accept" at once, one acceptCall wins:
\* at most one is ever in flight, and none once ACCEPTED has been announced.
AcceptedOnce ==
  \A c \in Calls, x \in Slots : Accepting(x, c) =>
    /\ ~Told(c, "ACCEPTED")
    /\ \A y \in Slots : Accepting(y, c) => x = y

\* Nobody hears of a call (accepted, ended, timed out) before its
\* callee was rung, although its row is in Postgres some time earlier.
RingsFirst == \A c \in Calls : emitted[c] # {} => Rung(c)

\* A row that reads ENDED belongs to a call that has left the table, or that a
\* handler already past endCall's lookup is about to delete from it.
EndedRowIsEnding ==
  \A c \in activeCallSessions : row[c] = "ENDED" => \E x \in Slots : Ending(x, c)

\* While the process lives, a call leaves the table only after the party that did
\* not end it was told, whichever of several concurrent ends deletes it: the
\* caller heard how it ended, or the callee heard that the caller left.
NoSilentEnd ==
  [][\A c \in activeCallSessions : c \notin activeCallSessions' /\ up' =>
       \/ CallerTold(c, {"REJECTED", "ENDED", "HANGUP", "TIMEOUT"})'
       \/ CalleeTold(c, {"ENDED", "HANGUP"})']_vars

\* Once the caller was told ACCEPTED, no timer announces TIMEOUT for the call,
\* although acceptCall never clears the timeout autoCancelCall armed.
NoTimeoutOnceAccepted ==
  [][\A c \in Calls : Told(c, "ACCEPTED") /\ ~Told(c, "TIMEOUT") => ~Told(c, "TIMEOUT")']_vars

\* A call that left the table never comes back: no handler that still holds the
\* session object puts it there again.
EndedForGood ==
  [][\A c \in Calls : Rung(c) /\ c \notin activeCallSessions => c \notin activeCallSessions']_vars

\* The caller of a ringing call hears in the end how it turned out, or ended it
\* itself (its callee hears ENDED or HANGUP), or the process dies.
CallerLearns ==
  \A c \in Calls : c \in activeCallSessions ~>
    CallerTold(c, Events \ {"REQUESTING"}) \/ CalleeTold(c, {"ENDED", "HANGUP"}) \/ ~up
=============================================================================
