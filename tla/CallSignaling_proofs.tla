------------------------ MODULE CallSignaling_proofs ------------------------
(***************************************************************************)
(* Proofs about CallSignaling for every set of users, sockets, calls and    *)
(* handlers.                                                                *)
(***************************************************************************)
EXTENDS CallSignaling, TLAPS

LEMMA SlotFacts ==
  /\ \A h \in Handlers : h \in Slots
  /\ \A c \in Calls : c \in Slots /\ c # Null
  /\ \A k \in Sockets : k \in Slots /\ SocketUser[k] \in Users
BY CallAssumption DEF Slots

\* Storing a task in a free slot keeps the type of `task`.
LEMMA SuspendType ==
  ASSUME TypeOK, NEW x \in Slots, NEW op \in Ops, NEW at \in {"auth", "writing", "written"},
         NEW c \in Calls \cup {Null}, NEW u \in Users, NEW v \in Users,
         Suspend(x, op, at, c, u, v)
  PROVE  task' \in [Slots -> Task \cup {Null}]
BY DEF Suspend, TypeOK, Task

LEMMA FinishType ==
  ASSUME TypeOK, NEW x \in Slots, Finish(x)
  PROVE  task' \in [Slots -> Task \cup {Null}]
BY DEF Finish, TypeOK

LEMMA AnnounceType ==
  ASSUME TypeOK, NEW c \in Calls, NEW S \in SUBSET (Users \X Events), Announce(c, S)
  PROVE  emitted' \in [Calls -> SUBSET (Users \X Events)]
BY DEF Announce, TypeOK

\* A suspended handler is a task record; a session in the table is an object.
LEMMA TaskType ==
  ASSUME TypeOK, NEW x \in Slots, task[x] # Null
  PROVE  /\ task[x] \in Task
         /\ task[x].op \in Ops /\ task[x].at \in {"auth", "writing", "written"}
         /\ task[x].call \in Calls \cup {Null}
         /\ task[x].user \in Users /\ task[x].peer \in Users
BY DEF TypeOK, Task

-----------------------------------------------------------------------------
(* The inductive invariant.                                                 *)

\* A handler past its auth call, and a hangup before it, hold a session object.
TasksHaveSessions ==
  \A x \in Slots : task[x] # Null /\ ~(task[x].op = "request" /\ task[x].at = "auth") =>
    task[x].call \in Calls /\ session[task[x].call] # Null

\* Only a request holds a call that never rang.
TasksHaveRung ==
  \A x \in Slots : task[x] # Null /\ task[x].op # "request" => Rung(task[x].call)

ActiveHaveRung ==
  \A c \in Calls : c \in activeCallSessions \/ emitted[c] # {} => session[c] # Null /\ Rung(c)

\* A request in its statement holds its call alone, before it rings.
Requesting(x, c) ==
  task[x] # Null /\ task[x].op = "request" /\ task[x].at # "auth" /\ task[x].call = c

RequestsAreNew ==
  \A c \in Calls, x \in Slots : Requesting(x, c) =>
    /\ c \notin activeCallSessions /\ ~Rung(c) /\ row[c] # "ENDED"
    /\ \A y \in Slots : Requesting(y, c) => x = y

AcceptsAreMarked ==
  \A c \in Calls :
    /\ \A x \in Slots : Accepting(x, c) => Accepted(c)
    /\ Told(c, "ACCEPTED") => Accepted(c)

\* A row is written for a session object only.
FreshCalls == \A c \in Calls : session[c] = Null => row[c] = "NONE"

IInv ==
  /\ TypeOK
  /\ FreshCalls
  /\ TasksHaveSessions
  /\ TasksHaveRung
  /\ ActiveHaveRung
  /\ RequestsAreNew
  /\ AcceptsAreMarked
  /\ AcceptedOnce
  /\ EndedRowIsEnding

-----------------------------------------------------------------------------
(* Types.                                                                   *)

LEMMA InitType == Init => TypeOK
BY DEF Init, TypeOK

LEMMA HandleDisconnectType ==
  ASSUME TypeOK, ActiveHaveRung, NEW k \in Sockets, HandleDisconnect(k)
  PROVE  task' \in [Slots -> Task \cup {Null}]
<1>1. CASE UNCHANGED task
  BY <1>1 DEF TypeOK
<1>2. ASSUME NEW c \in activeCallSessions,
             Suspend(k, "disconnect", "writing", c, SocketUser[k], Peer(c, SocketUser[k]))
      PROVE  task' \in [Slots -> Task \cup {Null}]
  <2>1. session[c] \in Session /\ c \in Calls
    BY DEF TypeOK, ActiveHaveRung
  <2>2. Peer(c, SocketUser[k]) \in Users
    BY <2>1 DEF Peer, Session
  <2> QED
    BY <1>2, <2>1, <2>2, SlotFacts, SuspendType DEF Ops, EndOps
<1> QED
  BY <1>1, <1>2 DEF HandleDisconnect

LEMMA TypeStep == IInv /\ [Next]_vars => TypeOK'
<1> SUFFICES ASSUME IInv, [Next]_vars
             PROVE  TypeOK'
  OBVIOUS
<1> USE SlotFacts DEF connVars, callVars
<1>0. TypeOK /\ ActiveHaveRung /\ TasksHaveSessions
  BY DEF IInv
<1>1. ASSUME NEW k \in Sockets, Connect(k) PROVE TypeOK'
  BY <1>0, <1>1 DEF Connect, TypeOK
<1>2. ASSUME NEW k \in Sockets, AddConnectedClient(k) PROVE TypeOK'
  BY <1>0, <1>2 DEF AddConnectedClient, TypeOK
<1>3. ASSUME NEW k \in Sockets, Disconnect(k) PROVE TypeOK'
  <2>1. task' \in [Slots -> Task \cup {Null}]
    BY <1>0, <1>3, HandleDisconnectType DEF Disconnect
  <2> QED
    BY <1>0, <1>3, <2>1 DEF Disconnect, TypeOK
<1>4. ASSUME NEW k \in Sockets, RefuseConnection(k) PROVE TypeOK'
  <2>1. task' \in [Slots -> Task \cup {Null}]
    BY <1>0, <1>4, HandleDisconnectType DEF RefuseConnection, TypeOK
  <2> QED
    BY <1>0, <1>4, <2>1 DEF RefuseConnection, TypeOK
<1>5. ASSUME NEW h \in Handlers, NEW k \in Sockets, NEW v \in Users, OnCallRequest(h, k, v)
      PROVE  TypeOK'
  <2>1. task' \in [Slots -> Task \cup {Null}]
    BY <1>0, <1>5, SuspendType DEF OnCallRequest, Ops
  <2> QED
    BY <1>0, <1>5, <2>1 DEF OnCallRequest, TypeOK
<1>6. ASSUME NEW h \in Handlers, AuthFails(h) \/ RefuseRequest(h) PROVE TypeOK'
  <2>1. task' \in [Slots -> Task \cup {Null}]
    BY <1>0, <1>6, FinishType DEF AuthFails, RefuseRequest
  <2> QED
    BY <1>0, <1>6, <2>1 DEF AuthFails, RefuseRequest, TypeOK
<1>7. ASSUME NEW h \in Handlers, NEW c \in Calls, InitActiveCallSession(h, c)
      PROVE  TypeOK'
  <2>1. task[h] \in Task /\ task[h].user \in Users /\ task[h].peer \in Users
    BY <1>0, <1>7, TaskType DEF InitActiveCallSession, Waits
  <2>2. task' \in [Slots -> Task \cup {Null}]
    BY <1>0, <1>7, <2>1 DEF InitActiveCallSession, TypeOK, Task
  <2>3. session' \in [Calls -> Session \cup {Null}]
    BY <1>0, <1>7, <2>1 DEF InitActiveCallSession, TypeOK, Session, Pending
  <2> QED
    BY <1>0, <1>7, <2>2, <2>3 DEF InitActiveCallSession, TypeOK
<1>8. ASSUME NEW x \in Slots, RingCallee(x) PROVE TypeOK'
  <2>1. task[x].call \in Calls /\ session[task[x].call] \in Session
    BY <1>0, <1>8, TaskType DEF RingCallee, Waits, TasksHaveSessions, TypeOK
  <2>2. {<<session[task[x].call].callee, "REQUESTING">>} \in SUBSET (Users \X Events)
    BY <2>1 DEF Session, Events
  <2>3. emitted' \in [Calls -> SUBSET (Users \X Events)]
    BY <1>0, <1>8, <2>1, <2>2, AnnounceType DEF RingCallee
  <2>4. task' \in [Slots -> Task \cup {Null}]
    BY <1>0, <1>8, FinishType DEF RingCallee
  <2> QED
    BY <1>0, <1>8, <2>1, <2>3, <2>4 DEF RingCallee, TypeOK
<1>9. ASSUME NEW h \in Handlers, NEW c \in Calls, OnAccept(h, c) PROVE TypeOK'
  <2>1. session[c] \in Session
    BY <1>0, <1>9 DEF OnAccept, TypeOK, ActiveHaveRung
  <2>2. task' \in [Slots -> Task \cup {Null}]
    BY <1>0, <1>9, <2>1, SuspendType DEF OnAccept, Session, Ops
  <2>3. session' \in [Calls -> Session \cup {Null}]
    BY <1>0, <1>9, <2>1 DEF OnAccept, TypeOK, Session
  <2> QED
    BY <1>0, <1>9, <2>2, <2>3 DEF OnAccept, TypeOK
<1>10. ASSUME NEW x \in Slots, AnnounceAccepted(x) PROVE TypeOK'
  <2>1. task[x].call \in Calls /\ task[x].peer \in Users
    BY <1>0, <1>10, TaskType DEF AnnounceAccepted, Waits, TasksHaveSessions
  <2>2. emitted' \in [Calls -> SUBSET (Users \X Events)]
    BY <1>0, <1>10, <2>1, AnnounceType DEF AnnounceAccepted, Events
  <2>3. task' \in [Slots -> Task \cup {Null}]
    BY <1>0, <1>10, FinishType DEF AnnounceAccepted
  <2> QED
    BY <1>0, <1>10, <2>2, <2>3 DEF AnnounceAccepted, TypeOK
<1>11. ASSUME NEW h \in Handlers, NEW c \in Calls, OnReject(h, c) PROVE TypeOK'
  <2>1. session[c] \in Session
    BY <1>0, <1>11 DEF OnReject, TypeOK, ActiveHaveRung
  <2>2. task' \in [Slots -> Task \cup {Null}]
    BY <1>0, <1>11, <2>1, SuspendType DEF OnReject, Session, Ops, EndOps
  <2> QED
    BY <1>0, <1>11, <2>2 DEF OnReject, TypeOK
<1>12. ASSUME NEW h \in Handlers, NEW c \in Calls, NEW u \in Users, OnHangup(h, c, u)
       PROVE  TypeOK'
  <2>1. session[c] \in Session
    BY <1>0, <1>12 DEF OnHangup, TypeOK, ActiveHaveRung
  <2>2. Peer(c, u) \in Users
    BY <2>1 DEF Peer, Session
  <2>3. task' \in [Slots -> Task \cup {Null}]
    BY <1>0, <1>12, <2>2, SuspendType DEF OnHangup, Ops, EndOps
  <2> QED
    BY <1>0, <1>12, <2>3 DEF OnHangup, TypeOK
<1>13. ASSUME NEW h \in Handlers, AnnounceCallHangup(h) PROVE TypeOK'
  <2>1. task[h] \in Task /\ task[h].call \in Calls /\ task[h].peer \in Users
    BY <1>0, <1>13, TaskType DEF AnnounceCallHangup, Waits, TasksHaveSessions
  <2>2. emitted' \in [Calls -> SUBSET (Users \X Events)]
    BY <1>0, <1>13, <2>1, AnnounceType DEF AnnounceCallHangup, Events
  <2>3. task' \in [Slots -> Task \cup {Null}]
    BY <1>0, <1>13, <2>1 DEF AnnounceCallHangup, TypeOK, Task
  <2> QED
    BY <1>0, <1>13, <2>2, <2>3 DEF AnnounceCallHangup, TypeOK
<1>14. ASSUME NEW h \in Handlers, UnhandledRejection(h) PROVE TypeOK'
  <2>1. task[h].call \in Calls /\ task[h].peer \in Users
    BY <1>0, <1>14, TaskType DEF UnhandledRejection, Waits, TasksHaveSessions
  <2>2. emitted' \in [Calls -> SUBSET (Users \X Events)]
    BY <1>0, <1>14, <2>1, AnnounceType DEF UnhandledRejection, Events
  <2> QED
    BY <1>0, <1>14, <2>2 DEF UnhandledRejection, TypeOK
<1>15. ASSUME NEW c \in Calls, Expire(c) PROVE TypeOK'
  <2>1. CASE c \in activeCallSessions /\ session[c].status \in Pending
    <3>1. session[c] \in Session
      BY <1>0, <2>1 DEF TypeOK, ActiveHaveRung
    <3>2. task' \in [Slots -> Task \cup {Null}]
      BY <1>0, <1>15, <2>1, <3>1, SuspendType DEF Expire, Session, Ops, EndOps
    <3>3. {<<u, "TIMEOUT">> : u \in Parties(c)} \in SUBSET (Users \X Events)
      BY <3>1 DEF Parties, Session, Events
    <3>4. emitted' \in [Calls -> SUBSET (Users \X Events)]
      BY <1>0, <1>15, <2>1, <3>3, AnnounceType DEF Expire
    <3> QED
      BY <1>0, <1>15, <3>2, <3>4 DEF Expire, TypeOK
  <2>2. CASE ~(c \in activeCallSessions /\ session[c].status \in Pending)
    BY <1>0, <1>15, <2>2 DEF Expire, TypeOK
  <2> QED
    BY <2>1, <2>2
<1>16. ASSUME NEW x \in Slots, EndCall(x) PROVE TypeOK'
  <2>1. task[x] \in Task /\ task[x].call \in Calls /\ task[x].peer \in Users
    BY <1>0, <1>16, TaskType DEF EndCall, Waits, TasksHaveSessions, EndOps
  <2>2. EndNotices(task[x]) \in SUBSET (Users \X Events)
    BY <2>1 DEF EndNotices, Events
  <2>3. emitted' \in [Calls -> SUBSET (Users \X Events)]
    BY <1>0, <1>16, <2>1, <2>2, AnnounceType DEF EndCall
  <2>4. task' \in [Slots -> Task \cup {Null}]
    BY <1>0, <1>16, FinishType DEF EndCall
  <2> QED
    BY <1>0, <1>16, <2>1, <2>3, <2>4 DEF EndCall, TypeOK
<1>17. ASSUME NEW x \in Slots, DbSettles(x) PROVE TypeOK'
  <2>1. task[x] \in Task /\ task[x].call \in Calls
    BY <1>0, <1>17, TaskType DEF DbSettles, TasksHaveSessions
  <2>2. task' \in [Slots -> Task \cup {Null}]
    BY <1>0, <1>17, <2>1 DEF DbSettles, TypeOK, Task
  <2>3. row' \in [Calls -> {"NONE", "REQUESTING", "ACCEPTED", "ENDED"}]
    BY <1>0, <1>17, <2>1 DEF DbSettles, TypeOK, StatusWritten
  <2> QED
    BY <1>0, <1>17, <2>2, <2>3 DEF DbSettles, TypeOK
<1>18. CASE Restart
  BY <1>0, <1>18 DEF Restart, TypeOK
<1>19. CASE UNCHANGED vars
  BY <1>0, <1>19 DEF vars, TypeOK
<1> QED
  BY <1>1, <1>2, <1>3, <1>4, <1>5, <1>6, <1>7, <1>8, <1>9, <1>10, <1>11, <1>12, <1>13,
     <1>14, <1>15, <1>16, <1>17, <1>18, <1>19
     DEF Next, SocketStep, ClientEvent, AuthReply, Resume, Quiet
-----------------------------------------------------------------------------
(* The invariant is inductive.                                              *)

\* Whatever is announced of a call is of one that rang before, and is not that it
\* was accepted.
NoNews ==
  \A d \in Calls :
    /\ Rung(d)' <=> Rung(d)
    /\ Told(d, "ACCEPTED")' => Told(d, "ACCEPTED")
    /\ emitted'[d] = emitted[d] \/ (Rung(d) /\ session[d] # Null)

LEMMA SilenceIsNoNews == UNCHANGED emitted => NoNews
BY DEF NoNews, Rung, Told

LEMMA AnnounceTold ==
  ASSUME TypeOK, NEW c \in Calls, NEW S, Announce(c, S)
  PROVE  /\ \A d \in Calls, e \in Events : Told(d, e) => Told(d, e)'
         /\ \A d \in Calls, e \in Events : Told(d, e)' =>
              Told(d, e) \/ (d = c /\ \E u \in Users : <<u, e>> \in S)
         /\ \A d \in Calls : d # c => emitted'[d] = emitted[d]
         /\ \A u \in Users, e \in Events : <<u, e>> \in S => Told(c, e)'
<1>1. emitted'[c] = emitted[c] \cup S /\ \A d \in Calls : d # c => emitted'[d] = emitted[d]
  BY DEF Announce, TypeOK
<1> QED
  BY <1>1 DEF Told

LEMMA EndIsNoNews ==
  ASSUME TypeOK, NEW c \in Calls, NEW S, Announce(c, S), Rung(c), session[c] # Null,
         \A u \in Users : <<u, "ACCEPTED">> \notin S /\ <<u, "REQUESTING">> \notin S
  PROVE  NoNews
<1>1. "ACCEPTED" \in Events /\ "REQUESTING" \in Events
  BY DEF Events
<1> QED
  BY <1>1, AnnounceTold DEF NoNews, Rung

\* Who was rung stays rung, so TasksHaveRung is about the calls of the new tasks.
LEMMA TasksRungStep ==
  ASSUME \A d \in Calls : Rung(d) => Rung(d)',
         \A y \in Slots : task'[y] # Null /\ task'[y].op # "request" =>
           task'[y].call \in Calls /\ Rung(task'[y].call)
  PROVE  TasksHaveRung'
<1> SUFFICES ASSUME NEW y \in Slots, task'[y] # Null, task'[y].op # "request"
             PROVE  Rung(task[y].call)'
  BY DEF TasksHaveRung
<1>1. PICK d \in Calls : d = task'[y].call /\ Rung(d)
  OBVIOUS
<1>2. Rung(d)'
  BY <1>1
<1> QED
  BY <1>1, <1>2 DEF Rung, Told

\* Neither tasks nor what is known of a call changed.
LEMMA UnchangedKeeps ==
  ASSUME IInv, TypeOK', UNCHANGED <<session, activeCallSessions, row, task, emitted>>
  PROVE  IInv'
<1> USE DEF IInv, Rung, Told
<1>1. TasksHaveSessions' /\ TasksHaveRung' /\ ActiveHaveRung' /\ FreshCalls'
  BY DEF TasksHaveSessions, TasksHaveRung, ActiveHaveRung, FreshCalls
<1>2. RequestsAreNew'
  BY DEF RequestsAreNew, Requesting
<1>3. AcceptsAreMarked' /\ AcceptedOnce'
  BY DEF AcceptsAreMarked, AcceptedOnce, Accepting, Accepted
<1>4. EndedRowIsEnding'
  BY DEF EndedRowIsEnding, Ending
<1> QED
  BY <1>1, <1>2, <1>3, <1>4

\* A handler that starts to wait for its auth call, or to end a call in the table.
LEMMA SuspendKeeps ==
  ASSUME IInv, TypeOK', UNCHANGED <<session, activeCallSessions, row>>, NoNews,
         NEW x \in Slots, NEW op \in EndOps \cup {"request"}, NEW at, NEW c, NEW u, NEW v,
         Suspend(x, op, at, c, u, v),
         IF op = "request" THEN at = "auth" ELSE c \in activeCallSessions
  PROVE  IInv'
<1>0. /\ TypeOK /\ FreshCalls /\ TasksHaveSessions /\ TasksHaveRung /\ ActiveHaveRung
      /\ RequestsAreNew /\ AcceptsAreMarked /\ AcceptedOnce /\ EndedRowIsEnding
  BY DEF IInv
<1>1. /\ task[x] = Null
      /\ task'[x] = [op |-> op, at |-> at, call |-> c, user |-> u, peer |-> v]
      /\ \A y \in Slots : y # x => task'[y] = task[y]
  BY <1>0 DEF Suspend, TypeOK
<1>2. /\ task'[x].op = op /\ task'[x].at = at /\ task'[x].call = c
      /\ op # "accept"
  BY <1>1 DEF EndOps
<1>3. op # "request" => c \in Calls /\ session[c] # Null /\ Rung(c)
  BY <1>0 DEF TypeOK, ActiveHaveRung
<1>4. TasksHaveSessions'
  BY <1>0, <1>1, <1>2, <1>3 DEF TasksHaveSessions
<1>5. TasksHaveRung'
  <2>1. \A y \in Slots : task'[y] # Null /\ task'[y].op # "request" =>
          task'[y].call \in Calls /\ Rung(task'[y].call)
    BY <1>0, <1>1, <1>2, <1>3 DEF TasksHaveRung, TasksHaveSessions
  <2> QED
    BY <1>0, <2>1, TasksRungStep DEF NoNews
<1>6. ActiveHaveRung'
  BY <1>0 DEF ActiveHaveRung, NoNews
<1>7. \A y \in Slots, d \in Calls : Requesting(y, d)' => Requesting(y, d)
  BY <1>1, <1>2 DEF Requesting
<1>8. RequestsAreNew'
  BY <1>0, <1>7 DEF RequestsAreNew, NoNews
<1>9. \A y \in Slots, d \in Calls : Accepting(y, d)' => Accepting(y, d)
  BY <1>1, <1>2 DEF Accepting
<1>10. AcceptsAreMarked' /\ AcceptedOnce'
  BY <1>0, <1>9 DEF AcceptsAreMarked, AcceptedOnce, Accepted, NoNews
<1>11. \A y \in Slots, d \in Calls : Ending(y, d) => Ending(y, d)'
  BY <1>1 DEF Ending
<1>12. EndedRowIsEnding' /\ FreshCalls'
  BY <1>0, <1>11 DEF EndedRowIsEnding, FreshCalls, TypeOK
<1> QED
  BY <1>4, <1>5, <1>6, <1>8, <1>10, <1>12 DEF IInv

\* A handler that gives up before it sent a statement, or deletes the call it ends.
LEMMA FinishKeeps ==
  ASSUME IInv, TypeOK', UNCHANGED <<session, row>>, NoNews,
         NEW x \in Slots, task[x] # Null, Finish(x),
         \/ task[x].at = "auth" /\ UNCHANGED activeCallSessions
         \/ activeCallSessions' = activeCallSessions \ {task[x].call}
  PROVE  IInv'
<1>0. /\ TypeOK /\ FreshCalls /\ TasksHaveSessions /\ TasksHaveRung /\ ActiveHaveRung
      /\ RequestsAreNew /\ AcceptsAreMarked /\ AcceptedOnce /\ EndedRowIsEnding
  BY DEF IInv
<1>1. task'[x] = Null /\ \A y \in Slots : y # x => task'[y] = task[y]
  BY <1>0 DEF Finish, TypeOK
<1>2. TasksHaveSessions'
  BY <1>0, <1>1 DEF TasksHaveSessions
<1>3. TasksHaveRung'
  <2>1. \A y \in Slots : task'[y] # Null /\ task'[y].op # "request" =>
          task'[y].call \in Calls /\ Rung(task'[y].call)
    BY <1>0, <1>1 DEF TasksHaveRung, TasksHaveSessions
  <2> QED
    BY <1>0, <2>1, TasksRungStep DEF NoNews
<1>4. ActiveHaveRung'
  BY <1>0 DEF ActiveHaveRung, NoNews
<1>5. \A y \in Slots, d \in Calls : /\ Requesting(y, d)' => Requesting(y, d)
                                    /\ Accepting(y, d)' => Accepting(y, d)
  BY <1>1 DEF Requesting, Accepting
<1>6. RequestsAreNew'
  BY <1>0, <1>5 DEF RequestsAreNew, NoNews
<1>7. AcceptsAreMarked' /\ AcceptedOnce'
  BY <1>0, <1>5 DEF AcceptsAreMarked, AcceptedOnce, Accepted, NoNews
<1>8. EndedRowIsEnding'
  <2> SUFFICES ASSUME NEW d \in activeCallSessions', row'[d] = "ENDED"
               PROVE  \E y \in Slots : Ending(y, d)'
    BY DEF EndedRowIsEnding
  <2>1. PICK y \in Slots : Ending(y, d)
    BY <1>0 DEF EndedRowIsEnding
  <2>2. y # x
    BY <2>1 DEF Ending
  <2> QED
    BY <1>1, <2>1, <2>2 DEF Ending
<1>9. FreshCalls'
  BY <1>0 DEF FreshCalls
<1> QED
  BY <1>2, <1>3, <1>4, <1>6, <1>7, <1>8, <1>9 DEF IInv

LEMMA HandleDisconnectKeeps ==
  ASSUME IInv, TypeOK', UNCHANGED <<session, activeCallSessions, row, emitted>>,
         NEW k \in Sockets, HandleDisconnect(k)
  PROVE  IInv'
<1>1. CASE UNCHANGED task
  BY <1>1, UnchangedKeeps
<1>2. ASSUME NEW c \in activeCallSessions,
             Suspend(k, "disconnect", "writing", c, SocketUser[k], Peer(c, SocketUser[k]))
      PROVE  IInv'
  BY <1>2, SlotFacts, SilenceIsNoNews, SuspendKeeps DEF EndOps
<1> QED
  BY <1>1, <1>2 DEF HandleDisconnect

LEMMA InitActiveCallSessionKeeps ==
  ASSUME IInv, TypeOK', NEW h \in Handlers, NEW c \in Calls, InitActiveCallSession(h, c)
  PROVE  IInv'
<1>0. /\ TypeOK /\ FreshCalls /\ TasksHaveSessions /\ TasksHaveRung /\ ActiveHaveRung
      /\ RequestsAreNew /\ AcceptsAreMarked /\ AcceptedOnce /\ EndedRowIsEnding
      /\ UNCHANGED <<activeCallSessions, row, emitted>> /\ NoNews
  BY SilenceIsNoNews DEF IInv, InitActiveCallSession
<1>1. /\ h \in Slots /\ task[h] \in Task /\ task[h].op = "request" /\ task[h].at = "auth"
      /\ task[h].user \in Users /\ task[h].peer \in Users
  BY <1>0, TaskType, SlotFacts DEF InitActiveCallSession, Waits
<1>2. /\ task'[h] # Null /\ task'[h].op = "request"
      /\ task'[h].at = "writing" /\ task'[h].call = c
      /\ \A y \in Slots : y # h => task'[y] = task[y]
  <2>1. task'[h] = [task[h] EXCEPT !.at = "writing", !.call = c]
    BY <1>0, <1>1 DEF InitActiveCallSession, TypeOK
  <2>2. task'[h] \in Task
    BY <1>1, <2>1 DEF Task
  <2>3. task'[h] # Null
    BY <2>2, CallAssumption
  <2>4. task'[h].op = "request" /\ task'[h].at = "writing" /\ task'[h].call = c
    BY <1>1, <2>1 DEF Task
  <2>5. \A y \in Slots : y # h => task'[y] = task[y]
    BY <1>0 DEF InitActiveCallSession, TypeOK
  <2> QED
    BY <2>3, <2>4, <2>5
<1>3. /\ session[c] = Null /\ session'[c] # Null
      /\ \A d \in Calls : d # c => session'[d] = session[d]
  <2>1. [caller |-> task[h].user, callee |-> task[h].peer, status |-> "REQUESTING"] \in Session
    BY <1>1 DEF Session, Pending
  <2> QED
    BY <1>0, <2>1, CallAssumption DEF InitActiveCallSession, TypeOK
\* Nobody holds the fresh call, and nothing was said of it.
<1>4. c \notin activeCallSessions /\ emitted[c] = {} /\ ~Rung(c) /\ row[c] = "NONE"
      /\ ~Told(c, "ACCEPTED")
  BY <1>0, <1>3 DEF ActiveHaveRung, FreshCalls, Rung, Told
<1>5. \A y \in Slots : task[y] # Null /\ task[y].call = c =>
        task[y].op = "request" /\ task[y].at = "auth"
  BY <1>0, <1>3 DEF TasksHaveSessions
<1>6. TasksHaveSessions'
  BY <1>0, <1>2, <1>3 DEF TasksHaveSessions
<1>7. TasksHaveRung'
  <2>1. \A y \in Slots : task'[y] # Null /\ task'[y].op # "request" =>
          task'[y].call \in Calls /\ Rung(task'[y].call)
    BY <1>0, <1>2 DEF TasksHaveRung, TasksHaveSessions
  <2> QED
    BY <1>0, <2>1, TasksRungStep DEF NoNews
<1>8. ActiveHaveRung'
  BY <1>0, <1>3, <1>4 DEF ActiveHaveRung, NoNews
<1>9. \A y \in Slots, d \in Calls : /\ Requesting(y, d)' => Requesting(y, d) \/ (y = h /\ d = c)
                                    /\ Accepting(y, d)' => Accepting(y, d) /\ d # c
  BY <1>2, <1>5 DEF Requesting, Accepting
<1>10. \A y \in Slots : ~Requesting(y, c)
  BY <1>5 DEF Requesting
<1>11. RequestsAreNew'
  BY <1>0, <1>4, <1>9, <1>10 DEF RequestsAreNew, NoNews
<1>12. AcceptsAreMarked' /\ AcceptedOnce'
  BY <1>0, <1>3, <1>4, <1>9 DEF AcceptsAreMarked, AcceptedOnce, Accepted, NoNews
<1>13. \A y \in Slots, d \in Calls : Ending(y, d) => Ending(y, d)'
  BY <1>1, <1>2 DEF Ending, EndOps
<1>14. EndedRowIsEnding'
  BY <1>0, <1>13 DEF EndedRowIsEnding, TypeOK
<1>15. FreshCalls'
  BY <1>0, <1>3 DEF FreshCalls
<1> QED
  BY <1>6, <1>7, <1>8, <1>11, <1>12, <1>14, <1>15 DEF IInv

LEMMA RingCalleeKeeps ==
  ASSUME IInv, TypeOK', NEW x \in Slots, RingCallee(x)
  PROVE  IInv'
<1>0. /\ TypeOK /\ FreshCalls /\ TasksHaveSessions /\ TasksHaveRung /\ ActiveHaveRung
      /\ RequestsAreNew /\ AcceptsAreMarked /\ AcceptedOnce /\ EndedRowIsEnding
      /\ UNCHANGED <<session, row>>
  BY DEF IInv, RingCallee
<1>1. PICK c \in Calls :
      /\ c = task[x].call
      /\ task[x] # Null /\ session[c] \in Session /\ session[c] # Null
      /\ session[c].callee \in Users
      /\ Requesting(x, c)
      /\ activeCallSessions' = activeCallSessions \cup {c}
      /\ Announce(c, {<<session[c].callee, "REQUESTING">>})
  <2>1. /\ task[x] # Null /\ task[x].op = "request" /\ task[x].at = "written"
        /\ task[x].call \in Calls /\ session[task[x].call] # Null
    BY <1>0 DEF RingCallee, Waits, TasksHaveSessions
  <2>2. session[task[x].call] \in Session /\ session[task[x].call].callee \in Users
    BY <1>0, <2>1 DEF TypeOK, Session
  <2> QED
    BY <2>1, <2>2 DEF RingCallee, Requesting
<1>2. task'[x] = Null /\ \A y \in Slots : y # x => task'[y] = task[y]
  BY <1>0 DEF RingCallee, Finish, TypeOK
<1>3. /\ Rung(c)'
      /\ \A d \in Calls : Rung(d) => Rung(d)'
      /\ \A d \in Calls : Rung(d)' /\ d # c => Rung(d)
      /\ \A d \in Calls : Told(d, "ACCEPTED")' => Told(d, "ACCEPTED")
      /\ \A d \in Calls : d # c => emitted'[d] = emitted[d]
  <2>1. "ACCEPTED" \in Events /\ "REQUESTING" \in Events
    BY DEF Events
  <2>2. \A u \in Users : <<u, "ACCEPTED">> \notin {<<session[c].callee, "REQUESTING">>}
    OBVIOUS
  <2> DEFINE S == {<<session[c].callee, "REQUESTING">>}
  <2>3. Announce(c, S) /\ <<session[c].callee, "REQUESTING">> \in S
    BY <1>1
  <2> HIDE DEF S
  <2>4. /\ \A d \in Calls, e \in Events : Told(d, e) => Told(d, e)'
        /\ \A d \in Calls, e \in Events : Told(d, e)' =>
             Told(d, e) \/ (d = c /\ \E u \in Users : <<u, e>> \in S)
        /\ \A d \in Calls : d # c => emitted'[d] = emitted[d]
        /\ \A u \in Users, e \in Events : <<u, e>> \in S => Told(c, e)'
    BY <1>0, <2>3, AnnounceTold
  <2> QED
    BY <1>1, <2>1, <2>2, <2>3, <2>4 DEF Rung, S
<1>4. row[c] # "ENDED"
  BY <1>0, <1>1 DEF RequestsAreNew
<1>5. TasksHaveSessions'
  BY <1>0, <1>2 DEF TasksHaveSessions
<1>6. TasksHaveRung'
  <2>1. \A y \in Slots : task'[y] # Null /\ task'[y].op # "request" =>
          task'[y].call \in Calls /\ Rung(task'[y].call)
    BY <1>0, <1>2 DEF TasksHaveRung, TasksHaveSessions
  <2> QED
    BY <1>3, <2>1, TasksRungStep
<1>7. ActiveHaveRung'
  BY <1>0, <1>1, <1>3 DEF ActiveHaveRung
<1>8. \A y \in Slots, d \in Calls : /\ Requesting(y, d)' => Requesting(y, d) /\ y # x
                                    /\ Accepting(y, d)' => Accepting(y, d)
  BY <1>2 DEF Requesting, Accepting
<1>9. RequestsAreNew'
  <2> SUFFICES ASSUME NEW d \in Calls, NEW y \in Slots, Requesting(y, d)'
               PROVE  /\ d \notin activeCallSessions' /\ ~Rung(d)' /\ row'[d] # "ENDED"
                      /\ \A z \in Slots : Requesting(z, d)' => y = z
    BY DEF RequestsAreNew
  <2>1. Requesting(y, d) /\ y # x
    BY <1>8
  <2>2. d # c
    BY <1>0, <1>1, <2>1 DEF RequestsAreNew
  <2> QED
    BY <1>0, <1>1, <1>3, <1>8, <2>1, <2>2 DEF RequestsAreNew
<1>10. AcceptsAreMarked' /\ AcceptedOnce'
  BY <1>0, <1>3, <1>8 DEF AcceptsAreMarked, AcceptedOnce, Accepted
<1>11. \A y \in Slots, d \in Calls : Ending(y, d) => Ending(y, d)'
  BY <1>1, <1>2 DEF Ending, EndOps, Requesting
<1>12. EndedRowIsEnding' /\ FreshCalls'
  BY <1>0, <1>1, <1>4, <1>11 DEF EndedRowIsEnding, FreshCalls, TypeOK
<1> QED
  BY <1>5, <1>6, <1>7, <1>9, <1>10, <1>12 DEF IInv

LEMMA OnAcceptKeeps ==
  ASSUME IInv, TypeOK', NEW h \in Handlers, NEW c \in Calls, OnAccept(h, c)
  PROVE  IInv'
<1>0. /\ TypeOK /\ FreshCalls /\ TasksHaveSessions /\ TasksHaveRung /\ ActiveHaveRung
      /\ RequestsAreNew /\ AcceptsAreMarked /\ AcceptedOnce /\ EndedRowIsEnding
      /\ UNCHANGED <<activeCallSessions, row, emitted>> /\ NoNews
  BY SilenceIsNoNews DEF IInv, OnAccept
<1>1. /\ h \in Slots /\ c \in activeCallSessions /\ session[c] # Null /\ Rung(c)
      /\ ~Accepted(c)
  BY <1>0, SlotFacts DEF ActiveHaveRung, OnAccept, Accepted, Pending
<1>2. /\ session'[c] # Null /\ session'[c].status = "ACCEPTED"
      /\ \A d \in Calls : d # c => session'[d] = session[d]
  <2>1. session[c] \in Session
    BY <1>0, <1>1 DEF TypeOK
  <2>2. session'[c] = [session[c] EXCEPT !.status = "ACCEPTED"]
    BY <1>0 DEF OnAccept, TypeOK
  <2>3. session'[c] \in Session /\ session'[c].status = "ACCEPTED"
    BY <2>1, <2>2 DEF Session
  <2> QED
    BY <1>0, <2>3, CallAssumption DEF OnAccept, TypeOK
<1>3. /\ task[h] = Null
      /\ task'[h].op = "accept" /\ task'[h].at = "writing" /\ task'[h].call = c
      /\ \A y \in Slots : y # h => task'[y] = task[y]
  BY <1>0, <1>1 DEF OnAccept, Suspend, TypeOK
<1>4. TasksHaveSessions'
  BY <1>0, <1>1, <1>2, <1>3 DEF TasksHaveSessions
<1>5. TasksHaveRung'
  <2>1. \A y \in Slots : task'[y] # Null /\ task'[y].op # "request" =>
          task'[y].call \in Calls /\ Rung(task'[y].call)
    BY <1>0, <1>1, <1>3 DEF TasksHaveRung, TasksHaveSessions
  <2> QED
    BY <1>0, <2>1, TasksRungStep DEF NoNews
<1>6. ActiveHaveRung'
  BY <1>0, <1>2 DEF ActiveHaveRung, NoNews
<1>7. \A y \in Slots, d \in Calls : /\ Requesting(y, d)' => Requesting(y, d)
                                    /\ Accepting(y, d)' => Accepting(y, d) \/ (y = h /\ d = c)
                                    /\ Ending(y, d) => Ending(y, d)'
  BY <1>3 DEF Requesting, Accepting, Ending
<1>8. RequestsAreNew'
  BY <1>0, <1>7 DEF RequestsAreNew, NoNews
\* The call was not marked, so nobody was accepting it.
<1>9. ~Told(c, "ACCEPTED") /\ \A y \in Slots : ~Accepting(y, c)
  BY <1>0, <1>1 DEF AcceptsAreMarked
<1>10. AcceptsAreMarked' /\ AcceptedOnce'
  BY <1>0, <1>2, <1>7, <1>9 DEF AcceptsAreMarked, AcceptedOnce, Accepted, NoNews
<1>11. EndedRowIsEnding' /\ FreshCalls'
  BY <1>0, <1>2, <1>7 DEF EndedRowIsEnding, FreshCalls, TypeOK
<1> QED
  BY <1>4, <1>5, <1>6, <1>8, <1>10, <1>11 DEF IInv

LEMMA AnnounceAcceptedKeeps ==
  ASSUME IInv, TypeOK', NEW x \in Slots, AnnounceAccepted(x)
  PROVE  IInv'
<1>0. /\ TypeOK /\ FreshCalls /\ TasksHaveSessions /\ TasksHaveRung /\ ActiveHaveRung
      /\ RequestsAreNew /\ AcceptsAreMarked /\ AcceptedOnce /\ EndedRowIsEnding
      /\ UNCHANGED <<session, activeCallSessions, row>>
  BY DEF IInv, AnnounceAccepted, callVars
<1>1. PICK c \in Calls :
      /\ c = task[x].call
      /\ task[x] # Null /\ session[c] # Null /\ Rung(c) /\ Accepting(x, c)
      /\ task[x].op = "accept"
      /\ Announce(c, {<<task[x].peer, "ACCEPTED">>})
  BY <1>0 DEF AnnounceAccepted, Waits, TasksHaveSessions, TasksHaveRung, Accepting
<1>2. task'[x] = Null /\ \A y \in Slots : y # x => task'[y] = task[y]
  BY <1>0 DEF AnnounceAccepted, Finish, TypeOK
<1>3. /\ \A d \in Calls : Rung(d)' <=> Rung(d)
      /\ \A d \in Calls : Told(d, "ACCEPTED")' /\ d # c => Told(d, "ACCEPTED")
      /\ \A d \in Calls : d # c => emitted'[d] = emitted[d]
  <2>1. "ACCEPTED" \in Events /\ "REQUESTING" \in Events
    BY DEF Events
  <2> QED
    BY <1>0, <1>1, <2>1, AnnounceTold DEF Rung
<1>4. TasksHaveSessions'
  BY <1>0, <1>2 DEF TasksHaveSessions
<1>5. TasksHaveRung'
  <2>1. \A y \in Slots : task'[y] # Null /\ task'[y].op # "request" =>
          task'[y].call \in Calls /\ Rung(task'[y].call)
    BY <1>0, <1>2 DEF TasksHaveRung, TasksHaveSessions
  <2> QED
    BY <1>3, <2>1, TasksRungStep
<1>6. ActiveHaveRung'
  BY <1>0, <1>1, <1>3 DEF ActiveHaveRung
<1>7. \A y \in Slots, d \in Calls : /\ Requesting(y, d)' => Requesting(y, d)
                                    /\ Accepting(y, d)' => Accepting(y, d) /\ y # x
                                    /\ Ending(y, d) => Ending(y, d)'
  BY <1>1, <1>2 DEF Requesting, Accepting, Ending, EndOps
<1>8. RequestsAreNew'
  BY <1>0, <1>3, <1>7 DEF RequestsAreNew
<1>9. \A y \in Slots : ~Accepting(y, c)'
  BY <1>0, <1>1, <1>7 DEF AcceptedOnce
<1>10. AcceptsAreMarked' /\ AcceptedOnce'
  BY <1>0, <1>1, <1>3, <1>7, <1>9 DEF AcceptsAreMarked, AcceptedOnce, Accepted
<1>11. EndedRowIsEnding' /\ FreshCalls'
  BY <1>0, <1>7 DEF EndedRowIsEnding, FreshCalls, TypeOK
<1> QED
  BY <1>4, <1>5, <1>6, <1>8, <1>10, <1>11 DEF IInv

LEMMA AnnounceCallHangupKeeps ==
  ASSUME IInv, TypeOK', NEW h \in Handlers, AnnounceCallHangup(h)
  PROVE  IInv'
<1>0. /\ TypeOK /\ FreshCalls /\ TasksHaveSessions /\ TasksHaveRung /\ ActiveHaveRung
      /\ RequestsAreNew /\ AcceptsAreMarked /\ AcceptedOnce /\ EndedRowIsEnding
      /\ UNCHANGED <<session, activeCallSessions, row>>
  BY DEF IInv, AnnounceCallHangup, callVars
<1>1. /\ h \in Slots /\ task[h] # Null /\ task[h] \in Task
      /\ task[h].op = "hangup" /\ task[h].at = "auth"
      /\ task[h].call \in Calls /\ session[task[h].call] # Null /\ Rung(task[h].call)
  BY <1>0, SlotFacts, TaskType
     DEF AnnounceCallHangup, Waits, TasksHaveSessions, TasksHaveRung
<1>2. NoNews
  BY <1>0, <1>1, EndIsNoNews DEF AnnounceCallHangup
<1>3. /\ task'[h].op = "hangup" /\ task'[h].call = task[h].call
      /\ task'[h].at = "writing"
      /\ \A y \in Slots : y # h => task'[y] = task[y]
  BY <1>0, <1>1 DEF AnnounceCallHangup, TypeOK, Task
<1>4. TasksHaveSessions'
  BY <1>0, <1>1, <1>3 DEF TasksHaveSessions
<1>5. TasksHaveRung'
  <2>1. \A y \in Slots : task'[y] # Null /\ task'[y].op # "request" =>
          task'[y].call \in Calls /\ Rung(task'[y].call)
    BY <1>0, <1>1, <1>3 DEF TasksHaveRung, TasksHaveSessions
  <2> QED
    BY <1>2, <2>1, TasksRungStep DEF NoNews
<1>6. ActiveHaveRung'
  BY <1>0, <1>2 DEF ActiveHaveRung, NoNews
<1>7. \A y \in Slots, d \in Calls : /\ Requesting(y, d)' => Requesting(y, d)
                                    /\ Accepting(y, d)' => Accepting(y, d)
                                    /\ Ending(y, d) => Ending(y, d)'
  BY <1>1, <1>3 DEF Requesting, Accepting, Ending, EndOps
<1>8. RequestsAreNew'
  BY <1>0, <1>2, <1>7 DEF RequestsAreNew, NoNews
<1>9. AcceptsAreMarked' /\ AcceptedOnce'
  BY <1>0, <1>2, <1>7 DEF AcceptsAreMarked, AcceptedOnce, Accepted, NoNews
<1>10. EndedRowIsEnding' /\ FreshCalls'
  BY <1>0, <1>7 DEF EndedRowIsEnding, FreshCalls, TypeOK
<1> QED
  BY <1>4, <1>5, <1>6, <1>8, <1>9, <1>10 DEF IInv

\* The hangup notice that goes out before the process ends.
LEMMA RejectionIsNoNews ==
  ASSUME IInv, NEW h \in Handlers, UnhandledRejection(h)
  PROVE  /\ task[h].call \in Calls
         /\ Announce(task[h].call, {<<task[h].peer, "HANGUP">>})
         /\ NoNews
<1>1. /\ TypeOK /\ task[h].call \in Calls /\ session[task[h].call] # Null /\ Rung(task[h].call)
      /\ Announce(task[h].call, {<<task[h].peer, "HANGUP">>})
  BY SlotFacts DEF IInv, UnhandledRejection, Waits, TasksHaveSessions, TasksHaveRung
<1> QED
  BY <1>1, EndIsNoNews

LEMMA UnhandledRejectionKeeps ==
  ASSUME IInv, TypeOK', NEW h \in Handlers, UnhandledRejection(h)
  PROVE  IInv'
<1>0. /\ TypeOK /\ FreshCalls /\ ActiveHaveRung /\ AcceptsAreMarked
      /\ UNCHANGED <<session, row>> /\ NoNews
      /\ activeCallSessions' = {}
  BY RejectionIsNoNews DEF IInv, UnhandledRejection
<1>1. \A y \in Slots : task'[y] = Null
  BY DEF UnhandledRejection
<1>2. TasksHaveSessions' /\ TasksHaveRung' /\ RequestsAreNew'
  BY <1>1 DEF TasksHaveSessions, TasksHaveRung, RequestsAreNew, Requesting
<1>3. ActiveHaveRung' /\ FreshCalls' /\ EndedRowIsEnding'
  BY <1>0 DEF ActiveHaveRung, FreshCalls, EndedRowIsEnding, NoNews
<1>4. AcceptsAreMarked' /\ AcceptedOnce'
  BY <1>0, <1>1 DEF AcceptsAreMarked, AcceptedOnce, Accepted, Accepting, NoNews
<1> QED
  BY <1>2, <1>3, <1>4 DEF IInv

LEMMA ExpireKeeps ==
  ASSUME IInv, TypeOK', NEW c \in Calls, Expire(c)
  PROVE  IInv'
<1>1. CASE c \in activeCallSessions /\ session[c].status \in Pending
  <2>1. TypeOK /\ Rung(c) /\ session[c] # Null
    BY <1>1 DEF IInv, ActiveHaveRung
  <2>2. Announce(c, {<<u, "TIMEOUT">> : u \in Parties(c)})
    BY <1>1 DEF Expire
  <2>3. NoNews
    BY <2>1, <2>2, EndIsNoNews
  <2>4. Suspend(c, "expire", "writing", c, session[c].caller, session[c].callee)
        /\ UNCHANGED <<session, activeCallSessions, row>>
    BY <1>1 DEF Expire
  <2> QED
    BY <1>1, <2>3, <2>4, SlotFacts, SuspendKeeps DEF EndOps
<1>2. CASE ~(c \in activeCallSessions /\ session[c].status \in Pending)
  BY <1>2, UnchangedKeeps DEF Expire
<1> QED
  BY <1>1, <1>2

LEMMA EndCallKeeps ==
  ASSUME IInv, TypeOK', NEW x \in Slots, EndCall(x)
  PROVE  IInv'
<1>1. /\ TypeOK /\ task[x] # Null /\ task[x].op \in EndOps /\ task[x].call \in Calls
      /\ session[task[x].call] # Null /\ Rung(task[x].call)
  BY DEF IInv, EndCall, Waits, TasksHaveSessions, TasksHaveRung, EndOps
<1>2. \A u \in Users : /\ <<u, "ACCEPTED">> \notin EndNotices(task[x])
                       /\ <<u, "REQUESTING">> \notin EndNotices(task[x])
  BY DEF EndNotices
<1>3. NoNews
  BY <1>1, <1>2, EndIsNoNews DEF EndCall
<1> QED
  BY <1>1, <1>3, FinishKeeps DEF EndCall

LEMMA DbSettlesKeeps ==
  ASSUME IInv, TypeOK', NEW x \in Slots, DbSettles(x)
  PROVE  IInv'
<1>0. /\ TypeOK /\ FreshCalls /\ TasksHaveSessions /\ TasksHaveRung /\ ActiveHaveRung
      /\ RequestsAreNew /\ AcceptsAreMarked /\ AcceptedOnce /\ EndedRowIsEnding
      /\ UNCHANGED <<session, activeCallSessions, emitted>> /\ NoNews
  BY SilenceIsNoNews DEF IInv, DbSettles, callVars
<1>1. PICK c \in Calls :
      /\ c = task[x].call
      /\ task[x] # Null /\ task[x] \in Task /\ task[x].at = "writing"
      /\ session[c] # Null
  BY <1>0, TaskType DEF DbSettles, TasksHaveSessions
<1>2. /\ task'[x] # Null
      /\ task'[x].op = task[x].op /\ task'[x].call = c /\ task'[x].at = "written"
      /\ \A y \in Slots : y # x => task'[y] = task[y]
  <2>1. task'[x] = [task[x] EXCEPT !.at = "written"]
    BY <1>0 DEF DbSettles, TypeOK
  <2>2. task'[x] \in Task
    BY <1>1, <2>1 DEF Task
  <2> QED
    BY <1>0, <1>1, <2>1, <2>2, CallAssumption DEF DbSettles, TypeOK, Task
<1>3. /\ \A d \in Calls : d # c => row'[d] = row[d]
      /\ row'[c] = row[c] \/ row'[c] = StatusWritten(task[x].op)
  BY <1>0, <1>1 DEF DbSettles, TypeOK
<1>4. TasksHaveSessions'
  BY <1>0, <1>1, <1>2 DEF TasksHaveSessions
<1>5. TasksHaveRung'
  <2>1. \A y \in Slots : task'[y] # Null /\ task'[y].op # "request" =>
          task'[y].call \in Calls /\ Rung(task'[y].call)
    BY <1>0, <1>1, <1>2 DEF TasksHaveRung, TasksHaveSessions
  <2> QED
    BY <1>0, <2>1, TasksRungStep DEF NoNews
<1>6. ActiveHaveRung'
  BY <1>0 DEF ActiveHaveRung, NoNews
<1>7. \A y \in Slots, d \in Calls : /\ Requesting(y, d)' => Requesting(y, d)
                                    /\ Accepting(y, d)' => Accepting(y, d)
                                    /\ Ending(y, d) => Ending(y, d)'
  BY <1>1, <1>2 DEF Requesting, Accepting, Ending
\* Only the statement of an end writes ENDED, and no end holds an unrung call.
<1>8. row'[c] = "ENDED" => row[c] = "ENDED" \/ (Ending(x, c)' /\ Rung(c))
  <2>1. ASSUME task[x].op \in EndOps PROVE Ending(x, c)' /\ Rung(c)
    BY <1>0, <1>1, <1>2, <2>1 DEF Ending, TasksHaveRung, EndOps
  <2>2. ASSUME task[x].op \notin EndOps PROVE StatusWritten(task[x].op) # "ENDED"
    BY <1>1, <2>2 DEF StatusWritten, Task, Ops
  <2> QED
    BY <1>3, <2>1, <2>2
<1>9. RequestsAreNew'
  BY <1>0, <1>3, <1>7, <1>8 DEF RequestsAreNew, NoNews
<1>10. AcceptsAreMarked' /\ AcceptedOnce'
  BY <1>0, <1>7 DEF AcceptsAreMarked, AcceptedOnce, Accepted, NoNews
<1>11. EndedRowIsEnding'
  BY <1>0, <1>3, <1>7, <1>8 DEF EndedRowIsEnding, TypeOK
<1>12. FreshCalls'
  BY <1>0, <1>1, <1>3 DEF FreshCalls
<1> QED
  BY <1>4, <1>5, <1>6, <1>9, <1>10, <1>11, <1>12 DEF IInv

LEMMA InitIInv == Init => IInv
<1> SUFFICES ASSUME Init PROVE IInv
  OBVIOUS
<1>1. TypeOK
  BY InitType
<1>2. FreshCalls /\ TasksHaveSessions /\ TasksHaveRung /\ ActiveHaveRung
  BY DEF Init, FreshCalls, TasksHaveSessions, TasksHaveRung, ActiveHaveRung
<1>3. RequestsAreNew /\ AcceptsAreMarked /\ AcceptedOnce /\ EndedRowIsEnding
  BY DEF Init, RequestsAreNew, AcceptsAreMarked, AcceptedOnce, EndedRowIsEnding,
         Requesting, Accepting, Told
<1> QED
  BY <1>1, <1>2, <1>3 DEF IInv

LEMMA IInvStep == IInv /\ [Next]_vars => IInv'
<1> SUFFICES ASSUME IInv, [Next]_vars
             PROVE  IInv'
  OBVIOUS
<1> USE SlotFacts
<1>0. TypeOK'
  BY TypeStep
<1>1. ASSUME NEW k \in Sockets, Connect(k) \/ AddConnectedClient(k) PROVE IInv'
  BY <1>0, <1>1, UnchangedKeeps DEF Connect, AddConnectedClient, callVars
<1>2. ASSUME NEW k \in Sockets, Disconnect(k) PROVE IInv'
  BY <1>0, <1>2, HandleDisconnectKeeps DEF Disconnect, callVars
<1>3. ASSUME NEW k \in Sockets, RefuseConnection(k) PROVE IInv'
  BY <1>0, <1>3, HandleDisconnectKeeps, UnchangedKeeps DEF RefuseConnection, callVars
<1>4. ASSUME NEW h \in Handlers, NEW k \in Sockets, NEW v \in Users, OnCallRequest(h, k, v)
      PROVE  IInv'
  BY <1>0, <1>4, SilenceIsNoNews, SuspendKeeps DEF OnCallRequest, callVars
<1>5. ASSUME NEW h \in Handlers, AuthFails(h) \/ RefuseRequest(h) PROVE IInv'
  BY <1>0, <1>5, SilenceIsNoNews, FinishKeeps DEF AuthFails, RefuseRequest, Waits, callVars
<1>6. ASSUME NEW h \in Handlers, NEW c \in Calls, InitActiveCallSession(h, c) PROVE IInv'
  BY <1>0, <1>6, InitActiveCallSessionKeeps
<1>7. ASSUME NEW x \in Slots, RingCallee(x) PROVE IInv'
  BY <1>0, <1>7, RingCalleeKeeps
<1>8. ASSUME NEW h \in Handlers, NEW c \in Calls, OnAccept(h, c) PROVE IInv'
  BY <1>0, <1>8, OnAcceptKeeps
<1>9. ASSUME NEW x \in Slots, AnnounceAccepted(x) PROVE IInv'
  BY <1>0, <1>9, AnnounceAcceptedKeeps
<1>10. ASSUME NEW h \in Handlers, NEW c \in Calls, OnReject(h, c) PROVE IInv'
  BY <1>0, <1>10, SilenceIsNoNews, SuspendKeeps DEF OnReject, callVars, EndOps
<1>11. ASSUME NEW h \in Handlers, NEW c \in Calls, NEW u \in Users, OnHangup(h, c, u)
       PROVE  IInv'
  BY <1>0, <1>11, SilenceIsNoNews, SuspendKeeps DEF OnHangup, callVars, EndOps
<1>12. ASSUME NEW h \in Handlers, AnnounceCallHangup(h) PROVE IInv'
  BY <1>0, <1>12, AnnounceCallHangupKeeps
<1>13. ASSUME NEW h \in Handlers, UnhandledRejection(h) PROVE IInv'
  BY <1>0, <1>13, UnhandledRejectionKeeps
<1>14. ASSUME NEW c \in Calls, Expire(c) PROVE IInv'
  BY <1>0, <1>14, ExpireKeeps
<1>15. ASSUME NEW x \in Slots, EndCall(x) PROVE IInv'
  BY <1>0, <1>15, EndCallKeeps
<1>16. ASSUME NEW x \in Slots, DbSettles(x) PROVE IInv'
  BY <1>0, <1>16, DbSettlesKeeps
<1>17. CASE Restart
  BY <1>0, <1>17, UnchangedKeeps DEF Restart, callVars
<1>18. CASE UNCHANGED vars
  BY <1>0, <1>18, UnchangedKeeps DEF vars
<1> QED
  BY <1>1, <1>2, <1>3, <1>4, <1>5, <1>6, <1>7, <1>8, <1>9, <1>10, <1>11, <1>12, <1>13,
     <1>14, <1>15, <1>16, <1>17, <1>18
     DEF Next, SocketStep, ClientEvent, AuthReply, Resume, Quiet

LEMMA Invariance == Spec => []IInv
BY InitIInv, IInvStep, PTL DEF Spec

\* TypeOK: at every step of every interleaving the tables of the service hold what
\* their types say.
THEOREM TypeCorrect == Spec => []TypeOK
BY Invariance, PTL DEF IInv

\* AcceptedOnce: acceptCall changes the status before its first await, so two
\* devices of the callee that accept at once cannot both be past the check.
THEOREM OneAcceptWins == Spec => []AcceptedOnce
BY Invariance, PTL DEF IInv

\* EndedRowIsEnding: endCall writes ENDED for calls it is about to delete, whatever
\* order Postgres commits statements in and whichever of them fail.
THEOREM EndedRowsLeave == Spec => []EndedRowIsEnding
BY Invariance, PTL DEF IInv

\* RingsFirst: nothing is announced of a call before its callee was rung.
THEOREM RingingComesFirst == Spec => []RingsFirst
<1>1. IInv => RingsFirst
  BY DEF IInv, ActiveHaveRung, RingsFirst
<1> QED
  BY <1>1, Invariance, PTL

-----------------------------------------------------------------------------
(* Steps.                                                                   *)

\* EndedForGood: a deleted session is never put back, however many handlers still
\* hold the object.
THEOREM NoCallComesBack == Spec => EndedForGood
<1>1. IInv /\ [Next]_vars =>
        \A c \in Calls : Rung(c) /\ c \notin activeCallSessions => c \notin activeCallSessions'
  <2> SUFFICES ASSUME IInv, [Next]_vars, NEW c \in Calls, Rung(c), c \notin activeCallSessions
               PROVE  c \notin activeCallSessions'
    OBVIOUS
  <2>1. ASSUME NEW x \in Slots, RingCallee(x) PROVE c # task[x].call
    BY <2>1 DEF IInv, RequestsAreNew, RingCallee, Waits, Requesting
  <2>2. CASE UNCHANGED activeCallSessions
    BY <2>2
  <2>3. \/ UNCHANGED activeCallSessions
        \/ \E x \in Slots : RingCallee(x) \/ EndCall(x)
        \/ \E h \in Handlers : UnhandledRejection(h)
    BY DEF Next, SocketStep, ClientEvent, AuthReply, Resume, Quiet, Connect,
           AddConnectedClient, Disconnect, RefuseConnection, OnCallRequest, AuthFails,
           RefuseRequest, InitActiveCallSession, OnAccept, AnnounceAccepted, OnReject,
           OnHangup, AnnounceCallHangup, Expire, DbSettles, Restart, vars, callVars
  <2> QED
    BY <2>1, <2>2, <2>3 DEF RingCallee, EndCall, UnhandledRejection
<1> QED
  BY <1>1, Invariance, PTL DEF Spec, EndedForGood

\* What a step may announce of a call: only Expire says TIMEOUT.
LEMMA OnlyExpireTimesOut ==
  ASSUME IInv, [Next]_vars, NEW c \in Calls, ~Told(c, "TIMEOUT"), Told(c, "TIMEOUT")'
  PROVE  Expire(c) /\ c \in activeCallSessions /\ session[c].status \in Pending
<1> USE DEF IInv
<1>1. "TIMEOUT" \in Events
  BY DEF Events
<1>2. ASSUME UNCHANGED emitted PROVE FALSE
  BY <1>2 DEF Told
<1>3. ASSUME NEW d \in Calls, NEW S, Announce(d, S),
             \A u \in Users : <<u, "TIMEOUT">> \notin S
      PROVE  FALSE
  BY <1>1, <1>3, AnnounceTold
<1>4. ASSUME NEW x \in Slots, RingCallee(x) PROVE FALSE
  <2>1. task[x].call \in Calls
    BY <1>4 DEF RingCallee, Waits, TasksHaveSessions
  <2>2. Announce(task[x].call, {<<session[task[x].call].callee, "REQUESTING">>})
    BY <1>4 DEF RingCallee
  <2> QED
    BY <1>3, <2>1, <2>2
<1>5. ASSUME NEW x \in Slots, AnnounceAccepted(x) PROVE FALSE
  BY <1>3, <1>5 DEF AnnounceAccepted, Waits, TasksHaveSessions
<1>6. ASSUME NEW x \in Slots, EndCall(x) PROVE FALSE
  <2>1. task[x].call \in Calls /\ Announce(task[x].call, EndNotices(task[x]))
    BY <1>6 DEF EndCall, Waits, TasksHaveSessions, EndOps
  <2>2. \A u \in Users : <<u, "TIMEOUT">> \notin EndNotices(task[x])
    BY DEF EndNotices
  <2> QED
    BY <1>3, <2>1, <2>2
<1>7. ASSUME NEW h \in Handlers, AnnounceCallHangup(h) \/ UnhandledRejection(h) PROVE FALSE
  <2>1. task[h].call \in Calls /\ Announce(task[h].call, {<<task[h].peer, "HANGUP">>})
    BY <1>7, SlotFacts, RejectionIsNoNews DEF AnnounceCallHangup, Waits, TasksHaveSessions
  <2> QED
    BY <1>3, <2>1
<1>8. ASSUME NEW d \in Calls, Expire(d)
      PROVE  d = c /\ c \in activeCallSessions /\ session[c].status \in Pending
  <2>1. d \in activeCallSessions /\ session[d].status \in Pending
        /\ Announce(d, {<<u, "TIMEOUT">> : u \in Parties(d)})
    BY <1>2, <1>8 DEF Expire
  <2>2. Told(c, "TIMEOUT")' => Told(c, "TIMEOUT") \/ c = d
    BY <1>1, <2>1, AnnounceTold
  <2> QED
    BY <2>1, <2>2
<1>9. \/ UNCHANGED emitted
      \/ \E x \in Slots : RingCallee(x) \/ AnnounceAccepted(x) \/ EndCall(x)
      \/ \E h \in Handlers : AnnounceCallHangup(h) \/ UnhandledRejection(h)
      \/ \E d \in Calls : Expire(d)
  BY DEF Next, SocketStep, ClientEvent, AuthReply, Resume, Quiet, Connect,
         AddConnectedClient, Disconnect, RefuseConnection, OnCallRequest, AuthFails,
         RefuseRequest, InitActiveCallSession, OnAccept, OnReject, OnHangup,
         DbSettles, Restart, vars
<1> QED
  BY <1>2, <1>4, <1>5, <1>6, <1>7, <1>8, <1>9

\* NoTimeoutOnceAccepted: the timer acceptCall leaves armed finds the call marked.
THEOREM AcceptedCallsDoNotTimeOut == Spec => NoTimeoutOnceAccepted
<1>1. IInv /\ [Next]_vars =>
        \A c \in Calls : Told(c, "ACCEPTED") /\ ~Told(c, "TIMEOUT") => ~Told(c, "TIMEOUT")'
  BY OnlyExpireTimesOut DEF IInv, AcceptsAreMarked, Accepted, Pending
<1> QED
  BY <1>1, Invariance, PTL DEF Spec, NoTimeoutOnceAccepted

-----------------------------------------------------------------------------
(* Nobody is left in a call that ended.                                     *)

\* What a handler that ends a call has said already, or will say when endCall is
\* done: there is always someone on the other side.
EndersTell ==
  \A x \in Slots : task[x] # Null /\ task[x].op \in EndOps =>
    LET c == task[x].call IN
    /\ task[x].peer \in Parties(c)
    /\ task[x].op = "reject" => task[x].peer = session[c].caller
    /\ task[x].op = "expire" => <<session[c].caller, "TIMEOUT">> \in emitted[c]
    /\ task[x].op = "hangup" /\ task[x].at # "auth" => <<task[x].peer, "HANGUP">> \in emitted[c]

\* The parties of a session object never change, and no notice is taken back.
LEMMA PartiesStay ==
  ASSUME IInv, [Next]_vars, NEW c \in Calls, session[c] # Null
  PROVE  /\ session'[c].caller = session[c].caller /\ session'[c].callee = session[c].callee
         /\ session'[c] # Null
         /\ emitted[c] \subseteq emitted'[c]
<1> USE DEF IInv
<1>1. /\ session'[c].caller = session[c].caller /\ session'[c].callee = session[c].callee
      /\ session'[c] # Null
  <2>1. ASSUME NEW h \in Handlers, NEW d \in Calls, InitActiveCallSession(h, d)
        PROVE  session'[c] = session[c]
    BY <2>1 DEF InitActiveCallSession, TypeOK
  <2>2. ASSUME NEW h \in Handlers, NEW d \in Calls, OnAccept(h, d)
        PROVE  session'[c].caller = session[c].caller /\ session'[c].callee = session[c].callee
               /\ session'[c] # Null
    <3>1. session[c] \in Session
      BY DEF TypeOK
    <3>2. session'[c] = session[c] \/ session'[c] = [session[c] EXCEPT !.status = "ACCEPTED"]
      BY <2>2 DEF OnAccept, TypeOK
    <3>3. [session[c] EXCEPT !.status = "ACCEPTED"] \in Session
      BY <3>1 DEF Session
    <3> QED
      BY <3>1, <3>2, <3>3, CallAssumption DEF Session
  <2>3. \/ UNCHANGED session
        \/ \E h \in Handlers, d \in Calls : InitActiveCallSession(h, d) \/ OnAccept(h, d)
    BY DEF Next, SocketStep, ClientEvent, AuthReply, Resume, Quiet, Connect,
           AddConnectedClient, Disconnect, RefuseConnection, OnCallRequest, AuthFails,
           RefuseRequest, RingCallee, AnnounceAccepted, OnReject, OnHangup, EndCall,
           AnnounceCallHangup, Expire, DbSettles, UnhandledRejection, Restart, vars, callVars
  <2> QED
    BY <2>1, <2>2, <2>3
<1>2. emitted[c] \subseteq emitted'[c]
  <2>1. ASSUME NEW d, NEW S, Announce(d, S) PROVE emitted[c] \subseteq emitted'[c]
    BY <2>1 DEF Announce, TypeOK
  <2>2. UNCHANGED emitted \/ \E d, S : Announce(d, S)
    <3>1. ASSUME NEW d \in Calls, Expire(d) PROVE UNCHANGED emitted \/ \E e, S : Announce(e, S)
      BY <3>1 DEF Expire
    <3>2. ASSUME NEW x \in Slots, Resume(x) PROVE \E e, S : Announce(e, S)
      BY <3>2 DEF Resume, RingCallee, AnnounceAccepted, EndCall
    <3>3. ASSUME NEW h \in Handlers, AnnounceCallHangup(h) \/ UnhandledRejection(h)
          PROVE  \E e, S : Announce(e, S)
      BY <3>3 DEF AnnounceCallHangup, UnhandledRejection
    <3>4. \/ UNCHANGED emitted
          \/ \E d \in Calls : Expire(d)
          \/ \E x \in Slots : Resume(x)
          \/ \E h \in Handlers : AnnounceCallHangup(h) \/ UnhandledRejection(h)
      BY DEF Next, SocketStep, ClientEvent, AuthReply, Quiet, Connect,
             AddConnectedClient, Disconnect, RefuseConnection, OnCallRequest, AuthFails,
             RefuseRequest, InitActiveCallSession, OnAccept, OnReject, OnHangup,
             DbSettles, Restart, vars
    <3> QED
      BY <3>1, <3>2, <3>3, <3>4
  <2> QED
    BY <2>1, <2>2
<1> QED
  BY <1>1, <1>2

\* What EndersTell will say of slot x, in terms of the session as it was.
EnderKnown(x) ==
  LET c == task'[x].call IN
  /\ c \in Calls /\ session[c] # Null
  /\ task'[x].peer \in Parties(c)
  /\ task'[x].op = "reject" => task'[x].peer = session[c].caller
  /\ task'[x].op = "expire" => <<session[c].caller, "TIMEOUT">> \in emitted'[c]
  /\ task'[x].op = "hangup" /\ task'[x].at # "auth" =>
       <<task'[x].peer, "HANGUP">> \in emitted'[c]

\* A task that ends a call was there before, or starts with the other party known.
LEMMA EnderComesFrom ==
  ASSUME IInv, EndersTell, [Next]_vars, NEW x \in Slots,
         task'[x] # Null, task'[x].op \in EndOps
  PROVE  EnderKnown(x)
<1> USE DEF IInv
<1>1. ASSUME task[x] # Null, task'[x].op = task[x].op, task'[x].call = task[x].call,
             task'[x].peer = task[x].peer, task'[x].at = task[x].at \/ task[x].at # "auth"
      PROVE  EnderKnown(x)
  <2>1. task[x].op \in EndOps /\ task[x].op # "request"
    BY <1>1 DEF EndOps
  <2>2. task[x].call \in Calls /\ session[task[x].call] # Null
    BY <1>1, <2>1 DEF TasksHaveSessions
  <2>3. emitted[task[x].call] \subseteq emitted'[task[x].call]
    BY <2>2, PartiesStay
  <2> QED
    BY <1>1, <2>1, <2>2, <2>3 DEF EndersTell, EnderKnown
<1>2. ASSUME NEW y \in Slots, NEW op, NEW at, NEW c \in activeCallSessions, NEW u, NEW v,
             Suspend(y, op, at, c, u, v), op # "hangup" \/ at = "auth", v \in Parties(c),
             op = "reject" => v = session[c].caller,
             op = "expire" => <<session[c].caller, "TIMEOUT">> \in emitted'[c]
      PROVE  EnderKnown(x)
  <2>1. CASE y = x
    <3>1. /\ task'[x].op = op /\ task'[x].at = at /\ task'[x].call = c /\ task'[x].peer = v
      BY <1>2, <2>1 DEF Suspend, TypeOK
    <3>2. c \in Calls /\ session[c] # Null
      BY DEF TypeOK, ActiveHaveRung
    <3> QED
      BY <1>2, <3>1, <3>2 DEF EnderKnown
  <2>2. CASE y # x
    BY <1>1, <1>2, <2>2 DEF Suspend, TypeOK
  <2> QED
    BY <2>1, <2>2
<1>3. ASSUME UNCHANGED task PROVE EnderKnown(x)
  BY <1>1, <1>3
<1>4. ASSUME NEW y \in Slots, Finish(y) PROVE EnderKnown(x)
  BY <1>1, <1>4 DEF Finish, TypeOK
<1>5. ASSUME NEW k \in Sockets, HandleDisconnect(k) PROVE EnderKnown(x)
  <2>1. ASSUME NEW c \in activeCallSessions, FindSessionByUserId(SocketUser[k], c),
               Suspend(k, "disconnect", "writing", c, SocketUser[k], Peer(c, SocketUser[k]))
        PROVE  EnderKnown(x)
    <3>1. Peer(c, SocketUser[k]) \in Parties(c)
      BY DEF Peer, Parties
    <3>2. k \in Slots
      BY SlotFacts
    <3>3. "disconnect" # "hangup" /\ "disconnect" # "reject" /\ "disconnect" # "expire"
      OBVIOUS
    <3> QED
      BY <1>2, <2>1, <3>1, <3>2, <3>3, Zenon
  <2> QED
    BY <1>3, <1>5, <2>1 DEF HandleDisconnect
<1>6. ASSUME NEW k \in Sockets, SocketStep(k) PROVE EnderKnown(x)
  BY <1>3, <1>5, <1>6 DEF SocketStep, Connect, AddConnectedClient, Disconnect, RefuseConnection
<1>7. ASSUME NEW h \in Handlers, NEW k \in Sockets, NEW v \in Users, OnCallRequest(h, k, v)
      PROVE  EnderKnown(x)
  <2>1. h = x => task'[x].op = "request"
    BY <1>7 DEF OnCallRequest, Suspend, TypeOK
  <2>2. h # x
    BY <2>1 DEF EndOps
  <2> QED
    BY <1>1, <1>7, <2>2, SlotFacts DEF OnCallRequest, Suspend, TypeOK
<1>8. ASSUME NEW h \in Handlers, NEW c \in Calls, OnAccept(h, c)
      PROVE  EnderKnown(x)
  <2>1. h = x => task'[x].op = "accept"
    BY <1>8 DEF OnAccept, Suspend, TypeOK
  <2>2. h # x
    BY <2>1 DEF EndOps
  <2> QED
    BY <1>1, <1>8, <2>2, SlotFacts DEF OnAccept, Suspend, TypeOK
<1>9. ASSUME NEW h \in Handlers, NEW c \in Calls, OnReject(h, c)
      PROVE  EnderKnown(x)
  <2>1. h \in Slots /\ c \in activeCallSessions
    BY <1>9, SlotFacts DEF OnReject
  <2>2. Suspend(h, "reject", "writing", c, session[c].callee, session[c].caller)
    BY <1>9 DEF OnReject
  <2>3. session[c].caller \in Parties(c)
    BY DEF Parties
  <2>4. "reject" # "hangup" /\ "reject" # "expire"
    OBVIOUS
  <2> QED
    BY <1>2, <2>1, <2>2, <2>3, <2>4, Zenon
<1>10. ASSUME NEW h \in Handlers, NEW c \in Calls, NEW u \in Users, OnHangup(h, c, u)
       PROVE  EnderKnown(x)
  <2>1. Peer(c, u) \in Parties(c)
    BY DEF Peer, Parties
  <2> QED
    BY <1>2, <1>10, <2>1, SlotFacts DEF OnHangup
<1>11. ASSUME NEW h \in Handlers, AuthFails(h) \/ RefuseRequest(h) PROVE EnderKnown(x)
  BY <1>4, <1>11, SlotFacts DEF AuthFails, RefuseRequest
<1>12. ASSUME NEW h \in Handlers, AnnounceCallHangup(h) PROVE EnderKnown(x)
  <2>1. CASE h = x
    <3>1. /\ task[x] # Null /\ task[x].op = "hangup" /\ task[x].at = "auth"
          /\ task[x] \in Task
          /\ task[x].call \in Calls /\ session[task[x].call] # Null
      BY <1>12, <2>1, TaskType DEF AnnounceCallHangup, Waits, TasksHaveSessions
    <3>2. /\ task'[x].op = "hangup" /\ task'[x].call = task[x].call
          /\ task'[x].peer = task[x].peer
      BY <1>12, <2>1, <3>1 DEF AnnounceCallHangup, TypeOK, Task
    <3>3. <<task[x].peer, "HANGUP">> \in emitted'[task[x].call]
      BY <1>12, <2>1, <3>1 DEF AnnounceCallHangup, Announce, TypeOK
    <3> QED
      BY <3>1, <3>2, <3>3 DEF EndersTell, EndOps, EnderKnown
  <2>2. CASE h # x
    BY <1>1, <1>12, <2>2 DEF AnnounceCallHangup, TypeOK
  <2> QED
    BY <2>1, <2>2
<1>13. ASSUME NEW h \in Handlers, UnhandledRejection(h) PROVE EnderKnown(x)
  BY <1>13 DEF UnhandledRejection
<1>14. ASSUME NEW h \in Handlers, NEW c \in Calls, InitActiveCallSession(h, c) PROVE EnderKnown(x)
  <2>1. CASE h = x
    <3>1. task[x] # Null /\ task[x] \in Task /\ task[x].op = "request"
      BY <1>14, <2>1, TaskType DEF InitActiveCallSession, Waits
    <3>2. task'[x].op = "request"
      BY <1>14, <2>1, <3>1 DEF InitActiveCallSession, TypeOK, Task
    <3> QED
      BY <3>2 DEF EndOps
  <2>2. CASE h # x
    BY <1>1, <1>14, <2>2 DEF InitActiveCallSession, TypeOK
  <2> QED
    BY <2>1, <2>2
<1>15. ASSUME NEW y \in Slots, DbSettles(y) PROVE EnderKnown(x)
  <2>1. CASE y = x
    <3>1. /\ task[x] # Null /\ task[x] \in Task /\ task[x].at = "writing"
      BY <1>15, <2>1, TaskType DEF DbSettles
    <3>2. /\ task'[x].op = task[x].op /\ task'[x].call = task[x].call
          /\ task'[x].peer = task[x].peer
      BY <1>15, <2>1, <3>1 DEF DbSettles, TypeOK, Task
    <3> QED
      BY <1>1, <3>1, <3>2
  <2>2. CASE y # x
    BY <1>1, <1>15, <2>2 DEF DbSettles, TypeOK
  <2> QED
    BY <2>1, <2>2
<1>16. ASSUME NEW y \in Slots, Resume(y) PROVE EnderKnown(x)
  BY <1>4, <1>16 DEF Resume, RingCallee, AnnounceAccepted, EndCall
<1>17. ASSUME NEW c \in Calls, Expire(c) PROVE EnderKnown(x)
  <2>1. CASE c \in activeCallSessions /\ session[c].status \in Pending
    <3>1. <<session[c].caller, "TIMEOUT">> \in emitted'[c]
      BY <1>17, <2>1 DEF Expire, Announce, Parties, TypeOK
    <3>2. session[c].callee \in Parties(c)
      BY DEF Parties
    <3>3. c \in Slots /\ "expire" # "hangup" /\ "expire" # "reject"
      BY SlotFacts
    <3>4. Suspend(c, "expire", "writing", c, session[c].caller, session[c].callee)
      BY <1>17, <2>1 DEF Expire
    <3> QED
      BY <1>2, <2>1, <3>1, <3>2, <3>3, <3>4, Zenon
  <2>2. CASE ~(c \in activeCallSessions /\ session[c].status \in Pending)
    BY <1>3, <1>17, <2>2 DEF Expire
  <2> QED
    BY <2>1, <2>2
<1>18. CASE Restart \/ UNCHANGED vars
  BY <1>3, <1>18 DEF Restart, vars
<1> QED
  BY <1>6, <1>7, <1>8, <1>9, <1>10, <1>11, <1>12, <1>13, <1>14, <1>15, <1>16, <1>17, <1>18
     DEF Next, ClientEvent, AuthReply, Quiet

LEMMA EndersTellStep == IInv /\ EndersTell /\ [Next]_vars => EndersTell'
<1> SUFFICES ASSUME IInv, EndersTell, [Next]_vars, NEW x \in Slots,
                    task'[x] # Null, task'[x].op \in EndOps
             PROVE  /\ task'[x].peer \in Parties(task[x].call)'
                    /\ task'[x].op = "reject" =>
                         task'[x].peer = session'[task'[x].call].caller
                    /\ task'[x].op = "expire" =>
                         <<session'[task'[x].call].caller, "TIMEOUT">> \in emitted'[task'[x].call]
                    /\ task'[x].op = "hangup" /\ task'[x].at # "auth" =>
                         <<task'[x].peer, "HANGUP">> \in emitted'[task'[x].call]
  BY DEF EndersTell
<1>1. PICK c \in Calls :
      /\ c = task'[x].call /\ session[c] # Null
      /\ task'[x].peer \in Parties(c)
      /\ task'[x].op = "reject" => task'[x].peer = session[c].caller
      /\ task'[x].op = "expire" => <<session[c].caller, "TIMEOUT">> \in emitted'[c]
      /\ task'[x].op = "hangup" /\ task'[x].at # "auth" =>
           <<task'[x].peer, "HANGUP">> \in emitted'[c]
  BY EnderComesFrom DEF EnderKnown
<1>2. session'[c].caller = session[c].caller /\ session'[c].callee = session[c].callee
  BY <1>1, PartiesStay
<1> QED
  BY <1>1, <1>2 DEF Parties

\* NoSilentEnd: whichever handler deletes the call, one that ends it told the other
\* side before the deletion or tells it in the same step.
THEOREM NobodyIsLeftInACall == Spec => NoSilentEnd
<1>1. Init => EndersTell
  BY DEF Init, EndersTell
<1>2. IInv /\ EndersTell /\ [Next]_vars =>
        \A c \in activeCallSessions : c \notin activeCallSessions' /\ up' =>
          \/ CallerTold(c, {"REJECTED", "ENDED", "HANGUP", "TIMEOUT"})'
          \/ CalleeTold(c, {"ENDED", "HANGUP"})'
  <2> SUFFICES ASSUME IInv, EndersTell, [Next]_vars, NEW c \in activeCallSessions,
                      c \notin activeCallSessions', up'
               PROVE  \/ CallerTold(c, {"REJECTED", "ENDED", "HANGUP", "TIMEOUT"})'
                      \/ CalleeTold(c, {"ENDED", "HANGUP"})'
    OBVIOUS
  <2>1. c \in Calls /\ session[c] # Null /\ TypeOK
    BY DEF IInv, TypeOK, ActiveHaveRung
  <2>2. \/ UNCHANGED activeCallSessions
        \/ \E x \in Slots : RingCallee(x) \/ EndCall(x)
        \/ \E h \in Handlers : UnhandledRejection(h)
    BY DEF Next, SocketStep, ClientEvent, AuthReply, Resume, Quiet, Connect,
           AddConnectedClient, Disconnect, RefuseConnection, OnCallRequest, AuthFails,
           RefuseRequest, InitActiveCallSession, OnAccept, AnnounceAccepted, OnReject,
           OnHangup, AnnounceCallHangup, Expire, DbSettles, Restart, vars, callVars
  <2>3. PICK x \in Slots : EndCall(x)
    BY <2>2 DEF RingCallee, UnhandledRejection
  <2>4. /\ task[x] # Null /\ task[x].op \in EndOps /\ task[x].at = "written"
        /\ c = task[x].call
    BY <2>3 DEF EndCall, Waits
  <2>5. emitted'[c] = emitted[c] \cup EndNotices(task[x])
    BY <2>1, <2>3, <2>4 DEF EndCall, Announce, TypeOK
  <2>6. UNCHANGED session
    BY <2>3 DEF EndCall
  <2>7. /\ task[x].peer = session[c].caller \/ task[x].peer = session[c].callee
        /\ task[x].op = "reject" => task[x].peer = session[c].caller
        /\ task[x].op = "expire" => <<session[c].caller, "TIMEOUT">> \in emitted[c]
        /\ task[x].op = "hangup" => <<task[x].peer, "HANGUP">> \in emitted[c]
    BY <2>4 DEF EndersTell, Parties
  <2>8. CASE task[x].op = "reject"
    BY <2>1, <2>5, <2>6, <2>7, <2>8 DEF EndNotices, CallerTold
  <2>9. CASE task[x].op = "disconnect"
    BY <2>1, <2>5, <2>6, <2>7, <2>9 DEF EndNotices, CallerTold, CalleeTold
  <2>10. CASE task[x].op = "expire"
    BY <2>1, <2>5, <2>6, <2>7, <2>10 DEF CallerTold
  <2>11. CASE task[x].op = "hangup"
    BY <2>1, <2>5, <2>6, <2>7, <2>11 DEF CallerTold, CalleeTold
  <2> QED
    BY <2>4, <2>8, <2>9, <2>10, <2>11 DEF EndOps
<1> QED
  BY <1>1, <1>2, EndersTellStep, Invariance, PTL DEF Spec, NoSilentEnd
=============================================================================
