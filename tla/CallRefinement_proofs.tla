------------------------ MODULE CallRefinement_proofs ------------------------
(***************************************************************************)
(* CallSignaling implements CallLifecycle, for every set of users, sockets, *)
(* calls and handlers.                                                      *)
(***************************************************************************)
EXTENDS CallRefinement, CallSignaling_proofs

(* Two facts the mapping needs beyond IInv: only a call that rang was       *)
(* accepted, and an acceptCall never waits for the auth service.            *)
AcceptedHaveRung == \A c \in Calls : Accepted(c) => Rung(c)
AcceptsAreWriting == \A x \in Slots : ~Waits(x, "accept", "auth")

RInv == IInv /\ AcceptedHaveRung /\ AcceptsAreWriting

-----------------------------------------------------------------------------
(* What one step can change of what the mapping reads.                      *)

\* No announcement but those of RingCallee and AnnounceAccepted is REQUESTING or
\* ACCEPTED.
LEMMA AnnouncedBy ==
  ASSUME IInv, [Next]_vars
  PROVE  NoNews \/ \E x \in Slots : RingCallee(x) \/ AnnounceAccepted(x)
<1> USE DEF IInv
<1>1. CASE UNCHANGED emitted
  BY <1>1, SilenceIsNoNews
<1>2. ASSUME NEW x \in Slots, EndCall(x) PROVE NoNews
  <2>1. /\ task[x].call \in Calls /\ session[task[x].call] # Null /\ Rung(task[x].call)
        /\ Announce(task[x].call, EndNotices(task[x]))
    BY <1>2 DEF EndCall, Waits, TasksHaveSessions, TasksHaveRung, EndOps
  <2>2. \A u \in Users : /\ <<u, "ACCEPTED">> \notin EndNotices(task[x])
                         /\ <<u, "REQUESTING">> \notin EndNotices(task[x])
    BY DEF EndNotices
  <2> QED
    BY <2>1, <2>2, EndIsNoNews
<1>3. ASSUME NEW h \in Handlers, AnnounceCallHangup(h) \/ UnhandledRejection(h) PROVE NoNews
  <2>1. CASE UnhandledRejection(h)
    BY <2>1, RejectionIsNoNews
  <2>2. CASE AnnounceCallHangup(h)
    <3>1. /\ task[h].call \in Calls /\ session[task[h].call] # Null /\ Rung(task[h].call)
          /\ Announce(task[h].call, {<<task[h].peer, "HANGUP">>})
      BY <2>2, SlotFacts DEF AnnounceCallHangup, Waits, TasksHaveSessions, TasksHaveRung
    <3> QED
      BY <3>1, EndIsNoNews
  <2> QED
    BY <1>3, <2>1, <2>2
<1>4. ASSUME NEW c \in Calls, Expire(c) PROVE NoNews
  <2>1. CASE c \in activeCallSessions /\ session[c].status \in Pending
    <3>1. session[c] # Null /\ Rung(c) /\ Announce(c, {<<u, "TIMEOUT">> : u \in Parties(c)})
      BY <1>4, <2>1 DEF Expire, ActiveHaveRung
    <3> QED
      BY <3>1, EndIsNoNews
  <2>2. CASE ~(c \in activeCallSessions /\ session[c].status \in Pending)
    BY <1>1, <1>4, <2>2, SilenceIsNoNews DEF Expire
  <2> QED
    BY <2>1, <2>2
<1>5. \/ UNCHANGED emitted
      \/ \E x \in Slots : RingCallee(x) \/ AnnounceAccepted(x) \/ EndCall(x)
      \/ \E h \in Handlers : AnnounceCallHangup(h) \/ UnhandledRejection(h)
      \/ \E c \in Calls : Expire(c)
  BY DEF Next, SocketStep, ClientEvent, AuthReply, Resume, Quiet, Connect,
         AddConnectedClient, Disconnect, RefuseConnection, OnCallRequest, AuthFails,
         RefuseRequest, InitActiveCallSession, OnAccept, OnReject, OnHangup,
         DbSettles, Restart, vars
<1> QED
  BY <1>1, <1>2, <1>3, <1>4, <1>5

\* Only OnAccept marks a call as accepted.
LEMMA MarkedBy ==
  ASSUME IInv, [Next]_vars, NEW d \in Calls
  PROVE  (Accepted(d)' <=> Accepted(d)) \/ \E h \in Handlers : OnAccept(h, d)
<1> USE DEF IInv, Accepted
<1>1. ASSUME NEW h \in Handlers, NEW c \in Calls, InitActiveCallSession(h, c)
      PROVE  Accepted(d)' <=> Accepted(d)
  BY <1>1 DEF InitActiveCallSession, TypeOK
<1>2. ASSUME NEW h \in Handlers, NEW c \in Calls, OnAccept(h, c), c # d
      PROVE  Accepted(d)' <=> Accepted(d)
  BY <1>2 DEF OnAccept, TypeOK
<1>3. \/ UNCHANGED session
      \/ \E h \in Handlers, c \in Calls : InitActiveCallSession(h, c) \/ OnAccept(h, c)
  BY DEF Next, SocketStep, ClientEvent, AuthReply, Resume, Quiet, Connect,
         AddConnectedClient, Disconnect, RefuseConnection, OnCallRequest, AuthFails,
         RefuseRequest, RingCallee, AnnounceAccepted, OnReject, OnHangup, EndCall,
         AnnounceCallHangup, Expire, DbSettles, UnhandledRejection, Restart, vars, callVars
<1> QED
  BY <1>1, <1>2, <1>3

\* No acceptCall started, ended or began to wait for the auth service.
AcceptsKept ==
  /\ \A x \in Slots, d \in Calls : Accepting(x, d)' <=> Accepting(x, d)
  /\ AcceptsAreWriting'

\* An acceptCall is suspended by OnAccept, ends with AnnounceAccepted or dies with
\* the process; every other step leaves it where it is, but for DbSettles.
LEMMA AcceptsHeldBy ==
  ASSUME RInv, [Next]_vars
  PROVE  \/ AcceptsKept
         \/ \E h \in Handlers, d \in Calls : OnAccept(h, d)
         \/ \E x \in Slots : AnnounceAccepted(x)
         \/ \E h \in Handlers : UnhandledRejection(h)
<1>0. TypeOK /\ AcceptsAreWriting /\ \A h \in Handlers : h \in Slots
  BY SlotFacts DEF RInv, IInv
<1> USE DEF AcceptsAreWriting, Waits
<1>1. ASSUME UNCHANGED task PROVE AcceptsKept
  BY <1>0, <1>1 DEF AcceptsKept, Accepting
<1>2. ASSUME NEW x \in Slots, NEW op, op # "accept", NEW at, NEW c, NEW u, NEW v,
             Suspend(x, op, at, c, u, v)
      PROVE  AcceptsKept
  <2>1. /\ task[x] = Null /\ task'[x].op = op
        /\ \A y \in Slots : y # x => task'[y] = task[y]
    BY <1>0, <1>2 DEF Suspend, TypeOK
  <2> QED
    BY <1>0, <1>2, <2>1 DEF AcceptsKept, Accepting
<1>3. ASSUME NEW x \in Slots, task[x] # Null, task[x].op # "accept", Finish(x) PROVE AcceptsKept
  BY <1>0, <1>3 DEF Finish, TypeOK, AcceptsKept, Accepting
<1>4. ASSUME NEW k \in Sockets, HandleDisconnect(k) PROVE AcceptsKept
  <2>1. k \in Slots /\ "disconnect" # "accept"
    BY SlotFacts
  <2>2. ASSUME NEW c \in activeCallSessions,
               Suspend(k, "disconnect", "writing", c, SocketUser[k], Peer(c, SocketUser[k]))
        PROVE  AcceptsKept
    BY <1>2, <2>1, <2>2, Zenon
  <2> QED
    BY <1>1, <1>4, <2>2 DEF HandleDisconnect
<1>5. ASSUME NEW k \in Sockets, SocketStep(k) PROVE AcceptsKept
  BY <1>1, <1>4, <1>5 DEF SocketStep, Connect, AddConnectedClient, Disconnect, RefuseConnection
<1>6. ASSUME NEW h \in Handlers, ClientEvent(h)
      PROVE  AcceptsKept \/ \E d \in Calls : OnAccept(h, d)
  BY <1>0, <1>2, <1>6 DEF ClientEvent, OnCallRequest, OnReject, OnHangup
<1>7. ASSUME NEW h \in Handlers, AuthFails(h) \/ RefuseRequest(h) PROVE AcceptsKept
  BY <1>0, <1>3, <1>7 DEF AuthFails, RefuseRequest, RInv
<1>8. ASSUME NEW h \in Handlers, AnnounceCallHangup(h) PROVE AcceptsKept
  <2>1. task[h] \in Task /\ task[h] # Null /\ task[h].op = "hangup"
    BY <1>0, <1>8, TaskType DEF AnnounceCallHangup, Waits
  <2>2. task'[h].op = "hangup" /\ \A y \in Slots : y # h => task'[y] = task[y]
    BY <1>0, <1>8, <2>1 DEF AnnounceCallHangup, TypeOK, Task
  <2> QED
    BY <1>0, <2>1, <2>2 DEF AcceptsKept, Accepting
<1>9. ASSUME NEW h \in Handlers, NEW c \in Calls, InitActiveCallSession(h, c) PROVE AcceptsKept
  <2>1. task[h] \in Task /\ task[h] # Null /\ task[h].op = "request"
    BY <1>0, <1>9, TaskType DEF InitActiveCallSession, Waits
  <2>2. task'[h].op = "request" /\ \A y \in Slots : y # h => task'[y] = task[y]
    BY <1>0, <1>9, <2>1 DEF InitActiveCallSession, TypeOK, Task
  <2> QED
    BY <1>0, <2>1, <2>2 DEF AcceptsKept, Accepting
<1>10. ASSUME NEW y \in Slots, DbSettles(y) PROVE AcceptsKept
  <2>1. task[y] \in Task /\ task[y] # Null
    BY <1>0, <1>10, TaskType DEF DbSettles
  <2>2. /\ task'[y].op = task[y].op /\ task'[y].call = task[y].call /\ task'[y] \in Task
        /\ task'[y].at = "written"
        /\ \A x \in Slots : x # y => task'[x] = task[x]
    BY <1>0, <1>10, <2>1 DEF DbSettles, TypeOK, Task
  <2>3. task'[y] # Null
    BY <2>2, CallAssumption
  <2> QED
    BY <1>0, <2>1, <2>2, <2>3 DEF AcceptsKept, Accepting
<1>11. ASSUME NEW x \in Slots, RingCallee(x) \/ EndCall(x) PROVE AcceptsKept
  BY <1>3, <1>11 DEF RingCallee, EndCall, Waits, EndOps
<1>12. ASSUME NEW c \in Calls, Expire(c) PROVE AcceptsKept
  <2>1. c \in Slots /\ "expire" # "accept"
    BY SlotFacts
  <2>2. \/ UNCHANGED task
        \/ Suspend(c, "expire", "writing", c, session[c].caller, session[c].callee)
    BY <1>12 DEF Expire
  <2> QED
    BY <1>1, <1>2, <2>1, <2>2, Zenon
<1>13. CASE Restart \/ UNCHANGED vars
  BY <1>1, <1>13 DEF Restart, vars
<1> QED
  BY <1>5, <1>6, <1>7, <1>8, <1>9, <1>10, <1>11, <1>12, <1>13
     DEF Next, AuthReply, Resume, Quiet

\* Only RingCallee, EndCall and a crash touch the table.
LEMMA TableChangedBy ==
  ASSUME [Next]_vars
  PROVE  \/ UNCHANGED activeCallSessions
         \/ \E x \in Slots : RingCallee(x) \/ EndCall(x)
         \/ \E h \in Handlers : UnhandledRejection(h)
BY DEF Next, SocketStep, ClientEvent, AuthReply, Resume, Quiet, Connect,
       AddConnectedClient, Disconnect, RefuseConnection, OnCallRequest, AuthFails,
       RefuseRequest, InitActiveCallSession, OnAccept, AnnounceAccepted, OnReject,
       OnHangup, AnnounceCallHangup, Expire, DbSettles, Restart, vars, callVars

\* What was announced of a call stays announced.
LEMMA ToldStays ==
  ASSUME IInv, [Next]_vars, NEW c \in Calls, NEW e, Told(c, e)
  PROVE  Told(c, e)'
<1>1. session[c] # Null
  BY DEF Told, IInv, ActiveHaveRung
<1>2. emitted[c] \subseteq emitted'[c]
  BY <1>1, PartiesStay
<1> QED
  BY <1>2 DEF Told

LEMMA RInvStep == RInv /\ [Next]_vars => RInv'
<1> SUFFICES ASSUME RInv, [Next]_vars
             PROVE  RInv'
  OBVIOUS
<1>0. IInv /\ TypeOK
  BY DEF RInv, IInv
<1>1. IInv'
  BY <1>0, IInvStep
<1>2. ASSUME NEW d \in Calls, Accepted(d)' PROVE Rung(d)'
  <2>1. Rung(d)
    BY <1>0, <1>2, MarkedBy DEF RInv, AcceptedHaveRung, OnAccept, IInv, ActiveHaveRung
  <2> QED
    BY <1>0, <2>1, ToldStays DEF Rung
<1>3. ASSUME NEW h \in Handlers, NEW d \in Calls, OnAccept(h, d) PROVE AcceptsAreWriting'
  BY <1>0, <1>3, SlotFacts DEF RInv, AcceptsAreWriting, Waits, OnAccept, Suspend, TypeOK
<1>4. ASSUME NEW x \in Slots, AnnounceAccepted(x) PROVE AcceptsAreWriting'
  BY <1>0, <1>4 DEF RInv, AcceptsAreWriting, Waits, AnnounceAccepted, Finish, TypeOK
<1>5. ASSUME NEW h \in Handlers, UnhandledRejection(h) PROVE AcceptsAreWriting'
  BY <1>5 DEF UnhandledRejection, AcceptsAreWriting, Waits
<1>6. AcceptsAreWriting'
  BY <1>3, <1>4, <1>5, AcceptsHeldBy DEF AcceptsKept
<1> QED
  BY <1>1, <1>2, <1>6 DEF RInv, AcceptedHaveRung

LEMMA RInvariance == Spec => []RInv
<1>1. Init => RInv
  BY InitIInv DEF Init, RInv, AcceptedHaveRung, AcceptsAreWriting, Accepted, Waits
<1> QED
  BY <1>1, RInvStep, PTL DEF Spec

-----------------------------------------------------------------------------
(* The mapping.                                                             *)

\* A step after which everything the mapping reads of call c is as it was.
Unseen(c) ==
  /\ Rung(c)' <=> Rung(c)
  /\ (c \in activeCallSessions)' <=> c \in activeCallSessions
  /\ Accepted(c)' <=> Accepted(c)
  /\ Told(c, "ACCEPTED")' <=> Told(c, "ACCEPTED")
  /\ \A x \in Slots : Accepting(x, c)' <=> Accepting(x, c)

LEMMA UnseenMapsToItself ==
  ASSUME NEW c \in Calls, Unseen(c)
  PROVE  PhaseOf(c)' = PhaseOf(c) /\ NoticeOf(c)' = NoticeOf(c)
BY DEF Unseen, PhaseOf, NoticeOf

LEMMA UnseenStutters ==
  ASSUME \A c \in Calls : Unseen(c)
  PROVE  UNCHANGED Lifecycle!lvars
BY UnseenMapsToItself DEF Lifecycle!lvars

\* Only call c moves.
LEMMA OneCallMoves ==
  ASSUME NEW c \in Calls, \A d \in Calls \ {c} : Unseen(d)
  PROVE  /\ [d \in Calls |-> PhaseOf(d)]' =
              [[d \in Calls |-> PhaseOf(d)] EXCEPT ![c] = PhaseOf(c)']
         /\ [d \in Calls |-> NoticeOf(d)]' =
              [[d \in Calls |-> NoticeOf(d)] EXCEPT ![c] = NoticeOf(c)']
<1>1. \A d \in Calls \ {c} : PhaseOf(d)' = PhaseOf(d) /\ NoticeOf(d)' = NoticeOf(d)
  BY UnseenMapsToItself
<1> QED
  BY <1>1

\* RingCallee is the first anyone hears of the call.
LEMMA RingCalleeRings ==
  ASSUME RInv, [Next]_vars, NEW x \in Slots, RingCallee(x)
  PROVE  \E c \in Calls : Lifecycle!Ring(c)
<1>0. TypeOK /\ IInv
  BY DEF RInv, IInv
<1>1. PICK c \in Calls : /\ c = task[x].call /\ c \notin activeCallSessions
                          /\ session[c] # Null /\ ~Rung(c) /\ ~Accepted(c)
  BY DEF RInv, IInv, RingCallee, Waits, TasksHaveSessions, RequestsAreNew, Requesting,
         AcceptedHaveRung
<1>2. /\ activeCallSessions' = activeCallSessions \cup {c}
      /\ Announce(c, {<<session[c].callee, "REQUESTING">>}) /\ UNCHANGED session
  BY <1>1 DEF RingCallee
<1>3. session[c] \in Session /\ session[c].callee \in Users
  BY <1>0, <1>1 DEF TypeOK, Session
<1>4. /\ Rung(c)' /\ ~Told(c, "ACCEPTED")'
      /\ \A d \in Calls \ {c} : emitted'[d] = emitted[d]
  <2>1. ~Told(c, "ACCEPTED")
    BY <1>0, <1>1 DEF IInv, AcceptsAreMarked
  <2>2. /\ emitted'[c] = emitted[c] \cup {<<session[c].callee, "REQUESTING">>}
        /\ \A d \in Calls \ {c} : emitted'[d] = emitted[d]
    BY <1>0, <1>2 DEF Announce, TypeOK
  <2> QED
    BY <1>3, <2>1, <2>2 DEF Rung, Told
<1>5. \A d \in Calls : Accepted(d)' <=> Accepted(d)
  BY <1>2 DEF Accepted
<1>6. \A y \in Slots, d \in Calls : Accepting(y, d)' <=> Accepting(y, d)
  BY <1>0 DEF RingCallee, Waits, Finish, TypeOK, Accepting
<1>7. \A d \in Calls \ {c} : Unseen(d)
  BY <1>2, <1>4, <1>5, <1>6 DEF Unseen, Rung, Told
<1>8. PhaseOf(c) = "none" /\ PhaseOf(c)' = "ringing"
  BY <1>1, <1>2, <1>4, <1>5 DEF PhaseOf
<1>9. NoticeOf(c) = "none" /\ NoticeOf(c)' = "none"
  BY <1>0, <1>1, <1>4, <1>5 DEF NoticeOf, IInv, AcceptsAreMarked
<1> QED
  BY <1>1, <1>7, <1>8, <1>9, OneCallMoves DEF Lifecycle!Ring

\* OnAccept answers a ringing call.
LEMMA OnAcceptAnswers ==
  ASSUME RInv, [Next]_vars, NEW h \in Handlers, NEW c \in Calls, OnAccept(h, c)
  PROVE  Lifecycle!Answer(c)
<1>0. TypeOK /\ IInv /\ h \in Slots
  BY SlotFacts DEF RInv, IInv
<1>1. /\ c \in activeCallSessions /\ Rung(c) /\ session[c] # Null /\ session[c] \in Session
      /\ ~Accepted(c)
  BY <1>0 DEF IInv, TypeOK, OnAccept, ActiveHaveRung, Accepted, Pending
<1>2. /\ Accepted(c)' /\ \A d \in Calls \ {c} : Accepted(d)' <=> Accepted(d)
  <2>1. session' = [session EXCEPT ![c].status = "ACCEPTED"]
    BY DEF OnAccept
  <2>2. /\ session'[c] = [session[c] EXCEPT !.status = "ACCEPTED"]
        /\ \A d \in Calls \ {c} : session'[d] = session[d]
    BY <1>0, <2>1 DEF TypeOK
  <2>3. session'[c] \in Session /\ session'[c].status = "ACCEPTED"
    BY <1>1, <2>2 DEF Session
  <2> QED
    BY <2>2, <2>3, CallAssumption DEF Accepted
<1>3. UNCHANGED <<emitted, activeCallSessions>>
  BY DEF OnAccept
<1>4. /\ Accepting(h, c)'
      /\ \A y \in Slots, d \in Calls : d # c => (Accepting(y, d)' <=> Accepting(y, d))
  <2>1. /\ task[h] = Null /\ task'[h].op = "accept" /\ task'[h].call = c
        /\ \A y \in Slots : y # h => task'[y] = task[y]
    BY <1>0 DEF OnAccept, Suspend, TypeOK
  <2>2. task'[h] # Null
    <3>1. session[c].caller \in Users /\ session[c].callee \in Users
      BY <1>1 DEF Session
    <3>2. task'[h] \in Task
      BY <1>0, <3>1 DEF OnAccept, Suspend, TypeOK, Task, Ops
    <3> QED
      BY <3>2, CallAssumption
  <2> QED
    BY <1>0, <2>1, <2>2 DEF Accepting
<1>5. \A d \in Calls \ {c} : Unseen(d)
  BY <1>2, <1>3, <1>4 DEF Unseen, Rung, Told
<1>6. PhaseOf(c) = "ringing" /\ PhaseOf(c)' = "answered"
  BY <1>1, <1>2, <1>3 DEF PhaseOf, Rung, Told
<1>7. ~Told(c, "ACCEPTED") /\ ~Told(c, "ACCEPTED")'
  BY <1>0, <1>1, <1>3 DEF IInv, AcceptsAreMarked, Told
<1>8. NoticeOf(c)' = "owed"
  BY <1>0, <1>2, <1>4, <1>7 DEF NoticeOf
<1> QED
  BY <1>5, <1>6, <1>8, OneCallMoves DEF Lifecycle!Answer

\* AnnounceAccepted gives the notice that was owed.
LEMMA AnnounceAcceptedGives ==
  ASSUME RInv, [Next]_vars, NEW x \in Slots, AnnounceAccepted(x)
  PROVE  \E c \in Calls : Lifecycle!GiveNotice(c)
<1>0. TypeOK /\ IInv
  BY DEF RInv, IInv
<1>1. PICK c \in Calls : /\ c = task[x].call /\ Accepting(x, c)
                          /\ Accepted(c) /\ Rung(c) /\ ~Told(c, "ACCEPTED")
  BY DEF RInv, IInv, AnnounceAccepted, Waits, TasksHaveSessions, Accepting,
         AcceptsAreMarked, AcceptedOnce, AcceptedHaveRung
<1>2. /\ Announce(c, {<<task[x].peer, "ACCEPTED">>})
      /\ UNCHANGED <<session, activeCallSessions>> /\ Finish(x)
  BY <1>1 DEF AnnounceAccepted, callVars
<1>3. task[x].peer \in Users
  BY <1>0, TaskType DEF AnnounceAccepted, Waits
<1>4. /\ Told(c, "ACCEPTED")' /\ (Rung(c)' <=> Rung(c))
      /\ \A d \in Calls \ {c} : emitted'[d] = emitted[d]
  <2>1. /\ emitted'[c] = emitted[c] \cup {<<task[x].peer, "ACCEPTED">>}
        /\ \A d \in Calls \ {c} : emitted'[d] = emitted[d]
    BY <1>0, <1>2 DEF Announce, TypeOK
  <2> QED
    BY <1>3, <2>1 DEF Rung, Told
<1>5. \A d \in Calls : Accepted(d)' <=> Accepted(d)
  BY <1>2 DEF Accepted
<1>6. \A y \in Slots, d \in Calls \ {c} : Accepting(y, d)' <=> Accepting(y, d)
  BY <1>0, <1>1, <1>2 DEF Finish, TypeOK, Accepting
<1>7. \A d \in Calls \ {c} : Unseen(d)
  BY <1>2, <1>4, <1>5, <1>6 DEF Unseen, Rung, Told
<1>8. PhaseOf(c)' = PhaseOf(c)
  BY <1>2, <1>4, <1>5, <1>1 DEF PhaseOf
<1>9. NoticeOf(c) = "owed" /\ NoticeOf(c)' = "given"
  BY <1>1, <1>4 DEF NoticeOf
<1> QED
  BY <1>1, <1>7, <1>8, <1>9, OneCallMoves DEF Lifecycle!GiveNotice

\* EndCall concludes the call, or comes too late for one that is over.
LEMMA EndCallConcludes ==
  ASSUME RInv, [Next]_vars, NEW x \in Slots, EndCall(x)
  PROVE  (\E c \in Calls : Lifecycle!Conclude(c)) \/ UNCHANGED Lifecycle!lvars
<1>0. TypeOK /\ IInv
  BY DEF RInv, IInv
<1>1. PICK c \in Calls :
        /\ c = task[x].call /\ Rung(c)
        /\ task[x] # Null /\ task[x].op \in EndOps
        /\ activeCallSessions' = activeCallSessions \ {c} /\ UNCHANGED session /\ Finish(x)
  BY <1>0 DEF IInv, EndCall, Waits, TasksHaveSessions, TasksHaveRung, EndOps
<1>2. /\ \A d \in Calls : Rung(d)' <=> Rung(d)
      /\ \A d \in Calls : Told(d, "ACCEPTED")' <=> Told(d, "ACCEPTED")
  <2>1. Announce(c, EndNotices(task[x]))
    BY <1>1 DEF EndCall
  <2>2. \A u \in Users : /\ <<u, "ACCEPTED">> \notin EndNotices(task[x])
                         /\ <<u, "REQUESTING">> \notin EndNotices(task[x])
    BY DEF EndNotices
  <2> QED
    BY <1>0, <1>1, <2>1, <2>2, AnnounceTold DEF Events, Rung
<1>3. \A d \in Calls : Accepted(d)' <=> Accepted(d)
  BY <1>1 DEF Accepted
<1>4. \A y \in Slots, d \in Calls : Accepting(y, d)' <=> Accepting(y, d)
  BY <1>0, <1>1 DEF Finish, TypeOK, Accepting, EndOps
<1>5. \A d \in Calls \ {c} : Unseen(d)
  BY <1>1, <1>2, <1>3, <1>4 DEF Unseen
<1>6. NoticeOf(c)' = NoticeOf(c)
  BY <1>1, <1>2, <1>3, <1>4 DEF NoticeOf
<1>7. CASE c \in activeCallSessions
  <2>1. PhaseOf(c) \in {"ringing", "answered"} /\ PhaseOf(c)' = "over"
    BY <1>1, <1>2, <1>7 DEF PhaseOf
  <2> QED
    BY <1>1, <1>5, <1>6, <2>1, OneCallMoves DEF Lifecycle!Conclude
<1>8. CASE c \notin activeCallSessions
  BY <1>1, <1>2, <1>3, <1>4, <1>5, <1>8, UnseenStutters DEF Unseen
<1> QED
  BY <1>7, <1>8

\* A crash ends every call and loses every notice owed.
LEMMA UnhandledRejectionLosesAll ==
  ASSUME RInv, NEW h \in Handlers, UnhandledRejection(h)
  PROVE  Lifecycle!LoseAll
<1>1. /\ activeCallSessions' = {} /\ UNCHANGED session
      /\ \A x \in Slots : task'[x] = Null
  BY DEF UnhandledRejection
\* The notice that still goes out is a HANGUP of a call that rang.
<1>2. \A c \in Calls : /\ Rung(c)' <=> Rung(c)
                       /\ Told(c, "ACCEPTED")' <=> Told(c, "ACCEPTED")
  <2>1. IInv /\ TypeOK /\ "ACCEPTED" \in Events
    BY DEF RInv, IInv, Events
  <2>2. /\ task[h].call \in Calls /\ NoNews
        /\ Announce(task[h].call, {<<task[h].peer, "HANGUP">>})
    BY <2>1, RejectionIsNoNews
  <2>3. \A c \in Calls : Told(c, "ACCEPTED") => Told(c, "ACCEPTED")'
    BY <2>1, <2>2, AnnounceTold
  <2> QED
    BY <2>2, <2>3 DEF NoNews
<1>3. ASSUME NEW c \in Calls
      PROVE  /\ PhaseOf(c)' = IF PhaseOf(c) = "none" THEN "none" ELSE "over"
             /\ NoticeOf(c)' = IF NoticeOf(c) = "owed" THEN "lost" ELSE NoticeOf(c)
  <2>1. /\ Rung(c)' <=> Rung(c)
        /\ Told(c, "ACCEPTED")' <=> Told(c, "ACCEPTED")
    BY <1>2
  <2>2. /\ Accepted(c)' <=> Accepted(c)
        /\ \A x \in Slots : ~Accepting(x, c)'
        /\ c \notin activeCallSessions'
    BY <1>1 DEF Accepted, Accepting
  <2>3. PhaseOf(c)' = IF PhaseOf(c) = "none" THEN "none" ELSE "over"
    BY <2>1, <2>2 DEF PhaseOf
  <2>4. NoticeOf(c)' = IF NoticeOf(c) = "owed" THEN "lost" ELSE NoticeOf(c)
    BY <2>1, <2>2 DEF NoticeOf
  <2> QED
    BY <2>3, <2>4
<1> QED
  BY <1>3 DEF Lifecycle!LoseAll

-----------------------------------------------------------------------------
LEMMA StepRefines ==
  ASSUME RInv, [Next]_vars
  PROVE  [Lifecycle!LNext]_Lifecycle!lvars
<1>0. IInv
  BY DEF RInv
<1>1. ASSUME NEW x \in Slots, RingCallee(x) PROVE Lifecycle!LNext
  BY <1>1, RingCalleeRings DEF Lifecycle!LNext
<1>2. ASSUME NEW h \in Handlers, NEW c \in Calls, OnAccept(h, c) PROVE Lifecycle!LNext
  BY <1>2, OnAcceptAnswers DEF Lifecycle!LNext
<1>3. ASSUME NEW x \in Slots, AnnounceAccepted(x) PROVE Lifecycle!LNext
  BY <1>3, AnnounceAcceptedGives DEF Lifecycle!LNext
<1>4. ASSUME NEW x \in Slots, EndCall(x)
      PROVE  Lifecycle!LNext \/ UNCHANGED Lifecycle!lvars
  BY <1>4, EndCallConcludes DEF Lifecycle!LNext
<1>5. ASSUME NEW h \in Handlers, UnhandledRejection(h) PROVE Lifecycle!LNext
  BY <1>5, UnhandledRejectionLosesAll DEF Lifecycle!LNext
<1>6. ASSUME \A x \in Slots : ~RingCallee(x) /\ ~AnnounceAccepted(x) /\ ~EndCall(x),
             \A h \in Handlers : ~UnhandledRejection(h),
             \A h \in Handlers, c \in Calls : ~OnAccept(h, c)
      PROVE  UNCHANGED Lifecycle!lvars
  <2>1. NoNews
    BY <1>0, <1>6, AnnouncedBy
  <2>2. UNCHANGED activeCallSessions
    BY <1>6, TableChangedBy
  <2>3. ASSUME NEW c \in Calls PROVE Unseen(c)
    <3>1. Accepted(c)' <=> Accepted(c)
      BY <1>0, <1>6, MarkedBy
    <3>2. \A x \in Slots : Accepting(x, c)' <=> Accepting(x, c)
      BY <1>6, AcceptsHeldBy DEF AcceptsKept
    <3>3. Told(c, "ACCEPTED")' <=> Told(c, "ACCEPTED")
      BY <1>0, <2>1, ToldStays DEF NoNews
    <3> QED
      BY <2>1, <2>2, <3>1, <3>2, <3>3 DEF Unseen, NoNews
  <2> QED
    BY <2>3, UnseenStutters
<1> QED
  BY <1>1, <1>2, <1>3, <1>4, <1>5, <1>6

\* ImplementsLifecycle: whatever the interleaving of handlers, timers, statements
\* and crashes, a call is answered only while it rings, at most once, is over for
\* good, and its ACCEPTED is announced at most once.
THEOREM GatewayImplementsLifecycle == Spec => ImplementsLifecycle
<1>1. Init => Lifecycle!LInit
  BY DEF Init, Lifecycle!LInit, PhaseOf, NoticeOf, Rung, Told, Accepted
<1> QED
  BY <1>1, StepRefines, RInvariance, PTL DEF Spec, ImplementsLifecycle, Lifecycle!LSpec
=============================================================================
