-------------------------- MODULE Messaging_proofs --------------------------
(***************************************************************************)
(* Proofs about Messaging for every set of users, sockets, tokens, chats,   *)
(* messages and handlers, and that it implements the safety of MessageOnce. *)
(***************************************************************************)
EXTENDS MessagingRefinement, FiniteSetTheorems, TLAPS

\* A suspended send is a task record.
LEMMA TaskType ==
  ASSUME TypeOK, NEW h \in Handlers, task[h] # Null
  PROVE  /\ task[h] \in Task
         /\ task[h].at \in Stages /\ task[h].token \in Tokens
         /\ task[h].chat \in Chats \cup {Null} /\ task[h].msg \in Messages \cup {Null}
         /\ task[h].isNew \in BOOLEAN
BY DEF TypeOK, Task

\* What Finish and Goto do to the slots.
LEMMA FinishTask ==
  ASSUME TypeOK, NEW h \in Handlers, Finish(h)
  PROVE  /\ task' \in [Handlers -> Task \cup {Null}]
         /\ task'[h] = Null
         /\ \A x \in Handlers : x # h => task'[x] = task[x]
BY DEF Finish, TypeOK

LEMMA GotoTask ==
  ASSUME TypeOK, NEW h \in Handlers, NEW stage \in Stages, task[h] # Null, Goto(h, stage)
  PROVE  /\ task' \in [Handlers -> Task \cup {Null}]
         /\ task'[h] # Null /\ task'[h] = [task[h] EXCEPT !.at = stage]
         /\ \A x \in Handlers : x # h => task'[x] = task[x]
<1>1. task[h] \in Task /\ [task[h] EXCEPT !.at = stage] \in Task
  BY TaskType DEF Task
<1> QED
  BY <1>1, MessagingAssumption DEF Goto, TypeOK

-----------------------------------------------------------------------------
(* The inductive invariant.                                                 *)

Linking(h) == Waits(h, "linking") \/ Waits(h, "emitting")

\* What a send holds are rows that were created, and it alone holds its message,
\* which is not announced yet.
TasksHoldRows ==
  \A h \in Handlers : task[h] # Null =>
    /\ task[h].at \in {"checking", "finding", "creating"} => ~task[h].isNew
    /\ task[h].at \in {"storing", "linking", "emitting"} =>
         task[h].chat \in Chats /\ directChat[task[h].chat] # Null
    /\ Linking(h) =>
         /\ task[h].msg \in Messages \ emitted
         /\ message[task[h].msg] = [token |-> task[h].token, chat |-> task[h].chat]
         /\ \A x \in Handlers : Linking(x) /\ task[x].msg = task[h].msg => x = h

\* Ids name rows that were created; a chat that is gone, or not there yet, has no
\* last message.
RowsWereCreated ==
  /\ \A c \in directChats \cup heralded : directChat[c] # Null
  /\ \A c \in Chats \ directChats : lastSent[c] = Null
  /\ \A c \in directChats : lastSent[c] # Null => message[lastSent[c]] # Null
  /\ \A m \in messages \cup emitted : message[m] # Null
  /\ \A m \in Messages : message[m] # Null => directChat[message[m].chat] # Null

\* A chat keeps a last message from the update to the announcement, unless it is
\* deleted in between.
LinkedShows ==
  \A h \in Handlers : Waits(h, "emitting") /\ task[h].chat \in directChats =>
    lastSent[task[h].chat] # Null

IInv ==
  /\ TypeOK
  /\ TasksHoldRows
  /\ RowsWereCreated
  /\ LinkedShows
  /\ IntroducedOnce
  /\ ChatShowsMessages

\* The messages stored for t.
Of(t) == {m \in Messages : message[m] # Null /\ message[m].token = t}

\* StoredOnce without counting, and what it rests on: a token the gateway never
\* dropped is remembered while a send of it is past the check or stored.
TokensHeld ==
  \A t \in Tokens \ forgotten :
    /\ \A h \in Handlers : Claims(h, t) => t \in uniqueMsgTokens /\ Of(t) = {}
    /\ \A h, x \in Handlers : Claims(h, t) /\ Claims(x, t) => h = x
    /\ \A m, n \in Of(t) : t \in uniqueMsgTokens /\ m = n

-----------------------------------------------------------------------------
(* Types.                                                                   *)

LEMMA InitType == Init => TypeOK
BY DEF Init, TypeOK

LEMMA ForgetType ==
  ASSUME TypeOK, NEW S, Forget(S)
  PROVE  uniqueMsgTokens' \in SUBSET Tokens /\ forgotten' \in SUBSET Tokens
BY DEF Forget, TypeOK

LEMMA SocketType ==
  ASSUME TypeOK, NEW k \in Sockets, SocketStep(k)
  PROVE  TypeOK'
<1> USE DEF connVars, tokenVars, dbVars, TypeOK
<1>1. CASE Connect(k)
  BY <1>1 DEF Connect
<1>2. CASE AddConnectedClient(k)
  BY <1>2 DEF AddConnectedClient
<1>3. CASE Disconnect(k)
  BY <1>3 DEF Disconnect, HandleDisconnect, Forget
<1>4. CASE RefuseConnection(k)
  BY <1>4 DEF RefuseConnection, Drop, HandleDisconnect, Forget
<1>5. CASE RecoverMissingMessages(k)
  BY <1>5 DEF RecoverMissingMessages, Drop, HandleDisconnect, Forget
<1>6. ASSUME NEW u, NEW S \in SUBSET Sockets, Logout(u, S) PROVE TypeOK'
  BY <1>6 DEF Logout
<1> QED
  BY <1>1, <1>2, <1>3, <1>4, <1>5, <1>6 DEF SocketStep

LEMMA TypeStep == TypeOK /\ TasksHoldRows /\ [Next]_vars => TypeOK'
<1> SUFFICES ASSUME TypeOK, TasksHoldRows, [Next]_vars
             PROVE  TypeOK'
  OBVIOUS
<1> USE DEF connVars, tokenVars, dbVars, Stages
<1>1. ASSUME NEW k \in Sockets, SocketStep(k) PROVE TypeOK'
  BY <1>1, SocketType
<1>2. ASSUME NEW h \in Handlers, NEW k \in Sockets, NEW t \in Tokens,
             HandleSendDirectMessage(h, k, t)
      PROVE  TypeOK'
  BY <1>2 DEF HandleSendDirectMessage, TypeOK, Task
<1>3. ASSUME NEW h \in Handlers, CannotSend(h) \/ RefuseOverlap(h) \/ FailSend(h) \/ PushDone(h)
      PROVE  TypeOK'
  BY <1>3, FinishTask DEF CannotSend, RefuseOverlap, FailSend, PushDone, TypeOK
<1>4. ASSUME NEW h \in Handlers, CheckUniqueMessage(h) PROVE TypeOK'
  <2>1. task' \in [Handlers -> Task \cup {Null}] /\ task[h].token \in Tokens
    BY <1>4, GotoTask, TaskType DEF CheckUniqueMessage, Waits
  <2> QED
    BY <1>4, <2>1 DEF CheckUniqueMessage, TypeOK
<1>5. ASSUME NEW h \in Handlers, FindConversation(h) PROVE TypeOK'
  <2>1. CASE Goto(h, "creating")
    BY <1>5, <2>1, GotoTask DEF FindConversation, Waits, TypeOK
  <2>2. ASSUME NEW c \in Between(Author[task[h].token], Receiver[task[h].token]),
               task' = [task EXCEPT ![h].at = "storing", ![h].chat = c]
        PROVE  TypeOK'
    <3>1. c \in Chats
      BY DEF Between, TypeOK
    <3>2. [task[h] EXCEPT !.at = "storing", !.chat = c] \in Task
      BY <1>5, <3>1, TaskType DEF FindConversation, Waits, Task
    <3>3. task' \in [Handlers -> Task \cup {Null}]
      BY <2>2, <3>2 DEF TypeOK
    <3> QED
      BY <1>5, <3>3 DEF FindConversation, TypeOK
  <2> QED
    BY <1>5, <2>1, <2>2 DEF FindConversation
<1>6. ASSUME NEW h \in Handlers, NEW c \in Chats, CreateNewDirectChat(h, c) PROVE TypeOK'
  <2>1. [task[h] EXCEPT !.at = "storing", !.chat = c, !.isNew = TRUE] \in Task
    BY <1>6, TaskType DEF CreateNewDirectChat, Waits, Task
  <2>2. task' \in [Handlers -> Task \cup {Null}]
    BY <1>6, <2>1 DEF CreateNewDirectChat, TypeOK
  <2>3. [creator |-> Author[task[h].token], recipient |-> Receiver[task[h].token]] \in DirectChat
    BY <1>6, TaskType, MessagingAssumption DEF CreateNewDirectChat, Waits, DirectChat
  <2> QED
    BY <1>6, <2>2, <2>3 DEF CreateNewDirectChat, TypeOK
<1>7. ASSUME NEW h \in Handlers, NEW m \in Messages, CreateNewMessage(h, m) PROVE TypeOK'
  <2>1. [task[h] EXCEPT !.at = "linking", !.msg = m] \in Task
    BY <1>7, TaskType DEF CreateNewMessage, Waits, Task
  <2>2. task' \in [Handlers -> Task \cup {Null}]
    BY <1>7, <2>1 DEF CreateNewMessage, TypeOK
  <2>3. [token |-> task[h].token, chat |-> task[h].chat] \in Message
    BY <1>7, TaskType DEF CreateNewMessage, Waits, Message, TypeOK
  <2> QED
    BY <1>7, <2>2, <2>3 DEF CreateNewMessage, TypeOK
<1>8. ASSUME NEW h \in Handlers, UpdateLastSentMessage(h) PROVE TypeOK'
  BY <1>8, GotoTask, TaskType DEF UpdateLastSentMessage, Waits, TypeOK
<1>9. ASSUME NEW h \in Handlers, HandleEmitNewMessage(h) PROVE TypeOK'
  <2>1. task' \in [Handlers -> Task \cup {Null}]
    BY <1>9, GotoTask DEF HandleEmitNewMessage, Waits
  <2>2. task[h].msg \in Messages /\ task[h].chat \in Chats
    BY <1>9 DEF HandleEmitNewMessage, TasksHoldRows, Linking, Waits
  <2> QED
    BY <1>9, <2>1, <2>2 DEF HandleEmitNewMessage, TypeOK
<1>10. ASSUME NEW h \in Handlers, PushFails(h) PROVE TypeOK'
  BY <1>10, ForgetType DEF PushFails, TypeOK
<1>11. ASSUME NEW t \in Tokens, CleanTokenAutomatically(t) PROVE TypeOK'
  BY <1>11, ForgetType DEF CleanTokenAutomatically, TypeOK
<1>12. ASSUME NEW c \in Chats, DeleteMessages(c) \/ DeleteDirectChat(c) PROVE TypeOK'
  BY <1>12 DEF DeleteMessages, DeleteDirectChat, TypeOK
<1>13. CASE UNCHANGED vars
  BY <1>13 DEF vars, TypeOK
<1> QED
  BY <1>1, <1>2, <1>3, <1>4, <1>5, <1>6, <1>7, <1>8, <1>9, <1>10, <1>11, <1>12, <1>13
     DEF Next, Resume, Quiet

-----------------------------------------------------------------------------
(* The invariant is inductive.                                              *)

\* Sends begin, end, or go on before they hold anything; no row changes.
Early(x) ==
  \/ task'[x] = task[x]
  \/ task'[x] = Null
  \/ task'[x] # Null /\ task'[x].at \in {"checking", "finding", "creating"} /\ ~task'[x].isNew

LEMMA EarlyKeeps ==
  ASSUME IInv, TypeOK', UNCHANGED <<dbVars, emitted, heralded>>, \A x \in Handlers : Early(x)
  PROVE  IInv'
<1> USE DEF IInv, Early, dbVars
<1>1. TasksHoldRows'
  BY DEF TasksHoldRows, Linking, Waits
<1>2. RowsWereCreated'
  BY DEF RowsWereCreated
<1>3. LinkedShows'
  BY DEF LinkedShows, Waits
<1>4. IntroducedOnce'
  BY DEF IntroducedOnce, Awaits, Waits
<1>5. ChatShowsMessages'
  BY DEF ChatShowsMessages
<1> QED
  BY <1>1, <1>2, <1>3, <1>4, <1>5

LEMMA FinishIsEarly ==
  ASSUME TypeOK, NEW h \in Handlers, Finish(h)
  PROVE  \A x \in Handlers : Early(x)
BY FinishTask DEF Early

\* The send in slot h goes on; the others stay where they are.
Moves(h, at, c, isNew, m) ==
  /\ task[h] # Null /\ task'[h] # Null
  /\ task'[h].at = at /\ task'[h].token = task[h].token
  /\ task'[h].chat = c /\ task'[h].isNew = isNew /\ task'[h].msg = m
  /\ \A x \in Handlers : x # h => task'[x] = task[x]

\* FindConversation finds a chat.
Finds(h, c) ==
  Waits(h, "finding") /\ task' = [task EXCEPT ![h].at = "storing", ![h].chat = c]

LEMMA FoundMoves ==
  ASSUME TypeOK, NEW h \in Handlers, NEW c \in Chats, Finds(h, c)
  PROVE  Moves(h, "storing", c, task[h].isNew, task[h].msg)
<1>1. task[h] # Null /\ task[h] \in Task
  BY TaskType DEF Finds, Waits
<1>2. task'[h] = [task[h] EXCEPT !.at = "storing", !.chat = c] /\ \A x \in Handlers : x # h => task'[x] = task[x]
  BY <1>1 DEF TypeOK, Finds
<1>3. task'[h] \in Task
  BY <1>1, <1>2 DEF Task, Stages
<1> QED
  BY <1>1, <1>2, <1>3, MessagingAssumption DEF Moves, Task

LEMMA CreatedMoves ==
  ASSUME TypeOK, NEW h \in Handlers, NEW c \in Chats, CreateNewDirectChat(h, c)
  PROVE  Moves(h, "storing", c, TRUE, task[h].msg)
<1>1. task[h] # Null /\ task[h] \in Task
  BY TaskType DEF CreateNewDirectChat, Waits
<1>2. task'[h] = [task[h] EXCEPT !.at = "storing", !.chat = c, !.isNew = TRUE] /\ \A x \in Handlers : x # h => task'[x] = task[x]
  BY <1>1 DEF TypeOK, CreateNewDirectChat
<1>3. task'[h] \in Task
  BY <1>1, <1>2 DEF Task, Stages
<1> QED
  BY <1>1, <1>2, <1>3, MessagingAssumption DEF Moves, Task

LEMMA StoredMoves ==
  ASSUME TypeOK, NEW h \in Handlers, NEW m \in Messages, CreateNewMessage(h, m)
  PROVE  Moves(h, "linking", task[h].chat, task[h].isNew, m)
<1>1. task[h] # Null /\ task[h] \in Task
  BY TaskType DEF CreateNewMessage, Waits
<1>2. task'[h] = [task[h] EXCEPT !.at = "linking", !.msg = m] /\ \A x \in Handlers : x # h => task'[x] = task[x]
  BY <1>1 DEF TypeOK, CreateNewMessage
<1>3. task'[h] \in Task
  BY <1>1, <1>2 DEF Task, Stages
<1> QED
  BY <1>1, <1>2, <1>3, MessagingAssumption DEF Moves, Task

LEMMA GotoMoves ==
  ASSUME TypeOK, NEW h \in Handlers, NEW from, NEW stage \in Stages, Waits(h, from),
         Goto(h, stage)
  PROVE  Moves(h, stage, task[h].chat, task[h].isNew, task[h].msg)
<1>1. task[h] # Null /\ task[h] \in Task
  BY TaskType DEF Waits
<1>2. task'[h] = [task[h] EXCEPT !.at = stage] /\ \A x \in Handlers : x # h => task'[x] = task[x]
  BY <1>1 DEF TypeOK, Goto, Waits
<1>3. task'[h] \in Task
  BY <1>1, <1>2 DEF Task, Stages
<1> QED
  BY <1>1, <1>2, <1>3, MessagingAssumption DEF Moves, Task

LEMMA FoundKeeps ==
  ASSUME IInv, TypeOK', NEW h \in Handlers, NEW c \in directChats, Finds(h, c),
         UNCHANGED <<dbVars, emitted, heralded>>
  PROVE  IInv'
<1>0. Waits(h, "finding") /\ c \in Chats /\ directChat[c] # Null
  BY DEF IInv, Finds, RowsWereCreated, TypeOK
<1>1. Moves(h, "storing", c, FALSE, task[h].msg)
  <2>1. task[h].isNew = FALSE
    BY <1>0, TaskType DEF IInv, TasksHoldRows, Waits
  <2>2. Moves(h, "storing", c, task[h].isNew, task[h].msg)
    BY <1>0, FoundMoves DEF IInv
  <2> QED
    BY <2>1, <2>2
<1> USE DEF IInv, dbVars, Waits, Moves
<1>3. TasksHoldRows'
  BY <1>0, <1>1 DEF TasksHoldRows, Linking
<1>4. RowsWereCreated' /\ ChatShowsMessages'
  BY DEF RowsWereCreated, ChatShowsMessages
<1>5. LinkedShows'
  BY <1>1 DEF LinkedShows
<1>6. IntroducedOnce'
  BY <1>1 DEF IntroducedOnce, Awaits
<1> QED
  BY <1>3, <1>4, <1>5, <1>6

LEMMA CreateChatKeeps ==
  ASSUME IInv, TypeOK', NEW h \in Handlers, NEW c \in Chats, CreateNewDirectChat(h, c)
  PROVE  IInv'
<1>1. Waits(h, "creating") /\ Moves(h, "storing", c, TRUE, task[h].msg)
  BY CreatedMoves DEF IInv, CreateNewDirectChat
<1>2. /\ directChat[c] = Null /\ directChat'[c] # Null /\ directChats' = directChats \cup {c}
      /\ \A d \in Chats : d # c => directChat'[d] = directChat[d]
      /\ UNCHANGED <<lastSent, message, messages, emitted, heralded>>
  <2>1. [creator |-> Author[task[h].token], recipient |-> Receiver[task[h].token]] \in DirectChat
    BY TaskType, MessagingAssumption DEF IInv, CreateNewDirectChat, Waits, DirectChat
  <2> QED
    BY <2>1, MessagingAssumption DEF IInv, CreateNewDirectChat, TypeOK
<1> USE DEF IInv, Waits, Moves
<1>3. c \notin heralded /\ c \notin directChats /\ lastSent[c] = Null
  BY <1>2 DEF RowsWereCreated
<1>4. TasksHoldRows'
  BY <1>1, <1>2 DEF TasksHoldRows, Linking
<1>5. RowsWereCreated'
  BY <1>2, <1>3 DEF RowsWereCreated, TypeOK, Message
<1>6. LinkedShows'
  <2> SUFFICES ASSUME NEW x \in Handlers, task'[x] # Null, task'[x].at = "emitting",
                      task'[x].chat \in directChats'
               PROVE  lastSent'[task'[x].chat] # Null
    BY DEF LinkedShows
  <2>1. x # h
    BY <1>1
  <2>2. task'[x] = task[x]
    BY <1>1, <2>1
  <2>3. task[x].chat # c
    BY <1>2, <2>2 DEF TasksHoldRows
  <2>4. task[x].chat \in directChats
    BY <1>2, <2>2, <2>3
  <2> QED
    BY <1>2, <2>2, <2>4 DEF LinkedShows
<1>7. IntroducedOnce'
  <2>1. ASSUME NEW x \in Handlers, x # h, Awaits(x)', task'[x].isNew
        PROVE  /\ Awaits(x) /\ task'[x] = task[x] /\ task[x].isNew
               /\ task[x].chat \in Chats /\ task[x].chat # c
    <3>1. task'[x] = task[x] /\ Awaits(x)
      BY <1>1, <2>1 DEF Awaits
    <3>2. task[x].at \in {"storing", "linking", "emitting"}
      BY <2>1, <3>1 DEF Awaits, Stages, TasksHoldRows
    <3> QED
      BY <1>2, <2>1, <3>1, <3>2 DEF TasksHoldRows, Awaits
  <2>2. task'[h].chat = c
    BY <1>1
  <2> QED
    BY <1>2, <1>3, <2>1, <2>2 DEF IntroducedOnce
<1>8. ChatShowsMessages'
  <2>1. \A m \in emitted : message[m].chat # c
    BY <1>2 DEF RowsWereCreated, TypeOK
  <2> QED
    BY <1>2, <1>3, <2>1 DEF ChatShowsMessages
<1> QED
  BY <1>4, <1>5, <1>6, <1>7, <1>8

LEMMA CreateMessageKeeps ==
  ASSUME IInv, TypeOK', NEW h \in Handlers, NEW m \in Messages, CreateNewMessage(h, m)
  PROVE  IInv'
<1>1. Waits(h, "storing") /\ Moves(h, "linking", task[h].chat, task[h].isNew, m)
  BY StoredMoves DEF IInv, CreateNewMessage
<1>2. /\ message[m] = Null /\ messages' = messages \cup {m}
      /\ message'[m] = [token |-> task[h].token, chat |-> task[h].chat] /\ message'[m] # Null
      /\ \A n \in Messages : n # m => message'[n] = message[n]
      /\ UNCHANGED <<directChat, directChats, lastSent, emitted, heralded>>
      /\ task[h].chat \in directChats
  <2>1. [token |-> task[h].token, chat |-> task[h].chat] \in Message
    BY TaskType DEF IInv, CreateNewMessage, Waits, Message, TypeOK
  <2> QED
    BY <2>1, MessagingAssumption DEF IInv, CreateNewMessage, TypeOK
<1> USE DEF IInv, Waits, Moves
<1>3. /\ m \notin emitted
      /\ \A x \in Handlers : Linking(x) => task[x].msg # m
      /\ \A c \in directChats : lastSent[c] # m
  <2>1. \A x \in Handlers : Linking(x) => message[task[x].msg] \in Message
    <3> SUFFICES ASSUME NEW x \in Handlers, Linking(x)
                 PROVE  message[task[x].msg] \in Message
      OBVIOUS
    <3>1. /\ message[task[x].msg] = [token |-> task[x].token, chat |-> task[x].chat]
          /\ task[x].token \in Tokens /\ task[x].chat \in Chats
      BY TaskType DEF TasksHoldRows, Linking
    <3> QED
      BY <3>1 DEF Message
  <2>2. m # Null /\ Null \notin Message
    BY MessagingAssumption
  <2> QED
    BY <1>2, <2>1, <2>2 DEF RowsWereCreated
<1>4. TasksHoldRows'
  BY <1>1, <1>2, <1>3 DEF TasksHoldRows, Linking
<1>5. RowsWereCreated'
  BY <1>2, <1>3 DEF RowsWereCreated, TypeOK
<1>6. LinkedShows'
  BY <1>1, <1>2 DEF LinkedShows
<1>7. IntroducedOnce'
  BY <1>1, <1>2 DEF IntroducedOnce, Awaits, Stages
<1>8. ChatShowsMessages'
  BY <1>2, <1>3 DEF ChatShowsMessages, TypeOK
<1> QED
  BY <1>4, <1>5, <1>6, <1>7, <1>8

LEMMA UpdateLastSentKeeps ==
  ASSUME IInv, TypeOK', NEW h \in Handlers, UpdateLastSentMessage(h)
  PROVE  IInv'
<1>1. Waits(h, "linking") /\ Moves(h, "emitting", task[h].chat, task[h].isNew, task[h].msg)
  BY GotoMoves DEF IInv, UpdateLastSentMessage, Stages
<1>2. /\ task[h].chat \in directChats /\ lastSent'[task[h].chat] = task[h].msg
      /\ \A c \in Chats : c # task[h].chat => lastSent'[c] = lastSent[c]
      /\ UNCHANGED <<directChat, directChats, message, messages, emitted, heralded>>
  BY DEF IInv, UpdateLastSentMessage, TypeOK
<1> USE DEF IInv, Waits, Moves
<1>3. /\ task[h].msg \in Messages /\ task[h].msg # Null /\ message[task[h].msg] # Null
      /\ message[task[h].msg].chat = task[h].chat
  <2>1. task[h].msg \in Messages
        /\ message[task[h].msg] = [token |-> task[h].token, chat |-> task[h].chat]
    BY <1>1 DEF TasksHoldRows, Linking
  <2>2. [token |-> task[h].token, chat |-> task[h].chat] \in Message
    BY <1>1, <1>2, TaskType DEF Message, TypeOK
  <2> QED
    BY <2>1, <2>2, MessagingAssumption
<1>4. TasksHoldRows'
  BY <1>1, <1>2 DEF TasksHoldRows, Linking
<1>5. RowsWereCreated'
  BY <1>2, <1>3 DEF RowsWereCreated, TypeOK
<1>6. LinkedShows'
  BY <1>1, <1>2, <1>3 DEF LinkedShows, TypeOK
<1>7. IntroducedOnce'
  BY <1>1, <1>2 DEF IntroducedOnce, Awaits, Stages
<1>8. ChatShowsMessages'
  BY <1>2, <1>3 DEF ChatShowsMessages, TypeOK
<1> QED
  BY <1>4, <1>5, <1>6, <1>7, <1>8

LEMMA EmitKeeps ==
  ASSUME IInv, TypeOK', NEW h \in Handlers, HandleEmitNewMessage(h)
  PROVE  IInv'
<1>1. Waits(h, "emitting") /\ Moves(h, "pushing", task[h].chat, task[h].isNew, task[h].msg)
  BY GotoMoves DEF IInv, HandleEmitNewMessage, Stages
<1>2. /\ emitted' = emitted \cup {task[h].msg}
      /\ heralded' = IF task[h].isNew THEN heralded \cup {task[h].chat} ELSE heralded
      /\ UNCHANGED <<directChat, directChats, lastSent, message, messages>>
  BY DEF HandleEmitNewMessage, dbVars
<1> USE DEF IInv, Waits, Moves
<1>3. /\ task[h].chat \in Chats /\ directChat[task[h].chat] # Null
      /\ task[h].msg \in Messages
      /\ message[task[h].msg] # Null /\ message[task[h].msg].chat = task[h].chat
  <2>1. /\ task[h].msg \in Messages
        /\ message[task[h].msg] = [token |-> task[h].token, chat |-> task[h].chat]
        /\ task[h].chat \in Chats /\ directChat[task[h].chat] # Null
    BY <1>1 DEF TasksHoldRows, Linking
  <2>2. [token |-> task[h].token, chat |-> task[h].chat] \in Message
    BY <1>1, <2>1, TaskType DEF Message
  <2> QED
    BY <2>1, <2>2, MessagingAssumption
<1>4. TasksHoldRows'
  BY <1>1, <1>2 DEF TasksHoldRows, Linking
<1>5. RowsWereCreated'
  BY <1>2, <1>3 DEF RowsWereCreated
<1>6. LinkedShows'
  BY <1>1, <1>2 DEF LinkedShows
<1>7. IntroducedOnce'
  BY <1>1, <1>2 DEF IntroducedOnce, Awaits, Stages
<1>8. ChatShowsMessages'
  BY <1>1, <1>2, <1>3 DEF ChatShowsMessages, LinkedShows
<1> QED
  BY <1>4, <1>5, <1>6, <1>7, <1>8

LEMMA DeleteKeeps ==
  ASSUME IInv, TypeOK', NEW c \in Chats, DeleteMessages(c) \/ DeleteDirectChat(c)
  PROVE  IInv'
<1> USE DEF IInv
<1>1. /\ directChats' \subseteq directChats /\ messages' \subseteq messages
      /\ \A d \in Chats : lastSent'[d] = lastSent[d] \/ (lastSent'[d] = Null /\ d \notin directChats')
      /\ \A d \in directChats \ directChats' : lastSent'[d] = Null
      /\ UNCHANGED <<task, directChat, message, emitted, heralded>>
  BY DEF DeleteMessages, DeleteDirectChat, TypeOK
<1>2. TasksHoldRows'
  BY <1>1 DEF TasksHoldRows, Linking, Waits
<1>3. RowsWereCreated'
  BY <1>1 DEF RowsWereCreated, TypeOK
<1>4. LinkedShows'
  BY <1>1 DEF LinkedShows, Waits, TypeOK
<1>5. IntroducedOnce'
  BY <1>1 DEF IntroducedOnce, Awaits, Waits
<1>6. ChatShowsMessages'
  BY <1>1 DEF ChatShowsMessages, TypeOK
<1> QED
  BY <1>2, <1>3, <1>4, <1>5, <1>6

LEMMA InitInv == Init => IInv
BY InitType, MessagingAssumption
   DEF Init, IInv, TasksHoldRows, RowsWereCreated, LinkedShows, IntroducedOnce, Awaits,
       ChatShowsMessages, Waits

LEMMA InvStep == IInv /\ [Next]_vars => IInv'
<1> SUFFICES ASSUME IInv, [Next]_vars
             PROVE  IInv'
  OBVIOUS
<1>0. TypeOK /\ TypeOK'
  BY TypeStep DEF IInv
<1>1. ASSUME UNCHANGED <<task, dbVars, emitted, heralded>> PROVE IInv'
  BY <1>0, <1>1, EarlyKeeps DEF Early
<1>2. ASSUME NEW k \in Sockets, SocketStep(k) PROVE IInv'
  BY <1>1, <1>2 DEF SocketStep, Connect, AddConnectedClient, Disconnect, RefuseConnection,
                    RecoverMissingMessages, Drop, Logout
<1>3. ASSUME NEW h \in Handlers, NEW k \in Sockets, NEW t \in Tokens,
             HandleSendDirectMessage(h, k, t)
      PROVE  IInv'
  <2>1. \A x \in Handlers : Early(x)
    <3>1. /\ task'[h] = [at |-> "checking", token |-> t, chat |-> Null, isNew |-> FALSE, msg |-> Null]
          /\ \A x \in Handlers : x # h => task'[x] = task[x]
      BY <1>0, <1>3 DEF HandleSendDirectMessage, TypeOK
    <3>2. task'[h] \in Task
      BY <3>1 DEF Task, Stages
    <3> QED
      BY <3>1, <3>2, MessagingAssumption DEF Early
  <2> QED
    BY <1>0, <1>3, <2>1, EarlyKeeps DEF HandleSendDirectMessage
<1>4. ASSUME NEW h \in Handlers, CannotSend(h) \/ RefuseOverlap(h) \/ FailSend(h) \/ PushDone(h)
      PROVE  IInv'
  BY <1>0, <1>4, FinishIsEarly, EarlyKeeps DEF CannotSend, RefuseOverlap, FailSend, PushDone
<1>5. ASSUME NEW h \in Handlers, NEW from \in {"checking", "finding"}, Waits(h, from),
             NEW stage \in {"finding", "creating"}, Goto(h, stage),
             UNCHANGED <<dbVars, emitted, heralded>>
      PROVE  IInv'
  <2>1. Moves(h, stage, task[h].chat, task[h].isNew, task[h].msg)
    BY <1>0, <1>5, GotoMoves DEF Stages
  <2>2. ~task[h].isNew
    BY <1>5 DEF IInv, TasksHoldRows, Waits
  <2>3. \A x \in Handlers : Early(x)
    BY <2>1, <2>2 DEF Moves, Early
  <2> QED
    BY <1>0, <1>5, <2>3, EarlyKeeps
<1>6. ASSUME NEW h \in Handlers, CheckUniqueMessage(h) PROVE IInv'
  BY <1>5, <1>6 DEF CheckUniqueMessage
<1>7. ASSUME NEW h \in Handlers, FindConversation(h) PROVE IInv'
  <2>1. CASE Goto(h, "creating")
    BY <1>5, <1>7, <2>1 DEF FindConversation
  <2>2. ASSUME NEW c \in directChats, Finds(h, c) PROVE IInv'
    BY <1>0, <1>7, <2>2, FoundKeeps DEF FindConversation
  <2> QED
    BY <1>7, <2>1, <2>2 DEF FindConversation, Finds, Between
<1>8. ASSUME NEW h \in Handlers, PushFails(h) PROVE IInv'
  <2>1. \A x \in Handlers : Early(x)
    BY <1>8 DEF PushFails, Early
  <2> QED
    BY <1>0, <1>8, <2>1, EarlyKeeps DEF PushFails
<1>9. ASSUME NEW t \in Tokens, CleanTokenAutomatically(t) PROVE IInv'
  BY <1>1, <1>9 DEF CleanTokenAutomatically
<1>10. CASE UNCHANGED vars
  BY <1>1, <1>10 DEF vars
<1> QED
  BY <1>0, <1>2, <1>3, <1>4, <1>6, <1>7, <1>8, <1>9, <1>10, CreateChatKeeps,
     CreateMessageKeeps, UpdateLastSentKeeps, EmitKeeps, DeleteKeeps
     DEF Next, Resume, Quiet

LEMMA Invariant == Spec => []IInv
BY InitInv, InvStep, PTL DEF Spec

\* Messaging: every variable keeps its type, whatever clients, retries, failures,
\* crashes and deletions do.
THEOREM TypeCorrect == Spec => []TypeOK
<1>1. IInv => TypeOK
  BY DEF IInv
<1> QED
  BY <1>1, Invariant, PTL

\* createNewDirectChat: of the sends that find no chat and insert one, a chat is
\* introduced by the one that created it, and once.
THEOREM ChatsAreIntroducedOnce == Spec => []IntroducedOnce
<1>1. IInv => IntroducedOnce
  BY DEF IInv
<1> QED
  BY <1>1, Invariant, PTL

\* updateLastSentMessage before the announcement: the chat of an announced message
\* shows a message, and one of its own, also while chats are deleted.
THEOREM AnnouncedChatsShow == Spec => []ChatShowsMessages
<1>1. IInv => ChatShowsMessages
  BY DEF IInv
<1> QED
  BY <1>1, Invariant, PTL

-----------------------------------------------------------------------------
(* Connections.                                                             *)

LEMMA OpenStep == TypeOK /\ OpenIsRegistered /\ [Next]_vars => OpenIsRegistered'
<1> SUFFICES ASSUME TypeOK, OpenIsRegistered, [Next]_vars
             PROVE  OpenIsRegistered'
  OBVIOUS
<1> USE DEF OpenIsRegistered, TypeOK
<1>1. CASE UNCHANGED connVars
  BY <1>1 DEF connVars
<1>2. ASSUME NEW k \in Sockets, SocketStep(k) PROVE OpenIsRegistered'
  <2>1. CASE Connect(k) \/ AddConnectedClient(k)
    BY <2>1 DEF Connect, AddConnectedClient
  <2>2. CASE Disconnect(k)
    BY <2>2 DEF Disconnect, HandleDisconnect
  <2>3. CASE RefuseConnection(k) \/ RecoverMissingMessages(k)
    BY <2>3 DEF RefuseConnection, RecoverMissingMessages, Drop, HandleDisconnect
  <2>4. ASSUME NEW u, NEW S, Logout(u, S) PROVE OpenIsRegistered'
    BY <2>4 DEF Logout
  <2> QED
    BY <1>2, <2>1, <2>2, <2>3, <2>4 DEF SocketStep
<1>3. ASSUME NEW h \in Handlers, PushFails(h) PROVE OpenIsRegistered'
  BY <1>3 DEF PushFails
<1> QED
  BY <1>1, <1>2, <1>3
     DEF Next, Resume, Quiet, vars, HandleSendDirectMessage, CannotSend, RefuseOverlap,
         CheckUniqueMessage, FindConversation, CreateNewDirectChat, CreateNewMessage,
         UpdateLastSentMessage, FailSend, HandleEmitNewMessage, PushDone,
         CleanTokenAutomatically, DeleteMessages, DeleteDirectChat

\* An open socket that was accepted is in connectedClients unless a logout took it
\* out, whatever the other devices of its user do.
THEOREM OpenSocketsAreRegistered == Spec => []OpenIsRegistered
<1>1. Init => OpenIsRegistered
  BY DEF Init, OpenIsRegistered
<1>2. IInv => TypeOK
  BY DEF IInv
<1> QED
  BY <1>1, <1>2, Invariant, OpenStep, PTL DEF Spec

-----------------------------------------------------------------------------
(* Tokens.                                                                  *)

\* No send gets past the token check, no message is stored, no token is stored again.
Unclaimed ==
  /\ \A x \in Handlers, t \in Tokens : Claims(x, t)' => Claims(x, t)
  /\ UNCHANGED message
  /\ \A t \in Tokens \ forgotten' : t \notin forgotten /\ (t \in uniqueMsgTokens => t \in uniqueMsgTokens')

LEMMA UnclaimedKeeps == TokensHeld /\ Unclaimed => TokensHeld'
BY DEF TokensHeld, Unclaimed, Of

LEMMA TokensStep == IInv /\ TokensHeld /\ [Next]_vars => TokensHeld'
<1> SUFFICES ASSUME IInv, TypeOK, TokensHeld, [Next]_vars
             PROVE  TokensHeld'
  BY DEF IInv
<1>1. ASSUME UNCHANGED <<task, message>>,
             UNCHANGED <<uniqueMsgTokens, forgotten>> \/ \E S \in SUBSET Tokens : Forget(S)
      PROVE  TokensHeld'
  BY <1>1, UnclaimedKeeps DEF Unclaimed, Claims, Forget
<1>2. ASSUME NEW h \in Handlers, NEW c, NEW new, NEW m, NEW at,
             Moves(h, at, c, new, m), Claims(h, task[h].token) \/ at \notin {"finding", "creating", "storing"},
             UNCHANGED <<message, uniqueMsgTokens, forgotten>>
      PROVE  TokensHeld'
  BY <1>2, UnclaimedKeeps DEF Unclaimed, Claims, Moves
<1>3. ASSUME NEW h \in Handlers, Finish(h), UNCHANGED <<message, uniqueMsgTokens, forgotten>>
      PROVE  TokensHeld'
  BY <1>3, FinishTask, UnclaimedKeeps DEF Unclaimed, Claims
<1>4. ASSUME NEW k \in Sockets, SocketStep(k) PROVE TokensHeld'
  <2>1. {t \in Tokens : Author[t] = SocketUser[k]} \in SUBSET Tokens
    OBVIOUS
  <2> QED
    BY <1>1, <1>4, <2>1 DEF SocketStep, Connect, AddConnectedClient, Disconnect,
       RefuseConnection, RecoverMissingMessages, Drop, HandleDisconnect, Logout, tokenVars, dbVars
<1>5. ASSUME NEW h \in Handlers, NEW k \in Sockets, NEW t \in Tokens,
             HandleSendDirectMessage(h, k, t)
      PROVE  TokensHeld'
  <2>1. task'[h].at = "checking" /\ \A x \in Handlers : x # h => task'[x] = task[x]
    BY <1>5 DEF HandleSendDirectMessage, TypeOK
  <2> QED
    BY <1>5, <2>1, UnclaimedKeeps DEF HandleSendDirectMessage, Unclaimed, Claims, tokenVars, dbVars
<1>6. ASSUME NEW h \in Handlers, CannotSend(h) \/ RefuseOverlap(h) \/ FailSend(h) \/ PushDone(h)
      PROVE  TokensHeld'
  BY <1>3, <1>6 DEF CannotSend, RefuseOverlap, FailSend, PushDone, tokenVars, dbVars
<1>7. ASSUME NEW h \in Handlers, CheckUniqueMessage(h) PROVE TokensHeld'
  <2>1. Waits(h, "checking") /\ task[h].token \notin uniqueMsgTokens
    BY <1>7 DEF CheckUniqueMessage
  <2>2. Moves(h, "finding", task[h].chat, task[h].isNew, task[h].msg)
    BY <1>7, <2>1, GotoMoves DEF CheckUniqueMessage, Stages
  <2>3. /\ uniqueMsgTokens' = uniqueMsgTokens \cup {task[h].token}
        /\ UNCHANGED <<message, forgotten>>
    BY <1>7 DEF CheckUniqueMessage, dbVars
  <2>4. \A x \in Handlers, t \in Tokens : Claims(x, t)' =>
          Claims(x, t) \/ (x = h /\ t = task[h].token)
    BY <2>2 DEF Claims, Moves
  <2> QED
    BY <2>1, <2>3, <2>4 DEF TokensHeld, Of
<1>8. ASSUME NEW h \in Handlers, FindConversation(h) PROVE TokensHeld'
  <2>1. Waits(h, "finding") /\ UNCHANGED <<message, uniqueMsgTokens, forgotten>>
        /\ Claims(h, task[h].token)
    BY <1>8 DEF FindConversation, dbVars, tokenVars, Claims, Waits
  <2>2. CASE Goto(h, "creating")
    <3>1. Moves(h, "creating", task[h].chat, task[h].isNew, task[h].msg)
      BY <2>1, <2>2, GotoMoves DEF Stages
    <3> QED
      BY <1>2, <2>1, <3>1
  <2>3. ASSUME NEW c \in directChats, Finds(h, c) PROVE TokensHeld'
    <3>1. Moves(h, "storing", c, task[h].isNew, task[h].msg)
      BY <2>3, FoundMoves DEF TypeOK
    <3> QED
      BY <1>2, <2>1, <3>1
  <2> QED
    BY <1>8, <2>2, <2>3 DEF FindConversation, Finds, Between
<1>9. ASSUME NEW h \in Handlers, NEW c \in Chats, CreateNewDirectChat(h, c) PROVE TokensHeld'
  <2>1. Claims(h, task[h].token) /\ UNCHANGED <<message, uniqueMsgTokens, forgotten>>
    BY <1>9 DEF CreateNewDirectChat, tokenVars, Claims, Waits
  <2> QED
    BY <1>2, <1>9, <2>1, CreatedMoves
<1>10. ASSUME NEW h \in Handlers, NEW m \in Messages, CreateNewMessage(h, m) PROVE TokensHeld'
  <2>1. /\ Claims(h, task[h].token) /\ task[h].token \in Tokens
        /\ UNCHANGED <<uniqueMsgTokens, forgotten>>
    BY <1>10, TaskType DEF CreateNewMessage, tokenVars, Claims, Waits
  <2>2. Moves(h, "linking", task[h].chat, task[h].isNew, m)
    BY <1>10, StoredMoves
  <2>3. /\ message'[m].token = task[h].token
        /\ \A n \in Messages : n # m => message'[n] = message[n]
    BY <1>10 DEF CreateNewMessage, TypeOK
  <2>4. \A x \in Handlers, t \in Tokens : Claims(x, t)' => Claims(x, t) /\ x # h
    BY <2>2 DEF Claims, Moves
  <2>5. \A t \in Tokens : Of(t)' \subseteq (IF t = task[h].token THEN Of(t) \cup {m} ELSE Of(t))
    BY <2>3 DEF Of
  <2>6. Of(task[h].token) = {} \/ task[h].token \in forgotten
    BY <2>1 DEF TokensHeld
  <2> QED
    BY <2>1, <2>4, <2>5, <2>6 DEF TokensHeld
<1>11. ASSUME NEW h \in Handlers, UpdateLastSentMessage(h) \/ HandleEmitNewMessage(h)
       PROVE  TokensHeld'
  <2>1. UNCHANGED <<message, uniqueMsgTokens, forgotten>>
    BY <1>11 DEF UpdateLastSentMessage, HandleEmitNewMessage, tokenVars, dbVars
  <2>2. \E at \in {"emitting", "pushing"} : Moves(h, at, task[h].chat, task[h].isNew, task[h].msg)
    BY <1>11, GotoMoves DEF UpdateLastSentMessage, HandleEmitNewMessage, Stages
  <2> QED
    BY <1>2, <2>1, <2>2
<1>12. ASSUME NEW h \in Handlers, PushFails(h) PROVE TokensHeld'
  BY <1>12, UnclaimedKeeps DEF PushFails, Unclaimed, Claims, Forget, dbVars
<1>13. ASSUME NEW t \in Tokens, CleanTokenAutomatically(t) PROVE TokensHeld'
  BY <1>1, <1>13 DEF CleanTokenAutomatically, dbVars
<1>14. ASSUME NEW c \in Chats, DeleteMessages(c) \/ DeleteDirectChat(c) PROVE TokensHeld'
  BY <1>1, <1>14 DEF DeleteMessages, DeleteDirectChat, tokenVars
<1>15. CASE UNCHANGED vars
  BY <1>1, <1>15 DEF vars, tokenVars, dbVars
<1> QED
  BY <1>4, <1>5, <1>6, <1>7, <1>8, <1>9, <1>10, <1>11, <1>12, <1>13, <1>14, <1>15
     DEF Next, Resume, Quiet

\* A set all of whose elements are the same has at most one.
LEMMA AtMostOne ==
  ASSUME NEW S, \A x, y \in S : x = y
  PROVE  Cardinality(S) \in {0, 1} /\ (S = {} => Cardinality(S) = 0)
<1>1. CASE S = {}
  BY <1>1, FS_EmptySet
<1>2. ASSUME NEW x \in S PROVE Cardinality(S) = 1
  <2>1. S = {x}
    OBVIOUS
  <2> QED
    BY <2>1, FS_Singleton
<1> QED
  BY <1>1, <1>2

LEMMA HeldIsOnce == TokensHeld => StoredOnce
<1> SUFFICES ASSUME TokensHeld, NEW t \in Tokens \ forgotten
             PROVE  Cardinality({h \in Handlers : Claims(h, t)}) + Cardinality(Of(t)) <= 1
  BY DEF StoredOnce, Of
<1> DEFINE C == {h \in Handlers : Claims(h, t)}
<1>1. (\A h, x \in C : h = x) /\ (\A m, n \in Of(t) : m = n) /\ (C = {} \/ Of(t) = {})
  BY DEF TokensHeld
<1>2. Cardinality(C) \in {0, 1} /\ (C = {} => Cardinality(C) = 0)
  BY <1>1, AtMostOne
<1>3. Cardinality(Of(t)) \in {0, 1} /\ (Of(t) = {} => Cardinality(Of(t)) = 0)
  BY <1>1, AtMostOne
<1> QED
  BY <1>1, <1>2, <1>3

\* checkUniqueMessage: however often clients retry, at most one send of a message is
\* past the check or stored while the gateway never dropped its token.
THEOREM RetriesStoreOnce == Spec => []StoredOnce
<1>1. Init => TokensHeld
  BY DEF Init, TokensHeld, Claims, Of
<1> QED
  BY <1>1, Invariant, TokensStep, HeldIsOnce, PTL DEF Spec

-----------------------------------------------------------------------------
(* Messaging implements MessageOnce.                                        *)

ClaimStages == {"finding", "creating", "storing"}
OweStages == {"linking", "emitting"}

\* What Count and CountMessages count.
SlotsOf(t, stages) ==
  {h \in Handlers : task[h] # Null /\ task[h].token = t /\ task[h].at \in stages}
ToldOf(t) == {m \in emitted : message[m].token = t}

Busy == {h \in Handlers : task[h] # Null}
Stored == {m \in Messages : message[m] # Null}

\* Nothing bounds the sends or the messages, but only finitely many were made so far.
FiniteWork == IsFiniteSet(Busy) /\ IsFiniteSet(Stored)

LEMMA FiniteStep == TypeOK /\ FiniteWork /\ [Next]_vars => FiniteWork'
<1> SUFFICES ASSUME TypeOK, FiniteWork, [Next]_vars
             PROVE  FiniteWork'
  OBVIOUS
<1>1. ASSUME NEW h, Busy' \subseteq Busy \cup {h}, UNCHANGED message PROVE FiniteWork'
  BY <1>1, FS_AddElement, FS_Subset DEF FiniteWork, Stored
<1>2. ASSUME UNCHANGED <<task, message>> PROVE FiniteWork'
  BY <1>2 DEF FiniteWork, Busy, Stored
<1>3. ASSUME NEW h \in Handlers, NEW k \in Sockets, NEW t \in Tokens,
             HandleSendDirectMessage(h, k, t)
      PROVE  FiniteWork'
  <2>1. Busy' \subseteq Busy \cup {h}
    BY <1>3 DEF HandleSendDirectMessage, Busy, TypeOK
  <2> QED
    BY <1>1, <1>3, <2>1 DEF HandleSendDirectMessage, dbVars
<1>4. ASSUME NEW h \in Handlers, Resume(h) \/ PushDone(h) \/ PushFails(h), UNCHANGED message
      PROVE  FiniteWork'
  <2>1. Busy' \subseteq Busy \cup {h}
    BY <1>4 DEF Resume, CannotSend, RefuseOverlap, CheckUniqueMessage, FindConversation,
       CreateNewDirectChat, CreateNewMessage, UpdateLastSentMessage, FailSend,
       HandleEmitNewMessage, PushDone, PushFails, Finish, Goto, Busy, TypeOK
  <2> QED
    BY <1>1, <1>4, <2>1
<1>5. ASSUME NEW h \in Handlers, NEW m \in Messages, CreateNewMessage(h, m) PROVE FiniteWork'
  <2>1. Busy' \subseteq Busy \cup {h} /\ Stored' \subseteq Stored \cup {m}
    BY <1>5 DEF CreateNewMessage, Busy, Stored, TypeOK
  <2> QED
    BY <2>1, FS_AddElement, FS_Subset DEF FiniteWork
<1>6. \/ UNCHANGED <<task, message>>
      \/ \E h \in Handlers, k \in Sockets, t \in Tokens : HandleSendDirectMessage(h, k, t)
      \/ \E h \in Handlers : (Resume(h) \/ PushDone(h) \/ PushFails(h)) /\ UNCHANGED message
      \/ \E h \in Handlers, m \in Messages : CreateNewMessage(h, m)
  <2>1. ASSUME NEW k \in Sockets, SocketStep(k) PROVE UNCHANGED <<task, message>>
    BY <2>1 DEF SocketStep, Connect, AddConnectedClient, Disconnect, RefuseConnection,
       RecoverMissingMessages, Drop, Logout, dbVars
  <2>2. ASSUME NEW h \in Handlers, Resume(h), \A m \in Messages : ~CreateNewMessage(h, m)
        PROVE  UNCHANGED message
    BY <2>2 DEF Resume, CannotSend, RefuseOverlap, CheckUniqueMessage, FindConversation,
       CreateNewDirectChat, UpdateLastSentMessage, FailSend, HandleEmitNewMessage, dbVars
  <2>3. ASSUME NEW h \in Handlers, PushDone(h) \/ PushFails(h) PROVE UNCHANGED message
    BY <2>3 DEF PushDone, PushFails, dbVars
  <2>4. ASSUME NEW c \in Chats, DeleteMessages(c) \/ DeleteDirectChat(c)
        PROVE  UNCHANGED <<task, message>>
    BY <2>4 DEF DeleteMessages, DeleteDirectChat
  <2>5. ASSUME NEW t \in Tokens, CleanTokenAutomatically(t) PROVE UNCHANGED <<task, message>>
    BY <2>5 DEF CleanTokenAutomatically, dbVars
  <2> QED
    BY <2>1, <2>2, <2>3, <2>4, <2>5 DEF Next, Quiet, vars, dbVars
<1> QED
  BY <1>2, <1>3, <1>4, <1>5, <1>6

LEMMA Counted ==
  ASSUME FiniteWork, NEW t, NEW stages
  PROVE  IsFiniteSet(SlotsOf(t, stages)) /\ Cardinality(SlotsOf(t, stages)) \in Nat
<1>1. SlotsOf(t, stages) \subseteq Busy
  BY DEF SlotsOf, Busy
<1> QED
  BY <1>1, FS_Subset, FS_CardinalityType DEF FiniteWork

LEMMA SameSlots ==
  ASSUME NEW stages, \A t \in Tokens : SlotsOf(t, stages)' = SlotsOf(t, stages)
  PROVE  Count(stages)' = Count(stages)
BY DEF Count, SlotsOf

LEMMA MoreSlots ==
  ASSUME FiniteWork, NEW stages, NEW t \in Tokens, NEW h \in Handlers,
         h \notin SlotsOf(t, stages), SlotsOf(t, stages)' = SlotsOf(t, stages) \cup {h},
         \A u \in Tokens : u # t => SlotsOf(u, stages)' = SlotsOf(u, stages)
  PROVE  Count(stages)' = [Count(stages) EXCEPT ![t] = @ + 1]
<1>1. Cardinality(SlotsOf(t, stages)') = Cardinality(SlotsOf(t, stages)) + 1
  BY Counted, FS_AddElement
<1> QED
  BY <1>1 DEF Count, SlotsOf

LEMMA FewerSlots ==
  ASSUME FiniteWork, NEW stages, NEW t \in Tokens, NEW h \in Handlers,
         h \in SlotsOf(t, stages), SlotsOf(t, stages)' = SlotsOf(t, stages) \ {h},
         \A u \in Tokens : u # t => SlotsOf(u, stages)' = SlotsOf(u, stages)
  PROVE  /\ Count(stages)[t] > 0
         /\ Count(stages)' = [Count(stages) EXCEPT ![t] = @ - 1]
<1>1. Cardinality(SlotsOf(t, stages)') = Cardinality(SlotsOf(t, stages)) - 1
  BY Counted, FS_RemoveElement
<1>2. Cardinality(SlotsOf(t, stages)) > 0
  BY Counted, FS_EmptySet
<1>3. Count(stages)[t] = Cardinality(SlotsOf(t, stages))
  BY DEF Count, SlotsOf
<1>4. Count(stages)' = [Count(stages) EXCEPT ![t] = @ - 1]
  BY <1>1 DEF Count, SlotsOf
<1> QED
  BY <1>2, <1>3, <1>4

\* A step that leaves the counts of messages alone.
LEMMA SameMessages ==
  ASSUME UNCHANGED message
  PROVE  CountMessages({m \in Messages : message[m] # Null})'
           = CountMessages({m \in Messages : message[m] # Null})
BY DEF CountMessages

\* The tokens every send holds and the stages it is in, as the counts see them.
Quietly(x) ==
  \A stages \in {ClaimStages, OweStages}, t \in Tokens :
    x \in SlotsOf(t, stages)' <=> x \in SlotsOf(t, stages)

LEMMA QuietCounts ==
  ASSUME \A x \in Handlers : Quietly(x)
  PROVE  UNCHANGED <<Count(ClaimStages), Count(OweStages)>>
<1>1. \A stages \in {ClaimStages, OweStages}, t \in Tokens : SlotsOf(t, stages)' = SlotsOf(t, stages)
  BY DEF Quietly, SlotsOf
<1> QED
  BY <1>1, SameSlots

\* The send in slot h leaves the counts of one group of stages.
LEMMA LeavesSlots ==
  ASSUME FiniteWork, NEW h \in Handlers, NEW t \in Tokens, NEW stages,
         task[h] # Null, task[h].token = t, task[h].at \in stages,
         task'[h] = Null \/ task'[h].at \notin stages,
         \A x \in Handlers : x # h => task'[x] = task[x]
  PROVE  /\ Count(stages)[t] > 0
         /\ Count(stages)' = [Count(stages) EXCEPT ![t] = @ - 1]
<1>1. h \in SlotsOf(t, stages) /\ SlotsOf(t, stages)' = SlotsOf(t, stages) \ {h}
  BY DEF SlotsOf
<1>2. \A u \in Tokens : u # t => SlotsOf(u, stages)' = SlotsOf(u, stages)
  BY DEF SlotsOf
<1> QED
  BY <1>1, <1>2, FewerSlots

LEMMA EntersSlots ==
  ASSUME FiniteWork, NEW h \in Handlers, NEW t \in Tokens, NEW stages,
         task[h] = Null \/ task[h].at \notin stages,
         task'[h] # Null, task'[h].token = t, task'[h].at \in stages,
         \A x \in Handlers : x # h => task'[x] = task[x]
  PROVE  Count(stages)' = [Count(stages) EXCEPT ![t] = @ + 1]
<1>1. h \notin SlotsOf(t, stages) /\ SlotsOf(t, stages)' = SlotsOf(t, stages) \cup {h}
  BY DEF SlotsOf
<1>2. \A u \in Tokens : u # t => SlotsOf(u, stages)' = SlotsOf(u, stages)
  BY DEF SlotsOf
<1> QED
  BY <1>1, <1>2, MoreSlots

LEMMA SameSlotsBut ==
  ASSUME NEW h \in Handlers, NEW stages,
         task[h] = Null \/ task[h].at \notin stages,
         task'[h] = Null \/ task'[h].at \notin stages,
         \A x \in Handlers : x # h => task'[x] = task[x]
  PROVE  Count(stages)' = Count(stages)
<1>1. \A t \in Tokens : SlotsOf(t, stages)' = SlotsOf(t, stages)
  BY DEF SlotsOf
<1> QED
  BY <1>1, SameSlots

LEMMA OneMoreMessage ==
  ASSUME IInv, FiniteWork, NEW m \in Messages, NEW t \in Tokens, message[m] = Null,
         message'[m] # Null, message'[m].token = t,
         \A n \in Messages : n # m => message'[n] = message[n]
  PROVE  /\ CountMessages({n \in Messages : message[n] # Null})'
              = [CountMessages({n \in Messages : message[n] # Null}) EXCEPT ![t] = @ + 1]
         /\ emitted' = emitted => CountMessages(emitted)' = CountMessages(emitted)
<1> DEFINE Mine(u) == {n \in Stored : message[n].token = u}
<1>1. Mine(t)' = Mine(t) \cup {m} /\ m \notin Mine(t)
  BY DEF Stored
<1>2. \A u \in Tokens : u # t => Mine(u)' = Mine(u)
  BY DEF Stored
<1>3. Cardinality(Mine(t)') = Cardinality(Mine(t)) + 1
  <2>1. IsFiniteSet(Mine(t))
    BY FS_Subset DEF FiniteWork
  <2> QED
    BY <1>1, <2>1, FS_AddElement
<1>4. CountMessages({n \in Messages : message[n] # Null})'
        = [CountMessages({n \in Messages : message[n] # Null}) EXCEPT ![t] = @ + 1]
  BY <1>2, <1>3 DEF CountMessages, Stored
<1>5. ASSUME emitted' = emitted PROVE CountMessages(emitted)' = CountMessages(emitted)
  <2>1. \A n \in emitted : n \in Messages /\ message[n] # Null /\ message'[n] = message[n]
    BY DEF IInv, TypeOK, RowsWereCreated
  <2>2. \A u \in Tokens : {n \in emitted' : message'[n].token = u} = {n \in emitted : message[n].token = u}
    BY <1>5, <2>1
  <2> QED
    BY <2>2 DEF CountMessages
<1> QED
  BY <1>4, <1>5

LEMMA OneMoreTold ==
  ASSUME IInv, FiniteWork, NEW m \in Messages \ emitted, NEW t \in Tokens,
         message[m].token = t, emitted' = emitted \cup {m}, UNCHANGED message
  PROVE  CountMessages(emitted)' = [CountMessages(emitted) EXCEPT ![t] = @ + 1]
<1>1. IsFiniteSet(ToldOf(t))
  <2>1. ToldOf(t) \subseteq Stored
    BY DEF ToldOf, Stored, IInv, TypeOK, RowsWereCreated
  <2> QED
    BY <2>1, FS_Subset DEF FiniteWork
<1>2. ToldOf(t)' = ToldOf(t) \cup {m} /\ m \notin ToldOf(t)
  BY DEF ToldOf
<1>3. Cardinality(ToldOf(t)') = Cardinality(ToldOf(t)) + 1
  BY <1>1, <1>2, FS_AddElement
<1>4. \A u \in Tokens : u # t => ToldOf(u)' = ToldOf(u)
  BY DEF ToldOf
<1> QED
  BY <1>3, <1>4 DEF CountMessages, ToldOf

\* No step on tokens, sends or messages shows in the abstract state.
Unseen ==
  /\ UNCHANGED <<uniqueMsgTokens, message, emitted>>
  /\ \A x \in Handlers : Quietly(x)

LEMMA UnseenStutters ==
  ASSUME Unseen
  PROVE  UNCHANGED Once!mvars
<1>1. UNCHANGED <<Count(ClaimStages), Count(OweStages)>>
  BY QuietCounts DEF Unseen
<1>2. UNCHANGED <<CountMessages({m \in Messages : message[m] # Null}), CountMessages(emitted)>>
  BY DEF Unseen, CountMessages
<1> QED
  BY <1>1, <1>2 DEF Once!mvars, Unseen, ClaimStages, OweStages

LEMMA InitRefines ==
  ASSUME Init
  PROVE  Once!MInit
<1>1. \A S : S = {} => Cardinality(S) = 0
  BY FS_EmptySet
<1> QED
  BY <1>1 DEF Init, Once!MInit, Once!None, Count, CountMessages

\* The sends keep their places and the messages too.
StillWorking ==
  UNCHANGED <<Count(ClaimStages), Count(OweStages),
              CountMessages({m \in Messages : message[m] # Null}), CountMessages(emitted)>>

LEMMA ForgetRefines ==
  ASSUME NEW S \in SUBSET Tokens, Forget(S), UNCHANGED <<task, message, emitted>>
  PROVE  Once!MNext
<1>1. StillWorking
  BY DEF StillWorking, Count, CountMessages
<1>2. Once!Forget(S)
  BY <1>1 DEF Once!Forget, Forget, StillWorking, ClaimStages, OweStages
<1> QED
  BY <1>2 DEF Once!MNext

\* Of the steps of a send, these move it within its group of stages or outside both.
LEMMA MovesQuietly ==
  ASSUME NEW h \in Handlers, NEW at, NEW c, NEW new, NEW m, Moves(h, at, c, new, m),
         \A stages \in {ClaimStages, OweStages} : task[h].at \in stages <=> at \in stages
  PROVE  \A x \in Handlers : Quietly(x)
BY DEF Moves, Quietly, SlotsOf

LEMMA AcceptRefines ==
  ASSUME IInv, FiniteWork, NEW h \in Handlers, CheckUniqueMessage(h)
  PROVE  Once!MNext
<1> DEFINE t == task[h].token
<1>1. t \in Tokens /\ task[h].at = "checking" /\ t \notin uniqueMsgTokens
  BY TaskType DEF IInv, CheckUniqueMessage, Waits
<1>2. Moves(h, "finding", task[h].chat, task[h].isNew, task[h].msg)
  BY GotoMoves DEF IInv, CheckUniqueMessage, Stages
<1>3. PICK u \in Tokens : u = t
  BY <1>1
<1>4. Count(ClaimStages)' = [Count(ClaimStages) EXCEPT ![u] = @ + 1]
  BY <1>1, <1>2, <1>3, EntersSlots DEF Moves, ClaimStages
<1>5. Count(OweStages)' = Count(OweStages)
  BY <1>1, <1>2, SameSlotsBut DEF Moves, OweStages
<1>6. /\ u \notin uniqueMsgTokens /\ uniqueMsgTokens' = uniqueMsgTokens \cup {u}
      /\ UNCHANGED <<message, emitted>>
  BY <1>1, <1>3 DEF CheckUniqueMessage, dbVars
<1>7. UNCHANGED <<CountMessages({m \in Messages : message[m] # Null}), CountMessages(emitted)>>
  BY <1>6 DEF CountMessages
<1>8. Once!Accept(u)
  BY <1>4, <1>5, <1>6, <1>7 DEF Once!Accept, ClaimStages, OweStages
<1> QED
  BY <1>8 DEF Once!MNext

LEMMA StoreRefines ==
  ASSUME IInv, FiniteWork, NEW h \in Handlers, NEW m \in Messages, CreateNewMessage(h, m)
  PROVE  Once!MNext
<1>1. task[h].token \in Tokens /\ task[h] # Null /\ task[h].at = "storing"
  BY TaskType DEF IInv, CreateNewMessage, Waits
<1>2. Moves(h, "linking", task[h].chat, task[h].isNew, m)
  BY StoredMoves DEF IInv, CreateNewMessage
<1>3. PICK u \in Tokens : u = task[h].token
  BY <1>1
<1>4. /\ Count(ClaimStages)[u] > 0
      /\ Count(ClaimStages)' = [Count(ClaimStages) EXCEPT ![u] = @ - 1]
  BY <1>1, <1>2, <1>3, LeavesSlots DEF Moves, ClaimStages
<1>5. Count(OweStages)' = [Count(OweStages) EXCEPT ![u] = @ + 1]
  BY <1>1, <1>2, <1>3, EntersSlots DEF Moves, OweStages
<1>6. /\ message[m] = Null /\ message'[m] # Null /\ message'[m].token = u
      /\ \A n \in Messages : n # m => message'[n] = message[n]
      /\ UNCHANGED <<uniqueMsgTokens, emitted>>
  <2>1. [token |-> u, chat |-> task[h].chat] \in Message
    BY TaskType DEF IInv, TypeOK, CreateNewMessage, Message
  <2> QED
    BY <1>3, <2>1, MessagingAssumption DEF IInv, CreateNewMessage, tokenVars, TypeOK
<1>7. /\ CountMessages({n \in Messages : message[n] # Null})'
           = [CountMessages({n \in Messages : message[n] # Null}) EXCEPT ![u] = @ + 1]
      /\ CountMessages(emitted)' = CountMessages(emitted)
  BY <1>6, OneMoreMessage
<1>8. Once!Store(u)
  BY <1>4, <1>5, <1>6, <1>7 DEF Once!Store, ClaimStages, OweStages
<1> QED
  BY <1>8 DEF Once!MNext

LEMMA AnnounceRefines ==
  ASSUME IInv, FiniteWork, NEW h \in Handlers, HandleEmitNewMessage(h)
  PROVE  Once!MNext
<1>1. task[h].token \in Tokens /\ task[h] # Null /\ task[h].at = "emitting"
  BY TaskType DEF IInv, HandleEmitNewMessage, Waits
<1>2. Moves(h, "pushing", task[h].chat, task[h].isNew, task[h].msg)
  BY GotoMoves DEF IInv, HandleEmitNewMessage, Stages
<1>3. PICK u \in Tokens : u = task[h].token
  BY <1>1
<1>4. /\ Count(OweStages)[u] > 0
      /\ Count(OweStages)' = [Count(OweStages) EXCEPT ![u] = @ - 1]
  BY <1>1, <1>2, <1>3, LeavesSlots DEF Moves, OweStages
<1>5. Count(ClaimStages)' = Count(ClaimStages)
  BY <1>1, <1>2, SameSlotsBut DEF Moves, ClaimStages
<1>6. task[h].msg \in Messages \ emitted /\ message[task[h].msg].token = u
  <2>1. /\ task[h].msg \in Messages \ emitted
        /\ message[task[h].msg] = [token |-> u, chat |-> task[h].chat]
    BY <1>1, <1>3 DEF IInv, TasksHoldRows, Linking, Waits
  <2> QED
    BY <2>1
<1>7. PICK m \in Messages \ emitted : m = task[h].msg
  BY <1>6
<1>8. emitted' = emitted \cup {m} /\ UNCHANGED <<uniqueMsgTokens, message>> /\ message[m].token = u
  BY <1>6, <1>7 DEF HandleEmitNewMessage, tokenVars, dbVars
<1>9. CountMessages(emitted)' = [CountMessages(emitted) EXCEPT ![u] = @ + 1]
  BY <1>8, OneMoreTold
<1>10. Once!Announce(u)
  BY <1>4, <1>5, <1>8, <1>9, SameMessages DEF Once!Announce, ClaimStages, OweStages
<1> QED
  BY <1>10 DEF Once!MNext

LEMMA FailRefines ==
  ASSUME IInv, FiniteWork, NEW h \in Handlers, FailSend(h)
  PROVE  Once!MNext
<1>1. task[h].token \in Tokens /\ task[h] # Null /\ task[h].at \in ClaimStages \cup OweStages
  BY TaskType DEF IInv, FailSend, Conflict, Awaits, Waits, Stages, ClaimStages, OweStages
<1>2. task'[h] = Null /\ \A x \in Handlers : x # h => task'[x] = task[x]
  BY FinishTask DEF IInv, FailSend
<1>3. PICK u \in Tokens : u = task[h].token
  BY <1>1
<1>4. UNCHANGED <<uniqueMsgTokens, message, emitted>>
  BY DEF FailSend, tokenVars, dbVars
<1>5. UNCHANGED <<CountMessages({m \in Messages : message[m] # Null}), CountMessages(emitted)>>
  BY <1>4 DEF CountMessages
<1>6. CASE task[h].at \in ClaimStages
  <2>1. /\ Count(ClaimStages)[u] > 0
        /\ Count(ClaimStages)' = [Count(ClaimStages) EXCEPT ![u] = @ - 1]
    BY <1>1, <1>2, <1>3, <1>6, LeavesSlots
  <2>2. Count(OweStages)' = Count(OweStages)
    BY <1>2, <1>6, SameSlotsBut DEF ClaimStages, OweStages
  <2>3. Once!GiveUp(u)
    BY <1>4, <1>5, <2>1, <2>2 DEF Once!GiveUp, ClaimStages, OweStages
  <2> QED
    BY <2>3 DEF Once!MNext
<1>7. CASE task[h].at \in OweStages
  <2>1. /\ Count(OweStages)[u] > 0
        /\ Count(OweStages)' = [Count(OweStages) EXCEPT ![u] = @ - 1]
    BY <1>1, <1>2, <1>3, <1>7, LeavesSlots
  <2>2. Count(ClaimStages)' = Count(ClaimStages)
    BY <1>2, <1>7, SameSlotsBut DEF ClaimStages, OweStages
  <2>3. Once!GiveUp(u)
    BY <1>4, <1>5, <2>1, <2>2 DEF Once!GiveUp, ClaimStages, OweStages
  <2> QED
    BY <2>3 DEF Once!MNext
<1> QED
  BY <1>1, <1>6, <1>7

LEMMA LossRefines ==
  ASSUME IInv, FiniteWork, NEW h \in Handlers, PushFails(h)
  PROVE  Once!MNext
<1>1. uniqueMsgTokens' = {}
  BY DEF PushFails, Forget, IInv, TypeOK
<1>2. \A stages \in {ClaimStages, OweStages} : Count(stages)' = [t \in Tokens |-> 0]
  <2>1. \A stages, t : SlotsOf(t, stages)' = {}
    BY DEF PushFails, SlotsOf
  <2>2. \A stages, t : Cardinality(SlotsOf(t, stages)') = 0
    BY <2>1, FS_EmptySet
  <2> QED
    BY <2>2 DEF Count, SlotsOf
<1>3. UNCHANGED <<CountMessages({m \in Messages : message[m] # Null}), CountMessages(emitted)>>
  BY DEF PushFails, dbVars, CountMessages
<1>4. Once!LoseAll
  BY <1>1, <1>2, <1>3 DEF Once!LoseAll, Once!None, ClaimStages, OweStages
<1> QED
  BY <1>4 DEF Once!MNext

LEMMA RefStep == IInv /\ FiniteWork /\ [Next]_vars => [Once!MNext]_Once!mvars
<1> SUFFICES ASSUME IInv, FiniteWork, [Next]_vars
             PROVE  Once!MNext \/ UNCHANGED Once!mvars
  BY DEF Once!mvars
<1>0. TypeOK
  BY DEF IInv
<1>1. ASSUME UNCHANGED <<task, message, emitted>>,
             UNCHANGED uniqueMsgTokens \/ \E S \in SUBSET Tokens : Forget(S)
      PROVE  Once!MNext \/ UNCHANGED Once!mvars
  <2>1. CASE UNCHANGED uniqueMsgTokens
    BY <1>1, <2>1, UnseenStutters DEF Unseen, Quietly, SlotsOf
  <2> QED
    BY <1>1, <2>1, ForgetRefines
<1>2. ASSUME NEW k \in Sockets, SocketStep(k) PROVE Once!MNext \/ UNCHANGED Once!mvars
  <2>1. {t \in Tokens : Author[t] = SocketUser[k]} \in SUBSET Tokens
    OBVIOUS
  <2> QED
    BY <1>1, <1>2, <2>1 DEF SocketStep, Connect, AddConnectedClient, Disconnect,
       RefuseConnection, RecoverMissingMessages, Drop, HandleDisconnect, Logout, tokenVars, dbVars
<1>3. ASSUME NEW h \in Handlers, NEW k \in Sockets, NEW t \in Tokens,
             HandleSendDirectMessage(h, k, t)
      PROVE  UNCHANGED Once!mvars
  <2>1. /\ task[h] = Null /\ task'[h].at = "checking"
        /\ \A x \in Handlers : x # h => task'[x] = task[x]
    BY <1>0, <1>3 DEF HandleSendDirectMessage, TypeOK
  <2>2. \A x \in Handlers : Quietly(x)
    BY <2>1 DEF Quietly, SlotsOf, ClaimStages, OweStages
  <2> QED
    BY <1>3, <2>2, UnseenStutters DEF Unseen, HandleSendDirectMessage, tokenVars, dbVars
<1>4. ASSUME NEW h \in Handlers, CannotSend(h) \/ RefuseOverlap(h) \/ PushDone(h)
      PROVE  UNCHANGED Once!mvars
  <2>1. task[h].at \in {"checking", "pushing"} /\ Finish(h)
        /\ UNCHANGED <<uniqueMsgTokens, message, emitted>>
    BY <1>4 DEF CannotSend, RefuseOverlap, PushDone, Waits, tokenVars, dbVars
  <2>2. \A x \in Handlers : Quietly(x)
    BY <1>0, <2>1, FinishTask DEF Quietly, SlotsOf, ClaimStages, OweStages
  <2> QED
    BY <2>1, <2>2, UnseenStutters DEF Unseen
<1>5. ASSUME NEW h \in Handlers, NEW at, NEW c, NEW new, NEW m, Moves(h, at, c, new, m),
             \A stages \in {ClaimStages, OweStages} : task[h].at \in stages <=> at \in stages,
             UNCHANGED <<uniqueMsgTokens, message, emitted>>
      PROVE  UNCHANGED Once!mvars
  BY <1>5, MovesQuietly, UnseenStutters DEF Unseen
<1>6. ASSUME NEW h \in Handlers, FindConversation(h) PROVE UNCHANGED Once!mvars
  <2>1. Waits(h, "finding") /\ UNCHANGED <<uniqueMsgTokens, message, emitted>>
    BY <1>6 DEF FindConversation, tokenVars, dbVars
  <2>2. CASE Goto(h, "creating")
    <3>1. Moves(h, "creating", task[h].chat, task[h].isNew, task[h].msg)
      BY <1>0, <2>1, <2>2, GotoMoves DEF Stages
    <3> QED
      BY <1>5, <2>1, <3>1 DEF Waits, ClaimStages, OweStages
  <2>3. ASSUME NEW c \in directChats, Finds(h, c) PROVE UNCHANGED Once!mvars
    <3>1. Moves(h, "storing", c, task[h].isNew, task[h].msg)
      BY <1>0, <2>3, FoundMoves DEF TypeOK
    <3> QED
      BY <1>5, <2>1, <3>1 DEF Waits, ClaimStages, OweStages
  <2> QED
    BY <1>6, <2>2, <2>3 DEF FindConversation, Finds, Between
<1>7. ASSUME NEW h \in Handlers, NEW c \in Chats, CreateNewDirectChat(h, c)
      PROVE  UNCHANGED Once!mvars
  <2>1. Waits(h, "creating") /\ UNCHANGED <<uniqueMsgTokens, message, emitted>>
    BY <1>7 DEF CreateNewDirectChat, tokenVars
  <2>2. Moves(h, "storing", c, TRUE, task[h].msg)
    BY <1>0, <1>7, CreatedMoves
  <2> QED
    BY <1>5, <2>1, <2>2 DEF Waits, ClaimStages, OweStages
<1>8. ASSUME NEW h \in Handlers, UpdateLastSentMessage(h) PROVE UNCHANGED Once!mvars
  <2>1. Waits(h, "linking") /\ UNCHANGED <<uniqueMsgTokens, message, emitted>>
    BY <1>8 DEF UpdateLastSentMessage, tokenVars
  <2>2. Moves(h, "emitting", task[h].chat, task[h].isNew, task[h].msg)
    BY <1>0, <1>8, GotoMoves DEF UpdateLastSentMessage, Stages
  <2> QED
    BY <1>5, <2>1, <2>2 DEF Waits, ClaimStages, OweStages
<1>9. ASSUME NEW t \in Tokens, CleanTokenAutomatically(t)
      PROVE  Once!MNext \/ UNCHANGED Once!mvars
  BY <1>1, <1>9 DEF CleanTokenAutomatically, dbVars
<1>10. ASSUME NEW c \in Chats, DeleteMessages(c) \/ DeleteDirectChat(c)
       PROVE  Once!MNext \/ UNCHANGED Once!mvars
  BY <1>1, <1>10 DEF DeleteMessages, DeleteDirectChat, tokenVars
<1>11. CASE UNCHANGED vars
  BY <1>1, <1>11 DEF vars, tokenVars, dbVars
<1> QED
  BY <1>2, <1>3, <1>4, <1>6, <1>7, <1>8, <1>9, <1>10, <1>11, AcceptRefines, StoreRefines,
     AnnounceRefines, FailRefines, LossRefines
     DEF Next, Resume, Quiet

\* The chat-service's promise to a client that retries (MessageOnce), kept by every
\* interleaving of sends, retries, disconnects, hour-long timers, failures and crashes:
\* a token that is remembered lets no send in, and each accepted send stores and
\* announces at most one message.
THEOREM MessagingStoresOnce == Spec => StoresAtMostOnce
<1>1. Init => FiniteWork
  BY FS_EmptySet DEF Init, FiniteWork, Busy, Stored
<1>2. IInv => TypeOK
  BY DEF IInv
<1>3. Spec => []FiniteWork
  BY <1>1, <1>2, Invariant, FiniteStep, PTL DEF Spec
<1> QED
  BY <1>3, Invariant, InitRefines, RefStep, PTL DEF Spec, StoresAtMostOnce, Once!MSpec
=============================================================================
