----------------------------- MODULE SearchIndex -----------------------------
(***************************************************************************)
(* How messages get into Elasticsearch and are found there: the calls the    *)
(* conversation-service sends and does not await, the search-service that    *)
(* encrypts their text (sync-data-to-ES.service.ts, es-message-encryption    *)
(* .service.ts, message-mappings.service.ts), the worker thread that writes  *)
(* them (sync-data-to-ES.worker.ts), and searchGlobally.                     *)
(*                                                                          *)
(* `job[j]` is one such call, or one search, between two awaits.  Nothing    *)
(* orders two jobs, not even two of one message.  A key stands for a secret  *)
(* key, its dek and everything either encrypts; text is "plain" when it is   *)
(* what a user may search for, "cipher" when it is the ciphertext of the     *)
(* message's row, and "empty".                                               *)
(***************************************************************************)
EXTENDS Naturals, FiniteSets

CONSTANTS
  Messages,    \* message ids
  Jobs,        \* slots for concurrent syncs and searches
  Keys,        \* secret keys a service may draw
  MaxRetries,  \* MAX_RETRIES of the worker
  MaxFaults,   \* bound on the requests Elasticsearch fails
  MaxLosses,   \* bound on crashes and on connections that fail
  Stored,      \* the keys a row of message_mappings may hold at the start
  Null         \* no row, no document, no job

VARIABLES
  row,        \* row[m]: "none", "stored", "recalled" or "gone"
  doc,        \* doc[m]: the document in Elasticsearch, or Null
  mapping,    \* the row of message_mappings: its key, the key its text is under
  encryptor,  \* ESMsgEncryptor: its key, or Null
  job,        \* job[j]: the sync or search in slot j, or Null
  faults,     \* requests Elasticsearch failed
  losses      \* crashes of the service and failed connections

vars == <<row, doc, mapping, encryptor, job, faults, losses>>

Texts == {"plain", "cipher", "empty"}
Syncs == {"create", "update", "delete", "bulk"}
Document == [text : Texts, key : Keys, deleted : BOOLEAN]
Mapping == [key : Keys, under : Keys]
Steps == {"recall", "called", "mapping", "found", "saving", "create", "insert",
          "posted", "trying", "query", "rows", "shown"}
Job == [kind : Syncs \cup {"search"}, at : Steps, messages : SUBSET Messages,
        text : Texts, key : Keys \cup {Null}, tries : 0 .. MaxRetries,
        hidden : SUBSET Messages]  \* history: recalled or gone when a search began

ASSUME SearchAssumption ==
  /\ MaxRetries \in Nat /\ MaxFaults \in Nat /\ MaxLosses \in Nat
  /\ Stored \subseteq Keys /\ Null \notin Keys \cup Document \cup Mapping \cup Job

TypeOK ==
  /\ row \in [Messages -> {"none", "stored", "recalled", "gone"}]
  /\ doc \in [Messages -> Document \cup {Null}]
  /\ mapping \in Mapping \cup {Null}
  /\ encryptor \in Keys \cup {Null}
  /\ job \in [Jobs -> Job \cup {Null}]
  /\ faults \in 0 .. MaxFaults /\ losses \in 0 .. MaxLosses

Init ==
  /\ row = [m \in Messages |-> "none"]
  /\ doc = [m \in Messages |-> Null]
  /\ mapping \in {Null} \cup {[key |-> k, under |-> k] : k \in Stored}
  /\ encryptor = Null
  /\ job = [j \in Jobs |-> Null]
  /\ faults = 0 /\ losses = 0

-----------------------------------------------------------------------------
Waits(j, at) == job[j] # Null /\ job[j].at = at
GoesTo(j, at) == job' = [job EXCEPT ![j].at = at]
Ends(j) == job' = [job EXCEPT ![j] = Null]

\* The calls of the conversation-service that are not answered yet.
Asking == {j \in Jobs : /\ job[j] # Null /\ job[j].kind # "search"
                        /\ job[j].at \in {"called", "mapping", "found", "saving", "create", "insert"}}

\* A search that fails is an error for its user.  A sync that fails rejects a
\* promise nobody awaits or handles, and the conversation-service ends: its recalls,
\* the searches that ask it for rows and what it had not sent go with it.
Fails(j) ==
  \E lost \in SUBSET {i \in Asking : job[i].at = "called"} :
    LET dead == {i \in Jobs : Waits(i, "recall") \/ Waits(i, "rows")} \cup lost IN
      job' = [i \in Jobs |-> IF i = j \/ (job[j].kind # "search" /\ i \in dead)
                               THEN Null ELSE job[i]]

(* The conversation-service changes its rows and calls SyncDataToES.         *)

Call(j, kind, at, S, text) ==
  /\ job[j] = Null
  /\ job' = [job EXCEPT ![j] =
       [kind |-> kind, at |-> at, messages |-> S, text |-> text, key |-> Null,
        tries |-> 0,
        hidden |-> IF kind = "search" THEN {m \in Messages : row[m] \in {"recalled", "gone"}}
                   ELSE {}]]
  /\ UNCHANGED <<doc, mapping, encryptor, faults, losses>>

CreateNewMessage(j, m) ==
  /\ row[m] = "none"
  /\ row' = [row EXCEPT ![m] = "stored"]
  /\ Call(j, "create", "called", {m}, "plain")

\* updateMsg, which marks a message as seen, syncs the row as it is stored.
UpdateMsg(j, m) ==
  /\ row[m] \in {"stored", "recalled"}
  /\ Call(j, "update", "called", {m}, IF row[m] = "stored" THEN "cipher" ELSE "empty")
  /\ UNCHANGED row

\* recallMessage reads the message, then updates it, and syncs what it read
\* whether or not the transaction succeeds.
ValidateRecall(j, m) ==
  /\ row[m] \in {"stored", "recalled"}
  /\ Call(j, "delete", "recall", {m}, "cipher")
  /\ UNCHANGED row

RecallMessage(j) ==
  /\ Waits(j, "recall")
  /\ \E m \in job[j].messages :
       row' \in {row, IF row[m] = "gone" THEN row ELSE [row EXCEPT ![m] = "recalled"]}
  /\ GoesTo(j, "called")
  /\ UNCHANGED <<doc, mapping, encryptor, faults, losses>>

\* deleteDirectChat and deleteGroupChat sync inside their transaction, before
\* it commits or fails.
DeleteMessagesOfChat(j, S) ==
  /\ S # {} /\ \A m \in S : row[m] \in {"stored", "recalled"}
  /\ row' \in {row, [m \in Messages |-> IF m \in S THEN "gone" ELSE row[m]]}
  /\ Call(j, "bulk", "called", S, "empty")

SearchGlobally(j) == Call(j, "search", "called", {}, "empty") /\ UNCHANGED row

-----------------------------------------------------------------------------
(* The search-service: the encryptor and the row that keeps its key.        *)

Encrypted(j, k) ==
  job' = [job EXCEPT ![j].key = k,
                     ![j].at = IF job[j].kind = "search" THEN "query" ELSE "saving"]

GetESMessageEncryptor(j) ==
  /\ Waits(j, "called")
  /\ IF job[j].kind = "bulk" THEN GoesTo(j, "posted")
     ELSE IF encryptor # Null THEN Encrypted(j, encryptor)
     ELSE GoesTo(j, "mapping")
  /\ UNCHANGED <<row, doc, mapping, encryptor, faults, losses>>

\* The key in the row, or none.  A text under another key cannot be read: the
\* call fails, and every later one.
GetMessageMappings(j) ==
  /\ Waits(j, "mapping")
  /\ IF mapping = Null THEN GoesTo(j, "found")
     ELSE IF mapping.key = mapping.under
       THEN job' = [job EXCEPT ![j].at = "found", ![j].key = mapping.key]
     ELSE Fails(j)
  /\ UNCHANGED <<row, doc, mapping, encryptor, faults, losses>>

UsedKeys ==
  {doc[m].key : m \in {n \in Messages : doc[n] # Null}}
  \cup {job[j].key : j \in {i \in Jobs : job[i] # Null}}
  \cup (IF mapping = Null THEN {} ELSE {mapping.key, mapping.under})
  \cup {encryptor}

\* Slip: the encryptor of a new process always draws a key.
InitWithNewKey(j) ==
  /\ Waits(j, "found")
  /\ \E k \in Keys \ UsedKeys : encryptor' = k /\ Encrypted(j, k)
  /\ UNCHANGED <<row, doc, mapping, faults, losses>>

InitESMessageEncryptor(j) ==
  /\ Waits(j, "found")
  /\ \E k \in IF job[j].key # Null THEN {job[j].key} ELSE Keys \ UsedKeys :
       encryptor' = k /\ Encrypted(j, k)
  /\ UNCHANGED <<row, doc, mapping, faults, losses>>

\* updateMessageMappings looks for the row; without one createMessageMappings
\* looks again.
FindMappings(j) ==
  /\ \/ Waits(j, "saving") /\ mapping = Null /\ GoesTo(j, "create")
     \/ Waits(j, "create") /\ GoesTo(j, IF mapping # Null THEN "posted" ELSE "insert")
  /\ UNCHANGED <<row, doc, mapping, encryptor, faults, losses>>

\* Only the text is updated, under the key of this encryptor.  A row that is
\* found stays, so finding and updating it are one step.
UpdateMessageMappings(j) ==
  /\ Waits(j, "saving") /\ mapping # Null
  /\ mapping' = [mapping EXCEPT !.under = job[j].key]
  /\ GoesTo(j, "posted")
  /\ UNCHANGED <<row, doc, encryptor, faults, losses>>

\* version_code is unique: the second insert fails, its sync with it, and with that
\* the process that asked for it.
CreateMessageMappings(j) ==
  /\ Waits(j, "insert")
  /\ IF mapping = Null
       THEN /\ mapping' = [key |-> job[j].key, under |-> job[j].key]
            /\ GoesTo(j, "posted")
       ELSE Fails(j) /\ UNCHANGED mapping
  /\ UNCHANGED <<row, doc, encryptor, faults, losses>>

-----------------------------------------------------------------------------
(* The worker takes every posted sync at once.                              *)

\* A connection that fails is not retried.  A bulk delete makes an encryptor
\* from the row although it has nothing to encrypt.
Connect(j) ==
  /\ Waits(j, "posted")
  /\ \/ losses < MaxLosses /\ losses' = losses + 1 /\ Ends(j)
     \/ /\ IF job[j].kind = "bulk" /\ mapping # Null /\ mapping.key # mapping.under
             THEN Ends(j)
             ELSE GoesTo(j, "trying")
        /\ UNCHANGED losses
  /\ UNCHANGED <<row, doc, mapping, encryptor, faults>>

Indexed(j) == [text |-> job[j].text, key |-> job[j].key, deleted |-> FALSE]

Written(j, m) ==
  CASE job[j].kind \in {"create", "update"} -> Indexed(j)
    [] job[j].kind = "delete" -> [doc[m] EXCEPT !.deleted = TRUE, !.text = "empty"]
    [] job[j].kind = "bulk" -> Null

\* What is to be marked as deleted must be there.
Writable(j) == job[j].kind = "delete" => \A m \in job[j].messages : doc[m] # Null

WriteDocument(j) ==
  /\ Waits(j, "trying") /\ Writable(j)
  /\ doc' = [m \in Messages |-> IF m \in job[j].messages THEN Written(j, m) ELSE doc[m]]
  /\ Ends(j)
  /\ UNCHANGED <<row, mapping, encryptor, faults, losses>>

\* Slip: the last try does not count as one.
RetryAllButOnce(j) ==
  IF job[j].tries + 1 < MaxRetries
    THEN job' = [job EXCEPT ![j].tries = @ + 1]
    ELSE Ends(j)

\* Slip: one try more than the worker may make.
RetryOnceMore(j) ==
  IF job[j].tries <= MaxRetries
    THEN job' = [job EXCEPT ![j].tries = @ + 1]
    ELSE Ends(j)

\* Tried again at once; after the last try the worker only reports the error.
RetryAsyncRequest(j) ==
  IF job[j].tries < MaxRetries
    THEN job' = [job EXCEPT ![j].tries = @ + 1]
    ELSE Ends(j)

\* The group chat of a message that is gone is not found; that of a direct
\* chat is not looked for.
GroupMissing(j) ==
  job[j].kind \in {"create", "update"} /\ \E m \in job[j].messages : row[m] = "gone"

RequestFails(j) ==
  /\ Waits(j, "trying")
  /\ \/ faults < MaxFaults /\ faults' = faults + 1
     \/ (~ Writable(j) \/ GroupMissing(j)) /\ UNCHANGED faults
  /\ RetryAsyncRequest(j)
  /\ UNCHANGED <<row, doc, mapping, encryptor, losses>>

\* The process ends: what it held in memory is gone, what it was asked is lost, and
\* the conversation-service ends too if it waited for an answer.
Crash ==
  /\ losses < MaxLosses /\ losses' = losses + 1
  /\ encryptor' = Null
  /\ job' = [j \in Jobs |-> IF Waits(j, "recall") /\ Asking = {} THEN job[j] ELSE Null]
  /\ UNCHANGED <<row, doc, mapping, faults>>

-----------------------------------------------------------------------------
(* A search: the index, then the rows of what it found.                     *)

SearchMessages(j) ==
  /\ Waits(j, "query")
  /\ job' = [job EXCEPT ![j].at = "rows", ![j].messages =
       {m \in Messages : doc[m] = [text |-> "plain", key |-> job[j].key, deleted |-> FALSE]}]
  /\ UNCHANGED <<row, doc, mapping, encryptor, faults, losses>>

\* Slip: the index is trusted for what was recalled.
FindAnyMessages(S) == {m \in S : row[m] # "gone"}

FindMessagesForGlobalSearch(S) == {m \in S : row[m] = "stored"}

ShowMessages(j) ==
  /\ \/ /\ Waits(j, "rows")
        /\ job' = [job EXCEPT ![j].at = "shown",
                              ![j].messages = FindMessagesForGlobalSearch(@)]
     \/ Waits(j, "shown") /\ Ends(j)
  /\ UNCHANGED <<row, doc, mapping, encryptor, faults, losses>>

-----------------------------------------------------------------------------
Progress(j) ==
  \/ RecallMessage(j) \/ GetESMessageEncryptor(j) \/ GetMessageMappings(j)
  \/ InitESMessageEncryptor(j) \/ FindMappings(j) \/ UpdateMessageMappings(j)
  \/ CreateMessageMappings(j) \/ Connect(j) \/ WriteDocument(j) \/ RequestFails(j)
  \/ SearchMessages(j) \/ ShowMessages(j)

Next ==
  \/ \E j \in Jobs :
       \/ \E m \in Messages : CreateNewMessage(j, m) \/ UpdateMsg(j, m) \/ ValidateRecall(j, m)
       \/ \E S \in SUBSET Messages : DeleteMessagesOfChat(j, S)
       \/ SearchGlobally(j) \/ Progress(j)
  \/ Crash

Spec == Init /\ [][Next]_vars

\* Every request is answered or fails, and the event loop gets to each answer.
Fairness == \A j \in Jobs : WF_vars(Progress(j))

FairSpec == Spec /\ Fairness

-----------------------------------------------------------------------------
(* Properties.                                                              *)

KeyedBy(k) ==
  /\ mapping = [key |-> k, under |-> k] /\ UsedKeys \ {Null} = {k}
  /\ \A j \in Jobs : Waits(j, "found") => job[j].key = k

\* Once the row of message_mappings holds a key and nobody is about to draw
\* another, nothing is ever written, kept or searched under another key, however
\* often the service restarts and whoever asks first: what was indexed before a
\* crash is found after it.
OneKey == [][\A k \in Keys : KeyedBy(k) => KeyedBy(k)']_vars

\* Once a message is recalled or gone, no search that begins later shows it,
\* whatever the index still holds: a late create, an update that clears the
\* mark, or a delete that came before its document.
RecalledNotShown ==
  \A j \in Jobs : Waits(j, "shown") => job[j].messages \cap job[j].hidden = {}

\* With a row of message_mappings, a message that was stored gets to the index
\* unless it leaves the chat first or something is lost: the worker's retries
\* outlast MaxFaults failed requests.  It need not stay there: a bulk delete is
\* sent before its transaction, which may fail.
StoredIsIndexed ==
  mapping # Null =>
    \A j \in Jobs, m \in Messages :
      job[j] # Null /\ job[j].kind = "create" /\ m \in job[j].messages
        ~> (doc[m] # Null \/ row[m] # "stored" \/ losses > 0)
=============================================================================
