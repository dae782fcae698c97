-------------------------- MODULE SearchIndex_proofs --------------------------
(***************************************************************************)
(* Proofs about SearchIndex, for every set of messages, of jobs and of keys, *)
(* and every number of retries, faults and losses.                          *)
(***************************************************************************)
EXTENDS SearchIndex, TLAPS

-----------------------------------------------------------------------------
(* The inductive invariant.                                                 *)

\* What a job t holds between two awaits, with the rows rw: it encrypted under a key
\* before it saves one or is posted, a search never reaches the worker, and what was
\* recalled or gone when it began is so still and was not shown.
JobSound(t, rw) ==
  t # Null =>
    /\ t.at \in {"saving", "create", "insert"} => t.key \in Keys
    /\ t.at \in {"posted", "trying"} => t.key \in Keys \/ t.kind = "bulk"
    /\ t.at \in {"saving", "create", "insert", "posted", "trying"} => t.kind # "search"
    /\ \A m \in t.hidden : rw[m] \in {"recalled", "gone"}
    /\ t.at = "shown" => t.messages \cap t.hidden = {}

JobsSound == \A j \in Jobs : JobSound(job[j], row)

IInv == TypeOK /\ JobsSound

\* KeyedBy, of each document and each job.
OnlyKey(k) ==
  /\ mapping = [key |-> k, under |-> k]
  /\ encryptor \in {k, Null}
  /\ \A m \in Messages : doc[m] # Null => doc[m].key = k
  /\ \A j \in Jobs : job[j] # Null =>
       job[j].key \in {k, Null} /\ (job[j].at = "found" => job[j].key = k)

\* A step changes no key that is the only one.
KeysStay == \A k \in Keys : OnlyKey(k) => OnlyKey(k)'

-----------------------------------------------------------------------------
(* Jobs.                                                                    *)

LEMMA JobType ==
  ASSUME TypeOK, NEW j \in Jobs, job[j] # Null
  PROVE  job[j] \in Job
BY DEF TypeOK

LEMMA SlotSet ==
  ASSUME TypeOK, NEW j \in Jobs, NEW r \in Job \cup {Null}, job' = [job EXCEPT ![j] = r]
  PROVE  /\ job' \in [Jobs -> Job \cup {Null}] /\ job'[j] = r
         /\ \A i \in Jobs : i # j => job'[i] = job[i]
BY DEF TypeOK

\* No row comes back from where a search does not show it.
RowsHidden == \A m \in Messages : row[m] \in {"recalled", "gone"} => row'[m] \in {"recalled", "gone"}

\* A step that puts a sound r into slot j, and with only one key in use takes it.
LEMMA SlotKeeps ==
  ASSUME IInv, NEW j \in Jobs, NEW r \in Job \cup {Null}, job' = [job EXCEPT ![j] = r],
         JobSound(r, row'),
         row' \in [Messages -> {"none", "stored", "recalled", "gone"}], RowsHidden,
         doc' \in [Messages -> Document \cup {Null}],
         mapping' \in Mapping \cup {Null},
         encryptor' \in Keys \cup {Null},
         faults' \in 0 .. MaxFaults, losses' \in 0 .. MaxLosses,
         \A k \in Keys : OnlyKey(k) =>
           /\ mapping' = mapping /\ encryptor' \in {k, Null}
           /\ \A m \in Messages : doc'[m] # Null => doc'[m].key = k
           /\ r # Null => r.key \in {k, Null} /\ (r.at = "found" => r.key = k)
  PROVE  IInv' /\ KeysStay
<1>1. /\ job' \in [Jobs -> Job \cup {Null}] /\ job'[j] = r
      /\ \A i \in Jobs : i # j => job'[i] = job[i]
  BY SlotSet DEF IInv
<1>2. TypeOK'
  BY <1>1 DEF TypeOK
<1>3. JobsSound'
  <2> SUFFICES ASSUME NEW i \in Jobs
               PROVE  JobSound(job'[i], row')
    BY DEF JobsSound
  <2>1. CASE i = j
    BY <1>1, <2>1
  <2>2. CASE i # j
    <3>1. job'[i] = job[i] /\ JobSound(job[i], row)
      BY <1>1, <2>2 DEF IInv, JobsSound
    <3>2. job[i] # Null => job[i].hidden \subseteq Messages
      BY JobType DEF IInv, Job
    <3> QED
      BY <3>1, <3>2 DEF JobSound, RowsHidden
  <2> QED
    BY <2>1, <2>2
<1>4. KeysStay
  <2> SUFFICES ASSUME NEW k \in Keys, OnlyKey(k)
               PROVE  OnlyKey(k)'
    BY DEF KeysStay
  <2>1. ASSUME NEW i \in Jobs, job'[i] # Null
        PROVE  job'[i].key \in {k, Null} /\ (job'[i].at = "found" => job'[i].key = k)
    <3>1. CASE i = j
      BY <1>1, <2>1, <3>1
    <3>2. CASE i # j
      BY <1>1, <2>1, <3>2 DEF OnlyKey
    <3> QED
      BY <3>1, <3>2
  <2>2. mapping' = [key |-> k, under |-> k]
    BY DEF OnlyKey
  <2> QED
    BY <2>1, <2>2 DEF OnlyKey
<1> QED
  BY <1>2, <1>3, <1>4 DEF IInv

\* The same where only the slot and the counters change.
LEMMA SlotAloneKeeps ==
  ASSUME IInv, NEW j \in Jobs, NEW r \in Job \cup {Null}, job' = [job EXCEPT ![j] = r],
         JobSound(r, row), UNCHANGED <<row, doc, mapping, encryptor>>,
         faults' \in 0 .. MaxFaults, losses' \in 0 .. MaxLosses,
         \A k \in Keys : OnlyKey(k) /\ r # Null =>
           r.key \in {k, Null} /\ (r.at = "found" => r.key = k)
  PROVE  IInv' /\ KeysStay
<1>1. RowsHidden /\ JobSound(r, row')
  BY DEF RowsHidden
<1>2. /\ row' \in [Messages -> {"none", "stored", "recalled", "gone"}]
      /\ doc' \in [Messages -> Document \cup {Null}]
      /\ mapping' \in Mapping \cup {Null}
      /\ encryptor' \in Keys \cup {Null}
  BY DEF IInv, TypeOK
<1>3. \A k \in Keys : OnlyKey(k) =>
        /\ mapping' = mapping /\ encryptor' \in {k, Null}
        /\ \A m \in Messages : doc'[m] # Null => doc'[m].key = k
        /\ r # Null => r.key \in {k, Null} /\ (r.at = "found" => r.key = k)
  BY DEF OnlyKey
<1> QED
  BY <1>1, <1>2, <1>3, SlotKeeps

LEMMA EndsKeeps ==
  ASSUME IInv, NEW j \in Jobs, Ends(j), UNCHANGED <<row, doc, mapping, encryptor>>,
         faults' \in 0 .. MaxFaults, losses' \in 0 .. MaxLosses
  PROVE  IInv' /\ KeysStay
BY SlotAloneKeeps DEF Ends, JobSound

\* One job that fails and those that end with it: nothing else changes.
LEMMA FailsKeeps ==
  ASSUME IInv, NEW j \in Jobs, Fails(j), UNCHANGED <<row, doc, mapping, encryptor, faults, losses>>
  PROVE  IInv' /\ KeysStay
<1>1. job' \in [Jobs -> Job \cup {Null}] /\ \A i \in Jobs : job'[i] \in {job[i], Null}
  BY DEF Fails, IInv, TypeOK
<1>2. TypeOK'
  BY <1>1 DEF IInv, TypeOK
<1>3. JobsSound'
  BY <1>1 DEF IInv, JobsSound, JobSound
<1>4. KeysStay
  BY <1>1 DEF KeysStay, OnlyKey
<1> QED
  BY <1>2, <1>3, <1>4 DEF IInv

\* A job that goes on to a step at which nothing more is asked of it.
LEMMA GoesToKeeps ==
  ASSUME IInv, NEW j \in Jobs, job[j] # Null, NEW at \in Steps \ {"found", "shown"}, GoesTo(j, at),
         at \in {"saving", "create", "insert"} => job[j].key \in Keys,
         at \in {"posted", "trying"} => job[j].key \in Keys \/ job[j].kind = "bulk",
         at \in {"saving", "create", "insert", "posted", "trying"} => job[j].kind # "search",
         UNCHANGED <<row, doc, mapping, encryptor, faults>>, losses' = losses
  PROVE  IInv' /\ KeysStay
<1> DEFINE r == [job[j] EXCEPT !.at = at]
<1>1. job[j] \in Job
  BY JobType DEF IInv
<1>2. r \in Job /\ r.at = at /\ r.key = job[j].key /\ r.kind = job[j].kind /\ r.hidden = job[j].hidden
  BY <1>1 DEF Job
<1>3. job' = [job EXCEPT ![j] = r]
  BY DEF GoesTo
<1> HIDE DEF r
<1>4. JobSound(job[j], row)
  BY DEF IInv, JobsSound
<1>5. JobSound(r, row)
  BY <1>2, <1>4 DEF JobSound
<1>6. \A k \in Keys : OnlyKey(k) => r.key \in {k, Null} /\ r.at # "found"
  BY <1>2 DEF OnlyKey
<1>7. faults' \in 0 .. MaxFaults /\ losses' \in 0 .. MaxLosses
  BY DEF IInv, TypeOK
<1> QED
  BY <1>2, <1>3, <1>5, <1>6, <1>7, SlotAloneKeeps

-----------------------------------------------------------------------------
(* Steps.                                                                   *)

LEMMA CallKeeps ==
  ASSUME IInv, NEW j \in Jobs, NEW kind \in Syncs \cup {"search"}, NEW at \in {"recall", "called"},
         NEW S \in SUBSET Messages, NEW text \in Texts, Call(j, kind, at, S, text),
         row' \in [Messages -> {"none", "stored", "recalled", "gone"}], RowsHidden
  PROVE  IInv' /\ KeysStay
<1> DEFINE r == [kind |-> kind, at |-> at, messages |-> S, text |-> text, key |-> Null, tries |-> 0,
                 hidden |-> IF kind = "search"
                              THEN {m \in Messages : row[m] \in {"recalled", "gone"}} ELSE {}]
<1>1. r \in Job
  BY SearchAssumption DEF Job, Steps
<1>2. JobSound(r, row')
  BY DEF JobSound, RowsHidden
<1>3. r.key = Null /\ r.at # "found"
  OBVIOUS
<1>4. job' = [job EXCEPT ![j] = r]
  BY DEF Call
<1> HIDE DEF r
<1>5. /\ doc' \in [Messages -> Document \cup {Null}]
      /\ mapping' \in Mapping \cup {Null}
      /\ encryptor' \in Keys \cup {Null}
      /\ faults' \in 0 .. MaxFaults /\ losses' \in 0 .. MaxLosses
  BY DEF Call, IInv, TypeOK
<1>6. \A k \in Keys : OnlyKey(k) =>
        /\ mapping' = mapping /\ encryptor' \in {k, Null}
        /\ \A m \in Messages : doc'[m] # Null => doc'[m].key = k
  BY DEF Call, OnlyKey
<1> QED
  BY <1>1, <1>2, <1>3, <1>4, <1>5, <1>6, SlotKeeps

LEMMA CallsKeep ==
  ASSUME IInv, NEW j \in Jobs,
         \/ \E m \in Messages : CreateNewMessage(j, m) \/ UpdateMsg(j, m) \/ ValidateRecall(j, m)
         \/ \E S \in SUBSET Messages : DeleteMessagesOfChat(j, S)
         \/ SearchGlobally(j)
  PROVE  IInv' /\ KeysStay
<1>0. row \in [Messages -> {"none", "stored", "recalled", "gone"}]
  BY DEF IInv, TypeOK
<1>1. ASSUME NEW m \in Messages, CreateNewMessage(j, m)
      PROVE  IInv' /\ KeysStay
  <2>1. /\ row' \in [Messages -> {"none", "stored", "recalled", "gone"}] /\ RowsHidden
        /\ Call(j, "create", "called", {m}, "plain")
    BY <1>0, <1>1 DEF CreateNewMessage, RowsHidden
  <2> QED
    BY <2>1, CallKeeps DEF Syncs, Texts
<1>2. ASSUME NEW m \in Messages, UpdateMsg(j, m) \/ ValidateRecall(j, m)
      PROVE  IInv' /\ KeysStay
  <2>1. row' = row /\ RowsHidden
    BY <1>2 DEF UpdateMsg, ValidateRecall, RowsHidden
  <2>2. \E kind \in Syncs, at \in {"recall", "called"}, text \in Texts : Call(j, kind, at, {m}, text)
    BY <1>2 DEF UpdateMsg, ValidateRecall, Syncs, Texts
  <2> QED
    BY <1>0, <2>1, <2>2, CallKeeps
<1>3. ASSUME NEW S \in SUBSET Messages, DeleteMessagesOfChat(j, S)
      PROVE  IInv' /\ KeysStay
  <2>1. /\ row' \in [Messages -> {"none", "stored", "recalled", "gone"}] /\ RowsHidden
        /\ Call(j, "bulk", "called", S, "empty")
    BY <1>0, <1>3 DEF DeleteMessagesOfChat, RowsHidden
  <2> QED
    BY <2>1, CallKeeps DEF Syncs, Texts
<1>4. CASE SearchGlobally(j)
  <2>1. row' = row /\ RowsHidden /\ Call(j, "search", "called", {}, "empty")
    BY <1>4 DEF SearchGlobally, RowsHidden
  <2> QED
    BY <1>0, <2>1, CallKeeps DEF Texts
<1> QED
  BY <1>1, <1>2, <1>3, <1>4

LEMMA RecallKeeps ==
  ASSUME IInv, NEW j \in Jobs, RecallMessage(j)
  PROVE  IInv' /\ KeysStay
<1> DEFINE r == [job[j] EXCEPT !.at = "called"]
<1>1. job[j] # Null /\ job[j] \in Job /\ JobSound(job[j], row)
  BY JobType DEF IInv, JobsSound, RecallMessage, Waits
<1>2. r \in Job /\ r.at = "called" /\ r.key = job[j].key /\ r.hidden = job[j].hidden
  BY <1>1 DEF Job, Steps
<1>3. job' = [job EXCEPT ![j] = r]
  BY DEF RecallMessage, GoesTo
<1> HIDE DEF r
<1>4. row' \in [Messages -> {"none", "stored", "recalled", "gone"}] /\ RowsHidden
  <2>1. PICK m \in job[j].messages :
          row' \in {row, IF row[m] = "gone" THEN row ELSE [row EXCEPT ![m] = "recalled"]}
    BY DEF RecallMessage
  <2> QED
    BY <2>1 DEF IInv, TypeOK, RowsHidden
<1>5. JobSound(r, row')
  <2>1. job[j].hidden \subseteq Messages
    BY <1>1 DEF Job
  <2> QED
    BY <1>1, <1>2, <1>4, <2>1 DEF JobSound, RowsHidden
<1>6. /\ doc' \in [Messages -> Document \cup {Null}]
      /\ mapping' \in Mapping \cup {Null}
      /\ encryptor' \in Keys \cup {Null}
      /\ faults' \in 0 .. MaxFaults /\ losses' \in 0 .. MaxLosses
  BY DEF RecallMessage, IInv, TypeOK
<1>7. \A k \in Keys : OnlyKey(k) =>
        /\ mapping' = mapping /\ encryptor' \in {k, Null}
        /\ \A m \in Messages : doc'[m] # Null => doc'[m].key = k
        /\ r # Null => r.key \in {k, Null} /\ (r.at = "found" => r.key = k)
  BY <1>1, <1>2 DEF RecallMessage, OnlyKey
<1> QED
  BY <1>2, <1>3, <1>4, <1>5, <1>6, <1>7, SlotKeeps

\* The encryptor, whose key is k, encrypts for the job.
LEMMA EncryptedKeeps ==
  ASSUME IInv, NEW j \in Jobs, job[j] # Null, NEW k \in Keys, Encrypted(j, k), encryptor' = k,
         UNCHANGED <<row, doc, mapping, faults, losses>>,
         \A q \in Keys : OnlyKey(q) => k = q
  PROVE  IInv' /\ KeysStay
<1> DEFINE r == [job[j] EXCEPT !.key = k, !.at = IF job[j].kind = "search" THEN "query" ELSE "saving"]
<1>1. job[j] \in Job /\ JobSound(job[j], row)
  BY JobType DEF IInv, JobsSound
<1>2. /\ r \in Job /\ r.key = k /\ r.hidden = job[j].hidden /\ r.kind = job[j].kind
      /\ r.at = IF job[j].kind = "search" THEN "query" ELSE "saving"
  BY <1>1 DEF Job, Steps
<1>3. job' = [job EXCEPT ![j] = r]
  BY DEF Encrypted
<1> HIDE DEF r
<1>4. RowsHidden /\ row' = row
  BY DEF RowsHidden
<1>5. JobSound(r, row')
  BY <1>1, <1>2, <1>4 DEF JobSound
<1>6. /\ row' \in [Messages -> {"none", "stored", "recalled", "gone"}]
      /\ doc' \in [Messages -> Document \cup {Null}]
      /\ mapping' \in Mapping \cup {Null}
      /\ encryptor' \in Keys \cup {Null}
      /\ faults' \in 0 .. MaxFaults /\ losses' \in 0 .. MaxLosses
  BY DEF IInv, TypeOK
<1>7. \A q \in Keys : OnlyKey(q) =>
        /\ mapping' = mapping /\ encryptor' \in {q, Null}
        /\ \A m \in Messages : doc'[m] # Null => doc'[m].key = q
        /\ r # Null => r.key \in {q, Null} /\ (r.at = "found" => r.key = q)
  BY <1>2 DEF OnlyKey
<1> QED
  BY <1>2, <1>3, <1>4, <1>5, <1>6, <1>7, SlotKeeps

LEMMA EncryptorKeeps ==
  ASSUME IInv, NEW j \in Jobs, GetESMessageEncryptor(j)
  PROVE  IInv' /\ KeysStay
<1>0. /\ job[j] # Null /\ UNCHANGED <<row, doc, mapping, encryptor, faults, losses>>
      /\ encryptor \in Keys \cup {Null}
  BY DEF GetESMessageEncryptor, Waits, IInv, TypeOK
<1>1. CASE job[j].kind = "bulk" /\ GoesTo(j, "posted")
  BY <1>0, <1>1, GoesToKeeps DEF Steps
<1>2. CASE encryptor # Null /\ Encrypted(j, encryptor)
  <2>1. PICK k \in Keys : k = encryptor
    BY <1>0, <1>2
  <2>2. \A q \in Keys : OnlyKey(q) => k = q
    BY <1>2, <2>1 DEF OnlyKey
  <2> QED
    BY <1>0, <1>2, <2>1, <2>2, EncryptedKeeps
<1>3. CASE GoesTo(j, "mapping")
  BY <1>0, <1>3, GoesToKeeps DEF Steps
<1> QED
  BY <1>1, <1>2, <1>3 DEF GetESMessageEncryptor

LEMMA MappingsKeep ==
  ASSUME IInv, NEW j \in Jobs, GetMessageMappings(j)
  PROVE  IInv' /\ KeysStay
<1>0. /\ job[j] # Null /\ job[j] \in Job /\ JobSound(job[j], row)
      /\ UNCHANGED <<row, doc, mapping, encryptor, faults, losses>>
      /\ mapping \in Mapping \cup {Null}
      /\ faults' \in 0 .. MaxFaults /\ losses' \in 0 .. MaxLosses
  BY JobType DEF GetMessageMappings, Waits, IInv, TypeOK, JobsSound
<1>1. ASSUME NEW r, r = [job[j] EXCEPT !.at = "found", !.key = IF mapping = Null THEN @ ELSE mapping.key],
             job' = [job EXCEPT ![j] = r]
      PROVE  IInv' /\ KeysStay
  <2>1. /\ r \in Job /\ r.at = "found" /\ r.hidden = job[j].hidden
        /\ mapping # Null => r.key = mapping.key
    BY <1>0, <1>1 DEF Job, Steps, Mapping
  <2>2. JobSound(r, row)
    BY <1>0, <2>1 DEF JobSound
  <2>3. \A k \in Keys : OnlyKey(k) => r.key = k
    BY <2>1, SearchAssumption DEF OnlyKey, Mapping
  <2> QED
    BY <1>0, <1>1, <2>1, <2>2, <2>3, SlotAloneKeeps
<1>2. CASE mapping = Null
  BY <1>0, <1>1, <1>2 DEF GetMessageMappings, GoesTo
<1>3. CASE mapping # Null /\ mapping.key = mapping.under
  BY <1>1, <1>3 DEF GetMessageMappings
<1>4. CASE mapping # Null /\ mapping.key # mapping.under
  BY <1>0, <1>4, FailsKeeps DEF GetMessageMappings
<1> QED
  BY <1>2, <1>3, <1>4

LEMMA InitEncryptorKeeps ==
  ASSUME IInv, NEW j \in Jobs, InitESMessageEncryptor(j)
  PROVE  IInv' /\ KeysStay
<1>0. /\ job[j] # Null /\ job[j] \in Job /\ job[j].at = "found"
      /\ UNCHANGED <<row, doc, mapping, faults, losses>>
  BY JobType DEF InitESMessageEncryptor, Waits, IInv
<1>1. PICK k \in IF job[j].key # Null THEN {job[j].key} ELSE Keys \ UsedKeys :
        encryptor' = k /\ Encrypted(j, k)
  BY DEF InitESMessageEncryptor
<1>2. k \in Keys
  BY <1>0, <1>1 DEF Job
<1>3. \A q \in Keys : OnlyKey(q) => k = q
  BY <1>0, <1>1, SearchAssumption DEF OnlyKey
<1> QED
  BY <1>0, <1>1, <1>2, <1>3, EncryptedKeeps

LEMMA FindKeeps ==
  ASSUME IInv, NEW j \in Jobs, FindMappings(j)
  PROVE  IInv' /\ KeysStay
<1>0. /\ job[j] # Null /\ JobSound(job[j], row)
      /\ UNCHANGED <<row, doc, mapping, encryptor, faults, losses>>
      /\ job[j].at \in {"saving", "create"}
  BY DEF FindMappings, Waits, IInv, JobsSound
<1>1. job[j].key \in Keys /\ job[j].kind # "search"
  BY <1>0 DEF JobSound
<1>2. PICK at \in {"create", "posted", "insert"} : GoesTo(j, at)
  BY DEF FindMappings
<1> QED
  BY <1>0, <1>1, <1>2, GoesToKeeps DEF Steps

\* A job that has saved the text of its key posts what it encrypted.
LEMMA SavedKeeps ==
  ASSUME IInv, NEW j \in Jobs, job[j] # Null, job[j].at \in {"saving", "insert"}, GoesTo(j, "posted"),
         UNCHANGED <<row, doc, encryptor, faults, losses>>,
         mapping' \in Mapping \cup {Null},
         \A k \in Keys : OnlyKey(k) => mapping' = mapping
  PROVE  IInv' /\ KeysStay
<1> DEFINE r == [job[j] EXCEPT !.at = "posted"]
<1>1. job[j] \in Job /\ JobSound(job[j], row)
  BY JobType DEF IInv, JobsSound
<1>2. r \in Job /\ r.at = "posted" /\ r.key = job[j].key /\ r.kind = job[j].kind /\ r.hidden = job[j].hidden
  BY <1>1 DEF Job, Steps
<1>3. job' = [job EXCEPT ![j] = r]
  BY DEF GoesTo
<1> HIDE DEF r
<1>4. RowsHidden /\ row' = row /\ JobSound(r, row')
  BY <1>1, <1>2 DEF RowsHidden, JobSound
<1>5. /\ row' \in [Messages -> {"none", "stored", "recalled", "gone"}]
      /\ doc' \in [Messages -> Document \cup {Null}]
      /\ encryptor' \in Keys \cup {Null}
      /\ faults' \in 0 .. MaxFaults /\ losses' \in 0 .. MaxLosses
  BY DEF IInv, TypeOK
<1>6. \A k \in Keys : OnlyKey(k) =>
        /\ mapping' = mapping /\ encryptor' \in {k, Null}
        /\ \A m \in Messages : doc'[m] # Null => doc'[m].key = k
        /\ r # Null => r.key \in {k, Null} /\ (r.at = "found" => r.key = k)
  BY <1>2 DEF OnlyKey
<1> QED
  BY <1>2, <1>3, <1>4, <1>5, <1>6, SlotKeeps

LEMMA UpdateMappingsKeeps ==
  ASSUME IInv, NEW j \in Jobs, UpdateMessageMappings(j)
  PROVE  IInv' /\ KeysStay
<1>0. /\ job[j] # Null /\ job[j].at = "saving" /\ job[j].key \in Keys
      /\ mapping \in Mapping /\ mapping' = [mapping EXCEPT !.under = job[j].key]
  BY DEF UpdateMessageMappings, Waits, IInv, TypeOK, JobsSound, JobSound
<1>1. mapping' \in Mapping
  BY <1>0 DEF Mapping
<1>2. \A k \in Keys : OnlyKey(k) => mapping' = mapping
  BY <1>0, SearchAssumption DEF OnlyKey
<1> QED
  BY <1>0, <1>1, <1>2, SavedKeeps DEF UpdateMessageMappings

LEMMA CreateMappingsKeeps ==
  ASSUME IInv, NEW j \in Jobs, CreateMessageMappings(j)
  PROVE  IInv' /\ KeysStay
<1>0. job[j] # Null /\ job[j].at = "insert" /\ job[j].key \in Keys
  BY DEF CreateMessageMappings, Waits, IInv, JobsSound, JobSound
<1>1. CASE mapping = Null
  <2>1. mapping' \in Mapping /\ GoesTo(j, "posted")
    BY <1>0, <1>1 DEF CreateMessageMappings, Mapping
  <2>2. \A k \in Keys : ~OnlyKey(k)
    BY <1>1, SearchAssumption DEF OnlyKey, Mapping
  <2> QED
    BY <1>0, <2>1, <2>2, SavedKeeps DEF CreateMessageMappings
<1>2. CASE mapping # Null
  <2>1. Fails(j) /\ UNCHANGED <<row, doc, mapping, encryptor, faults, losses>>
    BY <1>2 DEF CreateMessageMappings
  <2> QED
    BY <2>1, FailsKeeps
<1> QED
  BY <1>1, <1>2

LEMMA ConnectKeeps ==
  ASSUME IInv, NEW j \in Jobs, Connect(j)
  PROVE  IInv' /\ KeysStay
<1>0. /\ job[j] # Null /\ job[j].at = "posted" /\ JobSound(job[j], row)
      /\ UNCHANGED <<row, doc, mapping, encryptor, faults>>
      /\ faults \in 0 .. MaxFaults /\ losses \in 0 .. MaxLosses
      /\ MaxLosses \in Nat
  BY SearchAssumption DEF Connect, Waits, IInv, JobsSound, TypeOK
<1>1. CASE losses < MaxLosses /\ losses' = losses + 1 /\ Ends(j)
  BY <1>0, <1>1, EndsKeeps
<1>2. CASE Ends(j) /\ UNCHANGED losses
  BY <1>0, <1>2, EndsKeeps
<1>3. CASE GoesTo(j, "trying") /\ UNCHANGED losses
  BY <1>0, <1>3, GoesToKeeps DEF Steps, JobSound
<1> QED
  BY <1>1, <1>2, <1>3 DEF Connect

LEMMA WriteKeeps ==
  ASSUME IInv, NEW j \in Jobs, WriteDocument(j)
  PROVE  IInv' /\ KeysStay
<1>0. /\ job[j] # Null /\ job[j].at = "trying" /\ job[j] \in Job /\ JobSound(job[j], row)
      /\ doc' = [m \in Messages |-> IF m \in job[j].messages THEN Written(j, m) ELSE doc[m]]
      /\ UNCHANGED <<row, mapping, encryptor, faults, losses>>
      /\ doc \in [Messages -> Document \cup {Null}]
  BY JobType DEF WriteDocument, Waits, IInv, JobsSound, TypeOK
<1>1. job[j].kind \in Syncs /\ (job[j].key \in Keys \/ job[j].kind = "bulk") /\ job[j].text \in Texts
  BY <1>0 DEF JobSound, Job
<1>2. ASSUME NEW m \in job[j].messages
      PROVE  /\ Written(j, m) \in Document \cup {Null}
             /\ Written(j, m) # Null => Written(j, m).key \in {job[j].key} \cup (IF doc[m] = Null THEN {} ELSE {doc[m].key})
  <2>0. m \in Messages
    BY <1>0 DEF Job
  <2>1. CASE job[j].kind \in {"create", "update"}
    BY <1>1, <2>1 DEF Written, Indexed, Document
  <2>2. CASE job[j].kind = "delete"
    <3>1. doc[m] \in Document
      BY <1>0, <2>0, <2>2 DEF WriteDocument, Writable
    <3>2. Written(j, m) = [doc[m] EXCEPT !.deleted = TRUE, !.text = "empty"]
      BY <2>2 DEF Written
    <3>3. doc[m] # Null
      BY <3>1, SearchAssumption
    <3> QED
      BY <3>1, <3>2, <3>3 DEF Document, Texts
  <2>3. CASE job[j].kind = "bulk"
    BY <2>3 DEF Written
  <2> QED
    BY <1>1, <2>1, <2>2, <2>3 DEF Syncs
<1>3. doc' \in [Messages -> Document \cup {Null}]
  BY <1>0, <1>2
<1>4. ASSUME NEW k \in Keys, OnlyKey(k), NEW m \in Messages, doc'[m] # Null
      PROVE  doc'[m].key = k
  <2>1. CASE m \notin job[j].messages
    BY <1>0, <1>4, <2>1 DEF OnlyKey
  <2>2. CASE m \in job[j].messages
    <3>1. doc'[m] = Written(j, m) /\ doc'[m] \in Document
      BY <1>0, <1>3, <1>4, <2>2
    <3>2. doc'[m].key \in Keys /\ doc'[m].key # Null
      BY <3>1, SearchAssumption DEF Document
    <3> QED
      BY <1>0, <1>2, <1>4, <2>2, <3>1, <3>2 DEF OnlyKey
  <2> QED
    BY <2>1, <2>2
<1>5. job' = [job EXCEPT ![j] = Null] /\ JobSound(Null, row')
  BY DEF WriteDocument, Ends, JobSound
<1>6. /\ row' \in [Messages -> {"none", "stored", "recalled", "gone"}] /\ RowsHidden
      /\ mapping' \in Mapping \cup {Null} /\ encryptor' \in Keys \cup {Null}
      /\ faults' \in 0 .. MaxFaults /\ losses' \in 0 .. MaxLosses
  BY <1>0 DEF IInv, TypeOK, RowsHidden
<1>7. \A k \in Keys : OnlyKey(k) =>
        /\ mapping' = mapping /\ encryptor' \in {k, Null}
        /\ \A m \in Messages : doc'[m] # Null => doc'[m].key = k
  BY <1>0, <1>4 DEF OnlyKey
<1> QED
  BY <1>3, <1>5, <1>6, <1>7, SlotKeeps

LEMMA FailureKeeps ==
  ASSUME IInv, NEW j \in Jobs, RequestFails(j)
  PROVE  IInv' /\ KeysStay
<1>0. /\ job[j] # Null /\ job[j] \in Job /\ JobSound(job[j], row) /\ job[j].at = "trying"
      /\ UNCHANGED <<row, doc, mapping, encryptor, losses>>
      /\ faults' \in 0 .. MaxFaults /\ losses' \in 0 .. MaxLosses
  BY JobType, SearchAssumption DEF RequestFails, Waits, IInv, JobsSound, TypeOK
<1>1. CASE Ends(j)
  BY <1>0, <1>1, EndsKeeps
<1>2. CASE job[j].tries < MaxRetries /\ job' = [job EXCEPT ![j].tries = @ + 1]
  <2> DEFINE r == [job[j] EXCEPT !.tries = @ + 1]
  <2>0. job[j].tries + 1 \in 0 .. MaxRetries
    BY <1>0, <1>2, SearchAssumption DEF Job
  <2>1. /\ r \in Job /\ r.at = job[j].at /\ r.key = job[j].key /\ r.kind = job[j].kind
        /\ r.hidden = job[j].hidden
    BY <1>0, <2>0 DEF Job
  <2>2. job' = [job EXCEPT ![j] = r]
    BY <1>2
  <2> HIDE DEF r
  <2>3. JobSound(r, row)
    BY <1>0, <2>1 DEF JobSound
  <2>4. \A k \in Keys : OnlyKey(k) => r.key \in {k, Null} /\ (r.at = "found" => r.key = k)
    BY <1>0, <2>1 DEF OnlyKey
  <2> QED
    BY <1>0, <2>1, <2>2, <2>3, <2>4, SlotAloneKeeps
<1> QED
  BY <1>1, <1>2 DEF RequestFails, RetryAsyncRequest

LEMMA SearchKeeps ==
  ASSUME IInv, NEW j \in Jobs, SearchMessages(j) \/ ShowMessages(j)
  PROVE  IInv' /\ KeysStay
<1>0. /\ job[j] # Null /\ job[j] \in Job /\ JobSound(job[j], row)
      /\ UNCHANGED <<row, doc, mapping, encryptor, faults, losses>>
      /\ faults' \in 0 .. MaxFaults /\ losses' \in 0 .. MaxLosses
  BY JobType DEF SearchMessages, ShowMessages, Waits, IInv, JobsSound, TypeOK
<1>1. CASE Ends(j)
  BY <1>0, <1>1, EndsKeeps
<1>2. ASSUME NEW S \in SUBSET Messages, NEW at \in {"rows", "shown"},
             job' = [job EXCEPT ![j].at = at, ![j].messages = S],
             at = "shown" => \A m \in S : row[m] = "stored"
      PROVE  IInv' /\ KeysStay
  <2> DEFINE r == [job[j] EXCEPT !.at = at, !.messages = S]
  <2>1. /\ r \in Job /\ r.at = at /\ r.messages = S /\ r.key = job[j].key
        /\ r.hidden = job[j].hidden
    BY <1>0 DEF Job, Steps
  <2>2. job' = [job EXCEPT ![j] = r]
    BY <1>2
  <2> HIDE DEF r
  <2>3. JobSound(r, row)
    BY <1>0, <1>2, <2>1 DEF JobSound
  <2>4. \A k \in Keys : OnlyKey(k) => r.key \in {k, Null} /\ (r.at = "found" => r.key = k)
    BY <1>0, <2>1 DEF OnlyKey
  <2> QED
    BY <1>0, <2>1, <2>2, <2>3, <2>4, SlotAloneKeeps
<1>3. CASE SearchMessages(j)
  BY <1>2, <1>3 DEF SearchMessages
<1>4. CASE job' = [job EXCEPT ![j].at = "shown", ![j].messages = FindMessagesForGlobalSearch(@)]
  <2> DEFINE S == FindMessagesForGlobalSearch(job[j].messages)
  <2>1. S \in SUBSET Messages /\ \A m \in S : row[m] = "stored"
    BY <1>0 DEF FindMessagesForGlobalSearch, Job
  <2>2. job' = [job EXCEPT ![j].at = "shown", ![j].messages = S]
    BY <1>0, <1>4 DEF IInv, TypeOK
  <2> HIDE DEF S
  <2> QED
    BY <1>2, <2>1, <2>2
<1> QED
  BY <1>1, <1>3, <1>4 DEF ShowMessages

LEMMA CrashKeeps ==
  ASSUME IInv, Crash
  PROVE  IInv' /\ KeysStay
<1>1. /\ \A j \in Jobs : job'[j] \in {job[j], Null} /\ (job'[j] # Null => job[j].at = "recall")
      /\ job' \in [Jobs -> Job \cup {Null}]
  BY DEF Crash, Waits, IInv, TypeOK
<1>2. TypeOK'
  BY <1>1, SearchAssumption DEF Crash, IInv, TypeOK
<1>3. JobsSound'
  BY <1>1 DEF Crash, IInv, JobsSound, JobSound
<1>4. KeysStay
  BY <1>1 DEF Crash, KeysStay, OnlyKey
<1> QED
  BY <1>2, <1>3, <1>4 DEF IInv

-----------------------------------------------------------------------------
LEMMA InitInv == Init => IInv
BY SearchAssumption DEF Init, IInv, TypeOK, JobsSound, JobSound, Mapping

LEMMA InvStep == IInv /\ [Next]_vars => IInv' /\ KeysStay
<1> SUFFICES ASSUME IInv, [Next]_vars
             PROVE  IInv' /\ KeysStay
  OBVIOUS
<1>1. CASE UNCHANGED vars
  BY <1>1 DEF vars, IInv, TypeOK, JobsSound, KeysStay, OnlyKey
<1>2. ASSUME NEW j \in Jobs, Progress(j)
      PROVE  IInv' /\ KeysStay
  BY <1>2, RecallKeeps, EncryptorKeeps, MappingsKeep, InitEncryptorKeeps, FindKeeps,
     UpdateMappingsKeeps, CreateMappingsKeeps, ConnectKeeps, WriteKeeps, FailureKeeps, SearchKeeps
     DEF Progress
<1> QED
  BY <1>1, <1>2, CallsKeep, CrashKeeps DEF Next

LEMMA Invariant == Spec => []IInv
BY InitInv, InvStep, PTL DEF Spec

\* KeyedBy counts the keys in use, OnlyKey goes through them.
KeyedIsOnly == \A k \in Keys : KeyedBy(k) <=> OnlyKey(k)

LEMMA KeyedByIsOnlyKey == TypeOK => KeyedIsOnly
<1> SUFFICES ASSUME TypeOK, NEW k \in Keys
             PROVE  KeyedBy(k) <=> OnlyKey(k)
  BY DEF KeyedIsOnly
<1>1. mapping = [key |-> k, under |-> k] => mapping # Null
  BY SearchAssumption DEF Mapping
<1>2. /\ k # Null /\ \A m \in Messages : doc[m] # Null => doc[m].key \in Keys /\ doc[m].key # Null
  BY SearchAssumption DEF TypeOK, Document
<1>3. ASSUME KeyedBy(k) PROVE OnlyKey(k)
  <2>1. UsedKeys \subseteq {k, Null}
    BY <1>3 DEF KeyedBy
  <2>2. /\ \A m \in Messages : doc[m] # Null => doc[m].key \in UsedKeys
        /\ \A j \in Jobs : job[j] # Null => job[j].key \in UsedKeys
        /\ encryptor \in UsedKeys
    BY DEF UsedKeys
  <2> QED
    BY <1>2, <1>3, <2>1, <2>2 DEF KeyedBy, OnlyKey, Waits
<1>4. ASSUME OnlyKey(k) PROVE KeyedBy(k)
  <2>1. mapping # Null /\ mapping.key = k /\ mapping.under = k
    BY <1>1, <1>4 DEF OnlyKey
  <2>2. UsedKeys \subseteq {k, Null} /\ k \in UsedKeys
    BY <1>4, <2>1 DEF OnlyKey, UsedKeys
  <2> QED
    BY <1>2, <1>4, <2>2 DEF KeyedBy, OnlyKey, Waits
<1> QED
  BY <1>3, <1>4

-----------------------------------------------------------------------------
(* The theorems.                                                            *)

\* Rows, documents, the stored key and the calls in progress keep their types: no
\* sync reaches the worker without a key, nor does a search.
THEOREM TypeCorrect == Spec => []TypeOK
BY Invariant, PTL DEF IInv

\* searchGlobally filters by the rows it reads last: what was recalled or deleted
\* before the search began is not shown, in whatever order creates, updates and
\* deletes reached the index.
THEOREM SearchesHideRecalled == Spec => []RecalledNotShown
<1>1. IInv => RecalledNotShown
  BY DEF IInv, JobsSound, JobSound, RecalledNotShown, Waits
<1> QED
  BY <1>1, Invariant, PTL

\* Once the row of message_mappings and all that uses a key agree on one, they do
\* so for ever: after a restart, on a first use by several calls at once, and when
\* a call saves the text of its key.
THEOREM TheKeyStays == Spec => OneKey
<1>1. KeyedIsOnly /\ KeyedIsOnly' /\ KeysStay => [\A k \in Keys : KeyedBy(k) => KeyedBy(k)']_vars
  BY DEF KeyedIsOnly, KeysStay
<1>2. IInv => KeyedIsOnly
  BY KeyedByIsOnlyKey DEF IInv
<1> QED
  BY <1>1, <1>2, InvStep, Invariant, PTL DEF Spec, OneKey
=============================================================================
