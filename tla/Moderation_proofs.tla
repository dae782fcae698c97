--------------------------- MODULE Moderation_proofs ---------------------------
(***************************************************************************)
(* Proofs about Moderation, for every set of users, reports, messages,       *)
(* devices and administrators, and every bound.                             *)
(***************************************************************************)
EXTENDS Moderation, TLAPS

-----------------------------------------------------------------------------
(* The inductive invariant.                                                 *)

\* A report in a transaction that has not committed is nobody else's, and what it
\* accuses somebody of so far stands.
FilingsSound ==
  \A d \in Filings :
    /\ report[filing[d].report] = Null
    /\ \A e \in Filings : filing[e].report = filing[d].report => e = d
    /\ ~filing[d].failed =>
         \A m \in filing[d].done : m \in exists /\ filing[d].about \in Involves[m]

\* What a ruling t read is there.
RulingSound(t) ==
  t # Null =>
    /\ t.op = "status" => report[t.report] # Null
    /\ t.op = "ban" => report[t.act.report] # Null /\ t.act.createdAt <= MaxTime

\* The action a transaction has written is the first on its report, and no other
\* transaction has written one.
FirstAct(a) ==
  Writing(a) =>
    /\ \A x \in actions : x.report # ruling[a].act.report
    /\ \A b \in Admins : Writing(b) /\ ruling[b].act.report = ruling[a].act.report => b = a

RulingsSound == \A a \in Admins : RulingSound(ruling[a]) /\ FirstAct(a)

ActsSound == \A x \in actions : report[x.report] # Null /\ x.createdAt <= MaxTime

IInv == /\ TypeOK /\ FilingsSound /\ EvidenceStands /\ NoStrayImages
        /\ RulingsSound /\ ActsSound /\ ActedOnce

-----------------------------------------------------------------------------
(* Slots and rows.                                                          *)

LEMMA FilingType ==
  ASSUME TypeOK, NEW d \in Devices, filing[d] # Null
  PROVE  filing[d] \in Filing
BY DEF TypeOK

LEMMA FilingSet ==
  ASSUME TypeOK, NEW d \in Devices, NEW t \in Filing \cup {Null}, filing' = [filing EXCEPT ![d] = t]
  PROVE  /\ filing' \in [Devices -> Filing \cup {Null}] /\ filing'[d] = t
         /\ \A e \in Devices : e # d => filing'[e] = filing[e]
BY DEF TypeOK

LEMMA RulingType ==
  ASSUME TypeOK, NEW a \in Admins, ruling[a] # Null
  PROVE  /\ ruling[a] \in Ruling
         /\ ruling[a].op = "ban" =>
              ruling[a] \in [op : {"ban"}, at : {"read", "written"}, act : Action, removes : SUBSET Messages]
         /\ ruling[a].op = "status" =>
              ruling[a] \in [op : {"status"}, report : Reports, status : Statuses]
<1>1. ruling[a] \in Ruling
  BY DEF TypeOK
<1> QED
  BY <1>1 DEF Ruling

LEMMA RulingSet ==
  ASSUME TypeOK, NEW a \in Admins, NEW t \in Ruling \cup {Null}, ruling' = [ruling EXCEPT ![a] = t]
  PROVE  /\ ruling' \in [Admins -> Ruling \cup {Null}] /\ ruling'[a] = t
         /\ \A b \in Admins : b # a => ruling'[b] = ruling[b]
BY DEF TypeOK

\* No report is lost, or made about somebody else.
ReportsStay ==
  \A r \in Reports : report[r] # Null => report'[r] # Null /\ report'[r].about = report[r].about

\* Only statuses of reports change.
StatusOnly ==
  \A r \in Reports :
    /\ report'[r] = Null <=> report[r] = Null
    /\ report[r] # Null =>
         report'[r].about = report[r].about /\ report'[r].evidence = report[r].evidence

LEMMA StatusSet ==
  ASSUME TypeOK, NEW r \in Reports, report[r] # Null, NEW s \in Statuses,
         report' = [report EXCEPT ![r].status = s]
  PROVE  report' \in [Reports -> Report \cup {Null}] /\ StatusOnly /\ ReportsStay
<1> DEFINE t == [report[r] EXCEPT !.status = s]
<1>1. report[r] \in Report
  BY DEF TypeOK
<1>2. t \in Report /\ t.about = report[r].about /\ t.evidence = report[r].evidence
  BY <1>1 DEF Report
<1>3. report' = [report EXCEPT ![r] = t]
  OBVIOUS
<1> HIDE DEF t
<1>4. /\ report' \in [Reports -> Report \cup {Null}] /\ report'[r] = t
      /\ \A q \in Reports : q # r => report'[q] = report[q]
  BY <1>2, <1>3 DEF TypeOK
<1> QED
  BY <1>2, <1>4, ModerationAssumption DEF StatusOnly, ReportsStay

LEMMA FilingsKept ==
  ASSUME IInv, StatusOnly, UNCHANGED <<exists, images, lost, filing>>
  PROVE  FilingsSound' /\ EvidenceStands' /\ NoStrayImages'
<1>0. /\ \A d \in Filings : filing[d].report \in Reports
      /\ images \subseteq Reports /\ Filings' = Filings
  BY DEF IInv, TypeOK, Filings, Filing
<1>1. FilingsSound'
  BY <1>0 DEF IInv, FilingsSound, StatusOnly
<1>2. EvidenceStands'
  BY DEF IInv, EvidenceStands, StatusOnly
<1>3. NoStrayImages'
  BY <1>0 DEF IInv, NoStrayImages, StatusOnly
<1> QED
  BY <1>1, <1>2, <1>3

LEMMA RulingsKept ==
  ASSUME IInv, ReportsStay, UNCHANGED <<actions, ruling>>
  PROVE  RulingsSound' /\ ActsSound' /\ ActedOnce'
<1>1. /\ \A x \in actions : x.report \in Reports
      /\ \A a \in Admins : ruling[a] # Null =>
           /\ ruling[a].op = "status" => ruling[a].report \in Reports
           /\ ruling[a].op = "ban" => ruling[a].act.report \in Reports
  BY RulingType DEF IInv, TypeOK, Action
<1>2. RulingsSound'
  <2> SUFFICES ASSUME NEW a \in Admins
               PROVE  RulingSound(ruling[a])' /\ FirstAct(a)'
    BY DEF RulingsSound
  <2>1. RulingSound(ruling[a])'
    BY <1>1 DEF IInv, RulingsSound, RulingSound, ReportsStay
  <2>2. FirstAct(a)'
    BY DEF IInv, RulingsSound, FirstAct, Writing
  <2> QED
    BY <2>1, <2>2
<1>3. ActsSound' /\ ActedOnce'
  BY <1>1 DEF IInv, ActsSound, ActedOnce, ReportsStay
<1> QED
  BY <1>2, <1>3

\* A ruling is taken up, or given up, without having written.
LEMMA RulingTakes ==
  ASSUME IInv, ReportsStay, NEW a \in Admins, NEW t \in Ruling \cup {Null},
         ruling' = [ruling EXCEPT ![a] = t], actions' = actions,
         t # Null => /\ t.op = "status" => report'[t.report] # Null
                     /\ t.op = "ban" => /\ report'[t.act.report] # Null
                                        /\ t.act.createdAt <= MaxTime /\ t.at = "read"
  PROVE  RulingsSound' /\ ActsSound' /\ ActedOnce' /\ ruling' \in [Admins -> Ruling \cup {Null}]
<1>1. /\ ruling' \in [Admins -> Ruling \cup {Null}] /\ ruling'[a] = t
      /\ \A b \in Admins : b # a => ruling'[b] = ruling[b]
  BY RulingSet DEF IInv
<1>2. /\ \A x \in actions : x.report \in Reports
      /\ \A b \in Admins : ruling[b] # Null =>
           /\ ruling[b].op = "status" => ruling[b].report \in Reports
           /\ ruling[b].op = "ban" => ruling[b].act.report \in Reports
  BY RulingType DEF IInv, TypeOK, Action
<1>3. \A b \in Admins : Writing(b)' => b # a /\ Writing(b)
  BY <1>1 DEF Writing
<1>4. RulingsSound'
  <2> SUFFICES ASSUME NEW b \in Admins
               PROVE  RulingSound(ruling[b])' /\ FirstAct(b)'
    BY DEF RulingsSound
  <2>1. RulingSound(ruling[b])'
    <3>1. CASE b = a
      BY <1>1, <3>1 DEF RulingSound
    <3>2. CASE b # a
      BY <1>1, <1>2, <3>2 DEF IInv, RulingsSound, RulingSound, ReportsStay
    <3> QED
      BY <3>1, <3>2
  <2>2. FirstAct(b)'
    BY <1>1, <1>3 DEF IInv, RulingsSound, FirstAct
  <2> QED
    BY <2>1, <2>2
<1>5. ActsSound' /\ ActedOnce'
  BY <1>2 DEF IInv, ActsSound, ActedOnce, ReportsStay
<1> QED
  BY <1>1, <1>4, <1>5

-----------------------------------------------------------------------------
(* Filing.                                                                  *)

\* Every image in S3 that is not lost was another's before, or is of filing t.
ImagesKept(d, t) ==
  \A r \in images' \ lost' :
    \/ r \in images \ lost /\ (filing[d] # Null /\ filing[d].report = r => t # Null /\ t.report = r)
    \/ t # Null /\ t.report = r

\* The filing in slot d becomes t, which is of the same report and accuses nobody of
\* more than stands, or ends; reports, messages and rulings are left alone.
LEMMA FilingTakes ==
  ASSUME IInv, NEW d \in Devices, NEW t \in Filing \cup {Null}, filing' = [filing EXCEPT ![d] = t],
         UNCHANGED <<rows, ruling>>, files' \in SUBSET Messages,
         t # Null => /\ report[t.report] = Null
                     /\ \A e \in Filings : filing[e].report = t.report => e = d
                     /\ ~t.failed => \A m \in t.done : m \in exists /\ t.about \in Involves[m],
         images' \in SUBSET Reports, lost' \in SUBSET Reports,
         ImagesKept(d, t)
  PROVE  IInv'
<1>1. /\ filing' \in [Devices -> Filing \cup {Null}] /\ filing'[d] = t
      /\ \A e \in Devices : e # d => filing'[e] = filing[e]
  BY FilingSet DEF IInv
<1>2. TypeOK'
  BY <1>1 DEF IInv, TypeOK, rows
<1>3. Filings' = IF t = Null THEN Filings \ {d} ELSE Filings \cup {d}
  BY <1>1 DEF Filings
<1>4. FilingsSound'
  <2> SUFFICES ASSUME NEW e \in Filings'
               PROVE  /\ report[filing'[e].report] = Null
                      /\ \A c \in Filings' : filing'[c].report = filing'[e].report => c = e
                      /\ ~filing'[e].failed =>
                           \A m \in filing'[e].done : m \in exists /\ filing'[e].about \in Involves[m]
    BY DEF FilingsSound, rows
  <2>1. CASE e = d
    BY <1>1, <1>3, <2>1
  <2>2. CASE e # d
    <3>1. e \in Filings /\ e \in Devices /\ filing'[e] = filing[e]
      BY <1>1, <1>3, <2>2 DEF Filings
    <3>2. ASSUME NEW c \in Filings', filing'[c].report = filing'[e].report
          PROVE  c = e
      <4>1. CASE c = d
        BY <1>1, <1>3, <2>2, <3>1, <3>2, <4>1
      <4>2. CASE c # d
        BY <1>1, <1>3, <3>1, <3>2, <4>2 DEF IInv, FilingsSound, Filings
      <4> QED
        BY <4>1, <4>2
    <3> QED
      BY <3>1, <3>2 DEF IInv, FilingsSound
  <2> QED
    BY <2>1, <2>2
<1>5. EvidenceStands'
  BY DEF IInv, EvidenceStands, rows
<1>6. NoStrayImages'
  <2> SUFFICES ASSUME NEW r \in images' \ lost'
               PROVE  report[r] # Null \/ \E e \in Filings' : filing'[e].report = r
    BY DEF NoStrayImages, rows
  <2>1. CASE t # Null /\ t.report = r
    BY <1>1, <1>3, <2>1
  <2>2. CASE r \in images \ lost /\ ~(filing[d] # Null /\ filing[d].report = r)
    <3>1. report[r] # Null \/ \E e \in Filings : filing[e].report = r
      BY <2>2 DEF IInv, NoStrayImages
    <3>2. ASSUME NEW e \in Filings, filing[e].report = r
          PROVE  e \in Filings' /\ filing'[e].report = r
      BY <1>1, <1>3, <2>2, <3>2 DEF Filings
    <3> QED
      BY <3>1, <3>2
  <2> QED
    BY <2>1, <2>2 DEF ImagesKept
<1>7. RulingsSound' /\ ActsSound' /\ ActedOnce'
  BY RulingsKept DEF ReportsStay, rows
<1> QED
  BY <1>2, <1>4, <1>5, <1>6, <1>7 DEF IInv

LEMMA FileKeeps ==
  ASSUME IInv, NEW d \in Devices, NEW p \in Pairs, NEW S \in SUBSET Messages, NEW r \in Reports,
         NEW img \in {"none", "wanted"}, FileReport(d, p[1], p[2], S, img, r)
  PROVE  IInv'
<1> DEFINE t == [by |-> p[1], about |-> p[2], report |-> r, image |-> img,
                 urls |-> {}, todo |-> S, done |-> {}, failed |-> FALSE]
<1>1. p[1] \in Users /\ p[2] \in Users
  BY ModerationAssumption
<1>2. t \in Filing /\ t.report = r /\ t.done = {}
  BY <1>1 DEF Filing
<1>3. filing' = [filing EXCEPT ![d] = t]
  BY DEF FileReport
<1> HIDE DEF t
<1>4. /\ UNCHANGED <<rows, ruling>> /\ files' \in SUBSET Messages
      /\ UNCHANGED s3 /\ images' \in SUBSET Reports /\ lost' \in SUBSET Reports
      /\ filing[d] = Null /\ report[r] = Null /\ \A e \in Filings : filing[e].report # r
  BY DEF FileReport, IInv, TypeOK, s3
<1>5. ImagesKept(d, t)
  BY <1>4 DEF ImagesKept, s3
<1> QED
  BY <1>2, <1>3, <1>4, <1>5, FilingTakes DEF s3

\* t is filing d of the same report, with its image in S3 perhaps; if it has not
\* failed, it accuses of nothing new that does not stand.
GoesOn(d, t) ==
  /\ t.report = filing[d].report /\ t.about = filing[d].about
  /\ ~t.failed => /\ ~filing[d].failed
                  /\ \A m \in t.done : m \in filing[d].done
                                       \/ (m \in exists /\ filing[d].about \in Involves[m])
  /\ images' = images \/ images' = images \cup {filing[d].report}
  /\ UNCHANGED <<files, lost>>

LEMMA GoesOnKeeps ==
  ASSUME IInv, NEW d \in Devices, d \in Filings, NEW t \in Filing \cup {Null}, t \in Filing,
         filing' = [filing EXCEPT ![d] = t], GoesOn(d, t),
         UNCHANGED <<rows, ruling>>
  PROVE  IInv'
<1>1. /\ filing[d] # Null /\ filing[d].report \in Reports /\ t # Null
      /\ t.report = filing[d].report
  BY FilingType, ModerationAssumption DEF Filings, Filing, IInv, GoesOn
<1>2. t # Null =>
        /\ report[t.report] = Null
        /\ \A e \in Filings : filing[e].report = t.report => e = d
        /\ ~t.failed => \A m \in t.done : m \in exists /\ t.about \in Involves[m]
  BY DEF IInv, FilingsSound, GoesOn
<1>3. /\ files' \in SUBSET Messages /\ images' \in SUBSET Reports /\ lost' \in SUBSET Reports
  BY <1>1 DEF IInv, TypeOK, GoesOn
<1>4. ImagesKept(d, t)
  BY <1>1 DEF GoesOn, ImagesKept
<1> QED
  BY <1>2, <1>3, <1>4, FilingTakes

LEMMA UploadKeeps ==
  ASSUME IInv, NEW d \in Devices, UploadReportImage(d)
  PROVE  IInv'
<1>0. /\ d \in Filings /\ filing[d] \in Filing /\ ~filing[d].failed
      /\ UNCHANGED <<rows, files, lost, ruling>>
      /\ images' \in {images, images \cup {filing[d].report}}
  BY FilingType DEF UploadReportImage, IInv, Filings
<1>1. PICK img \in {"sent", "listed"} : filing' = [filing EXCEPT ![d].image = img]
  BY DEF UploadReportImage
<1> DEFINE t == [filing[d] EXCEPT !.image = img]
<1>2. /\ t \in Filing /\ t.report = filing[d].report /\ t.done = filing[d].done
      /\ t.failed = filing[d].failed /\ t.about = filing[d].about
  BY <1>0, <1>1 DEF Filing
<1>3. filing' = [filing EXCEPT ![d] = t]
  BY <1>1
<1> HIDE DEF t
<1> QED
  BY <1>0, <1>2, <1>3, GoesOnKeeps DEF GoesOn

LEMMA FailKeeps ==
  ASSUME IInv, NEW d \in Devices, FilingFails(d)
  PROVE  IInv'
<1>0. /\ d \in Filings /\ filing[d] \in Filing
      /\ UNCHANGED <<rows, files, lost, ruling>> /\ images' = images
  BY FilingType DEF FilingFails, IInv, Filings, s3
<1> DEFINE t == [filing[d] EXCEPT !.failed = TRUE]
<1>1. t \in Filing /\ t.report = filing[d].report /\ t.failed /\ t.about = filing[d].about
  BY <1>0 DEF Filing
<1>2. filing' = [filing EXCEPT ![d] = t]
  BY DEF FilingFails
<1> HIDE DEF t
<1> QED
  BY <1>0, <1>1, <1>2, GoesOnKeeps DEF GoesOn

LEMMA EvidenceKeeps ==
  ASSUME IInv, NEW d \in Devices, NEW m \in Messages, NEW named \in SUBSET Media,
         AddEvidence(d, m, named)
  PROVE  IInv'
<1>0. /\ d \in Filings /\ filing[d] \in Filing /\ ~filing[d].failed
      /\ UNCHANGED <<rows, files, lost, ruling>> /\ images' = images
      /\ m \in exists /\ filing[d].about \in Involves[m]
  BY FilingType DEF AddEvidence, IInv, Filings, s3
<1>1. CASE filing' = [filing EXCEPT ![d].todo = @ \ {m}, ![d].done = @ \cup {m}, ![d].urls = @ \cup named]
  <2> DEFINE t == [filing[d] EXCEPT !.todo = @ \ {m}, !.done = @ \cup {m}, !.urls = @ \cup named]
  <2>1. /\ t \in Filing /\ t.report = filing[d].report /\ t.done = filing[d].done \cup {m}
        /\ t.about = filing[d].about
    BY <1>0 DEF Filing
  <2>2. filing' = [filing EXCEPT ![d] = t]
    BY <1>1 DEF IInv, TypeOK
  <2> HIDE DEF t
  <2> QED
    BY <1>0, <2>1, <2>2, GoesOnKeeps DEF GoesOn
<1>2. CASE filing' = [filing EXCEPT ![d].urls = @ \cup named, ![d].failed = TRUE]
  <2> DEFINE t == [filing[d] EXCEPT !.urls = @ \cup named, !.failed = TRUE]
  <2>1. t \in Filing /\ t.report = filing[d].report /\ t.failed /\ t.about = filing[d].about
    BY <1>0 DEF Filing
  <2>2. filing' = [filing EXCEPT ![d] = t]
    BY <1>2 DEF IInv, TypeOK
  <2> HIDE DEF t
  <2> QED
    BY <1>0, <2>1, <2>2, GoesOnKeeps DEF GoesOn
<1> QED
  BY <1>1, <1>2 DEF AddEvidence

LEMMA RollbackKeeps ==
  ASSUME IInv, NEW d \in Devices, RollbackUploadedFiles(d)
  PROVE  IInv'
<1>1. /\ filing[d] # Null /\ filing[d].report \in Reports
      /\ UNCHANGED <<rows, ruling>> /\ files' \in SUBSET Messages
      /\ images' \in SUBSET images /\ lost \subseteq lost'
      /\ lost' \in SUBSET Reports /\ images \subseteq Reports
      /\ filing[d].report \notin images' \ lost'
      /\ filing' = [filing EXCEPT ![d] = Null]
  BY FilingType DEF RollbackUploadedFiles, IInv, TypeOK, Filing
<1>2. images' \in SUBSET Reports /\ ImagesKept(d, Null)
  BY <1>1 DEF ImagesKept
<1> QED
  BY <1>1, <1>2, FilingTakes

LEMMA DeathKeeps ==
  ASSUME IInv, ServiceDies
  PROVE  IInv'
<1>1. /\ UNCHANGED <<rows, files, images, ruling>> /\ filing' = [d \in Devices |-> Null]
      /\ lost' = lost \cup (images \cap {filing[d].report : d \in Filings}) /\ Filings' = {}
  BY DEF ServiceDies, Filings
<1>2. TypeOK'
  BY <1>1 DEF IInv, TypeOK, rows
<1>3. FilingsSound' /\ EvidenceStands'
  BY <1>1 DEF IInv, FilingsSound, EvidenceStands, rows
<1>4. NoStrayImages'
  BY <1>1 DEF IInv, NoStrayImages, rows
<1>5. RulingsSound' /\ ActsSound' /\ ActedOnce'
  BY <1>1, RulingsKept DEF ReportsStay, rows
<1> QED
  BY <1>2, <1>3, <1>4, <1>5 DEF IInv

LEMMA CreatedKeeps ==
  ASSUME IInv, NEW d \in Devices, ReportCreated(d)
  PROVE  IInv'
<1>0. /\ filing[d] # Null /\ ~filing[d].failed /\ d \in Filings /\ filing[d] \in Filing
      /\ UNCHANGED <<actions, exists, removed, media, files, images, lost, ruling>>
  BY FilingType DEF ReportCreated, IInv, Filings, s3
<1> DEFINE t == [by |-> filing[d].by, about |-> filing[d].about, status |-> "PENDING",
                 evidence |-> filing[d].done]
<1>1. PICK q \in Reports : q = filing[d].report
  BY <1>0 DEF Filing
<1>2. /\ t \in Report /\ t # Null /\ t.about = filing[d].about /\ t.evidence = filing[d].done
  <2>1. t \in Report
    BY <1>0 DEF Filing, Report, Statuses
  <2> QED
    BY <2>1, ModerationAssumption
<1>3. report' = [report EXCEPT ![q] = t]
  BY <1>1 DEF ReportCreated
<1> HIDE DEF t
<1>4. /\ report' \in [Reports -> Report \cup {Null}] /\ report'[q] = t
      /\ \A r \in Reports : r # q => report'[r] = report[r]
  BY <1>2, <1>3 DEF IInv, TypeOK
<1>5. /\ filing' \in [Devices -> Filing \cup {Null}] /\ filing'[d] = Null
      /\ \A e \in Devices : e # d => filing'[e] = filing[e]
  BY FilingSet DEF ReportCreated, IInv
<1>6. Filings' = Filings \ {d}
  BY <1>5 DEF Filings
<1>7. /\ report[q] = Null
      /\ \A e \in Filings : filing[e].report \in Reports /\ (e # d => filing[e].report # q)
  BY <1>0, <1>1, FilingType DEF IInv, FilingsSound, Filings, Filing
<1>8. TypeOK'
  BY <1>0, <1>4, <1>5 DEF IInv, TypeOK
<1>9. FilingsSound'
  <2>1. \A e \in Filings' : /\ e \in Filings /\ e \in Devices /\ filing'[e] = filing[e]
                           /\ report'[filing[e].report] = report[filing[e].report]
    BY <1>4, <1>5, <1>6, <1>7 DEF Filings
  <2> QED
    BY <1>0, <2>1 DEF IInv, FilingsSound
<1>10. EvidenceStands'
  <2> SUFFICES ASSUME NEW r \in Reports, report'[r] # Null, NEW m \in report'[r].evidence
               PROVE  m \in exists /\ report'[r].about \in Involves[m]
    BY <1>0 DEF EvidenceStands
  <2>1. CASE r = q
    BY <1>0, <1>2, <1>4, <2>1 DEF IInv, FilingsSound
  <2>2. CASE r # q
    BY <1>4, <2>2 DEF IInv, EvidenceStands
  <2> QED
    BY <2>1, <2>2
<1>11. NoStrayImages'
  <2> SUFFICES ASSUME NEW r \in images \ lost
               PROVE  report'[r] # Null \/ \E e \in Filings' : filing'[e].report = r
    BY <1>0 DEF NoStrayImages
  <2>0. r \in Reports
    BY DEF IInv, TypeOK
  <2>1. CASE r = q
    BY <1>2, <1>4, <2>1
  <2>2. CASE r # q
    <3>1. report[r] # Null \/ \E e \in Filings : filing[e].report = r
      BY DEF IInv, NoStrayImages
    <3>2. ASSUME NEW e \in Filings, filing[e].report = r
          PROVE  e \in Filings' /\ filing'[e].report = r
      BY <1>1, <1>5, <1>6, <2>2, <3>2 DEF Filings
    <3> QED
      BY <1>4, <2>0, <2>2, <3>1, <3>2
  <2> QED
    BY <2>1, <2>2
<1>12. ReportsStay
  BY <1>4, <1>7 DEF ReportsStay
<1>13. RulingsSound' /\ ActsSound' /\ ActedOnce'
  BY <1>0, <1>12, RulingsKept
<1> QED
  BY <1>8, <1>9, <1>10, <1>11, <1>13 DEF IInv

LEMMA DeleteKeeps ==
  ASSUME IInv, NEW m \in Messages, DeleteMessage(m)
  PROVE  IInv'
<1>0. /\ exists' = exists \ {m} /\ media' = media \ {m}
      /\ UNCHANGED <<report, actions, removed, s3, filing, ruling>>
      /\ \A r \in Reports : report[r] # Null => m \notin report[r].evidence
      /\ \A d \in Filings : m \notin filing[d].done \/ filing[d].failed
  BY DEF DeleteMessage
<1>1. TypeOK'
  BY <1>0 DEF IInv, TypeOK, s3
<1>2. FilingsSound' /\ EvidenceStands' /\ NoStrayImages'
  BY <1>0 DEF s3, IInv, FilingsSound, EvidenceStands, NoStrayImages, Filings
<1>3. RulingsSound' /\ ActsSound' /\ ActedOnce'
  BY <1>0, RulingsKept DEF ReportsStay
<1> QED
  BY <1>1, <1>2, <1>3 DEF IInv

-----------------------------------------------------------------------------
(* Ruling.                                                                  *)

\* A ruling that reads, or ends without having changed a row.
LEMMA RulingAloneKeeps ==
  ASSUME IInv, NEW a \in Admins, NEW t \in Ruling \cup {Null}, ruling' = [ruling EXCEPT ![a] = t],
         UNCHANGED <<rows, s3, filing>>,
         t # Null => /\ t.op = "status" => report[t.report] # Null
                     /\ t.op = "ban" => /\ report[t.act.report] # Null
                                        /\ t.act.createdAt <= MaxTime /\ t.at = "read"
  PROVE  IInv'
<1>1. ReportsStay /\ StatusOnly /\ UNCHANGED <<report, actions, exists, removed, media>>
  BY DEF ReportsStay, StatusOnly, rows
<1>2. FilingsSound' /\ EvidenceStands' /\ NoStrayImages'
  BY <1>1, FilingsKept DEF s3
<1>3. t # Null => /\ t.op = "status" => report'[t.report] # Null
                  /\ t.op = "ban" => /\ report'[t.act.report] # Null
                                     /\ t.act.createdAt <= MaxTime /\ t.at = "read"
  BY <1>1
<1>4. RulingsSound' /\ ActsSound' /\ ActedOnce' /\ ruling' \in [Admins -> Ruling \cup {Null}]
  BY <1>1, <1>3, RulingTakes
<1>5. TypeOK'
  BY <1>1, <1>4 DEF IInv, TypeOK, s3
<1> QED
  BY <1>2, <1>4, <1>5 DEF IInv

LEMMA GivesUpKeeps ==
  ASSUME IInv, NEW a \in Admins, Finish(a), UNCHANGED <<rows, s3, filing>>
  PROVE  IInv'
BY RulingAloneKeeps DEF Finish

LEMMA ReadsKeep ==
  ASSUME IInv, NEW a \in Admins, NEW r \in Reports,
         \/ \E s \in Statuses : ReadForStatus(a, r, s)
         \/ \E type \in ActionTypes, over \in BOOLEAN, S \in SUBSET Messages :
              ReadForBan(a, r, type, over, S)
  PROVE  IInv'
<1>1. ASSUME NEW s \in Statuses, ReadForStatus(a, r, s)
      PROVE  IInv'
  <2> DEFINE t == [op |-> "status", report |-> r, status |-> s]
  <2>1. t \in Ruling /\ t.op = "status" /\ t.report = r
    BY DEF Ruling
  <2>2. /\ ruling' = [ruling EXCEPT ![a] = t] /\ report[r] # Null
        /\ UNCHANGED <<rows, s3, filing>>
    BY <1>1 DEF ReadForStatus
  <2> HIDE DEF t
  <2> QED
    BY <2>1, <2>2, RulingAloneKeeps
<1>2. ASSUME NEW type \in ActionTypes, NEW over \in BOOLEAN, NEW S \in SUBSET Messages,
             ReadForBan(a, r, type, over, S)
      PROVE  IInv'
  <2> DEFINE x == [report |-> r, type |-> type, over |-> over, createdAt |-> 0]
             t == [op |-> "ban", at |-> "read", removes |-> S, act |-> x]
  <2>1. x \in Action /\ x.report = r /\ x.createdAt <= MaxTime
    BY ModerationAssumption DEF Action
  <2>2. /\ ruling' = [ruling EXCEPT ![a] = t] /\ report[r] # Null
        /\ UNCHANGED <<rows, s3, filing>>
    BY <1>2 DEF ReadForBan
  <2> HIDE DEF x
  <2>3. t \in Ruling /\ t.op = "ban" /\ t.at = "read" /\ t.act = x
    BY <2>1 DEF Ruling
  <2> HIDE DEF t
  <2> QED
    BY <2>1, <2>2, <2>3, RulingAloneKeeps
<1> QED
  BY <1>1, <1>2

LEMMA StatusKeeps ==
  ASSUME IInv, NEW a \in Admins, UpdateViolationReportStatus(a)
  PROVE  IInv' /\ ReportsStay
<1>0. /\ ruling[a] # Null /\ ruling[a].op = "status"
      /\ report' = [report EXCEPT ![ruling[a].report].status = ruling[a].status]
      /\ UNCHANGED <<actions, exists, removed, media, files, images, lost, filing>>
      /\ ruling' = [ruling EXCEPT ![a] = Null]
  BY DEF UpdateViolationReportStatus, Finish, s3
<1>1. PICK r \in Reports, s \in Statuses : r = ruling[a].report /\ s = ruling[a].status
  BY <1>0, RulingType DEF IInv
<1>2. report[r] # Null
  BY <1>0, <1>1 DEF IInv, RulingsSound, RulingSound
<1>3. report' \in [Reports -> Report \cup {Null}] /\ StatusOnly /\ ReportsStay
  BY <1>0, <1>1, <1>2, StatusSet DEF IInv
<1>4. FilingsSound' /\ EvidenceStands' /\ NoStrayImages'
  BY <1>0, <1>3, FilingsKept
<1>5. RulingsSound' /\ ActsSound' /\ ActedOnce' /\ ruling' \in [Admins -> Ruling \cup {Null}]
  BY <1>0, <1>3, RulingTakes
<1>6. TypeOK'
  BY <1>0, <1>3, <1>5 DEF IInv, TypeOK
<1> QED
  BY <1>3, <1>4, <1>5, <1>6 DEF IInv

\* The insert: the unique index has no row of the report, and no lock on it.
LEMMA WriteBanKeeps ==
  ASSUME IInv, NEW a \in Admins, NEW w \in 0 .. MaxTime, WriteBan(a, w)
  PROVE  IInv'
<1>0. /\ ruling[a] # Null /\ ruling[a].op = "ban" /\ ruling[a].at = "read"
      /\ ~Locked(ruling[a].act.report)
      /\ UNCHANGED <<rows, s3, filing>>
      /\ ruling[a].act \in Action /\ ruling[a].removes \in SUBSET Messages
  BY RulingType DEF WriteBan, WaitsForRows, IInv
<1>1. CASE Finish(a)
  BY <1>0, <1>1, GivesUpKeeps
<1>2. CASE /\ \A x \in actions : x.report # ruling[a].act.report
           /\ ruling' = [ruling EXCEPT ![a].at = "written", ![a].act.createdAt = w]
  <2> DEFINE x == [ruling[a].act EXCEPT !.createdAt = w]
             t == [ruling[a] EXCEPT !.at = "written", !.act.createdAt = w]
  <2>1. w \in Nat /\ w <= MaxTime
    BY ModerationAssumption
  <2>2. x \in Action /\ x.report = ruling[a].act.report /\ x.createdAt <= MaxTime
    BY <1>0, <2>1 DEF Action
  <2>3. t \in Ruling /\ t.op = "ban" /\ t.at = "written" /\ t.act = x
    <3>1. ruling[a] \in [op : {"ban"}, at : {"read", "written"}, act : Action, removes : SUBSET Messages]
      BY <1>0, RulingType DEF IInv
    <3> QED
      BY <2>2, <3>1 DEF Ruling
  <2>4. ruling' = [ruling EXCEPT ![a] = t]
    BY <1>2
  <2> HIDE DEF x, t
  <2>5. /\ ruling' \in [Admins -> Ruling \cup {Null}] /\ ruling'[a] = t
        /\ \A b \in Admins : b # a => ruling'[b] = ruling[b]
    BY <2>3, <2>4, RulingSet DEF IInv
  <2>6. UNCHANGED <<report, actions, exists, removed, media, files, images, lost, filing>>
    BY <1>0 DEF rows, s3
  <2>7. TypeOK'
    BY <2>5, <2>6 DEF IInv, TypeOK
  <2>8. FilingsSound' /\ EvidenceStands' /\ NoStrayImages' /\ ActsSound' /\ ActedOnce'
    BY <2>6, FilingsKept DEF StatusOnly, IInv, ActsSound, ActedOnce
  <2>9. t # Null
    BY <2>3, ModerationAssumption
  <2>10. /\ report[x.report] # Null
         /\ \A b \in Admins : Writing(b) => ruling[b].act.report # x.report
         /\ \A y \in actions : y.report # x.report
    BY <1>0, <1>2, <2>2 DEF IInv, RulingsSound, RulingSound, Locked
  <2>11. RulingsSound'
    <3> SUFFICES ASSUME NEW b \in Admins
                 PROVE  RulingSound(ruling[b])' /\ FirstAct(b)'
      BY DEF RulingsSound
    <3>1. RulingSound(ruling[b])'
      <4>1. CASE b = a
        BY <2>2, <2>3, <2>5, <2>6, <2>10, <4>1 DEF RulingSound
      <4>2. CASE b # a
        BY <2>5, <2>6, <4>2 DEF IInv, RulingsSound, RulingSound
      <4> QED
        BY <4>1, <4>2
    <3>2. FirstAct(b)'
      <4>1. Writing(a)' /\ \A c \in Admins : c # a => (Writing(c)' <=> Writing(c))
        BY <2>3, <2>5, <2>9 DEF Writing
      <4>2. CASE b = a
        <5>1. ASSUME NEW c \in Admins, Writing(c)', ruling'[c].act.report = x.report
              PROVE  c = a
          BY <2>5, <2>10, <4>1, <5>1
        <5> QED
          BY <2>3, <2>5, <2>6, <2>10, <4>2, <5>1 DEF FirstAct
      <4>3. CASE b # a
        BY <2>3, <2>5, <2>6, <2>10, <4>1, <4>3 DEF IInv, RulingsSound, FirstAct
      <4> QED
        BY <4>2, <4>3
    <3> QED
      BY <3>1, <3>2
  <2> QED
    BY <2>7, <2>8, <2>11 DEF IInv
<1> QED
  BY <1>1, <1>2 DEF WriteBan

\* The commit: the one new action is of a report that had none.
LEMMA CommitKeeps ==
  ASSUME IInv, NEW a \in Admins, CommitBan(a)
  PROVE  IInv' /\ ReportsStay /\ ruling[a].act \notin actions
<1>0. /\ ruling[a] # Null /\ ruling[a].op = "ban" /\ ruling[a].at = "written" /\ Writing(a)
      /\ actions' = actions \cup {ruling[a].act}
      /\ report' = [report EXCEPT ![ruling[a].act.report].status = "CLOSED"]
      /\ removed' = removed \cup (ruling[a].removes \cap exists)
      /\ media' = media \ ruling[a].removes
      /\ UNCHANGED <<exists, files, images, lost, filing>>
      /\ ruling' = [ruling EXCEPT ![a] = Null]
  BY DEF CommitBan, Writing, StatusAfter, Finish, s3
<1>1. PICK x \in Action : x = ruling[a].act
  BY <1>0, RulingType DEF IInv
<1>2. /\ x.report \in Reports /\ report[x.report] # Null /\ x.createdAt <= MaxTime
      /\ \A y \in actions : y.report # x.report
      /\ \A b \in Admins : Writing(b) /\ b # a => ruling[b].act.report # x.report
  BY <1>0, <1>1 DEF IInv, RulingsSound, RulingSound, FirstAct, Action
<1>3. report' \in [Reports -> Report \cup {Null}] /\ StatusOnly /\ ReportsStay
  BY <1>0, <1>1, <1>2, StatusSet DEF IInv, Statuses
<1>4. FilingsSound' /\ EvidenceStands' /\ NoStrayImages'
  BY <1>0, <1>3, FilingsKept
<1>5. /\ ruling' \in [Admins -> Ruling \cup {Null}] /\ ruling'[a] = Null
      /\ \A b \in Admins : b # a => ruling'[b] = ruling[b]
  BY <1>0, RulingSet DEF IInv
<1>6. TypeOK'
  BY <1>0, <1>1, <1>3, <1>5 DEF IInv, TypeOK
<1>7. ActsSound' /\ ActedOnce'
  <2>1. \A y \in actions : y.report \in Reports /\ report[y.report] # Null /\ y.createdAt <= MaxTime
    BY DEF IInv, TypeOK, Action, ActsSound
  <2>2. ActsSound'
    BY <1>0, <1>1, <1>2, <1>3, <2>1 DEF ActsSound, ReportsStay
  <2>3. ActedOnce'
    BY <1>0, <1>1, <1>2 DEF IInv, ActedOnce
  <2> QED
    BY <2>2, <2>3
<1>8. RulingsSound'
  <2> SUFFICES ASSUME NEW b \in Admins
               PROVE  RulingSound(ruling[b])' /\ FirstAct(b)'
    BY DEF RulingsSound
  <2>1. CASE b = a
    BY <1>5, <2>1 DEF RulingSound, FirstAct, Writing
  <2>2. CASE b # a
    <3>1. ruling'[b] = ruling[b] /\ RulingSound(ruling[b]) /\ FirstAct(b)
      BY <1>5, <2>2 DEF IInv, RulingsSound
    <3>2. RulingSound(ruling[b])'
      <4>1. ruling[b] # Null =>
              /\ ruling[b].op = "status" => ruling[b].report \in Reports
              /\ ruling[b].op = "ban" => ruling[b].act.report \in Reports
        BY RulingType DEF IInv, Action
      <4> QED
        BY <1>3, <3>1, <4>1 DEF RulingSound, ReportsStay
    <3>3. FirstAct(b)'
      <4>1. \A c \in Admins : Writing(c)' => c # a /\ Writing(c)
        BY <1>5 DEF Writing
      <4>2. Writing(b)' => Writing(b) /\ ruling'[b].act.report # x.report
        BY <1>2, <2>2, <3>1, <4>1
      <4> QED
        BY <1>0, <1>1, <1>5, <3>1, <4>1, <4>2 DEF FirstAct
    <3> QED
      BY <3>2, <3>3
  <2> QED
    BY <2>1, <2>2
<1> QED
  BY <1>1, <1>2, <1>3, <1>4, <1>6, <1>7, <1>8 DEF IInv

\* The end of a temporary ban replaces its action by one of the same report.
LEMMA ElapsesKeeps ==
  ASSUME IInv, NEW x \in actions, BanElapses(x)
  PROVE  IInv'
<1>0. /\ actions' = (actions \ {x}) \cup {[x EXCEPT !.over = TRUE]}
      /\ UNCHANGED <<report, exists, removed, media, files, images, lost, filing, ruling>>
  BY DEF BanElapses, s3
<1> DEFINE y == [x EXCEPT !.over = TRUE]
<1>1. y \in Action /\ y.report = x.report /\ y.createdAt = x.createdAt
  BY DEF IInv, TypeOK, Action
<1>2. actions' = (actions \ {x}) \cup {y}
  BY <1>0
<1> HIDE DEF y
<1>3. TypeOK'
  BY <1>0, <1>1, <1>2 DEF IInv, TypeOK
<1>4. FilingsSound' /\ EvidenceStands' /\ NoStrayImages'
  BY <1>0, FilingsKept DEF StatusOnly
<1>5. ActsSound' /\ ActedOnce'
  BY <1>0, <1>1, <1>2 DEF IInv, ActsSound, ActedOnce
<1>6. RulingsSound'
  BY <1>0, <1>1, <1>2 DEF IInv, RulingsSound, RulingSound, FirstAct, Writing
<1> QED
  BY <1>3, <1>4, <1>5, <1>6 DEF IInv

-----------------------------------------------------------------------------
LEMMA InitInv == Init => IInv
<1> SUFFICES ASSUME Init
             PROVE  IInv
  OBVIOUS
<1>1. TypeOK
  BY ModerationAssumption DEF Init, TypeOK
<1> QED
  BY <1>1 DEF Init, IInv, FilingsSound, Filings, EvidenceStands, NoStrayImages, RulingsSound,
     RulingSound, FirstAct, Writing, ActsSound, ActedOnce

LEMMA InvStep == IInv /\ [Next]_vars => IInv'
<1> SUFFICES ASSUME IInv, [Next]_vars
             PROVE  IInv'
  OBVIOUS
<1>1. CASE UNCHANGED vars
  <2>1. UNCHANGED <<report, actions, exists, removed, media, files, images, lost, filing, ruling>>
    BY <1>1 DEF vars, rows, s3
  <2>2. TypeOK' /\ FilingsSound' /\ EvidenceStands' /\ NoStrayImages'
    BY <2>1, FilingsKept DEF IInv, TypeOK, StatusOnly
  <2> QED
    BY <2>1, <2>2, RulingsKept DEF ReportsStay, IInv
<1>2. CASE Request
  BY <1>2, FileKeeps, ReadsKeep DEF Request
<1>3. ASSUME NEW d \in Devices, FilingStep(d)
      PROVE  IInv'
  BY <1>3, UploadKeeps, EvidenceKeeps, FailKeeps, RollbackKeeps, CreatedKeeps DEF FilingStep
<1>4. ASSUME NEW a \in Admins, RulingStep(a)
      PROVE  IInv'
  BY <1>4, StatusKeeps, WriteBanKeeps, CommitKeeps, GivesUpKeeps DEF RulingStep, RulingFails
<1> QED
  BY <1>1, <1>2, <1>3, <1>4, DeathKeeps, ElapsesKeeps, DeleteKeeps DEF Next

LEMMA Invariant == Spec => []IInv
BY InitInv, InvStep, PTL DEF Spec

\* What a step may do to reports, actions and hidden messages: only a commit adds an
\* action or hides a message, and only time replaces one.
LEMMA StepsOnRows ==
  ASSUME IInv, Next
  PROVE  /\ ReportsStay
         /\ \/ UNCHANGED <<actions, removed>>
            \/ \E a \in Admins : CommitBan(a)
            \/ removed' = removed /\ \E x \in actions : BanElapses(x)
<1>1. CASE Request
  BY <1>1 DEF Request, FileReport, ReadForStatus, ReadForBan, rows, ReportsStay
<1>2. ASSUME NEW d \in Devices, FilingStep(d)
      PROVE  ReportsStay /\ UNCHANGED <<actions, removed>>
  <2>1. CASE ReportCreated(d)
    <3>1. report[filing[d].report] = Null
      BY <2>1 DEF ReportCreated, IInv, FilingsSound, Filings
    <3> QED
      BY <2>1, <3>1 DEF ReportCreated, ReportsStay, IInv, TypeOK
  <2>2. CASE ~ReportCreated(d)
    BY <1>2, <2>2 DEF FilingStep, UploadReportImage, AddEvidence, FilingFails,
       RollbackUploadedFiles, rows, ReportsStay
  <2> QED
    BY <2>1, <2>2
<1>3. ASSUME NEW a \in Admins, RulingStep(a)
      PROVE  ReportsStay /\ (UNCHANGED <<actions, removed>> \/ CommitBan(a))
  <2>1. CASE UpdateViolationReportStatus(a)
    BY <2>1, StatusKeeps DEF UpdateViolationReportStatus
  <2>2. CASE CommitBan(a)
    BY <2>2, CommitKeeps
  <2>3. CASE (\E t \in 0 .. MaxTime : WriteBan(a, t)) \/ RulingFails(a)
    BY <2>3 DEF WriteBan, RulingFails, rows, ReportsStay
  <2> QED
    BY <1>3, <2>1, <2>2, <2>3 DEF RulingStep
<1>4. ASSUME NEW x \in actions, BanElapses(x)
      PROVE  ReportsStay /\ removed' = removed
  BY <1>4 DEF BanElapses, ReportsStay
<1>5. ASSUME NEW m \in Messages, DeleteMessage(m)
      PROVE  ReportsStay /\ UNCHANGED <<actions, removed>>
  BY <1>5 DEF DeleteMessage, ReportsStay
<1>6. CASE ServiceDies
  BY <1>6 DEF ServiceDies, rows, ReportsStay
<1> QED
  BY <1>1, <1>2, <1>3, <1>4, <1>5, <1>6 DEF Next

-----------------------------------------------------------------------------
(* The theorems.                                                            *)

\* The rows and the requests in flight keep their types; nobody acts on a report
\* that is not there.
THEOREM TypeCorrect == Spec => []TypeOK
BY Invariant, PTL DEF IInv

\* banReportedUser reads a pending report without a lock; the unique report_id and
\* the locks of the transaction leave a report one action all the same.
THEOREM OneActPerReport == Spec => []ActedOnce
BY Invariant, PTL DEF IInv

\* The messages a stored report cites exist and involve whom it accuses, whatever
\* deleteDirectChat did while createViolationReport ran.
THEOREM EvidenceOutlivesDeletes == Spec => []EvidenceStands
BY Invariant, PTL DEF IInv

\* Every uploaded image belongs to a report or to a filing that still runs.
THEOREM RollbacksLeaveNoImage == Spec => []NoStrayImages
BY Invariant, PTL DEF IInv

\* The transaction of banReportedUser hides messages with the action it adds, or
\* not at all.
THEOREM HidingTakesAnAct == Spec => HiddenWithAct
<1>1. IInv /\ [Next]_vars => [removed' # removed => \E x \in actions' : x \notin actions]_vars
  <2> SUFFICES ASSUME IInv, Next, removed' # removed
               PROVE  \E x \in actions' : x \notin actions
    BY DEF vars, rows
  <2>1. PICK a \in Admins : CommitBan(a)
    BY StepsOnRows
  <2> QED
    BY <2>1, CommitKeeps DEF CommitBan
<1> QED
  BY <1>1, Invariant, PTL DEF Spec, HiddenWithAct

\* checkUserBanStatus stops refusing a user only with an action that bans that user:
\* a new one no longer in force, or the old one with its end past.
THEOREM OnlyBansLiftBans == Spec => BansHold
<1>1. IInv /\ [Next]_vars =>
        [\A u \in Users : Banned(u) /\ ~Banned(u)' =>
           \E x \in actions' \ actions : x.type \in Bans /\ report[x.report].about = u]_vars
  <2> SUFFICES ASSUME IInv, Next, NEW u \in Users, Banned(u), ~Banned(u)'
               PROVE  \E x \in actions' \ actions : x.type \in Bans /\ report[x.report].about = u
    OBVIOUS
  <2>0. \A x \in actions : report'[x.report].about = report[x.report].about
    BY StepsOnRows DEF IInv, TypeOK, ActsSound, Action, ReportsStay
  <2>1. PICK x \in actions :
          /\ report[x.report].about = u /\ x.type \in Bans /\ ~x.over
          /\ \A y \in actions : report[y.report].about = u /\ y.type \in Bans
                                  => y.createdAt <= x.createdAt
    BY DEF Banned
  <2>2. CASE UNCHANGED actions
    BY <2>0, <2>1, <2>2 DEF Banned
  <2>3. ASSUME NEW a \in Admins, CommitBan(a)
        PROVE  \E y \in actions' \ actions : y.type \in Bans /\ report[y.report].about = u
    <3>1. PICK z \in Action : z = ruling[a].act
      BY <2>3, RulingType DEF CommitBan, Writing, IInv
    <3>2. actions' = actions \cup {z} /\ z \notin actions
      BY <2>3, <3>1, CommitKeeps DEF CommitBan
    <3>3. report[z.report] # Null /\ z.report \in Reports
      BY <2>3, <3>1 DEF CommitBan, Writing, IInv, RulingsSound, RulingSound, Action
    <3>4. report'[z.report].about = report[z.report].about
      BY <3>3, StepsOnRows DEF ReportsStay
    <3>5. CASE z.type \in Bans /\ report[z.report].about = u
      BY <3>2, <3>5
    <3>6. CASE ~(z.type \in Bans /\ report[z.report].about = u)
      BY <2>0, <2>1, <3>2, <3>4, <3>6 DEF Banned
    <3> QED
      BY <3>5, <3>6
  <2>4. ASSUME NEW z \in actions, BanElapses(z)
        PROVE  \E y \in actions' \ actions : y.type \in Bans /\ report[y.report].about = u
    <3> DEFINE w == [z EXCEPT !.over = TRUE]
    <3>1. z \in Action /\ ~z.over /\ z.type \in Bans
      BY <2>4 DEF BanElapses, IInv, TypeOK, Bans
    <3>2. w.report = z.report /\ w.type = z.type /\ w.over = TRUE /\ w # z
      BY <3>1 DEF Action
    <3>3. actions' = (actions \ {z}) \cup {w}
      BY <2>4 DEF BanElapses
    <3> HIDE DEF w
    <3>4. w \notin actions
      BY <3>2 DEF IInv, ActedOnce
    <3>5. CASE report[z.report].about = u
      BY <3>1, <3>2, <3>3, <3>4, <3>5
    <3>6. CASE report[z.report].about # u
      <4>1. x # z /\ report'[w.report].about # u
        BY <2>0, <2>1, <3>2, <3>6
      <4>2. x \in actions' /\ \A y \in actions' : y \in actions \/ y = w
        BY <3>3, <4>1
      <4> QED
        BY <2>0, <2>1, <4>1, <4>2 DEF Banned
    <3> QED
      BY <3>5, <3>6
  <2> QED
    BY <2>2, <2>3, <2>4, StepsOnRows
<1> QED
  BY <1>1, Invariant, PTL DEF Spec, BansHold
=============================================================================
