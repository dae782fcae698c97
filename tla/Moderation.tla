----------------------------- MODULE Moderation -----------------------------
(***************************************************************************)
(* Violation reports: users file them with evidence (user-auth-service,      *)
(* user-report.service.ts), administrators dismiss them or act on them       *)
(* (admin-service, admin.service.ts), and a login looks the acts up          *)
(* (auth.service.ts checkUserBanStatus).                                     *)
(*                                                                          *)
(* `filing` and `ruling` hold the requests in flight.  A transaction shows   *)
(* nothing to others before it commits; until then the rows it wrote are     *)
(* locked.  S3 knows no transaction.  All deletes reach S3, except those of  *)
(* the admin-service: its client awaits an Observable nobody subscribes to   *)
(* (upload.service.ts:9), so they are never sent.                            *)
(***************************************************************************)
EXTENDS Naturals, FiniteSets

CONSTANTS
  Users,        \* user ids
  Reports,      \* the ids violation_reports may give
  Messages,     \* messages that may be evidence
  Pairs,        \* who may report whom: a reporter, then the reported user
  Involves,     \* Involves[m]: author and recipient of m
  Media,        \* the messages that were sent with a media file
  Devices,      \* slots for concurrent createViolationReport requests
  Admins,       \* slots for concurrent requests of administrators
  MaxEvidence,  \* bound on the messages of one report
  MaxTime,      \* the latest of the times acts may be written at
  Null          \* no row, no request

VARIABLES
  report,   \* report[r]: the committed row of violation_reports, or Null
  actions,  \* committed rows of violation_actions
  exists,   \* rows now in messages
  removed,  \* messages marked isDeleted and isViolated
  media,    \* messages whose row refers to a message_medias row
  files,    \* messages whose media file is in S3
  images,   \* reports whose uploaded image is in S3
  lost,     \* history: those of them whose request died before it knew its URL,
            \* or with the process
  filing,   \* filing[d]: the createViolationReport in slot d, or Null
  ruling    \* ruling[a]: the request in slot a, or Null

rows == <<report, actions, exists, removed, media>>
s3 == <<files, images, lost>>
vars == <<rows, s3, filing, ruling>>

ActionTypes == {"WARNING", "TEMPORARY_BAN", "PERMANENT_BAN"}
Bans == {"TEMPORARY_BAN", "PERMANENT_BAN"}
\* CLOSED stands for RESOLVED and DISMISSED: no code tells them apart.
Statuses == {"PENDING", "CLOSED"}

Report == [by : Users, about : Users, status : Statuses, evidence : SUBSET Messages]
\* over: bannedUntil is past, or the ban was given no end at all.
Action == [report : Reports, type : ActionTypes, over : BOOLEAN, createdAt : Nat]
\* An image is "sent" when S3 has it and "listed" when its URL came back; one stands
\* for all.  urls: the messages whose media files are in uploadedMediaUrls.
Filing == [by : Users, about : Users, report : Reports,
           image : {"none", "wanted", "sent", "listed"}, urls : SUBSET Media,
           todo : SUBSET Messages, done : SUBSET Messages, failed : BOOLEAN]
Ruling == [op : {"ban"}, at : {"read", "written"}, act : Action, removes : SUBSET Messages]
          \cup [op : {"status"}, report : Reports, status : Statuses]

ASSUME ModerationAssumption ==
  /\ Involves \in [Messages -> SUBSET Users]
  /\ Pairs \subseteq Users \X Users
  /\ Media \subseteq Messages
  /\ MaxEvidence \in Nat /\ MaxTime \in Nat
  /\ Null \notin Report \cup Filing \cup Ruling

TypeOK ==
  /\ report \in [Reports -> Report \cup {Null}]
  /\ actions \subseteq Action
  /\ exists \in SUBSET Messages /\ removed \in SUBSET Messages
  /\ media \in SUBSET Messages /\ files \in SUBSET Messages
  /\ images \in SUBSET Reports /\ lost \in SUBSET Reports
  /\ filing \in [Devices -> Filing \cup {Null}]
  /\ ruling \in [Admins -> Ruling \cup {Null}]

Init ==
  /\ report = [r \in Reports |-> Null]
  /\ actions = {}
  /\ exists = Messages /\ removed = {}
  /\ media = Media /\ files = Media
  /\ images = {} /\ lost = {}
  /\ filing = [d \in Devices |-> Null]
  /\ ruling = [a \in Admins |-> Null]

-----------------------------------------------------------------------------
(* Filing a report: createViolationReport.                                  *)

Filings == {d \in Devices : filing[d] # Null}

\* The checks pass and the transaction inserts the report.  A like report of
\* the last seconds refuses; two requests at once escape that, so it is left out.
FileReport(d, u, v, S, img, r) ==
  /\ filing[d] = Null /\ u # v
  /\ report[r] = Null /\ r \notin lost /\ \A e \in Filings : filing[e].report # r
  /\ Cardinality(S) <= MaxEvidence
  /\ filing' = [filing EXCEPT ![d] = [by |-> u, about |-> v, report |-> r, image |-> img,
                                      urls |-> {}, todo |-> S, done |-> {}, failed |-> FALSE]]
  /\ UNCHANGED <<rows, s3, ruling>>

\* S3 stores the image, then the reply brings its URL, if it comes at all.
UploadReportImage(d) ==
  /\ filing[d] # Null /\ ~filing[d].failed
  /\ \/ /\ filing[d].image = "wanted"
        /\ filing' = [filing EXCEPT ![d].image = "sent"]
        /\ images' = images \cup {filing[d].report}
     \/ /\ filing[d].image = "sent"
        /\ filing' = [filing EXCEPT ![d].image = "listed"]
        /\ UNCHANGED images
  /\ UNCHANGED <<rows, files, lost, ruling>>

ImageDone(d) == filing[d].image \in {"none", "listed"}

\* One reported message: found, of the reported user, and inserted, which may fail.
\* By then the URL the client sent with it, of this or of any media message, is in
\* uploadedMediaUrls.  Left out is a path on the disk of the server instead of a URL.
AddEvidence(d, m, named) ==
  /\ filing[d] # Null /\ ~filing[d].failed /\ ImageDone(d)
  /\ m \in filing[d].todo
  /\ m \in exists /\ filing[d].about \in Involves[m]
  /\ \/ filing' = [filing EXCEPT ![d].todo = @ \ {m}, ![d].done = @ \cup {m}, ![d].urls = @ \cup named]
     \/ filing' = [filing EXCEPT ![d].urls = @ \cup named, ![d].failed = TRUE]
  /\ UNCHANGED <<rows, s3, ruling>>

\* Anything may throw: an upload, a message that is not found, a statement,
\* the five seconds Prisma gives a transaction.
FilingFails(d) ==
  /\ filing[d] # Null /\ ~filing[d].failed
  /\ filing' = [filing EXCEPT ![d].failed = TRUE]
  /\ UNCHANGED <<rows, s3, ruling>>

\* Slip: only the media is rolled back, not the images.
RollbackMediaOnly(d) ==
  /\ filing[d] # Null /\ filing[d].failed
  /\ files' = files \ filing[d].urls
  /\ filing' = [filing EXCEPT ![d] = Null]
  /\ UNCHANGED <<rows, images, lost, ruling>>

\* rollbackUploadedFiles deletes every URL collected, as fresh uploads; an image
\* whose URL never came is not among them.
RollbackUploadedFiles(d) ==
  /\ filing[d] # Null /\ filing[d].failed
  /\ files' = files \ filing[d].urls
  /\ IF filing[d].image = "sent"
       THEN lost' = lost \cup {filing[d].report} /\ UNCHANGED images
       ELSE images' = images \ {filing[d].report} /\ UNCHANGED lost
  /\ filing' = [filing EXCEPT ![d] = Null]
  /\ UNCHANGED <<rows, ruling>>

\* The user-auth-service ends: the transactions are undone, S3 keeps what it has.
ServiceDies ==
  /\ Filings # {}
  /\ lost' = lost \cup (images \cap {filing[d].report : d \in Filings})
  /\ filing' = [d \in Devices |-> Null]
  /\ UNCHANGED <<rows, files, images, ruling>>

ReportCreated(d) ==
  /\ filing[d] # Null /\ ~filing[d].failed
  /\ filing[d].todo = {} /\ ImageDone(d)
  /\ report' = [report EXCEPT ![filing[d].report] =
                  [by |-> filing[d].by, about |-> filing[d].about, status |-> "PENDING",
                   evidence |-> filing[d].done]]
  /\ filing' = [filing EXCEPT ![d] = Null]
  /\ UNCHANGED <<actions, exists, removed, media, s3, ruling>>

-----------------------------------------------------------------------------
(* Ruling on a report.                                                      *)

Writing(a) == ruling[a] # Null /\ ruling[a].op = "ban" /\ ruling[a].at = "written"
Locked(r) == \E a \in Admins : Writing(a) /\ ruling[a].act.report = r
LockedMessages == UNION {ruling[a].removes : a \in {b \in Admins : Writing(b)}}

Finish(a) == ruling' = [ruling EXCEPT ![a] = Null]

\* updateViolationReportStatus reads the report.
ReadForStatus(a, r, s) ==
  /\ ruling[a] = Null
  /\ report[r] # Null /\ report[r].status = "PENDING"
  /\ ruling' = [ruling EXCEPT ![a] = [op |-> "status", report |-> r, status |-> s]]
  /\ UNCHANGED <<rows, s3, filing>>

\* Its update, which waits for the row and does not look at the status again.
UpdateViolationReportStatus(a) ==
  /\ ruling[a] # Null /\ ruling[a].op = "status" /\ ~Locked(ruling[a].report)
  /\ report' = [report EXCEPT ![ruling[a].report].status = ruling[a].status]
  /\ Finish(a)
  /\ UNCHANGED <<actions, exists, removed, media, s3, filing>>

\* banReportedUser begins its transaction and reads the report.  The messages to
\* hide are the caller's choice, evidence or not.
ReadForBan(a, r, type, over, S) ==
  /\ ruling[a] = Null
  /\ report[r] # Null /\ report[r].status = "PENDING"
  /\ over => type = "TEMPORARY_BAN"
  /\ ruling' = [ruling EXCEPT ![a] =
                  [op |-> "ban", at |-> "read", removes |-> S,
                   act |-> [report |-> r, type |-> type, over |-> over, createdAt |-> 0]]]
  /\ UNCHANGED <<rows, s3, filing>>

WaitsForRows(a) ==
  \/ Locked(ruling[a].act.report)
  \/ LockedMessages \cap ruling[a].removes # {}

\* Slip: report_id is not unique in violation_actions.
WriteBanTwice(a, t) ==
  /\ ruling[a] # Null /\ ruling[a].op = "ban" /\ ruling[a].at = "read"
  /\ ~WaitsForRows(a)
  /\ ruling' = [ruling EXCEPT ![a].at = "written", ![a].act.createdAt = t]
  /\ UNCHANGED <<rows, s3, filing>>

\* Slip: the messages are hidden outside the transaction.
WriteBanHidingNow(a, t) ==
  /\ ruling[a] # Null /\ ruling[a].op = "ban" /\ ruling[a].at = "read"
  /\ ~WaitsForRows(a)
  /\ removed' = removed \cup (ruling[a].removes \cap exists)
  /\ IF \E x \in actions : x.report = ruling[a].act.report
       THEN Finish(a)
       ELSE ruling' = [ruling EXCEPT ![a].at = "written", ![a].act.createdAt = t]
  /\ UNCHANGED <<report, actions, exists, media, s3, filing>>

\* It inserts the action and updates the report and the messages: the unique
\* report_id waits for a rival transaction and refuses a second action.
\* t is what the clock says then: no order of the actions follows from it.
WriteBan(a, t) ==
  /\ ruling[a] # Null /\ ruling[a].op = "ban" /\ ruling[a].at = "read"
  /\ ~WaitsForRows(a)
  /\ IF \E x \in actions : x.report = ruling[a].act.report
       THEN Finish(a)
       ELSE ruling' = [ruling EXCEPT ![a].at = "written", ![a].act.createdAt = t]
  /\ UNCHANGED <<rows, s3, filing>>

\* Slip: the report takes over the type of the action.
TypeOfAction(x) == x.type

StatusAfter(x) == "CLOSED"

CommitBan(a) ==
  /\ Writing(a)
  /\ actions' = actions \cup {ruling[a].act}
  /\ report' = [report EXCEPT ![ruling[a].act.report].status = StatusAfter(ruling[a].act)]
  /\ removed' = removed \cup (ruling[a].removes \cap exists)
  /\ media' = media \ ruling[a].removes
  /\ Finish(a)
  /\ UNCHANGED <<exists, s3, filing>>

\* A statement fails or the transaction takes longer than it may.
RulingFails(a) ==
  /\ ruling[a] # Null
  /\ Finish(a)
  /\ UNCHANGED <<rows, s3, filing>>

BanElapses(x) ==
  /\ x \in actions /\ x.type = "TEMPORARY_BAN" /\ ~x.over
  /\ actions' = (actions \ {x}) \cup {[x EXCEPT !.over = TRUE]}
  /\ UNCHANGED <<report, exists, removed, media, s3, filing, ruling>>

-----------------------------------------------------------------------------
(* Slip: the latest action of any type decides. *)
BannedByAny(u) ==
  \E x \in actions :
    /\ report[x.report].about = u /\ x.type \in Bans
    /\ \A y \in actions : report[y.report].about = u => y.createdAt <= x.createdAt
    /\ ~x.over

\* checkUserBanStatus: the latest ban of the user decides.
Banned(u) ==
  \E x \in actions :
    /\ report[x.report].about = u /\ x.type \in Bans
    /\ \A y \in actions : report[y.report].about = u /\ y.type \in Bans
                            => y.createdAt <= x.createdAt
    /\ ~x.over

\* Slip: nothing holds the message a report refers to.
DeleteReportedMessage(m) ==
  /\ m \in exists
  /\ exists' = exists \ {m}
  /\ media' = media \ {m}
  /\ UNCHANGED <<report, actions, removed, s3, filing, ruling>>

\* deleteDirectChat deletes m, unless reported_messages refers to it: the
\* foreign key makes that transaction wait, then fail.
DeleteMessage(m) ==
  /\ m \in exists \ LockedMessages
  /\ \A r \in Reports : report[r] # Null => m \notin report[r].evidence
  /\ \A d \in Filings : m \notin filing[d].done \/ filing[d].failed
  /\ exists' = exists \ {m}
  /\ media' = media \ {m}
  /\ UNCHANGED <<report, actions, removed, s3, filing, ruling>>

-----------------------------------------------------------------------------
FilingStep(d) ==
  \/ UploadReportImage(d)
  \/ \E m \in Messages, named \in {{}} \cup {{x} : x \in Media} : AddEvidence(d, m, named)
  \/ FilingFails(d)
  \/ RollbackUploadedFiles(d)
  \/ ReportCreated(d)

RulingStep(a) ==
  \/ UpdateViolationReportStatus(a)
  \/ \E t \in 0 .. MaxTime : WriteBan(a, t)
  \/ CommitBan(a)
  \/ RulingFails(a)

Request ==
  \/ \E d \in Devices, p \in Pairs, S \in SUBSET Messages, r \in Reports :
       \E img \in {"none", "wanted"} : FileReport(d, p[1], p[2], S, img, r)
  \/ \E a \in Admins, r \in Reports :
       \/ \E s \in Statuses : ReadForStatus(a, r, s)
       \/ \E type \in ActionTypes, over \in BOOLEAN, S \in SUBSET Messages :
            ReadForBan(a, r, type, over, S)

Next ==
  \/ Request
  \/ ServiceDies
  \/ \E d \in Devices : FilingStep(d)
  \/ \E a \in Admins : RulingStep(a)
  \/ \E x \in actions : BanElapses(x)
  \/ \E m \in Messages : DeleteMessage(m)

Spec == Init /\ [][Next]_vars

-----------------------------------------------------------------------------
(* Properties.                                                              *)

\* Two administrators who act on one report at once never both succeed: a
\* report has one action, although neither sees the other's before writing.
ActedOnce ==
  \A x, y \in actions : x.report = y.report => x = y

\* A user is freed only by time or by a later ban that is not in force:
\* neither a warning nor a dismissed report lifts a ban.
BansHold ==
  [][\A u \in Users : Banned(u) /\ ~Banned(u)' =>
       \E x \in actions' \ actions : x.type \in Bans /\ report[x.report].about = u]_vars

\* What a stored report accuses somebody of is there and is theirs, whatever
\* was deleted or failed while it was filed.
EvidenceStands ==
  \A r \in Reports : report[r] # Null =>
    \A m \in report[r].evidence : m \in exists /\ report[r].about \in Involves[m]

\* Messages are hidden only in the step that makes an act count: a ban that
\* fails, or loses to another on the same report, hides nothing.
HiddenWithAct ==
  [][removed' # removed => \E x \in actions' : x \notin actions]_vars

\* A failed report leaves no image behind, whichever of its steps failed: each
\* belongs to a report or to a filing that still runs, unless the reply with its
\* URL, or the process, was lost.
NoStrayImages ==
  \A r \in images \ lost : report[r] # Null \/ \E d \in Filings : filing[d].report = r

-----------------------------------------------------------------------------
(* What the source says, and the code does not do.                          *)

\* "Rolling back uploaded files" (user-report.service.ts:359): a rollback
\* undoes uploads, it never takes the file of a message that is still shown.
ShownMediaHasFile == \A m \in media : m \in files
=============================================================================
