------------------------------- MODULE Differ -------------------------------
(***************************************************************************)
(* The notification jobs: one per deployed target (two CronJobs, one that  *)
(* writes to the Kafka topic of the notification backend and one that      *)
(* calls Service Log), both working on the same notification database      *)
(* while the writer stores new reports and customers disable and enable    *)
(* rules in the aggregator database.                                       *)
(*                                                                         *)
(* A run is Differ.start and what Run does before it, cut where it touches *)
(* something shared: every read or write of a table and every message is a *)
(* step, and between two steps anything else may happen, the end of the    *)
(* process included.                                                       *)
(***************************************************************************)
EXTENDS NotificationDB, FiniteSets

CONSTANTS
  Deployed,             \* the targets that have a CronJob
  Important,            \* per target: the issues its filters let through
  CleanupOnStartup,     \* command line flags of the jobs
  IgnoreDisabledRules,
  NoWork,               \* the job is between two clusters
  (* What the environment does in the model. *)
  Uploads,              \* the reports the writer may store
  MayToggle, MayAck,    \* the rules customers may disable
  BrokenStreams,        \* a result set may end early without an error
  MaxTime,              \* bound: the clock stops there
  MaxReports,           \* bound: rows of new_reports at a time
  MaxReadErrors         \* bound: rows of read_errors at a time

\* What a run holds while it handles one cluster.  `outcome` is the state the
\* record will be written with; `stored` is the report without disabled rules.
Work ==
  [entry : Entry, updated_at : Nat, stored : Report, pending : Report,
   notified_at : Nat, outcome : State]

\* What it holds between the check for a read error and its insert.  `checked`
\* says that the check was answered.
FailedRead == [entry : Entry, updated_at : Nat, checked : BOOLEAN]

ASSUME DeployedAssumption == Deployed \subseteq Target
ASSUME ImportantAssumption == Important \in [Target -> SUBSET Issue]
ASSUME FlagsAssumption ==
  /\ CleanupOnStartup \in BOOLEAN
  /\ IgnoreDisabledRules \in BOOLEAN
  /\ BrokenStreams \in BOOLEAN
ASSUME EnvironmentAssumption ==
  /\ Uploads \subseteq {Malformed} \union Report
  /\ MayToggle \subseteq ClusterRuleKey
  /\ MayAck \subseteq OrgRuleKey
ASSUME BoundsAssumption ==
  /\ MaxTime \in Nat
  /\ MaxReports \in Nat
  /\ MaxReadErrors \in Nat

VARIABLES
  now,         \* the clock
  newReports, reported, readErrors,   \* tables of the notification database
  toggles, acks,                      \* tables of the aggregator database
  pc,          \* per target: what its job does next
  lastRun,     \* per target: when its last run ended
  disabled,    \* per target: ClusterDisabledRules and OrgDisabledRules
  todo,        \* per target: the clusters still to be processed
  previous,    \* per target: PreviouslyReported
  current,     \* per target: the cluster in hand
  delivered,   \* history: every issue that reached a customer
  standing     \* history, per target: the toggles and acks that have been there
               \* since its run started

vars == <<now, newReports, reported, readErrors, toggles, acks, pc, lastRun,
          disabled, todo, previous, current, delivered, standing>>

external == <<toggles, acks>>
tables == <<newReports, reported, readErrors>>
memory == <<disabled, todo, previous, current>>

Phase == {"idle", "cleanNewReports", "cleanReported", "readToggles",
          "readAcks", "readClusterList", "readPrevious", "process",
          "writeReadError", "send", "record"}

Delivery == [target : Target, entry : Entry, issue : Issue, notified_at : Nat]

DisabledRules == [toggles : SUBSET ClusterRuleKey, acks : SUBSET OrgRuleKey]

NoneDisabled == [toggles |-> {}, acks |-> {}]

Init ==
  /\ now = 1
  /\ newReports = {}
  /\ reported = {}
  /\ readErrors = {}
  /\ toggles = {}
  /\ acks = {}
  /\ pc = [t \in Target |-> "idle"]
  /\ lastRun = [t \in Target |-> 0]
  /\ disabled = [t \in Target |-> NoneDisabled]
  /\ todo = [t \in Target |-> {}]
  /\ previous = [t \in Target |-> {}]
  /\ current = [t \in Target |-> NoWork]
  /\ delivered = {}
  /\ standing = [t \in Target |-> NoneDisabled]

-----------------------------------------------------------------------------
(***************************************************************************)
(* The environment: the clock, the notification writer, the customers.     *)
(***************************************************************************)

Tick ==
  /\ now < MaxTime
  /\ now' = now + 1
  /\ UNCHANGED <<tables, external, pc, lastRun, memory, delivered, standing>>

\* The writer inserts the report of a cluster, at most one per cluster and tick
\* (updated_at is part of the primary key).  Assumption: reports of a cluster come
\* in the order of updated_at, which the writer stamps.
InsertReport(entry, report) ==
  /\ Cardinality(newReports) < MaxReports
  /\ \A r \in newReports :
       r.entry.cluster = entry.cluster => r.updated_at # now
  /\ newReports' = newReports \union
       {[entry |-> entry, updated_at |-> now, report |-> report]}
  /\ UNCHANGED <<now, reported, readErrors, external, pc, lastRun, memory,
                 delivered, standing>>

CustomerDisablesRule ==
  /\ \/ /\ \E k \in MayToggle : toggles' = toggles \union {k}
        /\ UNCHANGED acks
     \/ /\ \E k \in MayAck : acks' = acks \union {k}
        /\ UNCHANGED toggles
  /\ UNCHANGED <<now, tables, pc, lastRun, memory, delivered, standing>>

CustomerEnablesRule ==
  /\ \/ /\ \E k \in toggles : toggles' = toggles \ {k}
        /\ UNCHANGED acks
     \/ /\ \E k \in acks : acks' = acks \ {k}
        /\ UNCHANGED toggles
  /\ standing' = [t \in Target |->
                    [toggles |-> standing[t].toggles \intersect toggles',
                     acks |-> standing[t].acks \intersect acks']]
  /\ UNCHANGED <<now, tables, pc, lastRun, memory, delivered>>

-----------------------------------------------------------------------------
(***************************************************************************)
(* A run before its first cluster.                                         *)
(***************************************************************************)

\* The process ends and its memory is gone.
Exit(t) ==
  /\ pc' = [pc EXCEPT ![t] = "idle"]
  /\ lastRun' = [lastRun EXCEPT ![t] = now]
  /\ disabled' = [disabled EXCEPT ![t] = NoneDisabled]
  /\ todo' = [todo EXCEPT ![t] = {}]
  /\ previous' = [previous EXCEPT ![t] = {}]
  /\ current' = [current EXCEPT ![t] = NoWork]
  /\ standing' = [standing EXCEPT ![t] = NoneDisabled]

FirstRead == IF IgnoreDisabledRules THEN "readClusterList" ELSE "readToggles"

\* concurrencyPolicy Forbid: no second run of a target while one is going, and
\* two runs of a target never read the same clock.
StartRun(t) ==
  /\ t \in Deployed
  /\ pc[t] = "idle"
  /\ lastRun[t] < now
  /\ pc' = [pc EXCEPT ![t] =
              IF CleanupOnStartup THEN "cleanNewReports" ELSE FirstRead]
  /\ standing' = [standing EXCEPT ![t] = [toggles |-> toggles, acks |-> acks]]
  /\ UNCHANGED <<now, tables, external, lastRun, memory, delivered>>

\* PerformCleanupOnStartup: two statements, each with a NOW() of its own.  The
\* rows of read_errors go with the report they refer to (ON DELETE CASCADE).
performNewReportsCleanup(t) ==
  /\ pc[t] = "cleanNewReports"
  /\ newReports' = Cleanup(newReports, now)
  /\ readErrors' = {e \in readErrors : \E r \in newReports' : KeyOf(r) = KeyOf(e)}
  /\ pc' = [pc EXCEPT ![t] = "cleanReported"]
  /\ UNCHANGED <<now, reported, external, lastRun, memory, delivered, standing>>

performOldReportsCleanup(t) ==
  /\ pc[t] = "cleanReported"
  /\ reported' = Cleanup(reported, now)
  /\ pc' = [pc EXCEPT ![t] = FirstRead]
  /\ UNCHANGED <<now, newReports, readErrors, external, lastRun, memory,
                 delivered, standing>>

\* loadDisabledRules reads the two tables one after the other.
ReadClusterRuleToggles(t) ==
  /\ pc[t] = "readToggles"
  /\ disabled' = [disabled EXCEPT ![t] = [toggles |-> toggles, acks |-> {}]]
  /\ pc' = [pc EXCEPT ![t] = "readAcks"]
  /\ UNCHANGED <<now, tables, external, lastRun, todo, previous, current,
                 delivered, standing>>

\* Faulty variant: the second query replaces what the first one read.
ReadOrgRuleDisables_Replaces(t) ==
  /\ pc[t] = "readAcks"
  /\ disabled' = [disabled EXCEPT ![t] = [toggles |-> {}, acks |-> acks]]
  /\ pc' = [pc EXCEPT ![t] = "readClusterList"]
  /\ UNCHANGED <<now, tables, external, lastRun, todo, previous, current,
                 delivered, standing>>

ReadOrgRuleDisables(t) ==
  /\ pc[t] = "readAcks"
  /\ disabled' = [disabled EXCEPT ![t] =
                    [toggles |-> disabled[t].toggles, acks |-> acks]]
  /\ pc' = [pc EXCEPT ![t] = "readClusterList"]
  /\ UNCHANGED <<now, tables, external, lastRun, todo, previous, current,
                 delivered, standing>>

\* The loops of ReadClusterList and ReadLastNotifiedRecordForClusterList do
\* not look at rows.Err(): what a broken connection leaves unread is missing
\* from the result.
Received(rows) == IF BrokenStreams THEN SUBSET rows ELSE {rows}

ReadClusterList(t) ==
  /\ pc[t] = "readClusterList"
  /\ \E rows \in Received(NewestPerCluster(newReports)) :
       LET entries == filterClusterList(rows) IN
       \/ /\ entries = {}
          /\ Exit(t)
       \/ /\ entries # {}
          /\ todo' = [todo EXCEPT ![t] = entries]
          /\ pc' = [pc EXCEPT ![t] = "readPrevious"]
          /\ UNCHANGED <<lastRun, disabled, previous, current, standing>>
  /\ UNCHANGED <<now, tables, external, delivered>>

RetrievePreviouslyReportedForEventTarget(t) ==
  /\ pc[t] = "readPrevious"
  /\ \E rows \in Received(ReadLastNotifiedRecordForClusterList(
                            t, reported, todo[t], now)) :
       previous' = [previous EXCEPT ![t] = rows]
  /\ pc' = [pc EXCEPT ![t] = "process"]
  /\ UNCHANGED <<now, tables, external, lastRun, disabled, todo, current,
                 delivered, standing>>

-----------------------------------------------------------------------------
(***************************************************************************)
(* One iteration of the loop of processReportsByCluster.                   *)
(***************************************************************************)

\* ReadReportForClusterAtTime finds nothing (the row was cleaned up after the
\* list was read), or what it finds cannot be parsed or is empty.
SkipCluster(t, e) ==
  /\ pc[t] = "process"
  /\ e \in todo[t]
  /\ \A r \in newReports : KeyOf(r) = e => r.report \in {Malformed, {}}
  /\ todo' = [todo EXCEPT ![t] = @ \ {e}]
  /\ UNCHANGED <<now, tables, external, pc, lastRun, disabled, previous,
                 current, delivered, standing>>

\* Faulty variant: what the check found is not looked at.
ReadReportFails_Regardless(t, e) ==
  /\ pc[t] = "process"
  /\ e \in todo[t]
  /\ todo' = [todo EXCEPT ![t] = @ \ {e}]
  /\ \E checked \in BOOLEAN :
       current' = [current EXCEPT ![t] =
         [entry |-> e.entry, updated_at |-> e.updated_at, checked |-> checked]]
  /\ pc' = [pc EXCEPT ![t] = "writeReadError"]
  /\ UNCHANGED <<now, tables, external, lastRun, disabled, previous, delivered,
                 standing>>

\* The read fails, and the job checks whether the error is stored already.  If
\* the check fails itself, that is logged and the error is stored all the same.
ReadReportFails(t, e) ==
  /\ pc[t] = "process"
  /\ e \in todo[t]
  /\ todo' = [todo EXCEPT ![t] = @ \ {e}]
  /\ \/ /\ ReadErrorExists(readErrors, e)
        /\ UNCHANGED <<pc, current>>
     \/ /\ \E checked \in BOOLEAN :
             /\ checked => ~ReadErrorExists(readErrors, e)
             /\ current' = [current EXCEPT ![t] =
                  [entry |-> e.entry, updated_at |-> e.updated_at,
                   checked |-> checked]]
        /\ pc' = [pc EXCEPT ![t] = "writeReadError"]
  /\ UNCHANGED <<now, tables, external, lastRun, disabled, previous, delivered,
                 standing>>

\* The insert may fail, which is only logged; it is refused once the report is
\* gone (foreign key).  Only error_id, a serial number, is unique: here it is
\* the first number that is free.
WriteReadError(t) ==
  LET work == current[t] IN
  /\ pc[t] = "writeReadError"
  /\ \/ UNCHANGED readErrors
     \/ \E n \in 1 .. MaxReadErrors :
          /\ \A r \in readErrors : r.error_id # n
          /\ \A m \in 1 .. (n - 1) : \E r \in readErrors : r.error_id = m
          /\ \E r \in newReports : KeyOf(r) = KeyOf(work)
          /\ readErrors' = readErrors \union
               {[error_id |-> n, entry |-> work.entry,
                 updated_at |-> work.updated_at, target |-> t,
                 checked |-> work.checked]}
  /\ current' = [current EXCEPT ![t] = NoWork]
  /\ pc' = [pc EXCEPT ![t] = "process"]
  /\ UNCHANGED <<now, newReports, reported, external, lastRun, disabled, todo,
                 previous, delivered, standing>>

\* The report is read, and what to notify is decided on what the run holds.
\* For Service Log the template renderer is called when there is something to
\* send; if that fails nothing is sent and the error is recorded.
PrepareNotification(t, r) ==
  LET e == KeyOf(r)
      issues == getReportsWithIssuesToNotify(
                  r.report, r.entry, disabled[t], Important[t], previous[t])
      Handle(pending, outcome) ==
        current' = [current EXCEPT ![t] =
          [entry |-> r.entry, updated_at |-> r.updated_at,
           stored |-> filterDisabledRulesFromReport(
                        disabled[t], r.entry, r.report),
           pending |-> pending, notified_at |-> now, outcome |-> outcome]]
  IN
  /\ pc[t] = "process"
  /\ e \in todo[t]
  /\ r.report \notin {Malformed, {}}
  /\ \/ /\ Handle(issues, "same")
        /\ pc' = [pc EXCEPT ![t] = IF issues = {} THEN "record" ELSE "send"]
     \/ /\ t = "ServiceLog"
        /\ issues # {}
        /\ Handle({}, "error")
        /\ pc' = [pc EXCEPT ![t] = "record"]
  /\ todo' = [todo EXCEPT ![t] = @ \ {e}]
  /\ UNCHANGED <<now, tables, external, lastRun, disabled, previous, delivered,
                 standing>>

\* One Kafka message carries all the events; Service Log takes one entry per
\* issue.
Messages(t) ==
  IF t = "ServiceLog" THEN {{i} : i \in current[t].pending}
                      ELSE {current[t].pending}

Deliveries(t, message) ==
  {[target |-> t, entry |-> current[t].entry, issue |-> i,
    notified_at |-> current[t].notified_at] : i \in message}

\* Faulty variant: the error of the producer is ignored.
MessageDone_IgnoringError(t, message, outcome) ==
  /\ current' = [current EXCEPT ![t] =
       [current[t] EXCEPT !.pending = @ \ message, !.outcome = "sent"]]
  /\ pc' = [pc EXCEPT ![t] =
       IF current[t].pending \ message = {} THEN "record" ELSE "send"]

\* The cluster is done once nothing is left to send.
MessageDone(t, message, outcome) ==
  /\ current' = [current EXCEPT ![t] =
       [current[t] EXCEPT !.pending = @ \ message, !.outcome = outcome]]
  /\ pc' = [pc EXCEPT ![t] =
       IF current[t].pending \ message = {} THEN "record" ELSE "send"]

ProduceMessageSucceeds(t) ==
  /\ pc[t] = "send"
  /\ \E message \in Messages(t) :
       /\ delivered' = delivered \union Deliveries(t, message)
       /\ MessageDone(t, message, "sent")
  /\ UNCHANGED <<now, tables, external, lastRun, disabled, todo, previous,
                 standing>>

\* The producer returns an error; the message may have arrived all the same.
\* Kafka: the error is recorded.  Service Log: the loop goes on to the next
\* issue, and the number of messages sent so far decides what is recorded.
ProduceMessageFails(t) ==
  /\ pc[t] = "send"
  /\ \E message \in Messages(t) :
       /\ delivered' \in {delivered, delivered \union Deliveries(t, message)}
       /\ MessageDone(t, message,
            IF t = "ServiceLog" THEN current[t].outcome ELSE "error")
  /\ UNCHANGED <<now, tables, external, lastRun, disabled, todo, previous,
                 standing>>

\* Faulty variant: errors are recorded in a state no code path may write.
RecordOf_Lower(t) ==
  [target |-> t, entry |-> current[t].entry,
   state |-> IF current[t].outcome = "error" THEN "lower"
                                             ELSE current[t].outcome,
   report |-> current[t].stored, updated_at |-> current[t].updated_at,
   notified_at |-> current[t].notified_at]

RecordOf(t) ==
  [target |-> t, entry |-> current[t].entry, state |-> current[t].outcome,
   report |-> current[t].stored, updated_at |-> current[t].updated_at,
   notified_at |-> current[t].notified_at]

\* WriteNotificationRecordForCluster; a failed insert is only logged.
updateNotificationRecordState(t) ==
  /\ pc[t] = "record"
  /\ \/ reported' = reported \union {RecordOf(t)}
     \/ UNCHANGED reported
  /\ current' = [current EXCEPT ![t] = NoWork]
  /\ pc' = [pc EXCEPT ![t] = "process"]
  /\ UNCHANGED <<now, newReports, readErrors, external, lastRun, disabled,
                 todo, previous, delivered, standing>>

FinishRun(t) ==
  /\ pc[t] = "process"
  /\ todo[t] = {}
  /\ Exit(t)
  /\ UNCHANGED <<now, tables, external, delivered>>

\* A crash of the pod, or one of the errors that end the run (a database or
\* the content service that cannot be read).
AbortRun(t) ==
  /\ pc[t] # "idle"
  /\ Exit(t)
  /\ UNCHANGED <<now, tables, external, delivered>>

-----------------------------------------------------------------------------

Startup(t) ==
  \/ StartRun(t)
  \/ performNewReportsCleanup(t)
  \/ performOldReportsCleanup(t)
  \/ ReadClusterRuleToggles(t)
  \/ ReadOrgRuleDisables(t)
  \/ ReadClusterList(t)
  \/ RetrievePreviouslyReportedForEventTarget(t)

processReportsByCluster(t) ==
  \/ \E e \in todo[t] : SkipCluster(t, e) \/ ReadReportFails(t, e)
  \/ WriteReadError(t)
  \/ \E r \in newReports : PrepareNotification(t, r)
  \/ ProduceMessageSucceeds(t)
  \/ ProduceMessageFails(t)
  \/ updateNotificationRecordState(t)

Job(t) ==
  Startup(t) \/ processReportsByCluster(t) \/ FinishRun(t) \/ AbortRun(t)

Environment ==
  \/ Tick
  \/ \E entry \in Entry, report \in Uploads : InsertReport(entry, report)
  \/ CustomerDisablesRule
  \/ CustomerEnablesRule

Next == Environment \/ \E t \in Target : Job(t)

Spec == Init /\ [][Next]_vars

-----------------------------------------------------------------------------
(***************************************************************************)
(* Properties.                                                             *)
(***************************************************************************)

\* Every variable has its type: in particular whatever is stored in `reported`
\* parses (getNotificationResolution ends the process when it does not) and a
\* run that is sending or recording has a cluster in hand.
TypeOK ==
  /\ now \in Nat
  /\ newReports \subseteq NewReport
  /\ reported \subseteq NotificationRecord
  /\ readErrors \subseteq ReadError
  /\ toggles \subseteq ClusterRuleKey
  /\ acks \subseteq OrgRuleKey
  /\ pc \in [Target -> Phase]
  /\ lastRun \in [Target -> Nat]
  /\ disabled \in [Target -> DisabledRules]
  /\ todo \in [Target -> SUBSET ClusterEntry]
  /\ previous \in [Target -> SUBSET NotificationRecord]
  /\ current \in [Target -> {NoWork} \union FailedRead \union Work]
  /\ \A t \in Target :
       /\ pc[t] \in {"send", "record"} => current[t] \in Work
       /\ pc[t] = "writeReadError" => current[t] \in FailedRead
  /\ delivered \subseteq Delivery
  /\ standing \in [Target -> DisabledRules]

WasNotified(t, entry, issue, time) ==
  \E d \in delivered : /\ d.target = t
                       /\ d.entry = entry
                       /\ d.issue = issue
                       /\ d.notified_at =< time

\* What a record says to the next run: its important issues have been notified.
ClaimIsTrue(r) ==
  \A i \in r.report \intersect Important[r.target] :
    WasNotified(r.target, r.entry, i, r.notified_at)

ClaimsAreTrue(t, states) ==
  \A r \in reported :
    r.target = t /\ r.state \in states => ClaimIsTrue(r)

\* What the records of the Kafka job say is true: every important issue of a
\* report recorded as "sent" or "same" (nothing new) has reached the customer
\* of that cluster by then.  The cool down baseline is built from these
\* records, so an issue it silences was delivered once.  It has to survive
\* crashes between the message and the record, failed inserts, rules disabled
\* and enabled again between runs, cleanups and the other target's records.
NotificationBackendClaimsAreTrue ==
  ClaimsAreTrue("NotificationBackend", {"sent", "same"})

\* The same of the "sent" records of the Service Log job, as the table of states
\* in the RFE words it ("Notification delivered to customer"): an issue that is
\* part of its cool down baseline has reached the customer.
ServiceLogSentClaimsAreTrue == ClaimsAreTrue("ServiceLog", {"sent"})

HasDelivery(target, entry, time) ==
  \E d \in delivered : /\ d.target = target
                       /\ d.entry = entry
                       /\ d.notified_at = time

\* A record in the state "sent" is never written without a message of that very
\* notification having reached the customer.
SentRecordHasDelivery ==
  \A r \in reported :
    r.state = "sent" => HasDelivery(r.target, r.entry, r.notified_at)

-----------------------------------------------------------------------------
(***************************************************************************)
(* What the jobs promise about repeats (Notification).                     *)
(***************************************************************************)

SentRecords == {r \in reported : r.state = "sent"}

Promise == INSTANCE Notification WITH sent <- SentRecords

\* The jobs implement Notification: with the baseline a run read before its loop,
\* records of other organizations and of the other target in the table, and
\* cleanups and crashes at any time, no step sends what the last sent record of
\* the cluster silences, or records what was not sent or something older.
KeepsPromise == Promise!Spec

\* An issue of a cluster reaches the customer of a target twice within the cool
\* down only if the first notification left no sent record (a crash, a failed
\* insert, an error although the message arrived, a cleanup) or a newer sent
\* record of the cluster without the issue replaced it.
RepeatsAreExplained == Promise!RepeatsAreExplained

\* The cool down as docs/configuration.md:87 words it, per issue: an issue
\* whose sent record is there is not notified again within it.
CooldownPerIssue ==
  \A d1, d2 \in delivered :
    Promise!RepeatedWithinCooldown(d1, d2) => Promise!Unrecorded(d1)

-----------------------------------------------------------------------------

\* A customer is not notified of an issue that one and the same toggle or ack
\* has disabled since before the run, however long ago the run read the two
\* tables and whatever other rows come and go.  (Of two rows that replace each
\* other between the two reads neither stays; such an issue may be sent.)
DisabledRulesStaySilent ==
  [][\A d \in delivered' \ delivered :
       ~IgnoreDisabledRules
         => ~isRuleDisabled(standing[d.target], d.entry, d.issue)]_vars

\* A job stores the read error of a report a second time only if it could not
\* check: runs that repeat every few minutes do not fill read_errors with the
\* error of one report.  (The other job may store it, too: the check and the
\* insert are two statements, and nothing in the table is unique but the id.)
ReadErrorsAreStoredOncePerJob ==
  \A r1, r2 \in readErrors :
    /\ r1 # r2
    /\ KeyOf(r1) = KeyOf(r2)
    /\ r1.target = r2.target
    => ~(r1.checked /\ r2.checked)

-----------------------------------------------------------------------------
(***************************************************************************)
(* The inductive invariant behind NotificationBackendClaimsAreTrue: the    *)
(* claims of the records in the table, of the copies a run works with, and *)
(* of the record it is about to write.                                     *)
(***************************************************************************)

TimesAreNotAhead ==
  /\ \A r \in reported : r.notified_at =< now
  /\ \A t \in Target : \A r \in previous[t] : r.notified_at =< now
  /\ \A t \in Target :
       pc[t] \in {"send", "record"} => current[t].notified_at =< now

\* The baseline of the Kafka job holds true claims, even of deleted records.
BaselineClaimsAreTrue ==
  \A r \in previous["NotificationBackend"] :
    r.target = "NotificationBackend" /\ ClaimIsTrue(r)

\* Every important issue of the report the Kafka job has in hand is still to be
\* sent, or has been notified, unless sending has failed.
WorkInHandIsTrue ==
  LET t == "NotificationBackend"
      work == current[t]
  IN  pc[t] \in {"send", "record"} =>
        /\ pc[t] = "record" => work.pending = {}
        /\ \/ pc[t] = "record" /\ work.outcome = "error"
           \/ \A i \in work.stored \intersect Important[t] :
                \/ i \in work.pending
                \/ WasNotified(t, work.entry, i, work.notified_at)

ClaimsInv ==
  /\ TimesAreNotAhead
  /\ NotificationBackendClaimsAreTrue
  /\ BaselineClaimsAreTrue
  /\ WorkInHandIsTrue

(***************************************************************************)
(* The inductive invariant behind SentRecordHasDelivery, of both jobs.     *)
(***************************************************************************)

\* A job never sends an empty message.
NoEmptyMessage ==
  \A t \in Target : pc[t] = "send" => current[t].pending # {}

\* A job is about to record "sent" only after a message got through.
SentWorkHasDelivery ==
  \A t \in Target :
    pc[t] \in {"send", "record"} /\ current[t].outcome = "sent"
      => HasDelivery(t, current[t].entry, current[t].notified_at)

SentInv == NoEmptyMessage /\ SentWorkHasDelivery /\ SentRecordHasDelivery

(***************************************************************************)
(* The invariants behind DisabledRulesStaySilent and behind                *)
(* ReadErrorsAreStoredOncePerJob.                                          *)
(***************************************************************************)

TogglesRead(t) ==
  pc[t] \notin {"idle", "cleanNewReports", "cleanReported", "readToggles"}

\* What has been there since before the run is part of what the run has read.
RulesInv ==
  \A t \in Target :
    /\ standing[t].toggles \subseteq toggles
    /\ standing[t].acks \subseteq acks
    /\ ~IgnoreDisabledRules /\ TogglesRead(t) =>
         /\ standing[t].toggles \subseteq disabled[t].toggles
         /\ pc[t] # "readAcks" => standing[t].acks \subseteq disabled[t].acks
    /\ pc[t] = "send" => \A i \in current[t].pending :
                           ~isRuleDisabled(disabled[t], current[t].entry, i)

\* Since the check only the other job may have stored the error.
ReadErrorsInv ==
  /\ ReadErrorsAreStoredOncePerJob
  /\ \A t \in Target : pc[t] = "writeReadError" /\ current[t].checked =>
       \A r \in readErrors : KeyOf(r) = KeyOf(current[t]) => r.target # t

(***************************************************************************)
(* The inductive invariant behind KeepsPromise, of both jobs, for result   *)
(* sets that are whole.                                                    *)
(***************************************************************************)

InLoop(t) == pc[t] \in {"process", "writeReadError", "send", "record"}
InHand(t) == pc[t] \in {"send", "record"}

\* Nothing bears a time that is still to come, and a run starts after the last
\* one of its target has ended.
ClockInv ==
  /\ \A r \in newReports : r.updated_at =< now
  /\ \A d \in delivered : d.notified_at =< now
  /\ \A r \in SentRecords : r.notified_at =< now
  /\ \A t \in Target :
       /\ lastRun[t] =< now
       /\ pc[t] # "idle" => lastRun[t] < now
       /\ InHand(t) => /\ lastRun[t] < current[t].notified_at
                       /\ current[t].notified_at =< now

\* A run takes up a cluster once.
OncePerRun ==
  /\ \A r, s \in newReports :
       r.entry.cluster = s.entry.cluster /\ r.updated_at = s.updated_at => r = s
  /\ \A t \in Target : \A e, f \in todo[t] :
       e.entry.cluster = f.entry.cluster => e = f
  /\ \A t \in Target : InHand(t) =>
       \A e \in todo[t] : e.entry.cluster # current[t].entry.cluster

\* The run has neither notified the cluster nor recorded it as sent.
Untouched(t, cluster) ==
  /\ \A d \in delivered :
       d.target = t /\ d.entry.cluster = cluster => d.notified_at =< lastRun[t]
  /\ \A r \in SentRecords :
       r.target = t /\ r.entry.cluster = cluster => r.notified_at =< lastRun[t]

UntouchedInv ==
  \A t \in Target :
    /\ ~InLoop(t) => \A cluster \in Cluster : Untouched(t, cluster)
    /\ InLoop(t) => \A e \in todo[t] : Untouched(t, e.entry.cluster)

\* What has been done of the cluster in hand.
WorkSoFar ==
  \A t \in Target : InHand(t) =>
    LET work == current[t] IN
    /\ work.pending \subseteq work.stored
    /\ \A r \in SentRecords :
         r.target = t /\ r.entry.cluster = work.entry.cluster
           => r.notified_at =< lastRun[t]
    /\ \A d \in delivered :
         d.target = t /\ d.entry.cluster = work.entry.cluster
           => \/ d.notified_at =< lastRun[t]
              \/ /\ d.notified_at = work.notified_at
                 /\ d.entry = work.entry
                 /\ d.issue \in work.stored

\* If reports of the cluster are left, one is not older.
IsRecent(cluster, time) ==
  /\ time =< now
  /\ (\E r \in newReports : r.entry.cluster = cluster)
       => \E r \in newReports : r.entry.cluster = cluster /\ time =< r.updated_at

\* The cleanups delete the oldest first, so the reports taken up, and the
\* records, of a cluster never go back in time.
ReportsAdvance ==
  /\ \A r \in SentRecords : IsRecent(r.entry.cluster, r.updated_at)
  /\ \A t \in Target : \A e \in todo[t] :
       /\ IsRecent(e.entry.cluster, e.updated_at)
       /\ \A r \in SentRecords :
            r.target = t /\ r.entry.cluster = e.entry.cluster
              => r.updated_at =< e.updated_at
  /\ \A t \in Target : InHand(t) =>
       /\ IsRecent(current[t].entry.cluster, current[t].updated_at)
       /\ \A r \in SentRecords :
            r.target = t /\ r.entry.cluster = current[t].entry.cluster
              => r.updated_at =< current[t].updated_at

\* The baseline in memory still has the last sent record of every cluster that
\* is to be processed, if that is in cool down; and what is about to be sent is
\* not silenced by it.
BaselineIsCurrent ==
  \A t \in Target : \A r \in SentRecords :
    r.target = t /\ Promise!IsLast(r) =>
      /\ \A e \in todo[t] :
           InLoop(t) /\ r.entry = e.entry /\ now < r.notified_at + Cooldown
             => r \in previous[t]
      /\ /\ InHand(t)
         /\ r.entry = current[t].entry
         /\ current[t].notified_at < r.notified_at + Cooldown
         => r.report \intersect current[t].pending = {}

PromiseInv ==
  /\ ClockInv
  /\ OncePerRun
  /\ UntouchedInv
  /\ WorkSoFar
  /\ Promise!SentIsOrdered
  /\ ReportsAdvance
  /\ BaselineIsCurrent
=============================================================================
