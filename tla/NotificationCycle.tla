-------------------------- MODULE NotificationCycle --------------------------
(***************************************************************************)
(* One cluster, one target, run after run: what its customer is told in    *)
(* the end.  Differ cannot tell, since its clock has to stop; here the     *)
(* clock is replaced by ages up to the cool down and the tables by what a  *)
(* run finds in them for the cluster: the newest report without what is    *)
(* disabled, and the last sent record (of any other record of the cluster  *)
(* a run reads nothing, and cleanups delete it last: see Notification,     *)
(* which Differ implements).  All issues are important.                    *)
(***************************************************************************)
EXTENDS Naturals

CONSTANTS
  Issue,
  Uploads,      \* the reports the cluster may have, {} if it has none
  Cooldown

Target == {"NotificationBackend", "ServiceLog"}

ASSUME CycleAssumption == Uploads \subseteq SUBSET Issue /\ Cooldown \in Nat

NoRecord == [report |-> {}, age |-> Cooldown]

VARIABLES
  target,     \* whose job this is
  newest,     \* the newest report
  last,       \* the last sent record: its report, and its age up to the cool down
  pc,
  listed,     \* the report the run has in its list
  baseline,   \* PreviouslyReported
  pending,    \* the issues still to be sent
  outcome,    \* the state the record will be written with
  age,        \* how long ago the notification was prepared (notifiedAt)
  told        \* history: the issues the customer was told of, until a record
              \* without them is written

memory == <<listed, baseline, pending, outcome, age>>

vars == <<target, newest, last, pc, memory, told>>

NoMemory ==
  /\ listed' = {}
  /\ baseline' = {}
  /\ pending' = {}
  /\ outcome' = "same"
  /\ age' = 0

Init ==
  /\ target \in Target
  /\ newest \in Uploads
  /\ last = NoRecord
  /\ pc = "idle"
  /\ listed = {}
  /\ baseline = {}
  /\ pending = {}
  /\ outcome = "same"
  /\ age = 0
  /\ told = {}

-----------------------------------------------------------------------------
(***************************************************************************)
(* The environment.                                                        *)
(***************************************************************************)

\* The ages grow until they no longer matter.
OlderBy1(n) == IF n < Cooldown THEN n + 1 ELSE n

Tick ==
  /\ last' = [last EXCEPT !.age = OlderBy1(@)]
  /\ age' = IF pc \in {"send", "record"} THEN OlderBy1(age) ELSE age
  /\ UNCHANGED <<target, newest, pc, listed, baseline, pending, outcome, told>>

\* Another report is uploaded, a rule is disabled or enabled, or the report is
\* cleaned up.
ReportChanges ==
  /\ newest' \in Uploads \ {newest}
  /\ UNCHANGED <<target, last, pc, memory, told>>

\* A cleanup deletes the record.
RecordIsCleanedUp ==
  /\ last # NoRecord
  /\ last' = NoRecord
  /\ UNCHANGED <<target, newest, pc, memory, told>>

-----------------------------------------------------------------------------
(***************************************************************************)
(* A run.                                                                  *)
(***************************************************************************)

\* Up to the list of the clusters with the times of their newest reports.
ReadClusterList ==
  /\ pc = "idle"
  /\ newest # {}
  /\ listed' = newest
  /\ pc' = "readPrevious"
  /\ UNCHANGED <<target, newest, last, baseline, pending, outcome, age, told>>

RetrievePreviouslyReported ==
  /\ pc = "readPrevious"
  /\ baseline' = IF last.age < Cooldown THEN last.report ELSE {}
  /\ pc' = "process"
  /\ UNCHANGED <<target, newest, last, listed, pending, outcome, age, told>>

\* The report is read and what to notify is decided.
PrepareNotification ==
  /\ pc = "process"
  /\ pending' = listed \ baseline
  /\ outcome' = "same"
  /\ age' = 0
  /\ pc' = IF listed \subseteq baseline THEN "record" ELSE "send"
  /\ UNCHANGED <<target, newest, last, listed, baseline, told>>

\* The template renderer fails.
RenderingFails ==
  /\ pc = "process"
  /\ target = "ServiceLog"
  /\ ~(listed \subseteq baseline)
  /\ outcome' = "error"
  /\ age' = 0
  /\ pc' = "record"
  /\ UNCHANGED <<target, newest, last, listed, baseline, pending, told>>

\* One message for all issues, or one for each.
Messages ==
  IF target = "ServiceLog" THEN {{i} : i \in pending} ELSE {pending}

MessageDone(message) ==
  /\ pending' = pending \ message
  /\ pc' = IF pending = message THEN "record" ELSE "send"
  /\ UNCHANGED <<target, newest, last, listed, baseline, age>>

ProduceMessageSucceeds(message) ==
  /\ pc = "send"
  /\ message \in Messages
  /\ outcome' = "sent"
  /\ told' = told \union message
  /\ MessageDone(message)

\* Faulty variant: whatever the producer returns, the record is written as sent.
ProduceMessageFails_Sent(message) ==
  /\ pc = "send"
  /\ message \in Messages
  /\ outcome' = "sent"
  /\ told' \in {told, told \union message}
  /\ MessageDone(message)

\* The message may have arrived all the same.
ProduceMessageFails(message) ==
  /\ pc = "send"
  /\ message \in Messages
  /\ outcome' = IF target = "ServiceLog" THEN outcome ELSE "error"
  /\ told' \in {told, told \union message}
  /\ MessageDone(message)

\* Faulty variant: a run with nothing to notify renews the record, too.
updateNotificationRecordState_Renews ==
  /\ pc = "record"
  /\ \/ UNCHANGED <<last, told>>
     \/ /\ outcome \in {"sent", "same"}
        /\ last' = [report |-> listed, age |-> age]
        /\ told' = told \intersect listed
  /\ pc' = "idle"
  /\ NoMemory
  /\ UNCHANGED <<target, newest>>

\* A record is written, or the insert fails.  Only a sent one is ever read.
updateNotificationRecordState ==
  /\ pc = "record"
  /\ \/ UNCHANGED <<last, told>>
     \/ /\ outcome = "sent"
        /\ last' = [report |-> listed, age |-> age]
        /\ told' = told \intersect listed
  /\ pc' = "idle"
  /\ NoMemory
  /\ UNCHANGED <<target, newest>>

\* The run ends before its time: an error, a report that cannot be read, a
\* crash, the deadline of the CronJob.
AbortRun ==
  /\ pc # "idle"
  /\ pc' = "idle"
  /\ NoMemory
  /\ UNCHANGED <<target, newest, last, told>>

Succeeds(issue) ==
  \E message \in Messages : issue \in message /\ ProduceMessageSucceeds(message)

Fails == \E message \in Messages : ProduceMessageFails(message)

Next ==
  \/ Tick
  \/ ReportChanges
  \/ RecordIsCleanedUp
  \/ ReadClusterList
  \/ RetrievePreviouslyReported
  \/ PrepareNotification
  \/ RenderingFails
  \/ \E issue \in Issue : Succeeds(issue)
  \/ Fails
  \/ updateNotificationRecordState
  \/ AbortRun

\* Time goes on; the CronJob starts runs for ever, and no run is left without an
\* end (activeDeadlineSeconds).  Whatever goes wrong does not go wrong for ever:
\* of the runs that come as far, again and again one gets through the databases
\* and the renderer, and again and again one has its message about an issue
\* accepted.
Fairness ==
  /\ WF_vars(Tick)
  /\ SF_vars(ReadClusterList)
  /\ WF_vars(AbortRun \/ updateNotificationRecordState)
  /\ SF_vars(RetrievePreviouslyReported)
  /\ SF_vars(PrepareNotification)
  /\ \A issue \in Issue : SF_vars(Succeeds(issue))

Spec == Init /\ [][Next]_vars /\ Fairness

-----------------------------------------------------------------------------
(***************************************************************************)
(* Properties.                                                             *)
(***************************************************************************)

\* Kafka: whatever a run may find in the last record, and therefore not tell, the
\* customer has been told of, if by an earlier run whose record is gone by now.
SilencedIssuesAreTold ==
  target = "NotificationBackend" => last.report \subseteq told

\* Both targets: the cool down of a cluster starts again only with the news of an
\* issue that it did not silence.  The other issues of the report are silenced for
\* longer by it, but no run prolongs their silence without any news.
SilenceIsRenewedByNews ==
  [][last'.age < last.age
       => \E issue \in last'.report : issue \notin baseline /\ issue \in told']_vars

\* Kafka: an issue that stays in the reports of a cluster is, again and again,
\* one the customer has been told of, whatever else comes and goes in the
\* reports.  No crash, failed insert or error of the broker leaves it silenced
\* for ever by records that other issues keep renewing.
PersistentIssuesAreTold ==
  \A issue \in Issue :
    (target = "NotificationBackend" /\ <>[](issue \in newest))
      => []<>(issue \in told)

\* Both targets: while the report of a cluster does not change, the customer is
\* told of each of its issues again and again.  The cool down comes to an end: runs
\* with nothing new to tell do not prolong it.
SteadyReportsAreRepeated ==
  \A report \in Uploads : \A issue \in report :
    <>[](newest = report) => []<><<Succeeds(issue)>>_vars
=============================================================================
