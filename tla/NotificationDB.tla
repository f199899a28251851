--------------------------- MODULE NotificationDB ---------------------------
(***************************************************************************)
(* The two databases the notification service works on, reduced to what    *)
(* the decision to notify depends on: the rows of `new_reports`, `reported` *)
(* and `read_errors` (notification database), of `cluster_rule_toggle` and *)
(* `rule_disable` (aggregator database), and the queries and statements of *)
(* differ/storage.go as operators over those sets of rows.                 *)
(*                                                                         *)
(* An issue stands for a rule hit of a report: the triple (type, module,   *)
(* error key) that IssuesEqual compares, which is also what the disabled   *)
(* rules are matched by.  A report is the set of its issues.               *)
(***************************************************************************)
EXTENDS Integers

CONSTANTS
  Org,          \* organization IDs
  Cluster,      \* cluster names
  Issue,        \* rule hits
  Malformed,    \* the text of a report that json.Unmarshal rejects
  Cooldown,     \* age from which a sent record no longer silences its issues
  MaxAge,       \* age from which the cleanup deletes rows
  Allowed,      \* clusters named by AllowedClusters in the configuration
  Blocked,      \* clusters named by BlockedClusters
  FilterAllowedClusters,
  FilterBlockedClusters

ASSUME CooldownAssumption == Cooldown \in Nat
ASSUME MaxAgeAssumption == MaxAge \in Nat
ASSUME MalformedAssumption == \A report \in SUBSET Issue : report # Malformed
ASSUME FilterAssumption ==
  /\ FilterAllowedClusters \in BOOLEAN
  /\ FilterBlockedClusters \in BOOLEAN

(***************************************************************************)
(* The tables.  Times are ticks of one clock: updated_at is when a report  *)
(* was stored, notified_at when its notification was prepared.             *)
(***************************************************************************)
Target == {"NotificationBackend", "ServiceLog"}

\* The states written to `reported`; "lower" is in the table of states but no
\* code path writes it.
State == {"sent", "same", "error"}

Entry == [org : Org, cluster : Cluster]

Report == SUBSET Issue

ClusterEntry == [entry : Entry, updated_at : Nat]

NewReport ==
  [entry : Entry, updated_at : Nat, report : {Malformed} \union Report]

NotificationRecord ==
  [target : Target, entry : Entry, state : State, report : Report,
   updated_at : Nat, notified_at : Nat]

\* A row of read_errors: the report that could not be read.  The last two
\* fields are no columns: the job that wrote the row, and whether it had found
\* out before that there was none yet.
ReadError ==
  [error_id : Nat, entry : Entry, updated_at : Nat, target : Target,
   checked : BOOLEAN]

ClusterRuleKey == [entry : Entry, issue : Issue]

OrgRuleKey == [org : Org, issue : Issue]

(***************************************************************************)
(* Queries.                                                                *)
(***************************************************************************)

KeyOf(row) == [entry |-> row.entry, updated_at |-> row.updated_at]

\* SELECT DISTINCT ON (cluster) ... ORDER BY cluster, updated_at DESC: the
\* newest row of every cluster, whatever organization stored it.
NewestPerCluster(rows) ==
  {KeyOf(r) : r \in {r \in rows : \A s \in rows :
                       s.entry.cluster = r.entry.cluster
                         => s.updated_at =< r.updated_at}}

\* The allow list, when it is enabled, decides alone; otherwise the block list.
filterClusterList(entries) ==
  {e \in entries :
     \/ FilterAllowedClusters /\ e.entry.cluster \in Allowed
     \/ /\ ~FilterAllowedClusters
        /\ FilterBlockedClusters => e.entry.cluster \notin Blocked}

\* Faulty variant: the target is not part of the query.
SentTo_AnyTarget(target, rows, entries) ==
  {r \in rows :
     /\ r.state = "sent"
     /\ r.entry.org \in {e.entry.org : e \in entries}
     /\ r.entry.cluster \in {e.entry.cluster : e \in entries}}

\* The rows the inner SELECT of ReadLastNotifiedRecordForClusterList ranges
\* over.  The two IN clauses are independent of each other.
SentTo(target, rows, entries) ==
  {r \in rows :
     /\ r.target = target
     /\ r.state = "sent"
     /\ r.entry.org \in {e.entry.org : e \in entries}
     /\ r.entry.cluster \in {e.entry.cluster : e \in entries}}

\* Faulty variant: notified_at in ascending order.
LastPerCluster_Ascending(rows) ==
  {r \in rows : \A s \in rows :
     s.entry.cluster = r.entry.cluster => s.notified_at >= r.notified_at}

LastPerCluster(rows) ==
  {r \in rows : \A s \in rows :
     s.entry.cluster = r.entry.cluster => s.notified_at =< r.notified_at}

\* Faulty variant: the age of the report is tested, as in the cleanup.
ReadLastNotifiedRecordForClusterList_ByReport(target, rows, entries, time) ==
  {r \in LastPerCluster(SentTo(target, rows, entries)) :
     r.updated_at + Cooldown > time}

\* The last sent record of each cluster, if it is still in cool down.  The age
\* is tested after the last record was selected.
ReadLastNotifiedRecordForClusterList(target, rows, entries, time) ==
  {r \in LastPerCluster(SentTo(target, rows, entries)) :
     r.notified_at + Cooldown > time}

\* SELECT exists(SELECT 1 FROM read_errors WHERE ...).
ReadErrorExists(rows, e) == \E r \in rows : KeyOf(r) = e

\* DELETE ... WHERE updated_at < NOW() - max age, for either table.
Cleanup(rows, time) == {r \in rows : r.updated_at + MaxAge >= time}

(***************************************************************************)
(* Decisions taken on rows already read.                                   *)
(***************************************************************************)

\* An issue is disabled by a toggle of its cluster or by an ack of its
\* organization.
isRuleDisabled(disabled, entry, issue) ==
  \/ [entry |-> entry, issue |-> issue] \in disabled.toggles
  \/ [org |-> entry.org, issue |-> issue] \in disabled.acks

\* Faulty variant: the report is stored as it was read.
filterDisabledRulesFromReport_Nothing(disabled, entry, report) == report

filterDisabledRulesFromReport(disabled, entry, report) ==
  {i \in report : ~isRuleDisabled(disabled, entry, i)}

IssueNotInReport(oldReport, issue) == issue \notin oldReport

\* Faulty variant: the map is keyed by the cluster alone.
ShouldNotify_AnyOrg(previouslyReported, entry, issue) ==
  \A r \in previouslyReported :
    r.entry.cluster = entry.cluster => IssueNotInReport(r.report, issue)

\* PreviouslyReported is a map keyed by (organization, cluster); here it is
\* the set of the records the map holds.
ShouldNotify(previouslyReported, entry, issue) ==
  \A r \in previouslyReported :
    r.entry = entry => IssueNotInReport(r.report, issue)

\* The issues of a report that are to be notified: not disabled, passing the
\* risk and tag filters (`important`), and not in the cool down baseline.
getReportsWithIssuesToNotify(report, entry, disabled, important, baseline) ==
  {i \in report :
     /\ ~isRuleDisabled(disabled, entry, i)
     /\ i \in important
     /\ ShouldNotify(baseline, entry, i)}
=============================================================================
