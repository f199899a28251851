---------------------------- MODULE Notification ----------------------------
(***************************************************************************)
(* What the notification service promises about repeats, whatever jobs,    *)
(* crashes, cleanups and moving clusters there are: customers are told of  *)
(* issues; the service remembers some of what it sent; and an issue is     *)
(* not sent while the last message about the cluster that it remembers is  *)
(* in cool down and was about a report with that issue.                    *)
(*                                                                         *)
(* The steps are stated by what they may change, not by how the change is  *)
(* computed; Differ implements them.                                       *)
(***************************************************************************)
EXTENDS Integers

CONSTANTS
  Target,     \* where notifications go
  Entry,      \* clusters of organizations: records with a field `cluster`
  Issue,
  Cooldown

VARIABLES
  now,
  sent,       \* what is remembered: the records in the state "sent"
  delivered   \* every issue that reached a customer

notificationVars == <<now, sent, delivered>>

Delivery == [target : Target, entry : Entry, issue : Issue, notified_at : Nat]

IsSentRecord(r) ==
  /\ r.target \in Target
  /\ r.entry \in Entry
  /\ r.report \subseteq Issue
  /\ r.updated_at \in Nat
  /\ r.notified_at \in Nat

\* The cool down is kept per target and cluster, even if the cluster moves to
\* another organization.
SameCluster(x, y) ==
  /\ x.target = y.target
  /\ x.entry.cluster = y.entry.cluster

SameNotification(x, y) ==
  /\ x.target = y.target
  /\ x.entry = y.entry
  /\ x.notified_at = y.notified_at

IsLast(r) == \A s \in sent : SameCluster(s, r) => s.notified_at =< r.notified_at

Silences(r, d) ==
  /\ SameCluster(r, d)
  /\ IsLast(r)
  /\ d.notified_at < r.notified_at + Cooldown
  /\ r.entry = d.entry
  /\ d.issue \in r.report

Init ==
  /\ now = 1
  /\ sent = {}
  /\ delivered = {}

Tick ==
  /\ now' = now + 1
  /\ UNCHANGED <<sent, delivered>>

\* Issues reach the customer of a cluster: later than all that is remembered of
\* it, and not silenced.
Notify ==
  /\ delivered \subseteq delivered'
  /\ \A d \in delivered' \ delivered :
       /\ d \in Delivery
       /\ d.notified_at =< now
       /\ \A e \in delivered' : SameCluster(e, d) => e.notified_at =< d.notified_at
       /\ \A r \in sent : SameCluster(r, d) => r.notified_at < d.notified_at
       /\ ~ \E r \in sent : Silences(r, d)
  /\ UNCHANGED <<now, sent>>

\* The last notification of a cluster is remembered, with a report that has all
\* its issues and is not older than those remembered before.
Remember ==
  \E r \in sent' \ sent :
    /\ sent' = sent \union {r}
    /\ IsSentRecord(r)
    /\ \E d \in delivered : SameNotification(d, r)
    /\ \A d \in delivered :
         /\ SameNotification(d, r) => d.issue \in r.report
         /\ SameCluster(d, r) => d.notified_at =< r.notified_at
    /\ \A s \in sent :
         SameCluster(s, r) => /\ s.notified_at < r.notified_at
                              /\ s.updated_at =< r.updated_at
    /\ UNCHANGED <<now, delivered>>

\* What is about the oldest reports is forgotten.
Forget ==
  /\ sent' \subseteq sent
  /\ \A r \in sent \ sent', s \in sent' : r.updated_at < s.updated_at
  /\ UNCHANGED <<now, delivered>>

Next == Tick \/ Notify \/ Remember \/ Forget

Spec == Init /\ [][Next]_notificationVars

-----------------------------------------------------------------------------

SameIssue(d1, d2) ==
  /\ d1.target = d2.target
  /\ d1.entry = d2.entry
  /\ d1.issue = d2.issue

RepeatedWithinCooldown(d1, d2) ==
  /\ SameIssue(d1, d2)
  /\ d1.notified_at < d2.notified_at
  /\ d2.notified_at < d1.notified_at + Cooldown

\* The notification d1 belongs to is not (or no longer) remembered.
Unrecorded(d1) == ~ \E r \in sent : SameNotification(r, d1)

\* Between d1 and d2 a sent record of the cluster without the issue took the
\* place of the one of d1 as the last.
Superseded(d1, d2) ==
  \E r \in sent : /\ SameCluster(r, d1)
                  /\ d1.notified_at < r.notified_at
                  /\ r.notified_at < d2.notified_at
                  /\ ~(r.entry = d1.entry /\ d1.issue \in r.report)

\* An issue of a cluster reaches the customer of a target twice within the cool
\* down only if the first notification left no sent record (a crash, a failed
\* insert, an error although the message arrived, a cleanup) or a newer sent
\* record of the cluster without the issue replaced it.  Runs of the other
\* target, long runs and a baseline read long before it is used do not matter.
RepeatsAreExplained ==
  \A d1, d2 \in delivered :
    RepeatedWithinCooldown(d1, d2) => Unrecorded(d1) \/ Superseded(d1, d2)

(***************************************************************************)
(* The inductive invariant behind RepeatsAreExplained.                     *)
(***************************************************************************)

SentIsTyped == \A r \in sent : IsSentRecord(r)

SentRecordsAreComplete ==
  \A r \in sent, d \in delivered : SameNotification(d, r) => d.issue \in r.report

SentIsOrdered ==
  \A r, s \in sent :
    SameCluster(r, s) =>
      /\ r.notified_at < s.notified_at => r.updated_at =< s.updated_at
      /\ r.notified_at = s.notified_at => r = s

\* Forgetting leaves the last record of a cluster, or none.
LastRecordExists ==
  \A r \in sent : \E s \in sent : SameCluster(s, r) /\ IsLast(s)

NotificationInv ==
  /\ delivered \subseteq Delivery
  /\ SentIsTyped
  /\ SentRecordsAreComplete
  /\ SentIsOrdered
  /\ LastRecordExists
  /\ RepeatsAreExplained
=============================================================================
