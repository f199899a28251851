------------------------ MODULE DifferClaimsProofs --------------------------
(***************************************************************************)
(* What the records claim, for every value of the constants: those of the  *)
(* Kafka job claim the truth (ClaimsInv is inductive, together with        *)
(* TypeOK), and a sent record of either job was never written without a    *)
(* delivery (SentInv is).                                                  *)
(***************************************************************************)
EXTENDS DifferProofs

Kafka == "NotificationBackend"

-----------------------------------------------------------------------------
(***************************************************************************)
(* What a step leaves true that does not touch it.                         *)
(***************************************************************************)

\* A notification cannot be taken back, so a claim stays true.
LEMMA ClaimStays ==
  ASSUME NEW r, ClaimIsTrue(r), delivered \subseteq delivered'
  PROVE  ClaimIsTrue(r)'
BY DEF ClaimIsTrue, WasNotified

\* Steps that add no record of the Kafka job, do not extend the baselines and
\* do not work on the cluster the Kafka job has in hand keep ClaimsInv.
LEMMA ClaimsFrame ==
  ASSUME TypeOK, TypeOK', ClaimsInv,
         now =< now',
         delivered \subseteq delivered',
         \A r \in reported' :
           r \in reported \/ (r.target # Kafka /\ r.notified_at =< now),
         \A t \in Target : previous'[t] \subseteq previous[t],
         \A t \in Target : pc'[t] \in {"send", "record"} =>
           \/ pc'[t] = pc[t] /\ current'[t] = current[t]
           \/ t # Kafka /\ current'[t].notified_at =< now
  PROVE  ClaimsInv'
<1>1. TimesAreNotAhead'
  <2>1. \A r \in reported' : r.notified_at \in Nat
    BY DEF TypeOK, NotificationRecord
  <2>2. \A t \in Target : \A r \in previous'[t] : r.notified_at \in Nat
    BY DEF TypeOK, NotificationRecord
  <2>3. \A t \in Target :
          pc'[t] \in {"send", "record"} => current'[t].notified_at \in Nat
    BY DEF TypeOK, Work
  <2>4. now \in Nat /\ now' \in Nat
    BY DEF TypeOK
  <2> QED
    BY <2>1, <2>2, <2>3, <2>4 DEF ClaimsInv, TimesAreNotAhead
<1>2. NotificationBackendClaimsAreTrue'
  BY ClaimStays DEF ClaimsInv, NotificationBackendClaimsAreTrue, ClaimsAreTrue,
                    Kafka
<1>3. BaselineClaimsAreTrue'
  BY ClaimStays DEF ClaimsInv, BaselineClaimsAreTrue, Target
<1>4. WorkInHandIsTrue'
  BY DEF ClaimsInv, WorkInHandIsTrue, WasNotified, Kafka, Target
<1> QED
  BY <1>1, <1>2, <1>3, <1>4 DEF ClaimsInv

\* The end of a run leaves nothing in memory.
LEMMA ExitClaims ==
  ASSUME TypeOK, TypeOK', ClaimsInv, NEW t \in Target, Exit(t),
         UNCHANGED <<now, reported, delivered>>
  PROVE  ClaimsInv'
<1>1. now =< now'
  BY DEF TypeOK
<1>2. \A u \in Target : previous'[u] \subseteq previous[u]
  BY DEF Exit, TypeOK
<1>3. \A u \in Target : pc'[u] \in {"send", "record"} =>
        pc'[u] = pc[u] /\ current'[u] = current[u]
  BY DEF Exit, TypeOK
<1> QED
  BY <1>1, <1>2, <1>3, ClaimsFrame

-----------------------------------------------------------------------------
(***************************************************************************)
(* The steps, one lemma for each part of the specification.                *)
(***************************************************************************)

LEMMA EnvironmentClaims ==
  ASSUME TypeOK, TypeOK', ClaimsInv, Environment
  PROVE  ClaimsInv'
<1>1. now =< now' /\ UNCHANGED <<reported, pc, previous, current, delivered>>
  BY DEF Environment, Tick, InsertReport, CustomerDisablesRule,
         CustomerEnablesRule, tables, memory, TypeOK
<1> QED
  BY <1>1, ClaimsFrame

LEMMA StartupClaims ==
  ASSUME TypeOK, TypeOK', ClaimsInv, NEW t \in Target, Startup(t)
  PROVE  ClaimsInv'
<1>0. now =< now
  BY DEF TypeOK
<1>1. ASSUME UNCHANGED <<now, previous, current, delivered>>,
             reported' \subseteq reported,
             \A u \in Target : \/ pc'[u] = pc[u]
                               \/ pc'[u] \notin {"send", "record"}
      PROVE  ClaimsInv'
  BY <1>0, <1>1, ClaimsFrame
<1>2. CASE StartRun(t)
  BY <1>1, <1>2 DEF StartRun, FirstRead, TypeOK, tables, memory
<1>3. CASE performNewReportsCleanup(t)
  BY <1>1, <1>3 DEF performNewReportsCleanup, TypeOK, memory
<1>4. CASE performOldReportsCleanup(t)
  BY <1>1, <1>4 DEF performOldReportsCleanup, Cleanup, FirstRead, TypeOK, memory
<1>5. CASE ReadClusterRuleToggles(t)
  BY <1>1, <1>5 DEF ReadClusterRuleToggles, TypeOK, tables
<1>6. CASE ReadOrgRuleDisables(t)
  BY <1>1, <1>6 DEF ReadOrgRuleDisables, TypeOK, tables
<1>7. CASE ReadClusterList(t)
  <2>1. \/ Exit(t)
        \/ /\ pc' = [pc EXCEPT ![t] = "readPrevious"]
           /\ UNCHANGED <<previous, current>>
    BY <1>7 DEF ReadClusterList
  <2>2. UNCHANGED <<now, reported, delivered>>
    BY <1>7 DEF ReadClusterList, tables
  <2> QED
    BY <1>1, <2>1, <2>2, ExitClaims DEF TypeOK
<1>8. CASE RetrievePreviouslyReportedForEventTarget(t)
  <2>1. PICK rows \in Received(ReadLastNotifiedRecordForClusterList(
                                 t, reported, todo[t], now)) :
          previous' = [previous EXCEPT ![t] = rows]
    BY <1>8 DEF RetrievePreviouslyReportedForEventTarget
  <2>2. UNCHANGED <<now, reported, current, delivered>>
    BY <1>8 DEF RetrievePreviouslyReportedForEventTarget, tables
  <2>3. pc' = [pc EXCEPT ![t] = "process"]
    BY <1>8 DEF RetrievePreviouslyReportedForEventTarget
  <2>4. previous'[t] = rows /\ \A u \in Target \ {t} : previous'[u] = previous[u]
    BY <2>1 DEF TypeOK
  <2>5. \A u \in Target : pc'[u] \in {"send", "record"} => pc'[u] = pc[u]
    BY <2>3 DEF TypeOK
  <2>6. rows \subseteq reported
    BY BaselineRows
  <2>7. \A r \in rows : r.target = t /\ r.state = "sent"
    BY BaselineRows
  <2>8. TimesAreNotAhead'
    BY <2>2, <2>4, <2>5, <2>6 DEF ClaimsInv, TimesAreNotAhead
  <2>9. NotificationBackendClaimsAreTrue'
    BY <2>2, ClaimStays DEF ClaimsInv, NotificationBackendClaimsAreTrue,
                            ClaimsAreTrue
  <2>10. BaselineClaimsAreTrue'
    <3>1. ASSUME NEW r \in previous'[Kafka]
          PROVE  r.target = Kafka /\ ClaimIsTrue(r)
      <4>1. CASE t = Kafka
        BY <4>1, <2>4, <2>6, <2>7 DEF ClaimsInv, ClaimsAreTrue,
           NotificationBackendClaimsAreTrue, Kafka
      <4>2. CASE t # Kafka
        BY <4>2, <2>4 DEF ClaimsInv, BaselineClaimsAreTrue, Kafka, Target
      <4> QED
        BY <4>1, <4>2
    <3> QED
      BY <2>2, <3>1, ClaimStays DEF BaselineClaimsAreTrue, Kafka
  <2>11. WorkInHandIsTrue'
    BY <2>2, <2>5 DEF ClaimsInv, WorkInHandIsTrue, WasNotified, Target
  <2> QED
    BY <2>8, <2>9, <2>10, <2>11 DEF ClaimsInv
<1> QED
  BY <1>2, <1>3, <1>4, <1>5, <1>6, <1>7, <1>8 DEF Startup

\* An important issue of the stored report that the Kafka job does not send has
\* been notified before: it is in the baseline.
LEMMA PreparedClaims ==
  ASSUME TypeOK, TypeOK', ClaimsInv, NEW t \in Target, NEW r \in newReports,
         PrepareNotification(t, r)
  PROVE  ClaimsInv'
<1>1. UNCHANGED <<now, reported, previous, delivered>>
  BY DEF PrepareNotification, tables
<1>2. now \in Nat /\ now =< now
  BY DEF TypeOK
<1>3. current'[t].notified_at = now
  BY DEF PrepareNotification, TypeOK
<1>4. /\ \A u \in Target \ {t} : current'[u] = current[u] /\ pc'[u] = pc[u]
      /\ pc'[t] \in {"send", "record"}
  BY PreparedWork
<1>5. CASE t # Kafka
  BY <1>1, <1>2, <1>3, <1>4, <1>5, ClaimsFrame
<1>6. CASE t = Kafka
  <2> DEFINE issues == getReportsWithIssuesToNotify(
                r.report, r.entry, disabled[t], Important[t], previous[t])
             stored == filterDisabledRulesFromReport(disabled[t], r.entry, r.report)
  <2>1. /\ current'[t].stored = stored
        /\ current'[t].entry = r.entry
        /\ current'[t].pending = issues
        /\ pc'[t] = IF issues = {} THEN "record" ELSE "send"
    BY <1>6 DEF PrepareNotification, TypeOK, Kafka
  <2>2. ASSUME NEW i \in stored \intersect Important[t], i \notin issues
        PROVE  WasNotified(t, r.entry, i, now)
    <3>1. i \in r.report /\ ~isRuleDisabled(disabled[t], r.entry, i)
      BY DEF filterDisabledRulesFromReport
    <3>2. PICK p \in previous[t] : p.entry = r.entry /\ i \in p.report
      BY <2>2, <3>1 DEF getReportsWithIssuesToNotify, ShouldNotify,
                        IssueNotInReport
    <3>3. p.target = t /\ ClaimIsTrue(p)
      BY <1>6, <3>2 DEF ClaimsInv, BaselineClaimsAreTrue, Kafka
    <3>4. PICK d \in delivered : /\ d.target = t
                                 /\ d.entry = r.entry
                                 /\ d.issue = i
                                 /\ d.notified_at =< p.notified_at
      BY <3>2, <3>3 DEF ClaimIsTrue, WasNotified
    <3>5. p.notified_at =< now
      BY <3>2 DEF ClaimsInv, TimesAreNotAhead
    <3>6. d.notified_at \in Nat /\ p.notified_at \in Nat
      BY <3>2, <3>4 DEF TypeOK, Delivery, NotificationRecord
    <3> QED
      BY <1>2, <3>4, <3>5, <3>6 DEF WasNotified
  <2>3. WorkInHandIsTrue'
    <3>1. pc'[t] = "record" => current'[t].pending = {}
      BY <2>1
    <3>2. \A i \in current'[t].stored \intersect Important[t] :
            \/ i \in current'[t].pending
            \/ \E d \in delivered' : /\ d.target = t
                                     /\ d.entry = current'[t].entry
                                     /\ d.issue = i
                                     /\ d.notified_at =< current'[t].notified_at
      BY <1>1, <1>3, <2>1, <2>2 DEF WasNotified
    <3> QED
      BY <1>6, <3>1, <3>2 DEF WorkInHandIsTrue, WasNotified, Kafka
  <2>4. TimesAreNotAhead'
    BY <1>1, <1>2, <1>3, <1>4 DEF ClaimsInv, TimesAreNotAhead
  <2>5. NotificationBackendClaimsAreTrue'
    BY <1>1, ClaimStays DEF ClaimsInv, NotificationBackendClaimsAreTrue,
                            ClaimsAreTrue
  <2>6. BaselineClaimsAreTrue'
    BY <1>1, ClaimStays DEF ClaimsInv, BaselineClaimsAreTrue
  <2> QED
    BY <2>3, <2>4, <2>5, <2>6 DEF ClaimsInv
<1> QED
  BY <1>5, <1>6

\* A message takes issues from pending to delivered, unless it fails.
LEMMA MessageClaims ==
  ASSUME TypeOK, TypeOK', ClaimsInv, NEW t \in Target,
         ProduceMessageSucceeds(t) \/ ProduceMessageFails(t)
  PROVE  ClaimsInv'
<1>1. /\ UNCHANGED <<now, reported, previous>>
      /\ pc[t] = "send"
      /\ delivered \subseteq delivered'
  BY DEF ProduceMessageSucceeds, ProduceMessageFails, tables
<1>2. now \in Nat /\ now =< now /\ current[t] \in Work
  BY <1>1 DEF TypeOK
<1>3. PICK message \in Messages(t), outcome \in State :
        /\ MessageDone(t, message, outcome)
        /\ t = Kafka => \/ outcome = "error"
                        \/ delivered' = delivered \union Deliveries(t, message)
  <2>1. current[t].outcome \in State
    BY <1>2 DEF Work
  <2> QED
    BY <2>1 DEF ProduceMessageSucceeds, ProduceMessageFails, State, Kafka
<1>4. /\ current'[t] = [current[t] EXCEPT
                          !.pending = current[t].pending \ message,
                          !.outcome = outcome]
      /\ pc'[t] = IF current[t].pending \ message = {} THEN "record" ELSE "send"
      /\ \A u \in Target \ {t} : current'[u] = current[u] /\ pc'[u] = pc[u]
  <2>1. MessageDone(t, message, outcome)
    BY <1>3
  <2> QED
    BY <1>2, <2>1 DEF MessageDone, TypeOK
<1>5. /\ current'[t].pending = current[t].pending \ message
      /\ current'[t].outcome = outcome
      /\ current'[t].entry = current[t].entry
      /\ current'[t].stored = current[t].stored
      /\ current'[t].notified_at = current[t].notified_at
  BY <1>2, <1>4 DEF Work
<1>6. current[t].notified_at =< now
  BY <1>1 DEF ClaimsInv, TimesAreNotAhead
<1>7. CASE t # Kafka
  BY <1>1, <1>2, <1>4, <1>5, <1>6, <1>7, ClaimsFrame
<1>8. CASE t = Kafka
  <2>1. ASSUME outcome # "error",
               NEW i \in current[t].stored \intersect Important[t],
               i \notin current'[t].pending
        PROVE  \E d \in delivered' : /\ d.target = t
                                     /\ d.entry = current[t].entry
                                     /\ d.issue = i
                                     /\ d.notified_at =< current[t].notified_at
    <3>1. Messages(t) = {current[t].pending}
      BY <1>8 DEF Messages, Kafka
    <3>2. CASE i \in message
      <4>1. [target |-> t, entry |-> current[t].entry, issue |-> i,
             notified_at |-> current[t].notified_at] \in delivered'
        BY <1>3, <1>8, <2>1, <3>2 DEF Deliveries
      <4>2. current[t].notified_at \in Nat
        BY <1>2 DEF Work
      <4> QED
        BY <4>1, <4>2
    <3>3. CASE i \notin message
      <4>1. i \notin current[t].pending
        BY <1>5, <2>1, <3>3
      <4>2. WasNotified(t, current[t].entry, i, current[t].notified_at)
        BY <1>1, <1>8, <2>1, <4>1 DEF ClaimsInv, WorkInHandIsTrue, Kafka
      <4> QED
        BY <1>1, <4>2 DEF WasNotified
    <3> QED
      BY <3>2, <3>3
  <2>2. pc'[t] = "record" /\ current'[t].pending = {}
    BY <1>4, <1>5, <1>8 DEF Messages, Kafka
  <2>3. WorkInHandIsTrue'
    <3>1. \/ outcome = "error"
          \/ \A i \in current[t].stored \intersect Important[t] :
               \E d \in delivered' : /\ d.target = t
                                     /\ d.entry = current[t].entry
                                     /\ d.issue = i
                                     /\ d.notified_at =< current[t].notified_at
      BY <2>1, <2>2
    <3> QED
      BY <1>5, <1>8, <2>2, <3>1 DEF WorkInHandIsTrue, WasNotified, Kafka
  <2>4. TimesAreNotAhead'
    BY <1>1, <1>4, <1>5, <1>6 DEF ClaimsInv, TimesAreNotAhead
  <2>5. NotificationBackendClaimsAreTrue'
    BY <1>1, ClaimStays DEF ClaimsInv, NotificationBackendClaimsAreTrue,
                            ClaimsAreTrue
  <2>6. BaselineClaimsAreTrue'
    BY <1>1, ClaimStays DEF ClaimsInv, BaselineClaimsAreTrue
  <2> QED
    BY <2>3, <2>4, <2>5, <2>6 DEF ClaimsInv
<1> QED
  BY <1>7, <1>8

\* What the Kafka job records of the cluster in hand is true.
LEMMA RecordClaims ==
  ASSUME TypeOK, TypeOK', ClaimsInv, NEW t \in Target,
         updateNotificationRecordState(t)
  PROVE  ClaimsInv'
<1>1. /\ UNCHANGED <<now, previous, delivered>>
      /\ pc[t] = "record"
      /\ reported' \subseteq reported \union {RecordOf(t)}
      /\ pc'[t] = "process"
      /\ \A u \in Target \ {t} : current'[u] = current[u] /\ pc'[u] = pc[u]
  BY DEF updateNotificationRecordState, TypeOK
<1>2. now \in Nat /\ now =< now /\ current[t] \in Work
  BY <1>1 DEF TypeOK
<1>3. current[t].notified_at =< now
  BY <1>1 DEF ClaimsInv, TimesAreNotAhead
<1>4. RecordOf(t).target = t /\ RecordOf(t).notified_at = current[t].notified_at
  BY DEF RecordOf
<1>5. CASE t # Kafka
  BY <1>1, <1>2, <1>3, <1>4, <1>5, ClaimsFrame
<1>6. CASE t = Kafka
  <2>1. TimesAreNotAhead'
    BY <1>1, <1>3, <1>4 DEF ClaimsInv, TimesAreNotAhead
  <2>2. RecordOf(t).state # "error" => ClaimIsTrue(RecordOf(t))
    BY <1>1, <1>6 DEF ClaimsInv, WorkInHandIsTrue, ClaimIsTrue, RecordOf, Kafka
  <2>3. \A r \in reported :
          r.target = Kafka /\ r.state \in {"sent", "same"} => ClaimIsTrue(r)
    BY DEF ClaimsInv, NotificationBackendClaimsAreTrue, ClaimsAreTrue, Kafka
  <2>4. \A r \in reported' :
          r.target = Kafka /\ r.state \in {"sent", "same"} => ClaimIsTrue(r)
    BY <1>1, <2>2, <2>3
  <2>5. NotificationBackendClaimsAreTrue'
    BY <1>1, <2>4, ClaimStays DEF NotificationBackendClaimsAreTrue,
                                  ClaimsAreTrue, Kafka
  <2>6. BaselineClaimsAreTrue'
    BY <1>1, ClaimStays DEF ClaimsInv, BaselineClaimsAreTrue
  <2>7. WorkInHandIsTrue'
    BY <1>1, <1>6 DEF WorkInHandIsTrue, Kafka
  <2> QED
    BY <2>1, <2>5, <2>6, <2>7 DEF ClaimsInv
<1> QED
  BY <1>5, <1>6

LEMMA ProcessClaims ==
  ASSUME TypeOK, TypeOK', ClaimsInv, NEW t \in Target,
         processReportsByCluster(t)
  PROVE  ClaimsInv'
<1>1. ASSUME NEW e \in todo[t], SkipCluster(t, e)
      PROVE  ClaimsInv'
  <2>1. now =< now' /\ UNCHANGED <<reported, pc, previous, current, delivered>>
    BY <1>1 DEF SkipCluster, tables, TypeOK
  <2> QED
    BY <2>1, ClaimsFrame
<1>2. ASSUME (\E e \in todo[t] : ReadReportFails(t, e)) \/ WriteReadError(t)
      PROVE  ClaimsInv'
  <2>1. now =< now' /\ UNCHANGED <<reported, previous, delivered>>
    BY <1>2 DEF ReadReportFails, WriteReadError, tables, TypeOK
  <2>2. \A u \in Target : pc'[u] \in {"send", "record"} =>
          pc'[u] = pc[u] /\ current'[u] = current[u]
    BY <1>2 DEF ReadReportFails, WriteReadError, TypeOK
  <2> QED
    BY <2>1, <2>2, ClaimsFrame
<1> QED
  BY <1>1, <1>2, PreparedClaims, MessageClaims, RecordClaims
     DEF processReportsByCluster

-----------------------------------------------------------------------------

\* Initially nothing is recorded and nothing is in hand.
LEMMA InitClaims == Init => ClaimsInv
BY DEF Init, ClaimsInv, TimesAreNotAhead, NotificationBackendClaimsAreTrue,
       ClaimsAreTrue, BaselineClaimsAreTrue, WorkInHandIsTrue, Target

\* The inductive invariant of the Kafka job holds in every reachable state.
THEOREM ClaimsHold == Spec => []ClaimsInv
<1>1. Init => ClaimsInv
  BY InitClaims
<1>2. TypeOK /\ TypeOK' /\ ClaimsInv /\ [Next]_vars => ClaimsInv'
  <2> SUFFICES ASSUME TypeOK, TypeOK', ClaimsInv, [Next]_vars PROVE ClaimsInv'
    OBVIOUS
  <2>1. CASE Environment
    BY <2>1, EnvironmentClaims
  <2>2. ASSUME NEW t \in Target, Startup(t)
        PROVE  ClaimsInv'
    BY <2>2, StartupClaims
  <2>3. ASSUME NEW t \in Target, processReportsByCluster(t)
        PROVE  ClaimsInv'
    BY <2>3, ProcessClaims
  <2>4. ASSUME NEW t \in Target, FinishRun(t) \/ AbortRun(t)
        PROVE  ClaimsInv'
    <3>1. Exit(t) /\ UNCHANGED <<now, reported, delivered>>
      BY <2>4 DEF FinishRun, AbortRun, tables
    <3> QED
      BY <3>1, ExitClaims
  <2>5. CASE UNCHANGED vars
    <3>1. now =< now' /\ UNCHANGED <<reported, pc, previous, current, delivered>>
      BY <2>5 DEF vars, TypeOK
    <3> QED
      BY <3>1, ClaimsFrame
  <2> QED
    BY <2>1, <2>2, <2>3, <2>4, <2>5 DEF Next, Job
<1> QED
  BY <1>1, <1>2, TypeCorrect, PTL DEF Spec

\* Every important issue of a report the Kafka job recorded as "sent" or "same"
\* (produceEntriesToKafka) has reached the customer of that cluster by the time
\* the record bears, whatever crashes, failed inserts, cleanups, broken result
\* sets and rules disabled or enabled meanwhile.
THEOREM NotificationBackendClaims ==
  Spec => []NotificationBackendClaimsAreTrue
<1>1. ClaimsInv => NotificationBackendClaimsAreTrue
  BY DEF ClaimsInv
<1> QED
  BY <1>1, ClaimsHold, PTL

-----------------------------------------------------------------------------
(***************************************************************************)
(* Sent records of either job.                                             *)
(***************************************************************************)

\* Steps that add no sent record and leave the clusters in hand as they are.
LEMMA SentFrame ==
  ASSUME SentInv,
         delivered \subseteq delivered',
         \A r \in reported' : r \in reported \/ r.state # "sent",
         \A t \in Target : pc'[t] \in {"send", "record"} =>
           pc'[t] = pc[t] /\ current'[t] = current[t]
  PROVE  SentInv'
<1>1. NoEmptyMessage'
  BY DEF SentInv, NoEmptyMessage
<1>2. SentWorkHasDelivery'
  BY DEF SentInv, SentWorkHasDelivery, HasDelivery
<1>3. SentRecordHasDelivery'
  BY DEF SentInv, SentRecordHasDelivery, HasDelivery
<1> QED
  BY <1>1, <1>2, <1>3 DEF SentInv

LEMMA ExitSent ==
  ASSUME TypeOK, SentInv, NEW t \in Target, Exit(t),
         UNCHANGED <<reported, delivered>>
  PROVE  SentInv'
<1>1. \A u \in Target : pc'[u] \in {"send", "record"} =>
        pc'[u] = pc[u] /\ current'[u] = current[u]
  BY DEF Exit, TypeOK
<1> QED
  BY <1>1, SentFrame

LEMMA StartupSent ==
  ASSUME TypeOK, SentInv, NEW t \in Target, Startup(t)
  PROVE  SentInv'
<1>1. ASSUME UNCHANGED <<current, delivered>>,
             reported' \subseteq reported,
             \A u \in Target : \/ pc'[u] = pc[u]
                               \/ pc'[u] \notin {"send", "record"}
      PROVE  SentInv'
  BY <1>1, SentFrame
<1>2. CASE StartRun(t)
  BY <1>1, <1>2 DEF StartRun, FirstRead, TypeOK, tables, memory
<1>3. CASE performNewReportsCleanup(t)
  BY <1>1, <1>3 DEF performNewReportsCleanup, TypeOK, memory
<1>4. CASE performOldReportsCleanup(t)
  BY <1>1, <1>4 DEF performOldReportsCleanup, Cleanup, FirstRead, TypeOK, memory
<1>5. CASE ReadClusterRuleToggles(t)
  BY <1>1, <1>5 DEF ReadClusterRuleToggles, TypeOK, tables
<1>6. CASE ReadOrgRuleDisables(t)
  BY <1>1, <1>6 DEF ReadOrgRuleDisables, TypeOK, tables
<1>7. CASE ReadClusterList(t)
  <2>1. \/ Exit(t)
        \/ /\ pc' = [pc EXCEPT ![t] = "readPrevious"]
           /\ UNCHANGED current
    BY <1>7 DEF ReadClusterList
  <2>2. UNCHANGED <<reported, delivered>>
    BY <1>7 DEF ReadClusterList, tables
  <2> QED
    BY <1>1, <2>1, <2>2, ExitSent DEF TypeOK
<1>8. CASE RetrievePreviouslyReportedForEventTarget(t)
  BY <1>1, <1>8 DEF RetrievePreviouslyReportedForEventTarget, TypeOK, tables
<1> QED
  BY <1>2, <1>3, <1>4, <1>5, <1>6, <1>7, <1>8 DEF Startup

\* Nothing has been sent when the work is taken up, and it is sent only if
\* there is an issue to notify.
LEMMA PreparedSent ==
  ASSUME TypeOK, SentInv, NEW t \in Target, NEW r \in newReports,
         PrepareNotification(t, r)
  PROVE  SentInv'
<1>1. UNCHANGED <<reported, delivered>>
  BY DEF PrepareNotification, tables
<1>2. \A u \in Target \ {t} : current'[u] = current[u] /\ pc'[u] = pc[u]
  BY PreparedWork
<1>3. /\ current'[t].outcome # "sent"
      /\ pc'[t] = "send" => current'[t].pending # {}
  BY DEF PrepareNotification, TypeOK
<1>4. NoEmptyMessage'
  BY <1>2, <1>3 DEF SentInv, NoEmptyMessage
<1>5. SentWorkHasDelivery'
  BY <1>1, <1>2, <1>3 DEF SentInv, SentWorkHasDelivery, HasDelivery
<1>6. SentRecordHasDelivery'
  BY <1>1 DEF SentInv, SentRecordHasDelivery, HasDelivery
<1> QED
  BY <1>4, <1>5, <1>6 DEF SentInv

\* The outcome becomes "sent" in the step that delivers an issue.
LEMMA MessageSent ==
  ASSUME TypeOK, SentInv, NEW t \in Target,
         ProduceMessageSucceeds(t) \/ ProduceMessageFails(t)
  PROVE  SentInv'
<1>1. /\ UNCHANGED reported
      /\ pc[t] = "send"
      /\ current[t] \in Work
      /\ current[t].pending # {}
      /\ delivered \subseteq delivered'
  BY DEF ProduceMessageSucceeds, ProduceMessageFails, tables, TypeOK, SentInv,
         NoEmptyMessage
<1>2. PICK message \in Messages(t), outcome \in State :
        /\ MessageDone(t, message, outcome)
        /\ \/ delivered' = delivered \union Deliveries(t, message)
           \/ outcome = "error"
           \/ outcome = current[t].outcome
  <2>1. current[t].outcome \in State
    BY <1>1 DEF Work
  <2> QED
    BY <2>1 DEF ProduceMessageSucceeds, ProduceMessageFails, State
<1>3. /\ current'[t] = [current[t] EXCEPT
                          !.pending = current[t].pending \ message,
                          !.outcome = outcome]
      /\ pc'[t] = IF current[t].pending \ message = {} THEN "record" ELSE "send"
      /\ \A u \in Target \ {t} : current'[u] = current[u] /\ pc'[u] = pc[u]
  <2>1. MessageDone(t, message, outcome)
    BY <1>2
  <2> QED
    BY <1>1, <2>1 DEF MessageDone, TypeOK
<1>4. /\ current'[t].pending = current[t].pending \ message
      /\ current'[t].outcome = outcome
      /\ current'[t].entry = current[t].entry
      /\ current'[t].notified_at = current[t].notified_at
  BY <1>1, <1>3 DEF Work
<1>5. NoEmptyMessage'
  BY <1>3, <1>4 DEF SentInv, NoEmptyMessage
<1>6. ASSUME outcome = "sent"
      PROVE  \E d \in delivered' : /\ d.target = t
                                   /\ d.entry = current[t].entry
                                   /\ d.notified_at = current[t].notified_at
  <2>1. CASE current[t].outcome = "sent"
    BY <1>1, <2>1 DEF SentInv, SentWorkHasDelivery, HasDelivery
  <2>2. CASE delivered' = delivered \union Deliveries(t, message)
    <3>1. PICK i : i \in message
      BY <1>1 DEF Messages
    <3>2. [target |-> t, entry |-> current[t].entry, issue |-> i,
           notified_at |-> current[t].notified_at] \in delivered'
      BY <2>2, <3>1 DEF Deliveries
    <3> QED
      BY <3>2
  <2> QED
    BY <1>2, <1>6, <2>1, <2>2
<1>7. SentWorkHasDelivery'
  <2>1. outcome = "sent" =>
          \E d \in delivered' : /\ d.target = t
                                /\ d.entry = current'[t].entry
                                /\ d.notified_at = current'[t].notified_at
    BY <1>4, <1>6
  <2>2. ASSUME NEW u \in Target \ {t}, pc'[u] \in {"send", "record"},
               current'[u].outcome = "sent"
        PROVE  \E d \in delivered' : /\ d.target = u
                                     /\ d.entry = current'[u].entry
                                     /\ d.notified_at = current'[u].notified_at
    BY <1>1, <1>3, <2>2 DEF SentInv, SentWorkHasDelivery, HasDelivery
  <2> QED
    BY <1>4, <2>1, <2>2 DEF SentWorkHasDelivery, HasDelivery
<1>8. SentRecordHasDelivery'
  BY <1>1 DEF SentInv, SentRecordHasDelivery, HasDelivery
<1> QED
  BY <1>5, <1>7, <1>8 DEF SentInv

LEMMA RecordSent ==
  ASSUME TypeOK, SentInv, NEW t \in Target, updateNotificationRecordState(t)
  PROVE  SentInv'
<1>1. /\ UNCHANGED delivered
      /\ pc[t] = "record"
      /\ reported' \subseteq reported \union {RecordOf(t)}
      /\ pc'[t] = "process"
      /\ \A u \in Target \ {t} : current'[u] = current[u] /\ pc'[u] = pc[u]
  BY DEF updateNotificationRecordState, TypeOK
<1>2. NoEmptyMessage'
  BY <1>1 DEF SentInv, NoEmptyMessage
<1>3. SentWorkHasDelivery'
  BY <1>1 DEF SentInv, SentWorkHasDelivery, HasDelivery
<1>4. RecordOf(t).state = "sent" =>
        HasDelivery(RecordOf(t).target, RecordOf(t).entry, RecordOf(t).notified_at)
  BY <1>1 DEF SentInv, SentWorkHasDelivery, RecordOf
<1>5. SentRecordHasDelivery'
  BY <1>1, <1>4 DEF SentInv, SentRecordHasDelivery, HasDelivery
<1> QED
  BY <1>2, <1>3, <1>5 DEF SentInv

LEMMA SentInvariant == Spec => []SentInv
<1>1. Init => SentInv
  BY DEF Init, SentInv, NoEmptyMessage, SentWorkHasDelivery, SentRecordHasDelivery
<1>2. TypeOK /\ SentInv /\ [Next]_vars => SentInv'
  <2> SUFFICES ASSUME TypeOK, SentInv, [Next]_vars PROVE SentInv'
    OBVIOUS
  <2>1. CASE Environment
    <3>1. UNCHANGED <<reported, pc, current, delivered>>
      BY <2>1 DEF Environment, Tick, InsertReport, CustomerDisablesRule,
                  CustomerEnablesRule, tables, memory
    <3> QED
      BY <3>1, SentFrame
  <2>2. ASSUME NEW t \in Target, Startup(t)
        PROVE  SentInv'
    BY <2>2, StartupSent
  <2>3. ASSUME NEW t \in Target,
               \/ \E e \in todo[t] : SkipCluster(t, e) \/ ReadReportFails(t, e)
               \/ WriteReadError(t)
        PROVE  SentInv'
    <3>1. UNCHANGED <<reported, delivered>>
      BY <2>3 DEF SkipCluster, ReadReportFails, WriteReadError, tables
    <3>2. \A u \in Target : pc'[u] \in {"send", "record"} =>
            pc'[u] = pc[u] /\ current'[u] = current[u]
      BY <2>3 DEF SkipCluster, ReadReportFails, WriteReadError, TypeOK
    <3> QED
      BY <3>1, <3>2, SentFrame
  <2>4. ASSUME NEW t \in Target, FinishRun(t) \/ AbortRun(t)
        PROVE  SentInv'
    <3>1. Exit(t) /\ UNCHANGED <<reported, delivered>>
      BY <2>4 DEF FinishRun, AbortRun, tables
    <3> QED
      BY <3>1, ExitSent
  <2>5. CASE UNCHANGED vars
    BY <2>5, SentFrame DEF vars
  <2> QED
    BY <2>1, <2>2, <2>3, <2>4, <2>5, PreparedSent, MessageSent, RecordSent
       DEF Next, Job, processReportsByCluster
<1> QED
  BY <1>1, <1>2, TypeCorrect, PTL DEF Spec

\* Whichever job writes it, a record in the state "sent" is written only after
\* a message of that very notification reached the customer (the offset or the
\* number of messages the producers return), whatever fails or crashes.
THEOREM SentRecordsAreTrue == Spec => []SentRecordHasDelivery
<1>1. SentInv => SentRecordHasDelivery
  BY DEF SentInv
<1> QED
  BY <1>1, SentInvariant, PTL
=============================================================================
