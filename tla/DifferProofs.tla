---------------------------- MODULE DifferProofs ----------------------------
(***************************************************************************)
(* Proofs about Differ, for every value of its constants: its types, the   *)
(* rules that were disabled, and the read errors.                          *)
(***************************************************************************)
EXTENDS Differ, TLAPS

-----------------------------------------------------------------------------
(***************************************************************************)
(* The operators the steps are built from stay within the types.           *)
(***************************************************************************)

\* The list of clusters read from `new_reports` consists of cluster entries.
LEMMA ClusterListType ==
  ASSUME NEW rows \in SUBSET NewReport,
         NEW seen \in Received(NewestPerCluster(rows))
  PROVE  filterClusterList(seen) \in SUBSET ClusterEntry
<1>1. seen \subseteq NewestPerCluster(rows)
  BY DEF Received
<1>2. NewestPerCluster(rows) \subseteq ClusterEntry
  BY DEF NewestPerCluster, KeyOf, NewReport, ClusterEntry
<1>3. filterClusterList(seen) \subseteq seen
  BY DEF filterClusterList
<1> QED
  BY <1>1, <1>2, <1>3

\* A baseline holds rows of `reported`, all of them sent to the target.
LEMMA BaselineRows ==
  ASSUME NEW target, NEW rows, NEW entries, NEW time,
         NEW seen \in Received(ReadLastNotifiedRecordForClusterList(
                                 target, rows, entries, time))
  PROVE  /\ seen \subseteq rows
         /\ \A r \in seen : r.target = target /\ r.state = "sent"
BY DEF Received, ReadLastNotifiedRecordForClusterList, LastPerCluster, SentTo

-----------------------------------------------------------------------------
(***************************************************************************)
(* Type correctness.                                                       *)
(***************************************************************************)

LEMMA ExitType ==
  ASSUME TypeOK, NEW t \in Target, Exit(t)
  PROVE  /\ pc' \in [Target -> Phase]
         /\ lastRun' \in [Target -> Nat]
         /\ disabled' \in [Target -> DisabledRules]
         /\ todo' \in [Target -> SUBSET ClusterEntry]
         /\ previous' \in [Target -> SUBSET NotificationRecord]
         /\ current' \in [Target -> {NoWork} \union FailedRead \union Work]
         /\ \A u \in Target :
              /\ pc'[u] \in {"send", "record"} => current'[u] \in Work
              /\ pc'[u] = "writeReadError" => current'[u] \in FailedRead
         /\ standing' \in [Target -> DisabledRules]
BY DEF TypeOK, Exit, Phase, DisabledRules, NoneDisabled

LEMMA InitType == Init => TypeOK
<1> USE DEF Init, TypeOK
<1>1. Init => NoneDisabled \in DisabledRules
  BY DEF NoneDisabled, DisabledRules
<1> QED
  BY <1>1 DEF Phase

\* A step of the environment.
LEMMA EnvironmentType == TypeOK /\ Environment => TypeOK'
<1> SUFFICES ASSUME TypeOK, Environment PROVE TypeOK'
  OBVIOUS
<1>1. CASE Tick
  BY <1>1 DEF TypeOK, Tick, tables, external, memory
<1>2. ASSUME NEW entry \in Entry, NEW report \in Uploads,
             InsertReport(entry, report)
      PROVE  TypeOK'
  <2>1. [entry |-> entry, updated_at |-> now, report |-> report] \in NewReport
    BY EnvironmentAssumption DEF TypeOK, NewReport
  <2> QED
    BY <1>2, <2>1 DEF TypeOK, InsertReport, external, memory
<1>3. CASE CustomerDisablesRule
  BY <1>3, EnvironmentAssumption DEF TypeOK, CustomerDisablesRule, tables, memory
<1>4. CASE CustomerEnablesRule
  <2>1. standing' \in [Target -> DisabledRules]
    BY <1>4 DEF TypeOK, CustomerEnablesRule, DisabledRules
  <2> QED
    BY <1>4, <2>1 DEF TypeOK, CustomerEnablesRule, tables, memory
<1> QED
  BY <1>1, <1>2, <1>3, <1>4 DEF Environment

\* A step of a job before its first cluster.
LEMMA StartupType ==
  ASSUME TypeOK, NEW t \in Target, Startup(t)
  PROVE  TypeOK'
<1>1. CASE StartRun(t)
  BY <1>1 DEF TypeOK, StartRun, FirstRead, Phase, DisabledRules, tables,
              external, memory
<1>2. CASE performNewReportsCleanup(t)
  BY <1>2 DEF TypeOK, performNewReportsCleanup, Cleanup, Phase, external, memory
<1>3. CASE performOldReportsCleanup(t)
  BY <1>3 DEF TypeOK, performOldReportsCleanup, Cleanup, FirstRead, Phase,
              external, memory
<1>4. CASE ReadClusterRuleToggles(t)
  BY <1>4 DEF TypeOK, ReadClusterRuleToggles, DisabledRules, Phase, tables,
              external
<1>5. CASE ReadOrgRuleDisables(t)
  BY <1>5 DEF TypeOK, ReadOrgRuleDisables, DisabledRules, Phase, tables,
              external
<1>6. CASE ReadClusterList(t)
  <2>1. PICK rows \in Received(NewestPerCluster(newReports)) :
          LET entries == filterClusterList(rows) IN
          \/ /\ entries = {}
             /\ Exit(t)
          \/ /\ entries # {}
             /\ todo' = [todo EXCEPT ![t] = entries]
             /\ pc' = [pc EXCEPT ![t] = "readPrevious"]
             /\ UNCHANGED <<lastRun, disabled, previous, current, standing>>
    BY <1>6 DEF ReadClusterList
  <2>2. filterClusterList(rows) \in SUBSET ClusterEntry
    BY ClusterListType DEF TypeOK
  <2>3. UNCHANGED <<now, tables, external, delivered>>
    BY <1>6 DEF ReadClusterList
  <2>4. CASE Exit(t)
    BY <2>3, <2>4, ExitType DEF TypeOK, tables, external
  <2>5. CASE /\ todo' = [todo EXCEPT ![t] = filterClusterList(rows)]
             /\ pc' = [pc EXCEPT ![t] = "readPrevious"]
             /\ UNCHANGED <<lastRun, disabled, previous, current, standing>>
    BY <2>2, <2>3, <2>5 DEF TypeOK, Phase, tables, external
  <2> QED
    BY <2>1, <2>4, <2>5
<1>7. CASE RetrievePreviouslyReportedForEventTarget(t)
  <2>1. PICK rows \in Received(ReadLastNotifiedRecordForClusterList(
                                 t, reported, todo[t], now)) :
          previous' = [previous EXCEPT ![t] = rows]
    BY <1>7 DEF RetrievePreviouslyReportedForEventTarget
  <2>2. rows \in SUBSET NotificationRecord
    BY BaselineRows DEF TypeOK
  <2> QED
    BY <1>7, <2>1, <2>2 DEF TypeOK, RetrievePreviouslyReportedForEventTarget,
                            Phase, tables, external
<1> QED
  BY <1>1, <1>2, <1>3, <1>4, <1>5, <1>6, <1>7 DEF Startup

\* The work taken up for a cluster.
LEMMA PreparedWork ==
  ASSUME TypeOK, NEW t \in Target, NEW r \in newReports,
         PrepareNotification(t, r)
  PROVE  /\ r \in NewReport
         /\ r.report \in Report
         /\ current'[t] \in Work
         /\ \A u \in Target \ {t} : current'[u] = current[u]
         /\ current' \in [Target -> {NoWork} \union FailedRead \union Work]
         /\ pc'[t] \in {"send", "record"}
         /\ \A u \in Target \ {t} : pc'[u] = pc[u]
         /\ pc' \in [Target -> Phase]
<1> DEFINE issues == getReportsWithIssuesToNotify(
                       r.report, r.entry, disabled[t], Important[t], previous[t])
           stored == filterDisabledRulesFromReport(disabled[t], r.entry, r.report)
           work(p, o) == [entry |-> r.entry, updated_at |-> r.updated_at,
                          stored |-> stored, pending |-> p,
                          notified_at |-> now, outcome |-> o]
<1>1. r \in NewReport /\ r.report \in Report
  BY DEF TypeOK, PrepareNotification, NewReport
<1>2. issues \in Report /\ stored \in Report
  BY <1>1 DEF getReportsWithIssuesToNotify, filterDisabledRulesFromReport, Report
<1>3. PICK p \in {issues, {}}, o \in {"same", "error"} :
        /\ current' = [current EXCEPT ![t] = work(p, o)]
        /\ \/ pc' = [pc EXCEPT ![t] = "send"]
           \/ pc' = [pc EXCEPT ![t] = "record"]
  BY DEF PrepareNotification
<1>4. work(p, o) \in Work
  BY <1>1, <1>2 DEF Work, State, Report, NewReport, TypeOK
<1> HIDE DEF work
<1> QED
  BY <1>1, <1>3, <1>4 DEF TypeOK, Phase

\* What a message that was sent or refused leaves to do.
LEMMA MessageDoneType ==
  ASSUME TypeOK, NEW t \in Target, pc[t] = "send",
         NEW message \in Messages(t), NEW outcome \in State,
         MessageDone(t, message, outcome)
  PROVE  /\ current[t] \in Work
         /\ message \subseteq current[t].pending
         /\ Deliveries(t, message) \subseteq Delivery
         /\ current'[t] = [current[t] EXCEPT
                             !.pending = current[t].pending \ message,
                             !.outcome = outcome]
         /\ current'[t] \in Work
         /\ \A u \in Target \ {t} : current'[u] = current[u]
         /\ current' \in [Target -> {NoWork} \union FailedRead \union Work]
         /\ pc'[t] = IF current[t].pending \ message = {} THEN "record" ELSE "send"
         /\ \A u \in Target \ {t} : pc'[u] = pc[u]
         /\ pc' \in [Target -> Phase]
<1>1. current[t] \in Work
  BY DEF TypeOK
<1>2. message \subseteq current[t].pending
  BY DEF Messages
<1>3. Deliveries(t, message) \subseteq Delivery
  BY <1>1, <1>2 DEF Deliveries, Delivery, Work, Report
<1>4. current'[t] = [current[t] EXCEPT !.pending = current[t].pending \ message,
                                       !.outcome = outcome]
  BY <1>1 DEF TypeOK, MessageDone
<1>5. current'[t] \in Work
  BY <1>1, <1>4 DEF Work, Report
<1> QED
  BY <1>1, <1>2, <1>3, <1>4, <1>5 DEF TypeOK, MessageDone, Phase

\* A step of the loop over the clusters.
LEMMA ProcessType ==
  ASSUME TypeOK, NEW t \in Target, processReportsByCluster(t)
  PROVE  TypeOK'
<1>1. ASSUME NEW e \in todo[t], SkipCluster(t, e)
      PROVE  TypeOK'
  BY <1>1 DEF TypeOK, SkipCluster, tables, external
<1>2. ASSUME NEW e \in todo[t], ReadReportFails(t, e)
      PROVE  TypeOK'
  <2>1. \A c \in BOOLEAN :
          [entry |-> e.entry, updated_at |-> e.updated_at, checked |-> c]
            \in FailedRead
    BY DEF TypeOK, FailedRead, ClusterEntry
  <2> QED
    BY <1>2, <2>1 DEF TypeOK, ReadReportFails, Phase, tables, external
<1>3. ASSUME NEW r \in newReports, PrepareNotification(t, r)
      PROVE  TypeOK'
  <2>1. /\ current'[t] \in Work
        /\ \A u \in Target \ {t} : current'[u] = current[u]
        /\ current' \in [Target -> {NoWork} \union FailedRead \union Work]
        /\ \A u \in Target \ {t} : pc'[u] = pc[u]
        /\ pc'[t] \in {"send", "record"}
        /\ pc' \in [Target -> Phase]
    BY <1>3, PreparedWork
  <2>2. todo' = [todo EXCEPT ![t] = todo[t] \ {KeyOf(r)}]
    BY <1>3 DEF PrepareNotification
  <2>3. UNCHANGED <<now, tables, external, lastRun, disabled, previous, delivered,
                   standing>>
    BY <1>3 DEF PrepareNotification
  <2> QED
    BY <2>1, <2>2, <2>3 DEF TypeOK, tables, external
<1>4. ASSUME ProduceMessageSucceeds(t) \/ ProduceMessageFails(t)
      PROVE  TypeOK'
  <2>1. PICK message \in Messages(t), outcome \in State :
          /\ MessageDone(t, message, outcome)
          /\ delivered' \in {delivered, delivered \union Deliveries(t, message)}
    <3>1. pc[t] = "send" /\ current[t] \in Work
      BY <1>4 DEF ProduceMessageSucceeds, ProduceMessageFails, TypeOK
    <3>2. current[t].outcome \in State
      BY <3>1 DEF Work
    <3> QED
      BY <1>4, <3>2 DEF ProduceMessageSucceeds, ProduceMessageFails, State
  <2>2. pc[t] = "send"
    BY <1>4 DEF ProduceMessageSucceeds, ProduceMessageFails
  <2>3. UNCHANGED <<now, tables, external, lastRun, disabled, todo, previous,
                   standing>>
    BY <1>4 DEF ProduceMessageSucceeds, ProduceMessageFails
  <2>4. /\ Deliveries(t, message) \subseteq Delivery
        /\ current'[t] \in Work
        /\ \A u \in Target \ {t} : current'[u] = current[u]
        /\ current' \in [Target -> {NoWork} \union FailedRead \union Work]
        /\ \A u \in Target \ {t} : pc'[u] = pc[u]
        /\ pc'[t] \in {"send", "record"}
        /\ pc' \in [Target -> Phase]
    BY <2>1, <2>2, MessageDoneType
  <2> QED
    BY <2>1, <2>3, <2>4 DEF TypeOK, tables, external
<1>5. CASE updateNotificationRecordState(t)
  <2>1. RecordOf(t) \in NotificationRecord
    BY <1>5 DEF TypeOK, updateNotificationRecordState, RecordOf,
                NotificationRecord, Work
  <2> QED
    BY <1>5, <2>1 DEF TypeOK, updateNotificationRecordState, Phase, external
<1>6. CASE WriteReadError(t)
  <2>1. current[t] \in FailedRead
    BY <1>6 DEF TypeOK, WriteReadError
  <2>2. \A n \in 1 .. MaxReadErrors :
          [error_id |-> n, entry |-> current[t].entry,
           updated_at |-> current[t].updated_at, target |-> t,
           checked |-> current[t].checked] \in ReadError
    BY <2>1, BoundsAssumption DEF FailedRead, ReadError
  <2>3. readErrors' \subseteq ReadError
    BY <1>6, <2>2 DEF WriteReadError, TypeOK
  <2> QED
    BY <1>6, <2>3 DEF TypeOK, WriteReadError, Phase, external
<1> QED
  BY <1>1, <1>2, <1>3, <1>4, <1>5, <1>6 DEF processReportsByCluster

\* Every variable keeps its type; whatever the jobs, the writer and the
\* customers do, a stored report parses and a run that sends or records has a
\* cluster in hand.
THEOREM TypeCorrect == Spec => []TypeOK
<1>1. Init => TypeOK
  BY InitType
<1>2. TypeOK /\ [Next]_vars => TypeOK'
  <2> SUFFICES ASSUME TypeOK, [Next]_vars PROVE TypeOK'
    OBVIOUS
  <2>1. CASE Environment
    BY <2>1, EnvironmentType
  <2>2. ASSUME NEW t \in Target, Startup(t)
        PROVE  TypeOK'
    BY <2>2, StartupType
  <2>3. ASSUME NEW t \in Target, processReportsByCluster(t)
        PROVE  TypeOK'
    BY <2>3, ProcessType
  <2>4. ASSUME NEW t \in Target, FinishRun(t) \/ AbortRun(t)
        PROVE  TypeOK'
    <3>1. Exit(t) /\ UNCHANGED <<now, tables, external, delivered>>
      BY <2>4 DEF FinishRun, AbortRun
    <3> QED
      BY <3>1, ExitType DEF TypeOK, tables, external
  <2>5. CASE UNCHANGED vars
    BY <2>5 DEF TypeOK, vars
  <2> QED
    BY <2>1, <2>2, <2>3, <2>4, <2>5 DEF Next, Job
<1> QED
  BY <1>1, <1>2, PTL DEF Spec

-----------------------------------------------------------------------------
(***************************************************************************)
(* Disabled rules.                                                         *)
(***************************************************************************)

\* Steps that leave the history and what the runs have read as they are.
LEMMA RulesFrame ==
  ASSUME RulesInv,
         UNCHANGED <<external, disabled, standing>>,
         \A t \in Target :
           /\ pc'[t] = pc[t] \/ (TogglesRead(t) /\ pc[t] # "readAcks")
                             \/ pc'[t] \in {"cleanReported", "readToggles"}
                             \/ IgnoreDisabledRules
           /\ pc'[t] = "send" => pc[t] = "send" /\ current'[t] = current[t]
  PROVE  RulesInv'
BY DEF RulesInv, TogglesRead, isRuleDisabled, external

LEMMA ExitRules ==
  ASSUME TypeOK, RulesInv, NEW t \in Target, Exit(t), UNCHANGED external
  PROVE  RulesInv'
BY DEF TypeOK, RulesInv, TogglesRead, Exit, NoneDisabled, isRuleDisabled, external

LEMMA EnvironmentRules ==
  ASSUME TypeOK, RulesInv, Environment
  PROVE  RulesInv'
<1>1. CASE Tick \/ \E entry \in Entry, report \in Uploads : InsertReport(entry, report)
  <2>1. UNCHANGED <<external, pc, disabled, current, standing>>
    BY <1>1 DEF Tick, InsertReport, memory
  <2> QED
    BY <2>1, RulesFrame
<1>2. CASE CustomerDisablesRule
  BY <1>2 DEF CustomerDisablesRule, RulesInv, TogglesRead, isRuleDisabled, memory
<1>3. CASE CustomerEnablesRule
  <2>1. \A t \in Target :
          /\ standing'[t].toggles = standing[t].toggles \intersect toggles'
          /\ standing'[t].acks = standing[t].acks \intersect acks'
    BY <1>3 DEF CustomerEnablesRule
  <2>2. UNCHANGED <<pc, disabled, current>>
    BY <1>3 DEF CustomerEnablesRule, memory
  <2> QED
    BY <2>1, <2>2 DEF RulesInv, TogglesRead, isRuleDisabled
<1> QED
  BY <1>1, <1>2, <1>3 DEF Environment

\* The two queries read every row that has been there since the run started.
LEMMA StartupRules ==
  ASSUME TypeOK, RulesInv, NEW t \in Target, Startup(t)
  PROVE  RulesInv'
<1>1. CASE StartRun(t)
  BY <1>1 DEF StartRun, FirstRead, TypeOK, RulesInv, TogglesRead, DisabledRules,
              isRuleDisabled, external, memory
<1>2. CASE performNewReportsCleanup(t) \/ performOldReportsCleanup(t)
  <2>1. UNCHANGED <<external, disabled, current, standing>>
    BY <1>2 DEF performNewReportsCleanup, performOldReportsCleanup, memory
  <2>2. \A u \in Target :
          /\ \/ pc'[u] = pc[u]
             \/ pc'[u] \in {"cleanReported", "readToggles"}
             \/ IgnoreDisabledRules
          /\ pc'[u] = "send" => pc[u] = "send"
    BY <1>2 DEF performNewReportsCleanup, performOldReportsCleanup, FirstRead,
                TypeOK
  <2> QED
    BY <2>1, <2>2, RulesFrame
<1>3. CASE ReadClusterRuleToggles(t)
  BY <1>3 DEF ReadClusterRuleToggles, TypeOK, RulesInv, TogglesRead,
              isRuleDisabled, external
<1>4. CASE ReadOrgRuleDisables(t)
  BY <1>4 DEF ReadOrgRuleDisables, TypeOK, RulesInv, TogglesRead,
              isRuleDisabled, external
<1>5. CASE ReadClusterList(t)
  <2>1. UNCHANGED external
    BY <1>5 DEF ReadClusterList
  <2>2. \/ Exit(t)
        \/ /\ pc' = [pc EXCEPT ![t] = "readPrevious"]
           /\ UNCHANGED <<disabled, current, standing>>
    BY <1>5 DEF ReadClusterList
  <2>3. pc[t] = "readClusterList"
    BY <1>5 DEF ReadClusterList
  <2>4. CASE /\ pc' = [pc EXCEPT ![t] = "readPrevious"]
             /\ UNCHANGED <<disabled, current, standing>>
    BY <2>1, <2>3, <2>4, RulesFrame DEF TypeOK, TogglesRead
  <2> QED
    BY <2>1, <2>2, <2>4, ExitRules
<1>6. CASE RetrievePreviouslyReportedForEventTarget(t)
  BY <1>6, RulesFrame DEF RetrievePreviouslyReportedForEventTarget, TypeOK,
                          TogglesRead
<1> QED
  BY <1>1, <1>2, <1>3, <1>4, <1>5, <1>6 DEF Startup

\* Only issues that are not disabled are taken up to be sent.
LEMMA ProcessRules ==
  ASSUME TypeOK, RulesInv, NEW t \in Target, processReportsByCluster(t)
  PROVE  RulesInv'
<1>1. ASSUME \/ \E e \in todo[t] : SkipCluster(t, e) \/ ReadReportFails(t, e)
             \/ WriteReadError(t)
             \/ updateNotificationRecordState(t)
      PROVE  RulesInv'
  <2>1. UNCHANGED <<external, disabled, standing>>
    BY <1>1 DEF SkipCluster, ReadReportFails, WriteReadError,
                updateNotificationRecordState
  <2>2. /\ pc[t] \in {"process", "writeReadError", "record"}
        /\ pc'[t] # "send"
        /\ \A u \in Target \ {t} : pc'[u] = pc[u] /\ current'[u] = current[u]
    BY <1>1 DEF SkipCluster, ReadReportFails, WriteReadError,
                updateNotificationRecordState, TypeOK
  <2> QED
    BY <2>1, <2>2, RulesFrame DEF TogglesRead
<1>2. ASSUME NEW r \in newReports, PrepareNotification(t, r)
      PROVE  RulesInv'
  <2>1. UNCHANGED <<external, disabled, standing>> /\ pc[t] = "process"
    BY <1>2 DEF PrepareNotification
  <2>2. /\ \A u \in Target \ {t} : current'[u] = current[u] /\ pc'[u] = pc[u]
        /\ pc'[t] \in {"send", "record"}
    BY <1>2, PreparedWork
  <2>3. \A i \in current'[t].pending :
          ~isRuleDisabled(disabled[t], current'[t].entry, i)
    BY <1>2 DEF PrepareNotification, getReportsWithIssuesToNotify, TypeOK
  <2> QED
    BY <2>1, <2>2, <2>3 DEF RulesInv, TogglesRead, isRuleDisabled, external
<1>3. ASSUME ProduceMessageSucceeds(t) \/ ProduceMessageFails(t)
      PROVE  RulesInv'
  <2>1. UNCHANGED <<external, disabled, standing>> /\ pc[t] = "send"
    BY <1>3 DEF ProduceMessageSucceeds, ProduceMessageFails
  <2>2. PICK message \in Messages(t), outcome \in State :
          MessageDone(t, message, outcome)
    <3>1. current[t].outcome \in State
      BY <2>1 DEF TypeOK, Work
    <3> QED
      BY <1>3, <3>1 DEF ProduceMessageSucceeds, ProduceMessageFails, State
  <2>3. /\ current[t] \in Work
        /\ current'[t] = [current[t] EXCEPT
                            !.pending = current[t].pending \ message,
                            !.outcome = outcome]
        /\ \A u \in Target \ {t} : current'[u] = current[u] /\ pc'[u] = pc[u]
        /\ pc'[t] \in {"send", "record"}
    <3>1. current[t] \in Work
      BY <2>1 DEF TypeOK
    <3> QED
      BY <2>2, <3>1, MessageDoneType DEF MessageDone, TypeOK
  <2>4. /\ current'[t].pending \subseteq current[t].pending
        /\ current'[t].entry = current[t].entry
    BY <2>3 DEF Work
  <2> QED
    BY <2>1, <2>3, <2>4 DEF RulesInv, TogglesRead, isRuleDisabled, external
<1> QED
  BY <1>1, <1>2, <1>3 DEF processReportsByCluster

\* Only the sending steps deliver, and only what is pending.
LEMMA DeliveriesAreEnabled ==
  ASSUME TypeOK, RulesInv, ~IgnoreDisabledRules, Next,
         NEW d \in delivered' \ delivered
  PROVE  ~isRuleDisabled(standing[d.target], d.entry, d.issue)
<1>1. PICK t \in Target : ProduceMessageSucceeds(t) \/ ProduceMessageFails(t)
  <2>1. Environment => delivered' = delivered
    BY DEF Environment, Tick, InsertReport, CustomerDisablesRule,
           CustomerEnablesRule
  <2>2. \A t \in Target : Startup(t) => delivered' = delivered
    BY DEF Startup, StartRun, performNewReportsCleanup, performOldReportsCleanup,
           ReadClusterRuleToggles, ReadOrgRuleDisables, ReadClusterList,
           RetrievePreviouslyReportedForEventTarget
  <2>3. \A t \in Target : FinishRun(t) \/ AbortRun(t) => delivered' = delivered
    BY DEF FinishRun, AbortRun
  <2>4. ASSUME NEW t \in Target, processReportsByCluster(t)
        PROVE  \/ delivered' = delivered
               \/ ProduceMessageSucceeds(t) \/ ProduceMessageFails(t)
    BY <2>4 DEF processReportsByCluster, SkipCluster, ReadReportFails,
                WriteReadError, PrepareNotification, updateNotificationRecordState
  <2> QED
    BY <2>1, <2>2, <2>3, <2>4 DEF Next, Job
<1>2. pc[t] = "send" /\ current[t] \in Work
  BY <1>1 DEF ProduceMessageSucceeds, ProduceMessageFails, TypeOK
<1>3. PICK message \in Messages(t) :
        delivered' \subseteq delivered \union Deliveries(t, message)
  BY <1>1 DEF ProduceMessageSucceeds, ProduceMessageFails
<1>4. /\ d.target = t
      /\ d.entry = current[t].entry
      /\ d.issue \in current[t].pending
  BY <1>3 DEF Deliveries, Messages
<1>5. ~isRuleDisabled(disabled[t], current[t].entry, d.issue)
  BY <1>2, <1>4 DEF RulesInv
<1>6. /\ standing[t].toggles \subseteq disabled[t].toggles
      /\ standing[t].acks \subseteq disabled[t].acks
  BY <1>2 DEF RulesInv, TogglesRead
<1> QED
  BY <1>4, <1>5, <1>6 DEF isRuleDisabled

LEMMA InitRules == Init => RulesInv
BY DEF Init, RulesInv, TogglesRead, NoneDisabled

LEMMA NextRules ==
  ASSUME TypeOK, RulesInv, [Next]_vars
  PROVE  RulesInv'
<1>1. ASSUME NEW t \in Target, FinishRun(t) \/ AbortRun(t)
      PROVE  RulesInv'
  <2>1. Exit(t) /\ UNCHANGED external
    BY <1>1 DEF FinishRun, AbortRun
  <2> QED
    BY <2>1, ExitRules
<1>2. CASE UNCHANGED vars
  <2>1. UNCHANGED <<external, pc, disabled, current, standing>>
    BY <1>2 DEF vars, external
  <2> QED
    BY <2>1, RulesFrame
<1> QED
  BY <1>1, <1>2, EnvironmentRules, StartupRules, ProcessRules DEF Next, Job

\* A customer is never notified of an issue that the same toggle or ack has
\* disabled since before the run (loadDisabledRules), for any rules, customers,
\* reports and interleavings.
THEOREM DisabledRulesAreSilent == Spec => DisabledRulesStaySilent
<1>1. Init => RulesInv
  BY InitRules
<1>2. TypeOK /\ RulesInv /\ [Next]_vars => RulesInv'
  BY NextRules
<1>3. TypeOK /\ RulesInv /\ [Next]_vars =>
        [\A d \in delivered' \ delivered :
           ~IgnoreDisabledRules
             => ~isRuleDisabled(standing[d.target], d.entry, d.issue)]_vars
  BY DeliveriesAreEnabled
<1> QED
  BY <1>1, <1>2, <1>3, TypeCorrect, PTL DEF Spec, DisabledRulesStaySilent

-----------------------------------------------------------------------------
(***************************************************************************)
(* Read errors.                                                            *)
(***************************************************************************)

\* Steps that store no read error and do not begin to.
LEMMA ReadErrorsFrame ==
  ASSUME ReadErrorsInv,
         readErrors' \subseteq readErrors,
         \A t \in Target : pc'[t] = "writeReadError" =>
           pc[t] = "writeReadError" /\ current'[t] = current[t]
  PROVE  ReadErrorsInv'
BY DEF ReadErrorsInv, ReadErrorsAreStoredOncePerJob

LEMMA CheckReadErrors ==
  ASSUME TypeOK, ReadErrorsInv, NEW t \in Target, NEW e \in todo[t],
         ReadReportFails(t, e)
  PROVE  ReadErrorsInv'
<1>1. UNCHANGED readErrors
  BY DEF ReadReportFails, tables
<1>2. \A u \in Target \ {t} : pc'[u] = pc[u] /\ current'[u] = current[u]
  BY DEF ReadReportFails, TypeOK
<1>3. ASSUME pc'[t] = "writeReadError", current'[t].checked,
             NEW r \in readErrors
      PROVE  KeyOf(r) # KeyOf(current'[t])
  <2>1. PICK checked \in BOOLEAN :
          /\ checked => ~ReadErrorExists(readErrors, e)
          /\ current'[t] = [entry |-> e.entry, updated_at |-> e.updated_at,
                            checked |-> checked]
    BY <1>3 DEF ReadReportFails, TypeOK
  <2>2. KeyOf(current'[t]) = e
    BY <2>1 DEF KeyOf, TypeOK, ClusterEntry
  <2> QED
    BY <1>3, <2>1, <2>2 DEF ReadErrorExists
<1> QED
  BY <1>1, <1>2, <1>3 DEF ReadErrorsInv, ReadErrorsAreStoredOncePerJob

\* The row that is inserted is the job's first of this report, if it checked.
LEMMA InsertReadErrors ==
  ASSUME TypeOK, ReadErrorsInv, NEW t \in Target, WriteReadError(t)
  PROVE  ReadErrorsInv'
<1>1. /\ pc[t] = "writeReadError"
      /\ pc'[t] = "process"
      /\ \A u \in Target \ {t} : pc'[u] = pc[u] /\ current'[u] = current[u]
  BY DEF WriteReadError, TypeOK
<1>2. CASE readErrors' = readErrors
  BY <1>1, <1>2, ReadErrorsFrame
<1>3. CASE readErrors' # readErrors
  <2>1. PICK row :
          /\ readErrors' = readErrors \union {row}
          /\ row.target = t
          /\ row.checked = current[t].checked
          /\ KeyOf(row) = KeyOf(current[t])
    BY <1>3 DEF WriteReadError, KeyOf
  <2>2. row.checked =>
          \A r \in readErrors : KeyOf(r) = KeyOf(row) => r.target # t
    BY <1>1, <2>1 DEF ReadErrorsInv
  <2>3. ReadErrorsAreStoredOncePerJob'
    BY <2>1, <2>2 DEF ReadErrorsInv, ReadErrorsAreStoredOncePerJob
  <2> QED
    BY <1>1, <2>1, <2>3 DEF ReadErrorsInv
<1> QED
  BY <1>2, <1>3

\* A job stores the read error of a report again only if it could not check
\* (ReadErrorExists, WriteReadError), however often it runs and crashes.
THEOREM ReadErrorsStoredOnce == Spec => []ReadErrorsAreStoredOncePerJob
<1>1. Init => ReadErrorsInv
  BY DEF Init, ReadErrorsInv, ReadErrorsAreStoredOncePerJob
<1>2. TypeOK /\ ReadErrorsInv /\ [Next]_vars => ReadErrorsInv'
  <2> SUFFICES ASSUME TypeOK, ReadErrorsInv, [Next]_vars PROVE ReadErrorsInv'
    OBVIOUS
  <2>1. CASE Environment
    BY <2>1, ReadErrorsFrame DEF Environment, Tick, InsertReport,
       CustomerDisablesRule, CustomerEnablesRule, tables, memory
  <2>2. ASSUME NEW t \in Target,
               Startup(t) \/ FinishRun(t) \/ AbortRun(t)
        PROVE  ReadErrorsInv'
    <3>1. readErrors' \subseteq readErrors
      BY <2>2 DEF Startup, StartRun, performNewReportsCleanup,
         performOldReportsCleanup, ReadClusterRuleToggles, ReadOrgRuleDisables,
         ReadClusterList, RetrievePreviouslyReportedForEventTarget, FinishRun,
         AbortRun, tables
    <3>2. \A u \in Target : pc'[u] = "writeReadError" =>
            pc[u] = "writeReadError" /\ current'[u] = current[u]
      BY <2>2 DEF Startup, StartRun, performNewReportsCleanup,
         performOldReportsCleanup, ReadClusterRuleToggles, ReadOrgRuleDisables,
         ReadClusterList, RetrievePreviouslyReportedForEventTarget, FinishRun,
         AbortRun, Exit, FirstRead, TypeOK, memory
    <3> QED
      BY <3>1, <3>2, ReadErrorsFrame
  <2>3. ASSUME NEW t \in Target,
               \/ \E e \in todo[t] : SkipCluster(t, e)
               \/ \E r \in newReports : PrepareNotification(t, r)
               \/ ProduceMessageSucceeds(t) \/ ProduceMessageFails(t)
               \/ updateNotificationRecordState(t)
        PROVE  ReadErrorsInv'
    <3>1. readErrors' \subseteq readErrors
      BY <2>3 DEF SkipCluster, PrepareNotification, ProduceMessageSucceeds,
         ProduceMessageFails, updateNotificationRecordState, tables
    <3>2. \A u \in Target : pc'[u] = "writeReadError" =>
            pc[u] = "writeReadError" /\ current'[u] = current[u]
      <4>1. CASE \E e \in todo[t] : SkipCluster(t, e)
        BY <4>1 DEF SkipCluster, TypeOK
      <4>2. CASE \E r \in newReports : PrepareNotification(t, r)
        BY <4>2 DEF PrepareNotification, TypeOK
      <4>3. CASE ProduceMessageSucceeds(t) \/ ProduceMessageFails(t)
        BY <4>3 DEF ProduceMessageSucceeds, ProduceMessageFails, MessageDone, TypeOK
      <4>4. CASE updateNotificationRecordState(t)
        BY <4>4 DEF updateNotificationRecordState, TypeOK
      <4> QED
        BY <2>3, <4>1, <4>2, <4>3, <4>4
    <3> QED
      BY <3>1, <3>2, ReadErrorsFrame
  <2>4. CASE UNCHANGED vars
    BY <2>4, ReadErrorsFrame DEF vars
  <2> QED
    BY <2>1, <2>2, <2>3, <2>4, CheckReadErrors, InsertReadErrors
       DEF Next, Job, processReportsByCluster
<1>3. ReadErrorsInv => ReadErrorsAreStoredOncePerJob
  BY DEF ReadErrorsInv
<1> QED
  BY <1>1, <1>2, <1>3, TypeCorrect, PTL DEF Spec
=============================================================================
