--------------------------- MODULE LifecycleProofs ---------------------------
(***************************************************************************)
(* Safety of Lifecycle, for every configuration and every number of        *)
(* clusters: types, the exit status, the aggregator, closing, what the     *)
(* push gateway shows, and the number of steps.                            *)
(***************************************************************************)
EXTENDS Lifecycle, TLAPS

-----------------------------------------------------------------------------
(***************************************************************************)
(* Types.                                                                  *)
(***************************************************************************)

\* The steps before a run starts keep the types.
LEMMA PrepareTypes == TypeOK /\ Prepare => TypeOK'
<1> SUFFICES ASSUME TypeOK, Prepare PROVE TypeOK'
  OBVIOUS
<1> USE ConfigsAssumption DEF TypeOK, Phase, Step, Resource, Pusher, ExitStatus,
        Failure, Exit, Fail, Succeed, Continue, opened, metrics
<1>1. CASE CheckArgs
  BY <1>1 DEF CheckArgs
<1>2. CASE LoadConfiguration
  BY <1>2 DEF LoadConfiguration, Attempt
<1>3. CASE InitLogging
  BY <1>3 DEF InitLogging
<1>4. CASE OpenStorage
  BY <1>4 DEF OpenStorage
<1>5. CASE PerformCleanupOperation
  BY <1>5 DEF PerformCleanupOperation
<1>6. CASE PerformCleanupOnStartup
  BY <1>6 DEF PerformCleanupOnStartup, Attempt
<1>7. CASE assertNotificationDestination
  BY <1>7 DEF assertNotificationDestination
<1>8. CASE SetupKafkaProducer
  BY <1>8 DEF SetupKafkaProducer, FirstRead
<1>9. CASE setupServiceLogProducer
  BY <1>9 DEF setupServiceLogProducer, FirstRead
<1> QED
  BY <1>1, <1>2, <1>3, <1>4, <1>5, <1>6, <1>7, <1>8, <1>9 DEF Prepare

\* So do the steps of start.
LEMMA StartTypes == TypeOK /\ start => TypeOK'
<1> SUFFICES ASSUME TypeOK, start PROVE TypeOK'
  OBVIOUS
<1> USE ConfigsAssumption DEF TypeOK, Phase, Step, Resource, Pusher, ExitStatus,
        Failure, Exit, Fail, Succeed, Continue, opened, metrics
<1>1. CASE OpenAggregator
  BY <1>1 DEF OpenAggregator
<1>2. CASE loadDisabledRules
  BY <1>2 DEF loadDisabledRules
<1>3. CASE CloseAggregator
  BY <1>3 DEF CloseAggregator
<1>4. CASE FetchContent \/ setupNotificationStates
             \/ RetrievePreviouslyReportedForEventTarget
  BY <1>4 DEF FetchContent, setupNotificationStates,
              RetrievePreviouslyReportedForEventTarget, Attempt
<1>5. CASE setupNotificationTypes
  BY <1>5 DEF setupNotificationTypes
<1>6. CASE ReadClusterList
  BY <1>6 DEF ReadClusterList, Attempt
<1>7. CASE ProcessCluster
  BY <1>7, MaxClustersAssumption DEF ProcessCluster
<1>8. CASE ProcessClustersEnd
  BY <1>8 DEF ProcessClustersEnd
<1>9. CASE closeStorage
  BY <1>9 DEF closeStorage
<1>10. CASE closeNotifier
  BY <1>10 DEF closeNotifier, AfterClose, Config
<1> QED
  BY <1>1, <1>2, <1>3, <1>4, <1>5, <1>6, <1>7, <1>8, <1>9, <1>10 DEF start

\* So do the pushes of the metrics.
LEMMA PushTypes ==
  TypeOK /\ (pushMetrics \/ RetryPush \/ LastPushEnds \/ Background) => TypeOK'
<1> SUFFICES ASSUME TypeOK,
                    pushMetrics \/ RetryPush \/ LastPushEnds \/ Background
             PROVE  TypeOK'
  OBVIOUS
<1> USE ConfigsAssumption, MaxClustersAssumption, NoSnapshotAssumption
    DEF TypeOK, Phase, Step, Resource, Pusher, ExitStatus, Failure, Exit, Fail,
        Succeed, Continue, opened, metrics, Snapshot
<1>1. CASE pushMetrics
  <2>1. overlapped' \in BOOLEAN
    BY <1>1, Zenon DEF pushMetrics
  <2> QED
    BY <1>1, <2>1 DEF pushMetrics
<1>2. CASE RetryPush
  <2>1. overlapped' \in BOOLEAN
    BY <1>2, Zenon DEF RetryPush
  <2> QED
    BY <1>2, <2>1 DEF RetryPush
<1>3. CASE PushSucceeds
  BY <1>3 DEF PushSucceeds
<1>4. CASE PushFails
  BY <1>4 DEF PushFails, MayRetry, RetriesAfter
<1>5. CASE LoopPushes
  BY <1>5 DEF LoopPushes
<1>6. CASE LoopPanics
  BY <1>6 DEF LoopPanics
<1>7. ASSUME NEW p \in Pusher, StrayPushEnds(p) PROVE TypeOK'
  BY <1>7 DEF StrayPushEnds
<1> QED
  BY <1>1, <1>2, <1>3, <1>4, <1>5, <1>6, <1>7 DEF LastPushEnds, Background

LEMMA NextTypes == TypeOK /\ [Next]_vars => TypeOK'
<1>1. TypeOK /\ UNCHANGED vars => TypeOK'
  BY DEF TypeOK, vars, opened, metrics
<1> QED
  BY <1>1, PrepareTypes, StartTypes, PushTypes DEF Next, Main

LEMMA InitTypes == Init => TypeOK
<1>1. Init => pushed \in BOOLEAN /\ overlapped \in BOOLEAN
  BY Zenon DEF Init
<1> QED
  BY <1>1, MaxClustersAssumption
     DEF Init, TypeOK, Phase, Step, Resource, Pusher, ExitStatus, Failure

\* Every variable keeps its type in every process, and exactly an ended process
\* has an exit status.
THEOREM LifecycleTypeCorrect == Spec => []TypeOK
BY InitTypes, NextTypes, PTL DEF Spec

-----------------------------------------------------------------------------
(***************************************************************************)
(* The aggregator.                                                         *)
(***************************************************************************)

LEMMA AggregatorStep == TypeOK /\ AggregatorInv /\ [Next]_vars => AggregatorInv'
<1> SUFFICES ASSUME TypeOK, AggregatorInv, [Next]_vars PROVE AggregatorInv'
  OBVIOUS
<1> USE DEF AggregatorInv, Exit, Fail, Succeed, Continue, opened, metrics
<1>1. CASE Prepare
  BY <1>1
     DEF Prepare, CheckArgs, LoadConfiguration, InitLogging, OpenStorage,
         PerformCleanupOperation, PerformCleanupOnStartup, Attempt,
         assertNotificationDestination, SetupKafkaProducer,
         setupServiceLogProducer
<1>2. CASE OpenAggregator
  BY <1>2 DEF OpenAggregator
<1>3. CASE loadDisabledRules
  BY <1>3 DEF loadDisabledRules
<1>4. CASE CloseAggregator
  BY <1>4 DEF CloseAggregator
<1>5. CASE start /\ ~(OpenAggregator \/ loadDisabledRules \/ CloseAggregator)
  BY <1>5
     DEF start, FetchContent, setupNotificationStates, setupNotificationTypes,
         ReadClusterList, RetrievePreviouslyReportedForEventTarget, Attempt,
         ProcessCluster, ProcessClustersEnd, closeStorage, closeNotifier,
         AfterClose
<1>6. CASE pushMetrics \/ RetryPush \/ LastPushEnds
  BY <1>6 DEF pushMetrics, RetryPush, LastPushEnds, PushSucceeds, PushFails
<1>7. CASE Background
  BY <1>7 DEF Background, LoopPushes, LoopPanics, StrayPushEnds
<1>8. CASE UNCHANGED vars
  BY <1>8 DEF vars
<1> QED
  BY <1>1, <1>2, <1>3, <1>4, <1>5, <1>6, <1>7, <1>8 DEF Next, Main, start

\* While a run fetches the content, reads its tables, processes clusters, closes
\* and pushes, its connection to the aggregator is closed or was never made.
THEOREM AggregatorNotKeptOpen == Spec => []AggregatorIsNotKeptOpen
<1>1. Init => AggregatorInv
  BY DEF Init, AggregatorInv
<1>2. TypeOK /\ AggregatorInv => AggregatorIsNotKeptOpen
  BY DEF TypeOK, AggregatorInv, AggregatorIsNotKeptOpen, Processing, Resource
<1> QED
  BY <1>1, <1>2, AggregatorStep, LifecycleTypeCorrect, PTL DEF Spec

-----------------------------------------------------------------------------
(***************************************************************************)
(* The exit status.                                                        *)
(***************************************************************************)

LEMMA FailureStep == TypeOK /\ FailureInv /\ [Next]_vars => FailureInv'
<1> SUFFICES ASSUME TypeOK, FailureInv, [Next]_vars PROVE FailureInv'
  OBVIOUS
<1> USE DEF TypeOK, FailureInv, ExitStatusNamesFailure, FailuresOf, Exit, Fail,
            Succeed, Continue, opened, metrics
<1>1. CASE CheckArgs \/ LoadConfiguration \/ InitLogging \/ OpenStorage
             \/ PerformCleanupOperation \/ PerformCleanupOnStartup
  BY <1>1 DEF CheckArgs, LoadConfiguration, InitLogging, OpenStorage,
              PerformCleanupOperation, PerformCleanupOnStartup, Attempt
<1>2. CASE assertNotificationDestination \/ SetupKafkaProducer
             \/ setupServiceLogProducer
  BY <1>2 DEF assertNotificationDestination, SetupKafkaProducer,
              setupServiceLogProducer, FirstRead
<1>3. CASE OpenAggregator \/ loadDisabledRules \/ CloseAggregator \/ FetchContent
  BY <1>3 DEF OpenAggregator, loadDisabledRules, CloseAggregator, FetchContent,
              Attempt
<1>4. CASE setupNotificationStates \/ setupNotificationTypes
             \/ ReadClusterList \/ RetrievePreviouslyReportedForEventTarget
  BY <1>4 DEF setupNotificationStates, setupNotificationTypes, ReadClusterList,
              RetrievePreviouslyReportedForEventTarget, Attempt
<1>5. CASE ProcessCluster \/ ProcessClustersEnd
  BY <1>5 DEF ProcessCluster, ProcessClustersEnd
<1>6. CASE closeStorage
  BY <1>6 DEF closeStorage
<1>7. CASE closeNotifier
  BY <1>7 DEF closeNotifier, AfterClose
<1>8. CASE pushMetrics \/ RetryPush \/ LastPushEnds
  BY <1>8 DEF pushMetrics, RetryPush, LastPushEnds, PushSucceeds, PushFails
<1>9. CASE Background
  BY <1>9 DEF Background, LoopPushes, LoopPanics, StrayPushEnds
<1>10. CASE UNCHANGED vars
  BY <1>10 DEF vars
<1> QED
  BY <1>1, <1>2, <1>3, <1>4, <1>5, <1>6, <1>7, <1>8, <1>9, <1>10
     DEF Next, Main, Prepare, start

\* However a process ends, its exit status is that of its last failure, but for a
\* missing OCM client; a status 0 means there was no other.
THEOREM ExitStatusIsRight == Spec => []ExitStatusNamesFailure
<1>1. Init => FailureInv
  BY DEF Init, FailureInv, ExitStatusNamesFailure
<1>2. FailureInv => ExitStatusNamesFailure
  BY DEF FailureInv
<1> QED
  BY <1>1, <1>2, FailureStep, LifecycleTypeCorrect, PTL DEF Spec

-----------------------------------------------------------------------------
(***************************************************************************)
(* Closing.                                                                *)
(***************************************************************************)

LEMMA ClosingStep == TypeOK /\ ClosingInv /\ [Next]_vars => ClosingInv'
<1> SUFFICES ASSUME TypeOK, ClosingInv, [Next]_vars PROVE ClosingInv'
  OBVIOUS
<1> USE DEF TypeOK, ClosingInv, SuccessMeansClosed, Pushing, Exit, Fail, Succeed,
            Continue, opened, metrics
<1>1. CASE CheckArgs \/ LoadConfiguration \/ InitLogging \/ OpenStorage
             \/ PerformCleanupOperation \/ PerformCleanupOnStartup
  BY <1>1 DEF CheckArgs, LoadConfiguration, InitLogging, OpenStorage,
              PerformCleanupOperation, PerformCleanupOnStartup, Attempt
<1>2. CASE assertNotificationDestination \/ SetupKafkaProducer
             \/ setupServiceLogProducer
  BY <1>2 DEF assertNotificationDestination, SetupKafkaProducer,
              setupServiceLogProducer, FirstRead
<1>3. CASE OpenAggregator \/ loadDisabledRules \/ CloseAggregator \/ FetchContent
  BY <1>3 DEF OpenAggregator, loadDisabledRules, CloseAggregator, FetchContent,
              Attempt
<1>4. CASE setupNotificationStates \/ setupNotificationTypes
             \/ ReadClusterList \/ RetrievePreviouslyReportedForEventTarget
  BY <1>4 DEF setupNotificationStates, setupNotificationTypes, ReadClusterList,
              RetrievePreviouslyReportedForEventTarget, Attempt
<1>5. CASE ProcessCluster \/ ProcessClustersEnd
  BY <1>5 DEF ProcessCluster, ProcessClustersEnd
<1>6. CASE closeStorage \/ closeNotifier
  BY <1>6 DEF closeStorage, closeNotifier, AfterClose
<1>7. CASE pushMetrics \/ RetryPush
  BY <1>7 DEF pushMetrics, RetryPush
<1>8. CASE LastPushEnds
  BY <1>8 DEF LastPushEnds, PushSucceeds, PushFails
<1>9. CASE Background
  BY <1>9 DEF Background, LoopPushes, LoopPanics, StrayPushEnds
<1>10. CASE UNCHANGED vars
  BY <1>10 DEF vars
<1> QED
  BY <1>1, <1>2, <1>3, <1>4, <1>5, <1>6, <1>7, <1>8, <1>9, <1>10
     DEF Next, Main, Prepare, start

\* A run with clusters that ends with 0 has closed its storage and its notifier
\* without an error.
THEOREM SuccessIsClosed == Spec => []SuccessMeansClosed
<1>1. Init => ClosingInv
  BY DEF Init, ClosingInv, SuccessMeansClosed, Pushing
<1>2. ClosingInv => SuccessMeansClosed
  BY DEF ClosingInv
<1> QED
  BY <1>1, <1>2, ClosingStep, LifecycleTypeCorrect, PTL DEF Spec

-----------------------------------------------------------------------------
(***************************************************************************)
(* The push gateway.                                                       *)
(***************************************************************************)

LEMMA GatewayStep == TypeOK /\ GatewayInv /\ [Next]_vars => GatewayInv'
<1> SUFFICES ASSUME TypeOK, GatewayInv, [Next]_vars PROVE GatewayInv'
  OBVIOUS
<1> USE NoSnapshotAssumption
    DEF TypeOK, GatewayInv, GatewayShowsFinalCounters, Exit, Fail, Succeed,
        Continue, opened, metrics, Pusher, Snapshot
<1>1. CASE Prepare
  BY <1>1
     DEF Prepare, CheckArgs, LoadConfiguration, InitLogging, OpenStorage,
         PerformCleanupOperation, PerformCleanupOnStartup, Attempt,
         assertNotificationDestination, SetupKafkaProducer,
         setupServiceLogProducer, FirstRead
<1>2. CASE start
  BY <1>2
     DEF start, OpenAggregator, loadDisabledRules, CloseAggregator, FetchContent,
         setupNotificationStates, setupNotificationTypes, ReadClusterList,
         RetrievePreviouslyReportedForEventTarget, Attempt, ProcessCluster,
         ProcessClustersEnd, closeStorage, closeNotifier, AfterClose
<1>3. CASE pushMetrics
  <2>1. \/ pc' = "exited" /\ UNCHANGED <<inFlight, gateway, pushed, overlapped>>
        \/ /\ inFlight' = [inFlight EXCEPT !["main"] = processed]
           /\ ~overlapped' => inFlight["loop"] = NoSnapshot
           /\ UNCHANGED <<gateway, pushed>>
    BY <1>3, Zenon DEF pushMetrics
  <2>2. ~pushed /\ UNCHANGED processed
    BY <1>3 DEF pushMetrics
  <2> QED
    BY <2>1, <2>2
<1>4. CASE RetryPush
  <2>1. /\ inFlight' = [inFlight EXCEPT !["main"] = processed]
        /\ ~overlapped' => inFlight["loop"] = NoSnapshot
        /\ UNCHANGED <<gateway, pushed>>
    BY <1>4, Zenon DEF RetryPush
  <2>2. ~pushed /\ UNCHANGED processed
    BY <1>4 DEF RetryPush
  <2> QED
    BY <2>1, <2>2
<1>5. CASE PushSucceeds
  BY <1>5 DEF PushSucceeds
<1>6. CASE PushFails
  BY <1>6 DEF PushFails
<1>7. CASE LoopPushes
  BY <1>7 DEF LoopPushes
<1>8. CASE LoopPanics
  BY <1>8 DEF LoopPanics
<1>9. ASSUME NEW p \in Pusher, StrayPushEnds(p) PROVE GatewayInv'
  BY <1>9 DEF StrayPushEnds
<1>10. CASE UNCHANGED vars
  BY <1>10 DEF vars
<1> QED
  BY <1>1, <1>2, <1>3, <1>4, <1>5, <1>6, <1>7, <1>8, <1>9, <1>10
     DEF Next, Main, LastPushEnds, Background

\* After a last push that succeeded the gateway shows the final counters, now and
\* later, if no push of the loop was under way when it began.
THEOREM GatewayIsRight == Spec => []GatewayShowsFinalCounters
<1>1. Init => GatewayInv
  BY DEF Init, GatewayInv, GatewayShowsFinalCounters
<1>2. GatewayInv => GatewayShowsFinalCounters
  BY DEF GatewayInv
<1> QED
  BY <1>1, <1>2, GatewayStep, LifecycleTypeCorrect, PTL DEF Spec

-----------------------------------------------------------------------------
(***************************************************************************)
(* The number of steps.                                                    *)
(***************************************************************************)

StepsAreLeft == StepsLeft \in Nat /\ (pc # "exited" => StepsLeft > 0)

\* In every state but the last the steps left are a number above 0.
LEMMA StepsLeftIsPositive == TypeOK => StepsAreLeft
<1> SUFFICES ASSUME TypeOK PROVE StepsAreLeft
  OBVIOUS
<1>1. RetriesLeft \in Nat
  BY ConfigsAssumption DEF TypeOK, RetriesLeft, Config
<1>2. MaxClusters - processed \in Nat
  BY MaxClustersAssumption DEF TypeOK
<1>3. pc # "exited" => PhasesLeft[pc] \in Nat \ {0}
  BY DEF TypeOK, Phase, Step, PhasesLeft
<1> HIDE DEF RetriesLeft, PhasesLeft
<1> QED
  BY <1>1, <1>2, <1>3 DEF StepsLeft, StepsAreLeft

LEMMA StepsLeftStaysPositive == TypeOK' => StepsAreLeft'
BY StepsLeftIsPositive, PTL

\* A step to a later phase, with the clusters and retries left that there were,
\* or to the end, leaves fewer steps.
LEMMA LaterPhase ==
  ASSUME TypeOK, TypeOK', pc # "exited", UNCHANGED <<config, processed>>,
         pc' # "exited" => /\ PhasesLeft[pc'] < PhasesLeft[pc]
                           /\ RetriesLeft' = RetriesLeft
  PROVE  StepsLeft' < StepsLeft
<1>1. CASE pc' = "exited"
  <2>1. StepsLeft' = 0
    BY <1>1 DEF StepsLeft
  <2> QED
    BY <2>1, StepsLeftIsPositive DEF StepsAreLeft
<1>2. CASE pc' # "exited"
  <2>1. RetriesLeft \in Nat
    BY ConfigsAssumption DEF TypeOK, RetriesLeft, Config
  <2>2. PhasesLeft[pc] \in Nat /\ PhasesLeft[pc'] \in Nat
    BY <1>2 DEF TypeOK, Phase, Step, PhasesLeft
  <2>3. processed \in Int /\ processed' = processed /\ MaxClusters \in Int
    BY MaxClustersAssumption DEF TypeOK
  <2> HIDE DEF RetriesLeft, PhasesLeft
  <2> QED
    BY <1>2, <2>1, <2>2, <2>3 DEF StepsLeft
<1> QED
  BY <1>1, <1>2

LEMMA PrepareNearsEnd == TypeOK /\ TypeOK' /\ Prepare => StepsLeft' < StepsLeft
<1> SUFFICES ASSUME TypeOK, TypeOK', Prepare PROVE StepsLeft' < StepsLeft
  OBVIOUS
<1>1. pc \notin {"exited"} \union Pushing /\ UNCHANGED <<config, processed>>
  BY DEF Prepare, CheckArgs, LoadConfiguration, InitLogging, OpenStorage,
         PerformCleanupOperation, PerformCleanupOnStartup, Attempt, Pushing,
         assertNotificationDestination, SetupKafkaProducer,
         setupServiceLogProducer, opened
<1>2. pc' # "exited" =>
        PhasesLeft[pc'] < PhasesLeft[pc] /\ pc' \notin Pushing
  <2> USE DEF Exit, Fail, Succeed, Continue, PhasesLeft, Pushing
  <2>1. CASE CheckArgs \/ LoadConfiguration \/ InitLogging \/ OpenStorage
    BY <2>1 DEF CheckArgs, LoadConfiguration, InitLogging, OpenStorage, Attempt
  <2>2. CASE PerformCleanupOperation \/ PerformCleanupOnStartup
    BY <2>2 DEF PerformCleanupOperation, PerformCleanupOnStartup, Attempt
  <2>3. CASE assertNotificationDestination \/ SetupKafkaProducer
               \/ setupServiceLogProducer
    BY <2>3 DEF assertNotificationDestination, SetupKafkaProducer,
                setupServiceLogProducer, FirstRead
  <2> QED
    BY <2>1, <2>2, <2>3 DEF Prepare
<1>3. pc' \notin Pushing => RetriesLeft' = RetriesLeft
  BY <1>1 DEF RetriesLeft
<1> QED
  BY <1>1, <1>2, <1>3, LaterPhase

LEMMA StartNearsEnd == TypeOK /\ TypeOK' /\ start => StepsLeft' < StepsLeft
<1> SUFFICES ASSUME TypeOK, TypeOK', start PROVE StepsLeft' < StepsLeft
  OBVIOUS
<1>1. CASE ProcessCluster
  <2>1. pc = "process" /\ UNCHANGED config
    BY <1>1 DEF ProcessCluster
  <2>2. CASE pc' = "process"
    <3>1. processed' = processed + 1
      BY <1>1, <2>2 DEF ProcessCluster, Fail, Exit
    <3>2. RetriesLeft' = RetriesLeft /\ RetriesLeft \in Nat
      BY <2>1, <2>2, ConfigsAssumption DEF RetriesLeft, Pushing, TypeOK, Config
    <3>3. processed \in Int /\ MaxClusters \in Int
      BY MaxClustersAssumption DEF TypeOK
    <3>4. PhasesLeft[pc] \in Nat /\ PhasesLeft[pc'] = PhasesLeft[pc]
      BY <2>1, <2>2 DEF PhasesLeft
    <3> HIDE DEF RetriesLeft, PhasesLeft
    <3> QED
      BY <2>1, <2>2, <3>1, <3>2, <3>3, <3>4 DEF StepsLeft
  <2>3. CASE pc' # "process"
    <3>1. pc' = "exited" /\ UNCHANGED processed
      BY <1>1, <2>3 DEF ProcessCluster, Continue, Fail, Exit
    <3> QED
      BY <2>1, <3>1, LaterPhase
  <2> QED
    BY <2>2, <2>3
<1>2. CASE start /\ ~ProcessCluster
  <2>1. pc \notin {"exited"} \union Pushing /\ UNCHANGED <<config, processed>>
    BY <1>2
       DEF start, OpenAggregator, loadDisabledRules, CloseAggregator,
           FetchContent, setupNotificationStates, setupNotificationTypes,
           ReadClusterList, RetrievePreviouslyReportedForEventTarget, Attempt,
           ProcessClustersEnd, closeStorage, closeNotifier, Pushing, opened
  <2>2. pc' # "exited" =>
          /\ PhasesLeft[pc'] < PhasesLeft[pc]
          /\ pc' \in Pushing => retries' = config.Retries
    <3> USE DEF Exit, Fail, Succeed, Continue, PhasesLeft, Pushing
    <3>1. CASE OpenAggregator \/ loadDisabledRules \/ CloseAggregator
      BY <3>1 DEF OpenAggregator, loadDisabledRules, CloseAggregator
    <3>2. CASE FetchContent \/ setupNotificationStates
                 \/ setupNotificationTypes
      BY <3>2 DEF FetchContent, setupNotificationStates, Attempt,
                  setupNotificationTypes
    <3>3. CASE ReadClusterList \/ RetrievePreviouslyReportedForEventTarget
                 \/ ProcessClustersEnd
      BY <3>3 DEF ReadClusterList, RetrievePreviouslyReportedForEventTarget,
                  ProcessClustersEnd, Attempt
    <3>4. CASE closeStorage
      BY <3>4 DEF closeStorage
    <3>5. CASE closeNotifier
      BY <3>5 DEF closeNotifier, AfterClose
    <3> QED
      BY <1>2, <3>1, <3>2, <3>3, <3>4, <3>5 DEF start
  <2>3. pc' # "exited" => RetriesLeft' = RetriesLeft
    BY <2>1, <2>2 DEF RetriesLeft
  <2> QED
    BY <2>1, <2>2, <2>3, LaterPhase
<1> QED
  BY <1>1, <1>2

LEMMA PushNearsEnd ==
  TypeOK /\ TypeOK' /\ (pushMetrics \/ RetryPush \/ LastPushEnds) =>
    StepsLeft' < StepsLeft
<1> SUFFICES ASSUME TypeOK, TypeOK', pushMetrics \/ RetryPush \/ LastPushEnds
             PROVE  StepsLeft' < StepsLeft
  OBVIOUS
<1>1. pc \in Pushing /\ pc # "exited" /\ UNCHANGED <<config, processed>>
  BY DEF pushMetrics, RetryPush, LastPushEnds, PushSucceeds, PushFails, Pushing,
         opened
<1>2. CASE pc' = "exited"
  BY <1>1, <1>2, LaterPhase
<1>3. CASE (pushMetrics /\ pc' # "exited") \/ RetryPush
  <2>1. pc' = "awaitPush" /\ pc \in {"pushMetrics", "sleep"}
    BY <1>3 DEF pushMetrics, RetryPush, Continue, Succeed, Exit
  <2>2. UNCHANGED retries
    BY <1>3 DEF pushMetrics, RetryPush, Succeed, Exit
  <2>3. PhasesLeft[pc'] < PhasesLeft[pc]
    BY <2>1 DEF PhasesLeft
  <2>4. RetriesLeft' = RetriesLeft
    BY <2>1, <2>2 DEF RetriesLeft, Pushing
  <2> QED
    BY <1>1, <2>3, <2>4, LaterPhase
<1>4. CASE PushFails /\ pc' # "exited"
  <2>1. pc = "awaitPush" /\ pc' = "sleep" /\ retries' = retries - 1
    BY <1>4 DEF PushFails, RetriesAfter
  <2>2. RetriesLeft = retries /\ RetriesLeft' = retries - 1
    BY <2>1 DEF RetriesLeft, Pushing
  <2>3. retries \in Int /\ processed \in Int /\ MaxClusters \in Int
    BY MaxClustersAssumption DEF TypeOK
  <2>4. PhasesLeft[pc] = 1 /\ PhasesLeft[pc'] = 2
    BY <2>1 DEF PhasesLeft
  <2> HIDE DEF RetriesLeft, PhasesLeft
  <2> QED
    BY <1>1, <2>1, <2>2, <2>3, <2>4 DEF StepsLeft
<1> QED
  BY <1>2, <1>3, <1>4 DEF LastPushEnds, PushSucceeds

\* In the background nothing but the end happens to the main goroutine.
LEMMA BackgroundKeepsEnd ==
  TypeOK /\ TypeOK' /\ (Background \/ UNCHANGED vars) =>
    StepsLeft' =< StepsLeft
<1> SUFFICES ASSUME TypeOK, TypeOK', Background \/ UNCHANGED vars
             PROVE  StepsLeft' =< StepsLeft
  OBVIOUS
<1>1. StepsLeft \in Nat /\ StepsLeft' \in Nat
  BY StepsLeftIsPositive, StepsLeftStaysPositive DEF StepsAreLeft
<1>2. \/ UNCHANGED <<config, pc, processed, retries>>
      \/ pc' = "exited"
  BY DEF Background, LoopPushes, LoopPanics, StrayPushEnds, Fail, Exit, vars,
         metrics
<1>3. CASE UNCHANGED <<config, pc, processed, retries>>
  <2>1. StepsLeft' = StepsLeft
    BY <1>3 DEF StepsLeft, RetriesLeft
  <2> QED
    BY <1>1, <2>1
<1>4. CASE pc' = "exited"
  <2>1. StepsLeft' = 0
    BY <1>4 DEF StepsLeft
  <2> QED
    BY <1>1, <2>1
<1> QED
  BY <1>2, <1>3, <1>4

\* Every step of the main goroutine leaves fewer steps to the end, however many
\* pushes fail and whatever the push loop does: a process takes no more steps
\* than its configuration and its clusters allow.
THEOREM ProcessRunsOut == Spec => StepsRunOut
<1>1. TypeOK /\ TypeOK' /\ [Next]_vars =>
        [/\ StepsLeft' =< StepsLeft
         /\ Main \/ LastPushEnds => StepsLeft' < StepsLeft]_vars
  <2> SUFFICES ASSUME TypeOK, TypeOK', [Next]_vars
               PROVE  /\ StepsLeft' =< StepsLeft
                      /\ Main \/ LastPushEnds => StepsLeft' < StepsLeft
    OBVIOUS
  <2>1. StepsLeft \in Nat /\ StepsLeft' \in Nat
    BY StepsLeftIsPositive, StepsLeftStaysPositive DEF StepsAreLeft
  <2>2. Main \/ LastPushEnds => StepsLeft' < StepsLeft
    BY PrepareNearsEnd, StartNearsEnd, PushNearsEnd DEF Main
  <2>3. Background \/ UNCHANGED vars => StepsLeft' =< StepsLeft
    BY BackgroundKeepsEnd
  <2> HIDE DEF StepsLeft
  <2> QED
    BY <2>1, <2>2, <2>3 DEF Next
<1> QED
  BY <1>1, LifecycleTypeCorrect, PTL DEF Spec, StepsRunOut
=============================================================================
