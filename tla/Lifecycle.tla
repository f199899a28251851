------------------------------ MODULE Lifecycle ------------------------------
(***************************************************************************)
(* One process of the service from its command line to its exit code: what *)
(* is opened and closed on the way, which failure ends it how, and the     *)
(* pushes of its metrics, one loop in the background and a last push with  *)
(* retries at the end.  What Differ says of tables and messages is a single *)
(* step per cluster here.                                                  *)
(***************************************************************************)
EXTENDS Integers

CONSTANTS
  Configs,       \* the configurations (file and command line) considered
  MaxClusters,   \* bound: clusters a run processes
  NoSnapshot     \* no push is under way

Cli == {"show-version", "show-configuration", "cleanup", "instant-reports",
        "nothing"}

Destination == {"kafka_broker", "service_log"}

\* `metrics` stands for a namespace and a token being set.  TagsSet is never nil
\* once the configuration is loaded, so that check of the set-up cannot fail.
Config ==
  [cli : Cli, enabled : SUBSET Destination, CleanupOnStartup : BOOLEAN,
   IgnoreDisabledRules : BOOLEAN, metrics : BOOLEAN, Retries : Nat,
   RetryAfter : Nat, GatewayTimeBetweenPush : Nat]

ASSUME ConfigsAssumption == Configs \subseteq Config
ASSUME MaxClustersAssumption == MaxClusters \in Nat
ASSUME NoSnapshotAssumption == NoSnapshot \notin Nat

VARIABLES
  config,
  pc,           \* what the main goroutine does next
  storage, aggregator, notifier,   \* what it has opened
  processed,    \* clusters processed, which is also what the counters show
  retries,      \* retries left of the last push
  pushLoop,     \* the goroutine of PushMetricsInLoop
  inFlight,     \* per pusher: the snapshot of the counters under way
  gateway,      \* what the push gateway shows
  exit,         \* how the process ended
  failed,       \* history: the last failure that ends a run
  pushed,       \* history: the last push has succeeded
  overlapped    \* history: it began while one of the loop was under way

opened == <<storage, aggregator, notifier>>
metrics == <<retries, pushLoop, inFlight, gateway, pushed, overlapped>>
vars == <<config, pc, opened, processed, metrics, exit, failed>>

Step == {"checkArgs", "loadConfiguration", "initLogging", "openStorage",
         "cleanupOperation", "cleanNewReports", "cleanOldReports",
         "setupProducer", "openAggregator", "readToggles", "readAcks",
         "closeAggregator", "fetchContent", "readStates", "readTypes",
         "readClusterList", "readPrevious", "process", "closeStorage",
         "closeNotifier", "pushMetrics", "awaitPush", "sleep"}

Phase == Step \union {"exited"}

Resource == {"unopened", "open", "closed", "broken"}

Pusher == {"main", "loop"}

ExitStatus == {"OK", "Configuration", "StorageError", "FetchContentError",
               "KafkaBrokerError", "CleanerError", "ServiceLogError",
               "AggregatorStorageError", "panic"}

\* What can fail, and what else can end a run.
Failure == (Step \ {"checkArgs", "setupProducer", "process", "closeNotifier",
                    "pushMetrics", "awaitPush", "sleep"}) \union
  {"commandLine", "destination", "kafkaProducer", "ocmClient", "accessToken",
   "closeKafka", "storedReport", "nilNotifier", "pushInterval"}

Init ==
  /\ config \in Configs
  /\ pc = "checkArgs"
  /\ storage = "unopened"
  /\ aggregator = "unopened"
  /\ notifier = "unopened"
  /\ processed = 0
  /\ retries = 0
  /\ pushLoop = "off"
  /\ inFlight = [p \in Pusher |-> NoSnapshot]
  /\ gateway = 0
  /\ exit = "none"
  /\ failed = "none"
  /\ pushed = FALSE
  /\ overlapped = FALSE

-----------------------------------------------------------------------------

\* os.Exit: the goroutine of the push loop goes too.
Exit(code) ==
  /\ pc' = "exited"
  /\ exit' = code
  /\ pushLoop' = "off"
  /\ UNCHANGED <<retries, inFlight, gateway, pushed, overlapped>>

Fail(what, code) == failed' = what /\ Exit(code)

Succeed == UNCHANGED failed /\ Exit("OK")

Continue(step) == pc' = step /\ UNCHANGED <<exit, failed>>

\* A step that leads to the next one or ends the process.
Attempt(step, next, code) ==
  /\ pc = step
  /\ \/ Continue(next) /\ UNCHANGED metrics
     \/ Fail(step, code)
  /\ UNCHANGED <<config, opened, processed>>

CheckArgs ==
  /\ pc = "checkArgs"
  /\ \/ config.cli = "show-version" /\ Succeed
     \/ config.cli = "nothing" /\ Fail("commandLine", "Configuration")
     \/ /\ config.cli \notin {"show-version", "nothing"}
        /\ Continue("loadConfiguration")
        /\ UNCHANGED metrics
  /\ UNCHANGED <<config, opened, processed>>

LoadConfiguration ==
  Attempt("loadConfiguration", "initLogging", "Configuration")

InitLogging ==
  /\ pc = "initLogging"
  /\ \/ Fail("initLogging", "Configuration")
     \/ config.cli = "show-configuration" /\ Succeed
     \/ /\ config.cli # "show-configuration"
        /\ Continue("openStorage")
        /\ UNCHANGED metrics
  /\ UNCHANGED <<config, opened, processed>>

\* NewStorage of the notification database, and where Run goes from there.
OpenStorage ==
  /\ pc = "openStorage"
  /\ \/ Fail("openStorage", "StorageError") /\ UNCHANGED storage
     \/ /\ storage' = "open"
        /\ Continue(IF config.cli = "cleanup" THEN "cleanupOperation"
                    ELSE IF config.CleanupOnStartup THEN "cleanNewReports"
                    ELSE "setupProducer")
        /\ UNCHANGED metrics
  /\ UNCHANGED <<config, aggregator, notifier, processed>>

PerformCleanupOperation ==
  /\ pc = "cleanupOperation"
  /\ Succeed \/ Fail("cleanupOperation", "CleanerError")
  /\ UNCHANGED <<config, opened, processed>>

PerformCleanupOnStartup ==
  \/ Attempt("cleanNewReports", "cleanOldReports", "CleanerError")
  \/ Attempt("cleanOldReports", "setupProducer", "CleanerError")

FirstRead ==
  IF config.IgnoreDisabledRules THEN "fetchContent" ELSE "openAggregator"

assertNotificationDestination ==
  /\ pc = "setupProducer"
  /\ \A d \in Destination : config.enabled # {d}
  /\ Fail("destination", "Configuration")
  /\ UNCHANGED <<config, opened, processed>>

SetupKafkaProducer ==
  /\ pc = "setupProducer"
  /\ config.enabled = {"kafka_broker"}
  /\ \/ Fail("kafkaProducer", "KafkaBrokerError") /\ UNCHANGED notifier
     \/ Continue(FirstRead) /\ UNCHANGED metrics /\ notifier' = "open"
  /\ UNCHANGED <<config, storage, aggregator, processed>>

\* Without an OCM client the set-up returns nil, and there is no notifier.
setupServiceLogProducer ==
  /\ pc = "setupProducer"
  /\ config.enabled = {"service_log"}
  /\ \/ Fail("accessToken", "ServiceLogError") /\ UNCHANGED notifier
     \/ /\ failed' = "ocmClient"
        /\ pc' = FirstRead
        /\ UNCHANGED <<exit, metrics, notifier>>
     \/ Continue(FirstRead) /\ UNCHANGED metrics /\ notifier' = "open"
  /\ UNCHANGED <<config, storage, aggregator, processed>>

-----------------------------------------------------------------------------
(***************************************************************************)
(* start.                                                                  *)
(***************************************************************************)

OpenAggregator ==
  /\ pc = "openAggregator"
  /\ \/ Fail("openAggregator", "AggregatorStorageError") /\ UNCHANGED aggregator
     \/ /\ aggregator' = "open"
        /\ Continue("readToggles")
        /\ UNCHANGED metrics
  /\ UNCHANGED <<config, storage, notifier, processed>>

\* loadDisabledRules, and the close after a failed read, whose own error is only
\* logged.
loadDisabledRules ==
  /\ pc \in {"readToggles", "readAcks"}
  /\ \/ /\ Fail(pc, "AggregatorStorageError")
        /\ aggregator' \in {"closed", "broken"}
     \/ /\ Continue(IF pc = "readToggles" THEN "readAcks" ELSE "closeAggregator")
        /\ UNCHANGED <<metrics, aggregator>>
  /\ UNCHANGED <<config, storage, notifier, processed>>

\* Faulty variant: the connection is closed after the failed reads only.
CloseAggregator_Kept ==
  /\ pc = "closeAggregator"
  /\ Continue("fetchContent")
  /\ UNCHANGED <<config, opened, processed, metrics>>

CloseAggregator ==
  /\ pc = "closeAggregator"
  /\ \/ /\ Fail("closeAggregator", "AggregatorStorageError")
        /\ aggregator' = "broken"
     \/ /\ aggregator' = "closed"
        /\ Continue("fetchContent")
        /\ UNCHANGED metrics
  /\ UNCHANGED <<config, storage, notifier, processed>>

FetchContent == Attempt("fetchContent", "readStates", "FetchContentError")

setupNotificationStates == Attempt("readStates", "readTypes", "StorageError")

\* The push loop is started once the types are read; it ends at once if there is
\* nothing to push to.
setupNotificationTypes ==
  /\ pc = "readTypes"
  /\ \/ Fail("readTypes", "StorageError")
     \/ /\ Continue("readClusterList")
        /\ pushLoop' = IF config.metrics THEN "on" ELSE "off"
        /\ UNCHANGED <<retries, inFlight, gateway, pushed, overlapped>>
  /\ UNCHANGED <<config, opened, processed>>

\* A run without clusters is done, without closing or pushing anything.
ReadClusterList ==
  \/ Attempt("readClusterList", "readPrevious", "StorageError")
  \/ /\ pc = "readClusterList"
     /\ Succeed
     /\ UNCHANGED <<config, opened, processed>>

RetrievePreviouslyReportedForEventTarget ==
  Attempt("readPrevious", "process", "StorageError")

\* A cluster is processed.  A stored report that does not parse ends the process
\* there and then, and so does a message without a notifier.
ProcessCluster ==
  /\ pc = "process"
  /\ processed < MaxClusters
  /\ \/ /\ Continue("process")
        /\ processed' = processed + 1
        /\ UNCHANGED metrics
     \/ Fail("storedReport", "StorageError") /\ UNCHANGED processed
     \/ /\ notifier = "unopened"
        /\ Fail("nilNotifier", "panic")
        /\ UNCHANGED processed
  /\ UNCHANGED <<config, opened>>

ProcessClustersEnd ==
  /\ pc = "process"
  /\ processed > 0
  /\ Continue("closeStorage")
  /\ UNCHANGED <<config, opened, processed, metrics>>

\* An error of the storage does not keep the notifier from being closed.
closeStorage ==
  /\ pc = "closeStorage"
  /\ \/ failed' = "closeStorage" /\ storage' = "broken"
     \/ UNCHANGED failed /\ storage' = "closed"
  /\ pc' = "closeNotifier"
  /\ UNCHANGED <<config, aggregator, notifier, processed, metrics, exit>>

\* Faulty variant: the error of the storage is lost.
AfterClose_LosesError ==
  /\ UNCHANGED failed
  /\ pc' = "pushMetrics"
  /\ retries' = config.Retries
  /\ UNCHANGED <<exit, pushLoop, inFlight, gateway, pushed, overlapped>>

\* Faulty variant: the error of the storage becomes one of the notifier.
AfterClose_OtherError ==
  \/ storage = "broken" /\ UNCHANGED failed /\ Exit("ServiceLogError")
  \/ /\ storage = "closed"
     /\ Continue("pushMetrics")
     /\ retries' = config.Retries
     /\ UNCHANGED <<pushLoop, inFlight, gateway, pushed, overlapped>>

\* What close returns once the notifier is closed.
AfterClose ==
  \/ storage = "broken" /\ UNCHANGED failed /\ Exit("StorageError")
  \/ /\ storage = "closed"
     /\ Continue("pushMetrics")
     /\ retries' = config.Retries
     /\ UNCHANGED <<pushLoop, inFlight, gateway, pushed, overlapped>>

\* Closing the Service Log producer does nothing; without one, it panics.
closeNotifier ==
  /\ pc = "closeNotifier"
  /\ \/ notifier = "open" /\ notifier' = "closed" /\ AfterClose
     \/ /\ config.enabled = {"kafka_broker"}
        /\ notifier' = "broken"
        /\ Fail("closeKafka", "KafkaBrokerError")
     \/ /\ notifier = "unopened"
        /\ UNCHANGED notifier
        /\ Fail("nilNotifier", "panic")
  /\ UNCHANGED <<config, storage, aggregator, processed>>

-----------------------------------------------------------------------------
(***************************************************************************)
(* The metrics.                                                            *)
(***************************************************************************)

\* Faulty variant: the counters are those at the start of the loop.
Snapshot_AtStart == 0

\* The counters a push collects.
Snapshot == processed

\* The last push: nothing without a configuration, otherwise a first request.
pushMetrics ==
  /\ pc = "pushMetrics"
  /\ \/ ~config.metrics /\ Succeed
     \/ /\ config.metrics
        /\ Continue("awaitPush")
        /\ inFlight' = [inFlight EXCEPT !["main"] = Snapshot]
        /\ overlapped' = (inFlight["loop"] # NoSnapshot)
        /\ UNCHANGED <<retries, pushLoop, gateway, pushed>>
  /\ UNCHANGED <<config, opened, processed>>

PushSucceeds ==
  /\ pc = "awaitPush"
  /\ gateway' = inFlight["main"]
  /\ inFlight' = [inFlight EXCEPT !["main"] = NoSnapshot]
  /\ pushed' = TRUE
  /\ pc' = "exited"
  /\ exit' = "OK"
  /\ pushLoop' = "off"
  /\ UNCHANGED <<config, opened, processed, retries, overlapped, failed>>

\* Faulty variant: the retries are not counted.
RetriesAfter_Uncounted == retries

RetriesAfter == retries - 1

\* Faulty variant: one retry too many.
MayRetry_OneMore == config.RetryAfter # 0 /\ retries >= 0

MayRetry == config.RetryAfter # 0 /\ retries > 0

\* The request fails, and may have been handled all the same.  Another one
\* follows after a pause while there are retries; without them the failure is
\* logged.
PushFails ==
  /\ pc = "awaitPush"
  /\ gateway' \in {gateway, inFlight["main"]}
  /\ inFlight' = [inFlight EXCEPT !["main"] = NoSnapshot]
  /\ \/ /\ ~MayRetry
        /\ pc' = "exited"
        /\ exit' = "OK"
        /\ pushLoop' = "off"
        /\ UNCHANGED retries
     \/ /\ MayRetry
        /\ pc' = "sleep"
        /\ retries' = RetriesAfter
        /\ UNCHANGED <<exit, pushLoop>>
  /\ UNCHANGED <<config, opened, processed, pushed, overlapped, failed>>

RetryPush ==
  /\ pc = "sleep"
  /\ Continue("awaitPush")
  /\ inFlight' = [inFlight EXCEPT !["main"] = Snapshot]
  /\ overlapped' = (inFlight["loop"] # NoSnapshot)
  /\ UNCHANGED <<config, opened, processed, retries, pushLoop, gateway, pushed>>

\* A tick of PushMetricsInLoop.
LoopPushes ==
  /\ pushLoop = "on"
  /\ config.GatewayTimeBetweenPush > 0
  /\ inFlight["loop"] = NoSnapshot
  /\ inFlight' = [inFlight EXCEPT !["loop"] = Snapshot]
  /\ UNCHANGED <<config, pc, opened, processed, retries, pushLoop, gateway,
                 pushed, overlapped, exit, failed>>

\* The gateway handles a request nothing waits for, or it is lost: one of the
\* loop, or one that was under way when the process ended.
StrayPushEnds(p) ==
  /\ inFlight[p] # NoSnapshot
  /\ p = "loop" \/ pc = "exited"
  /\ gateway' \in {gateway, inFlight[p]}
  /\ inFlight' = [inFlight EXCEPT ![p] = NoSnapshot]
  /\ UNCHANGED <<config, pc, opened, processed, retries, pushLoop, pushed,
                 overlapped, exit, failed>>

\* NewTicker panics for an interval that is not positive, and takes the process
\* with it.
LoopPanics ==
  /\ pushLoop = "on"
  /\ config.GatewayTimeBetweenPush = 0
  /\ Fail("pushInterval", "panic")
  /\ UNCHANGED <<config, opened, processed>>

-----------------------------------------------------------------------------

Prepare ==
  \/ CheckArgs
  \/ LoadConfiguration
  \/ InitLogging
  \/ OpenStorage
  \/ PerformCleanupOperation
  \/ PerformCleanupOnStartup
  \/ assertNotificationDestination
  \/ SetupKafkaProducer
  \/ setupServiceLogProducer

start ==
  \/ OpenAggregator
  \/ loadDisabledRules
  \/ CloseAggregator
  \/ FetchContent
  \/ setupNotificationStates
  \/ setupNotificationTypes
  \/ ReadClusterList
  \/ RetrievePreviouslyReportedForEventTarget
  \/ ProcessCluster
  \/ ProcessClustersEnd
  \/ closeStorage
  \/ closeNotifier

Main == Prepare \/ start \/ pushMetrics \/ RetryPush

LastPushEnds == PushSucceeds \/ PushFails

Background == LoopPushes \/ LoopPanics \/ \E p \in Pusher : StrayPushEnds(p)

Next == Main \/ LastPushEnds \/ Background

Spec == Init /\ [][Next]_vars

\* The main goroutine is scheduled and whatever it calls returns, but for the push
\* of its metrics: that HTTP client has no timeout.
FairSpec == Spec /\ WF_vars(Main)

-----------------------------------------------------------------------------
(***************************************************************************)
(* Properties.                                                             *)
(***************************************************************************)

\* Every variable has its type, and a process has an exit status once it ended.
TypeOK ==
  /\ config \in Configs
  /\ pc \in Phase
  /\ storage \in Resource
  /\ aggregator \in Resource
  /\ notifier \in Resource
  /\ processed \in 0 .. MaxClusters
  /\ retries \in Nat
  /\ pushLoop \in {"off", "on"}
  /\ inFlight \in [Pusher -> Nat \union {NoSnapshot}]
  /\ inFlight["main"] # NoSnapshot => pc \in {"awaitPush", "exited"}
  /\ pc = "awaitPush" => inFlight["main"] # NoSnapshot
  /\ gateway \in Nat
  /\ exit \in ExitStatus \union {"none"}
  /\ exit = "none" <=> pc # "exited"
  /\ failed \in Failure \union {"none"}
  /\ pushed \in BOOLEAN
  /\ overlapped \in BOOLEAN

\* The failures each exit status stands for, by the comments of the constants in
\* differ.go; the one for a Kafka connection that cannot be closed is never used,
\* and errorForTarget names the broker instead.
FailuresOf ==
  [OK |-> {"none"},
   Configuration |->
     {"commandLine", "loadConfiguration", "initLogging", "destination"},
   StorageError |->
     {"openStorage", "readStates", "readTypes", "readClusterList",
      "readPrevious", "storedReport", "closeStorage"},
   FetchContentError |-> {"fetchContent"},
   KafkaBrokerError |-> {"kafkaProducer", "closeKafka"},
   CleanerError |-> {"cleanupOperation", "cleanNewReports", "cleanOldReports"},
   ServiceLogError |-> {"accessToken", "ocmClient"},
   AggregatorStorageError |->
     {"openAggregator", "readToggles", "readAcks", "closeAggregator"},
   panic |-> {"nilNotifier", "pushInterval"}]

\* The exit status of a process names its last failure, and 0 is only returned
\* when there was none: an error is neither lost on its way through close, start
\* and selectError nor turned into another, unless it was the OCM client's.
ExitStatusNamesFailure ==
  exit # "none" /\ failed # "ocmClient" => failed \in FailuresOf[exit]

\* ExitStatusServiceLogError "is raised when Service Log notifier cannot be
\* initialized" (differ.go:73): a missing OCM client ends the run with it.
MissingClientIsReported ==
  exit # "none" /\ failed = "ocmClient" => exit = "ServiceLogError"

Processing == {"fetchContent", "readStates", "readTypes", "readClusterList",
               "readPrevious", "process", "closeStorage", "closeNotifier",
               "pushMetrics", "awaitPush", "sleep"}

\* "The aggregator DB is not kept open during per-cluster processing": its
\* connection has been closed without an error, or was never made.
AggregatorIsNotKeptOpen ==
  pc \in Processing => aggregator \in {"unopened", "closed"}

\* A run that processed clusters and ends with 0 has closed its storage and its
\* notifier, so that nothing a producer buffers is lost silently; the push loop
\* running until the end and failing pushes do not matter.
SuccessMeansClosed ==
  exit = "OK" /\ processed > 0 => storage = "closed" /\ notifier = "closed"

\* After a last push that succeeded the gateway shows the final counters, even
\* if a push of the loop was under way when the process ended, unless that one
\* began before the last push did.
GatewayShowsFinalCounters == pushed /\ ~overlapped => gateway = processed

\* The process ends, however often pushes fail, unless the gateway leaves a push
\* without an answer.
Termination == <>(pc = "exited") \/ <>[](pc = "awaitPush")

Pushing == {"pushMetrics", "awaitPush", "sleep"}

\* Steps to the end at most, but for the clusters and the retries.
PhasesLeft ==
  [checkArgs |-> 21, loadConfiguration |-> 20, initLogging |-> 19,
   openStorage |-> 18, cleanupOperation |-> 17, cleanNewReports |-> 17,
   cleanOldReports |-> 16, setupProducer |-> 15, openAggregator |-> 14,
   readToggles |-> 13, readAcks |-> 12, closeAggregator |-> 11,
   fetchContent |-> 10, readStates |-> 9, readTypes |-> 8,
   readClusterList |-> 7, readPrevious |-> 6, process |-> 5,
   closeStorage |-> 4, closeNotifier |-> 3, pushMetrics |-> 2, sleep |-> 2,
   awaitPush |-> 1]

RetriesLeft == IF pc \in Pushing THEN retries ELSE config.Retries

\* Steps the main goroutine still takes, at most: a cluster is one of them, and a
\* retry is two, the pause and the request.
StepsLeft ==
  IF pc = "exited" THEN 0
  ELSE PhasesLeft[pc] + (MaxClusters - processed) + 2 * RetriesLeft

\* Every step of the main goroutine brings the end of the process nearer, by a
\* number fixed by the configuration and the clusters, and nothing that happens
\* in the background, a push of the loop or an interval that is missing, puts it
\* off: in particular the last push is retried as often as the configuration says
\* and no more.
StepsRunOut ==
  [][/\ StepsLeft' =< StepsLeft
     /\ Main \/ LastPushEnds => StepsLeft' < StepsLeft]_vars

-----------------------------------------------------------------------------
(***************************************************************************)
(* The inductive invariants.                                               *)
(***************************************************************************)

\* The aggregator is open from its opening to the close, and an end of the
\* process between them.
AggregatorInv ==
  aggregator \in {"open", "broken"} =>
    pc \in {"readToggles", "readAcks", "closeAggregator", "exited"}

\* The only failures a run survives: a missing OCM client, and a storage that does
\* not close, until the notifier is closed.
FailureInv ==
  /\ ExitStatusNamesFailure
  /\ exit = "none" =>
       /\ failed \in {"none", "ocmClient", "closeStorage"}
       /\ failed = "closeStorage" <=> storage = "broken"
       /\ storage = "broken" => pc = "closeNotifier"

\* Clusters are processed before the closes, and those before the last push.
ClosingInv ==
  /\ SuccessMeansClosed
  /\ processed > 0 =>
       pc \in {"process", "closeStorage", "closeNotifier", "exited"} \union Pushing
  /\ pc \in Pushing => storage = "closed" /\ notifier = "closed"

\* From the last push on the counters stay, and so does what is under way, unless
\* it began earlier.
GatewayInv ==
  /\ GatewayShowsFinalCounters
  /\ pc = "awaitPush" => inFlight["main"] = processed
  /\ pushed => pc = "exited" /\ inFlight["main"] = NoSnapshot
  /\ (pc = "awaitPush" \/ pushed) /\ ~overlapped =>
       inFlight["loop"] \in {NoSnapshot, processed}
=============================================================================
