# Verification of the CCX notification service

The CCX notification service reads the Insights reports of OpenShift clusters
from a database, works out which rule hits a customer has not been told about
yet, and tells them, either through the Kafka topic of the notification backend
or through the Service Log API.  It is a batch program: one CronJob per target,
each run is one process, and nothing but the database survives it.

This directory holds TLA+ models of that program, the TLC configurations that
check them, and proofs that TLAPS checks.  File references are relative to the
root of the repository.

## Inventory

| Part | Code | State | Operations |
|---|---|---|---|
| Notification job | `differ/differ.go`, `differ/comparator.go` | `Differ`: the disabled rules, `PreviouslyReported`, the notifier; gone when the process ends | `Run`, `start`, `processReportsByCluster`, `processReport`, `ProduceEntriesToServiceLog`, `produceEntriesToKafka`, `updateNotificationRecordState` |
| Storage | `differ/storage.go` | tables `new_reports`, `reported`, `read_errors` (notification database), `cluster_rule_toggle`, `rule_disable` (aggregator database) | one SQL statement per method, no transaction spans two of them |
| Cluster filter | `differ/cluster_filter.go` | none | allow list, block list |
| Cleaner | `differ/cleaner.go` | none (deletes rows) | on startup, or stand-alone from the command line |
| Service Log producer | `producer/servicelog/`, `ocmclient/` | access token, refresh delay | `New`, `ProduceMessage`, token refresh with pauses, second post |
| Kafka producer | `producer/kafka/` | a sarama connection | `New`, `ProduceMessage`, `Close` |
| Disabled producer | `producer/disabled/` | none | returns offset -1 |
| Renderer, content service | `differ/renderer.go`, `differ/content.go` | none | two HTTP requests: rule content once per run, rendered texts once per cluster |
| Metrics | `differ/metrics.go` | counters, a status gauge | a push loop beside the run, a last push with retries |
| Event filter, tags, risk | `differ/differ.go`, `types/types.go` | none | pure functions of a rule and the configuration |
| Configuration, command line | `conf/`, `cmd/`, `differ/cli.go` | none | read once |
| Notification writer, aggregator | other repositories | they write the tables this service reads | inserts, deletes, updates |

How they interact.  A run (1) optionally cleans both tables, (2) reads the
disabled rules, unless told to ignore them, (3) reads the newest report row of
every cluster and filters the clusters, (4) reads the last sent record of each
of these clusters that is still in cool down (the *baseline*), (5) for each
cluster reads the report, drops the rule hits that are disabled, below the
filter, or part of the baseline, sends what is left, and inserts a row in
`reported` with the state `sent`, `same` or `error`.  The two jobs run at the
same time on the same tables, while the writer inserts reports and customers
disable and enable rules.

What is hard about it:

* **Crashes.**  A message and the row that remembers it are two effects without
  a transaction.  The pod can die between them, its deadline can pass, the
  insert can fail (and is then only logged).
* **Uncertain delivery.**  A producer can return an error for a message that
  arrived.
* **One record for many issues.**  A row of `reported` holds a whole report and
  one state; it silences issues it never caused a message for, and it cannot
  say which Service Log entries failed.
* **The baseline.**  It is one row per cluster chosen by a query, copied to
  memory before a loop that may take hours, with a cleanup on another column.
* **Two jobs, one database**, and clusters that change organization.
* **Silent truncation** of result sets when a connection breaks.
* **The Service Log producer**: a timeout races a late answer, an expired token
  means the same message is posted twice, the refresh pauses grow.
* **Ending.**  A dozen steps can fail before the first cluster is processed and
  some after the last; each has a status to end with and something to close.
  The last push of the metrics races with the loop that pushes them meanwhile.

What makes each part correct:

* job: a record only claims what was delivered; a repeat within the cool down
  happens only for a known reason; a persistent issue is notified in the end;
* storage: the baseline of a job holds only its own records, newest first;
* cleaner: losing rows may cause a repeat, never a missed notification;
* producer: success implies delivery, nothing is delivered twice, a call
  returns, and the pauses are bounded;
* disabled rules: an issue disabled throughout a run is not notified;
* set-up and end: the exit status names what went wrong, 0 means that everything
  has been closed, and the process does end;
* metrics: the push gateway is left with the final counters.

`PROJECT.json` lists the hazards one by one, each at its line.

## Modules

| Module | What it models |
|---|---|
| `NotificationDB` | rows, queries and statements of `storage.go`, the cluster filter, and the decisions of `comparator.go` and `differ.go` on rows already read, as operators |
| `Differ` | both jobs, the writer, the customers and the clock |
| `Notification` | what the jobs promise about repeats, without saying how: the abstract specification `Differ` implements |
| `NotificationCycle` | one cluster, run after run without an end: what its customer is told eventually |
| `RuleFilters` | the rule hits of one report: rule names, total risk, the filters, the two loops that choose what to notify, and the Service Log entries made from it |
| `Producer` | what the job relies on when it calls `ProduceMessage`: the abstract specification of a producer |
| `ServiceLogProducer` | the Service Log producer in detail; implements `Producer` |
| `Lifecycle` | one process from its command line to its exit status: set-up, closing, failures, and the pushes of the metrics |
| `MCDiffer`, `MCNotificationCycle`, `MCRuleFilters`, `MCServiceLogProducer`, `MCLifecycle` | values for TLC |
| `DifferProofs` | type correctness of `Differ`; disabled rules stay silent; read errors are stored once per job |
| `DifferClaimsProofs` | the records of the Kafka job are true; a sent record of either job has its delivery |
| `NotificationProofs` | what `Notification` implies about repeats |
| `DifferPromiseProofs` | `Differ` implements `Notification` |
| `ServiceLogProducerProofs` | types, bounded pauses, the time a refresh is given, the refinement of `Producer`, and the configured timeout |
| `LifecycleProofs` | types, the four safety properties of `Lifecycle`, and that its steps run out |
| `RuleFiltersProofs` | lemmas on texts, risks, names and loops; the three properties of `RuleFilters` |
| `NotificationCycleProofs` | the two safety properties of `NotificationCycle` |

`Differ` EXTENDS `NotificationDB`.  `ServiceLogProducer` instantiates `Producer`
as `Contract`, with the history variables `status` and `arrived` of the same
names.  `Differ` instantiates `Notification` as `Promise`, with the records in the
state `sent` for `sent` and `now` and `delivered` of the same names: a message of
either job is a `Notify`, a sent record a `Remember`, a cleanup a `Forget`, and
every other step a stutter.  `RuleFilters` instantiates `NotificationDB` and shows
that its loops compute what `Differ` takes from there with the constant
`Important`.  `NotificationCycle` stands on `Notification`: since only the last
sent record of a cluster counts, it keeps no other.

The two actions `ProduceMessageSucceeds` and `ProduceMessageFails` of
`Differ` are the two ways a call of `Producer` returns.  `Lifecycle` and `Differ`
look at the same `Run` and `start` from two sides: `Differ` has the tables and
the messages and lets a run end at any step (`AbortRun`); `Lifecycle` has every
step that can fail, and what a cluster means is one step of it.

### Correspondence: `Differ`

| Model | Code |
|---|---|
| `newReports`, `reported`, `readErrors` | the tables of the notification database |
| `toggles`, `acks` | `cluster_rule_toggle` and `rule_disable` |
| `disabled[t]` | `ClusterDisabledRules`, `OrgDisabledRules` |
| `todo[t]` | `clusters` in `start`, the part the loop has not reached |
| `previous[t]` | `PreviouslyReported[t]` |
| `current[t]` | the local variables of `processReportsByCluster` for one cluster |
| `pc[t]` | where the run is; `"idle"` is no process |
| `delivered`, `standing[t]` | history: what reached customers; the toggles and acks that have been there since the run started |
| `StartRun` | the CronJob starts a process (`concurrencyPolicy: Forbid`) |
| `performNewReportsCleanup`, `performOldReportsCleanup` | `PerformCleanupOnStartup`, two statements |
| `ReadClusterRuleToggles`, `ReadOrgRuleDisables` | `loadDisabledRules`, two queries |
| `ReadClusterList` | `ReadClusterList`, the filter, the early return for no clusters |
| `RetrievePreviouslyReportedForEventTarget` | same |
| `SkipCluster`, `ReadReportFails`, `PrepareNotification` | the three ways an iteration begins: no usable report, a failed read, a report |
| `ReadReportFails`, `WriteReadError` | `ReadErrorExists`, which may fail itself (the error is logged and the insert tried), and the insert, which needs the report to be there still; two steps |
| `ProduceMessageSucceeds`, `ProduceMessageFails` | one Kafka message with all events, or one Service Log entry per issue |
| `updateNotificationRecordState` | the record, or a failed insert that is logged |
| `FinishRun`, `AbortRun` | the end of the loop; a crash, a deadline or an error that calls for `os.Exit` |

A run is cut exactly where it touches something shared: one step per table
access and per message.  `notified_at` is taken in `PrepareNotification`, where
the code calls `time.Now()`, and not when the record is written; the report that
is stored with a record is the one without disabled rules, as in
`filterDisabledRulesFromReport`.

Abstractions:

* An issue stands for the triple (type, module, error key) that `IssuesEqual`
  compares; a report is a set of issues.  `Malformed` is a report
  `json.Unmarshal` rejects.
* A tick is an arbitrary unit of time.  At most one run of a target ends per
  tick and the next one starts later: the code stamps with microseconds, and
  two runs of one target never share a stamp.
* `Important[t]` stands for the event filter and the tag filter of target `t`,
  with the rule content fixed.
* The order of the cluster list is left open (the loop takes any cluster next).
* A row of `new_reports` is stamped with the clock when it is inserted, and there
  is one per cluster and tick.  In the schema the organization is part of the key,
  too, and the stamp is the writer's, the time of the check.  The models thus assume
  that rows of a cluster come in the order of their stamps; `KeepsPromise`,
  `RepeatsAreExplained`, and the theorems `JobsKeepPromise` and `JobsExplainRepeats`
  rest on it.  A row that comes late, behind a newer one, is never the newest one of
  its cluster, which is the one a job takes.
* Kafka messages are delivered at most once (`Producer`).  The retries of sarama
  itself may duplicate one; `delivered` is a set, and no property of `Differ`
  depends on the number of copies.
* Account numbers, Kafka offsets, error texts, the notification type and the
  metrics are left out.
* The columns of a read error are its key; `target` and `checked` say who wrote it
  and whether the check had been answered, for the property only.
* `BrokenStreams = TRUE` lets the queries whose loops do not look at
  `rows.Err()` return any part of their result.
* A message that arrives after its call returned an error is delivered in the
  step of that return.
* A stand-alone cleanup from the command line executes the same two statements
  and is not a separate actor.

### Correspondence: `RuleFilters`

| Model | Code |
|---|---|
| `input` | `reportItems`, the rule content, the two maps of disabled rules, `PreviouslyReported` for the cluster, and what `SetupFiltersAndThresholds` took from the configuration |
| a module `[path, name, suffix]` | `path.name` or `path.name.report`: `TrimSuffix` and `ruleIDToRuleName` (after the last dot) cut it |
| `AppendEvents`, `getReportsWithIssuesToNotify` | one iteration of the loop for Kafka, and of its copy for Service Log |
| `renderReportsForCluster` | an error, or texts for some of the issues in any order |
| `createAndSendServiceLogEntry` | one iteration of `ProduceEntriesToServiceLog`: no text, a refused entry, or an entry |
| `Truncated` | the cut of `createServiceLogEntry` in bytes, followed by `json.Marshal`, which turns each byte of a character that was cut through into U+FFFD |

A text is the increasing sequence of the byte positions at which its characters
end, each one to four bytes after the one before; that is all a cut at a byte
depends on, and the length in bytes is the last element.  `Joined` puts one text
after another.  The constants are restricted by four assumptions: the reports and
rows are made of the modules and keys there are; the filters and the texts have
their types; and the total risk of a rule in the content is at most
`TotalRiskMax` (`ContentsAssumption`), the highest one that has a name
(`differ.go:81`) — a higher one would go out as Low.  The filter
expression is the default one (`totalRisk >= totalRiskThreshold`, the one in
`config.toml` and in the documentation) or one that cannot be evaluated; others
are the business of the expression library.  The description of an entry is its
text with the link appended (`addDetailedInfoURLToRenderedReport`) and then cut, so
the link is what a long text loses; the limits are counted in bytes
before the encoding, and an entry with replacement characters may be longer in
bytes, never in characters.  Two modules of the same plain name share the rule
content and the rendered text; the property is about the name.

### Correspondence: `NotificationCycle`

| Model | Code |
|---|---|
| `target` | whose CronJob it is |
| `newest` | what a run finds for the cluster: its newest report without what is disabled |
| `last` | the last sent record, with its age instead of a time |
| `listed`, `baseline`, `pending`, `outcome`, `age` | the memory of the run |
| `ReadClusterList` ... `updateNotificationRecordState` | the steps of `Differ` of these names, for one cluster |
| `AbortRun` | an error, a crash, the deadline |
| `told` | history: what the customer was told of, until a sent record without it is written |

All issues pass the filters, the same ones all the time.  Ages stop growing at
the cool down; from there on they make no difference.

### Correspondence: `ServiceLogProducer`

| Model | Code |
|---|---|
| `pc`, `message` | the position in `ProduceMessage` and its argument |
| `TokenRefreshmentDelay` | the field of the same name |
| `tokenAccepted` | whether Service Log accepts `AccessToken` |
| `requests`, `reply` | requests that Service Log has yet to handle; the answer to the one awaited |
| `waited` | history: time slept between two posts of a message |
| `New` | `New`: without a first token there is no producer |
| `Post`, `PostFails` | building and sending a request |
| `ConnectionBreaks`, `RequestTimesOut` | `client.Do` returns an error: the connection is lost, or there is no answer within the timeout of the client |
| `ClientTimeout`, `AsDuration` | `time.Second * producer.Configuration.Timeout`, a product of two durations, in the 64 bits of Go |
| `ReceiveCreated`, `ReceiveUnauthorized`, `ReceiveUnexpectedStatus` | 201, 401, anything else |
| `RefreshSucceeds`, `RefreshFails`, `Sleep` | `refreshToken` and the loop around it |
| `HandleRequest`, `ExpireToken` | external: Service Log, and time |

`FreshTokensAccepted` says that Service Log accepts the token `GetTokens`
returns; the SDK may return one it already has, so the constant is an assumption
about its margin before the expiry, too.  An expired token is refused with 401 before anything is created; this is what
the client of an HTTP API may assume, and it is the only other assumption about
Service Log.  It may create an entry and still answer with an error, it may
answer late, or never.

### Correspondence: `Lifecycle`

| Model | Code |
|---|---|
| `pc` | the next call of the main goroutine: `main`, `Run`, `New`, `start`, `close`, `pushMetrics`, in this order |
| `config` | the command line and the part of the configuration that decides what is done |
| `storage`, `aggregator`, `notifier` | connections opened so far; `"broken"` is one whose `Close` failed, `"unopened"` for `notifier` a nil interface |
| `Attempt`, `Fail`, `Succeed` | a step that returns an error or not; the error becomes a status in `selectError` or `main` |
| `setupServiceLogProducer` | its three ways out: no token, no OCM client (returns nil), a producer |
| `ProcessCluster` | one cluster; also `os.Exit` in `getNotificationResolution`, and the panic of a nil notifier |
| `closeStorage`, `closeNotifier`, `AfterClose` | `Differ.close` and what it returns |
| `pushMetrics`, `PushSucceeds`, `PushFails`, `RetryPush` | the last push and its retries |
| `LoopPushes`, `LoopPanics` | `PushMetricsInLoop` in its goroutine |
| `inFlight`, `StrayPushEnds` | requests to the gateway; one that is under way when the process ends may still arrive |
| `failed`, `pushed`, `overlapped` | history: the last failure that ends a run; the last push succeeded; it began during a push of the loop |

The counters are one number, the clusters processed: every counter only grows
until the last push.  `NewStorage` does not connect (`sql.Open`), so it fails
for an unknown driver only; that the step may fail at any time is more than the
code does.  `SetupFiltersAndThresholds` cannot fail, since `LoadConfiguration`
makes both tag sets.  A kill from outside (the job's deadline) has no exit status
of the program and is left to `Differ`.

## Runs

| Run | Question | Expected |
|---|---|---|
| `kafka_job` | Does the Kafka job record only what it delivered, keep its promise about repeats and stay silent about what is disabled, with all report kinds, a rule switched on and off by toggle and by ack, cleanups, read errors and crashes? | pass |
| `kafka_orgs` | Are its records true and repeats explained when two clusters move between organizations? | pass |
| `two_jobs` | Do the two jobs keep out of each other's way on one database, even with a cleanup shorter than the cool down and truncated result sets, and does each store a read error only once? | pass |
| `rule_filters` | Do both loops choose the issues `Differ` takes for granted, whatever the formats of the names, the risks and the filters? Do Service Log entries belong to their issues, and fit? | pass |
| `notification_cycle` | Is a customer told of an issue that stays, and of whatever is silenced, and told again after the cool down? | pass |
| `service_log_producer` | Does the Service Log producer keep the contract, with the delays of the code (1 and 30 seconds)? Does it try a refresh long enough, and not too long? Does a call return, with a client that has a timeout? | pass |
| `lifecycle` | Does a process end, in a bounded number of steps, with the status of its failure, everything closed, and the gateway showing the final counters, for every command line and configuration and a failure at any step? | pass |
| `cooldown_per_issue` | Is the cool down kept per issue, as `docs/configuration.md` says? | violation |
| `broken_stream` | Is it kept for a single issue when a result set ends early? | violation |
| `servicelog_timeout` | Does a request to Service Log end, with the timeout of `config.toml`? | violation |
| `missing_client` | Does the status say so when the OCM client cannot be created? | violation |
| `servicelog_sent` | Does `sent` mean that the notification was delivered, for Service Log? | violation |

### Properties

* `NotificationBackendClaimsAreTrue`: every important issue of a report the
  Kafka job recorded as `sent` or `same` has reached that customer by then.  The
  silence of the following week rests on those rows.  A row written before the
  message, a disabled rule stored with the report, a baseline of the wrong
  target or organization would all break it, each only after several runs.
* `SentRecordHasDelivery`: a `sent` row of either job belongs to a message that
  got through.
* `RepeatsAreExplained`: two notifications of one issue within the cool down
  imply that the first one left no `sent` row, or that a newer `sent` row of the
  cluster without the issue took its place.  It is checked with whole result
  sets only; `broken_stream` shows what a truncated one does.
* `KeepsPromise`: the refinement `Promise!Spec`.  A step of a job may only deliver
  what no last sent record in cool down silences *at that moment*, although the
  job decided on a copy it read before its loop; it records as sent what was sent,
  with nothing newer recorded before; and cleanups forget the oldest reports
  first.
* `DisabledRulesStaySilent`: nothing is delivered that one and the same toggle or
  ack has disabled since before the run began.  The exception, a row that comes
  while another one goes between the two reads, is real.
* `ReadErrorsAreStoredOncePerJob`: two rows for one report come from two jobs, or
  from a job whose check failed.
* `LoopsImplementDecision`: the issues chosen by either loop are those of
  `getReportsWithIssuesToNotify` of `NotificationDB`, with the important ones
  stated without divisions, suffixes and look-ups.
* `EntriesAreOfTheirIssues`: an entry has the text of a rule of its issue's name
  and key and its severity follows the risk; `EntriesFit`: it is within
  the limits and loses no more than it has to.
* `SilencedIssuesAreTold` (Kafka): whatever the last sent record may silence, the
  customer has been told of, even after a cleanup, a crash between message and
  record, or issues that came and went in between.
* `SilenceIsRenewedByNews`: the cool down starts again only by a record with an
  issue that was not silenced and was told; a run with nothing new, a failed one or
  a crashed one never prolongs it.
* `PersistentIssuesAreTold` (Kafka): an issue that stays in the reports for ever
  is, again and again, one the customer has been told of.  Nothing keeps it
  silenced without that, even if other issues come and go and renew the sent
  record for ever.  For Service Log it does not hold: a failed entry is part of
  the sent record of its report (`servicelog_sent`), and two issues that take
  turns can renew that record for ever.
* `SteadyReportsAreRepeated`: while the report stays the same, its issues are
  notified again and again: runs with nothing new do not prolong the cool down.
* `KeepsContract`, `PausesAreBounded`, `CallsReturn`: see `ServiceLogProducer`.
* `RefreshIsGivenTime`: a call that cannot get a token gives up only when its pauses,
  with the first one once more, add up to the threshold, so a long refresh takes
  nothing from the messages after it.  The exception, an earlier call that has
  failed, is real: giving up leaves the delay at the threshold, and the next refresh
  is tried once.
* `ExitStatusNamesFailure`: the status is that of the *last* failure and 0 means
  there was none.  An error passes `close`, `start` and `selectError` on its way;
  `close` in particular goes on after the storage failed.
* `AggregatorIsNotKeptOpen`: the comment of
  `fetchDisabledRulesFromAggregatorDB`, on all its ways out.
* `SuccessMeansClosed`: 0 after clusters were processed means that the storage and
  the notifier are closed without an error.
* `GatewayShowsFinalCounters`: after a last push that succeeded, whatever arrives
  later, the gateway has the final counters; the exception it states, a push of
  the loop under way when the last one begins, is real, since nobody ends the
  loop.
* `Termination`: the process ends, or waits for the gateway for ever.
* `StepsRunOut`: every step of the main goroutine, retries of the last push
  included, lowers a number fixed by the configuration and the clusters, and
  nothing in the background raises it.  It is the part of `Termination` that needs
  no fairness.
* `CooldownPerIssue`, `ServiceLogSentClaimsAreTrue`, `RequestsEnd`,
  `MissingClientIsReported`: what the documentation or a comment says; the code
  does otherwise (see Findings).

### Bounds and why they are enough

* Clusters interact only through the two independent `IN` clauses of the
  baseline query: a record of a cluster under its old organization is read when
  another cluster on the list belongs to that organization.  That needs two
  clusters and two organizations (`kafka_orgs`); two issues (`kafka_job`) are
  needed for a baseline that knows one and not the other.
* `Cooldown = 2` with `MaxTime = 4` has records in cool down, exactly at its
  end, and beyond it; `MaxAge = 2` the same for the cleanup.  With
  `MaxTime = 4` there are up to four runs of a target: enough for notify, silence,
  notify again.  `cooldown_per_issue` needs three
  notifications and a cool down of 3.
* `MaxReports = 2`: an old and a new row of a cluster, so that the list may
  refer to a row that is gone; three in `kafka_orgs`, for one row of each
  cluster after the move and one from before it.
* `MaxReadErrors = 3` in `two_jobs`: one row of each job and one too many.  It is
  0 in the other runs of `Differ`: a read may fail there and the cluster is
  skipped, as after a failed insert, but no read error is stored.  Only the
  property about read errors looks at them; their type is part of `TypeCorrect`.
* `rule_filters`: two rule hits out of four (two modules of one name, one of them
  without suffix, one other rule), rules of odd and even risk sums, up to one
  toggle, one ack and one issue in the baseline; the limits are 4 bytes, with texts
  that are shorter, as long, and longer with a character cut through.
* `notification_cycle`: three issues, since an issue is starved only by two others
  that take turns; a cool down of two steps; no other bound.
* `two_jobs` has one issue and one report row at a time; what it is about
  (whose record is whose) needs neither more issues nor more rows.
* `service_log_producer`: two messages, because the delay left behind by one
  affects the next; two expiries, so that a message can be refused twice.
* `service_log_producer` has a timeout of 15 units and no overflow, the other
  producer run one that overflows: a second is 4 units there and a duration has
  8 bits, in proportion to 10^9 and 64 bits (`ConfiguredTimeoutIsNone` proves it
  with the real numbers).
* `lifecycle`: two clusters, so that a push of the loop may show fewer than all;
  up to two retries, none, and no pause; every subset of the two destinations.
* Deadlock is not checked where the model does stop: at `MaxTime`, and after the
  last message.  In `kafka_job` it is checked, though the customers can
  always act there.

`kafka_orgs` uses the symmetry of its two clusters, which no constant tells
apart.  The other runs use none: of their two issues one is singled out by the
rules that may be disabled.

### Fairness

`ServiceLogProducer!FairSpec` assumes weak fairness of `CallStep`, the steps of a
call in progress.  The code justifies it step by step: a goroutine that can run
is scheduled; a timeout expires, if the client has one (`RequestTimesOut` has
that guard); `time.Sleep` ends; OCM answers or fails.  Nothing is assumed of
Service Log, nor that a connection breaks.  `CallsReturn` needs three facts more,
which are constants of the model: `FreshTokensAccepted`, a bounded number of
expiries, and a `Timeout` that makes a positive `ClientTimeout`.  Without the
first, `ProduceMessage` calls itself for ever: refresh succeeds, the post is
refused, and so on, with no pause.  The last does not hold for the values the
repository documents: 10 and 15 seconds overflow (`servicelog_timeout`), and 5 or
20 seconds mean decades.

`Lifecycle!FairSpec` assumes weak fairness of `Main`, the steps of the main
goroutine: it is scheduled, and the databases, the content service, the broker
and Service Log let its calls return.  The answer of the push gateway is left
out: that client has no timeout, and `Termination` says so.  The list of
clusters is finite (`MaxClusters`).  Nothing is assumed of the push loop.

`NotificationCycle!Fairness`: time passes (weak fairness of `Tick`); runs end
(`activeDeadlineSeconds` of the CronJob) and the CronJob starts new ones.  A crash
may undo every step of a run, so weak fairness of the steps would say nothing:
the databases answer, and a message about each issue is accepted, again and again
(strong fairness of reading, preparing and sending).  In other words nothing
fails for ever.  Of the inserts into `reported` nothing is assumed, nor of the
reports, the customers and the cleanups.

`Differ` itself is checked for safety: its clock has to stop.

## Proofs

All theorems hold for every value of the constants that satisfies the `ASSUME`s
of the modules: any sets of clusters, organizations, issues, any cool down and
age, any filters, and without the bounds being finite in any particular way
(`BoundsAssumption` only says they are numbers).

* `TypeCorrect` (`DifferProofs`): `Spec => []TypeOK`.  One lemma per group of
  actions; the types of the operators of `NotificationDB` are lemmas of their
  own.  The last conjunct but one of `TypeOK` (a run that sends or records has a
  cluster in hand) makes `current[t]` usable as a record everywhere else.
* `ClaimsHold`, `NotificationBackendClaims` (`DifferClaimsProofs`): the property
  is not inductive, since a record is written from what the run holds, and what
  it holds was decided from a copy of older records that may be deleted by now.
  `ClaimsInv` therefore adds: times are never ahead of the clock; the claims of
  the *copy* in memory are true (even if the row is gone); and of the cluster
  in hand every important issue is still to be sent or has been notified,
  unless sending failed.  The step that matters is `PrepareNotification`: an
  issue that is not sent is in the baseline of the same organization and
  cluster, so it was delivered.  Deliveries are never undone
  (`ClaimsSurvive`), so old claims stay true.
* `SentRecordsAreTrue` (`DifferClaimsProofs`): with `SentInv`: a job never sends
  an empty message, and its outcome is `sent` only after a delivery with the
  stamp of the cluster in hand.
* `ServiceLogTypeCorrect`, `PausesBounded`, `ServiceLogKeepsContract`
  (`ServiceLogProducerProofs`).  The contract needs `ContractInv`: a message
  that may be posted again has no request out and has not arrived.  That is
  why 401 may be retried and a timeout may not.  `PausesInv` relates the time
  slept to the current delay: their sum doubles with it.
* `RefreshHasTime` (`ServiceLogProducerProofs`): `Spec => RefreshIsGivenTime`, for any
  start delay and threshold.  `DelayInv`: as long as no earlier call has failed, the
  delay is the first one outside of a refresh, and in one it is exactly the time
  slept plus the first one.  A failed call stays failed (`FailureStays`), so the
  premise cannot come back once it is lost.
* `ConfiguredTimeoutIsNone` (`ServiceLogProducerProofs`): with seconds of 10^9
  units and durations of 64 bits, timeouts of 10 and 15 seconds give the client a
  negative one, and `RequestTimesOut` is never possible.
* `LifecycleTypeCorrect`, `ExitStatusIsRight`, `AggregatorNotKeptOpen`,
  `SuccessIsClosed`, `GatewayIsRight` (`LifecycleProofs`), for any configurations
  and number of clusters.  Each property has a strengthening of its own
  (`FailureInv`, `AggregatorInv`, `ClosingInv`, `GatewayInv`) that, with the
  types, every step keeps.  `FailureInv` lists the only failures a run survives;
  `GatewayInv` says that from the last push on nothing can be under way with
  older counters, but what was when it began.
* `ProcessRunsOut` (`LifecycleProofs`): `StepsLeft` is a ranking function, the
  phases ahead plus the clusters not yet processed plus two steps for every retry
  left.  `LaterPhase` covers all steps that only go forward; the two that remain
  are the next cluster and a failed push, which goes back to the pause and pays
  with a retry (`MayRetry` says there is one).
* `DisabledRulesAreSilent`, `ReadErrorsStoredOnce` (`DifferProofs`).
  `RulesInv`: what has been disabled since before the run is part of what the run
  has read, table by table, and nothing disabled by what it has read is pending.
  `ReadErrorsInv`: between check and insert only the other job may have stored the
  error.
* `PromiseAboutRepeats` (`NotificationProofs`): the abstract specification implies
  its `RepeatsAreExplained`, by `NotificationInv`: sent records hold all issues of
  their notification and are ordered like their reports, so that forgetting the
  oldest leaves the last one.
* `JobsKeepPromise` (`DifferPromiseProofs`): `Spec => KeepsPromise`, assuming whole
  result sets (`~BrokenStreams`; `broken_stream` shows why).  `PromiseInv` relates
  the copy of the baseline to the table as it is now: a cluster still to be
  processed has been neither notified nor recorded since the run began (no second
  run of the target, each cluster once per run), so its last sent record, if it is
  there and in cool down, is in the copy (`BaselineIsCurrent`).  Reports are taken
  up in the order of their times even across runs and cleanups
  (`ReportsAdvance`), since a cleanup that spares a record's report spares all
  newer ones.
* `JobsExplainRepeats`: hence `[]RepeatsAreExplained`, by the refinement and
  `PromiseAboutRepeats`.

* `LoopsCorrect` (`RuleFiltersProofs`): for reports of any length, by an invariant
  of the loops (`LoopsInv`): what a loop has collected are the chosen ones among
  the hits it has been through.  `ChosenAsDiffer` then compares the choice of the
  code with `NotificationDB!getReportsWithIssuesToNotify`: `DisabledAsDiffer` for the
  two formats of names, `PassesAsImportant` for the rounding of the risk
  (`Halving`), thresholds up to 0 (which rules without content pass) and tags.
* `EntriesCorrect`, `EntriesWithinLimits` (`RuleFiltersProofs`), by `EntriesInv`: an
  entry was made of a rendering of its own issue.  `FoundIsRendering` says the
  first match is one (`LeastElement`, the least-number principle, stands in for an
  induction).  `CutExists` says every text has exactly the cut the model chooses,
  `TextGrows` that the ends of characters lie at most four bytes apart, and
  `TruncatedIsAbridged` concludes that a cut text has at most the limit's number of
  characters, at most three of them replacements, and has lost none it had room for;
  `JoinedIsText` brings the link in.
* `SilencedWereTold`, `SilenceIsRenewed` (`NotificationCycleProofs`), without
  fairness, for any issues, uploads and cool down.  `ToldInv`: the table, the copy in
  the run and what the run has sent so far are told, and a run about to write a
  sent record has told the rest of its report.  `NewsInv`: a run sends only
  what its baseline has not, and its outcome is `sent` only after such an issue.

Checked by TLC only: `CallsReturn`, `Termination`, `PersistentIssuesAreTold` and
`SteadyReportsAreRepeated`, since liveness under fairness is out of the prover's
reach (`StepsRunOut`, `SilencedIssuesAreTold` and `SilenceIsRenewedByNews` are the
parts of them that need none), and the violation runs.

## Findings

1. `cooldown_per_issue`: `docs/configuration.md:87` promises a minimum time
   between notifications *of the same issue*.  The baseline is the last sent
   record of the *cluster*: an issue that is absent from one report, and back in
   the next, is notified again within its cool down.
2. `broken_stream`: two loops in `storage.go` do not look at `rows.Err()`,
   which the sister queries of the disabled rules do, with a test that says why.
   A truncated baseline means notifications within the cool down.
3. `servicelog_sent`: if one of several Service Log entries fails, the whole
   report is recorded as `sent`, and the failed issue is silent for the cool
   down without having been sent.
4. `servicelog_timeout`: the timeout of the Service Log client is the product of
   two durations (`service_log_producer.go:72`); the documented 15 seconds
   overflow to no timeout at all.
5. `missing_client`: a failure to create the OCM client leaves a nil notifier and
   no error (`differ.go:901`); the run ends with 0 or panics.
6. Read, not run: when *all* entries fail the record is `same`, not `error`
   (`differ.go:640`); `pushMetrics` never returns an error, so
   `ExitStatusMetricsError` is unreachable (`differ.go:1038`), and so are the two
   statuses of the Kafka producer and its connection; the gateway keeps the
   status of a finished run (`differ.go:1134`); the aggregator is not the first
   resource a run takes (`differ.go:1144`); the Kafka `timeout` is never used
   (`kafka_producer.go:50`); a second read error of one report is stored, while
   the comment of `checkReadError` expects the insert to fail (`differ.go:746`);
   Service Log gets the severities Low to Critical, the documentation says Info to
   Critical (`docs/event_targets.md:79`); `severity_threshold` has no effect, since
   no loop sets the severity of an `EventValue` (`differ.go:284`).

## Not modelled, and the plan

Out of scope: parsing of flags and configuration, the text of messages, HTTP and
SQL drivers, SASL, dashboards, mocks, and the documentation of the schema that SchemaSpy
generated under `docs/db-description`, JavaScript libraries included (the service is
written in Go).  The disabled producer cannot be reached:
`assertNotificationDestination` demands exactly one enabled target.

Done, in the order of the plan: `NotificationDB` and `Differ`; `Producer` and
`ServiceLogProducer`; `Lifecycle`; `RuleFilters`; read errors and the history of
disabled rules (as parts of `Differ`); `Notification` and its refinement;
`NotificationCycle`; and the theorems about each of them.

Left out, and why:

* what `filterDisabledRulesFromReport` does when a report that has just been parsed
  cannot be parsed or written again (`differ.go:421-449`, `464-474`: it returns the
  report as it was), and a Service Log entry that `json.Marshal` rejects and that then
  counts as sent (`differ.go:571-574`).  The report has been parsed by then, as the same
  items, and an entry is made of strings: both paths are practically unreachable;
* clusters that are skipped because the list of clusters was cut short: `Differ` lets
  it happen (`BrokenStreams`), but no state is wrong afterwards, a notification is only
  late (listed as a hazard without a property);
* rule content and filters that change between two runs: they are constants.  An
  issue that was below the threshold is in the stored report and is silenced when
  its risk rises (listed as a hazard);
* the numbers of the notification states, which the migrations of another
  repository fix and one query has written in;
* the status gauge, of the metrics; it has no reader in this repository;
* refinement of `Notification` by `NotificationCycle`: its ages stop at the cool down
  and its history forgets, so the times of `Notification` cannot be told from them.
