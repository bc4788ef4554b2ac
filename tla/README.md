# synthetic-heart in TLA+

A TLA+ model of synthetic-heart, checked with TLC on small instances and in part proved
with TLAPS for every value of the constants. Source paths below are relative to `src/`.

## The system

A Kubernetes **controller** mirrors `SyntheticTest` resources into **Redis**. An **agent**
on each node reads them, runs the selected tests as plugin processes and exports runs and
health to Redis and Prometheus. A **REST API** reads Redis.

| part | state | operations that change it | what makes it hard |
|---|---|---|---|
| reconciler (`controller/internal/controller`) | resource, informer cache, work queue | `Reconcile`, `updateTestConfigInRedis`, `updateTestStatus` | four keys written one by one, from a cached copy, by a retried function |
| periodic sync (`controller/sync`) | lists read a while ago | `Agents`, `SynTests` | deletes by old reads, concurrently with the reconciler and the agents |
| store (`common/storage`) | configs, runs, health, agent statuses | multi-command writes and deletions | a command may fail between two others |
| plugin manager (`agent/pluginmanager`) | `SyntheticTests`, channels, wait groups | `Start`, `SyncSyntestPluginConfigs`, `StopAndDeleteSynTest` | bounded channels, shutdown order |
| broadcaster (`agent/utils`) | subscriptions and queues | publish, subscribe, unsubscribe, stop | slow subscribers, `select` |
| test routine (`syntest.go`, `StartPlugin`) | `StateMap` entry, plugin process, back-off | connect, initialise, perform, finish, restart | timeouts, cancellation, overflow |
| exporters (`storage.go`, `prometheus.go`) | copies of the `StateMap`, queued runs, gauges | periodic and per-run writes, `Cleanup` | write after deletion, gauges that keep their labels |
| agent selection (`common/helpers.go`) | none | `IsAgentValidForSynTest`, the controller's rewriting of `$` | asked of two versions of one test |
| worker pool and tests (`common/utils`, `agent/plugins/syntests`) | job and result channels, marks | `AddJob`, `Start`, `Stop`, `PerformTest` | bounded channels, deadlines, retries |
| REST API (`restapi`) | `PingResponse` under a mutex | `UpdatePingResponse`, `GetPing`, `GetTestConfig` | several reads of a store that changes, map order |

## Modules

- **ConfigMirror**: the reconciler and the config part of `SynTests` for one resource. `pc`
  holds the next command of the two goroutines; `raw`, `json`, `status`, `summary` are the
  keys in Redis; `crd`, `cache`, `inst` are the resource, the informer's copy and the copy
  `Reconcile` works on. `gen` numbers the user's writes and is read by properties only; the
  code compares hashes of the contents, as `UpToDate` does. `Failure` has commands that fail
  after their retries, a failed list, and a crash of the controller.
- **ConfigFleet** (extends ConfigMirror): `SyncSyntestPluginConfigs` on each agent, which
  reads the summary, then the config, then restarts the test.
- **FleetSelection** (extends ConfigFleet): the selectors of a test and of an agent spelled
  out. ConfigMirror and ConfigFleet know a content by its `Kind` and the agents it `Fits`;
  here both are computed as `Reconcile` does, and `Stored` is the test as it is written to
  Redis. A pattern stands for the names it matches.
- **ConfigReader** (extends ConfigMirror): the REST API's `GetTestConfig`, a read a step,
  beside the writers.
- **Broadcaster**: its channels with their capacities, its `select` and its delivery loop.
  **LossyFeed** is what it promises: every subscriber sees runs in publication order, maybe
  not all of them. `FeedImplemented` maps `sent` to the runs published and `seen` to the
  last run a channel's reader received.
- **AgentLoop** (extends Broadcaster): `PluginManager.Start` with its goroutines, contexts,
  wait groups, bounded channels and shutdown. Which tests a sync starts is left open.
- **PluginLifecycle**: `StartPlugin`, `Run`, `testPlugin` and `StopAndDeleteSynTest` for one
  test. `BackOffTime` does the back-off in 64-bit nanoseconds. A connect may fail after the
  plugin process was started: `testPlugin` then has no client to kill, and `stranded` counts
  the process.
- **PluginData**: one test's keys in Redis between the exporters, the agent's deletion and
  the controller's cleanup; the agent may crash and come back, or its pod may go. The
  controller's list of pods may be old, or fail: it is empty then, and the sync goes on.
- **WorkerPool**: the pool's two channels, its goroutines, and the `PerformTest` that adds
  the jobs, collects as many results and stops the pool; the work function is open.
  **TestScore** is what a test promises: each target scored exactly once, then the answer.
  `ScoreImplemented` maps the pool to it.
- **PooledTests** (extends WorkerPool): the work functions of `httpPing`, `dns` and
  `netDial`. An `httpPing` job keeps its loop counter, whether its deadline has passed and
  what its requests gave.
- **RestPing**: the ping page: the refresh with its two fetches and its loop over a map in
  any order, requests under the mutex, and agents that change pass ratios meanwhile. A ratio
  is rounded to `1/Scale` when it is stored (10^-5 in the code) and keeps the marks it came
  from, for the properties. The quotient is taken as exact before it is rounded: a double is
  off by about 10^-16, which matters only for more than 10^10 marks.
- **PrometheusGauges**: `setOrCreateGauge`, `renderLabels`, the default and the reported
  gauges, and `Cleanup` on a change of the tests. Runs come through the broadcaster's channel
  and the exporter's own. A gauge's value is the run it came from; its labels are their names,
  of which some do not match the agent's pattern, some are kept by the library for itself, and
  some may have a value that is not UTF-8.
- **...Proofs**: the proofs about the module of that name. AgentLoopProofs also has those
  about Broadcaster, PooledTestsProofs those about WorkerPool, and ConfigReadersProofs those
  about ConfigReader, ConfigFleet and FleetSelection, which all read what ConfigMirror writes.
- **MC...**: instances for TLC.

Names follow the code. Operators introduced as "Faulty variant" are used by no
specification: each is a plausible bug that makes a property fail when it replaces the
definition after it.

## Runs that hold

| run | properties | shows |
|---|---|---|
| mirror_safety | TypeOK, WriteOrder, NeverOutdatedAtRest, DeletedLeavesSummary | no key is newer than one written before it, through races, a failure or a crash; while nothing failed, a resource at rest may be missing from the summary but is not outdated there; a deleted resource leaves the summary for good |
| mirror_converges | RestMirrored, RawNotOlderThanConfig, Converges | without failures the reconciler alone mirrors the resource; a reader's raw spec is never older than its json |
| fleet | ConfigNotOlderThanVersion, RestartsForward, FleetSettles | an agent's config is never older than its version; a running test is restarted only for another version and never with an older config; exactly the selected agents end up running the mirrored config |
| broadcaster | BroadcastOrder, FeedImplemented, RequestsServed, StopReturns | an ordered lossy feed; no subscriber can block the broadcaster |
| agent_shutdown | AgentTypeOK, RoutineHasEntry, ShutdownCompletes | a kill signal ends the agent, within the bounds below; no routine outlives its entry |
| agent_shutdown_tests | BroadcasterOutlivesClients, ShutdownCompletes | the same with runs in flight; the broadcaster is stopped last |
| lifecycle | BackOffBounded, LastTestOnly, StateFollowsRoutine, ProcessKilled, EveryRunPublished, StopCompletes | routine, state, processes and publications agree; after a cancellation at most the test under way is performed; stopping a test returns |
| data | DataTypeOK, StaleRunStatusRemoved, RunningTestReported | a stopped test's run status goes for good, also after a crash; a running test's health gets to Redis for good, also after a failed list of the pods |
| pooled | RoomForResults, ScoreMeansMatch, RetriesUsedUp, ScoreImplemented, PoolDrains | every target is scored once and as its requests went; no worker waits for room; the pool ends with the test |
| ping | PingTypeOK, RefreshExplained, PingNotTorn, PingSettles | the page says what the fetched statuses say in every map order, up to the resolution of the stored ratio, is never half of one refresh and half of another, and settles once the statuses do |
| gauges | PanicExplained, GaugesAgree, StaleOnlyInFlight | the exporter panics only over a bad label of the agent or gauges that cannot go together; the default gauges agree; a changed test's values go with the `Cleanup`, but for runs in one of the two channels then |

## Where the code disagrees with the documentation

`mirror_sync_race` is a regular run; the other configurations are kept beside the runs. Each
has one property in its file, which is violated, and the counterexample is the code's
behaviour.

| configuration (module) | what happens |
|---|---|
| mirror_sync_race (MCConfigMirror) | no failures: a sync that listed before the resource reached the informer deletes the json before, and the summary after, a Reconcile that rewrites both |
| mirror_lost_update (MCConfigMirror) | the summary's write fails; the retry finds the json up to date and never writes the summary |
| mirror_leak (MCConfigMirror) | the resource is deleted and the controller dies between json and summary: the json stays for ever |
| fleet_assigned (MCConfigFleet) | a stale copy moves a `$` test to a second agent and back: both keep running it, though README.md:53 says "Run on a single (random) node" |
| fleet_revert (MCConfigFleet) | a config changed and changed back around an agent's two reads: the agent keeps the intermediate one |
| agent_no_prometheus (MCAgentLoop) | with the exporter off, the third change blocks `Start` on `promConfigChange`; with `PromMode = "server"` and three changes the same happens once the exporter has returned |
| agent_startup (MCAgentLoop) | two config events before `"init"` fill `configChan`; `Start` blocks |
| agent_push (MCAgentLoop) | in push mode the shutdown closes a nil server |
| agent_grace (MCAgentLoop) | the storage exporter stops before the grace period in which it is to export |
| lifecycle_backoff (MCPluginLifecycle) | 30 restarts in a row overflow the back-off, which falls from five minutes to one second |
| data_leak (MCPluginData) | a latest run written after its deletion, without a run status, is never found |
| data_live (MCPluginData) | the sync deletes the run status of a running test that the stored agent status does not list yet |
| pooled_timeout (MCPooledTests) | a timed-out request is not retried `timeoutRetries` times when `retries` is smaller; the loop is bounded by `retries` (httpPing.go:204, httpPing/README.md:17) |
| ping_order (MCRestPing) | a run without marks (1) scanned before one with an unknown status (0) ends in the overall status 2, scanned after it in 1 |
| gauges_labels (MCPrometheusGauges) | two curl tests, or one that was edited, report one gauge with different labels: the second ends the agent |

The passing runs of the same component stay clear of these cases, and say so in their
bounds: `mirror_converges` has no failures and no sync, `fleet` at most two writes (a revert
takes three) and no `$` test, `agent_shutdown` one event and two changes. `RefreshExplained`
and `PanicExplained` hold with the last two cases included. The label `label-1` that
agent/README.md:30 shows is a bad name for Prometheus: `PanicExplained` counts it among the
reasons for a panic.

## Bounds

- Contents: `c1` for every agent, `c2` for one, `c3` assigned (`$`), `c4` invalid (`$` twice).
  Two generations give an old and a new value, three a revert. One fault suffices to
  interrupt a multi-key write or a deletion.
- Result channels hold one run, so they are full after one delivery. `configChan` and
  `promConfigChange` have the code's capacity, 2. `agent_shutdown` has a timer test, which
  two changes start and stop; `agent_shutdown_tests` a test that runs after others, two runs.
- A subscribing test uses its result channel once in AgentLoop; it is restarted there only
  as long as it has not subscribed (its repeat duration does not parse).
- The back-off is checked up to 64 restarts: from 53 on it is one second. Two tests and two
  stranded processes show a process too many and one too few.
- PluginData has one test on one agent, one start, one run, one crash and one failed
  command or list.
- `fleet` has two writes, one fault (a failed read, or an agent's restart) and no periodic sync
  of the controller; that a config is deleted and written anew under an agent is covered by the
  proof, whose specification has it. FleetSelection's instance has a node pattern, a pod label only one agent has and an agent
  that watches a namespace; every other selector is covered by the proof.
- `pooled`: three targets on two workers, so that a worker takes a second job and results
  overtake each other; each target either two repeats, or one retry and a negative number of
  them after a timeout, with which a job that starts late sends no request. Every other
  number of retries and repeats is covered by the proofs. A test without targets answers at
  once and is left out.
- `ping`: two agents run one test and one of them another; ratios of every kind in units of
  1/10 instead of 10^-5: no `MaxMarks`, no marks, 1 of 40 (rounded to none), half, 39 of 40
  (rounded to all), all; one change of a status while the API runs, from every initial state.
- `gauges`: two tests (interchangeable: symmetry) with five configurations, among them two
  that report one gauge with different labels, one with two names that `cleanMetricName` makes
  equal, one whose label value is cut in the middle of a character and one without labels;
  agent labels that are in order, of a bad name, of a reserved name and with a bad template;
  two runs, three changes, two channels of one, so that they are full and runs are dropped.
  `promConfigChange` has the code's capacity.

## Fairness

Weak fairness stands for a goroutine that is scheduled and whose calls end: Redis commands
and plugin calls have timeouts, the informer delivers, the controller's timers repeat.
Strong fairness is used for the cases of a `select` (`ReturnOnStop`, `OnDone` and the
broadcaster's requests): Go chooses among ready cases at random, so a case that is ready
again and again is taken. The ping page's refresh needs it where a fetch may fail (now and then one
succeeds) and for the mutex, which Go hands to the longest waiting; a request that holds the
mutex is taken to finish, although the server sets no write timeout (restapi/main.go:110), so
`PingSettles` supposes clients that read or hang up. Nothing is assumed of
users, crashes, failures, kill signals, test triggers, requests to the REST API or
deadlines. `gauges` checks safety only. In PluginData a live agent's status does not expire, which assumes an
export period shorter than `AGENT_STATUS_DEADLINE`.

## Proofs

Every safety property that a run checks is also proved, for every set of agents, contents,
policies, workers, subscribers, tests, labels and ratios, and for every bound:

- `TypeCorrect`, `WriteOrderHolds` (ConfigMirror). WriteOrder is not inductive: a write of
  the json says nothing of the raw config unless what `Reconcile` has written in this run is
  as new as its copy. `WriteOrderInv` adds that, and that no key is newer than the cache.
- `NeverOutdatedHolds`, `RestMirroredHolds` (ConfigMirror). `Reconcile` takes an up-to-date
  json for an up-to-date summary. `CurrentInv` says why it may while nothing fails: json and
  summary have one content except between their two writes, and a run works on what the
  cache holds unless a newer request waits. With the periodic sync the summary may be
  missing; without it `PresentInv` adds that it is there whenever the json is. Steps that
  fail are told from the others by the count of failures.
- `FleetTypeCorrect`, `ConfigNotOlderHolds` (ConfigFleet). An agent holds its first read
  across the second; `SyncHolds` bounds the held version by the json, by anything
  `Reconcile` may still write and by the fetched config. It rests on `WriteOrderInv`.
- `RestartsForwardHolds` (ConfigFleet). What an agent fetched or runs may be newer than the
  version it recorded; `RunHolds` bounds it, too, by the json and by anything `Reconcile` may
  still write, also after a deletion, and says that a sync goes on only with a version that
  does not run.
- `RawNotOlderHolds` (ConfigReader), with the periodic sync, failures and crashes. `ReaderHolds`
  bounds the json a request holds by the raw spec, by any `Reconcile` may still write and by
  the one read after it; it rests on `WriteOrderInv` too. `ReconcilerReaderSafe` and
  `RestMirroredForReaders` carry both results to the specification of `mirror_converges`.
- `SelectionExact`, `RunsWhereSelected` (FleetSelection). A test that still has its `$`
  matches nobody, one without is stored as it is, one that was assigned matches its agent
  only. The invariant adds that Reconcile's choice, the stored, the fetched and the running
  config are assigned only to an agent that fits.
- `BroadcasterTypeCorrect`, `BroadcastOrderHolds`, `FeedRefinement` (Broadcaster). `FeedInv`
  orders everything on its way to a subscriber: what it received, its queue, the run being
  sent, the queue of published runs and their number.
- `AgentUsesBroadcaster` (AgentLoop): every step of the agent is a step of the broadcaster
  or leaves it alone, so `AgentFeedsInOrder` has the order and the refinement inside the agent.
- `AgentTypeCorrect`, `RoutineAlwaysHasEntry`, `BroadcasterAlwaysOutlives` (AgentLoop). That
  the broadcaster is stopped last does not follow from the step that stops it: `ShutdownInv`
  says, for each place the shutdown can be in, who has returned by then (the tests before the
  grace period, the exporters after their waits), and that who has returned starts nothing.
- `LifecycleInvariant` and from it `NoTestAfterCancel`, `DeletedStateStaysDeleted`,
  `EveryRunIsPublished`, `NoProcessLeft` (PluginLifecycle). The invariant is the conjunction
  of these and the types with `Progress` (a deleted test's routine has returned) and `LastInv`
  (a test that a cancelled routine has still under way is counted already).
- `BackOffInRange`, `BackOffAlwaysBounded` (PluginLifecycle), for every number of restarts.
  Up to the fourth the back-off is the plain product. From the fifth on the product, wrapped
  to 64 bits or not, is above five minutes, negative or zero: the code cuts it to five
  minutes or replaces it by a second. The powers of two are taken case by case.
- `DataTypeCorrect`, `DeletesOnlyStoppedHolds` (PluginData). `DataInv` ties the steps of the
  two deletions to who may run them: an agent that is down holds nothing, so a deletion that
  a crash cut off does not go on against the routines of its next life.
- `PoolInvariant` and from it `WorkersNeverWait`, `MarksBounded`, `ScoreRefinement`
  (WorkerPool), whatever the work function does. `Count` says that a job taken is with a busy
  worker, in the result channel or collected, `Once` that it is in one of these places only,
  so the results never outnumber the jobs and each is collected once.
- `TestsUsePool` (PooledTests): `httpPing`, `dns` and `netDial` are work functions as
  WorkerPool leaves them open, so `TestsScore` has its results for them.
- `ScoreAlwaysMeansMatch`, `RetriesAlwaysUsedUp` (PooledTests), for any numbers of retries and
  repeats. The invariant relates the loop counter to the requests made: each before the last
  one failed (retries) or matched (repeats), and a job that is done is explained by them.
- `PingInvariant` and from it `PingTypeCorrect`, `RefreshAlwaysExplained`, `PingNeverTorn`
  (RestPing). `ScanInv` says that the refresh's locals agree with the statuses scanned so far,
  in whatever order, `ResponseInv` that the page is torn only while the refresh is between
  its two assignments, and `Holder` who has the mutex then. The lemmas on rounding say what a stored
  ratio tells of the marks, for any marks and any resolution.
- `GaugesTypeCorrect`, `PanicAlwaysExplained`, `GaugesAlwaysAgree`, `StaleAlwaysInFlight`
  (PrometheusGauges). The first needs the labels every gauge was created with: those of a
  run that was exported, as long as the agent's labels are in order. The second follows the
  export gauge by gauge; the last needs that what is in either channel or being exported is of
  the current configuration, was there at the last `Cleanup`, or has one coming.

The assumptions are those on the constants, named in the modules. Two are about the world:
agent ids are none of the words the controller uses in their place, and no pod carries a
label named like a special key (`$` is not allowed in one). The labels every gauge gets
(`test_name`, `test_namespace`) are good ones. The others type the constants, say that the value for "absent" is none of the values it stands beside, and that
a target of httpPing or netDial is worth at least a mark.

Only model-checked: the liveness properties, which are out of the prover's reach
(DeletedLeavesSummary, Converges, FleetSettles, RequestsServed, StopReturns,
ShutdownCompletes, StopCompletes, StaleRunStatusRemoved, RunningTestReported, PoolDrains and
PingSettles).

## Not modelled

- The tests `ping` and `curl`: one command and the parsing of its output, without state of
  their own. Their outcomes are open in PluginLifecycle, curl's labels are among those of
  PrometheusGauges.
- The other handlers of the REST API: each answers with one read of Redis.
- The network itself: a lookup, a dial or a request has any outcome the code tells apart.
- An agent whose stored status has no readable time, such as the empty one the controller
  writes for a new pod: `FetchActiveAgents` counts it as active (controller/sync/sync.go:211)
  and `Reconcile` judges it by an empty config. In ConfigMirror an active agent is judged by
  its own.
- A test whose result cannot be given its gauges (netDial.go:126-130): it returns the same
  result with an error, which PluginLifecycle has as a failed run.
- Malformed patterns in selectors, for which `IsAgentValidForSynTest` returns an error.
- The wording of the ping page, the values and help texts of gauges, pushing to a gateway.
- Command execution, configuration parsing, plugin discovery, the start-up of the controller,
  generated code and the gRPC wrapper: I/O and delegation without a protocol.
- An abstract specification of the config mirror: it has no step at which the four keys
  change together, and with the cases above it does not implement an atomic one. WriteOrder,
  NeverOutdatedAtRest and Converges state what it keeps.
