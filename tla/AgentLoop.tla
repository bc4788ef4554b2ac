------------------------------ MODULE AgentLoop ------------------------------
(***************************************************************************)
(* One agent from PluginManager.Start to its return: the main goroutine    *)
(* with its config loop and its shutdown, the goroutine that forwards      *)
(* config events from Redis, the two exporters, the routines of the tests  *)
(* and, from module Broadcaster, the broadcaster between them.             *)
(*                                                                         *)
(* Which tests a sync starts and stops is left open here (ConfigFleet says *)
(* what it decides); the channels, contexts and wait groups are not.       *)
(***************************************************************************)
EXTENDS Broadcaster

CONSTANTS
    Tests,          \* the tests a sync may start on this agent
    DependsOn,      \* does the test run after others (and so subscribe)?
    ChanOf,         \* the channel each subscribing goroutine makes
    PromMode,       \* "off" (no prometheus.address), "server" or "push"
    MaxEvents,      \* bound: config events published on Redis
    MaxChanges      \* bound: syncs that start or stop a test

Esh == "esh"      \* runTestRunExporter
Prom == "prom"    \* PrometheusExporter.Run
Goroutines == {Esh, Prom} \cup Tests
ConfigChanSize == 2
PromChanSize == 2

ASSUME TestsAssumption == Tests \cap {Esh, Prom} = {}
ASSUME DependsAssumption == DependsOn \in [Tests -> BOOLEAN]
ASSUME ChanOfAssumption ==
    /\ ChanOf \in [Goroutines -> Chans]
    /\ \A g, h \in Goroutines : g # h => ChanOf[g] # ChanOf[h]
ASSUME LoopBoundsAssumption == MaxEvents \in Nat /\ MaxChanges \in Nat /\ PromMode \in {"off", "server", "push"}

VARIABLES
    signalled,          \* is a kill signal waiting for main.go's handler?
    cancelled,          \* is Start's ctx done?
    mpc,                \* the main goroutine
    configChan,         \* signals in configChan
    promConfigChange,   \* signals in promConfigChange
    subscriber,         \* the goroutine in SubscribeToConfigEvents
    events, eventCount, \* config events it has not taken yet; how many there were
    gpc,                \* the exporters and the test routines
    running,            \* the tests in pm.SyntheticTests
    testCancelled,      \* those among them whose context was cancelled
    visit,              \* the tests the current sync has yet to look at
    configChanged, changeCount

mainVars == <<signalled, cancelled, mpc, running, testCancelled, visit, configChanged, changeCount>>
chanVars == <<configChan, promConfigChange, subscriber, events, eventCount>>
avars == <<mainVars, chanVars, gpc, bvars>>

MainSteps == {"start", "select", "fetch", "sync", "stopping", "notify", "waitTests", "grace",
              "waitProm", "cleanup", "waitEsh", "stopBroadcaster", "waitBroadcaster", "returned", "panicked"}
RoutineSteps == {"none", "start", "select", "test", "publish", "leave", "backoff", "returned"}

\* The types of the variables, and the capacity of each channel.
AgentTypeOK ==
    /\ BroadcasterTypeOK
    /\ signalled \in BOOLEAN /\ cancelled \in BOOLEAN /\ configChanged \in BOOLEAN
    /\ mpc \in MainSteps
    /\ configChan \in 0..ConfigChanSize /\ promConfigChange \in 0..PromChanSize
    /\ subscriber \in {"wait", "send", "returned"}
    /\ events \in 0..MaxEvents /\ eventCount \in 0..MaxEvents /\ changeCount \in 0..MaxChanges
    /\ gpc \in [Goroutines -> RoutineSteps]
    /\ running \in SUBSET Tests /\ visit \in SUBSET Tests /\ testCancelled \in SUBSET Tests

AgentInit ==
    /\ BroadcasterInit
    /\ signalled = FALSE /\ cancelled = FALSE /\ configChanged = FALSE
    /\ mpc = "start"
    /\ configChan = 0 /\ promConfigChange = 0
    /\ subscriber = "wait" /\ events = 0 /\ eventCount = 0 /\ changeCount = 0
    /\ gpc = [g \in Goroutines |-> CASE g = Esh -> "start"
                                     [] g = Prom -> IF PromMode = "off" THEN "returned" ELSE "start"
                                     [] OTHER -> "none"]
    /\ running = {} /\ visit = {} /\ testCancelled = {}
-----------------------------------------------------------------------------
(* The signal handler of main.go, which pm.Exit also reaches, and Redis.   *)

KillSignal ==
    /\ ~signalled
    /\ signalled' = TRUE
    /\ UNCHANGED <<cancelled, mpc, running, testCancelled, visit, configChanged, changeCount,
                   chanVars, gpc, bvars>>

HandleSignal ==
    /\ signalled /\ ~cancelled
    /\ cancelled' = TRUE
    /\ UNCHANGED <<signalled, mpc, running, testCancelled, visit, configChanged, changeCount, chanVars, gpc, bvars>>

ConfigEvent ==
    /\ eventCount < MaxEvents
    /\ eventCount' = eventCount + 1
    /\ events' = events + 1
    /\ UNCHANGED <<mainVars, configChan, promConfigChange, subscriber, gpc, bvars>>

(* SubscribeToConfigEvents *)

TakeEvent ==
    /\ subscriber = "wait" /\ events > 0
    /\ events' = events - 1
    /\ subscriber' = "send"
    /\ UNCHANGED <<mainVars, configChan, promConfigChange, eventCount, gpc, bvars>>

ForwardEvent ==
    /\ subscriber = "send" /\ configChan < ConfigChanSize
    /\ configChan' = configChan + 1
    /\ subscriber' = "wait"
    /\ UNCHANGED <<mainVars, promConfigChange, events, eventCount, gpc, bvars>>

SubscriberReturns ==
    /\ subscriber = "wait" /\ cancelled
    /\ subscriber' = "returned"
    /\ UNCHANGED <<mainVars, configChan, promConfigChange, events, eventCount, gpc, bvars>>

SubscriberStep == TakeEvent \/ ForwardEvent \/ SubscriberReturns
-----------------------------------------------------------------------------
(* The main goroutine: PluginManager.Start. *)

MoveMain(from, to) == mpc = from /\ mpc' = to

SendInit ==
    /\ MoveMain("start", "select")
    /\ configChan < ConfigChanSize
    /\ configChan' = configChan + 1
    /\ UNCHANGED <<signalled, cancelled, running, testCancelled, visit, configChanged, changeCount,
                   promConfigChange, subscriber, events, eventCount, gpc, bvars>>

BeginSync ==
    /\ MoveMain("select", "fetch")
    /\ UNCHANGED <<signalled, cancelled, running, testCancelled, visit, configChanged, changeCount,
                   promConfigChange, subscriber, events, eventCount, gpc, bvars>>

OnSignal == configChan > 0 /\ configChan' = configChan - 1 /\ BeginSync

OnTick == UNCHANGED configChan /\ BeginSync

FetchSummaries ==
    /\ MoveMain("fetch", "sync")
    /\ ~cancelled
    /\ visit' = Tests
    /\ configChanged' = FALSE
    /\ UNCHANGED <<signalled, cancelled, running, testCancelled, changeCount, chanVars, gpc, bvars>>

\* The configs cannot be read, as is always so once ctx is done: pm.Exit.
SyncFails ==
    /\ MoveMain("fetch", "select")
    /\ signalled' = TRUE
    /\ UNCHANGED <<cancelled, running, testCancelled, visit, configChanged, changeCount, chanVars,
                   gpc, bvars>>

MayChange == changeCount < MaxChanges \/ configChanged

CountChange ==
    /\ MayChange
    /\ changeCount' = IF configChanged THEN changeCount ELSE changeCount + 1
    /\ configChanged' = TRUE

\* A test that is on its latest version, or that is not for this agent.
LeaveTest(t) ==
    /\ mpc = "sync" /\ t \in visit
    /\ visit' = visit \ {t}
    /\ UNCHANGED <<signalled, cancelled, mpc, running, testCancelled, configChanged, changeCount, chanVars, gpc, bvars>>

\* StopAndDeleteSynTest cancels the routine's context ...
CancelTest(t) ==
    /\ MoveMain("sync", "stopping") /\ t \in visit \cap running
    /\ CountChange
    /\ testCancelled' = testCancelled \cup {t}
    /\ UNCHANGED <<signalled, cancelled, running, visit, chanVars, gpc, bvars>>

\* Faulty variant: the entry is deleted at once.
DeleteTestAtOnce(t) ==
    /\ MoveMain("stopping", "sync") /\ t \in testCancelled
    /\ running' = running \ {t}
    /\ testCancelled' = testCancelled \ {t}
    /\ UNCHANGED <<signalled, cancelled, visit, configChanged, changeCount, chanVars, gpc, bvars>>

\* ... and waits for it.
DeleteTest(t) ==
    /\ MoveMain("stopping", "sync") /\ t \in testCancelled
    /\ gpc[t] = "returned"
    /\ running' = running \ {t}
    /\ testCancelled' = testCancelled \ {t}
    /\ gpc' = [gpc EXCEPT ![t] = "none"]
    /\ UNCHANGED <<signalled, cancelled, visit, configChanged, changeCount, chanVars, bvars>>

\* StartTestRoutine.  A test whose plugin is not found gets its entry and no routine, which
\* nothing waits for.  A channel is used once, so a test that depends on others subscribes at
\* most once in a behaviour.
StartTest(t) ==
    /\ mpc = "sync" /\ t \in visit \ running
    /\ DependsOn[t] => used[ChanOf[t]] = "new"
    /\ CountChange
    /\ running' = running \cup {t}
    /\ visit' = visit \ {t}
    /\ \E to \in {"start", "returned"} : gpc' = [gpc EXCEPT ![t] = to]
    /\ UNCHANGED <<signalled, cancelled, mpc, testCancelled, chanVars, bvars>>

EndSync ==
    /\ MoveMain("sync", IF configChanged THEN "notify" ELSE "select")
    /\ visit = {}
    /\ UNCHANGED <<signalled, cancelled, running, testCancelled, visit, configChanged, changeCount, chanVars, gpc, bvars>>

NotifyPrometheus ==
    /\ MoveMain("notify", "select")
    /\ promConfigChange < PromChanSize
    /\ promConfigChange' = promConfigChange + 1
    /\ UNCHANGED <<signalled, cancelled, running, testCancelled, visit, configChanged, changeCount, configChan,
                   subscriber, events, eventCount, gpc, bvars>>

(* The shutdown. *)

Shutdown(from, to) ==
    /\ MoveMain(from, to)
    /\ UNCHANGED <<signalled, cancelled, testCancelled, visit, configChanged, changeCount, chanVars>>

OnDone == cancelled /\ Shutdown("select", "waitTests") /\ UNCHANGED <<running, gpc, bvars>>

\* Faulty variant: the wait group counts every configured test.
WaitForAllTests ==
    /\ \A t \in Tests : gpc[t] = "returned"
    /\ Shutdown("waitTests", "grace") /\ UNCHANGED <<running, gpc, bvars>>

WaitForTests ==
    /\ \A t \in running : gpc[t] = "returned"
    /\ Shutdown("waitTests", "grace") /\ UNCHANGED <<running, gpc, bvars>>

GracePeriod == Shutdown("grace", "waitProm") /\ UNCHANGED <<running, gpc, bvars>>

WaitForPrometheus ==
    /\ gpc[Prom] = "returned"
    /\ Shutdown("waitProm", "cleanup") /\ UNCHANGED <<running, gpc, bvars>>

CleanupAndUnregister ==
    /\ running' = {}
    /\ gpc' = [g \in Goroutines |-> IF g \in running THEN "none" ELSE gpc[g]]
    /\ Shutdown("cleanup", "waitEsh") /\ UNCHANGED bvars

\* Faulty variant: eshwg is not waited for.
SkipStorage == Shutdown("waitEsh", "stopBroadcaster") /\ UNCHANGED <<running, gpc, bvars>>

WaitForStorage ==
    /\ gpc[Esh] = "returned"
    /\ Shutdown("waitEsh", "stopBroadcaster") /\ UNCHANGED <<running, gpc, bvars>>

StopBroadcaster ==
    /\ Stop
    /\ Shutdown("stopBroadcaster", "waitBroadcaster") /\ UNCHANGED <<running, gpc>>

WaitForBroadcaster ==
    /\ bpc = "returned"
    /\ Shutdown("waitBroadcaster", "returned") /\ UNCHANGED <<running, gpc, bvars>>

MainStep ==
    \/ SendInit \/ OnSignal \/ OnTick \/ FetchSummaries \/ SyncFails \/ EndSync \/ NotifyPrometheus
    \/ \E t \in Tests : LeaveTest(t) \/ CancelTest(t) \/ DeleteTest(t) \/ StartTest(t)
    \/ OnDone \/ WaitForTests \/ GracePeriod \/ WaitForPrometheus \/ CleanupAndUnregister
    \/ WaitForStorage \/ StopBroadcaster \/ WaitForBroadcaster
-----------------------------------------------------------------------------
(* The exporters and the test routines. *)

MoveRoutine(g, from, to) == gpc[g] = from /\ gpc' = [gpc EXCEPT ![g] = to]

Subscribe(g) == MoveRoutine(g, "start", "select") /\ SubscribeToTestRuns(ChanOf[g])

ExportTestRun(g) == gpc[g] = "select" /\ Receive(ChanOf[g]) /\ UNCHANGED gpc

StopExporter == cancelled /\ MoveRoutine(Esh, "select", "leave") /\ UNCHANGED bvars

LeaveBroadcaster(g) == MoveRoutine(g, "leave", "returned") /\ UnsubscribeFromTestRuns(ChanOf[g])

EshStep == Subscribe(Esh) \/ ExportTestRun(Esh) \/ StopExporter \/ LeaveBroadcaster(Esh)

\* The exporter resets its gauges when the config changes; it never unsubscribes.
CleanupGauges ==
    /\ gpc[Prom] = "select" /\ promConfigChange > 0
    /\ promConfigChange' = promConfigChange - 1
    /\ UNCHANGED <<mainVars, configChan, subscriber, events, eventCount, gpc, bvars>>

\* In push mode there is no server, and closing it is a nil dereference.
StopPrometheus ==
    /\ cancelled /\ gpc[Prom] = "select"
    /\ IF PromMode = "push" THEN mpc' = "panicked" /\ UNCHANGED gpc
                            ELSE gpc' = [gpc EXCEPT ![Prom] = "returned"] /\ UNCHANGED mpc
    /\ UNCHANGED <<signalled, cancelled, running, testCancelled, visit, configChanged, changeCount,
                   chanVars, bvars>>

\* A routine's context is derived from Start's.
TestDone(t) == cancelled \/ t \in testCancelled

\* StartPlugin's loop calls Run unless the context is done; Run returns before it subscribes
\* if the repeat duration does not parse.
RunTest(t) ==
    \/ ~TestDone(t) /\ DependsOn[t] /\ Subscribe(t)
    \/ ~TestDone(t) /\ ~DependsOn[t] /\ MoveRoutine(t, "start", "select") /\ UNCHANGED bvars
    \/ ~TestDone(t) /\ MoveRoutine(t, "start", "backoff") /\ UNCHANGED bvars
    \/ TestDone(t) /\ MoveRoutine(t, "start", "returned") /\ UNCHANGED bvars

\* The bound on published runs is put where a run is triggered.
MayTrigger == published + Cardinality({t \in Tests : gpc[t] \in {"test", "publish"}}) < MaxRuns

Trigger(t) ==
    /\ ~TestDone(t) /\ MayTrigger
    /\ MoveRoutine(t, "select", "test") /\ UNCHANGED bvars

\* A run of another test triggers one of this test, unless it is one it does not depend on.
TriggerOnTestRun(t) ==
    /\ DependsOn[t]
    /\ \/ ~TestDone(t) /\ MayTrigger /\ MoveRoutine(t, "select", "test")
       \/ TestDone(t) /\ MoveRoutine(t, "select", "leave")
       \/ MoveRoutine(t, "select", "select")
    /\ Receive(ChanOf[t])

\* Faulty variant: the select has no ctx.Done() case.
RunNeverReturns(t) == FALSE /\ MoveRoutine(t, "select", "leave") /\ UNCHANGED bvars

RunReturns(t) == TestDone(t) /\ MoveRoutine(t, "select", "leave") /\ UNCHANGED bvars

\* testPlugin: an error before the run returns, otherwise the result, failed or not, is
\* published.
TestPlugin(t) == \E to \in {"publish", "leave"} : MoveRoutine(t, "test", to) /\ UNCHANGED bvars

\* A failed run ends Run with an error.
Publish(t) == \E to \in {"select", "leave"} : MoveRoutine(t, "publish", to) /\ PublishTestRun

\* Run's deferred unsubscription.
LeaveRun(t) ==
    IF DependsOn[t]
    THEN MoveRoutine(t, "leave", "backoff") /\ UnsubscribeFromTestRuns(ChanOf[t])
    ELSE MoveRoutine(t, "leave", "backoff") /\ UNCHANGED bvars

\* StartPlugin runs the plugin again after a while, unless its policy or the context says
\* otherwise.  A test that has subscribed is not run again: a channel is used once.
Restart(t) ==
    /\ DependsOn[t] => used[ChanOf[t]] = "new"
    /\ MoveRoutine(t, "backoff", "start") /\ UNCHANGED bvars

StartPluginReturns(t) == MoveRoutine(t, "backoff", "returned") /\ UNCHANGED bvars

TestStep(t) ==
    \/ RunTest(t) \/ Trigger(t) \/ TriggerOnTestRun(t) \/ RunReturns(t) \/ TestPlugin(t)
    \/ Publish(t) \/ LeaveRun(t) \/ Restart(t) \/ StartPluginReturns(t)

PromStep ==
    \/ (Subscribe(Prom) \/ ExportTestRun(Prom)) /\ UNCHANGED <<mainVars, chanVars>>
    \/ CleanupGauges \/ StopPrometheus

RoutineStep(g) ==
    \/ g = Prom /\ PromStep
    \/ g = Esh /\ EshStep /\ UNCHANGED <<mainVars, chanVars>>
    \/ g \in Tests /\ TestStep(g) /\ UNCHANGED <<mainVars, chanVars>>

Broadcast == BroadcasterStep /\ UNCHANGED <<mainVars, chanVars, gpc>>
-----------------------------------------------------------------------------
AgentNext ==
    /\ mpc # "panicked"
    /\ \/ KillSignal \/ HandleSignal \/ ConfigEvent \/ SubscriberStep \/ MainStep \/ Broadcast
       \/ \E g \in Goroutines : RoutineStep(g)

AgentSpec == AgentInit /\ [][AgentNext]_avars

\* Every goroutine keeps running, and the main loop's select, which the ticker can wake
\* for ever, does not pass over ctx.Done() for ever.  Nothing is assumed of the kill
\* signal, of Redis or of the tests' triggers.
FairAgentSpec ==
    /\ AgentSpec
    /\ WF_avars(HandleSignal) /\ WF_avars(SubscriberStep) /\ WF_avars(Broadcast)
    /\ WF_avars(MainStep) /\ SF_avars(OnDone)
    /\ \A g \in Goroutines : WF_avars(RoutineStep(g))
-----------------------------------------------------------------------------
\* The broadcaster is stopped only when nothing uses it any more: no routine, exporter or
\* sync can be left blocked on one of its channels.
BroadcasterOutlivesClients ==
    stopCh => \A g \in Goroutines : gpc[g] \in {"none", "returned"}

\* A test's routine never outlives its entry in SyntheticTests, so that a test that is
\* restarted does not run twice.
RoutineHasEntry == \A t \in Tests : gpc[t] # "none" <=> t \in running

\* A kill signal ends the agent: "Blocks until ctx.cancel is called" (agent/main.go).
ShutdownCompletes == signalled ~> mpc = "returned"

\* A test run that waits for the exporter gets exported, also when the agent is exiting:
\* gracePeriod is "how long to wait to process/export any pending test results".
PendingRunsExported == resCh[ChanOf[Esh]] # <<>> ~> resCh[ChanOf[Esh]] = <<>>
=============================================================================
