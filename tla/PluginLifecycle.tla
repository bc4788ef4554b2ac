--------------------------- MODULE PluginLifecycle ---------------------------
(***************************************************************************)
(* The routine of one test on one agent: StartPlugin's restart loop around *)
(* SynTestRoutine.Run, the plugin process that each test run starts, the   *)
(* test's entry in the StateMap, and the plugin manager that has started   *)
(* the routine and stops it.                                               *)
(***************************************************************************)
EXTENDS Integers

CONSTANTS
    Nil,
    Policies,      \* the restart policies the config may ask for
    MaxRestarts,   \* bound: restarts in a row
    MaxTests,      \* bound: test runs
    MaxStranded    \* bound: connects that fail after the plugin process was started

ASSUME NilAssumption == Nil \notin [status: {"unknown", "running", "error", "restarting", "notRunning"},
                                    msg: {"", "started", "error", "exited"}, restarts: Int]
ASSUME PolicyAssumption == Policies \subseteq {"always", "never", "onError"}
ASSUME CountAssumption == MaxRestarts \in Nat /\ MaxTests \in Nat /\ MaxStranded \in Nat

VARIABLES
    policy,      \* restartPolicy
    manager,     \* the plugin manager: "started", "cancelled" or "deleted" the test
    spc,         \* the routine
    s,           \* StartPlugin's copy of the plugin's state
    backOff,     \* its RestartBackOff, in seconds (0 if empty)
    pluginState, \* the test's entry in the StateMap
    processes,   \* how many plugin processes of this routine are alive
    performed, published,
    stranded,    \* history: connects that failed after the plugin process was started
    cancelledAt  \* history: how many tests had been performed when the manager cancelled

lvars == <<policy, manager, spc, s, backOff, pluginState, processes, performed, published,
           stranded, cancelledAt>>
runVars == <<processes, performed, published, stranded, cancelledAt>>

Statuses == {"unknown", "running", "error", "restarting", "notRunning"}
Messages == {"", "started", "error", "exited"}
PluginStates == [status: Statuses, msg: Messages, restarts: -1..MaxRestarts]
Testing == {"initialise", "perform", "publish", "publishFailed", "finish"}
RoutineSteps == Testing \cup {"loop", "begin", "select", "connect", "failed", "exited", "backOff", "returned"}

\* The types of the variables; BackOffBounded says what backOff holds.
LifecycleTypeOK ==
    /\ policy \in Policies
    /\ manager \in {"started", "cancelled", "deleted"}
    /\ spc \in RoutineSteps
    /\ s \in PluginStates /\ pluginState \in PluginStates \cup {Nil}
    /\ processes \in 0..(MaxStranded + 1) /\ stranded \in 0..MaxStranded
    /\ performed \in 0..MaxTests /\ published \in 0..MaxTests /\ cancelledAt \in 0..MaxTests

\* StartTestRoutine has set the state and started the routine.
LifecycleInit ==
    /\ policy \in Policies
    /\ manager = "started" /\ spc = "loop"
    /\ pluginState = [status |-> "unknown", msg |-> "", restarts |-> -1]
    /\ s = pluginState /\ backOff = 0
    /\ processes = 0 /\ performed = 0 /\ published = 0 /\ stranded = 0 /\ cancelledAt = 0

\* The routine's context, which the agent's shutdown cancels too.
Done == manager # "started"
-----------------------------------------------------------------------------
(* The back-off: 10 * 2^n seconds in an int64 of nanoseconds.  That is     *)
(* 5^10 * 2^(n + 10) modulo 2^64, and the bits of 5^10 that the modulus    *)
(* leaves tell its sign and whether it exceeds five minutes.  From n = 60  *)
(* on the float does not fit an int64 of seconds either; what amd64 and    *)
(* arm64 make of it is negative in nanoseconds, so the result is the same. *)

FivePow10 == 9765625
FiveMinutes == 146484375    \* in units of 2^11 ns

Significand(n) == IF n <= 30 THEN FivePow10 ELSE IF n < 54 THEN FivePow10 % 2 ^ (54 - n) ELSE 0

Negative(n) == n \in 30..53 /\ Significand(n) >= 2 ^ (53 - n)

ExceedsFiveMinutes(n) ==
    /\ n >= 1 /\ ~Negative(n)
    /\ Significand(n) > FiveMinutes \div 2 ^ (IF n > 30 THEN 29 ELSE n - 1)

\* Faulty variant: nothing is done about an overflow.
BackOffUnchecked(restarts) ==
    IF ExceedsFiveMinutes(restarts) THEN 300
    ELSE IF restarts >= 30 THEN (IF Negative(restarts) THEN -1 ELSE 0)
    ELSE 10 * 2 ^ restarts

BackOffTime(restarts) ==
    LET n == IF restarts > 0 THEN restarts ELSE 0 IN
    IF ExceedsFiveMinutes(n) THEN 300
    ELSE IF Negative(n) \/ Significand(n) = 0 THEN 1
    ELSE 10 * 2 ^ n
-----------------------------------------------------------------------------
(* SynTestRoutine.Run *)

Move(from, to) == spc = from /\ spc' = to

InRun == UNCHANGED <<policy, manager, s, backOff, pluginState, cancelledAt>>

Kill == processes' = processes - 1

\* Faulty variant: the context is not looked at again after the select.
TriggerUnchecked ==
    /\ Move("select", "connect")
    /\ performed < MaxTests
    /\ InRun /\ UNCHANGED <<processes, performed, published, stranded>>

\* The timer, or a run of another test, triggers a test run, unless the context is done.
Trigger ==
    /\ Move("select", "connect")
    /\ ~Done /\ performed < MaxTests
    /\ InRun /\ UNCHANGED <<processes, performed, published, stranded>>

RunReturns ==
    /\ Move("select", "exited")
    /\ Done
    /\ InRun /\ UNCHANGED <<processes, performed, published, stranded>>

\* A connect fails before the plugin process runs (or go-plugin, which starts it, ends it
\* again), or after: then nothing kills the process, for testPlugin gets no client.
ConnectWithPlugin ==
    /\ \/ Move("connect", "initialise") /\ processes' = processes + 1 /\ UNCHANGED stranded
       \/ Move("connect", "failed") /\ UNCHANGED <<processes, stranded>>
       \/ /\ Move("connect", "failed") /\ stranded < MaxStranded
          /\ processes' = processes + 1 /\ stranded' = stranded + 1
    /\ InRun /\ UNCHANGED <<performed, published>>

\* Faulty variant: the client is killed only at the end of a successful test.
InitialiseKeepsProcess ==
    /\ \E to \in {"perform", "failed"} : Move("initialise", to)
    /\ InRun /\ UNCHANGED <<processes, performed, published, stranded>>

\* Initialise answers (a panic of the call counts as success), or it fails, times out or
\* is cancelled; the deferred Kill ends the process.
Initialise ==
    /\ \/ Move("initialise", "perform") /\ UNCHANGED processes
       \/ Move("initialise", "failed") /\ Kill
    /\ InRun /\ UNCHANGED <<performed, published, stranded>>

\* The plugin answers, with a result or an error, or the timeout or the context ends the
\* wait with a failed result; an answer that comes later is dropped.
PerformTest ==
    /\ \E to \in {"publish", "publishFailed"} : Move("perform", to)
    /\ performed' = performed + 1
    /\ InRun /\ UNCHANGED <<processes, published, stranded>>

\* Faulty variant: an error of the test is returned before it is published.
PublishOnlySuccess ==
    /\ \/ Move("publish", "finish") /\ published' = published + 1 /\ UNCHANGED processes
       \/ Move("publishFailed", "failed") /\ Kill /\ UNCHANGED published
    /\ InRun /\ UNCHANGED <<performed, stranded>>

PublishTestRun ==
    /\ published' = published + 1
    /\ \/ Move("publish", "finish") /\ UNCHANGED processes
       \/ Move("publishFailed", "failed") /\ Kill
    /\ InRun /\ UNCHANGED <<performed, stranded>>

\* An error of Finish is only logged.
Finish ==
    /\ Move("finish", "select") /\ Kill
    /\ InRun /\ UNCHANGED <<performed, published, stranded>>
-----------------------------------------------------------------------------
(* StartPlugin *)

\* Faulty variant: the loop is "for {".
LoopForEver ==
    /\ s.restarts < MaxRestarts
    /\ Move("loop", IF pluginState = Nil THEN "returned" ELSE "begin")
    /\ s' = IF pluginState = Nil THEN s ELSE pluginState
    /\ UNCHANGED <<policy, manager, backOff, pluginState, runVars>>

Loop ==
    /\ \/ (Done \/ pluginState = Nil) /\ Move("loop", "returned") /\ UNCHANGED s
       \/ /\ ~Done /\ pluginState # Nil /\ pluginState.restarts < MaxRestarts
          /\ Move("loop", "begin")
          /\ s' = pluginState
    /\ UNCHANGED <<policy, manager, backOff, pluginState, runVars>>

\* Run parses the config's durations: it fails at once if repeat is not one, and takes a
\* default for the others.
ParseConfig == \E to \in {"select", "failed"} : Move("begin", to)

Begin ==
    /\ ParseConfig
    /\ s' = [status |-> "running", msg |-> "started", restarts |-> s.restarts + 1]
    /\ pluginState' = s' /\ backOff' = 0
    /\ UNCHANGED <<policy, manager, runVars>>

MayRestart(failed) == policy = "always" \/ (policy = "onError" /\ failed)

\* Run has returned.  A plugin that ran for over ten minutes has its restarts reset.  The
\* state is stored after each change of s; the last one counts.
RunReturned ==
    /\ spc \in {"failed", "exited"}
    /\ LET failed == spc = "failed"
           msg == IF failed THEN "error" ELSE "exited" IN
       \/ /\ MayRestart(failed)
          /\ \E restarts \in {s.restarts, 0} :
                /\ s' = [status |-> "restarting", msg |-> msg, restarts |-> restarts]
                /\ backOff' = BackOffTime(restarts)
          /\ spc' = "backOff"
       \/ /\ ~MayRestart(failed)
          /\ s' = [status |-> IF failed THEN "error" ELSE "notRunning", msg |-> msg,
                   restarts |-> s.restarts]
          /\ spc' = "returned" /\ UNCHANGED backOff
    /\ pluginState' = s'
    /\ UNCHANGED <<policy, manager, runVars>>

BackOff ==
    /\ Move("backOff", "loop")
    /\ UNCHANGED <<policy, manager, s, backOff, pluginState, runVars>>

RoutineStep ==
    \/ Loop \/ Begin \/ RunReturned \/ BackOff
    \/ Trigger \/ RunReturns \/ ConnectWithPlugin \/ Initialise \/ PerformTest \/ PublishTestRun \/ Finish
-----------------------------------------------------------------------------
(* StopAndDeleteSynTest *)

Cancel ==
    /\ manager = "started" /\ manager' = "cancelled"
    /\ cancelledAt' = performed
    /\ UNCHANGED <<policy, spc, s, backOff, pluginState, processes, performed, published, stranded>>

\* Faulty variant: the routine is not waited for.
DeleteAtOnce ==
    /\ manager = "cancelled" /\ manager' = "deleted"
    /\ pluginState' = Nil
    /\ UNCHANGED <<policy, spc, s, backOff, runVars>>

DeletePluginState ==
    /\ spc = "returned"
    /\ manager = "cancelled" /\ manager' = "deleted"
    /\ pluginState' = Nil
    /\ UNCHANGED <<policy, spc, s, backOff, runVars>>

LifecycleNext == RoutineStep \/ Cancel \/ DeletePluginState

LifecycleSpec == LifecycleInit /\ [][LifecycleNext]_lvars

\* The routine's steps all end: the calls of the plugin have timeouts, the back-off a
\* ticker.  Nothing is assumed of Cancel.
FairLifecycleSpec == LifecycleSpec /\ WF_lvars(RoutineStep) /\ WF_lvars(DeletePluginState)
-----------------------------------------------------------------------------
\* A back-off is positive, or time.NewTicker panics, and at most five minutes, however
\* often the plugin was restarted and the product overflowed.
BackOffBounded == spc = "backOff" => backOff \in 1..300

\* The exponential back-off stays at its maximum once it got there: "Max backoff time is
\* 5 minutes" (pluginManager.go).
BackOffStaysAtMax == spc = "backOff" /\ s.restarts >= 5 => backOff = 300

\* Once the manager has cancelled the routine at most one more test is performed, the one
\* under way: the select may pick a timer or a run that is ready, and a restart may be due,
\* but neither starts a test then.
LastTestOnly == Done => performed <= cancelledAt + 1

\* The state the health exporter sees is the routine's, and no write of the routine brings
\* the entry of a deleted test back.
StateFollowsRoutine == IF manager = "deleted" THEN pluginState = Nil ELSE pluginState = s

\* Whichever way a test ends, its plugin process ends with it; what is alive when the
\* routine waits, backs off or has returned are the processes of connects that failed after
\* the process was started, one for each.
ProcessKilled == processes = stranded + (IF spc \in Testing THEN 1 ELSE 0)

\* A test that was performed is published, exactly once, before anything else is done:
\* also if it failed, timed out or was cancelled.
EveryRunPublished == performed = published + (IF spc \in {"publish", "publishFailed"} THEN 1 ELSE 0)

\* StopAndDeleteSynTest returns, wherever its cancellation meets the routine.
StopCompletes == manager = "cancelled" ~> manager = "deleted"
=============================================================================
