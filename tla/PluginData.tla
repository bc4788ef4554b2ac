----------------------------- MODULE PluginData -----------------------------
(***************************************************************************)
(* What one test on one agent leaves in Redis: its test runs and its       *)
(* health, which the agent's two storage exporters write, which the agent  *)
(* deletes when it stops the test, and which the controller's periodic     *)
(* sync deletes when it takes them for stale.  The agent may crash and     *)
(* come back in the same pod, or its pod may go.                           *)
(***************************************************************************)
EXTENDS Naturals, Sequences

CONSTANTS
    MaxStarts,   \* bound: how often the test is started
    MaxRuns,     \* bound: test runs
    MaxCrashes,  \* bound: crashes of the agent
    MaxFaults    \* bound: Redis commands and pod lists that fail for good

ASSUME DataBoundsAssumption == MaxStarts \in Nat /\ MaxRuns \in Nat /\ MaxCrashes \in Nat /\ MaxFaults \in Nat

VARIABLES
    agent,        \* "up", "down" (the pod is there) or "gone"
    entry,        \* is the test in the agent's StateMap?
    deleting,     \* the agent's DeleteAllTestRunInfo: the keys it has yet to delete
    pending,      \* test runs that wait for the test run exporter
    xpc,          \* the test run exporter
    hpc,          \* the health exporter ...
    states,       \* ... does its copy of the StateMap have the test ...
    listed,       \* ... and does the status it is about to write list the test?
    keys,         \* the test's keys in Redis
    agentStatus,  \* the agent's status in Redis: "none", or does it list the test?
    fresh,        \* is it younger than AGENT_STATUS_DEADLINE?
    cpc,          \* the controller's sync
    podListed,    \* was the agent's pod in the list the sync got?
    known,        \* was the agent in Redis when the sync looked?
    cleaning,     \* the sync's DeleteAllTestRunInfo
    counts        \* how much of each bound is used

agentVars == <<agent, entry, deleting, pending>>
exporterVars == <<xpc, hpc, states, listed>>
redisVars == <<keys, agentStatus, fresh>>
syncVars == <<cpc, podListed, known, cleaning>>
dvars == <<agentVars, exporterVars, redisVars, syncVars, counts>>

\* Faulty variant: a key is forgotten.
DeleteWithoutUnhealthy == <<"runStatus", "pluginStatus", "latest", "lastFailed", "health">>

\* The order in which DeleteAllTestRunInfo deletes.
DeleteOrder == <<"runStatus", "pluginStatus", "latest", "lastFailed", "health", "lastUnhealthy">>

Keys == {DeleteOrder[i] : i \in DOMAIN DeleteOrder}

\* The types of the variables; what is written of a test is what DeleteAllTestRunInfo deletes.
DataTypeOK ==
    /\ agent \in {"up", "down", "gone"} /\ entry \in BOOLEAN
    /\ deleting \in Seq(Keys) /\ cleaning \in Seq(Keys)
    /\ pending \in 0..MaxRuns
    /\ xpc \in {"idle", "latest", "status", "failed"}
    /\ hpc \in {"idle", "list", "agent", "health", "unhealthy", "status"}
    /\ states \in BOOLEAN /\ listed \in BOOLEAN
    /\ keys \in SUBSET Keys /\ agentStatus \in {"none", "with", "without"} /\ fresh \in BOOLEAN
    /\ cpc \in {"idle", "statuses", "agents", "runs", "active", "clean"}
    /\ podListed \in BOOLEAN /\ known \in BOOLEAN
    /\ counts \in [starts: 0..MaxStarts, runs: 0..MaxRuns, crashes: 0..MaxCrashes, faults: 0..MaxFaults]

DataInit ==
    /\ agent = "up" /\ entry = FALSE /\ deleting = <<>> /\ pending = 0
    /\ xpc = "idle" /\ hpc = "idle" /\ states = FALSE /\ listed = FALSE
    /\ keys = {} /\ agentStatus = "none" /\ fresh = FALSE
    /\ cpc = "idle" /\ podListed = FALSE /\ known = FALSE /\ cleaning = <<>>
    /\ counts = [starts |-> 0, runs |-> 0, crashes |-> 0, faults |-> 0]

Up == agent = "up"

\* A Redis command that its retries did not save, or a list of the pods.
Fault == counts.faults < MaxFaults /\ counts' = [counts EXCEPT !.faults = @ + 1]
-----------------------------------------------------------------------------
(* The plugin manager and the test. *)

StartTestRoutine ==
    /\ Up /\ ~entry /\ deleting = <<>> /\ counts.starts < MaxStarts
    /\ entry' = TRUE
    /\ counts' = [counts EXCEPT !.starts = @ + 1]
    /\ UNCHANGED <<agent, deleting, pending, exporterVars, redisVars, syncVars>>

PublishRun ==
    /\ Up /\ entry /\ counts.runs < MaxRuns
    /\ pending' = pending + 1
    /\ counts' = [counts EXCEPT !.runs = @ + 1]
    /\ UNCHANGED <<agent, entry, deleting, exporterVars, redisVars, syncVars>>

\* The routine has returned; DeletePluginState, then DeleteAllTestRunInfo.
StopAndDeleteSynTest ==
    /\ Up /\ entry
    /\ entry' = FALSE /\ deleting' = DeleteOrder
    /\ UNCHANGED <<agent, pending, exporterVars, redisVars, syncVars, counts>>

\* The next statement of DeleteAllTestRunInfo; a failed deletion is only logged.
DeleteAllTestRunInfo ==
    /\ Up /\ deleting # <<>>
    /\ \/ keys' = keys \ {Head(deleting)} /\ UNCHANGED counts
       \/ Fault /\ UNCHANGED keys
    /\ deleting' = Tail(deleting)
    /\ UNCHANGED <<agent, entry, pending, exporterVars, agentStatus, fresh, syncVars>>

ManagerStep == StartTestRoutine \/ StopAndDeleteSynTest \/ DeleteAllTestRunInfo

\* The agent's process ends: what it held in memory is lost.
Leave(to) ==
    /\ agent' = to
    /\ entry' = FALSE /\ deleting' = <<>> /\ pending' = 0
    /\ xpc' = "idle" /\ hpc' = "idle"
    /\ UNCHANGED <<states, listed, keys, fresh, syncVars>>

Crash ==
    /\ Up /\ counts.crashes < MaxCrashes
    /\ counts' = [counts EXCEPT !.crashes = @ + 1]
    /\ Leave("down") /\ UNCHANGED agentStatus

\* cleanupAndUnregister, once the tests' data are deleted, and the end of the pod.  The
\* agent leaves also if its status cannot be deleted.
Unregister ==
    /\ Up /\ ~entry /\ deleting = <<>>
    /\ \/ agentStatus' = "none" /\ UNCHANGED counts
       \/ Fault /\ UNCHANGED agentStatus
    /\ Leave("gone")

PodDeleted == agent = "down" /\ Leave("gone") /\ UNCHANGED <<agentStatus, counts>>

Recover ==
    /\ agent = "down" /\ agent' = "up"
    /\ UNCHANGED <<entry, deleting, pending, exporterVars, redisVars, syncVars, counts>>

\* A live agent writes its status more often than AGENT_STATUS_DEADLINE asks for.
StatusExpires ==
    /\ ~Up /\ fresh /\ fresh' = FALSE
    /\ UNCHANGED <<agentVars, exporterVars, keys, agentStatus, syncVars, counts>>
-----------------------------------------------------------------------------
(* runTestRunExporter and WriteTestRun *)

TakeRun ==
    /\ Up /\ xpc = "idle" /\ pending > 0
    /\ pending' = pending - 1
    /\ xpc' = "latest"
    /\ UNCHANGED <<agent, entry, deleting, hpc, states, listed, redisVars, syncVars, counts>>

\* The key each step writes, and what may follow: only a failed run is kept as the last
\* failed one.
RunKey == [latest |-> "latest", status |-> "runStatus", failed |-> "lastFailed"]
AfterRunKey == [latest |-> {"status"}, status |-> {"failed", "idle"}, failed |-> {"idle"}]

WriteTestRun ==
    /\ Up /\ xpc # "idle"
    /\ \/ keys' = keys \cup {RunKey[xpc]} /\ xpc' \in AfterRunKey[xpc] /\ UNCHANGED counts
       \/ Fault /\ xpc' = "idle" /\ UNCHANGED keys
    /\ UNCHANGED <<agentVars, hpc, states, listed, agentStatus, fresh, syncVars>>

ExporterStep == TakeRun \/ WriteTestRun
-----------------------------------------------------------------------------
(* runPluginHealthExporter *)

\* Faulty variant: only the state of a test that the stored status does not list yet.
GetNewPluginState ==
    /\ Up /\ hpc = "idle" /\ hpc' = "list"
    /\ states' = (entry /\ agentStatus # "with")
    /\ UNCHANGED <<agentVars, xpc, listed, redisVars, syncVars, counts>>

GetAllPluginState ==
    /\ Up /\ hpc = "idle" /\ hpc' = "list"
    /\ states' = entry
    /\ UNCHANGED <<agentVars, xpc, listed, redisVars, syncVars, counts>>

GetAgentStatus ==
    /\ Up /\ hpc = "list" /\ hpc' = "agent"
    /\ listed' = entry
    /\ UNCHANGED <<agentVars, xpc, states, redisVars, syncVars, counts>>

\* A failed write of the status does not keep the plugins' health from being written.
WriteAgentStatus ==
    /\ Up /\ hpc = "agent" /\ hpc' = IF states THEN "health" ELSE "idle"
    /\ \/ agentStatus' = (IF listed THEN "with" ELSE "without") /\ fresh' = TRUE /\ UNCHANGED counts
       \/ Fault /\ UNCHANGED <<agentStatus, fresh>>
    /\ UNCHANGED <<agentVars, xpc, states, listed, keys, syncVars>>

HealthKey == [health |-> "health", unhealthy |-> "lastUnhealthy", status |-> "pluginStatus"]

\* Only a plugin that is not running has its state kept as the last unhealthy one.
AfterHealthKey == [health |-> {"unhealthy", "status"}, unhealthy |-> {"status"}, status |-> {"idle"}]

WritePluginHealthStatus ==
    /\ Up /\ hpc \in {"health", "unhealthy", "status"}
    /\ \/ keys' = keys \cup {HealthKey[hpc]} /\ hpc' \in AfterHealthKey[hpc] /\ UNCHANGED counts
       \/ Fault /\ hpc' = "idle" /\ UNCHANGED keys
    /\ UNCHANGED <<agentVars, xpc, states, listed, agentStatus, fresh, syncVars>>

HealthStep == GetAllPluginState \/ GetAgentStatus \/ WriteAgentStatus \/ WritePluginHealthStatus
-----------------------------------------------------------------------------
(* The controller's periodic sync.All: Agents, then the end of SynTests. *)

\* The pods come from the informer, which may still have one that is gone.  A failed list is
\* only logged, and leaves no pods.
ListPods ==
    /\ cpc = "idle" /\ cpc' = "statuses"
    /\ \/ podListed' \in {agent # "gone", TRUE} /\ UNCHANGED counts
       \/ Fault /\ podListed' = FALSE
    /\ UNCHANGED <<agentVars, exporterVars, redisVars, known, cleaning>>

\* All goes on with SynTests when Agents fails.
FetchAllAgentStatus ==
    /\ cpc = "statuses"
    /\ \/ cpc' = "agents" /\ known' = (agentStatus # "none") /\ UNCHANGED <<podListed, counts>>
       \/ Fault /\ cpc' = "runs" /\ podListed' = FALSE /\ UNCHANGED known
    /\ UNCHANGED <<agentVars, exporterVars, redisVars, cleaning>>

\* An agent with a pod and no status gets an empty one, which lists no tests; one with a
\* status and no pod loses it.  A failed command is only logged.
SyncAgents ==
    /\ cpc = "agents" /\ cpc' = "runs"
    /\ \/ /\ agentStatus' = IF podListed = known THEN agentStatus
                              ELSE IF podListed THEN "without" ELSE "none"
          /\ UNCHANGED counts
       \/ podListed # known /\ Fault /\ UNCHANGED agentStatus
    /\ podListed' = FALSE /\ known' = FALSE
    /\ UNCHANGED <<agentVars, exporterVars, keys, fresh, cleaning>>

\* A failed read ends the sync.
FetchAllTestRunStatus ==
    /\ cpc = "runs"
    /\ \/ cpc' = (IF "runStatus" \in keys THEN "active" ELSE "idle") /\ UNCHANGED counts
       \/ Fault /\ cpc' = "idle"
    /\ UNCHANGED <<agentVars, exporterVars, redisVars, podListed, known, cleaning>>

\* Faulty variant: only an agent that does not exist makes its data stale.
IsStaleNoAgent == agentStatus = "none"

IsStale == agentStatus # "with" \/ ~fresh

FetchActiveAgents ==
    /\ cpc = "active"
    /\ \/ IsStale /\ cpc' = "clean" /\ cleaning' = DeleteOrder /\ UNCHANGED counts
       \/ ~IsStale /\ cpc' = "idle" /\ UNCHANGED <<cleaning, counts>>
       \/ Fault /\ cpc' = "idle" /\ UNCHANGED cleaning
    /\ UNCHANGED <<agentVars, exporterVars, redisVars, podListed, known>>

CleanStale ==
    /\ cpc = "clean"
    /\ \/ keys' = keys \ {Head(cleaning)} /\ UNCHANGED counts
       \/ Fault /\ UNCHANGED keys
    /\ cleaning' = Tail(cleaning)
    /\ cpc' = IF Tail(cleaning) = <<>> THEN "idle" ELSE "clean"
    /\ UNCHANGED <<agentVars, exporterVars, agentStatus, fresh, podListed, known>>

SyncStep ==
    \/ ListPods \/ FetchAllAgentStatus \/ SyncAgents
    \/ FetchAllTestRunStatus \/ FetchActiveAgents \/ CleanStale

DataNext ==
    \/ ManagerStep \/ PublishRun \/ Crash \/ Unregister \/ PodDeleted \/ Recover \/ StatusExpires
    \/ ExporterStep \/ HealthStep \/ SyncStep

DataSpec == DataInit /\ [][DataNext]_dvars

\* The exporters, the deletions and the periodic sync keep going; nothing is assumed of
\* the user, of the tests or of crashes.
FairDataSpec ==
    /\ DataSpec
    /\ WF_dvars(DeleteAllTestRunInfo) /\ WF_dvars(ExporterStep) /\ WF_dvars(HealthStep)
    /\ WF_dvars(SyncStep) /\ WF_dvars(StatusExpires)
-----------------------------------------------------------------------------
\* When a test has stopped for good its run status goes from Redis for good, whatever
\* the exporters were writing when it was deleted and whether or not the agent lived to
\* delete it: the REST API does not report it for ever.
StaleRunStatusRemoved == <>[]~entry => <>[]("runStatus" \notin keys)

\* ... and so does everything else: "clean up any old test runs and health info also"
\* (controller/sync/sync.go).
StaleDataRemoved == <>[]~entry => <>[](keys = {})

\* The health of a test that keeps running is in Redis for good sooner or later: no
\* deletion that was under way or that went by an old status keeps removing it.
RunningTestReported == <>[](Up /\ entry) => <>[]({"health", "pluginStatus"} \subseteq keys)

\* The sync deletes nothing of a test that runs: it is to "check whether the agent is
\* actually running the test" (controller/sync/sync.go).
LiveDataKept == [][CleanStale /\ entry => keys \subseteq keys']_dvars
=============================================================================
