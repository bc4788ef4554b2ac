-------------------------- MODULE PluginDataProofs --------------------------
(***************************************************************************)
(* Proofs about PluginData for any bounds: what the manager, the two       *)
(* exporters and the controller's sync keep of their own state, wherever   *)
(* the agent crashes.  That stale data go is liveness and left to TLC.     *)
(***************************************************************************)
EXTENDS PluginData, TLAPS

\* The agent deletes a test's data only while it is up and the test has no entry: the
\* deletion and a new routine of the test exclude each other.
DeletesOnlyStopped == deleting # <<>> => Up /\ ~entry

\* The sync deletes exactly while it is at its cleaning step, and an agent that is not
\* there holds nothing.
DataInv ==
    /\ DataTypeOK
    /\ DeletesOnlyStopped
    /\ cpc = "clean" <=> cleaning # <<>>
    /\ pending <= counts.runs
    /\ ~Up => ~entry /\ pending = 0 /\ xpc = "idle" /\ hpc = "idle"

\* The counts of what is bounded are numbers.
LEMMA CountTypes ==
  ASSUME DataTypeOK
  PROVE  /\ counts.starts \in 0..MaxStarts /\ counts.runs \in 0..MaxRuns
         /\ counts.crashes \in 0..MaxCrashes /\ counts.faults \in 0..MaxFaults
  BY DEF DataTypeOK

\* Another use of a bound, when there is one left, keeps the counts typed.
LEMMA CountUse ==
  ASSUME DataTypeOK
  PROVE  /\ counts.starts < MaxStarts =>
               [counts EXCEPT !.starts = @ + 1] \in [starts: 0..MaxStarts, runs: 0..MaxRuns, crashes: 0..MaxCrashes, faults: 0..MaxFaults]
         /\ counts.runs < MaxRuns =>
               [counts EXCEPT !.runs = @ + 1] \in [starts: 0..MaxStarts, runs: 0..MaxRuns, crashes: 0..MaxCrashes, faults: 0..MaxFaults]
         /\ counts.crashes < MaxCrashes =>
               [counts EXCEPT !.crashes = @ + 1] \in [starts: 0..MaxStarts, runs: 0..MaxRuns, crashes: 0..MaxCrashes, faults: 0..MaxFaults]
         /\ Fault => counts' \in [starts: 0..MaxStarts, runs: 0..MaxRuns, crashes: 0..MaxCrashes, faults: 0..MaxFaults]
  <1>1. counts \in [starts: 0..MaxStarts, runs: 0..MaxRuns, crashes: 0..MaxCrashes, faults: 0..MaxFaults]
    BY DEF DataTypeOK
  <1> QED BY <1>1, DataBoundsAssumption DEF Fault

\* A failed command only uses up one of the faults.
LEMMA FaultKeepsRuns == ASSUME DataTypeOK, Fault PROVE counts'.runs = counts.runs
  BY DEF DataTypeOK, Fault

\* DeleteAllTestRunInfo deletes keys of the test, one after the other.
LEMMA DeletionTypes ==
  /\ DeleteOrder \in Seq(Keys) /\ DeleteOrder # <<>> /\ <<>> \in Seq(Keys)
  /\ \A s \in Seq(Keys) : s # <<>> => Tail(s) \in Seq(Keys)
  <1>1. DeleteOrder \in Seq(Keys) /\ DeleteOrder # <<>> BY DEF DeleteOrder, Keys
  <1> QED BY <1>1

\* The exporters write only keys that DeleteAllTestRunInfo deletes.
LEMMA WrittenKeys ==
  Keys = {"runStatus", "pluginStatus", "latest", "lastFailed", "health", "lastUnhealthy"}
  <1>1. DOMAIN DeleteOrder = 1..6 BY DEF DeleteOrder
  <1>2. /\ DeleteOrder[1] = "runStatus" /\ DeleteOrder[2] = "pluginStatus" /\ DeleteOrder[3] = "latest"
        /\ DeleteOrder[4] = "lastFailed" /\ DeleteOrder[5] = "health" /\ DeleteOrder[6] = "lastUnhealthy"
    BY DEF DeleteOrder
  <1>3. 1..6 = {1, 2, 3, 4, 5, 6} OBVIOUS
  <1> QED BY <1>1, <1>2, <1>3 DEF Keys

\* Initially there are no tests and no data.
LEMMA DataInitInv == DataInit => DataInv
  <1> SUFFICES ASSUME DataInit PROVE DataInv OBVIOUS
  <1> USE DEF DataInit
  <1>0. deleting \in Seq(Keys) /\ cleaning \in Seq(Keys) BY DeletionTypes
  <1>1. pending \in 0..MaxRuns /\ pending <= counts.runs
    BY DataBoundsAssumption
  <1>2. counts \in [starts: 0..MaxStarts, runs: 0..MaxRuns, crashes: 0..MaxCrashes, faults: 0..MaxFaults]
    BY DataBoundsAssumption
  <1>3. entry \in BOOLEAN /\ states \in BOOLEAN /\ listed \in BOOLEAN /\ fresh \in BOOLEAN
        /\ podListed \in BOOLEAN /\ known \in BOOLEAN
    OBVIOUS
  <1>4. DataTypeOK BY <1>0, <1>1, <1>2, <1>3 DEF DataTypeOK
  <1>5. Up /\ deleting = <<>> /\ cleaning = <<>> /\ cpc # "clean" BY DEF Up
  <1> QED BY <1>1, <1>4, <1>5 DEF DataInv, DeletesOnlyStopped
-----------------------------------------------------------------------------
\* The manager and the test: a start waits for the deletion of the previous routine's data.
LEMMA ManagerKeeps == ASSUME DataInv, ManagerStep \/ PublishRun PROVE DataInv'
  <1> USE DEF agentVars, exporterVars, redisVars, syncVars
  <1>t. DataTypeOK BY DEF DataInv
  <1>1. /\ UNCHANGED <<agent, exporterVars, agentStatus, fresh, syncVars>> /\ Up
    BY DEF ManagerStep, StartTestRoutine, StopAndDeleteSynTest, DeleteAllTestRunInfo, PublishRun
  <1>2. CASE StartTestRoutine
    <2>1. /\ entry' = TRUE /\ UNCHANGED <<deleting, pending, keys>> /\ deleting = <<>>
          /\ counts' = [counts EXCEPT !.starts = @ + 1] /\ counts.starts < MaxStarts
      BY <1>2 DEF StartTestRoutine
    <2>2. counts' \in [starts: 0..MaxStarts, runs: 0..MaxRuns, crashes: 0..MaxCrashes, faults: 0..MaxFaults]
      BY <1>t, <2>1, CountUse
    <2>3. counts'.runs = counts.runs BY <1>t, <2>1 DEF DataTypeOK
    <2>4. entry' \in BOOLEAN BY <2>1
    <2>5. DataTypeOK' BY <1>1, <1>t, <2>1, <2>2, <2>4 DEF DataTypeOK
    <2>6. deleting' = <<>> /\ pending' <= counts'.runs BY <2>1, <2>3 DEF DataInv
    <2> QED BY <1>1, <2>5, <2>6 DEF DataInv, DeletesOnlyStopped, Up
  <1>3. CASE PublishRun
    <2>1. /\ UNCHANGED <<entry, deleting, keys>> /\ pending' = pending + 1
          /\ counts' = [counts EXCEPT !.runs = @ + 1] /\ counts.runs < MaxRuns
      BY <1>3 DEF PublishRun
    <2>2. counts' \in [starts: 0..MaxStarts, runs: 0..MaxRuns, crashes: 0..MaxCrashes, faults: 0..MaxFaults]
      BY <1>t, <2>1, CountUse
    <2>3. counts'.runs = counts.runs + 1 BY <1>t, <2>1 DEF DataTypeOK
    <2>4. pending' <= counts'.runs /\ pending' \in 0..MaxRuns
      BY <1>t, <2>1, <2>3, CountTypes, DataBoundsAssumption DEF DataInv, DataTypeOK
    <2>5. DataTypeOK' BY <1>1, <1>t, <2>1, <2>2, <2>4 DEF DataTypeOK
    <2> QED BY <1>1, <2>1, <2>4, <2>5 DEF DataInv, DeletesOnlyStopped, Up
  <1>4. CASE StopAndDeleteSynTest
    <2>1. entry' = FALSE /\ deleting' = DeleteOrder /\ UNCHANGED <<pending, keys, counts>>
      BY <1>4 DEF StopAndDeleteSynTest
    <2>2. entry' \in BOOLEAN BY <2>1
    <2>3. deleting' \in Seq(Keys) BY <2>1, DeletionTypes
    <2>4. DataTypeOK' BY <1>1, <1>t, <2>1, <2>2, <2>3 DEF DataTypeOK
    <2> QED BY <1>1, <2>1, <2>4 DEF DataInv, DeletesOnlyStopped, Up
  <1>5. CASE DeleteAllTestRunInfo
    <2>1. /\ deleting # <<>> /\ deleting' = Tail(deleting) /\ UNCHANGED <<entry, pending>>
          /\ keys' \subseteq keys /\ (UNCHANGED counts \/ Fault)
      BY <1>5 DEF DeleteAllTestRunInfo
    <2>2. deleting \in Seq(Keys) BY <1>t DEF DataTypeOK
    <2>3. deleting' \in Seq(Keys) BY <2>1, <2>2, DeletionTypes
    <2>4. /\ counts' \in [starts: 0..MaxStarts, runs: 0..MaxRuns, crashes: 0..MaxCrashes, faults: 0..MaxFaults]
          /\ counts'.runs = counts.runs
      BY <1>t, <2>1, CountUse, FaultKeepsRuns DEF DataTypeOK
    <2>5. DataTypeOK' BY <1>1, <1>t, <2>1, <2>3, <2>4 DEF DataTypeOK
    <2>6. ~entry BY <2>1 DEF DataInv, DeletesOnlyStopped
    <2> QED BY <1>1, <2>1, <2>4, <2>5, <2>6 DEF DataInv, DeletesOnlyStopped, Up
  <1> QED BY <1>2, <1>3, <1>4, <1>5 DEF ManagerStep

\* A crash and the end of the pod lose what the agent held, so a deletion cannot go on
\* against the routines of its next life.
LEMMA LifeKeeps ==
  ASSUME DataInv, Crash \/ Unregister \/ PodDeleted \/ Recover \/ StatusExpires
  PROVE  DataInv'
  <1> USE DEF agentVars, exporterVars, redisVars, syncVars
  <1>t. DataTypeOK BY DEF DataInv
  <1>1. CASE Recover
    <2>1. /\ agent = "down" /\ agent' = "up"
          /\ UNCHANGED <<entry, deleting, pending, exporterVars, redisVars, syncVars, counts>>
      BY <1>1 DEF Recover
    <2>2. DataTypeOK' BY <1>t, <2>1 DEF DataTypeOK
    <2>3. deleting = <<>> BY <2>1 DEF DataInv, DeletesOnlyStopped, Up
    <2> QED BY <2>1, <2>2, <2>3 DEF DataInv, DeletesOnlyStopped, Up
  <1>2. CASE StatusExpires
    <2>1. fresh' = FALSE /\ UNCHANGED <<agentVars, exporterVars, keys, agentStatus, syncVars, counts>>
      BY <1>2 DEF StatusExpires
    <2>2. fresh' \in BOOLEAN BY <2>1
    <2>3. DataTypeOK' BY <1>t, <2>1, <2>2 DEF DataTypeOK
    <2> QED BY <2>1, <2>3 DEF DataInv, DeletesOnlyStopped, Up
  <1>3. CASE Crash \/ Unregister \/ PodDeleted
    <2>1. /\ agent' \in {"down", "gone"} /\ deleting' = <<>> /\ pending' = 0
          /\ xpc' = "idle" /\ hpc' = "idle" /\ UNCHANGED <<states, listed, keys, fresh, syncVars>>
      BY <1>3 DEF Crash, Unregister, PodDeleted, Leave
    <2>2. entry' = FALSE BY <1>3 DEF Crash, Unregister, PodDeleted, Leave
    <2>3. agentStatus' \in {"none", "with", "without"}
      BY <1>3, <1>t DEF Crash, Unregister, PodDeleted, DataTypeOK
    <2>4. UNCHANGED counts \/ Fault \/ (counts.crashes < MaxCrashes /\ counts' = [counts EXCEPT !.crashes = @ + 1])
      BY <1>3 DEF Crash, Unregister, PodDeleted
    <2>5. counts' \in [starts: 0..MaxStarts, runs: 0..MaxRuns, crashes: 0..MaxCrashes, faults: 0..MaxFaults]
      BY <1>t, <2>4, CountUse DEF DataTypeOK
    <2>6. counts'.runs \in Nat BY <2>5, DataBoundsAssumption
    <2>7. pending' \in 0..MaxRuns /\ pending' <= counts'.runs BY <2>1, <2>6, DataBoundsAssumption
    <2>d. deleting' \in Seq(Keys) BY <2>1, DeletionTypes
    <2>8. entry' \in BOOLEAN BY <2>2
    <2>9. DataTypeOK' BY <1>t, <2>1, <2>3, <2>5, <2>7, <2>8, <2>d DEF DataTypeOK
    <2> QED BY <2>1, <2>2, <2>7, <2>9 DEF DataInv, DeletesOnlyStopped, Up
  <1> QED BY <1>1, <1>2, <1>3

\* The test run exporter.
LEMMA ExporterKeeps == ASSUME DataInv, ExporterStep PROVE DataInv'
  <1> USE DEF agentVars, exporterVars, redisVars, syncVars
  <1>t. DataTypeOK BY DEF DataInv
  <1>1. CASE TakeRun
    <2>1. /\ Up /\ pending > 0 /\ pending' = pending - 1 /\ xpc' = "latest"
          /\ UNCHANGED <<agent, entry, deleting, hpc, states, listed, redisVars, syncVars, counts>>
      BY <1>1 DEF TakeRun
    <2>2. pending' \in 0..MaxRuns /\ pending' <= counts.runs
      BY <1>t, <2>1, CountTypes, DataBoundsAssumption DEF DataInv, DataTypeOK
    <2>3. DataTypeOK' BY <1>t, <2>1, <2>2 DEF DataTypeOK
    <2> QED BY <2>1, <2>2, <2>3 DEF DataInv, DeletesOnlyStopped, Up
  <1>2. CASE WriteTestRun
    <2>1. /\ Up /\ xpc # "idle" /\ (UNCHANGED counts \/ Fault)
          /\ UNCHANGED <<agentVars, hpc, states, listed, agentStatus, fresh, syncVars>>
      BY <1>2 DEF WriteTestRun
    <2>2. xpc \in {"latest", "status", "failed"} BY <1>t, <2>1 DEF DataTypeOK
    <2>3. RunKey[xpc] \in Keys /\ AfterRunKey[xpc] \subseteq {"idle", "status", "failed"}
      BY <2>2, WrittenKeys DEF RunKey, AfterRunKey
    <2>4. keys' \in SUBSET Keys /\ xpc' \in {"idle", "latest", "status", "failed"}
      BY <1>2, <1>t, <2>3 DEF WriteTestRun, DataTypeOK
    <2>5. /\ counts' \in [starts: 0..MaxStarts, runs: 0..MaxRuns, crashes: 0..MaxCrashes, faults: 0..MaxFaults]
          /\ counts'.runs = counts.runs
      BY <1>t, <2>1, CountUse, FaultKeepsRuns DEF DataTypeOK
    <2>6. DataTypeOK' BY <1>t, <2>1, <2>4, <2>5 DEF DataTypeOK
    <2> QED BY <2>1, <2>5, <2>6 DEF DataInv, DeletesOnlyStopped, Up
  <1> QED BY <1>1, <1>2 DEF ExporterStep

\* The health exporter.
LEMMA HealthKeeps == ASSUME DataInv, HealthStep PROVE DataInv'
  <1> USE DEF agentVars, exporterVars, redisVars, syncVars
  <1>t. DataTypeOK BY DEF DataInv
  <1>1. /\ Up /\ UNCHANGED <<agentVars, xpc, syncVars>> /\ (UNCHANGED counts \/ Fault)
    BY DEF HealthStep, GetAllPluginState, GetAgentStatus, WriteAgentStatus, WritePluginHealthStatus
  <1>2. /\ counts' \in [starts: 0..MaxStarts, runs: 0..MaxRuns, crashes: 0..MaxCrashes, faults: 0..MaxFaults]
        /\ counts'.runs = counts.runs
    BY <1>t, <1>1, CountUse, FaultKeepsRuns DEF DataTypeOK
  <1>3. states' \in BOOLEAN /\ listed' \in BOOLEAN /\ fresh' \in BOOLEAN
    BY <1>t DEF HealthStep, GetAllPluginState, GetAgentStatus, WriteAgentStatus,
                WritePluginHealthStatus, DataTypeOK
  <1>4. agentStatus' \in {"none", "with", "without"}
    BY <1>t DEF HealthStep, GetAllPluginState, GetAgentStatus, WriteAgentStatus,
                WritePluginHealthStatus, DataTypeOK
  <1>5. keys' \in SUBSET Keys /\ hpc' \in {"idle", "list", "agent", "health", "unhealthy", "status"}
    <2>1. CASE WritePluginHealthStatus
      <3>1. hpc \in {"health", "unhealthy", "status"} BY <2>1 DEF WritePluginHealthStatus
      <3>2. HealthKey[hpc] \in Keys /\ AfterHealthKey[hpc] \subseteq {"idle", "unhealthy", "status"}
        BY <3>1, WrittenKeys DEF HealthKey, AfterHealthKey
      <3> QED BY <1>t, <2>1, <3>2 DEF WritePluginHealthStatus, DataTypeOK
    <2>2. CASE GetAllPluginState \/ GetAgentStatus \/ WriteAgentStatus
      BY <1>t, <2>2 DEF GetAllPluginState, GetAgentStatus, WriteAgentStatus, DataTypeOK
    <2> QED BY <2>1, <2>2 DEF HealthStep
  <1>6. DataTypeOK' BY <1>t, <1>1, <1>2, <1>3, <1>4, <1>5 DEF DataTypeOK
  <1> QED BY <1>1, <1>2, <1>6 DEF DataInv, DeletesOnlyStopped, Up

\* The controller's sync touches nothing that the agent holds.
LEMMA SyncKeeps == ASSUME DataInv, SyncStep PROVE DataInv'
  <1> USE DEF agentVars, exporterVars, redisVars, syncVars
  <1>t. DataTypeOK BY DEF DataInv
  <1>1. UNCHANGED <<agentVars, exporterVars, fresh>> /\ (UNCHANGED counts \/ Fault)
    BY DEF SyncStep, ListPods, FetchAllAgentStatus, SyncAgents, FetchAllTestRunStatus, FetchActiveAgents, CleanStale
  <1>2. /\ counts' \in [starts: 0..MaxStarts, runs: 0..MaxRuns, crashes: 0..MaxCrashes, faults: 0..MaxFaults]
        /\ counts'.runs = counts.runs
    BY <1>t, <1>1, CountUse, FaultKeepsRuns DEF DataTypeOK
  <1>3. podListed' \in BOOLEAN /\ known' \in BOOLEAN
    BY <1>t DEF SyncStep, ListPods, FetchAllAgentStatus, SyncAgents, FetchAllTestRunStatus,
                FetchActiveAgents, CleanStale, DataTypeOK
  <1>4. agentStatus' \in {"none", "with", "without"} /\ keys' \in SUBSET Keys
    BY <1>t DEF SyncStep, ListPods, FetchAllAgentStatus, SyncAgents, FetchAllTestRunStatus,
                FetchActiveAgents, CleanStale, DataTypeOK
  <1>5. /\ cpc' \in {"idle", "statuses", "agents", "runs", "active", "clean"} /\ cleaning' \in Seq(Keys)
        /\ (cpc' = "clean" <=> cleaning' # <<>>)
    <2>1. CASE CleanStale
      <3>1. cleaning \in Seq(Keys) /\ cleaning # <<>> BY <1>t, <2>1 DEF CleanStale, DataInv, DataTypeOK
      <3>2. Tail(cleaning) \in Seq(Keys) BY <3>1, DeletionTypes
      <3>3. cleaning' = Tail(cleaning) /\ cpc' = IF Tail(cleaning) = <<>> THEN "idle" ELSE "clean"
        BY <2>1 DEF CleanStale
      <3> QED BY <3>2, <3>3
    <2>2. CASE ListPods \/ FetchAllAgentStatus \/ SyncAgents \/ FetchAllTestRunStatus \/ FetchActiveAgents
      <3>1. cpc # "clean"
        BY <2>2 DEF ListPods, FetchAllAgentStatus, SyncAgents, FetchAllTestRunStatus, FetchActiveAgents
      <3>2. cleaning = <<>> /\ cleaning \in Seq(Keys) BY <1>t, <3>1 DEF DataInv, DataTypeOK
      <3>3. \/ cpc' \in {"idle", "statuses", "agents", "runs", "active"} /\ cleaning' = cleaning
            \/ cpc' = "clean" /\ cleaning' = DeleteOrder
        BY <2>2 DEF ListPods, FetchAllAgentStatus, SyncAgents, FetchAllTestRunStatus, FetchActiveAgents
      <3> QED BY <3>2, <3>3, DeletionTypes
    <2> QED BY <2>1, <2>2 DEF SyncStep
  <1>6. DataTypeOK' BY <1>t, <1>1, <1>2, <1>3, <1>4, <1>5 DEF DataTypeOK
  <1> QED BY <1>1, <1>2, <1>5, <1>6 DEF DataInv, DeletesOnlyStopped, Up
-----------------------------------------------------------------------------
\* Every step of the agent, of its crashes and of the controller keeps the invariant.
THEOREM DataInvariant == DataSpec => []DataInv
  <1>1. DataInv /\ [DataNext]_dvars => DataInv'
    <2> SUFFICES ASSUME DataInv, [DataNext]_dvars PROVE DataInv' OBVIOUS
    <2>1. CASE UNCHANGED dvars
      BY <2>1 DEF dvars, agentVars, exporterVars, redisVars, syncVars, DataInv, DataTypeOK,
                  DeletesOnlyStopped, Up
    <2>2. CASE DataNext
      BY <2>2, ManagerKeeps, LifeKeeps, ExporterKeeps, HealthKeeps, SyncKeeps DEF DataNext
    <2> QED BY <2>1, <2>2
  <1> QED BY <1>1, DataInitInv, PTL DEF DataSpec

\* For every number of starts, runs, crashes and faults the types hold: in particular the
\* exporters write no key that DeleteAllTestRunInfo would leave (common/storage/redis.go).
THEOREM DataTypeCorrect == DataSpec => []DataTypeOK
  <1>1. DataInv => DataTypeOK BY DEF DataInv
  <1> QED BY <1>1, DataInvariant, PTL

\* The agent never deletes the data of a test that it runs, not even after a crash: while
\* StopAndDeleteSynTest deletes, the test has no entry (agent/pluginmanager).
THEOREM DeletesOnlyStoppedHolds == DataSpec => []DeletesOnlyStopped
  <1>1. DataInv => DeletesOnlyStopped BY DEF DataInv
  <1> QED BY <1>1, DataInvariant, PTL
=============================================================================
