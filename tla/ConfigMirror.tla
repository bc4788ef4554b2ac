---------------------------- MODULE ConfigMirror ----------------------------
(***************************************************************************)
(* How the controller mirrors one SyntheticTest resource into Redis.       *)
(*                                                                         *)
(* Two goroutines of the controller write the four keys of a test's        *)
(* config, one Redis command at a time: the reconciler, which runs         *)
(* Reconcile for one request at a time, and the syncer, which runs         *)
(* sync.SynTests periodically.  The resource lives in the API server and   *)
(* both goroutines read it from the informer's cache, which lags behind.   *)
(*                                                                         *)
(* Every key carries the id of its test and no step looks at two tests, so *)
(* the module follows a single test.  A spec's content is a model value.   *)
(* The version of a config is an md5 hash of it and is taken to be         *)
(* injective: a version is represented by the config itself.  gen is a     *)
(* history value: it numbers the contents the resource has had.            *)
(***************************************************************************)
EXTENDS Naturals

CONSTANTS
    Contents,         \* what the user may write in the resource
    Kind,             \* how a content selects agents, see Kinds
    Fits,             \* the agents a content's selectors match ('$' read as '*')
    Agents,           \* ids of the agents
    Nil,              \* an absent key, or no pinned agent
    MaxGen,           \* bound: how often the user may write the resource
    MaxFaults,        \* bound: failed commands and controller crashes
    MaxAgentChanges   \* bound: how often the set of active agents changes

Kinds == {"multiple", "assigned", "both"}

ASSUME KindAssumption == Kind \in [Contents -> Kinds]
ASSUME FitsAssumption == Fits \in [Contents -> SUBSET Agents]
ASSUME BoundsAssumption == MaxGen \in Nat /\ MaxFaults \in Nat /\ MaxAgentChanges \in Nat
ASSUME NilAssumption == Nil \notin Contents \cup Agents
ASSUME AgentIdAssumption == {"", "multiple"} \cap Agents = {}

VARIABLES
    crd,        \* the resource in the API server
    cache,      \* the informer's copy of it
    queued,     \* is a request for it in the work queue?
    active,     \* the agents FetchActiveAgents would return
    raw,        \* configs/syntest/<id>/raw
    json,       \* configs/syntest/<id>/json
    status,     \* configs/syntest/<id>/status
    summary,    \* the test's field of configs/syntests/summary
    pc,         \* the next step of the reconciler and of the syncer
    inst,       \* Reconcile's instance
    newAgent,   \* Reconcile's agent
    listed,     \* was the test in the syncer's list of resources?
    faults, changes

store == <<raw, json, status, summary>>
local == <<inst, newAgent, listed>>
vars == <<crd, cache, queued, active, store, pc, local, faults, changes>>

Reconciler == "reconciler"
Syncer == "syncer"
Goroutines == {Reconciler, Syncer}
WriteSteps == {"agents", "fetch", "raw", "emptyStatus", "json", "summary", "publish",
               "status", "crdStatus"}
DeleteSteps == {"delRaw", "delJson", "delStatus", "delSummary", "delPublish"}
Steps == {"idle", "summaries"} \cup WriteSteps \cup DeleteSteps

AgentNames == Agents \cup {"", "multiple"}
Configs == [content: Contents, agent: Agents \cup {Nil}]
Resources == [exists: {TRUE}, content: Contents, gen: Nat, agent: AgentNames]
        \cup [exists: {FALSE}, content: {Nil}, gen: Nat, agent: AgentNames]
NoResource == [exists |-> FALSE, content |-> Nil, gen |-> 0, agent |-> ""]
RawValues == [content: Contents, gen: Nat]
ConfigValues == [config: Configs, gen: Nat]
StatusValues == [deployed: BOOLEAN, agent: AgentNames]

\* An absent key is not taken for a config.
ASSUME AbsentAssumption == Nil \notin ConfigValues

\* The types of the variables.
TypeOK ==
    /\ crd \in Resources /\ cache \in Resources /\ inst \in Resources
    /\ queued \in BOOLEAN /\ listed \in BOOLEAN
    /\ active \in SUBSET Agents
    /\ raw \in RawValues \cup {Nil}
    /\ json \in ConfigValues \cup {Nil}
    /\ summary \in ConfigValues \cup {Nil}
    /\ status \in StatusValues \cup {Nil}
    /\ pc \in [Goroutines -> Steps]
    /\ newAgent \in AgentNames
    /\ faults \in 0..MaxFaults /\ changes \in 0..MaxAgentChanges

\* While Reconcile writes, it holds a copy of a resource that existed when it was read.
WritesOnlyExisting == pc[Reconciler] \in WriteSteps => inst.exists

Init ==
    /\ crd = NoResource /\ cache = NoResource /\ inst = NoResource
    /\ queued = FALSE /\ listed = FALSE /\ active = {}
    /\ raw = Nil /\ json = Nil /\ status = Nil /\ summary = Nil
    /\ pc = [p \in Goroutines |-> "idle"]
    /\ newAgent = "" /\ faults = 0 /\ changes = 0
-----------------------------------------------------------------------------
(* The environment: the user, the informer and the agents. *)

WriteResource(c) ==
    /\ crd.gen < MaxGen
    /\ crd.exists => c # crd.content
    /\ crd' = [exists |-> TRUE, content |-> c, gen |-> crd.gen + 1, agent |-> crd.agent]
    /\ UNCHANGED <<cache, queued, active, store, pc, local, faults, changes>>

DeleteResource ==
    /\ crd.exists
    /\ crd' = [NoResource EXCEPT !.gen = crd.gen]
    /\ UNCHANGED <<cache, queued, active, store, pc, local, faults, changes>>

\* The watch delivers the current resource and its handler enqueues a request.
CacheSync ==
    /\ cache # crd
    /\ cache' = crd
    /\ queued' = TRUE
    /\ UNCHANGED <<crd, active, store, pc, local, faults, changes>>

AgentsChange(S) ==
    /\ changes < MaxAgentChanges
    /\ S # active
    /\ active' = S
    /\ changes' = changes + 1
    /\ UNCHANGED <<crd, cache, queued, store, pc, local, faults>>

\* An agent's signal, or the event the sync loop sends when it is done:
\* ReconcileForExternalEvents requests every listed resource.
ExternalEvent ==
    /\ cache.exists
    /\ queued' = TRUE
    /\ UNCHANGED <<crd, cache, active, store, pc, local, faults, changes>>
-----------------------------------------------------------------------------
(* Reconcile.  Its steps are the reads and the writes other goroutines can *)
(* see; inst and newAgent are its local variables.                         *)

Goto(p, from, to) ==
    /\ pc[p] = from
    /\ pc' = [pc EXCEPT ![p] = to]

Return ==
    /\ inst' = NoResource
    /\ newAgent' = ""

\* The config Reconcile would store, and its version.  Assigning an agent adds it to
\* podLabelSelector; otherwise the config keeps the selectors of the resource.
Target == [content |-> inst.content, agent |-> IF newAgent \in Agents THEN newAgent ELSE Nil]

\* Faulty variant: a resource that is gone is taken for an error and nothing is deleted.
ReconcileKeepsDeleted ==
    /\ queued
    /\ Goto(Reconciler, "idle", IF cache.exists THEN "agents" ELSE "idle")
    /\ queued' = FALSE
    /\ inst' = IF cache.exists THEN cache ELSE NoResource
    /\ UNCHANGED <<crd, cache, active, store, newAgent, listed, faults, changes>>

Reconcile ==
    /\ queued
    /\ Goto(Reconciler, "idle", IF cache.exists THEN "agents" ELSE "delRaw")
    /\ queued' = FALSE
    /\ inst' = cache
    /\ UNCHANGED <<crd, cache, active, store, newAgent, listed, faults, changes>>

\* Faulty variant: the pick from an empty list of valid agents is used.
AgentChoicesUnchecked(content, current, alive) ==
    LET valid == alive \cap Fits[content] IN
    IF Kind[content] = "both" THEN {""}
    ELSE IF Kind[content] = "multiple" THEN {"multiple"}
    ELSE IF current \in valid THEN {current}
    ELSE IF valid = {} THEN {Nil} ELSE valid

\* The choices of newAgent for a content, the agent in the resource's status and the
\* active agents.  SelectRandomAgent picks any of the valid agents.
AgentChoices(content, current, alive) ==
    LET valid == alive \cap Fits[content] IN
    IF Kind[content] = "both" \/ valid = {} THEN {""}
    ELSE IF Kind[content] = "multiple" THEN {"multiple"}
    ELSE IF current \in valid THEN {current}
    ELSE valid

ChooseAgent ==
    /\ Goto(Reconciler, "agents", "fetch")
    /\ newAgent' \in AgentChoices(inst.content, inst.agent, active)
    /\ UNCHANGED <<crd, cache, queued, active, store, inst, listed, faults, changes>>

\* Faulty variant: the versions are not compared.
UpToDateByAgent == json # Nil /\ inst.agent = newAgent

\* updateTestConfigInRedis: nothing is written when the stored config has the target's
\* version and the agent stays.
UpToDate ==
    /\ json # Nil
    /\ json.config = Target
    /\ inst.agent = newAgent

FetchTestConfig ==
    /\ Goto(Reconciler, "fetch", IF UpToDate THEN "status" ELSE "raw")
    /\ UNCHANGED <<crd, cache, queued, active, store, local, faults, changes>>

\* Faulty variant: the raw spec is written only when there is none.
WriteRawOnce ==
    /\ Goto(Reconciler, "raw", "emptyStatus")
    /\ raw' = IF raw = Nil THEN [content |-> inst.content, gen |-> inst.gen] ELSE raw
    /\ UNCHANGED <<crd, cache, queued, active, json, status, summary, local, faults, changes>>

WriteRaw ==
    /\ Goto(Reconciler, "raw", "emptyStatus")
    /\ raw' = [content |-> inst.content, gen |-> inst.gen]
    /\ UNCHANGED <<crd, cache, queued, active, json, status, summary, local, faults, changes>>

WriteEmptyStatus ==
    /\ Goto(Reconciler, "emptyStatus", "json")
    /\ status' = [deployed |-> FALSE, agent |-> ""]
    /\ UNCHANGED <<crd, cache, queued, active, raw, json, summary, local, faults, changes>>

WriteJson ==
    /\ Goto(Reconciler, "json", "summary")
    /\ json' = [config |-> Target, gen |-> inst.gen]
    /\ UNCHANGED <<crd, cache, queued, active, raw, status, summary, local, faults, changes>>

\* Faulty variant: the summary's field is set only when it is absent.
WriteSummaryOnce ==
    /\ Goto(Reconciler, "summary", "publish")
    /\ summary' = IF summary = Nil THEN [config |-> Target, gen |-> inst.gen] ELSE summary
    /\ UNCHANGED <<crd, cache, queued, active, raw, json, status, local, faults, changes>>

WriteSummary ==
    /\ Goto(Reconciler, "summary", "publish")
    /\ summary' = [config |-> Target, gen |-> inst.gen]
    /\ UNCHANGED <<crd, cache, queued, active, raw, json, status, local, faults, changes>>

\* The signal only wakes agents, which also sync on their own timers.
PublishUpdate ==
    /\ Goto(Reconciler, "publish", "status")
    /\ UNCHANGED <<crd, cache, queued, active, store, local, faults, changes>>

WriteStatus ==
    /\ Goto(Reconciler, "status", "crdStatus")
    /\ status' = [deployed |-> newAgent # "", agent |-> newAgent]
    /\ UNCHANGED <<crd, cache, queued, active, raw, json, summary, local, faults, changes>>

\* Without a valid agent Reconcile asks to be run again in a minute.
Requeues == newAgent = "" /\ Kind[inst.content] # "both"

\* The API server refuses the update unless inst is the resource's latest revision;
\* Reconcile only logs the refusal.
UpdateResourceStatus ==
    /\ Goto(Reconciler, "crdStatus", "idle")
    /\ crd' = IF crd = inst THEN [crd EXCEPT !.agent = newAgent] ELSE crd
    /\ queued' = (queued \/ Requeues)
    /\ Return
    /\ UNCHANGED <<cache, active, store, listed, faults, changes>>
-----------------------------------------------------------------------------
(* DeleteTestConfig, called by Reconcile when the resource is gone and by  *)
(* the syncer when its list did not contain the test.                      *)

DeleteRaw(p) ==
    /\ Goto(p, "delRaw", "delJson")
    /\ raw' = Nil
    /\ UNCHANGED <<crd, cache, queued, active, json, status, summary, local, faults, changes>>

DeleteJson(p) ==
    /\ Goto(p, "delJson", "delStatus")
    /\ json' = Nil
    /\ UNCHANGED <<crd, cache, queued, active, raw, status, summary, local, faults, changes>>

DeleteStatus(p) ==
    /\ Goto(p, "delStatus", "delSummary")
    /\ status' = Nil
    /\ UNCHANGED <<crd, cache, queued, active, raw, json, summary, local, faults, changes>>

DeleteSummary(p) ==
    /\ Goto(p, "delSummary", "delPublish")
    /\ summary' = Nil
    /\ UNCHANGED <<crd, cache, queued, active, raw, json, status, local, faults, changes>>

\* Both callers end here: Reconcile returns without asking to be run again.
ReturnFromDelete(p) ==
    /\ IF p = Reconciler THEN Return /\ UNCHANGED listed
                         ELSE listed' = FALSE /\ UNCHANGED <<inst, newAgent>>
    /\ UNCHANGED <<crd, cache, queued, active, store, changes>>

PublishDelete(p) ==
    /\ Goto(p, "delPublish", "idle")
    /\ ReturnFromDelete(p)
    /\ UNCHANGED faults

DeleteTestConfig(p) ==
    DeleteRaw(p) \/ DeleteJson(p) \/ DeleteStatus(p) \/ DeleteSummary(p) \/ PublishDelete(p)

(* SynTests: list the resources, read the summaries, delete what was not listed. *)

ListResources ==
    /\ Goto(Syncer, "idle", "summaries")
    /\ listed' = cache.exists
    /\ UNCHANGED <<crd, cache, queued, active, store, inst, newAgent, faults, changes>>

\* Faulty variant: what was not listed is kept.
FetchSummariesKeeps ==
    /\ Goto(Syncer, "summaries", "idle")
    /\ listed' = FALSE
    /\ UNCHANGED <<crd, cache, queued, active, store, inst, newAgent, faults, changes>>

FetchSummaries ==
    /\ Goto(Syncer, "summaries", IF summary # Nil /\ ~listed THEN "delRaw" ELSE "idle")
    /\ listed' = FALSE
    /\ UNCHANGED <<crd, cache, queued, active, store, inst, newAgent, faults, changes>>
-----------------------------------------------------------------------------
(* Failures: a command that returns an error, a list that fails, a crash.  *)

CommandFails ==
    /\ faults < MaxFaults
    /\ faults' = faults + 1

\* The errors Reconcile returns: the work queue runs it again.
ReconcileFails ==
    /\ pc[Reconciler] \in {"agents", "raw", "json", "summary", "publish"}
    /\ pc[Reconciler] = "agents" => Kind[inst.content] # "both"
    /\ CommandFails
    /\ pc' = [pc EXCEPT ![Reconciler] = "idle"]
    /\ queued' = TRUE
    /\ Return
    /\ UNCHANGED <<crd, cache, active, store, listed, changes>>

\* The errors it ignores: a config that cannot be fetched counts as absent.
IgnoredFailure ==
    /\ CommandFails
    /\ \/ Goto(Reconciler, "fetch", "raw") /\ UNCHANGED <<queued, inst, newAgent>>
       \/ Goto(Reconciler, "emptyStatus", "json") /\ UNCHANGED <<queued, inst, newAgent>>
       \/ Goto(Reconciler, "status", "crdStatus") /\ UNCHANGED <<queued, inst, newAgent>>
       \/ /\ Goto(Reconciler, "crdStatus", "idle")
          /\ queued' = (queued \/ Requeues)
          /\ Return
    /\ UNCHANGED <<crd, cache, active, store, listed, changes>>

\* DeleteTestConfig stops at the first error, which both callers only log.
DeleteFails(p) ==
    /\ pc[p] \in DeleteSteps
    /\ CommandFails
    /\ pc' = [pc EXCEPT ![p] = "idle"]
    /\ ReturnFromDelete(p)

\* SynTests logs a failed list and goes on with the empty one; it returns when the
\* summaries cannot be read.
SyncFails ==
    /\ CommandFails
    /\ \/ Goto(Syncer, "idle", "summaries")
       \/ Goto(Syncer, "summaries", "idle")
    /\ listed' = FALSE
    /\ UNCHANGED <<crd, cache, queued, active, store, inst, newAgent, changes>>

\* The controller is killed and starts again: its informer lists the resources and
\* enqueues those that exist.
Crash ==
    /\ CommandFails
    /\ pc' = [p \in Goroutines |-> "idle"]
    /\ cache' = crd
    /\ queued' = crd.exists
    /\ listed' = FALSE
    /\ Return
    /\ UNCHANGED <<crd, active, store, changes>>
-----------------------------------------------------------------------------
User == DeleteResource \/ \E c \in Contents : WriteResource(c)

Events == CacheSync \/ ExternalEvent

ReconcileStep ==
    \/ Reconcile \/ ChooseAgent \/ FetchTestConfig
    \/ WriteRaw \/ WriteEmptyStatus \/ WriteJson \/ WriteSummary \/ PublishUpdate
    \/ WriteStatus \/ UpdateResourceStatus
    \/ DeleteTestConfig(Reconciler)

SyncStep == ListResources \/ FetchSummaries \/ DeleteTestConfig(Syncer)

Failure ==
    \/ ReconcileFails \/ IgnoredFailure \/ SyncFails \/ Crash
    \/ \E p \in Goroutines : DeleteFails(p)

Next ==
    \/ User \/ Events \/ ReconcileStep \/ SyncStep \/ Failure
    \/ \E S \in SUBSET Agents : AgentsChange(S)

Spec == Init /\ [][Next]_vars

\* Each goroutine keeps running, the watch delivers, and the sync loop sends its event
\* every five minutes.  Nothing is assumed of the user, the agents or failures.
FairSpec ==
    /\ Spec
    /\ WF_vars(CacheSync) /\ WF_vars(ExternalEvent)
    /\ WF_vars(ReconcileStep) /\ WF_vars(SyncStep)

\* The controller between two periodic syncs: the reconciler has the store to itself.
ReconcilerNext ==
    \/ User \/ Events \/ ReconcileStep
    \/ \E S \in SUBSET Agents : AgentsChange(S)

ReconcilerFailure == ReconcileFails \/ IgnoredFailure \/ DeleteFails(Reconciler) \/ Crash

ReconcilerFairness == WF_vars(CacheSync) /\ WF_vars(ExternalEvent) /\ WF_vars(ReconcileStep)

ReconcilerSpec == Init /\ [][ReconcilerNext]_vars /\ ReconcilerFairness

FailingReconcilerSpec ==
    Init /\ [][ReconcilerNext \/ ReconcilerFailure]_vars /\ ReconcilerFairness
-----------------------------------------------------------------------------
\* Of two keys that are present, the one WriteTestConfig writes first is never the
\* older.  An agent that reads a version in the summary and then the json, or the REST
\* API that reads the json and then the raw spec, may get a newer value but not an
\* older one, whatever the two goroutines, failures and crashes do in between.
WriteOrder ==
    /\ raw # Nil /\ json # Nil => json.gen <= raw.gen
    /\ json # Nil /\ summary # Nil => summary.gen <= json.gen
    /\ raw # Nil /\ summary # Nil => summary.gen <= raw.gen

AtMost(key, gen) == key # Nil => key.gen <= gen

Latest(key) == key # Nil => key.gen = inst.gen

\* The inductive strengthening of WriteOrder: no key is newer than the cache, nor, while
\* Reconcile runs, than its instance; a key it has written in this run is as new as
\* its instance, unless the syncer deleted it since.
WriteOrderInv ==
    /\ WriteOrder
    /\ cache.gen <= crd.gen
    /\ AtMost(raw, cache.gen) /\ AtMost(json, cache.gen) /\ AtMost(summary, cache.gen)
    /\ pc[Reconciler] # "idle" =>
          /\ inst.gen <= cache.gen
          /\ AtMost(raw, inst.gen) /\ AtMost(json, inst.gen) /\ AtMost(summary, inst.gen)
    /\ pc[Reconciler] \in {"emptyStatus", "json", "summary"} => Latest(raw)
    /\ pc[Reconciler] = "summary" => Latest(json)

AtRest ==
    /\ pc = [p \in Goroutines |-> "idle"]
    /\ ~queued
    /\ cache = crd

\* When the controller has nothing left to do, the summary the agents read has the
\* content of the resource: "It mirrors the CRD configs to redis".
RestMirrored ==
    AtRest /\ crd.exists => summary # Nil /\ summary.config.content = crd.content

\* As long as nothing failed, the periodic sync may take a config out of the summary
\* that Reconcile has just written, but it never leaves an outdated one there.
NeverOutdatedAtRest ==
    faults = 0 /\ AtRest /\ crd.exists => summary = Nil \/ summary.config.content = crd.content

\* What Reconcile works towards for the resource and the agents there are now.
Mirrored ==
    IF crd.exists
    THEN /\ raw # Nil /\ json # Nil /\ summary # Nil /\ status # Nil
         /\ raw.content = crd.content
         /\ json.config = summary.config
         /\ json.config.content = crd.content
         /\ crd.agent \in AgentChoices(crd.content, crd.agent, active)
         /\ json.config.agent = IF crd.agent \in Agents THEN crd.agent ELSE Nil
    ELSE raw = Nil /\ json = Nil /\ summary = Nil /\ status = Nil

\* Once the user and the agents stop changing things, Reconcile alone brings the four
\* keys, the assigned agent and the resource's status in line and keeps them there.
Converges == <>[]Mirrored

\* A resource that stays gets its content into the summary for good, whatever failed or
\* interfered on the way: "It mirrors the CRD configs to redis" (controller/README.md).
SummaryCatchesUp ==
    <>[]crd.exists => <>[](summary # Nil /\ summary.config.content = crd.content)

\* Once the resource stays deleted its test leaves the summary for good, even if
\* DeleteTestConfig failed or the controller crashed: the summary is deleted last, so
\* the periodic sync finds what is left to do.
DeletedLeavesSummary == <>[](~crd.exists) => <>[](summary = Nil)

\* The same for the other keys: "cleanup of the storage to remove any stale agents or
\* tests".
DeletedLeavesStore == <>[](~crd.exists) => <>[](json = Nil)
=============================================================================
