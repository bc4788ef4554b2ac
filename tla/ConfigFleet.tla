----------------------------- MODULE ConfigFleet -----------------------------
(***************************************************************************)
(* ConfigMirror together with the agents that read the mirrored config:    *)
(* each agent's main loop runs SyncSyntestPluginConfigs, on a config       *)
(* signal or on its ticker, and starts and stops the test's routine.       *)
(***************************************************************************)
EXTENDS ConfigMirror

VARIABLES
    apc,      \* the next step of each agent's sync
    latest,   \* the test's summary as the agent's sync read it
    fetched,  \* the config the sync fetched after it
    running   \* the agent's entry of pm.SyntheticTests: config and version

agentVars == <<apc, latest, fetched, running>>
fleetVars == <<vars, agentVars>>

Entries == [config: ConfigValues, version: ConfigValues]

\* The types of the agents' variables.
FleetTypeOK ==
    /\ apc \in [Agents -> {"idle", "config", "restart"}]
    /\ latest \in [Agents -> ConfigValues \cup {Nil}]
    /\ fetched \in [Agents -> ConfigValues \cup {Nil}]
    /\ running \in [Agents -> Entries \cup {Nil}]

FleetInit ==
    /\ Init
    /\ apc = [a \in Agents |-> "idle"]
    /\ latest = [a \in Agents |-> Nil]
    /\ fetched = [a \in Agents |-> Nil]
    /\ running = [a \in Agents |-> Nil]

\* IsAgentValidForSynTest: an assigned config carries the agent's id in its
\* podLabelSelector; one that could not be assigned keeps a '$' no agent matches.
IsAgentValid(config, a) ==
    /\ a \in Fits[config.content]
    /\ Kind[config.content] # "multiple" => config.agent = a

\* Faulty variant: the version is compared with that of the config that runs.
OnVersionOfConfig(a, version) == running[a] # Nil /\ running[a].config.config = version.config

\* The version test runs on the version alone: gen is no part of it.
OnLatestVersion(a, version) == running[a] # Nil /\ running[a].version.config = version.config

EndSync(a) ==
    /\ latest' = [latest EXCEPT ![a] = Nil]
    /\ fetched' = [fetched EXCEPT ![a] = Nil]

\* Faulty variant: both loops go over the tests that run.
SyncSummariesOfRunning(a) ==
    /\ apc[a] = "idle" /\ running[a] # Nil
    /\ IF summary = Nil
       THEN running' = [running EXCEPT ![a] = Nil] /\ UNCHANGED <<apc, latest, fetched>>
       ELSE /\ ~OnLatestVersion(a, summary)
            /\ latest' = [latest EXCEPT ![a] = summary]
            /\ apc' = [apc EXCEPT ![a] = "config"]
            /\ UNCHANGED <<fetched, running>>
    /\ UNCHANGED vars

\* The sync reads the summaries; a test that left them is stopped, one that runs on the
\* latest version is left alone.
SyncSummaries(a) ==
    /\ apc[a] = "idle"
    /\ IF summary = Nil
       THEN running' = [running EXCEPT ![a] = Nil] /\ UNCHANGED <<apc, latest, fetched>>
       ELSE /\ ~OnLatestVersion(a, summary)
            /\ latest' = [latest EXCEPT ![a] = summary]
            /\ apc' = [apc EXCEPT ![a] = "config"]
            /\ UNCHANGED <<fetched, running>>
    /\ UNCHANGED vars

\* A config that cannot be fetched is skipped and what runs keeps running.
SyncFetchConfig(a) ==
    /\ apc[a] = "config"
    /\ IF json = Nil
       THEN apc' = [apc EXCEPT ![a] = "idle"] /\ EndSync(a)
       ELSE /\ apc' = [apc EXCEPT ![a] = "restart"]
            /\ fetched' = [fetched EXCEPT ![a] = json]
            /\ UNCHANGED latest
    /\ UNCHANGED <<vars, running>>

\* Faulty variant: the version is read again after the config.
SyncRestartRereads(a) ==
    /\ apc[a] = "restart" /\ summary # Nil
    /\ apc' = [apc EXCEPT ![a] = "idle"]
    /\ running' = [running EXCEPT ![a] =
                     IF IsAgentValid(fetched[a].config, a)
                     THEN [config |-> fetched[a], version |-> summary]
                     ELSE Nil]
    /\ EndSync(a)
    /\ UNCHANGED vars

\* StopAndDeleteSynTest on the old entry, then a new one if the agent is selected.  The
\* entry's version is the summary's, its config the one that was fetched.
SyncRestart(a) ==
    /\ apc[a] = "restart"
    /\ apc' = [apc EXCEPT ![a] = "idle"]
    /\ running' = [running EXCEPT ![a] =
                     IF IsAgentValid(fetched[a].config, a)
                     THEN [config |-> fetched[a], version |-> latest[a]]
                     ELSE Nil]
    /\ EndSync(a)
    /\ UNCHANGED vars

\* The agent's process ends and starts again with nothing running.  A sync that cannot read
\* the summaries ends it, too: pm.Exit.
AgentRestart(a) ==
    /\ CommandFails
    /\ apc' = [apc EXCEPT ![a] = "idle"]
    /\ running' = [running EXCEPT ![a] = Nil]
    /\ EndSync(a)
    /\ UNCHANGED <<crd, cache, queued, active, store, pc, local, changes>>

\* A config that cannot be read: the sync leaves what runs alone.
SyncConfigFails(a) ==
    /\ CommandFails
    /\ apc[a] = "config"
    /\ apc' = [apc EXCEPT ![a] = "idle"]
    /\ EndSync(a)
    /\ UNCHANGED <<crd, cache, queued, active, store, pc, local, changes, running>>

AgentSync(a) == SyncSummaries(a) \/ SyncFetchConfig(a) \/ SyncRestart(a)

FleetNext ==
    \/ Next /\ UNCHANGED agentVars
    \/ \E a \in Agents : AgentSync(a) \/ AgentRestart(a) \/ SyncConfigFails(a)

FleetSpec == FleetInit /\ [][FleetNext]_fleetVars

SettledFleetNext ==
    \/ ReconcilerNext /\ UNCHANGED agentVars
    \/ \E a \in Agents : AgentSync(a) \/ AgentRestart(a) \/ SyncConfigFails(a)

\* Between two periodic syncs of the controller, every goroutine keeps running.
SettledFleetSpec ==
    /\ FleetInit
    /\ [][SettledFleetNext]_fleetVars
    /\ WF_fleetVars(CacheSync /\ UNCHANGED agentVars)
    /\ WF_fleetVars(ExternalEvent /\ UNCHANGED agentVars)
    /\ WF_fleetVars(ReconcileStep /\ UNCHANGED agentVars)
    /\ \A a \in Agents : WF_fleetVars(AgentSync(a))
-----------------------------------------------------------------------------
\* What a sync holds between its reads: the version it read is not newer than the json,
\* nor than any json Reconcile may still write, nor than the config it then fetched.
SyncHolds(a) ==
    /\ apc[a] = "idle" <=> latest[a] = Nil
    /\ apc[a] = "restart" <=> fetched[a] # Nil
    /\ AtMost(latest[a], cache.gen)
    /\ pc[Reconciler] # "idle" => AtMost(latest[a], inst.gen)
    /\ latest[a] # Nil /\ json # Nil => latest[a].gen <= json.gen
    /\ latest[a] # Nil /\ fetched[a] # Nil => latest[a].gen <= fetched[a].gen

\* The config an agent runs is never older than the version it is labelled with, though
\* the two come from two reads with writes, deletions and crashes in between.
ConfigNotOlderThanVersion ==
    \A a \in Agents : running[a] # Nil => running[a].version.gen <= running[a].config.gen

\* A test that runs is stopped and started again only for another version than it runs on,
\* and never with an older config than it runs, though its config was read after its
\* version, and may have been deleted and written anew between two syncs.
RestartsForward ==
    \A a \in Agents : apc[a] = "restart" /\ running[a] # Nil =>
        /\ latest[a].config # running[a].version.config
        /\ running[a].config.gen <= fetched[a].gen

\* What an agent has read or runs is not newer than the json, nor than any json Reconcile
\* may still write.
NotNewer(gen) ==
    /\ gen <= cache.gen
    /\ pc[Reconciler] # "idle" => gen <= inst.gen
    /\ json # Nil => gen <= json.gen

\* A sync goes on only with a version that does not run.
RunHolds(a) ==
    /\ fetched[a] # Nil => NotNewer(fetched[a].gen)
    /\ running[a] # Nil => /\ NotNewer(running[a].config.gen)
                           /\ latest[a] # Nil => latest[a].config # running[a].version.config
                           /\ fetched[a] # Nil => running[a].config.gen <= fetched[a].gen

\* The inductive strengthening of ConfigNotOlderThanVersion.
FleetInv == WriteOrderInv /\ ConfigNotOlderThanVersion /\ \A a \in Agents : SyncHolds(a)

\* The inductive strengthening of RestartsForward.
RestartInv == FleetInv /\ \A a \in Agents : RunHolds(a)

Settled ==
    \A a \in Agents :
        IF crd.exists /\ json # Nil /\ IsAgentValid(json.config, a)
        THEN running[a] # Nil /\ running[a].config.config = json.config
        ELSE running[a] = Nil

\* Once the user and the active agents stop changing, exactly the selected agents run
\* the test, each with the mirrored config.
FleetSettles == <>[]Settled

\* No two agents run a test with a '$' selector.
SingleAgent ==
    \A c \in Contents, a, b \in Agents :
        /\ Kind[c] = "assigned"
        /\ running[a] # Nil /\ running[a].config.config.content = c
        /\ running[b] # Nil /\ running[b].config.config.content = c
        => a = b

\* A test with a '$' selector ends up on one agent, however the stale copies of its
\* resource moved it about: "Run on a single (random) node" (README.md).
EventuallySingleAgent == <>[]SingleAgent
=============================================================================
