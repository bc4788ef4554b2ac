------------------------- MODULE ConfigReadersProofs -------------------------
(***************************************************************************)
(* Proofs about those who read the mirrored config key by key while the    *)
(* controller writes it, for any contents, agents, selectors and bounds:   *)
(* the requests of ConfigReader, the syncs of the agents of ConfigFleet,   *)
(* and what the selectors and the assignment of FleetSelection add.        *)
(***************************************************************************)
EXTENDS ConfigReader, FleetSelection, ConfigMirrorProofs
-----------------------------------------------------------------------------
(* GetTestConfig of the REST API *)

ReaderTypeInv == TypeInv /\ ReaderTypeOK

\* What a request holds, and the keys, have generations.
LEMMA HeldTypes ==
  ASSUME ReaderTypeInv
  PROVE  /\ cache.gen \in Nat /\ inst.gen \in Nat
         /\ gotJson # Nil => gotJson.gen \in Nat
         /\ gotRaw # Nil => gotRaw.gen \in Nat
<1>1. cache.gen \in Nat /\ inst.gen \in Nat
  BY GenTypes DEF ReaderTypeInv
<1>2. gotJson # Nil => gotJson.gen \in Nat
  BY DEF ReaderTypeInv, ReaderTypeOK, ConfigValues
<1>3. gotRaw # Nil => gotRaw.gen \in Nat
  BY DEF ReaderTypeInv, ReaderTypeOK, RawValues
<1> QED BY <1>1, <1>2, <1>3

\* Initially no request is under way.
LEMMA InitReader == ReaderInit => ReaderTypeInv /\ ReaderInv
<1> SUFFICES ASSUME ReaderInit PROVE ReaderTypeInv /\ ReaderInv
  OBVIOUS
<1>1. TypeInv /\ WriteOrderInv
  BY InitTypeInv, InitWriteOrder DEF ReaderInit
<1>2. ReaderTypeOK
  BY DEF ReaderInit, ReaderTypeOK
<1>3. ReaderHolds
  BY DEF ReaderInit, ReaderHolds, RawNotOlderThanConfig, AtMost
<1> QED BY <1>1, <1>2, <1>3 DEF ReaderTypeInv, ReaderInv

\* A read takes the json first and the raw spec second, so the pair it holds is in the
\* order of WriteOrder.
LEMMA ReadKeeps ==
  ASSUME ReaderTypeInv, ReaderInv, GetTestConfig
  PROVE  (ReaderTypeInv /\ ReaderInv)'
<1>1. UNCHANGED vars
  BY DEF GetTestConfig, ReadJson, ReadRaw, ReadStatus, ReadFails
<1>2. TypeInv'
  BY <1>1 DEF ReaderTypeInv, TypeInv, TypeOK, WritesOnlyExisting, vars, store, local
<1>3. WriteOrderInv'
  BY <1>1 DEF ReaderInv, WriteOrderInv, WriteOrder, AtMost, Latest, vars, store, local
<1>4. UNCHANGED <<cache, inst, pc, json, raw>>
  BY <1>1 DEF vars, store, local
<1>5. ReaderTypeOK'
  BY DEF GetTestConfig, ReadJson, ReadRaw, ReadStatus, ReadFails, Respond, ReaderTypeInv,
         ReaderTypeOK, TypeInv, TypeOK
<1>6. ReaderHolds'
  <2> USE <1>4 DEF ReaderHolds, RawNotOlderThanConfig, AtMost
  <2>1. CASE ReadJson
    <3>1. json # Nil /\ gotJson' = json /\ gotRaw' = gotRaw
      BY <2>1 DEF ReadJson
    <3>2. gotRaw = Nil
      BY <2>1 DEF ReadJson, ReaderInv
    <3>3. /\ json.gen <= cache.gen
          /\ pc[Reconciler] # "idle" => json.gen <= inst.gen
          /\ raw # Nil => json.gen <= raw.gen
      BY <3>1 DEF ReaderInv, WriteOrderInv, WriteOrder
    <3> QED BY <3>1, <3>2, <3>3
  <2>2. CASE ReadRaw
    BY <2>2 DEF ReadRaw, Respond, ReaderInv
  <2>3. CASE ReadStatus \/ ReadFails
    BY <2>3 DEF ReadStatus, ReadFails, Respond
  <2> QED BY <2>1, <2>2, <2>3 DEF GetTestConfig
<1> QED BY <1>2, <1>3, <1>5, <1>6 DEF ReaderTypeInv, ReaderInv

\* A step of the controller does not make what a request holds too new.
LEMMA ControllerKeepsReader ==
  ASSUME ReaderTypeInv, ReaderInv, TypeInv', [Next]_vars, UNCHANGED readerVars
  PROVE  ReaderHolds'
<1>1. /\ cache.gen <= cache'.gen
      /\ pc'[Reconciler] # "idle" => (pc[Reconciler] # "idle" /\ inst' = inst) \/ inst' = cache
      /\ raw' \in {raw, Nil} \/ (pc[Reconciler] # "idle" /\ raw'.gen = inst.gen)
  BY ControllerStep DEF ReaderTypeInv, ReaderInv
<1>2. cache.gen \in Nat /\ inst.gen \in Nat /\ (gotJson # Nil => gotJson.gen \in Nat)
  BY HeldTypes
<1>3. cache'.gen \in Nat
  BY ResourceFields DEF TypeInv, TypeOK
<1>4. ReaderHolds /\ UNCHANGED <<gotJson, gotRaw, rpc>>
  BY DEF ReaderInv, readerVars
<1> QED BY <1>1, <1>2, <1>3, <1>4 DEF ReaderHolds, RawNotOlderThanConfig, AtMost

\* ReaderInv is inductive.
LEMMA NextReader ==
  ReaderTypeInv /\ ReaderInv /\ [(Next /\ UNCHANGED readerVars) \/ GetTestConfig]_readVars
     => (ReaderTypeInv /\ ReaderInv)'
<1> SUFFICES ASSUME ReaderTypeInv, ReaderInv,
                    [(Next /\ UNCHANGED readerVars) \/ GetTestConfig]_readVars
             PROVE  (ReaderTypeInv /\ ReaderInv)'
  OBVIOUS
<1>1. CASE [Next]_vars /\ UNCHANGED readerVars
  <2>1. TypeInv' /\ WriteOrderInv'
    BY <1>1, NextTypeInv, NextWriteOrder DEF ReaderTypeInv, ReaderInv
  <2>2. ReaderTypeOK'
    BY <1>1 DEF readerVars, ReaderTypeInv, ReaderTypeOK
  <2> QED BY <1>1, <2>1, <2>2, ControllerKeepsReader DEF ReaderTypeInv, ReaderInv
<1>2. CASE GetTestConfig
  BY <1>2, ReadKeeps
<1> QED BY <1>1, <1>2 DEF readVars

\* For any contents, agents, syncs, failures and crashes, what GetTestConfig answers has
\* a raw spec at least as new as its config.
THEOREM RawNotOlderHolds == ReaderSpec => []RawNotOlderThanConfig
<1>1. ReaderTypeInv /\ ReaderInv => RawNotOlderThanConfig
  BY DEF ReaderInv, ReaderHolds
<1> QED BY <1>1, InitReader, NextReader, PTL DEF ReaderSpec

\* Nor does it matter that the periodic sync is left out: the safety part of
\* ReconcilerReaderSpec is ReaderSpec's.
THEOREM ReconcilerReaderSafe == ReconcilerReaderSpec => []RawNotOlderThanConfig
<1>1. [(ReconcilerNext /\ UNCHANGED readerVars) \/ GetTestConfig]_readVars
         => [(Next /\ UNCHANGED readerVars) \/ GetTestConfig]_readVars
  BY DEF ReconcilerNext, Next
<1>2. ReconcilerReaderSpec => ReaderSpec
  BY <1>1, PTL DEF ReconcilerReaderSpec, ReaderSpec
<1> QED BY <1>2, RawNotOlderHolds

\* With requests going on, the controller still comes to rest only with the content of the
\* resource in the summary.
THEOREM RestMirroredForReaders == ReconcilerReaderSpec => []RestMirrored
<1>1. ReaderInit => Init
  BY DEF ReaderInit
<1>2. [(ReconcilerNext /\ UNCHANGED readerVars) \/ GetTestConfig]_readVars => [ReconcilerNext]_vars
  BY DEF GetTestConfig, ReadJson, ReadRaw, ReadStatus, ReadFails, readVars
<1> QED BY <1>1, <1>2, RestMirroredHolds, PTL DEF ReconcilerReaderSpec

-----------------------------------------------------------------------------
(* The fleet of agents *)

FleetTypeInv == TypeInv /\ FleetTypeOK

\* The fields of what an agent's sync holds and of the entry it runs are typed.
LEMMA AgentTypes ==
  ASSUME FleetTypeInv, NEW a \in Agents
  PROVE  /\ latest[a] # Nil => latest[a] \in ConfigValues /\ latest[a].gen \in Nat
         /\ fetched[a] # Nil => fetched[a] \in ConfigValues /\ fetched[a].gen \in Nat
         /\ running[a] # Nil => running[a] \in Entries
BY DEF FleetTypeInv, FleetTypeOK, ConfigValues

\* Initially no agent syncs or runs anything.
LEMMA InitFleet == FleetInit => FleetTypeInv /\ FleetInv
<1> SUFFICES ASSUME FleetInit PROVE FleetTypeInv /\ FleetInv
  OBVIOUS
<1>1. TypeInv /\ WriteOrderInv
  BY InitTypeInv, InitWriteOrder DEF FleetInit
<1>2. FleetTypeOK
  BY DEF FleetInit, FleetTypeOK
<1>3. ConfigNotOlderThanVersion /\ \A a \in Agents : SyncHolds(a)
  BY DEF FleetInit, ConfigNotOlderThanVersion, SyncHolds, AtMost
<1> QED BY <1>1, <1>2, <1>3 DEF FleetTypeInv, FleetInv

\* An agent's step leaves the controller's variables alone, but for the count of failures.
LEMMA AgentStepFrame ==
  ASSUME FleetTypeInv, FleetInv, NEW a \in Agents,
         AgentSync(a) \/ AgentRestart(a) \/ SyncConfigFails(a)
  PROVE  TypeInv' /\ WriteOrderInv' /\ UNCHANGED <<cache, inst, pc, json>>
<1>1. UNCHANGED <<crd, cache, queued, active, store, pc, local, changes>>
  BY DEF AgentSync, SyncSummaries, SyncFetchConfig, SyncRestart, AgentRestart, SyncConfigFails, vars
<1>2. faults' \in 0..MaxFaults
  <2>1. CommandFails => faults' \in 0..MaxFaults
    BY BoundsAssumption, CountType DEF CommandFails, FleetTypeInv, TypeInv, TypeOK
  <2> QED BY <2>1 DEF AgentSync, SyncSummaries, SyncFetchConfig, SyncRestart, AgentRestart,
                      SyncConfigFails, vars, FleetTypeInv, TypeInv, TypeOK
<1>3. TypeInv'
  BY <1>1, <1>2 DEF FleetTypeInv, TypeInv, TypeOK, WritesOnlyExisting, store, local
<1>4. WriteOrderInv'
  BY <1>1 DEF FleetInv, WriteOrderInv, WriteOrder, AtMost, Latest, store, local
<1> QED BY <1>1, <1>3, <1>4 DEF store, local

\* The steps of an agent's sync keep their local variables typed.
LEMMA AgentStepTypes ==
  ASSUME FleetTypeInv, FleetInv, NEW a \in Agents,
         AgentSync(a) \/ AgentRestart(a) \/ SyncConfigFails(a)
  PROVE  FleetTypeOK'
<1> USE DEF FleetTypeInv, FleetTypeOK
<1>1. CASE SyncSummaries(a)
  BY <1>1 DEF SyncSummaries, TypeInv, TypeOK
<1>2. CASE SyncFetchConfig(a)
  BY <1>2 DEF SyncFetchConfig, EndSync, TypeInv, TypeOK
<1>3. CASE SyncRestart(a)
  <2>1. fetched[a] \in ConfigValues /\ latest[a] \in ConfigValues
    BY <1>3, AgentTypes DEF SyncRestart, FleetInv, SyncHolds
  <2>2. [config |-> fetched[a], version |-> latest[a]] \in Entries
    BY <2>1 DEF Entries
  <2> QED BY <1>3, <2>2 DEF SyncRestart, EndSync
<1>4. CASE AgentRestart(a)
  BY <1>4 DEF AgentRestart, EndSync
<1>5. CASE SyncConfigFails(a)
  BY <1>5 DEF SyncConfigFails, EndSync
<1> QED BY <1>1, <1>2, <1>3, <1>4, <1>5 DEF AgentSync

\* A sync reads the version first and the config second, so the pair it stores is in
\* the order of WriteOrder.
LEMMA AgentStepHolds ==
  ASSUME FleetTypeInv, FleetInv, NEW a \in Agents,
         AgentSync(a) \/ AgentRestart(a) \/ SyncConfigFails(a)
  PROVE  ConfigNotOlderThanVersion' /\ \A b \in Agents : SyncHolds(b)'
<1>1. UNCHANGED <<cache, inst, pc, json>>
  BY AgentStepFrame
<1>t. /\ cache.gen \in Nat /\ inst.gen \in Nat
      /\ json # Nil => json.gen \in Nat
      /\ summary # Nil => summary.gen \in Nat
  BY GenTypes DEF FleetTypeInv
<1>f. /\ apc \in [Agents -> {"idle", "config", "restart"}]
      /\ latest \in [Agents -> ConfigValues \cup {Nil}]
      /\ fetched \in [Agents -> ConfigValues \cup {Nil}]
      /\ running \in [Agents -> Entries \cup {Nil}]
  BY DEF FleetTypeInv, FleetTypeOK
<1>2. ASSUME NEW b \in Agents, b # a PROVE SyncHolds(b)' /\ running'[b] = running[b]
  <2>1. /\ apc'[b] = apc[b] /\ latest'[b] = latest[b] /\ fetched'[b] = fetched[b]
        /\ running'[b] = running[b]
    BY <1>2, <1>f DEF AgentSync, SyncSummaries, SyncFetchConfig, SyncRestart, AgentRestart,
                      SyncConfigFails, EndSync
  <2>2. SyncHolds(b)
    BY DEF FleetInv
  <2> QED BY <1>1, <2>1, <2>2 DEF SyncHolds, AtMost
<1> DEFINE Labelled == running'[a] # Nil => running'[a].version.gen <= running'[a].config.gen
<1>3. SyncHolds(a) /\ (running[a] # Nil => running[a].version.gen <= running[a].config.gen)
  BY DEF FleetInv, ConfigNotOlderThanVersion
<1>4. SyncHolds(a)' /\ Labelled
  <2> USE <1>1, <1>t, <1>f, <1>3 DEF SyncHolds, AtMost
  <2>1. CASE SyncSummaries(a)
    BY <2>1 DEF SyncSummaries, FleetInv, WriteOrderInv, WriteOrder
  <2>2. CASE SyncFetchConfig(a)
    BY <2>2 DEF SyncFetchConfig, EndSync
  <2>3. CASE SyncRestart(a)
    <3>1. latest[a] # Nil /\ fetched[a] # Nil
      BY <2>3 DEF SyncRestart
    <3>2. SyncHolds(a)'
      BY <2>3 DEF SyncRestart, EndSync
    <3>3. Labelled
      BY <2>3, <3>1 DEF SyncRestart
    <3> QED BY <3>2, <3>3
  <2>4. CASE AgentRestart(a)
    BY <2>4 DEF AgentRestart, EndSync
  <2>5. CASE SyncConfigFails(a)
    BY <2>5 DEF SyncConfigFails, EndSync
  <2> QED BY <2>1, <2>2, <2>3, <2>4, <2>5 DEF AgentSync
<1>5. ConfigNotOlderThanVersion'
  <2> SUFFICES ASSUME NEW b \in Agents, running'[b] # Nil
               PROVE  running'[b].version.gen <= running'[b].config.gen
    BY DEF ConfigNotOlderThanVersion
  <2>1. CASE b = a
    BY <1>4, <2>1
  <2>2. CASE b # a
    BY <1>2, <2>2 DEF FleetInv, ConfigNotOlderThanVersion
  <2> QED BY <2>1, <2>2
<1> QED BY <1>2, <1>4, <1>5

\* A step of the controller does not make what a sync holds too new.
LEMMA ControllerKeepsSync ==
  ASSUME FleetTypeInv, FleetInv, TypeInv', [Next]_vars, UNCHANGED agentVars
  PROVE  ConfigNotOlderThanVersion' /\ \A a \in Agents : SyncHolds(a)'
<1>1. ConfigNotOlderThanVersion'
  BY DEF agentVars, FleetInv, ConfigNotOlderThanVersion
<1>2. ASSUME NEW a \in Agents PROVE SyncHolds(a)'
  <2>1. /\ cache.gen <= cache'.gen
        /\ pc'[Reconciler] # "idle" => (pc[Reconciler] # "idle" /\ inst' = inst) \/ inst' = cache
        /\ json' \in {json, Nil} \/ (pc[Reconciler] # "idle" /\ json'.gen = inst.gen)
    BY ControllerStep DEF FleetTypeInv, FleetInv
  <2>2. cache.gen \in Nat /\ inst.gen \in Nat /\ cache'.gen \in Nat
    <3>1. cache.gen \in Nat /\ inst.gen \in Nat
      BY GenTypes DEF FleetTypeInv
    <3>2. cache'.gen \in Nat
      BY ResourceFields DEF TypeInv, TypeOK
    <3> QED BY <3>1, <3>2
  <2>3. latest[a] # Nil => latest[a].gen \in Nat
    BY AgentTypes
  <2>4. SyncHolds(a)
    BY DEF FleetInv
  <2>5. UNCHANGED <<apc, latest, fetched>>
    BY DEF agentVars
  <2>6. AtMost(latest[a], cache'.gen)
    BY <2>1, <2>2, <2>3, <2>4 DEF SyncHolds, AtMost
  <2>7. pc'[Reconciler] # "idle" => AtMost(latest[a], inst'.gen)
    BY <2>1, <2>4 DEF SyncHolds
  <2>8. latest[a] # Nil /\ json' # Nil => latest[a].gen <= json'.gen
    BY <2>1, <2>4 DEF SyncHolds, AtMost
  <2> QED BY <2>4, <2>5, <2>6, <2>7, <2>8 DEF SyncHolds, AtMost
<1> QED BY <1>1, <1>2

\* FleetInv is inductive.
LEMMA NextFleet == FleetTypeInv /\ FleetInv /\ [FleetNext]_fleetVars => (FleetTypeInv /\ FleetInv)'
<1> SUFFICES ASSUME FleetTypeInv, FleetInv, [FleetNext]_fleetVars PROVE (FleetTypeInv /\ FleetInv)'
  OBVIOUS
<1>1. CASE [Next]_vars /\ UNCHANGED agentVars
  <2>1. TypeInv' /\ WriteOrderInv'
    BY <1>1, NextTypeInv, NextWriteOrder DEF FleetTypeInv, FleetInv
  <2>2. FleetTypeOK'
    BY <1>1 DEF agentVars, FleetTypeInv, FleetTypeOK
  <2> QED BY <1>1, <2>1, <2>2, ControllerKeepsSync DEF FleetTypeInv, FleetInv
<1>2. ASSUME NEW a \in Agents, AgentSync(a) \/ AgentRestart(a) \/ SyncConfigFails(a)
      PROVE  (FleetTypeInv /\ FleetInv)'
  BY <1>2, AgentStepFrame, AgentStepTypes, AgentStepHolds DEF FleetTypeInv, FleetInv
<1> QED BY <1>1, <1>2 DEF FleetNext, fleetVars

\* The variables of any number of agents keep their types.
THEOREM FleetTypeCorrect == FleetSpec => []FleetTypeOK
<1>1. FleetTypeInv /\ FleetInv => FleetTypeOK
  BY DEF FleetTypeInv
<1> QED BY <1>1, InitFleet, NextFleet, PTL DEF FleetSpec

\* For any contents, agents, failures, crashes and agent restarts, no agent runs a config
\* older than the version it believes it runs.
THEOREM ConfigNotOlderHolds == FleetSpec => []ConfigNotOlderThanVersion
<1>1. FleetTypeInv /\ FleetInv => ConfigNotOlderThanVersion
  BY DEF FleetInv
<1> QED BY <1>1, InitFleet, NextFleet, PTL DEF FleetSpec

\* A step of the controller makes nothing an agent holds too new: no json is written that is
\* older than one an agent may have read, also not after a deletion or a crash.
LEMMA ControllerKeepsNotNewer ==
  ASSUME FleetTypeInv, FleetInv, TypeInv', [Next]_vars, NEW gen \in Nat, NotNewer(gen)
  PROVE  NotNewer(gen)'
<1>1. /\ cache.gen <= cache'.gen
      /\ pc'[Reconciler] # "idle" => (pc[Reconciler] # "idle" /\ inst' = inst) \/ inst' = cache
      /\ json' \in {json, Nil} \/ (pc[Reconciler] # "idle" /\ json'.gen = inst.gen)
  BY ControllerStep DEF FleetTypeInv, FleetInv
<1>2. cache.gen \in Nat /\ cache'.gen \in Nat
  <2>1. cache.gen \in Nat
    BY GenTypes DEF FleetTypeInv
  <2>2. cache'.gen \in Nat
    BY ResourceFields DEF TypeInv, TypeOK
  <2> QED BY <2>1, <2>2
<1>3. gen <= cache'.gen
  BY <1>1, <1>2 DEF NotNewer
<1>4. pc'[Reconciler] # "idle" => gen <= inst'.gen
  BY <1>1 DEF NotNewer
<1>5. json' # Nil => gen <= json'.gen
  BY <1>1 DEF NotNewer
<1> QED BY <1>3, <1>4, <1>5 DEF NotNewer

\* A sync replaces what runs only by what it fetched since.
LEMMA AgentStepRuns ==
  ASSUME FleetTypeInv, FleetInv, \A b \in Agents : RunHolds(b), NEW a \in Agents,
         AgentSync(a) \/ AgentRestart(a) \/ SyncConfigFails(a)
  PROVE  \A b \in Agents : RunHolds(b)'
<1>1. UNCHANGED <<cache, inst, pc, json>>
  BY AgentStepFrame
<1>f. /\ apc \in [Agents -> {"idle", "config", "restart"}]
      /\ latest \in [Agents -> ConfigValues \cup {Nil}]
      /\ fetched \in [Agents -> ConfigValues \cup {Nil}]
      /\ running \in [Agents -> Entries \cup {Nil}]
  BY DEF FleetTypeInv, FleetTypeOK
<1>2. ASSUME NEW b \in Agents, b # a PROVE RunHolds(b)'
  <2>1. latest'[b] = latest[b] /\ fetched'[b] = fetched[b] /\ running'[b] = running[b]
    BY <1>2, <1>f DEF AgentSync, SyncSummaries, SyncFetchConfig, SyncRestart, AgentRestart,
                      SyncConfigFails, EndSync
  <2> QED BY <1>1, <2>1 DEF RunHolds, NotNewer
<1>3. RunHolds(a) /\ SyncHolds(a)
  BY DEF FleetInv
<1>4. RunHolds(a)'
  <2>1. CASE SyncSummaries(a)
    <3>1. CASE summary = Nil
      <4>1. running'[a] = Nil /\ fetched'[a] = fetched[a]
        BY <1>f, <2>1, <3>1 DEF SyncSummaries
      <4> QED BY <1>1, <1>3, <4>1 DEF RunHolds, NotNewer
    <3>2. CASE summary # Nil
      <4>1. /\ running'[a] = running[a] /\ fetched'[a] = fetched[a] /\ latest'[a] = summary
            /\ running[a] # Nil => running[a].version.config # summary.config
        BY <1>f, <2>1, <3>2 DEF SyncSummaries, OnLatestVersion
      <4> QED BY <1>1, <1>3, <4>1 DEF RunHolds, NotNewer
    <3> QED BY <3>1, <3>2
  <2>2. CASE SyncFetchConfig(a)
    <3>1. CASE json = Nil
      <4>1. running'[a] = running[a] /\ fetched'[a] = Nil /\ latest'[a] = Nil
        BY <1>f, <2>2, <3>1 DEF SyncFetchConfig, EndSync
      <4> QED BY <1>1, <1>3, <4>1 DEF RunHolds, NotNewer
    <3>2. CASE json # Nil
      <4>1. running'[a] = running[a] /\ fetched'[a] = json /\ latest'[a] = latest[a]
        BY <1>f, <2>2, <3>2 DEF SyncFetchConfig
      <4>2. NotNewer(json.gen)
        <5>1. json.gen \in Nat
          BY <3>2, GenTypes DEF FleetTypeInv
        <5> QED BY <3>2, <5>1 DEF NotNewer, FleetInv, WriteOrderInv, AtMost
      <4>3. running[a] # Nil => running[a].config.gen <= json.gen
        BY <1>3, <3>2 DEF RunHolds, NotNewer
      <4> QED BY <1>1, <1>3, <4>1, <4>2, <4>3 DEF RunHolds, NotNewer
    <3> QED BY <3>1, <3>2
  <2>3. CASE SyncRestart(a)
    <3>1. fetched[a] # Nil /\ NotNewer(fetched[a].gen)
      BY <1>3, <2>3 DEF SyncRestart, SyncHolds, RunHolds
    <3>2. latest'[a] = Nil /\ fetched'[a] = Nil
      BY <1>f, <2>3 DEF SyncRestart, EndSync
    <3>3. running'[a] # Nil => running'[a].config = fetched[a]
      BY <1>f, <2>3 DEF SyncRestart
    <3> QED BY <1>1, <3>1, <3>2, <3>3 DEF RunHolds, NotNewer
  <2>4. CASE AgentRestart(a)
    BY <1>f, <2>4 DEF AgentRestart, EndSync, RunHolds
  <2>5. CASE SyncConfigFails(a)
    <3>1. running'[a] = running[a] /\ fetched'[a] = Nil /\ latest'[a] = Nil
      BY <1>f, <2>5 DEF SyncConfigFails, EndSync
    <3> QED BY <1>1, <1>3, <3>1 DEF RunHolds, NotNewer
  <2> QED BY <2>1, <2>2, <2>3, <2>4, <2>5 DEF AgentSync
<1> QED BY <1>2, <1>4

\* RestartInv is inductive.
LEMMA NextRestart ==
  FleetTypeInv /\ RestartInv /\ [FleetNext]_fleetVars => (FleetTypeInv /\ RestartInv)'
<1> SUFFICES ASSUME FleetTypeInv, RestartInv, [FleetNext]_fleetVars
             PROVE  (FleetTypeInv /\ RestartInv)'
  OBVIOUS
<1>1. FleetInv /\ \A b \in Agents : RunHolds(b)
  BY DEF RestartInv
<1>2. (FleetTypeInv /\ FleetInv)'
  BY <1>1, NextFleet
<1>3. CASE [Next]_vars /\ UNCHANGED agentVars
  <2>1. ASSUME NEW a \in Agents PROVE RunHolds(a)'
    <3>1. UNCHANGED <<latest, fetched, running>> /\ RunHolds(a)
      BY <1>1, <1>3 DEF agentVars
    <3>2. TypeInv'
      BY <1>2 DEF FleetTypeInv
    <3>3. fetched[a] # Nil => NotNewer(fetched[a].gen)'
      <4>1. fetched[a] # Nil => fetched[a].gen \in Nat
        BY AgentTypes
      <4>2. fetched[a] # Nil => NotNewer(fetched[a].gen)
        BY <3>1 DEF RunHolds
      <4>3. \A gen \in Nat : NotNewer(gen) => (gen <= cache'.gen /\ (pc'[Reconciler] # "idle" => gen <= inst'.gen)
                                                /\ (json' # Nil => gen <= json'.gen))
        BY <1>1, <1>3, <3>2, ControllerKeepsNotNewer DEF NotNewer
      <4> QED BY <3>1, <4>1, <4>2, <4>3 DEF NotNewer
    <3>4. running[a] # Nil => NotNewer(running[a].config.gen)'
      <4>1. running[a] # Nil => running[a].config.gen \in Nat
        BY AgentTypes DEF Entries, ConfigValues
      <4>2. running[a] # Nil => NotNewer(running[a].config.gen)
        BY <3>1 DEF RunHolds
      <4>3. \A gen \in Nat : NotNewer(gen) => (gen <= cache'.gen /\ (pc'[Reconciler] # "idle" => gen <= inst'.gen)
                                                /\ (json' # Nil => gen <= json'.gen))
        BY <1>1, <1>3, <3>2, ControllerKeepsNotNewer DEF NotNewer
      <4> QED BY <3>1, <4>1, <4>2, <4>3 DEF NotNewer
    <3> QED BY <3>1, <3>3, <3>4 DEF RunHolds
  <2> QED BY <1>2, <2>1 DEF RestartInv
<1>4. ASSUME NEW a \in Agents, AgentSync(a) \/ AgentRestart(a) \/ SyncConfigFails(a)
      PROVE  \A b \in Agents : RunHolds(b)'
  BY <1>1, <1>4, AgentStepRuns
<1> QED BY <1>2, <1>3, <1>4 DEF FleetNext, fleetVars, RestartInv

\* For any contents, agents, failures, crashes and agent restarts, a test that runs is only
\* restarted for another version and never with an older config.
THEOREM RestartsForwardHolds == FleetSpec => []RestartsForward
<1>1. FleetInit => FleetTypeInv /\ RestartInv
  <2>1. FleetInit => \A a \in Agents : RunHolds(a)
    BY DEF FleetInit, RunHolds
  <2> QED BY <2>1, InitFleet DEF RestartInv
<1>2. FleetTypeInv /\ RestartInv => RestartsForward
  <2> SUFFICES ASSUME RestartInv, NEW a \in Agents, apc[a] = "restart", running[a] # Nil
               PROVE  /\ latest[a].config # running[a].version.config
                      /\ running[a].config.gen <= fetched[a].gen
    BY DEF RestartsForward
  <2>1. SyncHolds(a) /\ RunHolds(a)
    BY DEF RestartInv, FleetInv
  <2>2. latest[a] # Nil /\ fetched[a] # Nil
    BY <2>1 DEF SyncHolds
  <2> QED BY <2>1, <2>2 DEF RunHolds
<1> QED BY <1>1, <1>2, NextRestart, PTL DEF FleetSpec
-----------------------------------------------------------------------------
(* Selectors and assignment *)

\* Only a test with a '$' is assigned, and only to an agent that fits.
AssignedFits(content, agent) == Kind[content] = "assigned" /\ agent \in Fits[content]

\* No agent matches a selector that still asks for an assignment.
LEMMA DollarMatchesNobody ==
  ASSUME NEW c \in Contents, NEW a \in Agents, Kind[c] # "multiple"
  PROVE  ~IsAgentValidForSynTest(a, TestSpec[c])
<1> DEFINE test == TestSpec[c]
<1>1. NeedsNodeAssignment(test) \/ NeedsPodAssignment(test)
  BY SelectorAssumption DEF KindOf
<1>2. CASE NeedsNodeAssignment(test)
  BY <1>2 DEF NeedsNodeAssignment, IsAgentValidForSynTest, Match
<1>3. CASE NeedsPodAssignment(test)
  <2>1. ~MatchesKey(a, SpecialKeyPodName, test.podLabelSelector[SpecialKeyPodName])
    BY <1>3 DEF NeedsPodAssignment, MatchesKey, Match, SpecialKeyPodName, SpecialKeyAgentId
  <2> QED BY <1>3, <2>1 DEF NeedsPodAssignment, IsAgentValidForSynTest
<1> QED BY <1>1, <1>2, <1>3

\* A test without a '$' is stored as it is.
LEMMA MultipleUnchanged ==
  ASSUME NEW c \in Contents, NEW a \in Agents, Kind[c] = "multiple"
  PROVE  a \in Fits[c] <=> IsAgentValidForSynTest(a, TestSpec[c])
<1> DEFINE test == TestSpec[c]
<1>1. ~NeedsNodeAssignment(test) /\ ~NeedsPodAssignment(test)
  BY SelectorAssumption DEF KindOf
<1>2. Unassigned(test).node = test.node
  BY <1>1 DEF Unassigned, NeedsNodeAssignment
<1>3. /\ Unassigned(test).podLabelSelector = test.podLabelSelector
      /\ Unassigned(test).namespace = test.namespace
      /\ Unassigned(test).labels = test.labels
  BY <1>1 DEF Unassigned
<1>4. a \in Fits[c] <=> IsAgentValidForSynTest(a, Unassigned(test))
  BY SelectorAssumption DEF FitsOf
<1> QED BY <1>2, <1>3, <1>4 DEF IsAgentValidForSynTest

\* The agent's id in an assigned test's selectors leaves the agent it was assigned to.
LEMMA AssignedToOne ==
  ASSUME NEW c \in Contents, NEW a \in Agents, NEW b \in Fits[c]
  PROVE  IsAgentValidForSynTest(a, Assign(Unassigned(TestSpec[c]), b)) <=> a = b
<1> DEFINE test == Unassigned(TestSpec[c])
           sel == test.podLabelSelector
           new == Assign(test, b).podLabelSelector
<1>1. /\ Assign(test, b).namespace = test.namespace
      /\ Assign(test, b).labels = test.labels
      /\ Assign(test, b).node = test.node
      /\ DOMAIN new = DOMAIN sel \cup {SpecialKeyAgentId}
      /\ new[SpecialKeyAgentId] = Glob({b})
      /\ \A key \in DOMAIN sel : key # SpecialKeyAgentId => new[key] = sel[key]
  BY DEF Assign
<1> HIDE DEF test
<1>2. IsAgentValidForSynTest(b, test) /\ b \in Agents
  BY SelectorAssumption DEF FitsOf, test
<1>3. MatchesKey(a, SpecialKeyAgentId, Glob({b})) <=> a = b
  <2>1. SpecialKeyAgentId \notin DOMAIN AgentConfig[a].podLabels
    BY PodLabelAssumption DEF SpecialKeys
  <2>2. Glob({b}) = Glob({a}) <=> a = b
    BY DEF Glob
  <2> QED BY <2>1, <2>2 DEF MatchesKey, SpecialKeyAgentId, SpecialKeyAgentNs, SpecialKeyPodName
<1>4. ASSUME IsAgentValidForSynTest(a, Assign(test, b)) PROVE a = b
  BY <1>1, <1>3, <1>4 DEF IsAgentValidForSynTest
<1>5. IsAgentValidForSynTest(b, Assign(test, b))
  <2>1. \A key \in DOMAIN new : MatchesKey(b, key, new[key])
    <3>1. MatchesKey(b, SpecialKeyAgentId, Glob({b}))
      BY <1>2 DEF MatchesKey
    <3>2. \A key \in DOMAIN sel : MatchesKey(b, key, sel[key])
      BY <1>2 DEF IsAgentValidForSynTest
    <3> QED BY <1>1, <3>1, <3>2
  <2> QED BY <1>1, <1>2, <2>1 DEF IsAgentValidForSynTest
<1> QED BY <1>4, <1>5 DEF test

\* ConfigFleet's IsAgentValid is what the code's IsAgentValidForSynTest says of the
\* stored selectors.
THEOREM SelectionExact ==
  ASSUME NEW config \in Configs, NEW a \in Agents,
         config.agent # Nil => AssignedFits(config.content, config.agent)
  PROVE  IsAgentValid(config, a) <=> IsAgentValidForSynTest(a, Stored(config))
<1>1. config.content \in Contents /\ Kind[config.content] \in Kinds /\ a # Nil
  BY KindAssumption, NilAssumption DEF Configs
<1>2. CASE config.agent = Nil /\ Kind[config.content] = "multiple"
  BY <1>1, <1>2, MultipleUnchanged DEF IsAgentValid, Stored
<1>3. CASE config.agent = Nil /\ Kind[config.content] # "multiple"
  BY <1>1, <1>3, DollarMatchesNobody DEF IsAgentValid, Stored
<1>4. CASE config.agent # Nil
  <2>1. Kind[config.content] = "assigned" /\ config.agent \in Fits[config.content]
    BY <1>4 DEF AssignedFits
  <2>2. IsAgentValidForSynTest(a, Stored(config)) <=> a = config.agent
    BY <1>1, <1>4, <2>1, AssignedToOne DEF Stored
  <2> QED BY <1>1, <2>1, <2>2 DEF IsAgentValid
<1> QED BY <1>2, <1>3, <1>4

ConfigAssigned(config) == config.agent # Nil => AssignedFits(config.content, config.agent)

\* Reconcile's agent is one of the valid ones, and so is the agent of the config it stores.
StoreAssigned ==
    /\ pc[Reconciler] = "idle" => newAgent = ""
    /\ newAgent \in Agents => AssignedFits(inst.content, newAgent)
    /\ json # Nil => ConfigAssigned(json.config)

\* What an agent has fetched and what it runs come from the store, and it runs only what
\* selects it.
FleetAssigned ==
    \A a \in Agents :
        /\ fetched[a] # Nil => ConfigAssigned(fetched[a].config)
        /\ running[a] # Nil => /\ ConfigAssigned(running[a].config.config)
                               /\ IsAgentValid(running[a].config.config, a)

\* ChooseAgent takes an agent only for a test that asks for one, and one that fits.
LEMMA ChooseAgentAssigns ==
  ASSUME TypeInv, ChooseAgent, newAgent' \in Agents
  PROVE  AssignedFits(inst.content, newAgent')
<1>1. inst.content \in Contents /\ Kind[inst.content] \in Kinds
  <2>1. inst.exists
    BY DEF ChooseAgent, Goto, TypeInv, WritesOnlyExisting, WriteSteps
  <2> QED BY <2>1, KindAssumption DEF TypeInv, TypeOK, Resources
<1>2. newAgent' \in AgentChoices(inst.content, inst.agent, active)
  BY DEF ChooseAgent
<1>3. newAgent' # "" /\ newAgent' # "multiple"
  BY AgentIdAssumption
<1> QED BY <1>1, <1>2, <1>3 DEF AgentChoices, AssignedFits, Kinds

\* The steps of the controller keep StoreAssigned.
LEMMA NextStoreAssigned ==
  ASSUME TypeInv, StoreAssigned, [Next]_vars
  PROVE  StoreAssigned'
<1>p. pc \in [Goroutines -> Steps] /\ Reconciler \in Goroutines /\ Syncer \in Goroutines /\ Reconciler # Syncer
  BY DEF TypeInv, TypeOK, Goroutines, Reconciler, Syncer
<1>q. "" \notin Agents
  BY AgentIdAssumption
<1> DEFINE Idle == pc'[Reconciler] = "idle" => newAgent' = ""
           Chosen == newAgent' \in Agents => AssignedFits(inst'.content, newAgent')
           Json == json' # Nil => ConfigAssigned(json'.config)
           Goal == Idle /\ Chosen /\ Json
<1> SUFFICES Goal
  BY DEF StoreAssigned, ConfigAssigned, AssignedFits
<1>s. StoreAssigned
  OBVIOUS
<1> HIDE DEF ConfigAssigned, AssignedFits
<1> USE <1>p, <1>q, <1>s DEF store, local, StoreAssigned
<1>1. ASSUME NEW c \in Contents, WriteResource(c) PROVE Goal
  BY <1>1 DEF WriteResource
<1>2. CASE DeleteResource \/ Events
  BY <1>2 DEF DeleteResource, Events, CacheSync, ExternalEvent
<1>3. ASSUME NEW S \in SUBSET Agents, AgentsChange(S) PROVE Goal
  BY <1>3 DEF AgentsChange
<1>4. CASE Reconcile
  BY <1>4 DEF Reconcile, Goto
<1>5. CASE ChooseAgent
  <2>1. UNCHANGED <<inst, json>> /\ pc'[Reconciler] = "fetch"
    BY <1>5 DEF ChooseAgent, Goto
  <2> QED BY <1>5, <2>1, ChooseAgentAssigns
<1>6. CASE FetchTestConfig \/ WriteRaw \/ WriteEmptyStatus \/ WriteSummary \/ PublishUpdate \/ WriteStatus
  <2>1. UNCHANGED <<inst, newAgent, json>>
    BY <1>6 DEF FetchTestConfig, WriteRaw, WriteEmptyStatus, WriteSummary, PublishUpdate, WriteStatus
  <2>2. pc'[Reconciler] # "idle"
    BY <1>6 DEF FetchTestConfig, WriteRaw, WriteEmptyStatus, WriteSummary, PublishUpdate, WriteStatus, Goto
  <2> QED BY <2>1, <2>2
<1>7. CASE WriteJson
  <2>1. UNCHANGED <<inst, newAgent>> /\ pc'[Reconciler] = "summary" /\ json'.config = Target
    BY <1>7 DEF WriteJson, Goto
  <2>2. ConfigAssigned(Target)
    BY DEF ConfigAssigned, Target
  <2> QED BY <2>1, <2>2
<1>8. CASE UpdateResourceStatus
  BY <1>8 DEF UpdateResourceStatus, Goto, Return
<1>9. ASSUME NEW p \in Goroutines, DeleteTestConfig(p) \/ DeleteFails(p) PROVE Goal
  <2>1. json' \in {json, Nil}
    BY <1>9 DEF DeleteTestConfig, DeleteRaw, DeleteJson, DeleteStatus, DeleteSummary, PublishDelete,
                ReturnFromDelete, DeleteFails
  <2>2. CASE p = Reconciler
    <3>1. newAgent' = "" \/ (UNCHANGED <<newAgent, inst>> /\ pc'[Reconciler] # "idle")
      BY <1>9, <2>2 DEF DeleteTestConfig, DeleteRaw, DeleteJson, DeleteStatus, DeleteSummary,
                        PublishDelete, ReturnFromDelete, DeleteFails, Goto, Return
    <3> QED BY <2>1, <3>1
  <2>3. CASE p = Syncer
    <3>1. pc'[Reconciler] = pc[Reconciler] /\ UNCHANGED <<inst, newAgent>>
      BY <1>9, <2>3 DEF DeleteTestConfig, DeleteRaw, DeleteJson, DeleteStatus, DeleteSummary,
                        PublishDelete, ReturnFromDelete, DeleteFails, Goto
    <3> QED BY <2>1, <3>1
  <2> QED BY <2>2, <2>3 DEF Goroutines
<1>10. CASE ListResources \/ FetchSummaries \/ SyncFails
  <2>1. pc'[Reconciler] = pc[Reconciler] /\ UNCHANGED <<inst, newAgent, json>>
    BY <1>10 DEF ListResources, FetchSummaries, SyncFails, Goto
  <2> QED BY <2>1
<1>11. CASE ReconcileFails \/ IgnoredFailure \/ Crash
  <2>1. json' = json
    BY <1>11 DEF ReconcileFails, IgnoredFailure, Crash
  <2>2. newAgent' = "" \/ (UNCHANGED <<newAgent, inst>> /\ pc'[Reconciler] # "idle")
    BY <1>11 DEF ReconcileFails, IgnoredFailure, Crash, Return, Goto
  <2> QED BY <2>1, <2>2
<1>12. CASE UNCHANGED vars
  BY <1>12 DEF vars
<1> QED
  BY <1>1, <1>2, <1>3, <1>4, <1>5, <1>6, <1>7, <1>8, <1>9, <1>10, <1>11, <1>12
     DEF Next, User, ReconcileStep, SyncStep, Failure

SelectionInv == FleetTypeInv /\ FleetInv /\ StoreAssigned /\ FleetAssigned

\* Initially nothing is stored, fetched or run.
LEMMA InitSelection == FleetInit => SelectionInv
<1> SUFFICES ASSUME FleetInit PROVE SelectionInv
  OBVIOUS
<1>1. FleetTypeInv /\ FleetInv
  BY InitFleet
<1>2. StoreAssigned
  BY AgentIdAssumption DEF FleetInit, Init, StoreAssigned
<1>3. FleetAssigned
  BY DEF FleetInit, FleetAssigned
<1> QED BY <1>1, <1>2, <1>3 DEF SelectionInv

\* A sync starts a test only after IsAgentValid, with the config it fetched.
LEMMA AgentKeepsAssigned ==
  ASSUME SelectionInv, NEW a \in Agents,
         AgentSync(a) \/ AgentRestart(a) \/ SyncConfigFails(a)
  PROVE  StoreAssigned' /\ FleetAssigned'
<1>1. UNCHANGED <<pc, newAgent, inst, json>>
  BY DEF AgentSync, SyncSummaries, SyncFetchConfig, SyncRestart, AgentRestart, SyncConfigFails,
         vars, store, local
<1>2. StoreAssigned'
  BY <1>1 DEF SelectionInv, StoreAssigned, ConfigAssigned, AssignedFits
<1>f. /\ fetched \in [Agents -> ConfigValues \cup {Nil}]
      /\ running \in [Agents -> Entries \cup {Nil}]
      /\ json # Nil => ConfigAssigned(json.config)
      /\ FleetAssigned
  BY DEF SelectionInv, FleetTypeInv, FleetTypeOK, StoreAssigned
<1> DEFINE Held(b) == /\ fetched'[b] # Nil => ConfigAssigned(fetched'[b].config)
                      /\ running'[b] # Nil => /\ ConfigAssigned(running'[b].config.config)
                                              /\ IsAgentValid(running'[b].config.config, b)
<1>3. ASSUME NEW b \in Agents PROVE Held(b)
  <2>1. CASE b # a
    <3>1. fetched'[b] = fetched[b] /\ running'[b] = running[b]
      BY <1>f, <2>1 DEF AgentSync, SyncSummaries, SyncFetchConfig, SyncRestart, AgentRestart,
                        SyncConfigFails, EndSync
    <3> QED BY <1>f, <3>1 DEF FleetAssigned
  <2>2. CASE b = a
    <3> HIDE DEF ConfigAssigned
    <3>1. CASE SyncSummaries(a) \/ SyncFetchConfig(a)
      BY <1>f, <2>2, <3>1 DEF SyncSummaries, SyncFetchConfig, EndSync, FleetAssigned
    <3>2. CASE SyncRestart(a)
      <4>1. fetched[a] # Nil
        BY <3>2 DEF SyncRestart, SelectionInv, FleetInv, SyncHolds
      <4>2. /\ fetched'[a] = Nil
            /\ running'[a] = IF IsAgentValid(fetched[a].config, a)
                             THEN [config |-> fetched[a], version |-> latest[a]] ELSE Nil
        BY <1>f, <3>2 DEF SyncRestart, EndSync
      <4>3. ConfigAssigned(fetched[a].config)
        BY <1>f, <4>1 DEF FleetAssigned
      <4>4. running'[a] # Nil => /\ running'[a].config = fetched[a]
                                 /\ IsAgentValid(fetched[a].config, a)
        <5>1. CASE IsAgentValid(fetched[a].config, a) BY <4>2, <5>1
        <5>2. CASE ~IsAgentValid(fetched[a].config, a) BY <4>2, <5>2
        <5> QED BY <5>1, <5>2
      <4>5. running'[a] # Nil => /\ ConfigAssigned(running'[a].config.config)
                                 /\ IsAgentValid(running'[a].config.config, a)
        BY <4>3, <4>4
      <4> QED BY <2>2, <4>2, <4>5
    <3>3. CASE AgentRestart(a) \/ SyncConfigFails(a)
      BY <1>f, <2>2, <3>3 DEF AgentRestart, SyncConfigFails, EndSync, FleetAssigned
    <3> QED BY <3>1, <3>2, <3>3 DEF AgentSync
  <2> QED BY <2>1, <2>2
<1>4. FleetAssigned'
  BY <1>3 DEF FleetAssigned, ConfigAssigned, AssignedFits, IsAgentValid
<1> QED BY <1>2, <1>4

\* SelectionInv is inductive.
LEMMA NextSelection == SelectionInv /\ [FleetNext]_fleetVars => SelectionInv'
<1> SUFFICES ASSUME SelectionInv, [FleetNext]_fleetVars PROVE SelectionInv'
  OBVIOUS
<1>1. FleetTypeInv' /\ FleetInv'
  BY NextFleet DEF SelectionInv
<1>2. CASE [Next]_vars /\ UNCHANGED agentVars
  <2>1. StoreAssigned'
    BY <1>2, NextStoreAssigned DEF SelectionInv, FleetTypeInv
  <2>2. FleetAssigned'
    BY <1>2 DEF SelectionInv, FleetAssigned, ConfigAssigned, AssignedFits, IsAgentValid, agentVars
  <2> QED BY <1>1, <2>1, <2>2 DEF SelectionInv
<1>3. ASSUME NEW a \in Agents, AgentSync(a) \/ AgentRestart(a) \/ SyncConfigFails(a)
      PROVE  SelectionInv'
  BY <1>1, <1>3, AgentKeepsAssigned DEF SelectionInv
<1> QED BY <1>2, <1>3 DEF FleetNext, fleetVars

\* For any selectors, agents, failures and restarts, an agent runs a test only if the
\* selectors stored with its config select the agent.
THEOREM RunsWhereSelected == FleetSpec => []RunsOnlyWhereSelected
<1>1. SelectionInv => RunsOnlyWhereSelected
  <2> SUFFICES ASSUME SelectionInv, NEW a \in Agents, running[a] # Nil
               PROVE  IsAgentValidForSynTest(a, Stored(running[a].config.config))
    BY DEF RunsOnlyWhereSelected
  <2>1. running[a].config.config \in Configs
    BY DEF SelectionInv, FleetTypeInv, FleetTypeOK, Entries, ConfigValues
  <2>2. /\ ConfigAssigned(running[a].config.config)
        /\ IsAgentValid(running[a].config.config, a)
    BY DEF SelectionInv, FleetAssigned
  <2> QED BY <2>1, <2>2, SelectionExact DEF ConfigAssigned
<1> QED BY <1>1, InitSelection, NextSelection, PTL DEF FleetSpec
=============================================================================
