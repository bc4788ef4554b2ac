------------------------- MODULE ConfigMirrorProofs -------------------------
(* Proofs about ConfigMirror for any contents, agents and bounds.          *)
EXTENDS ConfigMirror, TLAPS

\* The steps and the goroutines the actions name are among Steps and Goroutines.
LEMMA StepNames ==
    /\ \A s \in DeleteSteps : s \in Steps
    /\ {"idle", "summaries"} \subseteq Steps
    /\ WriteSteps \subseteq Steps
    /\ Reconciler \in Goroutines /\ Syncer \in Goroutines
BY DEF Steps, DeleteSteps, WriteSteps, Goroutines

\* The empty instance Reconcile starts from and returns to is typed.
LEMMA NoResourceType == NoResource \in Resources /\ "" \in AgentNames
<1>1. "" \in AgentNames
  BY DEF AgentNames
<1> QED BY <1>1 DEF Resources, NoResource

\* What a resource's fields are; only one that exists has a content.
LEMMA ResourceFields ==
  ASSUME NEW r \in Resources
  PROVE  /\ r.gen \in Nat /\ r.agent \in AgentNames /\ r.exists \in BOOLEAN
         /\ r.exists => r.content \in Contents
BY DEF Resources

\* A resource the user writes is typed.
LEMMA ResourceType ==
  ASSUME NEW c \in Contents, NEW g \in Nat, NEW a \in AgentNames
  PROVE  [exists |-> TRUE, content |-> c, gen |-> g + 1, agent |-> a] \in Resources
BY DEF Resources

\* A bounded counter stays within its bound.
LEMMA CountType ==
  ASSUME NEW max \in Nat, NEW n \in 0..max, n < max
  PROVE  n + 1 \in 0..max
OBVIOUS

\* The agent Reconcile chooses is an agent, the word "multiple" or nothing.
LEMMA AgentChoicesType ==
  ASSUME NEW content \in Contents, NEW current \in AgentNames, NEW alive \in SUBSET Agents
  PROVE  AgentChoices(content, current, alive) \subseteq AgentNames
BY FitsAssumption DEF AgentChoices, AgentNames

\* TypeOK is inductive together with the fact that Reconcile only writes for a resource
\* that existed.
TypeInv == TypeOK /\ WritesOnlyExisting

\* A step of a goroutine keeps the program counters typed, and Reconcile on the copy of
\* an existing resource while it writes.
LEMMA MoveType ==
  ASSUME TypeInv, NEW p \in Goroutines, NEW from \in Steps, NEW to \in Steps, Goto(p, from, to),
         p = Reconciler /\ to \in WriteSteps => from \in WriteSteps /\ UNCHANGED inst,
         p = Syncer => UNCHANGED inst
  PROVE  pc' \in [Goroutines -> Steps] /\ WritesOnlyExisting'
BY DEF Goto, TypeInv, TypeOK, WritesOnlyExisting, Goroutines, Reconciler, Syncer

\* The callers of DeleteTestConfig leave their local variables typed.
LEMMA ReturnFromDeleteType ==
  ASSUME TypeInv, NEW p \in Goroutines, ReturnFromDelete(p)
  PROVE  inst' \in Resources /\ newAgent' \in AgentNames /\ listed' \in BOOLEAN
BY NoResourceType DEF ReturnFromDelete, Return, TypeInv, TypeOK

\* The empty store and the idle controller are typed.
LEMMA InitTypeInv == Init => TypeInv
<1> SUFFICES ASSUME Init PROVE TypeInv
  OBVIOUS
<1>1. pc \in [Goroutines -> Steps] /\ WritesOnlyExisting
  BY StepNames DEF Init, WritesOnlyExisting, WriteSteps
<1>2. faults \in 0..MaxFaults /\ changes \in 0..MaxAgentChanges
  <2>1. faults = 0 /\ changes = 0
    BY DEF Init
  <2>2. MaxFaults \in Nat /\ MaxAgentChanges \in Nat
    BY BoundsAssumption
  <2>3. 0 \in 0..MaxFaults /\ 0 \in 0..MaxAgentChanges
    BY <2>2
  <2> QED BY <2>1, <2>3
<1> QED BY <1>1, <1>2, NoResourceType DEF Init, TypeInv, TypeOK

\* Every step of the controller, the user and the informer keeps the types.
LEMMA NextTypeInv == TypeInv /\ [Next]_vars => TypeInv'
<1> SUFFICES ASSUME TypeInv, [Next]_vars PROVE TypeInv'
  OBVIOUS
<1> USE StepNames, NoResourceType DEF TypeInv, TypeOK, WritesOnlyExisting, store, local
<1>1. ASSUME NEW c \in Contents, WriteResource(c) PROVE TypeInv'
  <2>1. crd.gen \in Nat /\ crd.agent \in AgentNames
    BY ResourceFields
  <2>2. [exists |-> TRUE, content |-> c, gen |-> crd.gen + 1, agent |-> crd.agent] \in Resources
    BY <2>1, ResourceType
  <2>3. crd' \in Resources
    BY <1>1, <2>2 DEF WriteResource
  <2> QED BY <1>1, <2>3 DEF WriteResource
<1>2. CASE DeleteResource
  <2>1. crd' \in Resources
    BY <1>2, ResourceFields DEF DeleteResource, Resources, NoResource
  <2> QED BY <1>2, <2>1 DEF DeleteResource
<1>3. CASE Events
  BY <1>3 DEF Events, CacheSync, ExternalEvent
<1>4. ASSUME NEW S \in SUBSET Agents, AgentsChange(S) PROVE TypeInv'
  <2>1. changes' \in 0..MaxAgentChanges
    BY <1>4, BoundsAssumption, CountType DEF AgentsChange
  <2> QED BY <1>4, <2>1 DEF AgentsChange
<1>5. CASE Reconcile
  <2>1. pc' \in [Goroutines -> Steps]
    BY <1>5 DEF Reconcile, Goto, WriteSteps, DeleteSteps
  <2>2. WritesOnlyExisting'
    BY <1>5, ResourceFields DEF Reconcile, Goto, WriteSteps
  <2> QED BY <1>5, <2>1, <2>2 DEF Reconcile
<1>6. CASE ChooseAgent
  <2>1. newAgent' \in AgentNames
    BY <1>6, AgentChoicesType, ResourceFields DEF ChooseAgent, Goto, WriteSteps
  <2>2. pc' \in [Goroutines -> Steps] /\ WritesOnlyExisting'
    BY <1>6, MoveType DEF ChooseAgent, WriteSteps
  <2> QED BY <1>6, <2>1, <2>2 DEF ChooseAgent
<1>7. CASE FetchTestConfig
  <2>1. pc' \in [Goroutines -> Steps] /\ WritesOnlyExisting'
    BY <1>7, MoveType DEF FetchTestConfig, WriteSteps
  <2> QED BY <1>7, <2>1 DEF FetchTestConfig
<1>8. CASE WriteRaw
  <2>1. raw' \in RawValues
    BY <1>8, ResourceFields DEF WriteRaw, RawValues, Goto, WriteSteps
  <2>2. pc' \in [Goroutines -> Steps] /\ WritesOnlyExisting'
    BY <1>8, MoveType DEF WriteRaw, WriteSteps
  <2> QED BY <1>8, <2>1, <2>2 DEF WriteRaw
<1>9. CASE WriteEmptyStatus \/ WriteStatus
  <2>1. status' \in StatusValues
    <3>1. CASE WriteEmptyStatus
      BY <3>1 DEF WriteEmptyStatus, StatusValues
    <3>2. CASE WriteStatus
      <4>1. (newAgent # "") \in BOOLEAN
        OBVIOUS
      <4> QED BY <3>2, <4>1 DEF WriteStatus, StatusValues
    <3> QED BY <1>9, <3>1, <3>2
  <2>2. pc' \in [Goroutines -> Steps] /\ WritesOnlyExisting'
    BY <1>9, MoveType DEF WriteEmptyStatus, WriteStatus, WriteSteps
  <2> QED BY <1>9, <2>1, <2>2 DEF WriteEmptyStatus, WriteStatus
<1>10. CASE WriteJson \/ WriteSummary
  <2>1. inst.content \in Contents /\ inst.gen \in Nat
    BY <1>10, ResourceFields DEF WriteJson, WriteSummary, Goto, WriteSteps
  <2>2. [config |-> Target, gen |-> inst.gen] \in ConfigValues
    BY <2>1 DEF Target, ConfigValues, Configs
  <2>3. pc' \in [Goroutines -> Steps] /\ WritesOnlyExisting'
    BY <1>10, MoveType DEF WriteJson, WriteSummary, WriteSteps
  <2> QED BY <1>10, <2>2, <2>3 DEF WriteJson, WriteSummary
<1>11. CASE PublishUpdate
  <2>1. pc' \in [Goroutines -> Steps] /\ WritesOnlyExisting'
    BY <1>11, MoveType DEF PublishUpdate, WriteSteps
  <2> QED BY <1>11, <2>1 DEF PublishUpdate
<1>12. CASE UpdateResourceStatus
  <2>1. crd' \in Resources
    BY <1>12, ResourceFields DEF UpdateResourceStatus, Resources
  <2>2. inst' \in Resources /\ newAgent' \in AgentNames
    BY <1>12 DEF UpdateResourceStatus, Return
  <2>3. pc' \in [Goroutines -> Steps] /\ WritesOnlyExisting'
    BY <1>12, MoveType DEF UpdateResourceStatus, WriteSteps, Reconciler, Syncer
  <2> QED BY <1>12, <2>1, <2>2, <2>3 DEF UpdateResourceStatus
<1>13. ASSUME NEW p \in Goroutines, DeleteTestConfig(p) PROVE TypeInv'
  <2>1. CASE DeleteRaw(p) \/ DeleteJson(p) \/ DeleteStatus(p) \/ DeleteSummary(p)
    <3>1. pc' \in [Goroutines -> Steps] /\ WritesOnlyExisting'
      BY <2>1, MoveType DEF DeleteRaw, DeleteJson, DeleteStatus, DeleteSummary, WriteSteps, DeleteSteps
    <3> QED BY <2>1, <3>1 DEF DeleteRaw, DeleteJson, DeleteStatus, DeleteSummary
  <2>2. CASE PublishDelete(p)
    <3>1. pc' \in [Goroutines -> Steps] /\ WritesOnlyExisting'
      BY <2>2, MoveType DEF PublishDelete, ReturnFromDelete, WriteSteps, DeleteSteps, Reconciler, Syncer
    <3> QED BY <2>2, <3>1, ReturnFromDeleteType DEF PublishDelete, ReturnFromDelete
  <2> QED BY <1>13, <2>1, <2>2 DEF DeleteTestConfig
<1>14. CASE ListResources
  <2>1. pc' \in [Goroutines -> Steps] /\ WritesOnlyExisting'
    BY <1>14, MoveType DEF ListResources, WriteSteps, Reconciler, Syncer
  <2>2. listed' \in BOOLEAN
    BY <1>14, ResourceFields DEF ListResources
  <2> QED BY <1>14, <2>1, <2>2 DEF ListResources
<1>15. CASE FetchSummaries
  <2>1. pc' \in [Goroutines -> Steps] /\ WritesOnlyExisting'
    BY <1>15, MoveType DEF FetchSummaries, WriteSteps, DeleteSteps, Reconciler, Syncer
  <2> QED BY <1>15, <2>1 DEF FetchSummaries
<1>16. CommandFails => faults' \in 0..MaxFaults
  BY BoundsAssumption, CountType DEF CommandFails
<1>17. CASE ReconcileFails
  <2>1. pc' \in [Goroutines -> Steps] /\ WritesOnlyExisting'
    BY <1>17 DEF ReconcileFails, WriteSteps
  <2> QED BY <1>16, <1>17, <2>1 DEF ReconcileFails, Return
<1>18. CASE IgnoredFailure
  <2>1. pc' \in [Goroutines -> Steps] /\ WritesOnlyExisting'
    BY <1>18, MoveType DEF IgnoredFailure, WriteSteps, Reconciler, Syncer
  <2> QED BY <1>16, <1>18, <2>1 DEF IgnoredFailure, Return
<1>19. CASE SyncFails
  <2>1. pc' \in [Goroutines -> Steps] /\ WritesOnlyExisting'
    BY <1>19, MoveType DEF SyncFails, WriteSteps, Reconciler, Syncer
  <2> QED BY <1>16, <1>19, <2>1 DEF SyncFails
<1>20. CASE Crash
  <2>1. pc' \in [Goroutines -> Steps] /\ WritesOnlyExisting'
    BY <1>20 DEF Crash, WriteSteps
  <2>2. queued' \in BOOLEAN
    BY <1>20, ResourceFields DEF Crash
  <2> QED BY <1>16, <1>20, <2>1, <2>2 DEF Crash, Return
<1>21. ASSUME NEW p \in Goroutines, DeleteFails(p) PROVE TypeInv'
  <2>1. pc' \in [Goroutines -> Steps] /\ WritesOnlyExisting'
    BY <1>21 DEF DeleteFails, ReturnFromDelete, Goroutines, Reconciler, Syncer, WriteSteps
  <2> QED BY <1>16, <1>21, <2>1, ReturnFromDeleteType DEF DeleteFails, ReturnFromDelete
<1>22. CASE UNCHANGED vars
  BY <1>22 DEF vars
<1> QED
  BY <1>1, <1>2, <1>3, <1>4, <1>5, <1>6, <1>7, <1>8, <1>9, <1>10, <1>11, <1>12, <1>13, <1>14, <1>15,
     <1>17, <1>18, <1>19, <1>20, <1>21, <1>22
     DEF Next, User, ReconcileStep, SyncStep, Failure

\* The reconciler's and the syncer's variables keep their types for any contents, agents
\* and bounds, and Reconcile only writes for a resource that existed when it read it.
THEOREM TypeCorrect == Spec => [](TypeOK /\ WritesOnlyExisting)
<1>1. Spec => []TypeInv
  BY InitTypeInv, NextTypeInv, PTL DEF Spec
<1> QED BY <1>1 DEF TypeInv
-----------------------------------------------------------------------------
\* The generations WriteOrderInv compares are numbers.
LEMMA GenTypes ==
  ASSUME TypeInv
  PROVE  /\ crd.gen \in Nat /\ cache.gen \in Nat /\ inst.gen \in Nat
         /\ raw # Nil => raw.gen \in Nat
         /\ json # Nil => json.gen \in Nat
         /\ summary # Nil => summary.gen \in Nat
<1>1. crd.gen \in Nat /\ cache.gen \in Nat /\ inst.gen \in Nat
  BY ResourceFields DEF TypeInv, TypeOK
<1> QED BY <1>1 DEF TypeInv, TypeOK, RawValues, ConfigValues

\* The empty store is in order.
LEMMA InitWriteOrder == Init => WriteOrderInv
<1> SUFFICES ASSUME Init PROVE WriteOrderInv
  OBVIOUS
<1>1. pc[Reconciler] = "idle"
  BY DEF Init, Goroutines
<1>2. cache.gen = 0 /\ crd.gen = 0
  BY DEF Init, NoResource
<1>3. raw = Nil /\ json = Nil /\ summary = Nil
  BY DEF Init
<1> QED BY <1>1, <1>2, <1>3 DEF WriteOrderInv, WriteOrder, AtMost, Latest

\* Reconcile writes raw, json and summary in this order with the generation of its
\* instance, which is never behind what it wrote in earlier runs.
LEMMA NextWriteOrder == TypeInv /\ TypeInv' /\ WriteOrderInv /\ [Next]_vars => WriteOrderInv'
<1> SUFFICES ASSUME TypeInv, TypeInv', WriteOrderInv, [Next]_vars PROVE WriteOrderInv'
  OBVIOUS
<1>t. /\ crd.gen \in Nat /\ cache.gen \in Nat /\ inst.gen \in Nat
      /\ raw # Nil => raw.gen \in Nat
      /\ json # Nil => json.gen \in Nat
      /\ summary # Nil => summary.gen \in Nat
  BY GenTypes
<1>p. pc \in [Goroutines -> Steps] /\ Reconciler \in Goroutines /\ Syncer \in Goroutines /\ Reconciler # Syncer
  BY DEF TypeInv, TypeOK, Goroutines, Reconciler, Syncer
<1> USE <1>t, <1>p DEF WriteOrderInv, WriteOrder, AtMost, Latest, store, local
<1>1. ASSUME NEW c \in Contents, WriteResource(c) PROVE WriteOrderInv'
  BY <1>1 DEF WriteResource
<1>2. CASE DeleteResource
  BY <1>2 DEF DeleteResource, NoResource
<1>3. CASE Events
  BY <1>3 DEF Events, CacheSync, ExternalEvent
<1>4. ASSUME NEW S \in SUBSET Agents, AgentsChange(S) PROVE WriteOrderInv'
  BY <1>4 DEF AgentsChange
<1>5. CASE Reconcile
  BY <1>5 DEF Reconcile, Goto
<1>6. CASE ChooseAgent \/ FetchTestConfig
  BY <1>6 DEF ChooseAgent, FetchTestConfig, Goto
<1>7. CASE WriteRaw
  BY <1>7 DEF WriteRaw, Goto
<1>8. CASE WriteEmptyStatus
  BY <1>8 DEF WriteEmptyStatus, Goto
<1>9. CASE WriteJson
  BY <1>9 DEF WriteJson, Goto
<1>10. CASE WriteSummary
  BY <1>10 DEF WriteSummary, Goto
<1>11. CASE PublishUpdate \/ WriteStatus
  BY <1>11 DEF PublishUpdate, WriteStatus, Goto
<1>12. CASE UpdateResourceStatus
  <2>1. crd'.gen = crd.gen
    BY <1>12 DEF UpdateResourceStatus, TypeInv, TypeOK, Resources
  <2> QED BY <1>12, <2>1 DEF UpdateResourceStatus, Goto
<1>13. ASSUME NEW p \in Goroutines, DeleteTestConfig(p) PROVE WriteOrderInv'
  <2>1. /\ UNCHANGED <<crd, cache>>
        /\ raw' \in {raw, Nil} /\ json' \in {json, Nil} /\ summary' \in {summary, Nil}
    BY <1>13 DEF DeleteTestConfig, DeleteRaw, DeleteJson, DeleteStatus, DeleteSummary, PublishDelete,
                 ReturnFromDelete
  <2>2. CASE p = Reconciler
    <3>1. \/ pc'[Reconciler] \in DeleteSteps /\ inst' = inst /\ pc[Reconciler] # "idle"
          \/ pc'[Reconciler] = "idle"
      BY <1>13, <2>2 DEF DeleteTestConfig, DeleteRaw, DeleteJson, DeleteStatus, DeleteSummary,
                         PublishDelete, Goto, DeleteSteps
    <3> QED BY <2>1, <3>1 DEF DeleteSteps
  <2>3. CASE p = Syncer
    <3>1. pc'[Reconciler] = pc[Reconciler] /\ inst' = inst
      BY <1>13, <2>3 DEF DeleteTestConfig, DeleteRaw, DeleteJson, DeleteStatus, DeleteSummary,
                         PublishDelete, ReturnFromDelete, Goto
    <3> QED BY <2>1, <3>1
  <2> QED BY <2>2, <2>3 DEF Goroutines
<1>14. CASE ListResources \/ FetchSummaries \/ SyncFails
  BY <1>14 DEF ListResources, FetchSummaries, SyncFails, Goto
<1>15. CASE ReconcileFails
  BY <1>15 DEF ReconcileFails
<1>16. CASE IgnoredFailure
  BY <1>16 DEF IgnoredFailure, Goto
<1>17. CASE Crash
  BY <1>17 DEF Crash
<1>18. ASSUME NEW p \in Goroutines, DeleteFails(p) PROVE WriteOrderInv'
  <2>1. CASE p = Reconciler
    BY <1>18, <2>1 DEF DeleteFails, ReturnFromDelete
  <2>2. CASE p = Syncer
    BY <1>18, <2>2 DEF DeleteFails, ReturnFromDelete
  <2> QED BY <2>1, <2>2 DEF Goroutines
<1>19. CASE UNCHANGED vars
  BY <1>19 DEF vars
<1> QED
  BY <1>1, <1>2, <1>3, <1>4, <1>5, <1>6, <1>7, <1>8, <1>9, <1>10, <1>11, <1>12, <1>13, <1>14, <1>15,
     <1>16, <1>17, <1>18, <1>19
     DEF Next, User, ReconcileStep, SyncStep, Failure

\* For any contents, agents, failures and crashes, a key of a test's config is never
\* older than a key WriteTestConfig writes after it.
THEOREM WriteOrderHolds == Spec => []WriteOrder
<1>1. TypeInv /\ WriteOrderInv /\ [Next]_vars => (TypeInv /\ WriteOrderInv)'
  BY NextTypeInv, NextWriteOrder
<1>2. Init => TypeInv /\ WriteOrderInv
  BY InitTypeInv, InitWriteOrder
<1>3. TypeInv /\ WriteOrderInv => WriteOrder
  BY DEF WriteOrderInv
<1> QED BY <1>1, <1>2, <1>3, PTL DEF Spec

\* What a step of the controller, the user or the informer may do to the generations a
\* reader of several keys depends on: the cache never goes back, a run of Reconcile keeps
\* its instance, and the json and the raw spec only disappear or become as new as that
\* instance.
LEMMA ControllerStep ==
  ASSUME TypeInv, WriteOrderInv, [Next]_vars
  PROVE  /\ cache.gen <= cache'.gen
         /\ pc'[Reconciler] # "idle" => (pc[Reconciler] # "idle" /\ inst' = inst) \/ inst' = cache
         /\ json' \in {json, Nil} \/ (pc[Reconciler] # "idle" /\ json'.gen = inst.gen)
         /\ raw' \in {raw, Nil} \/ (pc[Reconciler] # "idle" /\ raw'.gen = inst.gen)
<1>t. /\ crd.gen \in Nat /\ cache.gen \in Nat /\ inst.gen \in Nat /\ cache.gen <= crd.gen
  BY GenTypes DEF WriteOrderInv
<1>p. pc \in [Goroutines -> Steps] /\ Reconciler \in Goroutines /\ Syncer \in Goroutines /\ Reconciler # Syncer
  BY DEF TypeInv, TypeOK, Goroutines, Reconciler, Syncer
<1> DEFINE Cache == cache.gen <= cache'.gen
           Instance == pc'[Reconciler] # "idle" =>
                          (pc[Reconciler] # "idle" /\ inst' = inst) \/ inst' = cache
           Json == json' \in {json, Nil} \/ (pc[Reconciler] # "idle" /\ json'.gen = inst.gen)
           Raw == raw' \in {raw, Nil} \/ (pc[Reconciler] # "idle" /\ raw'.gen = inst.gen)
           Goal == Cache /\ Instance /\ Json /\ Raw
<1> SUFFICES Goal
  OBVIOUS
<1> USE <1>t, <1>p DEF store, local
<1>1. ASSUME NEW c \in Contents, WriteResource(c) PROVE Goal
  BY <1>1 DEF WriteResource
<1>2. CASE DeleteResource \/ Events
  BY <1>2 DEF DeleteResource, Events, CacheSync, ExternalEvent
<1>3. ASSUME NEW S \in SUBSET Agents, AgentsChange(S) PROVE Goal
  BY <1>3 DEF AgentsChange
<1>4. CASE Reconcile
  BY <1>4 DEF Reconcile, Goto
<1>5. CASE ChooseAgent \/ FetchTestConfig \/ WriteEmptyStatus
  <2>1. UNCHANGED <<cache, inst, json, raw>>
    BY <1>5 DEF ChooseAgent, FetchTestConfig, WriteEmptyStatus
  <2>2. pc[Reconciler] # "idle"
    BY <1>5 DEF ChooseAgent, FetchTestConfig, WriteEmptyStatus, Goto
  <2> QED BY <2>1, <2>2
<1>6. CASE WriteRaw \/ WriteJson
  BY <1>6 DEF WriteRaw, WriteJson, Goto
<1>7. CASE WriteSummary \/ PublishUpdate \/ WriteStatus
  <2>1. UNCHANGED <<cache, inst, json, raw>>
    BY <1>7 DEF WriteSummary, PublishUpdate, WriteStatus
  <2>2. pc[Reconciler] # "idle"
    BY <1>7 DEF WriteSummary, PublishUpdate, WriteStatus, Goto
  <2> QED BY <2>1, <2>2
<1>8. CASE UpdateResourceStatus
  BY <1>8 DEF UpdateResourceStatus, Goto
<1>9. ASSUME NEW p \in Goroutines, DeleteTestConfig(p) PROVE Goal
  <2>1. Cache /\ json' \in {json, Nil} /\ raw' \in {raw, Nil}
    BY <1>9 DEF DeleteTestConfig, DeleteRaw, DeleteJson, DeleteStatus, DeleteSummary, PublishDelete,
                ReturnFromDelete
  <2>2. CASE p = Reconciler
    BY <1>9, <2>1, <2>2 DEF DeleteTestConfig, DeleteRaw, DeleteJson, DeleteStatus, DeleteSummary,
                            PublishDelete, Goto
  <2>3. CASE p = Syncer
    <3>1. pc'[Reconciler] = pc[Reconciler] /\ inst' = inst
      BY <1>9, <2>3 DEF DeleteTestConfig, DeleteRaw, DeleteJson, DeleteStatus, DeleteSummary,
                        PublishDelete, ReturnFromDelete, Goto
    <3> QED BY <2>1, <3>1
  <2> QED BY <2>2, <2>3 DEF Goroutines
<1>10. CASE ListResources \/ FetchSummaries \/ SyncFails
  BY <1>10 DEF ListResources, FetchSummaries, SyncFails, Goto
<1>11. CASE ReconcileFails \/ IgnoredFailure
  <2>1. UNCHANGED <<cache, json, raw>>
    BY <1>11 DEF ReconcileFails, IgnoredFailure
  <2>2. CASE ReconcileFails
    <3>1. pc'[Reconciler] = "idle"
      BY <2>2 DEF ReconcileFails, Goto
    <3> QED BY <2>1, <3>1
  <2>3. CASE IgnoredFailure
    <3>1. pc[Reconciler] # "idle"
      BY <2>3 DEF IgnoredFailure, Goto
    <3>2. pc'[Reconciler] = "idle" \/ inst' = inst
      BY <2>3 DEF IgnoredFailure, Goto
    <3> QED BY <2>1, <3>1, <3>2
  <2> QED BY <1>11, <2>2, <2>3
<1>12. CASE Crash
  BY <1>12 DEF Crash
<1>13. ASSUME NEW p \in Goroutines, DeleteFails(p) PROVE Goal
  <2>1. CASE p = Reconciler
    BY <1>13, <2>1 DEF DeleteFails, ReturnFromDelete
  <2>2. CASE p = Syncer
    BY <1>13, <2>2 DEF DeleteFails, ReturnFromDelete
  <2> QED BY <2>1, <2>2 DEF Goroutines
<1>14. CASE UNCHANGED vars
  BY <1>14 DEF vars
<1> QED
  BY <1>1, <1>2, <1>3, <1>4, <1>5, <1>6, <1>7, <1>8, <1>9, <1>10, <1>11, <1>12, <1>13, <1>14
     DEF Next, User, ReconcileStep, SyncStep, Failure
-----------------------------------------------------------------------------
(* The contents the keys hold *)

SameContent(key, resource) == key # Nil => key.config.content = resource.content

\* As long as nothing fails: a run of Reconcile works on what the cache holds, unless a
\* request for something newer waits; json and summary have one content except between
\* their two writes, so that Reconcile may take an up-to-date json for an up-to-date
\* summary; and a run that ends without another waiting leaves the cache's content.
CurrentInv ==
    /\ pc[Reconciler] = "idle" /\ ~queued /\ cache.exists => SameContent(summary, cache)
    /\ pc[Reconciler] # "idle" /\ ~queued => inst = cache
    /\ pc[Reconciler] \in {"publish", "status", "crdStatus"} => SameContent(summary, inst)
    /\ json # Nil /\ summary # Nil /\ pc[Reconciler] # "summary" => json.config.content = summary.config.content
    /\ pc[Reconciler] = "summary" => SameContent(json, inst)
    /\ pc[Reconciler] \in DeleteSteps => ~inst.exists

\* The same without the periodic sync: then no key of a config is missing either.
PresentInv ==
    /\ faults = 0 /\ pc[Syncer] = "idle"
    /\ pc[Reconciler] = "idle" /\ ~queued /\ cache.exists => summary # Nil
    /\ pc[Reconciler] \in {"publish", "status", "crdStatus"} => summary # Nil
    /\ json # Nil /\ pc[Reconciler] # "summary" => summary # Nil
    /\ pc[Reconciler] \in {"delStatus", "delSummary", "delPublish"} => json = Nil

\* A failure is counted.
LEMMA FailuresCount == ASSUME TypeInv, Failure PROVE faults' # 0
<1>1. faults \in Nat
  BY BoundsAssumption DEF TypeInv, TypeOK
<1>2. CommandFails
  BY DEF Failure, ReconcileFails, IgnoredFailure, SyncFails, Crash, DeleteFails
<1> QED BY <1>1, <1>2 DEF CommandFails

\* Nothing else is.
LEMMA OnlyFailuresCount ==
  ASSUME User \/ Events \/ ReconcileStep \/ SyncStep \/ (\E S \in SUBSET Agents : AgentsChange(S)) \/ UNCHANGED vars
  PROVE  faults' = faults
BY DEF vars, User, WriteResource, DeleteResource, AgentsChange, Events, CacheSync, ExternalEvent, ReconcileStep,
       Reconcile, ChooseAgent, FetchTestConfig, WriteRaw, WriteEmptyStatus, WriteJson, WriteSummary, PublishUpdate,
       WriteStatus, UpdateResourceStatus, SyncStep, ListResources, FetchSummaries, DeleteTestConfig, DeleteRaw,
       DeleteJson, DeleteStatus, DeleteSummary, PublishDelete

\* Initially there is no config.
LEMMA InitCurrent == Init => CurrentInv
<1> SUFFICES ASSUME Init PROVE CurrentInv
  OBVIOUS
<1>1. pc[Reconciler] = "idle" /\ ~cache.exists /\ json = Nil
  BY DEF Init, Goroutines, NoResource
<1> QED BY <1>1 DEF CurrentInv, DeleteSteps

\* The steps of the syncer only take keys away and leave Reconcile alone.
LEMMA SyncTakesAway ==
  ASSUME TypeInv, SyncStep
  PROVE  /\ pc'[Reconciler] = pc[Reconciler] /\ UNCHANGED <<cache, queued, inst, newAgent>>
         /\ json' \in {json, Nil} /\ summary' \in {summary, Nil}
<1>1. pc \in [Goroutines -> Steps] /\ Reconciler \in Goroutines /\ Syncer \in Goroutines /\ Reconciler # Syncer
  BY DEF TypeInv, TypeOK, Goroutines, Reconciler, Syncer
<1> USE <1>1 DEF store, local
<1>2. CASE ListResources \/ FetchSummaries
  BY <1>2 DEF ListResources, FetchSummaries, Goto
<1>3. CASE DeleteTestConfig(Syncer)
  BY <1>3 DEF DeleteTestConfig, DeleteRaw, DeleteJson, DeleteStatus, DeleteSummary, PublishDelete,
              ReturnFromDelete, Goto
<1> QED BY <1>2, <1>3 DEF SyncStep

\* Every step without a failure keeps CurrentInv.
LEMMA NextCurrent == ASSUME TypeInv, CurrentInv, [Next]_vars, ~Failure PROVE CurrentInv'
<1>p. pc \in [Goroutines -> Steps] /\ Reconciler \in Goroutines
  BY DEF TypeInv, TypeOK, Goroutines
<1> USE <1>p DEF CurrentInv, SameContent, store, local
<1>1. CASE User \/ (\E S \in SUBSET Agents : AgentsChange(S))
  BY <1>1 DEF User, WriteResource, DeleteResource, AgentsChange
<1>2. CASE Events
  BY <1>2 DEF Events, CacheSync, ExternalEvent
<1>3. CASE Reconcile
  BY <1>3 DEF Reconcile, Goto, DeleteSteps
<1>4. CASE ChooseAgent
  BY <1>4 DEF ChooseAgent, Goto, DeleteSteps
<1>5. CASE FetchTestConfig
  <2>1. CASE UpToDate
    <3>1. json # Nil /\ json.config.content = inst.content
      BY <2>1 DEF UpToDate, Target
    <3>2. pc[Reconciler] = "fetch" /\ pc'[Reconciler] = "status"
      BY <1>5, <2>1 DEF FetchTestConfig, Goto
    <3>3. UNCHANGED <<cache, queued, inst, json, summary>>
      BY <1>5 DEF FetchTestConfig
    <3>4. SameContent(summary, inst)
      BY <3>1, <3>2
    <3> QED BY <3>2, <3>3, <3>4 DEF DeleteSteps
  <2>2. CASE ~UpToDate
    BY <1>5, <2>2 DEF FetchTestConfig, Goto, DeleteSteps
  <2> QED BY <2>1, <2>2
<1>6. CASE WriteRaw \/ WriteEmptyStatus
  BY <1>6 DEF WriteRaw, WriteEmptyStatus, Goto, DeleteSteps
<1>7. CASE WriteJson
  BY <1>7 DEF WriteJson, Goto, DeleteSteps, Target
<1>8. CASE WriteSummary
  BY <1>8 DEF WriteSummary, Goto, DeleteSteps, Target
<1>9. CASE PublishUpdate \/ WriteStatus
  BY <1>9 DEF PublishUpdate, WriteStatus, Goto, DeleteSteps
<1>10. CASE UpdateResourceStatus
  <2>1. /\ pc[Reconciler] = "crdStatus" /\ pc'[Reconciler] = "idle" /\ UNCHANGED <<cache, store>>
        /\ ~queued' => ~queued
    BY <1>10 DEF UpdateResourceStatus, Goto
  <2> QED BY <2>1 DEF DeleteSteps
<1>11. CASE DeleteTestConfig(Reconciler)
  <2>1. /\ pc[Reconciler] \in DeleteSteps /\ UNCHANGED <<cache, queued>>
        /\ json' \in {json, Nil} /\ summary' \in {summary, Nil}
        /\ pc'[Reconciler] = "idle" \/ (pc'[Reconciler] \in DeleteSteps /\ inst' = inst)
    BY <1>11 DEF DeleteTestConfig, DeleteRaw, DeleteJson, DeleteStatus, DeleteSummary, PublishDelete,
                 ReturnFromDelete, Goto, DeleteSteps
  <2> QED BY <2>1 DEF DeleteSteps
<1>12. CASE SyncStep
  BY <1>12, SyncTakesAway
<1>13. CASE UNCHANGED vars
  BY <1>13 DEF vars
<1> QED
  BY <1>1, <1>2, <1>3, <1>4, <1>5, <1>6, <1>7, <1>8, <1>9, <1>10, <1>11, <1>12, <1>13
     DEF Next, ReconcileStep

\* As long as nothing failed, the controller never comes to rest with an outdated config
\* in the summary: for any contents, agents and bounds, and wherever the periodic sync
\* deletes keys between the writes of Reconcile.
THEOREM NeverOutdatedHolds == Spec => []NeverOutdatedAtRest
<1> DEFINE Inv == TypeInv /\ (faults = 0 => CurrentInv)
<1>1. Init => Inv
  BY InitTypeInv, InitCurrent
<1>2. Inv /\ [Next]_vars => Inv'
  <2> SUFFICES ASSUME Inv, [Next]_vars, faults' = 0 PROVE CurrentInv'
    BY NextTypeInv
  <2>1. ~Failure
    BY FailuresCount
  <2>2. faults = 0
    BY <2>1, OnlyFailuresCount DEF Next
  <2> QED BY <2>1, <2>2, NextCurrent
<1>3. Inv => NeverOutdatedAtRest
  <2> SUFFICES ASSUME CurrentInv, AtRest, crd.exists PROVE summary = Nil \/ summary.config.content = crd.content
    BY DEF NeverOutdatedAtRest
  <2>1. pc[Reconciler] = "idle" /\ ~queued /\ cache = crd
    BY DEF AtRest, Goroutines
  <2> QED BY <2>1 DEF CurrentInv, SameContent
<1> QED BY <1>1, <1>2, <1>3, PTL DEF Spec

\* Every step between two periodic syncs keeps PresentInv.
LEMMA NextPresent == ASSUME TypeInv, CurrentInv, PresentInv, [ReconcilerNext]_vars PROVE PresentInv'
<1>p. pc \in [Goroutines -> Steps] /\ Reconciler \in Goroutines /\ Syncer \in Goroutines /\ Reconciler # Syncer
  BY DEF TypeInv, TypeOK, Goroutines, Reconciler, Syncer
<1> USE <1>p DEF PresentInv, store, local
<1>1. CASE User \/ (\E S \in SUBSET Agents : AgentsChange(S))
  BY <1>1 DEF User, WriteResource, DeleteResource, AgentsChange
<1>2. CASE Events
  BY <1>2 DEF Events, CacheSync, ExternalEvent
<1>3. CASE Reconcile \/ ChooseAgent
  BY <1>3 DEF Reconcile, ChooseAgent, Goto
<1>4. CASE FetchTestConfig
  BY <1>4 DEF FetchTestConfig, UpToDate, Goto
<1>5. CASE WriteRaw \/ WriteEmptyStatus \/ WriteJson
  BY <1>5 DEF WriteRaw, WriteEmptyStatus, WriteJson, Goto
<1>6. CASE WriteSummary
  <2>1. inst.exists
    BY <1>6 DEF WriteSummary, Goto, TypeInv, WritesOnlyExisting, WriteSteps
  <2>2. inst.content \in Contents /\ inst.gen \in Nat
    BY <2>1, ResourceFields DEF TypeInv, TypeOK
  <2>3. [config |-> Target, gen |-> inst.gen] \in ConfigValues
    BY <2>2 DEF Target, ConfigValues, Configs
  <2>4. summary' # Nil
    BY <1>6, <2>3, AbsentAssumption DEF WriteSummary
  <2> QED BY <1>6, <2>4 DEF WriteSummary, Goto
<1>7. CASE PublishUpdate \/ WriteStatus
  BY <1>7 DEF PublishUpdate, WriteStatus, Goto
<1>8. CASE UpdateResourceStatus
  BY <1>8 DEF UpdateResourceStatus, Goto
<1>9. CASE DeleteTestConfig(Reconciler)
  <2>1. CASE DeleteRaw(Reconciler) \/ DeleteJson(Reconciler) \/ DeleteStatus(Reconciler) \/ DeleteSummary(Reconciler)
    BY <2>1 DEF DeleteRaw, DeleteJson, DeleteStatus, DeleteSummary, Goto
  <2>2. CASE PublishDelete(Reconciler)
    <3>1. queued \/ ~cache.exists
      BY <2>2 DEF PublishDelete, Goto, CurrentInv, DeleteSteps
    <3> QED BY <2>2, <3>1 DEF PublishDelete, ReturnFromDelete, Goto
  <2> QED BY <1>9, <2>1, <2>2 DEF DeleteTestConfig
<1>10. CASE UNCHANGED vars
  BY <1>10 DEF vars
<1> QED
  BY <1>1, <1>2, <1>3, <1>4, <1>5, <1>6, <1>7, <1>8, <1>9, <1>10 DEF ReconcilerNext, ReconcileStep

\* Between two periodic syncs both invariants are kept.
LEMMA ReconcilerKeeps ==
  ASSUME TypeInv, CurrentInv, PresentInv, [ReconcilerNext]_vars
  PROVE  (TypeInv /\ CurrentInv /\ PresentInv)'
<1>1. [Next]_vars
  BY DEF ReconcilerNext, Next
<1>2. ~Failure
  BY FailuresCount, OnlyFailuresCount DEF PresentInv, ReconcilerNext
<1> QED BY <1>1, <1>2, NextTypeInv, NextCurrent, NextPresent

\* Between two periodic syncs the controller comes to rest only with the content of the
\* resource in the summary, for any contents, agents and bounds.
THEOREM RestMirroredHolds == Init /\ [][ReconcilerNext]_vars => []RestMirrored
<1> DEFINE Inv == TypeInv /\ CurrentInv /\ PresentInv
<1>1. Init => Inv
  <2> SUFFICES ASSUME Init PROVE PresentInv
    BY InitTypeInv, InitCurrent
  <2>1. pc[Reconciler] = "idle" /\ pc[Syncer] = "idle" /\ ~cache.exists /\ json = Nil /\ faults = 0
    BY DEF Init, Goroutines, NoResource
  <2> QED BY <2>1 DEF PresentInv
<1>2. Inv /\ [ReconcilerNext]_vars => Inv'
  BY ReconcilerKeeps
<1>3. Inv => RestMirrored
  <2> SUFFICES ASSUME CurrentInv, PresentInv, AtRest, crd.exists
               PROVE  summary # Nil /\ summary.config.content = crd.content
    BY DEF RestMirrored
  <2>1. pc[Reconciler] = "idle" /\ ~queued /\ cache = crd
    BY DEF AtRest, Goroutines
  <2> QED BY <2>1 DEF CurrentInv, PresentInv, SameContent
<1> QED BY <1>1, <1>2, <1>3, PTL
=============================================================================
