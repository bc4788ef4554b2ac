--------------------------- MODULE FleetSelection ---------------------------
(***************************************************************************)
(* ConfigFleet with the selectors spelled out: how Reconcile reads the     *)
(* selectors of a resource, which ones it stores, and how an agent matches *)
(* the stored ones with itself.  ConfigFleet's Kind and Fits are what they *)
(* come to.                                                                *)
(*                                                                         *)
(* A pattern stands for the set of names filepath.Match accepts for it,    *)
(* with '$' read as '*'; names hold no '$', and patterns are well formed.  *)
(***************************************************************************)
EXTENDS ConfigFleet

CONSTANTS
    TestSpec,     \* of each content: namespace, labels, node and podLabelSelector
    AgentConfig   \* of each agent: its own selectors, node, namespace, pod and pod labels

SpecialKeyAgentId == "$agentId"
SpecialKeyAgentNs == "$agentNamespace"
SpecialKeyPodName == "$podName"
SpecialKeys == {SpecialKeyAgentId, SpecialKeyAgentNs, SpecialKeyPodName}

\* dollar: has the pattern a '$' in it, or is it just that?
Glob(names) == [dollar |-> "no", names |-> names]
Dollar(names) == [dollar |-> "all", names |-> names]
Dollars == {"no", "some", "all"}

Match(pattern, name) == pattern.dollar = "no" /\ name \in pattern.names

LabelOf(labels, key) == IF key \in DOMAIN labels THEN labels[key] ELSE ""

\* An agent id is compared literally: the one name the pattern stands for is the id.  A
\* special key that does not match is looked up among the pod's labels, like any other.
MatchesKey(agent, key, pattern) ==
    \/ key = SpecialKeyAgentId /\ pattern = Glob({agent})
    \/ key = SpecialKeyAgentNs /\ Match(pattern, AgentConfig[agent].namespace)
    \/ key = SpecialKeyPodName /\ Match(pattern, AgentConfig[agent].pod)
    \/ /\ key \in DOMAIN AgentConfig[agent].podLabels
       /\ Match(pattern, AgentConfig[agent].podLabels[key])

\* A node selector is a set of at most one pattern: the empty string selects every node.
IsAgentValidForSynTest(agent, test) ==
    /\ AgentConfig[agent].matchNamespaces # {} => test.namespace \in AgentConfig[agent].matchNamespaces
    /\ \A pattern \in test.node : Match(pattern, AgentConfig[agent].node)
    /\ \A key \in DOMAIN AgentConfig[agent].matchTestLabels :
           LabelOf(test.labels, key) = AgentConfig[agent].matchTestLabels[key]
    /\ \A key \in DOMAIN test.podLabelSelector : MatchesKey(agent, key, test.podLabelSelector[key])
-----------------------------------------------------------------------------
(* What Reconcile makes of the selectors. *)

NeedsNodeAssignment(test) == \E pattern \in test.node : pattern.dollar # "no"

NeedsPodAssignment(test) ==
    /\ SpecialKeyPodName \in DOMAIN test.podLabelSelector
    /\ test.podLabelSelector[SpecialKeyPodName].dollar = "all"

KindOf(test) ==
    IF NeedsNodeAssignment(test) /\ NeedsPodAssignment(test) THEN "both"
    ELSE IF NeedsNodeAssignment(test) \/ NeedsPodAssignment(test) THEN "assigned"
    ELSE "multiple"

\* The selectors without what asks for an assignment.
Without(selector, keys) == [key \in DOMAIN selector \ keys |-> selector[key]]

Unassigned(test) ==
    [namespace |-> test.namespace,
     labels |-> test.labels,
     node |-> {IF p.dollar = "no" THEN p ELSE Glob(p.names) : p \in test.node},
     podLabelSelector |-> IF NeedsPodAssignment(test)
                          THEN Without(test.podLabelSelector, {SpecialKeyPodName})
                          ELSE test.podLabelSelector]

FitsOf(test) == {a \in Agents : IsAgentValidForSynTest(a, Unassigned(test))}

\* The agent is added to the selectors, or takes the place of one the user asked for.
Assign(test, agent) ==
    [namespace |-> test.namespace,
     labels |-> test.labels,
     node |-> test.node,
     podLabelSelector |->
         [key \in DOMAIN test.podLabelSelector \cup {SpecialKeyAgentId} |->
             IF key = SpecialKeyAgentId THEN Glob({agent}) ELSE test.podLabelSelector[key]]]

\* The test in Redis for a config of ConfigMirror.  One no agent could be found for keeps
\* the selectors of the resource.
Stored(config) ==
    LET test == TestSpec[config.content] IN
    IF config.agent = Nil THEN test ELSE Assign(Unassigned(test), config.agent)
-----------------------------------------------------------------------------
Selectors(test) ==
    /\ \A p, q \in test.node : p = q
    /\ \A p \in test.node : p.dollar \in Dollars
    /\ \A key \in DOMAIN test.podLabelSelector : test.podLabelSelector[key].dollar \in Dollars

ASSUME SelectorAssumption ==
    \A c \in Contents : Selectors(TestSpec[c]) /\ Kind[c] = KindOf(TestSpec[c]) /\ Fits[c] = FitsOf(TestSpec[c])

ASSUME PodLabelAssumption == \A a \in Agents : SpecialKeys \cap DOMAIN AgentConfig[a].podLabels = {}

\* An agent runs a test only if the selectors stored with the config it runs select it:
\* what SyncSyntestPluginConfigs asks of IsAgentValidForSynTest, which the controller
\* asked of the resource's selectors before it wrote them.
RunsOnlyWhereSelected ==
    \A a \in Agents : running[a] # Nil => IsAgentValidForSynTest(a, Stored(running[a].config.config))
=============================================================================
