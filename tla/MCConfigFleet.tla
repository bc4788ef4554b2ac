---------------------------- MODULE MCConfigFleet ----------------------------
(* Instances of FleetSelection for TLC, with the contents of               *)
(* MCConfigMirror: c1 selects every node, c2 the pods with a label only a1 *)
(* has, c3 asks for one pod of any name.  a1 watches the tests' namespace. *)
EXTENDS FleetSelection

CONSTANTS c1, c2, c3, a1, a2

NoLabels == [key \in {} |-> ""]
MCTestSpec == [c \in Contents |->
    [namespace |-> "ns", labels |-> NoLabels,
     node |-> IF c = c1 THEN {Glob({"n1", "n2"})} ELSE {},
     podLabelSelector |->
         CASE c = c1 -> NoLabels
           [] c = c2 -> [key \in {"app"} |-> Glob({"x"})]
           [] c = c3 -> [key \in {SpecialKeyPodName} |-> Dollar({"p1", "p2"})]]]
MCAgentConfig == [a \in Agents |->
    [matchNamespaces |-> IF a = a1 THEN {"ns"} ELSE {},
     matchTestLabels |-> NoLabels,
     node |-> IF a = a1 THEN "n1" ELSE "n2", namespace |-> "agents",
     pod |-> IF a = a1 THEN "p1" ELSE "p2",
     podLabels |-> [key \in {"app"} |-> IF a = a1 THEN "x" ELSE "y"]]]

MCKind == [c \in Contents |-> IF c = c3 THEN "assigned" ELSE "multiple"]
MCFits == [c \in Contents |-> IF c = c2 THEN {a1} ELSE Agents]
=============================================================================
