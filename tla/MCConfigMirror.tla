--------------------------- MODULE MCConfigMirror ---------------------------
(* Instances of ConfigMirror for TLC: c1 and c2 run on every agent that    *)
(* fits, c3 is assigned to one, c4 asks for a node and a pod ('$' twice).  *)
EXTENDS ConfigMirror

CONSTANTS c1, c2, c3, c4, a1, a2

MCKind == [c \in Contents |-> IF c = c3 THEN "assigned" ELSE IF c = c4 THEN "both" ELSE "multiple"]
MCFits == [c \in Contents |-> IF c = c2 THEN {a1} ELSE Agents]
=============================================================================
