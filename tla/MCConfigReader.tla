--------------------------- MODULE MCConfigReader ---------------------------
(* Instances of ConfigReader for TLC, with the contents of MCConfigMirror. *)
EXTENDS ConfigReader

CONSTANTS c1, c2, c3, c4, a1, a2

MCKind == [c \in Contents |-> IF c = c3 THEN "assigned" ELSE IF c = c4 THEN "both" ELSE "multiple"]
MCFits == [c \in Contents |-> IF c = c2 THEN {a1} ELSE Agents]
=============================================================================
