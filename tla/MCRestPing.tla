----------------------------- MODULE MCRestPing -----------------------------
\* Two agents run the test n1, one of them n2 as well.
EXTENDS RestPing

CONSTANTS p1, p2, p3, n1, n2

MCNameOf == [p \in Plugins |-> IF p = p3 THEN n2 ELSE n1]
\* No MaxMarks, no marks, so few that they are rounded to none, half of them, so many that
\* they are rounded to all, all.
MCResults == {[marks |-> 0, max |-> 0], [marks |-> 0, max |-> 2], [marks |-> 1, max |-> 40],
              [marks |-> 1, max |-> 2], [marks |-> 39, max |-> 40], [marks |-> 2, max |-> 2]}
=============================================================================
