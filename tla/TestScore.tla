----------------------------- MODULE TestScore ------------------------------
(***************************************************************************)
(* What a test plugin that checks several targets promises of one run: the *)
(* marks it reports are the sum of exactly one evaluation of every target, *)
(* and it reports them.  Nothing is said of how the targets are shared out *)
(* or of the order in which they are evaluated, nor of what an evaluation  *)
(* gives, other than that it is at most what the target is worth.          *)
(***************************************************************************)
EXTENDS Integers

CONSTANTS
    Targets,     \* what the test checks
    TargetMarks  \* the marks one target is worth

VARIABLES
    pending,   \* the targets that are not scored yet
    total,     \* the marks so far
    reported   \* has the test answered?

svars == <<pending, total, reported>>

ScoreInit == pending = Targets /\ total = 0 /\ reported = FALSE

Evaluate(t) ==
    /\ t \in pending /\ pending' = pending \ {t}
    /\ \E m \in 0..TargetMarks : total' = total + m
    /\ UNCHANGED reported

Report ==
    /\ pending = {} /\ ~reported /\ reported' = TRUE
    /\ UNCHANGED <<pending, total>>

ScoreNext == Report \/ \E t \in Targets : Evaluate(t)

ScoreSpec == ScoreInit /\ [][ScoreNext]_svars
=============================================================================
