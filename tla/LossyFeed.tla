------------------------------ MODULE LossyFeed ------------------------------
(***************************************************************************)
(* What the broadcaster promises the subscribers of test runs: runs are    *)
(* numbered as they are published, and a subscriber sees them in that      *)
(* order.  It may miss runs, but it never goes back to an older one and    *)
(* sees none that was not published.                                       *)
(***************************************************************************)
EXTENDS Naturals

CONSTANT Subscribers

VARIABLES
    sent,   \* how many runs were published
    seen    \* the last run each subscriber has seen

FeedInit == sent = 0 /\ seen = [s \in Subscribers |-> 0]

Send == sent' = sent + 1 /\ UNCHANGED seen

See(s) ==
    /\ \E run \in (seen[s] + 1)..sent : seen' = [seen EXCEPT ![s] = run]
    /\ UNCHANGED sent

FeedNext == Send \/ \E s \in Subscribers : See(s)

FeedSpec == FeedInit /\ [][FeedNext]_<<sent, seen>>
=============================================================================
