------------------------ MODULE PluginLifecycleProofs ------------------------
(***************************************************************************)
(* The safety properties of PluginLifecycle, for every set of policies and *)
(* every bound, and the range of the back-off for every number of restarts.*)
(***************************************************************************)
EXTENDS PluginLifecycle, TLAPS

\* Where a test is under way that has not been performed.
Started == {"connect", "initialise", "perform"}

\* The inductive strengthening of LastTestOnly: a test under way counts already.
LastInv == Done => performed + (IF spc \in Started THEN 1 ELSE 0) <= cancelledAt + 1

\* The test is deleted only after its routine has returned, and the bounds are kept.
Progress ==
    /\ manager = "deleted" => spc = "returned"
    /\ spc = "begin" => s.restarts < MaxRestarts
    /\ spc \in Started => performed < MaxTests

LifecycleInv ==
    /\ LifecycleTypeOK /\ LastInv /\ StateFollowsRoutine
    /\ ProcessKilled /\ EveryRunPublished /\ Progress

\* A state built from its fields is a plugin state.
LEMMA PluginStateType ==
    ASSUME NEW status \in Statuses, NEW msg \in Messages, NEW restarts \in -1..MaxRestarts
    PROVE  [status |-> status, msg |-> msg, restarts |-> restarts] \in PluginStates
BY DEF PluginStates

\* The initial state satisfies the invariant.
LEMMA LifecycleInitInv == LifecycleInit => LifecycleInv
<1> SUFFICES ASSUME LifecycleInit PROVE LifecycleInv
  OBVIOUS
<1>1. /\ policy \in Policies /\ manager = "started" /\ spc = "loop" /\ s = pluginState
      /\ processes = 0 /\ performed = 0 /\ published = 0 /\ stranded = 0 /\ cancelledAt = 0
  BY Zenon DEF LifecycleInit
<1>2. s = [status |-> "unknown", msg |-> "", restarts |-> -1]
  BY Zenon DEF LifecycleInit
<1>3. -1 \in -1..MaxRestarts /\ 0 \in 0..MaxTests /\ 0 \in 0..MaxStranded /\ 0 \in 0..(MaxStranded + 1)
  BY CountAssumption
<1>4. "unknown" \in Statuses /\ "" \in Messages
  BY DEF Statuses, Messages
<1>5. s \in PluginStates
  BY <1>2, <1>3, <1>4, PluginStateType
<1>6. spc \in RoutineSteps /\ spc \notin Testing
  BY <1>1 DEF RoutineSteps, Testing
<1>7. LifecycleTypeOK
  BY <1>1, <1>3, <1>5, <1>6, Zenon DEF LifecycleTypeOK
<1>8. LastInv /\ StateFollowsRoutine
  BY <1>1 DEF LastInv, Done, StateFollowsRoutine
<1>9. ProcessKilled /\ Progress
  BY <1>1, <1>6 DEF ProcessKilled, Progress, Started
<1>10. EveryRunPublished
  BY <1>1 DEF EveryRunPublished
<1> QED
  BY <1>7, <1>8, <1>9, <1>10 DEF LifecycleInv

\* The steps inside Run leave the state and the manager alone.
LEMMA RunStepInv ==
    ASSUME LifecycleInv,
           \/ Trigger \/ RunReturns \/ ConnectWithPlugin \/ Initialise \/ PerformTest
           \/ PublishTestRun \/ Finish
    PROVE  LifecycleInv'
<1> USE DEF LifecycleInv, InRun, Move
<1>1. UNCHANGED <<policy, manager, s, backOff, pluginState, cancelledAt>>
  BY DEF Trigger, RunReturns, ConnectWithPlugin, Initialise, PerformTest, PublishTestRun, Finish
<1>2. /\ spc \in Testing \cup {"select", "connect"}
      /\ spc' \in Testing \cup {"select", "connect", "failed", "exited"}
  BY DEF Trigger, RunReturns, ConnectWithPlugin, Initialise, PerformTest, PublishTestRun, Finish,
         Testing
<1>t. /\ processes \in 0..(MaxStranded + 1) /\ stranded \in 0..MaxStranded
      /\ performed \in 0..MaxTests /\ published \in 0..MaxTests /\ cancelledAt \in 0..MaxTests
  BY DEF LifecycleTypeOK
<1>3. ProcessKilled' /\ stranded' \in 0..MaxStranded
  <2> USE DEF ProcessKilled, Testing
  <2>1. CASE Trigger \/ RunReturns
    BY <2>1, <1>t DEF Trigger, RunReturns
  <2>2. CASE ConnectWithPlugin
    BY <2>2, <1>t, CountAssumption DEF ConnectWithPlugin
  <2>3. CASE Initialise
    BY <2>3, <1>t DEF Initialise, Kill
  <2>4. CASE PerformTest
    BY <2>4, <1>t DEF PerformTest
  <2>5. CASE PublishTestRun
    BY <2>5, <1>t DEF PublishTestRun, Kill
  <2>6. CASE Finish
    BY <2>6, <1>t DEF Finish, Kill
  <2> QED
    BY <2>1, <2>2, <2>3, <2>4, <2>5, <2>6
<1>p. processes' \in 0..(MaxStranded + 1)
  <2>1. processes' = stranded' + 1 \/ processes' = stranded' + 0
    <3>1. CASE spc' \in Testing
      BY <1>3, <3>1 DEF ProcessKilled
    <3>2. CASE spc' \notin Testing
      BY <1>3, <3>2 DEF ProcessKilled
    <3> QED BY <3>1, <3>2
  <2> QED BY <1>3, <2>1, CountAssumption
<1>4. EveryRunPublished' /\ Progress' /\ performed' \in 0..MaxTests /\ published' \in 0..MaxTests
  BY CountAssumption, <1>t
     DEF Trigger, RunReturns, ConnectWithPlugin, Initialise, PerformTest, PublishTestRun, Finish,
         EveryRunPublished, Progress, Started
<1>5. LifecycleTypeOK'
  BY <1>1, <1>2, <1>3, <1>p, <1>4 DEF LifecycleTypeOK, RoutineSteps
<1>6. LastInv'
  <2>1. CASE Trigger
    BY <2>1, <1>1 DEF Trigger, LastInv, Done
  <2>2. CASE PerformTest
    BY <2>2, <1>1, <1>t DEF PerformTest, LastInv, Done, Started
  <2>3. CASE RunReturns \/ ConnectWithPlugin \/ Initialise \/ PublishTestRun \/ Finish
    <3>1. performed' = performed /\ (spc' \in Started => spc \in Started)
      BY <2>3 DEF RunReturns, ConnectWithPlugin, Initialise, PublishTestRun, Finish, Started
    <3> QED BY <3>1, <1>1, <1>t DEF LastInv, Done
  <2> QED BY <2>1, <2>2, <2>3
<1>7. StateFollowsRoutine'
  BY <1>1 DEF StateFollowsRoutine
<1> QED
  BY <1>3, <1>4, <1>5, <1>6, <1>7

\* The steps of StartPlugin around Run.
LEMMA StartPluginStepInv ==
    ASSUME LifecycleInv, Loop \/ Begin \/ RunReturned \/ BackOff
    PROVE  LifecycleInv'
<1> USE DEF LifecycleInv, Move, ParseConfig
<1>1. UNCHANGED <<policy, manager, processes, performed, published, stranded, cancelledAt>>
  BY DEF Loop, Begin, RunReturned, BackOff, runVars
<1>2. /\ spc \in {"loop", "begin", "failed", "exited", "backOff"}
      /\ spc' \in {"loop", "begin", "select", "failed", "backOff", "returned"}
  BY DEF Loop, Begin, RunReturned, BackOff
<1>3. manager # "deleted" /\ pluginState = s /\ s \in PluginStates /\ s.restarts \in -1..MaxRestarts
  BY <1>2 DEF Progress, StateFollowsRoutine, LifecycleTypeOK, PluginStates
<1>4. ProcessKilled'
  BY <1>1, <1>2 DEF ProcessKilled, Testing
<1>l. LastInv'
  BY <1>1, <1>2 DEF LastInv, Done, Started
<1>5. EveryRunPublished'
  BY <1>1, <1>2 DEF EveryRunPublished
<1>6. spc' \in RoutineSteps
  BY <1>2 DEF RoutineSteps
<1>7. s' \in PluginStates /\ pluginState' = s'
  <2>1. CASE Loop
    BY <2>1, <1>3 DEF Loop
  <2>2. CASE Begin
    <3>1. s.restarts + 1 \in -1..MaxRestarts
      BY <2>2, <1>3, CountAssumption DEF Begin, Progress
    <3>2. "running" \in Statuses /\ "started" \in Messages
      BY DEF Statuses, Messages
    <3> QED
      BY <2>2, <3>1, <3>2, PluginStateType DEF Begin
  <2>3. CASE RunReturned
    <3>1. PICK st \in {"restarting", "error", "notRunning"}, m \in {"error", "exited"},
               r \in {s.restarts, 0} :
             s' = [status |-> st, msg |-> m, restarts |-> r]
      BY <2>3 DEF RunReturned
    <3>2. st \in Statuses /\ m \in Messages
      BY DEF Statuses, Messages
    <3>3. r \in -1..MaxRestarts
      BY <1>3, CountAssumption
    <3>4. s' \in PluginStates
      BY <3>1, <3>2, <3>3, PluginStateType
    <3>5. pluginState' = s'
      BY <2>3 DEF RunReturned
    <3> QED
      BY <3>4, <3>5
  <2>4. CASE BackOff
    BY <2>4, <1>3 DEF BackOff
  <2> QED
    BY <2>1, <2>2, <2>3, <2>4
<1>8. Progress'
  BY <1>1, <1>2, <1>3 DEF Progress, Started, Loop, Begin, RunReturned, BackOff
<1>9. LifecycleTypeOK'
  BY <1>1, <1>6, <1>7 DEF LifecycleTypeOK
<1>10. StateFollowsRoutine'
  BY <1>1, <1>3, <1>7 DEF StateFollowsRoutine
<1> QED
  BY <1>4, <1>l, <1>5, <1>8, <1>9, <1>10

\* The steps of StopAndDeleteSynTest.
LEMMA ManagerStepInv ==
    ASSUME LifecycleInv, Cancel \/ DeletePluginState
    PROVE  LifecycleInv'
<1> USE DEF LifecycleInv
<1>1. UNCHANGED <<policy, spc, s, processes, performed, published, stranded>>
  BY DEF Cancel, DeletePluginState, runVars
<1>2. ProcessKilled' /\ EveryRunPublished'
  BY <1>1 DEF ProcessKilled, EveryRunPublished
<1>c. cancelledAt' \in 0..MaxTests /\ LastInv'
  <2>1. performed \in 0..MaxTests /\ cancelledAt \in 0..MaxTests
    BY DEF LifecycleTypeOK
  <2>2. CASE Cancel
    BY <2>1, <2>2, <1>1 DEF Cancel, LastInv
  <2>3. CASE DeletePluginState
    BY <2>1, <2>3, <1>1 DEF DeletePluginState, LastInv, Done, runVars
  <2> QED BY <2>2, <2>3
<1>3. Progress' /\ StateFollowsRoutine'
  BY <1>1 DEF Cancel, DeletePluginState, Progress, StateFollowsRoutine
<1>4. LifecycleTypeOK'
  BY <1>1, <1>c DEF LifecycleTypeOK, Cancel, DeletePluginState
<1> QED
  BY <1>2, <1>c, <1>3, <1>4

\* LifecycleInv is inductive: what StartPlugin, Run and StopAndDeleteSynTest do keeps it.
THEOREM LifecycleInvariant == LifecycleSpec => []LifecycleInv
<1>1. LifecycleInv /\ [LifecycleNext]_lvars => LifecycleInv'
  <2> SUFFICES ASSUME LifecycleInv, [LifecycleNext]_lvars PROVE LifecycleInv'
    OBVIOUS
  <2>1. CASE UNCHANGED lvars
    BY <2>1 DEF lvars, LifecycleInv, LifecycleTypeOK, LastInv, Done, StateFollowsRoutine,
                ProcessKilled, EveryRunPublished, Progress
  <2>2. CASE LifecycleNext
    BY <2>2, RunStepInv, StartPluginStepInv, ManagerStepInv DEF LifecycleNext, RoutineStep
  <2> QED
    BY <2>1, <2>2
<1> QED
  BY <1>1, LifecycleInitInv, PTL DEF LifecycleSpec

\* A cancelled routine performs at most the test under way (Run's check of the context
\* after each trigger, StartPlugin's before each restart), for any policies and bounds.
THEOREM NoTestAfterCancel == LifecycleSpec => []LastTestOnly
<1>1. LifecycleInv => LastTestOnly
  BY DEF LifecycleInv, LastInv, LastTestOnly, LifecycleTypeOK
<1> QED
  BY <1>1, LifecycleInvariant, PTL

\* A deleted test's state does not come back (StopAndDeleteSynTest against StartPlugin).
THEOREM DeletedStateStaysDeleted == LifecycleSpec => []StateFollowsRoutine
<1>1. LifecycleInv => StateFollowsRoutine
  BY DEF LifecycleInv
<1> QED
  BY <1>1, LifecycleInvariant, PTL

\* A performed test is published exactly once (runTest), whatever happens to it.
THEOREM EveryRunIsPublished == LifecycleSpec => []EveryRunPublished
<1>1. LifecycleInv => EveryRunPublished
  BY DEF LifecycleInv
<1> QED
  BY <1>1, LifecycleInvariant, PTL

\* No plugin process outlives the test it was started for (testPlugin's deferred Kill); the
\* only ones left are those of connects that failed after the process was started.
THEOREM NoProcessLeft == LifecycleSpec => []ProcessKilled
<1>1. LifecycleInv => ProcessKilled
  BY DEF LifecycleInv
<1> QED
  BY <1>1, LifecycleInvariant, PTL
-----------------------------------------------------------------------------
(* The back-off *)

\* The powers of two the back-off is computed with are positive, and from the fourth on
\* at least 16.
LEMMA Powers == \A k \in 0..29 : 2 ^ k \in Nat /\ 2 ^ k >= 1 /\ (k >= 4 => 2 ^ k >= 16)
<1> SUFFICES ASSUME NEW k \in 0..29 PROVE 2 ^ k \in Nat /\ 2 ^ k >= 1 /\ (k >= 4 => 2 ^ k >= 16)
  OBVIOUS
<1>0. CASE k = 0 BY <1>0
<1>1. CASE k = 1 BY <1>1
<1>2. CASE k = 2 BY <1>2
<1>3. CASE k = 3 BY <1>3
<1>4. CASE k = 4 BY <1>4
<1>5. CASE k = 5 BY <1>5
<1>6. CASE k = 6 BY <1>6
<1>7. CASE k = 7 BY <1>7
<1>8. CASE k = 8 BY <1>8
<1>9. CASE k = 9 BY <1>9
<1>10. CASE k = 10 BY <1>10
<1>11. CASE k = 11 BY <1>11
<1>12. CASE k = 12 BY <1>12
<1>13. CASE k = 13 BY <1>13
<1>14. CASE k = 14 BY <1>14
<1>15. CASE k = 15 BY <1>15
<1>16. CASE k = 16 BY <1>16
<1>17. CASE k = 17 BY <1>17
<1>18. CASE k = 18 BY <1>18
<1>19. CASE k = 19 BY <1>19
<1>20. CASE k = 20 BY <1>20
<1>21. CASE k = 21 BY <1>21
<1>22. CASE k = 22 BY <1>22
<1>23. CASE k = 23 BY <1>23
<1>24. CASE k = 24 BY <1>24
<1>25. CASE k = 25 BY <1>25
<1>26. CASE k = 26 BY <1>26
<1>27. CASE k = 27 BY <1>27
<1>28. CASE k = 28 BY <1>28
<1>29. CASE k = 29 BY <1>29
<1> QED
  BY <1>0, <1>1, <1>2, <1>3, <1>4, <1>5, <1>6, <1>7, <1>8, <1>9, <1>10, <1>11, <1>12, <1>13, <1>14,
     <1>15, <1>16, <1>17, <1>18, <1>19, <1>20, <1>21, <1>22, <1>23, <1>24, <1>25, <1>26, <1>27, <1>28, <1>29

\* Five minutes divided by 16 or more is less than 5^10, both in units of 2^11 ns.
LEMMA FiveMinutesDivided ==
  ASSUME NEW d \in Nat, d >= 16
  PROVE  FiveMinutes \div d \in Nat /\ FiveMinutes \div d < FivePow10
<1> DEFINE q == FiveMinutes \div d
<1>1. q \in Nat /\ FiveMinutes % d \in Nat /\ FiveMinutes = d * q + (FiveMinutes % d)
  BY DEF FiveMinutes
<1> HIDE DEF q
<1>2. 16 * q <= d * q /\ d * q \in Nat
  BY <1>1
<1>3. 16 * q <= FiveMinutes
  BY <1>1, <1>2 DEF FiveMinutes
<1>4. q < FivePow10
  BY <1>1, <1>3 DEF FiveMinutes, FivePow10
<1> QED BY <1>1, <1>4 DEF q

\* Up to four restarts the back-off is the plain product.
LEMMA FirstBackOffs == ASSUME NEW n \in 0..4 PROVE 10 * 2 ^ n \in 1..300
<1>0. CASE n = 0 BY <1>0
<1>1. CASE n = 1 BY <1>1
<1>2. CASE n = 2 BY <1>2
<1>3. CASE n = 3 BY <1>3
<1>4. CASE n = 4 BY <1>4
<1> QED BY <1>0, <1>1, <1>2, <1>3, <1>4

\* From the fifth restart on it is capped, or its product has overflowed to something
\* negative or to nothing.
LEMMA LaterBackOffs ==
  ASSUME NEW n \in Nat, n >= 5
  PROVE  ExceedsFiveMinutes(n) \/ Negative(n) \/ Significand(n) = 0
<1>1. CASE n <= 30
  <2>1. Significand(n) = FivePow10
    BY <1>1 DEF Significand
  <2>2. n - 1 \in 0..29 /\ n - 1 >= 4
    BY <1>1
  <2>3. 2 ^ (n - 1) \in Nat /\ 2 ^ (n - 1) >= 16
    BY <2>2, Powers
  <2>4. FiveMinutes \div 2 ^ (n - 1) < FivePow10 /\ FiveMinutes \div 2 ^ (n - 1) \in Nat
    BY <2>3, FiveMinutesDivided
  <2> QED BY <1>1, <2>1, <2>4 DEF ExceedsFiveMinutes, FivePow10
<1>2. CASE n > 30 /\ n < 54
  <2>1. 54 - n \in 0..29
    BY <1>2
  <2>2. 2 ^ (54 - n) \in Nat /\ 2 ^ (54 - n) >= 1
    BY <2>1, Powers
  <2>3. Significand(n) \in Nat
    BY <1>2, <2>2 DEF Significand, FivePow10
  <2>4. FiveMinutes \div 2 ^ 29 = 0
    <3>1. 2 ^ 29 = 536870912
      OBVIOUS
    <3> QED BY <3>1 DEF FiveMinutes
  <2> QED BY <1>2, <2>3, <2>4 DEF ExceedsFiveMinutes
<1>3. CASE n >= 54
  BY <1>3 DEF Significand
<1> QED BY <1>1, <1>2, <1>3

\* The back-off is between a second and five minutes, whatever the number of restarts: the
\* overflows of the product, and the guard against them, are all met.
THEOREM BackOffInRange == ASSUME NEW restarts \in Int PROVE BackOffTime(restarts) \in 1..300
<1> DEFINE n == IF restarts > 0 THEN restarts ELSE 0
<1>1. n \in Nat
  OBVIOUS
<1>2. BackOffTime(restarts) \in {300, 1}
      \/ (BackOffTime(restarts) = 10 * 2 ^ n /\ ~(ExceedsFiveMinutes(n) \/ Negative(n) \/ Significand(n) = 0))
  BY DEF BackOffTime
<1> HIDE DEF n
<1>3. CASE n >= 5
  BY <1>1, <1>2, <1>3, LaterBackOffs
<1>4. CASE n < 5
  <2>1. n \in 0..4
    BY <1>1, <1>4
  <2>2. 10 * 2 ^ n \in 1..300
    BY <2>1, FirstBackOffs
  <2> QED BY <1>2, <2>2
<1> QED BY <1>1, <1>3, <1>4

\* StartPlugin never backs off for less than a second or more than five minutes, for any
\* policies and however often the plugin was restarted.
THEOREM BackOffAlwaysBounded == LifecycleSpec => []BackOffBounded
<1>1. LifecycleInit => BackOffBounded
  BY DEF LifecycleInit, BackOffBounded
<1>2. LifecycleInv /\ BackOffBounded /\ [LifecycleNext]_lvars => BackOffBounded'
  <2> SUFFICES ASSUME LifecycleInv, BackOffBounded, [LifecycleNext]_lvars, spc' = "backOff"
               PROVE  backOff' \in 1..300
    BY DEF BackOffBounded
  <2>1. CASE RunReturned
    <3>1. s.restarts \in Int
      BY CountAssumption DEF LifecycleInv, LifecycleTypeOK, PluginStates
    <3>2. PICK restarts \in {s.restarts, 0} : backOff' = BackOffTime(restarts)
      BY <2>1 DEF RunReturned
    <3> QED BY <3>1, <3>2, BackOffInRange
  <2>2. CASE Cancel \/ DeletePluginState \/ UNCHANGED lvars
    BY <2>2 DEF Cancel, DeletePluginState, lvars, BackOffBounded
  <2> QED
    BY <2>1, <2>2 DEF LifecycleNext, RoutineStep, Loop, Begin, ParseConfig, BackOff, Trigger, RunReturns,
                      ConnectWithPlugin, Initialise, PerformTest, PublishTestRun, Finish, Move
<1> QED BY <1>1, <1>2, LifecycleInvariant, PTL DEF LifecycleSpec
=============================================================================
