SPECIFICATION FairLifecycleSpec
CONSTANTS
    Nil = Nil
    Policies <- AllPolicies
    MaxRestarts = 64
    MaxTests = 2
    MaxStranded = 2
CHECK_DEADLOCK FALSE
INVARIANTS BackOffBounded LastTestOnly StateFollowsRoutine ProcessKilled EveryRunPublished
PROPERTY StopCompletes
