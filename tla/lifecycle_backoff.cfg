SPECIFICATION LifecycleSpec
CONSTANTS
    Nil = Nil
    Policies <- AllPolicies
    MaxRestarts = 40
    MaxTests = 1
    MaxStranded = 0
INVARIANT BackOffStaysAtMax
CHECK_DEADLOCK FALSE
