CONSTANTS
    t1 = t1
    t2 = t2
    ce = ce
    cp = cp
    ct1 = ct1
    ct2 = ct2
    Chans = {ce, cp, ct1, ct2}
    PubSize = 1
    ChanSize <- MCChanSize
    MaxRuns = 0
    Tests = {t1}
    DependsOn <- MCDependsOn
    ChanOf <- MCChanOf
    PromMode = "server"
    MaxEvents = 1
    MaxChanges = 2
SPECIFICATION FairAgentSpec
CHECK_DEADLOCK FALSE
INVARIANTS AgentTypeOK RoutineHasEntry
PROPERTY ShutdownCompletes
