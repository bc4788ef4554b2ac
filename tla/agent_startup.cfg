CONSTANTS
    t1 = t1
    t2 = t2
    ce = ce
    cp = cp
    ct1 = ct1
    ct2 = ct2
    Chans = {ce, cp, ct1, ct2}
    PubSize = 1
    ChanSize <- MCChanSize
    MaxRuns = 0
    Tests = {t1}
    DependsOn <- MCDependsOn
    ChanOf <- MCChanOf
    PromMode = "server"
    MaxEvents = 2
    MaxChanges = 0
SPECIFICATION FairAgentSpec
PROPERTY ShutdownCompletes
CHECK_DEADLOCK FALSE
