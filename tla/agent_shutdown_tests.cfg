CONSTANTS
    t1 = t1
    t2 = t2
    ce = ce
    cp = cp
    ct1 = ct1
    ct2 = ct2
    Chans = {ce, cp, ct1, ct2}
    PubSize = 1
    ChanSize <- MCChanSize
    MaxRuns = 2
    Tests = {t2}
    DependsOn <- MCDependsOn
    ChanOf <- MCChanOf
    PromMode = "off"
    MaxEvents = 0
    MaxChanges = 1
SPECIFICATION FairAgentSpec
CHECK_DEADLOCK FALSE
INVARIANT BroadcasterOutlivesClients
PROPERTY ShutdownCompletes
