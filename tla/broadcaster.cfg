CONSTANTS
    Chans = {r1, r2}
    PubSize = 2
    ChanSize <- MCChanSize
    MaxRuns = 4
SPECIFICATION FairBroadcasterSpec
CHECK_DEADLOCK FALSE
INVARIANT BroadcastOrder
PROPERTIES FeedImplemented RequestsServed StopReturns
