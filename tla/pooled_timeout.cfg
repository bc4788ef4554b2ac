SPECIFICATION PooledSpec
CONSTANTS
    NJobs = 2
    JobMarks = 1
    Workers = {w1}
    Plugins <- HttpOnly
    Configs <- TimeoutConfigs
CHECK_DEADLOCK FALSE
INVARIANT TimedOutRetried
