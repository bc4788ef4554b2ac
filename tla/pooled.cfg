SPECIFICATION PooledSpec
CONSTANTS
    NJobs = 3
    JobMarks = 2
    Workers = {w1, w2}
    Plugins <- AllPlugins
    Configs <- MixedConfigs
CHECK_DEADLOCK FALSE
INVARIANTS RoomForResults ScoreMeansMatch RetriesUsedUp
PROPERTIES ScoreImplemented PoolDrains
