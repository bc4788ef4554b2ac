SPECIFICATION FairDataSpec
CONSTANTS
    MaxStarts = 1
    MaxRuns = 1
    MaxCrashes = 1
    MaxFaults = 1
INVARIANT DataTypeOK
PROPERTIES StaleRunStatusRemoved RunningTestReported
