SPECIFICATION FairDataSpec
CONSTANTS
    MaxStarts = 1
    MaxRuns = 1
    MaxCrashes = 0
    MaxFaults = 0
PROPERTY LiveDataKept
