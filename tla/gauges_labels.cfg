SPECIFICATION GaugesSpec
CONSTANTS
    Nil = Nil
    Tests = {t1, t2}
    Configs = {"curlIp", "curl"}
    MetricsOf <- MCMetrics
    Names <- AllNames
    CleanName <- MCCleanName
    LabelSets <- OneLabel
    BadTemplate = {"{{"}
    BadName = {"label-1"}
    Reserved = {"__name"}
    BadValue = {"cut"}
    PubSize = 1
    ChanSize = 1
    MaxRuns = 2
    MaxChanges = 3
INVARIANT NeverPanics
SYMMETRY TestSymmetry
CHECK_DEADLOCK FALSE
