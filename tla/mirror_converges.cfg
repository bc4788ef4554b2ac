CONSTANTS
    c1 = c1
    c2 = c2
    c3 = c3
    c4 = c4
    a1 = a1
    a2 = a2
    Nil = Nil
    Contents = {c2, c3, c4}
    Agents = {a1, a2}
    Kind <- MCKind
    Fits <- MCFits
    MaxGen = 2
    MaxFaults = 0
    MaxAgentChanges = 2
SPECIFICATION ReconcilerReaderSpec
INVARIANTS RestMirrored RawNotOlderThanConfig
PROPERTY Converges
CHECK_DEADLOCK FALSE
