CONSTANTS
    c1 = c1
    c2 = c2
    c3 = c3
    c4 = c4
    a1 = a1
    a2 = a2
    Nil = Nil
    Contents = {c1}
    Agents = {a1}
    Kind <- MCKind
    Fits <- MCFits
    MaxGen = 2
    MaxFaults = 1
    MaxAgentChanges = 1
SPECIFICATION FairSpec
PROPERTY DeletedLeavesStore
