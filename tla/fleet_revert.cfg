CONSTANTS
    c1 = c1
    c2 = c2
    c3 = c3
    a1 = a1
    a2 = a2
    Nil = Nil
    Contents = {c1, c2}
    Agents = {a1}
    Kind <- MCKind
    Fits <- MCFits
    TestSpec <- MCTestSpec
    AgentConfig <- MCAgentConfig
    MaxGen = 3
    MaxFaults = 0
    MaxAgentChanges = 1
SPECIFICATION SettledFleetSpec
PROPERTY FleetSettles
CHECK_DEADLOCK FALSE
