CONSTANTS
    c1 = c1
    c2 = c2
    c3 = c3
    a1 = a1
    a2 = a2
    Nil = Nil
    Contents = {c3}
    Agents = {a1, a2}
    Kind <- MCKind
    Fits <- MCFits
    TestSpec <- MCTestSpec
    AgentConfig <- MCAgentConfig
    MaxGen = 1
    MaxFaults = 0
    MaxAgentChanges = 1
SPECIFICATION SettledFleetSpec
PROPERTY EventuallySingleAgent
CHECK_DEADLOCK FALSE
