SPECIFICATION FairRestartSpec
CONSTANTS
    Agents = {a1, a2, a3}
    Clients = {f}
    Scripts = {s1, s2}
    MaxTries = 1
    MaxFaults = 1
    NoAgent = NoAgent
CHECK_DEADLOCK FALSE
INVARIANTS RestartTypeOK OldAgentsGone
PROPERTIES ServiceReturns
