SPECIFICATION LedgerSpec
CONSTANTS
    c1 = c1
    c2 = c2
    c3 = c3
    a1 = a1
    a2 = a2
    Calls = {c1, c2, c3}
    Agents = {a1, a2}
    AgentOf <- MCAgentOf
    Autonomous = {c1, c2}
    DayLength = 1
    MaxTime = 2
    Reserve = 2
    Actual = {1, 3}
    CallLimit <- MCCallLimit
    CostLimit <- MCCostLimit
    AttemptLimit = 1
INVARIANTS LedgerTypeOK CallLimitsHold CostLimitsHold EveryCallIsCounted AutonomousCallsAreRationed
PROPERTIES SettledRowsStay
SYMMETRY Symmetry
