SPECIFICATION BudgetSpec
CONSTANTS
    h1 = h1
    h2 = h2
    h3 = h3
    p1 = p1
    p2 = p2
    Holders = {h1, h2, h3}
    Pids = {p1, p2}
    NoPid = NoPid
    Nobody = Nobody
    MaxTokens = 6
    DailyLimit = 2
INVARIANTS LeaseTypeOK AtMostOneInside ClaimsWithinDailyLimit
