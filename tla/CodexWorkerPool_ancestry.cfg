SPECIFICATION PoolSpec
CONSTANTS
    a = a
    b = b
    w1 = w1
    w2 = w2
    v1 = v1
    v2 = v2
    p1 = p1
    p2 = p2
    f1 = f1
    f2 = f2
    Tasks = {a}
    Threads = {w1, v1}
    Workers = {w1}
    Verifiers = {v1}
    Pids = {p1, p2}
    PidReuse = TRUE
    Lanes = {"general"}
    Fps = {f1}
    FpOf <- OneFpOf
    LaneOf <- OneLaneOf
    Priority <- OnePriority
    LateIdentity = {}
    Legacy = {}
    MaxTokens = 5
    MaxClaims = 3
    Defer = TRUE
    KeepRepairing = FALSE
    MaxRepairs = 1
    Ancestry = TRUE
    Crashes = FALSE
    Faults = FALSE
    MaxCommits = 4
    NoFp = NoFp
    Nobody = Nobody
    NoPid = NoPid
    NoTask = NoTask
PROPERTIES FailedVerificationIsTerminal
