SPECIFICATION FairPool
CONSTANTS
    a = a
    b = b
    w1 = w1
    w2 = w2
    v1 = v1
    v2 = v2
    p1 = p1
    p2 = p2
    f1 = f1
    f2 = f2
    Tasks = {a}
    Threads = {w1, w2, v1, v2}
    Workers = {w1, w2}
    Verifiers = {v1, v2}
    Pids = {p1, p2}
    PidReuse = TRUE
    Lanes = {"general"}
    Fps = {f1}
    FpOf <- OneFpOf
    LaneOf <- OneLaneOf
    Priority <- OnePriority
    LateIdentity = {}
    Legacy = {}
    MaxTokens = 5
    MaxClaims = 2
    Defer = TRUE
    KeepRepairing = FALSE
    MaxRepairs = 1
    Ancestry = FALSE
    Crashes = FALSE
    Faults = FALSE
    MaxCommits = 4
    NoFp = NoFp
    Nobody = Nobody
    NoPid = NoPid
    NoTask = NoTask
INVARIANTS PromotedCodeIsInMain
PROPERTIES FailedVerificationIsTerminal EveryCommitIsJudged EveryVerificationEnds EveryProposalHasOneTrial
