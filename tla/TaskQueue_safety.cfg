SPECIFICATION Spec
CONSTANTS
    a = a
    b = b
    c = c
    w1 = w1
    w2 = w2
    p1 = p1
    p2 = p2
    f1 = f1
    f2 = f2
    Tasks = {a, b, c}
    Threads = {w1, w2}
    Workers = {w1, w2}
    Pids = {p1, p2}
    PidReuse = TRUE
    Lanes = {"strategy", "adapter", "general"}
    Fps = {f1, f2}
    FpOf <- MCFpOf
    LaneOf <- MCLaneOf
    Priority <- MCPriority
    LateIdentity = {c}
    Legacy = {a, b}
    MaxTokens = 3
    NoFp = NoFp
    Nobody = Nobody
    NoPid = NoPid
    NoTask = NoTask
SYMMETRY Symmetry
INVARIANTS TypeOK LiveOwnerKeepsClaim OneActivePerWork
