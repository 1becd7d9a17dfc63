CONSTANTS
    u1 = u1
    c1 = c1
    k1 = k1
    r1 = r1
    o1 = o1
    w1 = w1
    w2 = w2
    p1 = p1
    Uploads = {u1}
    MaxTries = 2
    Contents = {c1}
    MaxSubmissions = 2
    DerivativeKeys = {k1}
    Renders = {r1}
    Operators = {o1}
    Workers = {w1, w2}
    Sweepers = {p1}
    AttemptLimit = 2
    MaxAttempts = 2
    MaxFaults = 1
    Faults = {"crash", "transaction", "storage", "write_answer", "commit_answer"}
SPECIFICATION FairSpec
CHECK_DEADLOCK FALSE
INVARIANTS
    StoreMatchesRows
    DestinationHasOneWriter
    MediaRowsAgree
PROPERTIES
    NothingIsRevived
    ExpiredMediaIsDeleted
    PromotionSettles
