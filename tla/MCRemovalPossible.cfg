CONSTANTS
    w1 = w1
    w2 = w2
    r1 = r1
    Workers = {w1}
    Reconcilers = {}
    Owner <- SharedOwner
    Sigs = {1}
    MaxJobs = 2
    MaxTxs = 1
    AttemptLimit = 2
    MaxAttempts = 2
    MaxSequence = 9
    Changes = {"metadata_version_committed", "publication_removed"}
    Lifecycles = {}
    Disturbances = {}
    LeasesOutlastAttempts = TRUE
SPECIFICATION Spec
CHECK_DEADLOCK FALSE
INVARIANTS
    RemovalStaysPossible
