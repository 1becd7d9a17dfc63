CONSTANTS
    w1 = w1
    w2 = w2
    r1 = r1
    Workers = {w1, w2}
    Reconcilers = {}
    Owner <- SharedOwner
    Sigs = {1, 2}
    MaxJobs = 2
    MaxTxs = 2
    AttemptLimit = 2
    MaxAttempts = 2
    MaxSequence = 9
    Changes = {"metadata_version_committed", "lifecycle_changed", "publication_removed"}
    Lifecycles = {"closed"}
    Disturbances = {"rollback", "database_fault", "answer_lost", "policy", "switch"}
    LeasesOutlastAttempts = FALSE
SPECIFICATION Spec
SYMMETRY WorkerSymmetry
INVARIANTS
    ChainHoldsQueuePrefix
    DatabaseFollowsFinality
    ConfirmedRowsArePrefix
    BlockedNamesDeadLetter
PROPERTIES
    ImplementsCommittedHistory
