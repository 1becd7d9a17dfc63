CONSTANTS
    w1 = w1
    w2 = w2
    r1 = r1
    Workers = {w1}
    Reconcilers = {r1}
    Owner <- SharedOwner
    Sigs = {1}
    MaxJobs = 3
    MaxTxs = 1
    AttemptLimit = 2
    MaxAttempts = 2
    MaxSequence = 9
    Changes = {"metadata_version_committed", "lifecycle_changed", "handoff_checkpointed", "publication_removed"}
    Lifecycles = {"in_progress", "closed"}
    Disturbances = {"answer_lost"}
    LeasesOutlastAttempts = FALSE
SPECIFICATION Spec
INVARIANTS
    TypeOK
    QueueIsWellFormed
    DatabaseFollowsFinality
    SiteFollowsDatabase
PROPERTIES
    ImplementsCommittedHistory
