CONSTANTS
    w1 = w1
    w2 = w2
    r1 = r1
    Workers = {w1}
    Reconcilers = {}
    Owner <- SharedOwner
    Sigs = {1, 2}
    MaxJobs = 3
    MaxTxs = 1
    AttemptLimit = 2
    MaxAttempts = 2
    MaxSequence = 9
    Changes = {"lifecycle_changed", "metadata_version_committed"}
    Lifecycles = {"closed"}
    Disturbances = {"crash", "switch"}
    LeasesOutlastAttempts = TRUE
SPECIFICATION FairSpec
PROPERTIES
    JobsSettle
