CONSTANTS
    primary = primary
    secondary = secondary
    Providers = {primary, secondary}
    FalseProviders = {secondary}
    Alterable = {"canonical", "count", "place", "bytes"}
    MaxAltered = 1
    Sigs = {1}
    MaxSequence = 9
    MaxCommits = 2
    Changes = {"metadata_version_committed", "lifecycle_changed", "handoff_checkpointed", "publication_removed"}
    Lifecycles = {"closed"}
SPECIFICATION FairSpec
INVARIANTS
    ConfirmedMeansCommitted
    FalseAlarmsNeedNewCommitments
    PagesAreWhole
PROPERTIES
    RestrictedContentLeaves
