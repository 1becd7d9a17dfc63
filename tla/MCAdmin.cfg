SPECIFICATION FairSpec
CONSTANTS
    Genesis = genesis
    Keys = {genesis, next}
    Subjects = {service}
    Service = service
    Roles = {issuer}
    NoKey = NoKey
    AdminMessages = 2
    Crashes = 1
INVARIANTS
    TrailJustifiesWrites
    NoTransferWhileOpen
    MessagesLandOnce
    TransfersAreProposed
PROPERTIES
    BootstrapCompletes
