SPECIFICATION FairSpec
CONSTANTS
    admin = admin
    Operators = {admin}
    Roles <- RolesHeld
    Lifecycles = {"in_progress"}
    MaxPosts = 2
    MaxLoads = 1
    MaxFaults = 1
INVARIANTS
    TabsTellTheTruth
PROPERTIES
    KeysAreFinal
    ButtonsComeBack
