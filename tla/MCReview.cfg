SPECIFICATION Spec
CONSTANTS
    m1 = m1
    Moderators = {m1}
    Redacting = {m1}
    Starts <- FromAny
    MaxPosts = 3
    MaxLoads = 1
    MaxFaults = 1
CHECK_DEADLOCK FALSE
INVARIANTS
    ReviewsAreInSight
    ApprovalIsOneDerivative
