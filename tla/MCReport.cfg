CONSTANTS
    b1 = b1
    b2 = b2
    k1 = k1
    k2 = k2
    Browsers = {b1, b2}
    Keys = {k1, k2}
    StaticIntake = TRUE
    RateLimit = 2
    HoursPerDay = 1
    MaxHour = 2
    MaxVersion = 2
    MaxToggles = 1
    MaxLost = 1
    MaxCalls = 1
    MaxRequests = 1
SPECIFICATION FairSpec
CHECK_DEADLOCK FALSE
INVARIANTS
    SessionsAreBounded
    TrackingNeedsTheToken
PROPERTIES
    AcceptedUnderActivePolicy
    ReportingComesBack
