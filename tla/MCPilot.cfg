CONSTANTS
    i1 = i1
    i2 = i2
    b1 = b1
    b2 = b2
    k1 = k1
    k2 = k2
    p1 = p1
    Invitations = {i1, i2}
    PolicyScopes = {"intake", "signal"}
    Browsers = {b1, b2}
    Keys = {k1, k2}
    Issues = {p1}
    MaxClicks = 5
    MaxToggles = 1
SPECIFICATION Spec
SYMMETRY PilotSymmetry
CHECK_DEADLOCK FALSE
INVARIANTS
    AccessRowsAgree
    CountIsActiveSignals
PROPERTIES
    SignalChangesAreSanctioned
