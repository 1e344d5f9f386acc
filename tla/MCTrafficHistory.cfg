CONSTANTS
    None = None
    Unknown = Unknown
    a1 = a1
    a2 = a2
    r1 = r1
    r2 = r2
    h1 = h1
    AircraftIds = {a1, a2}
    Runways = {r1, r2}
    Holds = {h1}
    HoldRunway <- MCHoldRunway
    Routes = {"none", "via"}
    NoRoute = "none"
    Starts <- MCEntities
    MaxAircraftVersion = 4
SYMMETRY MCSymmetry
SPECIFICATION HSpec
INVARIANTS HTypeOK NeverMismatched ReplayFollows ProviderDecidesNothing
PROPERTY LeavesByItself
CHECK_DEADLOCK FALSE
