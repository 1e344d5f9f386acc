CONSTANTS
    None = None
    Unknown = Unknown
    a1 = a1
    r1 = r1
    h1 = h1
    k1 = k1
    k2 = k2
    k3 = k3
    AircraftIds = {a1}
    Runways = {r1}
    Holds = {h1}
    HoldRunway <- MCHoldRunway
    Routes = {"none", "via"}
    NoRoute = "none"
    Threads = {t1, t2}
    Keys = {k1, k2, k3}
    Tasks <- MCTasks
    Entities <- MCEntities
    MaxVersion = 4
    MaxEvents = 5
    MaxTime = 1
SYMMETRY MCSymmetry
SPECIFICATION Spec
INVARIANTS TypeOK RetryHonoured NotifiedIsDurable
PROPERTIES EffectsAreCurrent OnlyClockIsUncoded
