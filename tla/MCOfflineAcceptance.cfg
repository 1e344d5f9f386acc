CONSTANTS
    None = None
    Stages = 2
    Gap = 2
    Limit = 3
    MaxDelay = 1
SPECIFICATION Spec
INVARIANTS PassedWasOffline VerdictHonest
PROPERTIES RunEnds
