CONSTANTS
    None = None
    Unpinned = Unpinned
    Broken = Broken
    s1 = s1
    k1 = k1
    k2 = k2
    k3 = k3
    k4 = k4
    k5 = k5
    k6 = k6
    h1 = h1
    Workers = {w1, w2}
    Sessions = {s1}
    Keys = {k1, k2, k4, k5, k6}
    EventIds = {1, 2, 3, 4, 5, 6}
    Scenarios <- MCContents
    Inputs <- MCInputs
    Commands = {}
    MaxEvents = 5
    Tasks <- LifecycleTaskSet
    Times = {0}
    Catalogued = TRUE
SYMMETRY MCSymmetry
SPECIFICATION SSpec
PROPERTIES RefusalReflectsHistory
