CONSTANTS
    None = None
    k1 = k1
    k2 = k2
    Threads = {t1, t2}
    Components = {1}
    Reports <- MCReports
    Contexts <- SessionContexts
    Keys = {k1, k2}
    Timeout = 1
    MaxTime = 2
    MaxVersion = 2
SYMMETRY MCSymmetry
SPECIFICATION Spec
PROPERTIES ObservationsAdvance
