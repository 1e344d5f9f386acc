CONSTANTS
    None = None
    k1 = k1
    k2 = k2
    Threads = {t1, t2}
    Components = {1}
    Reports <- MCReports
    Contexts <- FewContexts
    Keys = {k1, k2}
    Timeout = 1
    MaxTime = 1
    MaxVersion = 2
SYMMETRY MCSymmetry
SPECIFICATION Spec
INVARIANTS TypeOK ChainCoherent VisibleIsDurable
PROPERTIES KeyBindsInput
