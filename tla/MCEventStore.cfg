CONSTANTS
    None = None
    s1 = s1
    s2 = s2
    k1 = k1
    k2 = k2
    k3 = k3
    e1 = e1
    e2 = e2
    e3 = e3
    e4 = e4
    Workers = {w1, w2}
    Sessions = {s1, s2}
    Keys = {k1, k2, k3}
    EventIds = {e1, e2, e3, e4}
    Scenarios <- MCScenarios
    Inputs = {"create", "initialise", "fail", "health"}
    Commands <- MCCommands
    MaxEvents = 4
SPECIFICATION Spec
INVARIANTS AlwaysRecoverable ProjectionCurrent OncePerKey
    DispatchInOrder AcknowledgedIsDurable
PROPERTIES ImplementsLog LockReturned
