CONSTANTS
    None = None
    Scenarios = {scn}
    Clocks <- MCTimes
    SimTimes <- MCSimTimes
    MaxHistory = 6
SPECIFICATION HSpec
INVARIANTS NoUncodedRejection ReplayMatchesLive
PROPERTY Timeline
CHECK_DEADLOCK FALSE
