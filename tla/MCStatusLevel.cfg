CONSTANTS
    None = None
    Requests = {r1}
    Other = other
    Poll = 1
    Deadline = 2
    Latency = 1
    Timeout = 4
    MaxBack = 1
    Dropped = {"INFO"}
SPECIFICATION LevelSpec
INVARIANT ErrorsShow
