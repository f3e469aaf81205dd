SPECIFICATION SpecConnect
CONSTANTS
    H3Targets = 2
    H2Targets = 1
    Limit = 2
    H3Limit = 2
    H2Limit = 1
    Slots = 1
    Outcomes = {"ok", "retry", "pin", "network", "stop"}
    Candidates = {c1, c2, c3}
    Preferred = {c1, c2}
INVARIANT SocketsAreOwned
INVARIANT WorstFailureReported
PROPERTY ConnectEnds
