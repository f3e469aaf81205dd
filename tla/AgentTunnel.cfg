CONSTANTS
    e1 = e1  e2 = e2  e3 = e3  o1 = o1  o2 = o2  alice = alice  bob = bob
    Operations = {o1}
    Engines = {e1}
    Account <- MCAccount
    Plans <- TunnelPlans
    ProxyPlans <- FinalizedChain
    Requests = {"chain", "lease", "recover", "proxy", "crash", "exit", "reboot"}
    MaxFaults = 1
    MaxRestarts = 1
    MaxEpoch = 1
    MaxLeases = 1
SPECIFICATION Spec
INVARIANT TypeOK
INVARIANT DurablyCovered
INVARIANT CleanIsDurable
INVARIANT KillSwitchFailsClosed
INVARIANT JournalLoads
PROPERTY PumpStopsBeforePolicy
PROPERTY LaterLeaseDisarms
