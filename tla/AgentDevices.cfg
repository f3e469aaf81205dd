CONSTANTS
    e1 = e1  e2 = e2  e3 = e3  o1 = o1  o2 = o2  alice = alice  bob = bob
    Operations = {o1}
    Engines = {e1, e2}
    Account <- MCAccount
    Plans <- PlainPlan
    ProxyPlans <- PlainPlan
    Requests = {"lease", "crash"}
    MaxFaults = 1
    MaxRestarts = 1
    MaxEpoch = 1
    MaxLeases = 2
SPECIFICATION FairSpec
INVARIANT NoReuseDuringRemoval
PROPERTY OwnersDeviceStays
PROPERTY DevicesSettle
