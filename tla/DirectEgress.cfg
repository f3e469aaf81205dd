SPECIFICATION Spec
CONSTANTS
    Pipes = {p1, p2, p3}
    Operations = {"o1", "o2"}
    Requests = {"observe", "prepare", "rollback", "recover"}
    MaxGeneration = 2
    Capacity = 1
CHECK_DEADLOCK FALSE
INVARIANT NoStalePermit
INVARIANT LeaseHasPermit
