SPECIFICATION SpecBudget
CONSTANTS
    Readers = {r1}
    Writers = {w1}
    Admitters = {a1}
    Droppers = {d1}
    WriteUnits = 2
    AdmitUnits = 1
    Headroom = 1
    Total = 4
    IdleCap = 2
    Hold = 2
CHECK_DEADLOCK FALSE
INVARIANT BudgetIsAccounted
INVARIANT NobodySleepsOnCapacity
