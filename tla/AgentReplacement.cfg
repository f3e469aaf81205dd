SPECIFICATION FairSpec
CONSTANTS
    Operations = {"o1", "o2", "o3"}
    Source = "o1"
    KillSwitch = {"o1", "o3"}
    Chain = {"o2", "o3"}
    Large = {"o3"}
    Width = 2
    Exclusions <- MCExclusions
    MaxFaults = 2
    MaxRestarts = 1
CHECK_DEADLOCK FALSE
INVARIANT NoLeakDuringReplacement
INVARIANT GuardIsRecorded
PROPERTY GuardReleasedToTarget
PROPERTY AbortFinishes
