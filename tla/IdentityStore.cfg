SPECIFICATION FairSpec
CONSTANTS
    Accounts = {a1, a2}
    Backups = {b1}
    Identities = {i0, i1, i2}
    First = a1
    Old = i0
    Requests = {"replace", "create", "delete", "clear"}
    MaxFaults = 2
CHECK_DEADLOCK FALSE
INVARIANT BackupIsWhole
INVARIANT VaultMatchesFile
PROPERTY StartRecovers
