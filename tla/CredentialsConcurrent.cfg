\* Two requests on one account at a time.
SPECIFICATION Spec
CONSTANTS
    Reqs = {r1, r2}
    MaxFails = 2
    LockFor = 2
    MaxTime = 3
    MaxIssued = 3
    None = None
SYMMETRY Symmetry
INVARIANTS
    TypeOK
    FreshSavesKeepMode
    FreshFailuresLock
PROPERTIES
    OldCredentialsNeverReturn
    OnlyProofReplacesCredentials
    LockIsNeverCutShort
CHECK_DEADLOCK FALSE
