\* Two changes of password under different KDF modes at the same time.
SPECIFICATION Spec
CONSTANTS
    Reqs = {r1, r2}
    MaxFails = 2
    LockFor = 2
    MaxTime = 1
    MaxIssued = 3
    None = None
SYMMETRY Symmetry
INVARIANTS
    KdfMatchesSalt
CHECK_DEADLOCK FALSE
