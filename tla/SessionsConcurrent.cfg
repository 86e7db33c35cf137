\* Two requests at a time that may die between two round trips, one account.
SPECIFICATION Spec
CONSTANTS
    Accounts = {a1}
    Tokens = {t1, t2, t3}
    Reqs = {r1, r2}
    Grace = 1
    Ttl = 2
    MaxTime = 3
    MaxCred = 0
    MayFail = TRUE
    None = None
SYMMETRY Symmetry
INVARIANTS
    TypeOK
    LineageIsSound
    AlarmIsGenuine
PROPERTIES
    ImplementsLifecycle
CHECK_DEADLOCK FALSE
