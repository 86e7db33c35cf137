\* Two requests at a time, each served to its end.
SPECIFICATION FairSpec
CONSTANTS
    Accounts = {a1}
    Tokens = {t1, t2}
    Reqs = {r1, r2}
    Grace = 1
    Ttl = 2
    MaxTime = 2
    MaxCred = 1
    MayFail = FALSE
    None = None
INVARIANTS
    SessionsMatchCredentials
PROPERTIES
    StrictUnlessStale
    RevocationCompletes
CHECK_DEADLOCK FALSE
