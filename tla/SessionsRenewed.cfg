\* A log-out everywhere with another request in flight.
SPECIFICATION Spec
CONSTANTS
    Accounts = {a1}
    Tokens = {t1, t2, t3}
    Reqs = {r1, r2}
    Grace = 2
    Ttl = 3
    MaxTime = 3
    MaxCred = 0
    MayFail = FALSE
    None = None
INVARIANTS
    NoRenewalAcrossRevokeAll
CHECK_DEADLOCK FALSE
