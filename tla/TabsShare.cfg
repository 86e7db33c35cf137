\* Two tabs of one browser.
SPECIFICATION FairSpec
CONSTANTS
    Tabs = {t1, t2}
    Tokens = {s1, s2, s3, s4}
    Retries = 2
    LockLife = 2
    None = None
INVARIANTS
    TypeOK
    RefreshesExclude
    
PROPERTIES
    RequestsEnd
