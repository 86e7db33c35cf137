\* One tab and its worker, in calm, in trouble, and with everything going wrong.
SPECIFICATION FairSpec
CONSTANTS
    a1 = a1
    a2 = a2
    o1 = o1
    o2 = o2
    o3 = o3
    Accounts = {a1, a2}
    Ops = {o1, o2, o3}
    Scenes <- MCScenes
    None = None
INVARIANTS
    TypeOK
    
    LockedHoldsNoKey
    BusyIsAccurate
    LogoutForgets
PROPERTIES
    OnlyRightSecretUnlocks
    OpsEnd
