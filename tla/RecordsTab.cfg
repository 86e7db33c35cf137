\* Two operations at a time of one tab on two entries, one on a page, and locks.
SPECIFICATION Spec
CONSTANTS
    Tasks = {t1, t2}
    Ids = {i1, i2}
    Payloads = {p1, p2}
    Account = a1
    PageSize = 1
    None = None
SYMMETRY Symmetry
INVARIANTS
    TypeOK
    ListMatchesStore
    SpinnerMeansLoad
