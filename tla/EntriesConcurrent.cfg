\* Two requests at a time on three entries of two accounts, two on a page.
SPECIFICATION Spec
CONSTANTS
    Accounts = {a1, a2}
    Ids = {i1, i2, i3}
    Payloads = {p1, p2}
    Reqs = {r1, r2}
    PageSize = 2
    None = None
SYMMETRY Symmetry
INVARIANTS
    TypeOK
PROPERTIES
    ImplementsEntryStore
