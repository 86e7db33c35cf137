\* A tab with two records; the clock runs, or the dashboard is used.
SPECIFICATION TabSpec
CONSTANTS
    Timeouts = {1, 2}
    Margin = 1
    MaxTime = 8
    Records = {r1, r2}
    SaveIds = {s1, s2}
    None = None
    New = New
    Blank = Blank
    Scenes = {"away", "used"}
SYMMETRY Symmetry
INVARIANTS
    IdleIsLocked
    SavesGoWhereFilled
    LockedScreenIsBlank
    RevealsEnd
PROPERTIES
    LockIsDue

