CONSTANTS
  a1 = a1
  a2 = a2
  t1 = t1
  t2 = t2
  None = None
  Accounts = {a1, a2}
  Tabs = {t1, t2}
  Modes = {1, 2}
  MaxMinted = 3
  Scenes <- MCTouch
SPECIFICATION Spec
INVARIANT AcceptedPasswordOpens
CHECK_DEADLOCK FALSE
