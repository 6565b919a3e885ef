\* Two requests for one account interleave at every query.
SPECIFICATION Spec
CONSTANTS
  Users = {u1}
  Handlers = {h1, h2}
  Passwords = {p1, p2}
  Tokens = {t1}
  MaxFailedLogins = 2
  LockoutDuration = 1
  ResetTtl = 1
  MaxTime = 1
  MaxCount = 2
  Overlap = TRUE
  NoRow = NoRow
  None = None
SYMMETRY Symmetry
INVARIANTS TypeOK TokenSpentOnce
PROPERTIES SettledDeactivationIsFinal SettledDeletionIsFinal
