\* Two accounts are served concurrently, each by one request at a time.
SPECIFICATION Spec
CONSTANTS
  Users = {u1, u2}
  Handlers = {h1, h2}
  Passwords = {p1, p2}
  Tokens = {t1}
  MaxFailedLogins = 2
  LockoutDuration = 1
  ResetTtl = 1
  MaxTime = 1
  MaxCount = 3
  Overlap = FALSE
  NoRow = NoRow
  None = None
SYMMETRY Symmetry
INVARIANTS LockTracksFailures DeletionTakesTokens
PROPERTIES ImplementsAtomicAccounts
