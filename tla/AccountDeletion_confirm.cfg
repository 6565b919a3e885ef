\* A client that retries until it is told, writes meanwhile, and whose signup event
\* may be late.
SPECIFICATION FairSpec
CONSTANTS
  Attempts = {a1}
  Calls = {c1, c2}
  Snaps = {s1}
  Writes = {"profile", "settings"}
  Requests = {r1}
  Savers = {q1}
  Had = {{"report"}}
  Mixes = {{"save", "refresh"}, {"write", "signup"}}
  None = None
PROPERTIES ErasedStaysErased RetriesConfirmed
CHECK_DEADLOCK FALSE
