\* Two attempts and their late calls; other requests save the credential row, or write
\* data, meanwhile, and the signup event may be late.
SPECIFICATION Spec
CONSTANTS
  Attempts = {a1, a2}
  Calls = {c1, c2}
  Snaps = {s1}
  Writes = {"snap"}
  Requests = {r1}
  Savers = {q1}
  Had = {{"report"}}
  Mixes = {{"save"}, {"write", "signup"}}
  None = None
SYMMETRY Symmetry
INVARIANTS TypeOK
PROPERTIES ConfirmedMeansErased ImplementsErasure NothingLostBeforeClosed
CHECK_DEADLOCK FALSE
