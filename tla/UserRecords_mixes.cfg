\* Requests of one user interleave: profile, photo and purge; or purge and the rows.
SPECIFICATION Spec
CONSTANTS
  u1 = u1
  k1 = k1
  k2 = k2
  Users = {u1}
  Names = {n1}
  Keys = {k1, k2}
  KeyOwner <- OneOwner
  Distances = {d1, d2, d3}
  DefaultDistance = d1
  Ids = {i1, i2, i3}
  Snaps = {s1}
  Reasons = {r1, r2}
  Handlers = {h1, h2}
  Workloads <- Mixes
  NoRow = NoRow
  None = None
SYMMETRY Symmetry
INVARIANTS TypeOK NamedImageExists ReplacedImageDeleted ConfirmedSettingsStand
PROPERTIES SettledPurgeIsFinal SettledReportStands
