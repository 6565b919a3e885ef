\* Creates, resolutions, deletes and a sweep race over one place.
SPECIFICATION Spec
CONSTANTS
  u1 = u1
  u2 = u2
  k1 = k1
  k2 = k2
  Users = {u1}
  Admins = {}
  Snaps = {s1, s2}
  Places = {a1}
  Keys = {k1}
  KeyOwner <- OneKey
  IdemKeys = {i1}
  Lifetimes = {1}
  Requests = {"create", "delete", "bulk", "resolve"}
  Handlers = {h1, h2}
  Sweepers = {w1}
  BatchSize = 1
  UrlLasts = 1
  MaxTime = 1
  NoSnap = NoSnap
  None = None
SYMMETRY Symmetry
INVARIANTS TypeOK OneActivePerPlace ResolutionConsistent
PROPERTIES ImplementsSnapBoard
