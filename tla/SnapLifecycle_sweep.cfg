\* Creates and deletes race with a sweep that has to catch up with the clock.
SPECIFICATION FairSpec
CONSTANTS
  u1 = u1
  u2 = u2
  k1 = k1
  k2 = k2
  Users = {u1}
  Admins = {}
  Snaps = {s1, s2}
  Places = {a1}
  Keys = {k1, k2}
  KeyOwner <- TwoKeys
  IdemKeys = {i1}
  Lifetimes = {1}
  Requests = {"create", "delete"}
  Handlers = {h1}
  Sweepers = {w1}
  BatchSize = 1
  UrlLasts = 1
  MaxTime = 1
  NoSnap = NoSnap
  None = None
PROPERTIES ExpiredSwept
