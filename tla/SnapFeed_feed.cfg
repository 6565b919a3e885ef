\* Views and lists overlap, or sockets and creates; the process and the calls fail.
SPECIFICATION FairSpec
CONSTANTS
  p1 = p1
  p2 = p2
  Users = {u1}
  Snaps = {s1}
  Places = {p1, p2}
  Within <- Apart
  Sockets = {c1, c2}
  Handlers = {h1, h2}
  Lifetime = 1
  MaxTime = 1
  Mixes <- ListsOrSockets
  NoSnap = NoSnap
  None = None
INVARIANTS TypeOK ViewedGoesToSeen LocationOfConnected AnnouncedOnce
PROPERTY RetriedViewAnswered
