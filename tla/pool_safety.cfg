\* Two threads and the editor are enough for every pair of critical sections
\* to meet.
CONSTANTS
  Threads = {t1, t2}
  Conns = {c1, c2, c3}
  Pools = {p1, p2, p3, p4}
  Versions = {"first", "extra", "host"}
  Fingerprint <- HostOfVersion
  MaxSize = 1
  Pings = TRUE
  MaxEdits = 2
  MaxInUse = 2
SPECIFICATION Spec
SYMMETRY Symmetry
CHECK_DEADLOCK FALSE
INVARIANTS
  PoolIsSound
  SameTarget
