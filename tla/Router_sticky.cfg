SPECIFICATION Spec
CONSTANTS
  r1 = r1
  r2 = r2
  s1 = s1
  s2 = s2
  w1 = w1
  w2 = w2
  None = None
  Requests = {r1, r2}
  Sessions = {s1, s2}
  Worlds = {w1, w2}
  EngineFaults = TRUE
  Restarts = TRUE
INVARIANT SessionIsolation
PROPERTY DeletedStaysUnbound
PROPERTY NeighboursKeepBinding
