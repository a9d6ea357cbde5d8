SPECIFICATION Spec
CONSTANTS
  r1 = r1
  r2 = r2
  r3 = r3
  s1 = s1
  w1 = w1
  None = None
  NoWorld = NoWorld
  BadTTL = BadTTL
  Requests = {r1, r2, r3}
  Sessions = {s1}
  Worlds = {w1}
  MaxWorlds = 1
  TTLInputs = {1}
  DefaultTTL = 1
  MaxIdle = 0
  Networks = {"dark"}
  APIFaults = {}
  DeskFaults = TRUE
  Restarts = TRUE
SYMMETRY FleetSymmetry
INVARIANT SlotsAccountedFor
INVARIANT AnsweredHadSlot
INVARIANT DeletedIsGone
PROPERTY FleetImplementsRouter
CHECK_DEADLOCK FALSE
