SPECIFICATION Spec
CONSTANTS
  w1 = w1
  w2 = w2
  w3 = w3
  e1 = e1
  BadTTL = BadTTL
  NoWorld = NoWorld
  Worlds = {w1}
  Execs = {}
  MaxWorlds = 1
  TTLInputs = {1}
  DefaultTTL = 1
  MaxIdle = 0
  Networks = {}
  APIFaults = {}
  DeskFaults = FALSE
INVARIANT NoOrphanAfterStop
CHECK_DEADLOCK FALSE
