SPECIFICATION FairSpec
CONSTANTS
  w1 = w1
  w2 = w2
  w3 = w3
  e1 = e1
  BadTTL = BadTTL
  NoWorld = NoWorld
  Worlds = {w1, w2}
  Execs = {}
  MaxWorlds = 1
  TTLInputs = {BadTTL, 0, 1}
  DefaultTTL = 1
  MaxIdle = 1
  Networks = {}
  APIFaults = {}
  DeskFaults = TRUE
INVARIANT DeskToldTruth
PROPERTY LeaseAnswered
PROPERTY DestroyedWorldDies
PROPERTY ShutdownCompletes
PROPERTY IdleWorldPaused
CHECK_DEADLOCK FALSE
