SPECIFICATION Spec
CONSTANTS
  w1 = w1
  w2 = w2
  w3 = w3
  e1 = e1
  BadTTL = BadTTL
  NoWorld = NoWorld
  Worlds = {w1, w2, w3}
  Execs = {e1}
  MaxWorlds = 2
  TTLInputs = {BadTTL, 0, 1}
  DefaultTTL = 1
  MaxIdle = 1
  Networks = {"dark"}
  APIFaults = {"refused"}
  DeskFaults = FALSE
SYMMETRY WorldSymmetry
INVARIANT CapHeld
INVARIANT NoStrayVMM
INVARIANT StopAllClears
INVARIANT StateAgreesWithVMM
 
PROPERTY ActivityResumes
CHECK_DEADLOCK FALSE
