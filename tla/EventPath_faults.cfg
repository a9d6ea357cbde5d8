SPECIFICATION FairSpec
CONSTANTS
  e1 = e1
  e2 = e2
  e3 = e3
  NoFile = NoFile
  Execs = {e1}
  Sizes = {"short", "edge", "long"}
  ShortWrites = TRUE
  Decoys = TRUE
  MaxEvents = 4
  MaxLate = 2
  HostFaults = TRUE
  Destroys = TRUE
INVARIANT StartBeforeExec
PROPERTY DeskGetsFifo
PROPERTY EventsReachDesk
CHECK_DEADLOCK FALSE
