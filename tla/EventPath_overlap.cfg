SPECIFICATION Spec
CONSTANTS
  e1 = e1
  e2 = e2
  e3 = e3
  NoFile = NoFile
  Execs = {e1, e2, e3}
  Sizes = {"short"}
  ShortWrites = FALSE
  Decoys = FALSE
  MaxEvents = 2
  MaxLate = 0
  HostFaults = FALSE
  Destroys = FALSE
SYMMETRY Alike
INVARIANT AnsweredSent
PROPERTY DeskGetsFifo
CHECK_DEADLOCK FALSE
