SPECIFICATION Spec
CONSTANTS
  a = a
  b = b
  c = c
  fa = fa
  fb = fb
  Worlds <- ThreeWorlds
  Files <- TwoFiles
  FileOf <- SharedFile
  GlobalFaults = {"none"}
  WorldFaults = {"none", "bare", "sync"}
  Sizes = {"short", "long"}
  CrashInCommit = TRUE
  MaxCommits = 4
  NoEvent = NoEvent
SYMMETRY Twins
INVARIANT GlobalSeqStrict
INVARIANT AckedOnChain
INVARIANT BreaksAreUnacked
INVARIANT AuditorMissesNothing
INVARIANT AuditorSeesOwnWorld
CHECK_DEADLOCK FALSE
