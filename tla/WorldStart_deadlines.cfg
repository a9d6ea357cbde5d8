SPECIFICATION FairSpec
CONSTANTS
  Engines = {"jailer", "firecracker"}
  OverlayWait = 3
  KVMWait = 10
  HealthWait = 45
  ProbeWait = 2
  EmitterWait = 60
  TermWait = 3
INVARIANT StoppedClean
INVARIANT FirecrackerHasKVM
INVARIANT EmitterConnected
PROPERTY StartReturns
PROPERTY StopEnds
CHECK_DEADLOCK FALSE
