SPECIFICATION Spec
CONSTANTS
  Policies <- MCPolicies
  I3 = {"mount"}
  Syscalls = {"clone", "read", "write", "mount"}
  NSFlags = {"NEWNS"}
  OtherFlags = {"VM"}
  Exists <- MCExists
  Links <- MCLinks
  RelLinks <- MCRelLinks
  Workspace <- MCWorkspace
  Command <- MCCommand
INVARIANT FilterMatchesPolicy
INVARIANT DecoyOnTop
CHECK_DEADLOCK FALSE
