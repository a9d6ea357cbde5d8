SPECIFICATION Spec
CONSTANTS
  a = a
  b = b
  v6 = v6
  Names = {a, b}
  Addrs = {v6}
  Bracket = Bracket
  EgressAllow = {a}
  NoHost = NoHost
  MaxChunks = 1
  Window = 2
INVARIANT OnlyAllowedDialled
CHECK_DEADLOCK FALSE
