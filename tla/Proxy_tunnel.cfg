SPECIFICATION FairSpec
CONSTANTS
  a = a
  b = b
  v6 = v6
  Names = {a, b}
  Addrs = {v6}
  Bracket = Bracket
  EgressAllow = {a}
  NoHost = NoHost
  MaxChunks = 3
  Window = 2
 
INVARIANT StreamsIntact
PROPERTY TunnelEnds
CHECK_DEADLOCK FALSE
