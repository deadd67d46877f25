CONSTANTS
  Registered <- TwoHttp
  Conns = {c1}
  HttpConns = {c1}
  Scripts <- MCScripts
  MaxPending = 2
  RingCap = 2
  BodyCap = 1
  ChunkCap = 3
  MaxReplays = 1
SPECIFICATION TapSpec
INVARIANT ServedByItsOwnTunnel
CHECK_DEADLOCK FALSE
