CONSTANTS
  None = None
  HttpConns = {h1}
  TcpConns = {c1, c2}
  CtrlCap = 1
  OpenCap = 1
  MaxConns = 2
  Sockets = {w1, w2, w3}
  MaxTries = 1
  MaxReconnects = 2
  MaxBlips = 3
SPECIFICATION DataSpec
INVARIANTS OneDecision EndedLeavesNothing PipesAreCurrent
PROPERTIES NobodyIsStranded PipeComesTogether
CHECK_DEADLOCK FALSE
