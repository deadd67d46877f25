CONSTANTS
  NumTunnels = 2
  MaxAttempts = 4
  MaxFaults = 1
  MaxConns = 1
  Registered <- OneOfEach
  Conns = {c1, c2}
  HttpConns = {c1}
  Scripts <- MCScripts
  MaxPending = 2
  RingCap = 2
  BodyCap = 1
  ChunkCap = 3
  MaxReplays = 1
  Peers = {q1}
  Flows = {f1, f2}
  MaxBuffered = 1
  MaxFlows = 2
  MaxDatagrams = 3
  NoFlow = NoFlow
  Requests <- MCRequests
  Procs = {x1, x2}
  TunnelIds = {i1, i2, i3}
  MaxPolls = 2
  Stranger = Stranger
  Nothing = Nothing
SPECIFICATION ClientSpec
INVARIANTS SessionsAgree InspectorIsFaithful UdpSessionsAccounted IntactUnlessCut ProcessesAccounted
PROPERTIES NamesComeFree 
CHECK_DEADLOCK FALSE
