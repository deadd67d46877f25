SPECIFICATION RequestSpec
CONSTANTS
  Requests = {r1, r2, r3}
  MaxPerWindow = 2
  Window = 0
  Rps = 1
  Second = 1
  MaxConnections = 1
  ControlCapacity = 1
  CaptureCapacity = 1
  RingCapacity = 1
  MaxTime = 1
  Members = {m1, m2}
  MaxFailed = 2
  ReportCapacity = 1
  TimelineSize = 2
INVARIANTS  CaptureIsComplete 
PROPERTIES EveryRequestAnswered StableServiceIsServed
CHECK_DEADLOCK FALSE
