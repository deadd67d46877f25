CONSTANTS
  Peers = {q1}
  Flows = {f1, f2}
  MaxBuffered = 1
  MaxFlows = 2
  MaxDatagrams = 3
  NoFlow = NoFlow
SPECIFICATION UdpSpec
INVARIANT DatagramsIntact
CHECK_DEADLOCK FALSE
