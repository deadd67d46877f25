CONSTANTS
  None = None
  Sessions = {s1, s2}
  Admins = {a1}
  Tunnels = {t1, t2, t3}
  TcpPorts = {p1}
  UdpPorts = {u1}
  Groups = {}
  MaxTunnels = 2
  EventCap = 1
SPECIFICATION FairSpec
INVARIANTS TcpPortsConserved 
PROPERTIES PortsReturn
CHECK_DEADLOCK FALSE
