CONSTANTS
  None = None
  Sessions = {s1, s2}
  Admins = {}
  Tunnels = {t1, t2, t3}
  TcpPorts = {p1, p2}
  UdpPorts = {u1}
  Groups = {g1}
  MaxTunnels = 2
  EventCap = 1
SPECIFICATION EdgeSpec
SYMMETRY Symmetry
INVARIANTS  UdpPortsConserved
CHECK_DEADLOCK FALSE
