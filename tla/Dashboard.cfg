SPECIFICATION Spec
CONSTANTS
  Calls = {c1, c2}
  Sessions = {s1}
  u1 = u1
  k1 = k1
  k2 = k2
  Tunnels = {t1}
  Kinds = {"http", "p2p"}
  Tokens = {k1, k2}
  UserOf <- Owners
  NoUser = NoUser
  MaxFailures = 1
  Window = 0
  MaxTime = 1
  AuditCapacity = 1
  EventCapacity = 1
  MaxEvents = 2
SYMMETRY Interchangeable
INVARIANTS GuessesBounded OwnTunnelsOnly 
