CONSTANTS
  None = None
  Sessions = {s1, s2}
  Admins = {a1}
  Tunnels = {t1, t2}
  Subdomains = {d1}
  BadLabels = {bad}
  Keys = {k1}
  Protocols = {http, https}
  MaxTunnels = 2
SPECIFICATION FairSpec
INVARIANTS  SharingIsAgreed NothingSurvivesSession
PROPERTIES  SubdomainReleased
CHECK_DEADLOCK FALSE
