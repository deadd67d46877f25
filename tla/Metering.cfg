SPECIFICATION MeterFairSpec
CONSTANTS
  Sessions = {s1}
  Tunnels = {1, 2}
  MaxTunnels = 1
  Busy = {1}
  MaxBytes = 1
  MaxStops = 1
INVARIANTS RowsAccounted
PROPERTIES AccountRefined CountedBytesReachTheRow
CHECK_DEADLOCK FALSE
