SPECIFICATION UsageDbSpec
CONSTANTS
  Tunnels = {1, 2}
  MaxBytes = 1
  DayLength = 2
  MonthLength = 2
  MaxTime = 5
  Lookback = 2
  Backfills <- BackfillWindows
  UserIds = {1, 2}
  TestIds = {3}
  Anonymous = 0
  Owner <- TokenOwner
  SystemTokens = {"sys"}
  NoToken = ""
  Slices <- UsageSlices
  PageLimits = {0, 2}
  LastDay = 1
INVARIANTS UsageIsExact ReportsAgree
PROPERTIES RecentDaysSettle
CHECK_DEADLOCK FALSE
