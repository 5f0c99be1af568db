SPECIFICATION PartsSpec
CONSTANTS
  Workers = {w1, w2}
  DownThreshold = 2
  Ids = {i1, i2}
  MaxFaults = 1
  Callers = {c1, c2}
  MaxFailures = 4
  Values = {low, high}
  Keys = {k1, k2, k3}
  MaxTime = 5
  MaxIncidents = 2
  MaxAmended = 1
  Operators = {o1, o2}
  MaxReboots = 3
  MaxFailed = 3
  Top4 = 7
  Top6 = 11
  Limit = 5
INVARIANTS
  PartsTypeOK
  DownIsAnnounced
  SomeoneWasTold
  CounterIsExact
  CriticalIsEarned
  DuplicatesAreBounded
  StoredAsAsked
  ReportIsExact
  RetryIsSafe
  DiscoveryIsExact
PROPERTIES
  RecoveryClosesAll
  ReplicasConverge
CHECK_DEADLOCK FALSE
