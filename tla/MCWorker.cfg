SPECIFICATION WorkerFairSpec
CONSTANTS
  Minute = 2
  Timeout = 1
  Grace = 33
  Retention = 3
  MaxDelay = 1
  SweepPolls = 2
  RetentionPolls = 2
  BacklogPolls = 1
  Businesses = 3
  CallBusinesses = 1
  MAX_BATCHES = 2
  MaxOld = 2
  MaxFaults = 2
  Workers = {w1}
  Clients = {c1}
  Buckets = {b1}
  Settings <- OneSetting
  Durations = {1}
  Buffer = 0
  Grid <- EveryTick
  DayLength = 10
  CheckoutTTL = 1
  MaxWait = 1
  MaxTime = 2
  MaxBookings = 1
INVARIANTS
  WorkerInv
  OneLiveRun
  SkippedOnlyIfNeglected
PROPERTIES
  KeepsItsPromise
  EveryJobEnds
  LoopGoesOn
  HoldsEnd
