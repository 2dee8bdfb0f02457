SPECIFICATION Spec
CONSTANTS
  Workers = {w1}
  Clients = {c1}
  Buckets = {b1}
  Settings <- OneSetting
  Durations = {1}
  Buffer = 0
  Grid <- EveryTick
  DayLength = 10
  CheckoutTTL = 1
  MaxWait = 1
  MaxTime = 2
  MaxBookings = 1
INVARIANTS
  RemovedHaveNothingToCome
