SPECIFICATION Spec
CONSTANTS
  Workers = {w1}
  Clients = {c1}
  Buckets = {b1}
  Settings <- OneSetting
  Durations = {2}
  Buffer = 0
  Grid <- EveryTick
  DayLength = 10
  CheckoutTTL = 1
  MaxWait = 1
  MaxTime = 2
  MaxBookings = 2
CONSTRAINT TwoRows
VIEW SlotView
INVARIANTS
  NoDoubleBooking
  OfferedIsFree
