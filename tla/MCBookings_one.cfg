SPECIFICATION Spec
CONSTANTS
  Workers = {w1}
  Clients = {c1}
  Buckets = {b1}
  Settings <- TwoSettings
  Durations = {1}
  Buffer = 0
  Grid <- LateGrid
  DayLength = 10
  CheckoutTTL = 1
  MaxWait = 1
  MaxTime = 3
  MaxBookings = 1
INVARIANTS
  BookingsInv
  RefundNeedsEveryStart
  WorkersNeverRefund
  ErasuresHold
PROPERTIES
  ClosedStaysClosed
  TakenUpInTime
  CancelFavoursTheClient
