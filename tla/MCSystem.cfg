SPECIFICATION SystemSpec
CONSTANTS
  Templates = {"booking_reminder", "booking_cancelled"}
  Times = {1, 2}
  FirstStart = 1
  Mailers = {z1, z2}
  MaxStamp = 2
  MaxCrashes = 1
  Requests = {1, 2, 3}
  Hosts = {"h1", "h2", "h3"}
  Limit <- LimitOf
  MAX_IN_FLIGHT = 1
  MAX_IN_FLIGHT_PER_48 = 2
  Window = 1
  MaxClock = 1
  Day = 12
  Step = 2
  Jumps <- ThreeJumps
  Services <- TwoServices
  Pct = 50
  Weeks <- SomeWeeks
  OpeningWeeks <- SomeOpenings
  Blocks <- SomeBlocks
  OverrideAt = {3}
  Savers = {z1, z2}
  MaxBookings = 2
  MaxBlocks = 1
  MaxNow = 1
  Uploads = {u1, u2}
  Edits = {z1, z2}
  Workers = {w1}
  MaxDeletes = 2
  Subjects = {z1}
  Lag = 1
  Margin = 1
  MaxHour = 3
  MaxBackups = 3
  Currencies = {"EUR", "GBP", "USD"}
  Settled = {"EUR", "GBP"}
  Prices = {z1, z2}
  Buyers = {z1, z2}
  Connects = {z1, z2}
  MaxSold = 1
  MaxChanges = 2
SYMMETRY Interchangeable
INVARIANTS
  MailInv
  LimitsInv
  CalendarInv
  ServicesInv
  LedgerInv
  CurrencyInv
CHECK_DEADLOCK FALSE
