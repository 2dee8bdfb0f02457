SPECIFICATION FairSpec
CONSTANTS
  t1 = t1
  t2 = t2
  Tasks = {t1, t2}
  MaxIntents = 2
  MaxFaults = 1
PROPERTIES
  PaymentsSettle
CHECK_DEADLOCK FALSE
