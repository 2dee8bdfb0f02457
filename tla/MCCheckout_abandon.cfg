SPECIFICATION Spec
CONSTANTS
  t1 = t1
  t2 = t2
  Tasks = {t1, t2}
  MaxIntents = 1
  MaxFaults = 0
PROPERTY AbandonKeepsLanded
CHECK_DEADLOCK FALSE
