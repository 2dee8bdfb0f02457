SPECIFICATION Spec
CONSTANTS
  t1 = t1
  t2 = t2
  Tasks = {t1, t2}
  Amount = 4
  Percentages = {50, 100}
  HandAmounts = {1}
  MaxByHand = 2
  MaxFaults = 1
INVARIANT FlagIsRight
CHECK_DEADLOCK FALSE
