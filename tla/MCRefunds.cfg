SPECIFICATION FairSpec
CONSTANTS
  t1 = t1
  t2 = t2
  Tasks = {t1, t2}
  Amount = 4
  Percentages = {50, 100}
  HandAmounts = {1}
  MaxByHand = 1
  MaxFaults = 3
INVARIANTS
  RefundsInv
  NeverRefundedTwice
PROPERTIES
  SettlesInTheEnd
CHECK_DEADLOCK FALSE
