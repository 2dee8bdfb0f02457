SPECIFICATION Spec
CONSTANTS
  t1 = t1
  t2 = t2
  Tasks = {t1, t2}
  MaxIntents = 3
  MaxFaults = 2
CONSTRAINT ThirdOrFaults
SYMMETRY Handlers
INVARIANTS
  CheckoutInv
  NoChargeUnseen
  NoDoubleCharge
PROPERTIES
  RowsOnlyClose
  KeepsToOneCharge
CHECK_DEADLOCK FALSE
