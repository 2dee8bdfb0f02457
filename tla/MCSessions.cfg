SPECIFICATION SessionsSpec
CONSTANTS
  People = {p, q}
  BusinessTokens = {1, 2}
  AccountTokens = {3, 4}
  AdminTokens = {5}
  Nil = Nil
  MaxPassword = 2
SYMMETRY Interchangeable
INVARIANTS
  ResetSignsOutEverywhere
