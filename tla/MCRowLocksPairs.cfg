SPECIFICATION Spec
CONSTANTS
  p1 = p1
  p2 = p2
  p3 = p3
  Account = Account
  Tx = Tx
  Allocation = Allocation
  Earlier = Earlier
  Gone = Gone
  Nobody = Nobody
  Process = {p1, p2}
  Budget <- Budgets
  Unallocated = 2
  Start <- PairsStart
  Crashes = TRUE
  Lapses = TRUE
SYMMETRY Symmetry
CHECK_DEADLOCK FALSE
PROPERTIES
  Serializable
