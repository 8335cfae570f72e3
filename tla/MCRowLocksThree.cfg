SPECIFICATION Spec
CONSTANTS
  p1 = p1
  p2 = p2
  p3 = p3
  Account = Account
  Tx = Tx
  Allocation = Allocation
  Earlier = Earlier
  Gone = Gone
  Nobody = Nobody
  Process = {p1, p2, p3}
  Budget <- Budgets
  Unallocated = 2
  Start <- ThreeStart
  Crashes = FALSE
  Lapses = FALSE
SYMMETRY Symmetry
INVARIANTS
  TypeOK
  NoCircularWait
