CONSTANTS
  u = u
  a = a
  Budgets = {u, a}
  Unallocated = u
  Opening = 5
  Txs = {1, 2}
  Itxs = {1, 2}
  Dates = {1, 2, 3}
  Amounts <- SplitAmounts
  Parts = {1}
SPECIFICATION Spec
INVARIANTS TypeOK AllocationSnapshots TransferSnapshots
CHECK_DEADLOCK FALSE
