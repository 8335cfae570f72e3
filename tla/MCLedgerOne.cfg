SPECIFICATION Spec
CONSTANTS
  a1 = a1
  u1 = u1
  b1 = b1
  b2 = b2
  b3 = b3
  t1 = t1
  i1 = i1
  i2 = i2
  None = None
  Account = {a1}
  Budget = {u1, b1, b2}
  Tx = {t1}
  Itx = {i1, i2}
  Home <- OneHome
  TxHome <- OneTxHome
  Unallocated <- OneUnallocated
  Opening = {1}
  Amount <- Amounts
  Part = {1}
SYMMETRY Symmetry
INVARIANTS
  TypeOK
  AccountsMatchTransactions
  AllocationsAccounted
  BudgetsAccounted
  BudgetExplained
  GoalFunded
  References
  NothingLeftToSweep
