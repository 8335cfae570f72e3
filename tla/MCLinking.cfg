CONSTANTS
  debit = debit
  credit = credit
  A = A
  B = B
  v = v
  w = w
  e = e
  Lines = {debit, credit}
  Accounts = {A, B}
  Home <- HomeOf
  Names <- NamesOf
  Mirror <- Opposite
  Copies <- Twice
  Workers = {v, w}
  Enrichers = {e}
  None = None
  MaxFaults = 1
SPECIFICATION FairSpec
INVARIANTS TypeOK LinksMutual
PROPERTIES LinkForGood LinkedInTheEnd
CHECK_DEADLOCK FALSE
