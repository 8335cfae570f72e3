CONSTANTS
  Notes = {n, b}
  Immediate = {n}
  Unsure = {b}
  Flushes = {f, g}
  MaxFailures = 1
  MaxRetries = 1
  MaxFaults = 1
SPECIFICATION FairSpec
INVARIANTS TypeOK MailedOnce SentWasMailed OneDigestAWindow
PROPERTIES Delivered
CHECK_DEADLOCK FALSE
