CONSTANTS
  coffee = coffee
  transfer = transfer
  Listing <- Both
  Count <- Twice
  Stem <- StemOf
  Day <- DayOf
  Authorised <- AuthorisedOf
  Amount <- AmountOfKind
  Long = {transfer}
  Opening = 10
  MaxRows = 9
SPECIFICATION FairSpec
INVARIANTS TypeOK BalancesExplained StoredOnce CurrentScrapeWins MismatchExplained SnapshotsExplained
PROPERTIES FollowsBank
CHECK_DEADLOCK FALSE
