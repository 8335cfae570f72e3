CONSTANTS
  task = task
  request = request
  Nobody = Nobody
  Budgets = {1}
  Plans <- Alone
  Autos = {TRUE, FALSE}
  LastDay = 3
  AsOf = {1}
  Tasks = {task}
  Requests = {}
  MaxMoves = 0
  MaxSwitches = 1
  MaxCrashes = 2
SPECIFICATION FairSpec
INVARIANTS PaidAsOnTime
PROPERTIES DueIsSettled
CHECK_DEADLOCK FALSE
