CONSTANTS
  task = task
  request = request
  Nobody = Nobody
  Budgets = {1}
  Plans <- Alone
  Autos = {TRUE, FALSE}
  LastDay = 3
  AsOf = {1}
  Tasks = {task}
  Requests = {request}
  MaxMoves = 1
  MaxSwitches = 2
  MaxCrashes = 1
SPECIFICATION Spec
INVARIANTS TypeOK PaidOnce
PROPERTIES NoOvershoot
CHECK_DEADLOCK FALSE
