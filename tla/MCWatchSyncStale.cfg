CONSTANTS
  theWriter = theWriter theWatcher = theWatcher theKey = theKey fx = fx fy = fy Null = Null
  Clients = {theWriter, theWatcher} Keys = {theKey} Fields = {fx, fy} Vals = {1, 2}
  Sessions = {1, 2} Unreliable = {}
  Backpressure = 2 MaxDeltaLog = 2
  Requests <- PatchOrDelete Watchable <- OnlyA
  Rejects = {} Unsubscribes = FALSE Rewatches = FALSE
  Budgets <- StaleBudgets
SPECIFICATION Spec
CHECK_DEADLOCK FALSE
INVARIANT Converges
