CONSTANTS
  theWriter = theWriter theWatcher = theWatcher theKey = theKey fx = fx fy = fy Null = Null
  Clients = {theWriter, theWatcher} Keys = {theKey} Fields = {fx, fy} Vals = {1, 2}
  Sessions = {1, 2, 3} Unreliable = {theWatcher}
  Backpressure = 2 MaxDeltaLog = 1
  Requests <- PatchOrDelete Watchable <- OnlyA
  Rejects = {"WATCH"} Unsubscribes = FALSE Rewatches = TRUE
  Budgets <- SyncBudgets
SPECIFICATION Spec
CHECK_DEADLOCK FALSE
INVARIANTS NoMissedUpdate NoLeak ConvergesUnlessRaced
