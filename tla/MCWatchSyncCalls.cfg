CONSTANTS
  theWriter = theWriter theWatcher = theWatcher theKey = theKey fx = fx fy = fy Null = Null
  Clients = {theWriter} Keys = {theKey} Fields = {fx, fy} Vals = {1, 2}
  Sessions = {1, 2} Unreliable = {theWriter}
  Backpressure = 1 MaxDeltaLog = 2
  Requests <- PresenceOrPatch Watchable <- AllWatch
  Rejects = {"presence"} Unsubscribes = TRUE Rewatches = TRUE
  Budgets <- CallBudgets
SPECIFICATION FairSpec
CHECK_DEADLOCK FALSE
INVARIANTS DeltaBeforeResult SubscribedIsBound PresenceCleared
PROPERTY EventuallyWatching
