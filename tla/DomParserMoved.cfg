SPECIFICATION Spec
CONSTANTS
  MaxSize = 5
  DefaultDepth = 2
  Lengths = {0, 1, 4}
  Batches = {1, 5}
  Capacities = {3, 6}
  Depths = {1, 2}
  Limits = {2, 4}
  Documents = {"own", "other"}
  Failing = {{}}
  MinimalCapacity = 2
  MinimalBatch = 3
  Padding = 1
  FailsAnyhow = FALSE
  ReusesMoved = TRUE
  OversizedFirst = FALSE
  AnyLimits = FALSE
INVARIANT CallsKeepPromise
CHECK_DEADLOCK FALSE
