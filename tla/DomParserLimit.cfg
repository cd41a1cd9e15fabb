SPECIFICATION Spec
CONSTANTS
  MaxSize = 5
  DefaultDepth = 2
  Lengths = {4}
  Batches = {4}
  Capacities = {3}
  Depths = {1, 2}
  Limits = {4}
  Documents = {"own", "other"}
  Failing = {{}}
  MinimalCapacity = 2
  MinimalBatch = 3
  Padding = 1
  FailsAnyhow = FALSE
  ReusesMoved = FALSE
  OversizedFirst = FALSE
  AnyLimits = TRUE
INVARIANT CallsKeepPromise
CHECK_DEADLOCK FALSE
