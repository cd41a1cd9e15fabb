CONSTANTS
  Pending = Pending
  Width = 4
  LikeOperators = {12, 26}
  AsciiChunk = 4
  Jobs <- MCJobs
  Behinds = {32, 128}
SPECIFICATION MCSpec
INVARIANTS CarriesDescribeText PrefixIndexed OutputFits VectorIsExact
PROPERTY KernelsKeepPromise
CHECK_DEADLOCK FALSE
