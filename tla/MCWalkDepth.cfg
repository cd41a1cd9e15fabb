CONSTANTS
  MaxTokens = 2
  Alphabet = {"[", "]", "{", "}", ",", ":", "q", "d", "t", "b", "x"}
  MaxBatchTokens = 2
  BatchAlphabet = {"[", "]", ",", "d"}
  PaddedAlphabet = {"[", "]", "{", "}", ",", ":", "q"}
  NumbersIn = {2}
  Paddings = {"$"}
  Inputs <- AllInputs
  Kept <- KeptTokens
  Modes = {"regular"}
  MaxDepth = 2
  CountMax = 1
  Indexes <- MCIndexes
  PrintDepth = 3
SPECIFICATION MCSpec
INVARIANT DepthIsAccepted
