CONSTANTS
  MaxTokens = 4
  Alphabet = {"[", "]", "{", "}", ",", ":", "q", "d", "t", "b", "x"}
  MaxBatchTokens = 6
  BatchAlphabet = {"[", "]", ",", "d"}
  PaddedAlphabet = {"[", "]", "{", "}", ",", ":", "q"}
  NumbersIn = {4, 6}
  Paddings = {"$", "]", "}", ",", "["}
  Inputs <- AllInputs
  Kept <- KeptTokens
  Modes = {"regular", "streaming_partial", "streaming_final"}
  MaxDepth = 5
  CountMax = 1
  Indexes <- MCIndexes
  PrintDepth = 3
  Widths = {1, 4}
  Policies = {"strict", "replacement", "wobbly"}
  Padding = 19
  Base = 7
  Half = 256
  SafeDigits = 3
  Top = 343
  smallest_power <- Smallest
  largest_power = 3
SPECIFICATION Stage2Spec
INVARIANTS StackInBounds ReadsInBounds TapeFits StackIsTape
INVARIANTS AcceptsGrammar WritesTape ReadsBack PrintsBack
INVARIANTS DecodesStrings OutputBehindInput NumbersAreExact TypesAreExact
CHECK_DEADLOCK FALSE
