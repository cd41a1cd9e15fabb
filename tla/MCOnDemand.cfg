SPECIFICATION MCSpec
CONSTANTS
  Strings = {"a", "b"}
  Numbers = {"1"}
  Docs <- MCDocs
  Paddings = {"$", "]", "}"}
  Streaming = {FALSE, TRUE}
  Getters = {"get_int64", "get_number"}
  Keys = {"a", "b"}
  Indexes <- MCIndexes
  Paths <- MCPaths
  TakenAsValue <- SoundTexts
  StopsAtErrors = TRUE
  MaxTokens = 3
  Alphabet = {"[", "]", "{", "}", ",", ":", "a", "1"}
  Damage = {"]", "}", ",", "1"}
INVARIANTS AssumptionsHold ReadsInBounds NeverUsesDeadParser DepthIsNesting
PROPERTIES NavigatesTree LoopsEndAtErrors RoundsAdvance
CHECK_DEADLOCK FALSE
