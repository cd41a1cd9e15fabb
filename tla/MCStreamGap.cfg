CONSTANTS
  MaxOffset = 24
  MaxLength = 0
  Alphabet = {}
  Padding = "$"
  BatchSizes = {3}
  Texts <- GapTexts
  Threading = {TRUE}
  Allocation = {"SUCCESS"}
  OldMemory = {1}
  Fronts = {"dom", "ondemand"}
SPECIFICATION FrontSpec
INVARIANT DeliversEverything
