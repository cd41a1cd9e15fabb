CONSTANTS
  MaxOffset = 24
  MaxLength = 6
  Padding = "$"
  Alphabet = {"[", "]", "d", " "}
  BatchSizes = {3, 9}
  Texts <- MCTexts
  Threading = {FALSE, TRUE}
  Allocation = {"SUCCESS", "MEMALLOC"}
  OldMemory = {1}
  Fronts = {"dom", "ondemand"}
SPECIFICATION MCSpec
INVARIANTS StaysInBatch ReadsOwnBatch WorkerIsAhead SourcesAreDocuments
PROPERTIES KeepsPromise UsesMailbox Terminates
