SPECIFICATION RootSpec
CONSTANTS
  Base = 7
  Half = 256
  SafeDigits = 3
  Top = 343
  smallest_power <- Smallest
  largest_power = 3
INVARIANTS OnlyBlanksTruncated
CHECK_DEADLOCK FALSE
