SPECIFICATION NumbersSpec
CONSTANTS
  Base = 7
  Half = 256
  SafeDigits = 3
  Top = 343
  smallest_power <- Smallest
  largest_power = 3
INVARIANTS DoubleIsExact
CHECK_DEADLOCK FALSE
