CONSTANTS
  ULONG_RANGE = 256
  PRINTF_BUFMAX = 3
  ADDR_RANGE = 8
  MemorySize = 5
  Letters = {1, 2}
  Values <- MCValues
  Widths = {0, 2, 5}
  MaxText = 5
  MaxOdd = 5
SPECIFICATION Spec
CHECK_DEADLOCK FALSE
INVARIANT StrncpyKeepsCount
