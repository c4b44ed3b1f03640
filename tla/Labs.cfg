CONSTANTS
  Letters = {"a", "n"}
  Unused = "x"
  BUFSIZE = 4
  ROT13 <- MCROT13
  Times = {0, 5, 42}
  MaxLines = 2
  FIRST_STEP = 2
  STREAK = 1
  LOSS = 2
  MaxSteps = 7
  OSCR_RANGE = 6
  MaxTicks = 14
  Sleeps = {0, 1, 4}
SPECIFICATION Spec
CHECK_DEADLOCK FALSE
INVARIANT LinesWritten
INVARIANT BootLoaderRestored
INVARIANT GameRules
INVARIANT RoundsCounted
