CONSTANTS
  OS_MAX_TASKS = 16
  NULL = NULL
  UsedPrios = {0, 1, 7, 8, 15}
  OSCR_RANGE = 16
  MaxIrqGap = 3
  HandlerTicks = 1
  StartTimes = {0, 2, 5, 12, 15}
  MaxTicks = 36
  MS_RANGE = 16
  WrapWindow = 4
  Gaps = {2, 4, 20}
  Boots = {0, 1, 3, 4, 7, 12, 15, 18}
  MaxMillis = 52
  Tasks = {t1, t2, t3}
  Idle = idle
SPECIFICATION ServicesSpec
CHECK_DEADLOCK FALSE
INVARIANT BitsMatchList
PROPERTY ImplementsReadyQueue
INVARIANT RolloversAccounted
INVARIANT NeverCountedTwice
PROPERTY ReadingIsTime
INVARIANT SleepsAsAsked
INVARIANT InterruptsOnInUser
INVARIANT FramesNest
INVARIANT OwnStack
