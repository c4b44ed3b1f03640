CONSTANTS
  OS_MAX_TASKS = 8
  OS_NUM_MUTEX = 3
  NUM_DEVICES = 4
  dev_freq <- MCdev_freq
  MaxTickLag = 1
  TaskSetSizes = {1, 2, 3, 4, 6}
  NULL = NULL
  NUM_TASK = 6
  ITE = 3
SPECIFICATION SpecUser
CHECK_DEADLOCK FALSE
INVARIANT TestsSucceed
