CONSTANTS
  OS_MAX_TASKS = 4
  OS_NUM_MUTEX = 2
  NUM_DEVICES = 2
  dev_freq <- MCdev_freq
  MaxTickLag = 1
  NULL = NULL
  TaskSetSizes = {1, 2}
SPECIFICATION SpecRe
INVARIANT BlockedTaskStopped
