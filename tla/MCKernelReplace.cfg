CONSTANTS
  OS_MAX_TASKS = 4
  OS_NUM_MUTEX = 2
  NUM_DEVICES = 2
  dev_freq <- MCdev_freq
  MaxTickLag = 1
  TaskSetSizes = {1, 2}
  NULL = NULL
SPECIFICATION SpecRe
INVARIANT ChainsEnd
INVARIANT SlotsKeepTheirTask
INVARIANT MutexesConsistent
