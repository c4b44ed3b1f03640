CONSTANTS
  OS_MAX_TASKS = 5
  OS_NUM_MUTEX = 2
  NUM_DEVICES = 2
  dev_freq <- MCdev_freq
  MaxTickLag = 2
  TaskSetSizes = {1, 2, 3}
  NULL = NULL
SPECIFICATION Spec
INVARIANT TypeOK
INVARIANT HolderIsRunning
INVARIANT RaisedExactlyWhileHolding
INVARIANT NoTaskLost
PROPERTY OnlyUnlockDelaysPreemption
PROPERTY ImplementsScheduler
PROPERTY WokenByOwnDevice
PROPERTY EventuallyWoken
