CONSTANTS
  OS_MAX_TASKS = 5
  GroupSize = 3
  NULL = NULL
  MaxTasks = 3
  Times = {1, 2, 3}
  Periods = {2, 3, 4, 6}
  Blocking = {0, 1, 2}
  Hyperperiod = 12
  LaterTimes <- MCLaterTimes
SPECIFICATION Spec
CHECK_DEADLOCK FALSE
INVARIANT DispatchFindsTask
INVARIANT ReplacedTasksGone
 
INVARIANT SortKeepsTasks
INVARIANT AdmittedIsSchedulable
PROPERTY FirstTaskCompletes
