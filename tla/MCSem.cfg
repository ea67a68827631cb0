SPECIFICATION SemSpec
CONSTANTS
  A = A
  B = B
  Tasks = {A, B}
  TimerTask = TimerTask
  IdleTask = IdleTask
  NoTask = NoTask
  TN_NUM_PRIORITY = 4
  BasePriority <- MCBasePriority
  WaitQueues = {SemQueue}
  SemQueue = SemQueue
  NoQueue = NoQueue
  Timeouts <- MCTimeouts
  SlicePriorities = {}
  Slices = {}
  Services <- MCServices
  TickOverrun = TRUE
  max_val = 1
  RecreateBusy = FALSE
INVARIANTS
  NoUnitLost
  NoIdleUnit
  DeleteUnmasks
