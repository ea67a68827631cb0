SPECIFICATION Spec
CONSTANTS
  A = A
  B = B
  C = C
  Tasks = {A, B}
  TimerTask = TimerTask
  IdleTask = IdleTask
  NoTask = NoTask
  TN_NUM_PRIORITY = 4
  BasePriority <- MCBasePriority
  WaitQueues = {}
  NoQueue = NoQueue
  Timeouts <- MCTimeouts
  SlicePriorities = {0}
  Slices <- MCSlices
  Services <- MCAllServices
  TickOverrun = TRUE
INVARIANTS
  SchedInv
  OnlyRunnableRuns
  HighestPriorityRuns
  OnlyCreatedScheduled
  CursorInList
