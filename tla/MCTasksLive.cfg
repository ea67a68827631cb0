SPECIFICATION FairSpec
CONSTANTS
  A = A
  B = B
  C = C
  Tasks = {A, B, C}
  TimerTask = TimerTask
  IdleTask = IdleTask
  NoTask = NoTask
  TN_NUM_PRIORITY = 4
  BasePriority <- MCLiveBasePriority
  WaitQueues = {}
  NoQueue = NoQueue
  Timeouts <- MCLiveTimeouts
  SlicePriorities = {2}
  Slices <- MCSlices
  Services <- MCLivenessServices
  TickOverrun = FALSE
PROPERTIES
  SleepEnds
  RoundRobinFair
