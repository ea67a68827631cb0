SPECIFICATION EventSpec
CONSTANTS
  A = A
  B = B
  f1 = f1
  f2 = f2
  Tasks = {A, B}
  TimerTask = TimerTask
  IdleTask = IdleTask
  NoTask = NoTask
  TN_NUM_PRIORITY = 4
  BasePriority <- MCBasePriority
  WaitQueues = {EventQueue}
  EventQueue = EventQueue
  NoQueue = NoQueue
  Timeouts <- MCTimeouts
  SlicePriorities = {}
  Slices = {}
  Services <- MCServices
  TickOverrun = FALSE
  Flags = {f1, f2}
  Attributes <- MCAttributes
  WaitPatterns <- MCWaitPatterns
INVARIANTS
  NobodyMissesEvent
  GrantMatchesRequest
  DeliveredOnce
