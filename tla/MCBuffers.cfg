SPECIFICATION BuffersSpec
CONSTANTS
  A = A
  B = B
  Tasks = {A, B}
  TimerTask = TimerTask
  IdleTask = IdleTask
  NoTask = NoTask
  TN_NUM_PRIORITY = 4
  BasePriority <- MCBasePriority
  WaitQueues = {SendQueue, ReceiveQueue, MemQueue}
  NoQueue = NoQueue
  Timeouts <- MCTimeouts
  SlicePriorities = {}
  Slices = {}
  Services <- MCServices
  TickOverrun = FALSE
  SendQueue = SendQueue
  ReceiveQueue = ReceiveQueue
  MemQueue = MemQueue
  Data = {d1, d2}
  NoData = NoData
  Deletable = {SendQueue, MemQueue}
  num_entries = 2
  num_blocks = 2
  Isr = Isr
INVARIANTS
  NobodyWaitsInVain
  NobodyWaitsForFree
PROPERTIES
  FlowImplemented
