SPECIFICATION MCSpec
CHECK_DEADLOCK FALSE
CONSTANTS
  rx = rx
  app = app
  p1 = p1
  p2 = p2
  p3 = p3
  Senders = {rx, app}
  RxTask = rx
  Rank <- MCRank
  Packets = {p1, p2, p3}
  NoPacket = NoPacket
  Frags <- MCFrags
  num_tx_descr = 3
  TxQueueSize = 2
  RxQueueSize = 2
INVARIANTS
  OneUser
  FrameKept
PROPERTY
  PacketsLeave
