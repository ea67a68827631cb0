SPECIFICATION MCSpec
CONSTANTS
  p1 = p1
  p2 = p2
  p3 = p3
  h1 = h1
  h2 = h2
  h3 = h3
  rx = rx
  app = app
  Senders = {rx, app}
  RxTask = rx
  Hosts = {h1, h2, h3}
  MyAddr = MyAddr
  AnyAddr = AnyAddr
  Packets = {p1, p2, p3}
  NoPacket = NoPacket
  capacity = 2
  ARP_MAX_TRIES = 1
  ARP_TIME_DOWN = 1
  ARP_TIME_KEEP = 1
  MaxTime = 2
  MaxSpoilt = 1
SYMMETRY Interchangeable
INVARIANTS
  OneOwner
  RightHost
PROPERTIES
  FreshAddress
VIEW Relevant
