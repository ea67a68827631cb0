SPECIFICATION DhcpSpec
CONSTANTS
  s1 = s1
  s2 = s2
  Servers = {s1, s2}
  NoServer = NoServer
  Offers <- MCOffers
  RxQueueSize = 4
  UINT_MOD = 128
  Xids = {1, 2, 3, 4, 5, 6, 7}
  MaxDhcpFaults = 2
INVARIANT
  LeaseValid
PROPERTY
  Leased
