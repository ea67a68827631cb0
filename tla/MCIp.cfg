\* Two datagrams of four units, an echo request and one for a port nobody has, for
\* packets of one to four units, and memory for two datagrams in fragments, or not quite
SPECIFICATION Spec
CONSTANTS
  NUM_SMALL_BUF = 9
  NUM_DRV_SMALL_BUF = 2
  NUM_DRV_MID1_BUF = 6
  MID1_BUF_SIZE = 2
  NumDatagrams = 2
  Units = 4
  MTUs = {1, 2, 3, 4}
  IP4_REASM_PACKETS = 1
  IP4_MAX_REASM_FRAGMENTS = 2
  IPFRAGTTL = 2
  NUM_FRAG_BUF = 2
  MID1_UNITS = 3
  Echo = {1}
  NoPort = {2}
  MaxPackets = 3
INVARIANTS
  MbufsCounted
  FragmentsRight
  DeliveredWhole
  AnswersRight
  TimerRuns
CHECK_DEADLOCK FALSE
