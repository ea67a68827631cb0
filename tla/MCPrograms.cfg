SPECIFICATION Spec
CONSTANTS
    TDTP_MAX_DATA_SIZE = 2
    CLI_MAX_RD_TIMEOUTS = 5
    CLI_MAX_UNEXP_BLOCKS = 3
    DevFileSize = 5
    Known = Known
    Unknown = Unknown
    SRV_MAX_TX = 3
    SRV_MAX_RD_TIMEOUTS = 5
    SRV_RD_MAX_BAD_BLK = 1
    MAX_NUM_UNEXP_BLK = 5
    SendSizes = {0, 2, 5}
    MaxSessions = 2
    MaxFaults = 3
    MAX_TX = 2
    MaxSamples = 3
    MaxDaqFaults = 3
    Workers = {1, 2}
    Conns = {1, 2, 3}
    NoConn = NoConn
    MaxResets = 1
    Requests <- MCRequests
    HTTPD_RX_BUF_SIZE = 7
    FIELD1_MAX_LEN = 1
    SLIPM_CRC_LEN = 2
    TX_BUF_SIZE = 4
    Frames <- MCFrames
INVARIANTS FileWhole SamplesKept HttpAnswered FramesWhole
PROPERTIES SessionsEnd
CHECK_DEADLOCK FALSE
