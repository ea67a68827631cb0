SPECIFICATION FairSpec
CONSTANTS
    Client = "client"
    Server = "server"
    Data <- MCData
    SEQ_MOD = 32
    MSS = 1
    SND_HIWAT = 2
    RCV_HIWAT = 2
    MAXRXTSHIFT = 1
    DUPACKS = 1
    ISS = 30
    ISSINCR = 8
    KEEPALIVE = {"server"}
    MaxFaults = 1
INVARIANTS
    StreamPrefix
    EofComplete
PROPERTY
    Delivered
CHECK_DEADLOCK FALSE
