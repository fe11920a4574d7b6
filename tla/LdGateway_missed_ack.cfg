\* No answer to a heartbeat.
CONSTANTS
    w1 = w1
    w2 = w2
    Wsis <- MCOneWsi
    NULL = NULL
    Mixed = Mixed
    Capacity = 2
    HbMax = 2
    CloseCodes = {}
    Fragmented = {"HELLO", "ACK", "READY", "DISPATCH", "INVALID", "CONTROL", "BAD"}
    UninitOutcomes = {"identify"}
    AppMayConnect = FALSE
SPECIFICATION FairSpec
PROPERTY
    MissedAckDisconnects
