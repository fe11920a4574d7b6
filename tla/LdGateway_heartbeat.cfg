\* The application may call ld_connect at any time: two connections share one context.
CONSTANTS
    w1 = w1
    w2 = w2
    Wsis <- MCWsis
    NULL = NULL
    Mixed = Mixed
    Capacity = 2
    HbMax = 3
    CloseCodes = {4000}
    Fragmented = {"ACK"}
    UninitOutcomes = {"identify", "error"}
    AppMayConnect = TRUE
SPECIFICATION Spec
INVARIANTS
    OneHeartbeatOutstanding
    NothingBeforeFirstHello
    MissedAckStopsService
PROPERTIES
    HeartbeatsAreMonitored
SYMMETRY MCSymmetry
