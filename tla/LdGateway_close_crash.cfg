\* The gateway closes with a code that ends the session.
CONSTANTS
    w1 = w1
    w2 = w2
    Wsis <- MCOneWsi
    NULL = NULL
    Mixed = Mixed
    Capacity = 2
    HbMax = 2
    CloseCodes = {1000}
    Fragmented = {"HELLO", "ACK", "READY", "DISPATCH", "INVALID", "CONTROL", "BAD"}
    UninitOutcomes = {"identify"}
    AppMayConnect = FALSE
SPECIFICATION Spec
INVARIANT
    CloseIsSurvived
