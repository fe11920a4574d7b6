\* Two contexts one after the other, each with its bootstrap, its connections (one at a
\* time) and its cleanup.
CONSTANTS
    DecrefOutcomes = {"survives"}
    AppSendsEarly = FALSE
    AppGetsLate = FALSE
    MaxContexts = 2
    MaxLost = 1
    Capacity = 1
    w1 = w1
    Wsis <- MCWsis
    Infos <- MCInfos
    NULL = NULL
    Mixed = Mixed
    HbMax = 2
    CloseCodes = {4000}
    Fragmented = {"READY", "INVALID"}
    UninitOutcomes = {"identify"}
SPECIFICATION ClientSpec
VIEW MCView
INVARIANTS
    ClientTypeOK
    CallbacksHaveContext
PROPERTIES
    ImplementsContext
    GatewayInEveryContext
