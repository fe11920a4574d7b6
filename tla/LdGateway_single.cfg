\* Only ld_service connects; every close code and every outcome of the uninitialised read;
\* under fairness, without symmetry.
CONSTANTS
    w1 = w1
    w2 = w2
    Wsis <- MCWsis
    NULL = NULL
    Mixed = Mixed
    Capacity = 3
    HbMax = 3
    CloseCodes = {1000, 4000}
    Fragmented = {"HELLO", "ACK", "READY", "DISPATCH", "INVALID", "CONTROL", "BAD"}
    UninitOutcomes = {"identify", "error", "crash"}
    AppMayConnect = FALSE
SPECIFICATION FairSpec
INVARIANTS
    TypeOK
    OneGatewayConnection
    HelloAnswered
    FragmentsReassemble
    ClientCanStep
PROPERTIES
    ConnectionsSettle
    HelloIsAnswered
