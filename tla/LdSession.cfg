\* A ring of two payloads, a HELLO with an interval and one without, a clock that
\* runs past both and is set back, sessions of up to two dispatches.
CONSTANTS
    NULL = NULL
    JsonNull = JsonNull
    Garbage = Garbage
    token = token
    DiscordEpoch = 1420070
    Context <- MCContext
    Capacity = 2
    HbMax = 2
    Intervals = {0, 2000}
    DefaultInterval = 1500
    Modulus = 100
    ServiceGap = 1
    UninitOutcomes = {"identify", "error", "crash"}
    MaxClock = 4
    MaxAge = 4
    MaxSeq = 2
SPECIFICATION Spec
INVARIANTS
    TypeOK
    SeqIsCurrent
    HeartbeatsOnTime
    GatewayPromises
PROPERTY ImplementsGateway
