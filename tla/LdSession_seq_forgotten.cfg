\* One session of two dispatches, a heartbeat and its acknowledgement.
CONSTANTS
    NULL = NULL
    JsonNull = JsonNull
    Garbage = Garbage
    token = token
    DiscordEpoch = 1420070
    Context <- MCContext
    Capacity = 2
    HbMax = 2
    Intervals = {2000}
    DefaultInterval = 1500
    Modulus = 100
    ServiceGap = 1
    UninitOutcomes = {"identify"}
    MaxClock = 3
    MaxAge = 3
    MaxSeq = 2
SPECIFICATION Spec
INVARIANT LastSeqIsLast
