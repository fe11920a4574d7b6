\* Each example program, from its first call of the library to its return.
CONSTANTS
    DecrefOutcomes = {"survives", "crash"}
    AppSendsEarly = TRUE
    AppGetsLate = TRUE
    MaxContexts = 1
    MaxLost = 1
    NULL = NULL
    JsonNull = JsonNull
    Garbage = Garbage
    DiscordEpoch = 1420070400
SPECIFICATION FairBotSpec
INVARIANTS
    BotTypeOK
    RequestsAsMade
    AnswersHumansOnly
    ReturnsCleanly
    CallbackHasUser
    ProgramCanStep
PROPERTIES
    HaltStops
    RetriesConnect
