\* Two contexts of one program, whose application posts and gets whenever it likes.
CONSTANTS
    DecrefOutcomes = {"survives", "crash"}
    AppSendsEarly = TRUE
    AppGetsLate = TRUE
    MaxContexts = 2
    MaxLost = 1
SPECIFICATION ContextSpec
INVARIANTS
    ContextTypeOK
    ConnectHasUrl
    CleanupReleases
    FieldsObtainedOnce
