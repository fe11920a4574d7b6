\* A request for /users/@me that fails, and the next ld_connect.
CONSTANTS
    DecrefOutcomes = {"survives"}
    AppSendsEarly = FALSE
    AppGetsLate = FALSE
SPECIFICATION Spec
INVARIANT
    BootstrapComplete
