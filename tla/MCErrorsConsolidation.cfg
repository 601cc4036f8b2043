SPECIFICATION FairSpec
CONSTANTS
    r1 = r1
    r2 = r2
    r3 = r3
    Requests <- MCRequests
    NPatterns = 2
    NoTimer = NoTimer
INVARIANTS TypeOK EveryErrorAccounted NoStrandedErrors
PROPERTY CountsGetLogged
CHECK_DEADLOCK FALSE
