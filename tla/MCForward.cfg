SPECIFICATION FairSpec
CONSTANTS
    u1 = u1
    u2 = u2
    Proxies <- OneProxy
    Requests = {r1, r2}
    Goroutines = {g1}
    Policies = {"sequential"}
    MaxFails = 1
    FailsMod = 3
    RobinMod = 3
    ForceTCP = FALSE
    PreferUDP = TRUE
INVARIANTS TypeOK FailedUpstreamIsProbed
PROPERTIES Recovers EveryRequestEnds
