SPECIFICATION Spec
CONSTANTS
    u1 = u1
    u2 = u2
    Proxies <- OneProxy
    Requests = {r1}
    Goroutines = {g1, g2}
    Policies = {"sequential"}
    MaxFails = 1
    FailsMod = 3
    RobinMod = 3
    ForceTCP = FALSE
    PreferUDP = TRUE
PROPERTY StopIsFinal
