SPECIFICATION Spec
CONSTANTS
    u1 = u1
    u2 = u2
    Proxies <- TwoProxies
    Requests = {r1}
    Goroutines = {g1, g2}
    Policies = {"random", "round_robin", "sequential"}
    MaxFails = 1
    FailsMod = 3
    RobinMod = 3
    ForceTCP = FALSE
    PreferUDP = TRUE
SYMMETRY Symmetry
INVARIANTS OneCheckInFlight DownOnlyIfAllDown FailureJustified
