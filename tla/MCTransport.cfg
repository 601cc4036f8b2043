SPECIFICATION FairSpec
CONSTANTS
    Clients = {k1, k2}
    Conns = {c1, c2}
    Protos = {"udp", "tcp"}
    Expire = 2
    None = None
INVARIANTS TypeOK OneOwner ReplyReachesAsker
PROPERTIES OnlyExpiredDropped ExpiredGetsClosed ConnectReturns
