SPECIFICATION FairSpec
CONSTANTS
    m1 = m1
    m2 = m2
    TransferFrom <- TwoMasters
    Peers = {m1}
    Notifies = {n1}
    Updater = u
    Faults <- SomeFaults
    Parts = 2
    SerialMod = 8
    FirstSerial = 7
    MaxPublish = 1
    None = None
INVARIANTS TypeOK LiveIsComplete DataForSOA
PROPERTIES Converges UnreachableExpires
