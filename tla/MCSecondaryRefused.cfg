SPECIFICATION FairSpec
CONSTANTS
    m1 = m1
    m2 = m2
    TransferFrom <- OneMaster
    Peers = {m1}
    Notifies = {n1}
    Updater = u
    Faults <- AllFaults
    Parts = 1
    SerialMod = 8
    FirstSerial = 7
    MaxPublish = 1
    None = None
PROPERTY FailingExpires
