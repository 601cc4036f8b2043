SPECIFICATION Spec
CONSTANTS
    a = a
    b = b
    Zones = {a, b}
    Reloads = {a, b}
    Locks = {a, b}
    Self = {a, b}
    Targets <- Onwards
    Queries = {q1, q2}
    Serials = {1, 2}
    FirstSerial = 1
    maxreentries = 1
    Edited = {a}
    MaxEdits = 1
    q1 = q1
    q2 = q2
INVARIANTS
    TypeOK
    OneVersion
    NotifiedIsServed
PROPERTIES
    FileServed
    QueriesFinish
    ShutdownFinishes
