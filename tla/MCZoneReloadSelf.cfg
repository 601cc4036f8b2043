SPECIFICATION Spec
CONSTANTS
    a = a
    b = b
    Zones = {a}
    Reloads = {a}
    Locks = {a}
    Self = {a}
    Targets <- BackHere
    Queries = {q1}
    Serials = {1, 2}
    FirstSerial = 1
    maxreentries = 1
    Edited = {a}
    MaxEdits = 1
    q1 = q1
    q2 = q2
PROPERTIES
    QueriesFinish
CHECK_DEADLOCK FALSE
