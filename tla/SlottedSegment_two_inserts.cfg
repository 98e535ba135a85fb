CONSTANTS
    BlockSize = 10
    HeaderSize = 3
    SlotSize = 2
    SizeModulus = 1000
    Units = {a, b}
    a = a
    b = b
    Junk = Junk
    PageIDs = {0, 1}
    NoTID = NoTID
    Threads = {t1, t2}
    t1 = t1
    t2 = t2
    NoThread = NoThread
    Ops <- InsertOnly
    Records <- ShortAndLong
    RecordLength = 1
    MaxLive = 4
SPECIFICATION Spec
INVARIANT TidsNotOverwritten
CHECK_DEADLOCK FALSE
