CONSTANTS
    BlockSize = 9
    HeaderSize = 3
    SlotSize = 2
    SizeModulus = 1000
    Units = {a, b}
    a = a
    b = b
    Junk = Junk
    PageIDs = {0,1}
    NoTID = NoTID
    Threads = {t1, t2}
    t1 = t1
    t2 = t2
    NoThread = NoThread
    Ops <- WriterAndReader
    Records <- EmptyShortAndLong
    RecordLength = 1
    MaxLive = 2
SPECIFICATION Spec
INVARIANTS SpaceAccounted FirstFreeRight RecordsApart NothingLost
PROPERTIES ImplementsRecordStore LookupReturnsRecord ScanSeesUntouched
CHECK_DEADLOCK FALSE
