SPECIFICATION FairSpec
CONSTANTS
    t1 = t1
    t2 = t2
    x = x
    y = y
    Threads = {t1, t2}
    Keys = {1, 2, 3, 4}
    TIDs = {x, y}
    NoTID = NoTID
    PageIDs = {0, 1, 2, 3, 4, 5, 6, 7, 8, 9}
    LeafOrder = 2
    InnerOrder = 2
    Entries <- OneOverwritten
    Erased = {2, 3}
    LookedUp = {2, 3}
    EraseAbsent = FALSE
INVARIANTS TypeOK EntriesInReach OnTheWay SafeParents ChangesSaved LocksInHand
PROPERTIES ImplementsDictionary Progress
