SPECIFICATION FairSpec
CONSTANTS
    t1 = t1
    t2 = t2
    p1 = p1
    p2 = p2
    p3 = p3
    s1 = s1
    s2 = s2
    v0 = v0
    v1 = v1
    Threads = {t1, t2}
    Pages = {p1, p2, p3}
    Values = {v0}
    InitValue = v0
    Garbage = Garbage
    None = None
    Segments = {s1, s2}
    SegmentOf <- MCSegmentOf
    Modes <- AnyMode
    MaxSize = 2
    Faults = {}
    Flushes = FALSE
    JoinFirst = TRUE
INVARIANTS TypeOK NoDanglingFrame PinAccounting BoundedFrames NeverFails
PROPERTY Progress
