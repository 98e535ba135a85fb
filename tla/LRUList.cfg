SPECIFICATION Spec
CONSTANTS
    p1 = p1
    p2 = p2
    p3 = p3
    p4 = p4
    Pages = {p1, p2, p3, p4}
    NULL = NULL
    MaxUsers = 2
INVARIANTS TypeOK WellLinked
PROPERTY ImplementsLRUQueue
