\* Pools of up to four chunks; three threads and two addresses; four
\* elements in trees and lists.
SPECIFICATION LibrariesSpec
CONSTANTS
    MaxNrel = 4
    ENOMEM = ENOMEM
    None = None
    Threads = {t1, t2, t3}
    Addrs = {a1, a2}
    NoRecord = NoRecord
    Nodes <- MCElts
    Key <- MCKey
    Null = Null
    Elts <- MCElts
    EltKey <- MCKey
    Nil = Nil
    e1 = e1
    e2 = e2
    e3 = e3
    e4 = e4
SYMMETRY Symmetry
INVARIANTS
    LibrariesTypeOK
    FreeList
    LogTellsLive
    PointersAgree
    CirclesPassRemoved
    SlListsMembers
PROPERTIES
    ImplementsPool
    ImplementsLists
    SlOthersStay
CHECK_DEADLOCK FALSE
