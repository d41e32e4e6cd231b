SPECIFICATION Spec
CONSTANTS
    p1 = p1
    p2 = p2
    t1 = t1
    t2 = t2
    t3 = t3
    Process = {p1, p2}
    Thread = {t1, t2, t3}
    NoThread = nobody
    MaxEnd = 8
    home <- Homes
    Ranges <- AllRanges
    Modes = {"read", "readwrite"}
    LockModes = {"read", "readwrite"}
SYMMETRY Symmetry
INVARIANT LocksAgree
