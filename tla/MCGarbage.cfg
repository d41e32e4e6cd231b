\* One thread whose destructors store references; two whose do not.
SPECIFICATION Spec
CONSTANTS
    Thread = {t1, t2}
    NoThread = nobody
    Block = {b1, b2}
    NoBlock = none
    Statics = statics
    CCode = ccode
    Programs <- Quiet
    MaxFrames = 4
    MaxLocked = 2
SYMMETRY Symmetry
INVARIANTS
    NoDanglingItem
    CountCovers
    NoDanglingCall
    NoLeak
    DestructorOnce
PROPERTY SweepExact
CHECK_DEADLOCK FALSE
