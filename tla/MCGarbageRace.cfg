\* Two threads whose destructors store references.
SPECIFICATION Spec
CONSTANTS
    Thread = {t1, t2}
    NoThread = nobody
    Block = {b1}
    NoBlock = none
    Statics = statics
    CCode = ccode
    Programs <- Storing
    MaxFrames = 4
    MaxLocked = 1
SYMMETRY Symmetry
INVARIANT LinksLoose
CHECK_DEADLOCK FALSE
