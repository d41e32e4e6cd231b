\* One thread whose destructors store no reference anywhere.
SPECIFICATION Spec
CONSTANTS
    Thread = {t1}
    NoThread = nobody
    Block = {b1, b2, b3}
    NoBlock = none
    Statics = statics
    CCode = ccode
    Programs <- Calm
    MaxFrames = 4
    MaxLocked = 1
SYMMETRY Symmetry
INVARIANT NoFalseAlarm
CHECK_DEADLOCK FALSE
