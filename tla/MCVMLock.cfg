\* Main, two HVM threads and a thread of the host program, safety.
SPECIFICATION Spec
CONSTANTS
    Thread = {m, t1, t2, e1}
    Main = m
    Foreign = {e1}
    Straight = {}
    Killable = {t1, t2}
    Forcing = {m, t1, t2, e1}
    NoThread = nobody
    ExitMayStart = TRUE
    MaxUnlock = 2
SYMMETRY Symmetry
INVARIANTS
    CountsExact
    NoLostWakeup
PROPERTIES
    JoinReturnsAlone
    StopsTheWorldSpec
