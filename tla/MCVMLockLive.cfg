\* Main and two HVM threads, safety and liveness (no symmetry reduction).
SPECIFICATION FairSpec
CONSTANTS
    Thread = {m, t1, t2}
    Main = m
    Foreign = {}
    Straight = {}
    Killable = {t1}
    Forcing = {}
    NoThread = nobody
    ExitMayStart = FALSE
    MaxUnlock = 1
PROPERTIES
    SuspendAnswered
    TerminateReturns
