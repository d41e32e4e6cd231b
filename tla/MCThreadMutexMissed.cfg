\* A subscription without a time-out at shutdown.
SPECIFICATION FairSpec
CONSTANTS
    Thread = {m, t1}
    Main = m
    NoThread = nobody
    Lockers = {}
    Notifiers = {}
    Subscribers = {t1}
    Clearers = {}
    LockWaits = {"forever", "timed", "now"}
    Waits = {"forever"}
    Terminates = TRUE
    MaxLock = 1
    MaxEvents = 1
PROPERTIES
    TerminateReturns
\* hb_vmTerminateThreads can deadlock: see MCThreadMutexOrder.cfg.
CHECK_DEADLOCK FALSE
