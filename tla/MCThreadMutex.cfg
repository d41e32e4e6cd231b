\* Main and two threads, every call, safety.
SPECIFICATION Spec
CONSTANTS
    Thread = {m, t1, t2}
    Main = m
    NoThread = nobody
    Lockers = {m, t1, t2}
    Notifiers = {t1, t2}
    Subscribers = {m, t1, t2}
    Clearers = {m}
    LockWaits = {"forever", "timed", "now"}
    Waits = {"forever", "timed", "now"}
    Terminates = TRUE
    MaxLock = 2
    MaxEvents = 2
SYMMETRY Symmetry
INVARIANTS
    LockHeld
    CountsExact
    NoLostUnlock
    NoLostEvent
PROPERTY NotificationsKept
\* hb_vmTerminateThreads can deadlock: see MCThreadMutexOrder.cfg.
CHECK_DEADLOCK FALSE
