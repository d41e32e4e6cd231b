\* Two notifiers make the queue while a third thread clears it.
SPECIFICATION Spec
CONSTANTS
    Thread = {m, t1, t2, t3}
    Main = m
    NoThread = nobody
    Lockers = {}
    Notifiers = {t1, t2}
    Subscribers = {}
    Clearers = {t3}
    LockWaits = {"forever", "timed", "now"}
    Waits = {"now"}
    Terminates = FALSE
    MaxLock = 1
    MaxEvents = 2
INVARIANTS
    QueueReady
\* Threads may have no more calls to make.
CHECK_DEADLOCK FALSE
