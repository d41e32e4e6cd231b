\* Shutdown while threads wait with a time-out and for the lock.
SPECIFICATION FairSpec
CONSTANTS
    Thread = {m, t1, t2}
    Main = m
    NoThread = nobody
    Lockers = {t1, t2}
    Notifiers = {}
    Subscribers = {t1, t2}
    Clearers = {}
    LockWaits = {"forever", "timed", "now"}
    Waits = {"timed", "now"}
    Terminates = TRUE
    MaxLock = 2
    MaxEvents = 1
PROPERTIES
    LockPassedOn
    TerminateReturns
