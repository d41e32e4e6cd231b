\* A notification at shutdown while another thread waits.
SPECIFICATION FairSpec
CONSTANTS
    Thread = {m, t1, t2}
    Main = m
    NoThread = nobody
    Lockers = {}
    Notifiers = {t1}
    Subscribers = {t2}
    Clearers = {}
    LockWaits = {"forever", "timed", "now"}
    Waits = {"timed"}
    Terminates = TRUE
    MaxLock = 1
    MaxEvents = 1
PROPERTIES
    TerminateReturns
\* The run is about the shutdown that does not end, by deadlock or not.
CHECK_DEADLOCK FALSE
