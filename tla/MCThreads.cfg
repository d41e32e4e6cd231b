\* Main and two threads; main alone calls hb_threadWait.
SPECIFICATION FairSpec
CONSTANTS
    m = m
    t1 = t1
    t2 = t2
    Thread = {m, t1, t2}
    Main = m
    NoThread = nobody
    Programs <- Mixed
    SharedHandles = FALSE
    SharedArrays = FALSE
INVARIANTS
    NoMissedEnd
    HandleOnce
    NoStaleObject
PROPERTY StopIsGranted
\* Main may wait for ever for a thread that does.
CHECK_DEADLOCK FALSE
