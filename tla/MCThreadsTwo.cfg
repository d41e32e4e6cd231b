\* Two threads in hb_threadWait, and one that collects.
SPECIFICATION FairSpec
CONSTANTS
    m = m
    t1 = t1
    t2 = t2
    Thread = {m, t1, t2}
    Main = m
    NoThread = nobody
    Programs <- Two
    SharedHandles = FALSE
    SharedArrays = FALSE
PROPERTY StopIsGranted
\* Threads may have no more calls to make.
CHECK_DEADLOCK FALSE
