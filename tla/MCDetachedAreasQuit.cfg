\* Main asks a thread to quit that waits for an area without a time-out.
SPECIFICATION FairSpec
CONSTANTS
    m = m
    t1 = t1
    t2 = t2
    Thread = {m, t1, t2}
    Main = m
    NoThread = nobody
    Area = {a1, a2}
    NoArea = noarea
    Alias = {x}
    NoAlias = noalias
    Programs <- All
PROPERTY TerminateReturns
CHECK_DEADLOCK FALSE
