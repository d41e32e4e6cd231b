\* Main and two threads, safety and liveness.
SPECIFICATION FairSpec
CONSTANTS
    m = m
    t1 = t1
    t2 = t2
    Thread = {m, t1, t2}
    Main = m
    NoThread = nobody
    Area = {a1, a2}
    NoArea = noarea
    Alias = {x}
    NoAlias = noalias
    Programs <- All
INVARIANTS
    NoLostArea
    AreasKept
PROPERTY WaiterServed
\* Main may wait for ever for a thread that waits for an area.
CHECK_DEADLOCK FALSE
