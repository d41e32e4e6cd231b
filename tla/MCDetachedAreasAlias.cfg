\* Two areas of one alias.
SPECIFICATION Spec
CONSTANTS
    m = m
    t1 = t1
    t2 = t2
    Thread = {m, t1, t2}
    Main = m
    NoThread = nobody
    Area = {a1, a2}
    NoArea = noarea
    Alias = {x}
    NoAlias = noalias
    Programs <- All
INVARIANT AliasFindsArea
CHECK_DEADLOCK FALSE
