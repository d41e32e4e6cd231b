SPECIFICATION Spec
CONSTANTS
    a1 = a1
    a2 = a2
    Area = {a1, a2}
    NoArea = nobody
    uiSetHeader <- SetHeaders
    WritesFail = {a1}
    Existing = 0
    MaxRec = 2
    MaxKey = 2
    MaxLocks = 1

INVARIANT UpdatesKept

