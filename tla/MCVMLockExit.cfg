\* An EXIT procedure starts a thread, which is still there when s_fHVMActive is
\* cleared and then comes in, uncounted, while main collects garbage: both
\* invariants are violated.  TLC reports TeardownAlone, and StopsTheWorld once
\* the line of TeardownAlone is taken out.
SPECIFICATION Spec
CONSTANTS
    Thread = {m, t1}
    Main = m
    Foreign = {}
    Straight = {}
    Killable = {}
    Forcing = {}
    NoThread = nobody
    ExitMayStart = TRUE
    MaxUnlock = 1
INVARIANTS
    TeardownAlone
    StopsTheWorld
