\* A foreign thread attaches itself while another collects garbage.
SPECIFICATION FairSpec
CONSTANTS
    Thread = {m, e1}
    Main = m
    Foreign = {e1}
    Straight = {}
    Killable = {}
    Forcing = {}
    NoThread = nobody
    ExitMayStart = FALSE
    MaxUnlock = 1
PROPERTY SuspendAnswered
