SPECIFICATION XVMSpec
CONSTANTS
    Bodies = {"call"}
    Recovers = {"none", "call"}
    Alwayses = {"none", "call"}
    Withs = {FALSE}
    Nestings = {}
    Tails = {"call"}
    Requests = {}
    MaxRequests = 0
    Polls = TRUE
INVARIANT ReturnClean
CHECK_DEADLOCK FALSE
