SPECIFICATION LLVMSpec
CONSTANTS
    Bodies = {"call"}
    Recovers = {"none"}
    Alwayses = {"call"}
    Withs = {FALSE}
    Nestings = {}
    Tails = {"call"}
    Requests = {"break"}
    MaxRequests = 1
INVARIANT AlwaysOnce
CHECK_DEADLOCK FALSE
