SPECIFICATION LLVMSpec
CONSTANTS
    Bodies = {"call"}
    Recovers = {"none"}
    Alwayses = {"none"}
    Withs = {FALSE}
    Nestings = {}
    Tails = {"call"}
    Requests = {"break"}
    MaxRequests = 1
INVARIANT BreakDelivered
CHECK_DEADLOCK FALSE
