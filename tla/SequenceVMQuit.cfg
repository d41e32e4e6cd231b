SPECIFICATION Spec
CONSTANTS
    Bodies = {"call"}
    Recovers = {"none", "call"}
    Alwayses = {"none", "call"}
    Withs = {FALSE}
    Nestings = {}
    Tails = {"call"}
    Requests = {}
    MaxRequests = 0
    Polls = TRUE

PROPERTY QuitKept
CHECK_DEADLOCK FALSE
