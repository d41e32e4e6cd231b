\* Every function, every outcome of its calls, and another thread's QUIT.
SPECIFICATION Spec
CONSTANTS
    Bodies = {"call", "operand", "safe", "empty"}
    Recovers = {"none", "call", "return", "empty"}
    Alwayses = {"none", "call", "return", "empty"}
    Withs = {TRUE, FALSE}
    Nestings = {"body", "recover", "always"}
    Tails = {"call"}
    Requests = {"break", "quit"}
    MaxRequests = 2
    Polls = TRUE
INVARIANTS
    FrameAsCompiled
    BreakDelivered
    AlwaysOnce
    ReturnClean
PROPERTY
    RequestsKept
\* The function returns.
CHECK_DEADLOCK FALSE
