\* The C code against the interpreter.
SPECIFICATION XVMSpec
CONSTANTS
    Bodies = {"operand", "safe"}
    Recovers = {"none", "call", "return"}
    Alwayses = {"none", "call", "return"}
    Withs = {TRUE}
    Nestings = {"body", "recover", "always"}
    Tails = {"call"}
    Requests = {"break", "quit"}
    MaxRequests = 2
    Polls = TRUE
PROPERTY Implements
\* The function returns.
CHECK_DEADLOCK FALSE
