\* Straight-line code against the interpreter.
SPECIFICATION HandledSpec
CONSTANTS
    Bodies = {"call", "safe", "operand"}
    Recovers = {"none", "call", "return", "safe", "operand"}
    Alwayses = {"none", "call", "safe"}
    Withs = {FALSE, TRUE}
    Nestings = {"body", "recover", "always"}
    Tails = {"call", "empty"}
    Requests = {"break", "quit"}
    MaxRequests = 3
PROPERTY
    Implements
\* The function returns.
CHECK_DEADLOCK FALSE
