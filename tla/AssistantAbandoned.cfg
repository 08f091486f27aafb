CONSTANTS
    Runs <- MCOneRun
    Executors = {x1}
    Calls <- MCCalls
    CallsOf <- MCAnyCall
    Writes <- MCWrites
    ModelLimit = 3
    ToolLimit = 2
    MaxEvents = 1
SPECIFICATION Spec
INVARIANT FinishAttended
\* A thread whose runs are all closed has nothing left to do.
CHECK_DEADLOCK FALSE
