CONSTANTS
    Runs <- MCRuns
    Executors = {x1, x2}
    Calls <- MCCalls
    CallsOf <- MCCallsOf
    Writes <- MCWrites
    ModelLimit = 2
    ToolLimit = 1
    MaxEvents = 1
SPECIFICATION Spec
INVARIANTS
    NewestRunOnly
    AnsweredOnce
    BudgetKept
    ReceiptsLead
PROPERTIES
    ClosedForGood
    StoppedIsStill
    FinishStopsWork
SYMMETRY MCSymmetry
\* A thread whose runs are all closed has nothing left to do.
CHECK_DEADLOCK FALSE
