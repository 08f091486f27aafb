\* Two processes and one task with a second call or a second attempt; with both
\* once the budget is used up.
SPECIFICATION Spec
CONSTANTS
    Tasks = {t1}
    Runners = {r1, r2}
    None = None
    MaxAttempts = 2
    MaxOps = 2
    CaseCap = 2
    RunCap = 2
SYMMETRY Alike
CONSTRAINT OneMore
INVARIANTS ReceiptTellsOutcome EnvelopeHolds AnswerIsSettled CancelSticks
PROPERTY ImplementsProviderCalls
CHECK_DEADLOCK FALSE
