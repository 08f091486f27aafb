\* Two processes on one unit, each any number of times, one of which may die:
\* two attempts, a primary request and a repair each.
SPECIFICATION Spec
CONSTANTS
    Runners = {r1, r2}
    Nobody = nobody
    Answers = {"valid", "invalid", "empty"}
    MaxAttempts = 2
    MaxCrashes = 1
INVARIANTS AcceptedIsSound CompletedIsAnswered
PROPERTY ImplementsProviderCalls
SYMMETRY Sym
\* A stage that failed for good, or completed, is left alone.
CHECK_DEADLOCK FALSE
