\* Three foreground calls that compete for one request a day, or overlapping
\* handlers of a wiki integration, a memory extraction and a source extraction.
SPECIFICATION FairSpec
CONSTANTS
    Foreground = {"f1", "f2", "f3"}
    Background = {"w1", "w2", "m1", "m2", "s1", "s2"}
    JobOf <- MCJobOf
    OneResponse = {"wiki", "memory"}
    Prechecked = {"memory"}
    Batched = {"wiki", "source"}
    Procs = {"p", "q"}
    Host <- MCHost
    LastDay = 2
    Limit <- MCLimit
    BatchLimit = 2
    MaxClaims = 2
    Usages = {0, 2}
    NoJob = NoJob
    NoAsk = NoAsk
CONSTRAINT OneLane
INVARIANTS LedgerAgrees SendsWithinDay SendsWithinBatch SentOnce
PROPERTIES ImplementsProviderCalls AnswersAreBilled
