\* Two processes that stall, expire and restart late under fair loops, with one
\* or two model jobs, one of them under a backfill hold, and either an index
\* projection or one or two crashes, settlement outages, deferrals or retries.
SPECIFICATION FairSpec
CONSTANTS
    Jobs = {1, 2, 3}
    Kind <- MCKind
    Held = {2}
    Procs = {p1, p2}
    NoProc = none
    Scopes <- MCScopes
    LeaseTime = 2
    Backoff <- MCBackoff
    MaxAttempts = 2
    DayWait = 1
    MaxEvents = 2
CONSTRAINT OneDimension
CHECK_DEADLOCK FALSE
INVARIANTS OneLiveModelJob NewestClaimCommits AutomaticAttempts
PROPERTIES UnknownStaysBlocked ImplementsModelLane WaitingJobsAreClaimed
