\* The maintenance loop and a worker without an embedding model on one video,
\* with any two changes, removals, reorderings or rebuilds.
SPECIFICATION FairSpec
CONSTANTS
    Workers = {loop, other}
    Dense = {loop}
    Loop = loop
    Contents = {"a", "b"}
    Hidden = hidden
    Nothing = nothing
    MaxAttempts = 2
    MaxChanges = 2
INVARIANTS SearchableIsCurrent CompletedIsIndexed
PROPERTIES IntentsSettle
CHECK_DEADLOCK FALSE
