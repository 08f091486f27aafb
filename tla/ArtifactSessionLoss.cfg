\* Two publishers and a collector whose session may end between its check and
\* the unlink.
SPECIFICATION Spec
CONSTANTS
    Contents = {"a", "b"}
    Slots <- MCSlots
    Publishers = {"p1", "p2"}
    Batch <- MCBatch
    Collectors = {"g1"}
    Droppable = {"g1"}
    Nobody = Nobody
    Nothing = Nothing
    MaxAttempts = 2
    MaxFiles = 5
    MaxSweeps = 1
    MaxFaults = 1
INVARIANT NoDangling
\* Publishers that are done and a collector that has run stop.
CHECK_DEADLOCK FALSE
