\* Two publishers that share a file and contend for a version, two attempts
\* each, against two collectors, or against one and a crash or a lost session of
\* any process; when they are done, against both.
SPECIFICATION FairSpec
CONSTANTS
    Contents = {"a", "b"}
    Slots <- MCSlots
    Publishers = {"p1", "p2"}
    Batch <- MCBatch
    Collectors = {"g1", "g2"}
    Droppable = {"p1", "p2", "g1", "g2"}
    Nobody = Nobody
    Nothing = Nothing
    MaxAttempts = 2
    MaxFiles = 5
    MaxSweeps = 1
    MaxFaults = 1
CONSTRAINT OneDimension
INVARIANT OnlyStraysLoseFiles
PROPERTIES OnlyGarbageUnlinked ImplementsArchive EveryPublisherEnds
CHECK_DEADLOCK FALSE
