SPECIFICATION FairSpec
CONSTANTS
    RunBound = 2
    JobBound = 9
    MaxAttempts = 2
    Patches <- SomePatches
    Versions <- SomeVersions
    ChunkSize = 2
    ThreadDocs = 2
    SeriesDocs = 2
    Known = {1, 2, 3}
    Changed = {1, 4}
    DocChunk = 1
    Setups <- AllSetups
    Histories <- SomeHistories
INVARIANTS TypeOK NothingMissed RollupsAgree SucceededCoversDocs IndexCurrent
PROPERTIES CanonicalStays EveryRunEnds
CHECK_DEADLOCK FALSE
