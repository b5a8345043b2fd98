\* One repo, chunks of two commits.
SPECIFICATION FairSpec
CONSTANTS
    Epochs <- OneRepo
    Messages = {m1}
    NoMail = noMail
    MaxCommits = 3
    ChunkSize = 2
    MaxAttempts = 2
    MaxBreaks = 2
INVARIANTS StoredBehindWatermark OneInstancePerCommit HandedOverIsProcessed
PROPERTIES WatermarkAdvances EverythingStored
CHECK_DEADLOCK FALSE
