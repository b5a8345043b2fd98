\* A run and a rebuild may overlap.
SPECIFICATION Spec
CONSTANTS
    Epochs = {0, 1, 3}
    Mailboxes <- AnyMail
    Slots = 2
    MaxRebuilds = 1
    MaxBreaks = 1
INVARIANTS TypeOK SameAsBatch EveryoneInOneThread
PROPERTIES RebuildRestores
CHECK_DEADLOCK FALSE
