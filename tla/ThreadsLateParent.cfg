\* One job at a time, nothing fails.
SPECIFICATION Spec
CONSTANTS
    Epochs = {0}
    Mailboxes <- LateMail
    Slots = 1
    MaxRebuilds = 0
    MaxBreaks = 0
PROPERTIES ThreadedStaysThreaded
CHECK_DEADLOCK FALSE
