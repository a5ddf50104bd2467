\* More packages than the log queue holds, and more debug messages than the shell's queue.
SPECIFICATION Spec
CONSTANTS
    PackLen = 1
    LogLen = 2
    MsgLen = 1
    MaxPackages = 5
INVARIANTS
    TypeOK
    BlocksOwnedOnce
    LogCompleteAndOrdered
PROPERTIES
    QueuesDrain
