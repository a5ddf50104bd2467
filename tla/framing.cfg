\* Packages full of START and REP bytes over a queue that is too short for the second one
\* when it is not emptied, and a wire that loses a byte.
SPECIFICATION Spec
CONSTANTS
    Packages <- TrickyPackages
    MaxPayload = 6
    TxLen = 30
    MaxSent = 3
    MaxLost = 2
INVARIANTS
    TypeOK
    UndamagedStream
    ShortPackagesDropped
PROPERTIES
    PlainHeaderResynchronises
CHECK_DEADLOCK FALSE
