\* A connection with Golay code and one without, with bytes on either or both; not beyond
\* the first cut block.
SPECIFICATION Spec
CONSTANTS
    FifoSize <- SmallFifos
    QueueSize <- SmallQueues
    MaxThroughput = 3
    UseGolay = TRUE
    UseCts = FALSE
    Loads <- MixedLoads
CONSTRAINT BlocksWhole
INVARIANTS
    TypeOK
    BytesAccountedFor
    WritesFit
PROPERTIES
    WrittenWhileDisabled
    EverythingLeaves
