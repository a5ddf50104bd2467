\* The calls of the SPI task from its initialisation on, with the interrupts at any time.
SPECIFICATION Spec
INVARIANTS
    TypeOK
    OneBlockAtATime
    BuffersKept
    BurstKeepsSlave
PROPERTIES
    ReadsAnsweredOnceInStep
    TransfersReturn
