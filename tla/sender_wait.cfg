\* Two WAIT_FOR_ACK devices that share one wireless connection.
SPECIFICATION Spec
CONSTANTS
    NumUarts = 2
    PrioWirelessConnDev <- SharedPrio
    SendCntWirelessConnDev <- SendTwice
    ResendDelayWirelessConnDev <- DelayOne
    DelayDismissOldPackagePerDev <- DismissTwo
    SendAckPerWirelessConn <- AckEverywhere
    PackNumberingProcessingMode <- AllWait
    QueueLen = 3
    MaxUnack = 2
    LinkLen = 2
    MaxPack = 2
    NoPackage = NoPackage
INVARIANTS
    StopAndWait
    PayloadOwnedOnce
    PipelineInOrder
