\* A device whose packages are to be put back into order.
SPECIFICATION LinkSpec
CONSTANTS
    NumUarts = 2
    PrioWirelessConnDev <- SinglePrio
    SendCntWirelessConnDev <- SendTwice
    ResendDelayWirelessConnDev <- DelayOne
    DelayDismissOldPackagePerDev <- DismissTwo
    SendAckPerWirelessConn <- AckEverywhere
    PackNumberingProcessingMode <- ReorderMode
    QueueLen = 2
    MaxUnack = 2
    LinkLen = 1
    RecvLen = 1
    ReorderLen = 2
    MaxPack = 1
    NoPackage = NoPackage
    NoFrame = NoFrame
    MaxRestarts = 0
INVARIANTS
    AckMeansKept
