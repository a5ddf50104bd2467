\* A WAIT_FOR_ACK device with one wireless connection implements DeviceStreams, also when the
\* sending switch restarts.
SPECIFICATION LinkSpec
CONSTANTS
    NumUarts = 2
    PrioWirelessConnDev <- SinglePrio
    SendCntWirelessConnDev <- SendTwice
    ResendDelayWirelessConnDev <- DelayOne
    DelayDismissOldPackagePerDev <- DismissTwo
    SendAckPerWirelessConn <- AckEverywhere
    PackNumberingProcessingMode <- WaitMode
    QueueLen = 2
    MaxUnack = 1
    LinkLen = 2
    RecvLen = 1
    ReorderLen = 2
    MaxPack = 2
    NoPackage = NoPackage
    NoFrame = NoFrame
    MaxRestarts = 1
INVARIANTS
    NothingVanishes
    AckMeansKept
PROPERTIES
    StreamSpec
