\* An ONLY_SEND_OUT_NEW_PACKAGES device with a second connection to fall back to.
SPECIFICATION LinkSpec
CONSTANTS
    NumUarts = 2
    PrioWirelessConnDev <- FallbackPrio
    SendCntWirelessConnDev <- SendOnce
    ResendDelayWirelessConnDev <- DelayZero
    DelayDismissOldPackagePerDev <- DismissOne
    SendAckPerWirelessConn <- AckEverywhere
    PackNumberingProcessingMode <- OnlyNewMode
    QueueLen = 1
    MaxUnack = 2
    LinkLen = 1
    RecvLen = 1
    ReorderLen = 2
    MaxPack = 2
    NoPackage = NoPackage
    NoFrame = NoFrame
    MaxRestarts = 0
INVARIANTS
    RxTypeOK
    OnlyNewIncreases
    AckMeansKept
    ScansSeeEverything
