\* Three devices, one with a second connection to fall back to, and two slots to store in.
SPECIFICATION FairSpec
CONSTANTS
    NumUarts = 3
    PrioWirelessConnDev <- FallbackPrio
    SendCntWirelessConnDev <- SendOnceOrNever
    ResendDelayWirelessConnDev <- DelayOne
    DelayDismissOldPackagePerDev <- DismissOne
    SendAckPerWirelessConn <- AckOnZero
    PackNumberingProcessingMode <- AllIgnored
    QueueLen = 1
    MaxUnack = 2
    LinkLen = 1
    MaxPack = 1
    NoPackage = NoPackage
INVARIANTS
    TypeOK
    NoLeak
PROPERTIES
    StoredPackageSettles
