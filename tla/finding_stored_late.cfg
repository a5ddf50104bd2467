\* The package handler frees a payload before the network handler has stored it.
SPECIFICATION Spec
CONSTANTS
    NumUarts = 2
    PrioWirelessConnDev <- SharedPrio
    SendCntWirelessConnDev <- SendTwice
    ResendDelayWirelessConnDev <- DelayOne
    DelayDismissOldPackagePerDev <- DismissThree
    SendAckPerWirelessConn <- AckEverywhere
    PackNumberingProcessingMode <- AllWait
    QueueLen = 2
    MaxUnack = 2
    LinkLen = 2
    MaxPack = 2
    NoPackage = NoPackage
INVARIANTS
    StoredCopyIntact
