\* A WAIT_FOR_ACK device whose queue is full when a package is due to be resent.
SPECIFICATION Spec
CONSTANTS
    NumUarts = 2
    PrioWirelessConnDev <- SharedPrio
    SendCntWirelessConnDev <- SendTwice
    ResendDelayWirelessConnDev <- DelayOne
    DelayDismissOldPackagePerDev <- DismissThree
    SendAckPerWirelessConn <- AckEverywhere
    PackNumberingProcessingMode <- AllWait
    QueueLen = 2
    MaxUnack = 2
    LinkLen = 2
    MaxPack = 2
    NoPackage = NoPackage
INVARIANTS
    WaitHasReason
