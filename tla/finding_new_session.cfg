\* The sending switch of an ONLY_SEND_OUT_NEW_PACKAGES device restarts.
SPECIFICATION LinkSpec
CONSTANTS
    NumUarts = 2
    PrioWirelessConnDev <- SinglePrio
    SendCntWirelessConnDev <- SendTwice
    ResendDelayWirelessConnDev <- DelayOne
    DelayDismissOldPackagePerDev <- DismissTwo
    SendAckPerWirelessConn <- AckEverywhere
    PackNumberingProcessingMode <- OnlyNewMode
    QueueLen = 2
    MaxUnack = 2
    LinkLen = 1
    RecvLen = 1
    ReorderLen = 2
    MaxPack = 1
    NoPackage = NoPackage
    NoFrame = NoFrame
    MaxRestarts = 1
INVARIANTS
    NewSessionKept
