---------------------------- MODULE SwitchConfig ----------------------------
(***************************************************************************)
(* The configuration of the serial switch (Config.h, struct Configuration),*)
(* as far as the network handler reads it.  It is read once from the SD    *)
(* card before the tasks start and never changes: CONSTANTS here.          *)
(***************************************************************************)
EXTENDS Integers

CONSTANTS
    NumUarts,                     \* NUMBER_OF_UARTS: devices, and wireless connections
    PrioWirelessConnDev,          \* [device][connection]: 1 is the first choice, 0 is unused
    SendCntWirelessConnDev,       \* [device][connection]: how often a package may be sent
    ResendDelayWirelessConnDev,   \* indexed as the code indexes it: [connection][device]
    DelayDismissOldPackagePerDev, \* [device]: when an unacknowledged package is given up
    SendAckPerWirelessConn,       \* [connection]: acknowledges are used
    PackNumberingProcessingMode,  \* [device]: one of ProcessingModes
    MaxPack                       \* bound: packages generated per device

\* Devices and wireless connections are both numbered from 0.
Uart == 0 .. NumUarts - 1

\* tPackageNumbering
PACKAGE_NUMBER_IGNORED == 1
WAIT_FOR_ACK_BEFORE_SENDING_NEXT_PACK == 2
PACKAGE_REORDERING == 3
ONLY_SEND_OUT_NEW_PACKAGES == 4

ProcessingModes == {PACKAGE_NUMBER_IGNORED, WAIT_FOR_ACK_BEFORE_SENDING_NEXT_PACK,
                    PACKAGE_REORDERING, ONLY_SEND_OUT_NEW_PACKAGES}

ASSUME ConfigAssumption ==
    /\ NumUarts \in Nat \ {0}
    /\ PrioWirelessConnDev \in [Uart -> [Uart -> Nat]]
    /\ SendCntWirelessConnDev \in [Uart -> [Uart -> Nat]]
    /\ ResendDelayWirelessConnDev \in [Uart -> [Uart -> Nat]]
    /\ DelayDismissOldPackagePerDev \in [Uart -> Nat]
    /\ SendAckPerWirelessConn \in [Uart -> BOOLEAN]
    /\ PackNumberingProcessingMode \in [Uart -> ProcessingModes]
    /\ MaxPack \in Nat \ {0}

\* What of a data package crosses the radio: the device it belongs to, its number (sysTime)
\* and whether its payload is the bytes read from the device.
Frame == [dev : Uart, sysTime : 1 .. MaxPack, intact : BOOLEAN]

\* An acknowledge names the package it is for.
Ack == [dev : Uart, sysTime : 1 .. MaxPack]

\* The lowest connection that device uartNr uses with priority desiredPrio;
\* NumUarts, which is no connection, if there is none.
getWlConnectionToUse(uartNr, desiredPrio) ==
    IF \E conn \in Uart : PrioWirelessConnDev[uartNr][conn] = desiredPrio
    THEN CHOOSE conn \in Uart :
            /\ PrioWirelessConnDev[uartNr][conn] = desiredPrio
            /\ \A lower \in 0 .. conn - 1 : PrioWirelessConnDev[uartNr][lower] # desiredPrio
    ELSE NumUarts

=============================================================================
