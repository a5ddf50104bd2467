--------------------------- MODULE MCWirelessLink ---------------------------
(* Small instances of WirelessLink: two devices, two wireless connections. *)
EXTENDS WirelessLink

PerConn(zero, one) == [conn \in Uart |-> IF conn = 0 THEN zero ELSE one]

\* Device 0 uses connection 0 only, device 1 is not connected.
SinglePrio == [dev \in Uart |-> IF dev = 0 THEN PerConn(1, 0) ELSE PerConn(0, 0)]
\* Device 0 falls back from connection 0 to connection 1, device 1 is not connected.
FallbackPrio == [dev \in Uart |-> IF dev = 0 THEN PerConn(1, 2) ELSE PerConn(0, 0)]

SendTwice == [dev \in Uart |-> PerConn(2, 2)]
SendOnce == [dev \in Uart |-> PerConn(1, 1)]
DelayZero == [conn \in Uart |-> PerConn(0, 0)]
DelayOne == [conn \in Uart |-> PerConn(1, 1)]
DismissOne == PerConn(1, 1)
DismissTwo == PerConn(2, 2)
AckEverywhere == PerConn(TRUE, TRUE)
WaitMode == PerConn(WAIT_FOR_ACK_BEFORE_SENDING_NEXT_PACK, PACKAGE_NUMBER_IGNORED)
OnlyNewMode == PerConn(ONLY_SEND_OUT_NEW_PACKAGES, PACKAGE_NUMBER_IGNORED)
ReorderMode == PerConn(PACKAGE_REORDERING, PACKAGE_NUMBER_IGNORED)

=============================================================================
