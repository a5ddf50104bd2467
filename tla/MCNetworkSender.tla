--------------------------- MODULE MCNetworkSender ---------------------------
(* Small instances of NetworkSender: two or three devices and as many wireless
   connections, of which the first two are used. *)
EXTENDS NetworkSender

PerConn(zero, one) == [conn \in Uart |-> IF conn = 0 THEN zero ELSE one]

\* Both devices use connection 0 only.
SharedPrio == [dev \in Uart |-> PerConn(1, 0)]
\* Device 0 falls back from connection 0 to connection 1; the others use connection 0 only.
FallbackPrio == [dev \in Uart |-> IF dev = 0 THEN PerConn(1, 2) ELSE PerConn(1, 0)]

SendTwice == [dev \in Uart |-> PerConn(2, 2)]
SendOnce == [dev \in Uart |-> PerConn(1, 1)]
\* SendCnt 0 for the last device: its count of attempts left goes negative.
SendOnceOrNever ==
    [dev \in Uart |-> IF dev + 1 < NumUarts THEN PerConn(1, 1) ELSE PerConn(0, 0)]
DelayOne == [conn \in Uart |-> PerConn(1, 1)]
DismissThree == PerConn(3, 3)
DismissOne == PerConn(1, 1)
DismissTwo == PerConn(2, 2)
AckEverywhere == PerConn(TRUE, TRUE)
AckOnZero == PerConn(TRUE, FALSE)
AllWait == PerConn(WAIT_FOR_ACK_BEFORE_SENDING_NEXT_PACK,
                   WAIT_FOR_ACK_BEFORE_SENDING_NEXT_PACK)
AllIgnored == PerConn(PACKAGE_NUMBER_IGNORED, PACKAGE_NUMBER_IGNORED)

=============================================================================
