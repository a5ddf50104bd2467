--------------------------- MODULE NetworkReceiver ---------------------------
(***************************************************************************)
(* The receiving half of one serial switch (NetworkHandler.c): data        *)
(* packages the package handler has assembled from the wireless bytes wait *)
(* in ReceivedPackages; the network handler pops one per connection and    *)
(* cycle and, depending on the processing mode of its device, pushes the   *)
(* payload out, stores it for reordering or drops it.                      *)
(*                                                                         *)
(* NewerOrSame, OnlyOlder, PushOutCountingNext and DropOldFrame are        *)
(* variants with a plausible bug of the definitions that follow them, used *)
(* to confirm that a property notices it.                                  *)
(*                                                                         *)
(* The environment is any sequence of frames, the worst radio; module      *)
(* WirelessLink puts a NetworkSender in its place.                         *)
(***************************************************************************)
EXTENDS SwitchConfig, Sequences, FiniteSets

CONSTANTS
    RecvLen,     \* QUEUE_NUM_OF_WL_PACK_RECEIVED
    ReorderLen,  \* REORDERING_PACKAGES_BUFFER_SIZE
    NoFrame      \* an empty slot of the reordering array

VARIABLES
    receivedPackages,   \* [connection]: packages waiting to be processed
    rx                  \* [device]: the receiving state of the device

rxVars == <<receivedPackages, rx>>

ReorderSlots == 0 .. ReorderLen - 1

\* last: sysTimeLastPushedOutPack; stored: reorderingPacks with their occupied flags;
\* out: every payload pushed to the byte queue of the device, oldest first.
RxState == [last : 0 .. MaxPack, stored : [ReorderSlots -> Frame \cup {NoFrame}],
            out : Seq(Frame)]

ASSUME ReceiverAssumption ==
    /\ RecvLen \in Nat \ {0}
    /\ ReorderLen \in Nat \ {0}
    /\ NoFrame \notin Frame

RxTypeOK ==
    /\ receivedPackages \in [Uart -> Seq(Frame)]
    /\ rx \in [Uart -> RxState]

RxInit ==
    /\ receivedPackages = [conn \in Uart |-> <<>>]
    /\ rx = [dev \in Uart |-> [last |-> 0, stored |-> [i \in ReorderSlots |-> NoFrame],
                               out |-> <<>>]]

-----------------------------------------------------------------------------
(* The reordering array.  s is the receiving state of one device. *)

Stored(s) == {i \in ReorderSlots : s.stored[i] # NoFrame}

PushOutCountingNext(s, frame) ==
    [s EXCEPT !.out = Append(@, frame), !.last = frame.sysTime + 1]

PushOut(s, frame) ==
    [s EXCEPT !.out = Append(@, frame), !.last = frame.sysTime]

PushStoredOut(s, i) == [PushOut(s, s.stored[i]) EXCEPT !.stored[i] = NoFrame]

\* pushNextStoredPackOut: the first stored package that follows the last one pushed out.
pushNextStoredPackOut(s) ==
    LET next == {i \in Stored(s) : s.stored[i].sysTime = s.last + 1}
    IN  IF next = {} THEN s
        ELSE PushStoredOut(s, CHOOSE i \in next : \A j \in next : i <= j)

\* while (pushNextStoredPackOut(dev));
PushAllNext(s) ==
    LET after[n \in 0 .. ReorderLen] ==
            IF n = 0 THEN s ELSE pushNextStoredPackOut(after[n - 1])
    IN  after[ReorderLen]

\* The stored package with the lowest sysTime, at the lowest index.
pushOldestPackOut(s) ==
    IF Stored(s) = {} THEN s
    ELSE PushStoredOut(s, CHOOSE i \in Stored(s) : \A j \in Stored(s) :
            \/ s.stored[i].sysTime < s.stored[j].sysTime
            \/ s.stored[i].sysTime = s.stored[j].sysTime /\ i <= j)

StoreFrame(s, frame) ==
    LET free == ReorderSlots \ Stored(s)
    IN  IF free = {} THEN s
        ELSE [s EXCEPT !.stored[CHOOSE i \in free : \A j \in free : i <= j] = frame]

ReorderPackage(s, frame) ==
    IF s.last <= frame.sysTime THEN s
    ELSE IF s.last = frame.sysTime + 1 THEN PushAllNext(PushOut(s, frame))
    ELSE StoreFrame(IF Stored(s) = ReorderSlots THEN PushAllNext(pushOldestPackOut(s)) ELSE s,
                    frame)

\* A timeout is found so many times: the oldest stored package is pushed out each time, and
\* what follows it.
PushTimedOut(s, times) ==
    LET after[n \in 0 .. times] ==
            IF n = 0 THEN s ELSE PushAllNext(pushOldestPackOut(after[n - 1]))
    IN  after[times]

\* What the timeouts of one cycle can make of the state of a device.
AfterTimeouts(dev, s) ==
    IF PackNumberingProcessingMode[dev] = PACKAGE_REORDERING
    THEN {s} \cup {PushTimedOut(s, times) : times \in 1 .. Cardinality(Stored(s))}
    ELSE {s}

-----------------------------------------------------------------------------
(* processReceivedPackage, for a data package *)

NewerOrSame(s, frame) == s.last <= frame.sysTime
OnlyOlder(s, frame) == s.last > frame.sysTime
Newer(s, frame) == s.last < frame.sysTime

DropOldFrame(s, frame) == IF Newer(s, frame) THEN PushOut(s, frame) ELSE s

\* The switch over the processing mode of the package's device.
ProcessFrame(s, frame) ==
    CASE PackNumberingProcessingMode[frame.dev] = PACKAGE_REORDERING ->
            ReorderPackage(s, frame)
      [] PackNumberingProcessingMode[frame.dev] = ONLY_SEND_OUT_NEW_PACKAGES ->
            IF Newer(s, frame) THEN PushOut(s, frame) ELSE s
      [] OTHER -> PushOut(s, frame)

\* The rest of the cycle: the timeouts of the device with the connection's number.
CheckTimeouts(state, dev) ==
    \E s \in AfterTimeouts(dev, state[dev]) : rx' = [state EXCEPT ![dev] = s]

\* One package is popped and processed, when the byte queue of its device has space.
ProcessReceivedPackage(conn) ==
    LET frame == Head(receivedPackages[conn])
    IN  /\ receivedPackages[conn] # <<>>
        /\ receivedPackages' = [receivedPackages EXCEPT ![conn] = Tail(@)]
        /\ CheckTimeouts([rx EXCEPT ![frame.dev] = ProcessFrame(@, frame)], conn)

\* No package has arrived, or the byte queue of its device has no space for it.
ProcessNoPackage(conn) ==
    /\ UNCHANGED receivedPackages
    /\ CheckTimeouts(rx, conn)

\* The package handler has assembled a package; it is dropped when the queue is full.
PushToReceivedPackages(conn, frame) ==
    /\ Len(receivedPackages[conn]) < RecvLen
    /\ receivedPackages' = [receivedPackages EXCEPT ![conn] = Append(@, frame)]
    /\ UNCHANGED rx

RxNext ==
    \E conn \in Uart :
        \/ ProcessReceivedPackage(conn)
        \/ ProcessNoPackage(conn)
        \/ \E frame \in Frame : PushToReceivedPackages(conn, frame)

RxSpec == RxInit /\ [][RxNext]_rxVars

-----------------------------------------------------------------------------
(* Properties *)

\* A device in mode ONLY_SEND_OUT_NEW_PACKAGES never sees a package twice or an old package
\* after a newer one, whatever the radio does (NetworkHandler.c:310, "package is newer than
\* the last one pushed out").
OnlyNewIncreases ==
    \A dev \in Uart : \A m, n \in 1 .. Len(rx[dev].out) :
        PackNumberingProcessingMode[dev] = ONLY_SEND_OUT_NEW_PACKAGES /\ m < n
            => rx[dev].out[m].sysTime < rx[dev].out[n].sysTime

=============================================================================
