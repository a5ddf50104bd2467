---------------------------- MODULE NetworkSender ----------------------------
(***************************************************************************)
(* The sending half of one serial switch: the network handler task         *)
(* (NetworkHandler.c) generates a package from device bytes, pushes it to  *)
(* the queue of a wireless connection, stores a copy when the connection   *)
(* uses acknowledges, processes acknowledges and resends what stays        *)
(* unacknowledged; the package handler task (PackageHandler.c) pops the    *)
(* queues, writes the bytes to the wireless side and frees the payload.    *)
(* Both tasks have the same priority and are time-sliced, so their steps   *)
(* interleave between any two queue operations.                            *)
(*                                                                         *)
(* The trigger for a new package (enough bytes, or a timeout) is a free    *)
(* choice.  Time is kept as the age of each timestamp, capped one tick     *)
(* after the delay it is compared with.  The remote switch is an           *)
(* environment here; module WirelessLink puts a real receiver in its place.*)
(*                                                                         *)
(* Some definitions are preceded by a variant with a plausible bug, used   *)
(* to confirm that a property notices it: GenerateRegardless,              *)
(* GeneratedWithOldNumber, LeaveAckFlag, StoredButNotCounted,              *)
(* AckMatchesDevice, ResendSharesPayload and LeavePopped.                  *)
(***************************************************************************)
EXTENDS SwitchConfig, Sequences, FiniteSets

CONSTANTS
    QueueLen,   \* QUEUE_NUM_OF_WL_PACK_TO_SEND
    MaxUnack,   \* MAX_NUMBER_OF_UNACK_PACKS_STORED
    LinkLen,    \* frames the wireless byte queue and the radio hold per direction
    NoPackage   \* an empty slot

VARIABLES
    queuePackagesToSend,          \* [connection]: packages waiting for the package handler
    unacknowledgedPackages,       \* [slot]: a package, or NoPackage if not occupied
    numberOfUnacknowledgedPackages,
    sentPackNumTracker,           \* [device]: sysTime of the last package generated
    ackReceived,                  \* [connection]: no acknowledge is awaited
    live,                         \* payload buffers of new packages that are allocated
    nh,                           \* where the network handler task is in its cycle
    pack,                         \* the package it has generated and not yet stored
    ph,                           \* what the package handler has popped and not yet freed
    air,                          \* [connection]: frames on their way to the peer
    acks                          \* [connection]: acknowledges on their way back

nhVars == <<unacknowledgedPackages, numberOfUnacknowledgedPackages, sentPackNumTracker,
            ackReceived, pack>>
vars == <<queuePackagesToSend, unacknowledgedPackages, numberOfUnacknowledgedPackages,
          sentPackNumTracker, ackReceived, live, nh, pack, ph, air, acks>>

Slots == 0 .. MaxUnack - 1

\* A payload buffer is named by the package it was allocated for.
Buffer == [dev : Uart, sysTime : 1 .. MaxPack]

\* What is left of tWirelessPackage: attempts left per connection (int8_t), the ages of
\* timestampLastSendAttempt and timestampFirstSendAttempt, and whether the bytes stored
\* are the bytes read from the device.
Package == [dev : Uart, sysTime : 1 .. MaxPack, left : [Uart -> Int],
            last : [Uart -> Nat], first : Nat, intact : BOOLEAN]

\* A package in a queue: its payload is the buffer allocated when it was generated, or
\* (copy) a buffer of its own that resending allocated.
QueuedPackage == [dev : Uart, sysTime : 1 .. MaxPack, copy : BOOLEAN, intact : BOOLEAN]

\* Where the network handler is: the device of this cycle, and its loops over the
\* priorities, over the slots of the array and over the packages left to visit.
HandlerState == [step : {"generate", "push", "store", "receive", "resend"},
                 dev : Uart, prio : Nat, index : Nat, left : Int]

ASSUME SenderAssumption ==
    /\ QueueLen \in Nat \ {0}
    /\ MaxUnack \in Nat \ {0}
    /\ LinkLen \in Nat \ {0}
    /\ NoPackage \notin Package
    /\ NoPackage \notin [conn : Uart, pack : QueuedPackage]

Occupied == {i \in Slots : unacknowledgedPackages[i] # NoPackage}

BufferOf(p) == [dev |-> p.dev, sysTime |-> p.sysTime]

\* What a task may read from the payload of a new package: its bytes while the buffer is
\* allocated, anything afterwards.
ReadPayload(p) == IF BufferOf(p) \in live THEN {TRUE} ELSE BOOLEAN

HasSpace(conn) == Len(queuePackagesToSend[conn]) < QueueLen

TypeOK ==
    /\ queuePackagesToSend \in [Uart -> Seq(QueuedPackage)]
    /\ unacknowledgedPackages \in [Slots -> Package \cup {NoPackage}]
    /\ numberOfUnacknowledgedPackages \in Int
    /\ sentPackNumTracker \in [Uart -> 0 .. MaxPack]
    /\ ackReceived \in [Uart -> BOOLEAN]
    /\ live \in SUBSET Buffer
    /\ nh \in HandlerState
    /\ pack \in Package \cup {NoPackage}
    /\ nh.step \in {"push", "store"} => pack \in Package
    /\ ph \in [conn : Uart, pack : QueuedPackage] \cup {NoPackage}
    /\ air \in [Uart -> Seq(Frame)]
    /\ acks \in [Uart -> Seq(Ack)]

Init ==
    /\ queuePackagesToSend = [conn \in Uart |-> <<>>]
    /\ unacknowledgedPackages = [i \in Slots |-> NoPackage]
    /\ numberOfUnacknowledgedPackages = 0
    /\ sentPackNumTracker = [dev \in Uart |-> 0]
    /\ ackReceived = [conn \in Uart |-> TRUE]
    /\ live = {}
    /\ nh = [step |-> "generate", dev |-> 0, prio |-> 1, index |-> 0, left |-> 0]
    /\ pack = NoPackage
    /\ ph = NoPackage
    /\ air = [conn \in Uart |-> <<>>]
    /\ acks = [conn \in Uart |-> <<>>]

-----------------------------------------------------------------------------
(* generateDataPackage *)

GenerateRegardless(dev, conn) == TRUE

\* A WAIT_FOR_ACK device generates nothing while an acknowledge is awaited on conn.
MayGenerateFor(dev, conn) ==
    ~ /\ PackNumberingProcessingMode[dev] = WAIT_FOR_ACK_BEFORE_SENDING_NEXT_PACK
      /\ ~ackReceived[conn]
      /\ SendAckPerWirelessConn[conn]

\* conn is the first connection of dev, by priority, whose queue has space, every priority
\* before it being configured; when the loop runs out, it is the one of the last priority.
ChosenConn(dev, conn) ==
    \E prio \in 1 .. NumUarts :
        /\ conn = getWlConnectionToUse(dev, prio)
        /\ conn \in Uart
        /\ HasSpace(conn) \/ prio = NumUarts
        /\ \A before \in 1 .. prio - 1 :
              /\ getWlConnectionToUse(dev, before) \in Uart
              /\ ~HasSpace(getWlConnectionToUse(dev, before))

\* An age that is compared with delay need not grow beyond delay + 1.
NeverSent(dev) == [conn \in Uart |-> ResendDelayWirelessConnDev[conn][dev] + 1]

GeneratedWithOldNumber(dev, sysTime) ==
    [dev |-> dev, sysTime |-> sysTime - 1, left |-> SendCntWirelessConnDev[dev],
     last |-> NeverSent(dev), first |-> 0, intact |-> TRUE]

GeneratedPackage(dev, sysTime) ==
    [dev |-> dev, sysTime |-> sysTime, left |-> SendCntWirelessConnDev[dev],
     last |-> NeverSent(dev), first |-> 0, intact |-> TRUE]

\* No trigger, no configured queue with space, or an acknowledge still awaited.
GenerateNothing ==
    /\ nh.step = "generate"
    /\ nh' = [nh EXCEPT !.step = "receive"]
    /\ UNCHANGED <<nhVars, queuePackagesToSend, live, ph, air, acks>>

GenerateDataPackage ==
    LET dev == nh.dev
        sysTime == sentPackNumTracker[dev] + 1
    IN  /\ nh.step = "generate"
        /\ sysTime <= MaxPack
        /\ \E conn \in Uart : ChosenConn(dev, conn) /\ MayGenerateFor(dev, conn)
        /\ sentPackNumTracker' = [sentPackNumTracker EXCEPT ![dev] = sysTime]
        /\ pack' = GeneratedPackage(dev, sysTime)
        /\ live' = live \cup {BufferOf(pack')}
        /\ nh' = [nh EXCEPT !.step = "push", !.prio = 1]
        /\ UNCHANGED <<unacknowledgedPackages, numberOfUnacknowledgedPackages, ackReceived,
                       queuePackagesToSend, ph, air, acks>>

-----------------------------------------------------------------------------
(* sendAndStoreGeneratedWlPackage: push to the queue of the first priority, then of the
   next one; store a copy if the connection uses acknowledges. *)

PushConn == getWlConnectionToUse(nh.dev, nh.prio)
PushPossible == nh.prio <= NumUarts /\ PushConn \in Uart

\* No further priority is configured, or all have been tried.
DropGeneratedPackage ==
    /\ nh.step = "push"
    /\ ~PushPossible
    /\ live' = live \ {BufferOf(pack)}
    /\ pack' = NoPackage
    /\ nh' = [nh EXCEPT !.step = "receive"]
    /\ UNCHANGED <<unacknowledgedPackages, numberOfUnacknowledgedPackages,
                   sentPackNumTracker, ackReceived, queuePackagesToSend, ph, air, acks>>

PushFails ==
    /\ nh.step = "push"
    /\ PushPossible
    /\ ~HasSpace(PushConn)
    /\ nh' = [nh EXCEPT !.prio = @ + 1]
    /\ UNCHANGED <<nhVars, queuePackagesToSend, live, ph, air, acks>>

NewQueued(p) == [dev |-> p.dev, sysTime |-> p.sysTime, copy |-> FALSE, intact |-> TRUE]

PushWithoutAck ==
    /\ nh.step = "push"
    /\ PushPossible
    /\ HasSpace(PushConn)
    /\ ~SendAckPerWirelessConn[PushConn]
    /\ queuePackagesToSend' =
          [queuePackagesToSend EXCEPT ![PushConn] = Append(@, NewQueued(pack))]
    /\ pack' = NoPackage
    /\ nh' = [nh EXCEPT !.step = "receive"]
    /\ UNCHANGED <<unacknowledgedPackages, numberOfUnacknowledgedPackages,
                   sentPackNumTracker, ackReceived, live, ph, air, acks>>

\* ackReceived of the connection the package went to is cleared.
LeaveAckFlag == ackReceived
TakeAckFlag == [ackReceived EXCEPT ![PushConn] = FALSE]

PushExpectingAck ==
    /\ nh.step = "push"
    /\ PushPossible
    /\ HasSpace(PushConn)
    /\ SendAckPerWirelessConn[PushConn]
    /\ queuePackagesToSend' =
          [queuePackagesToSend EXCEPT ![PushConn] = Append(@, NewQueued(pack))]
    /\ pack' = [pack EXCEPT !.left[PushConn] = @ - 1, !.last[PushConn] = 0, !.first = 0]
    /\ ackReceived' = TakeAckFlag
    /\ nh' = [nh EXCEPT !.step = "store"]
    /\ UNCHANGED <<unacknowledgedPackages, numberOfUnacknowledgedPackages,
                   sentPackNumTracker, live, ph, air, acks>>

StoredButNotCounted == numberOfUnacknowledgedPackages
OneMoreStored == numberOfUnacknowledgedPackages + 1

\* storeNewPackageInUnacknowledgedPackagesArray: the lowest free slot takes a copy of the
\* payload, which the package handler may have sent and freed since the push.
StorePackage ==
    /\ nh.step = "store"
    /\ \E i \in Slots, read \in ReadPayload(pack) :
          /\ unacknowledgedPackages[i] = NoPackage
          /\ \A j \in 0 .. i - 1 : unacknowledgedPackages[j] # NoPackage
          /\ unacknowledgedPackages' =
                [unacknowledgedPackages EXCEPT ![i] = [pack EXCEPT !.intact = read]]
    /\ numberOfUnacknowledgedPackages' = OneMoreStored
    /\ pack' = NoPackage
    /\ nh' = [nh EXCEPT !.step = "receive"]
    /\ UNCHANGED <<sentPackNumTracker, ackReceived, queuePackagesToSend, live, ph, air, acks>>

\* The array is full: the loop over the priorities goes on with the same package.
StoreFails ==
    /\ nh.step = "store"
    /\ Occupied = Slots
    /\ nh' = [nh EXCEPT !.step = "push", !.prio = @ + 1]
    /\ UNCHANGED <<nhVars, queuePackagesToSend, live, ph, air, acks>>

-----------------------------------------------------------------------------
(* processReceivedPackage, for an acknowledge that arrived on connection nh.dev *)

StartResending(state, count) ==
    [state EXCEPT !.step = "resend", !.prio = 1, !.index = 0, !.left = count]

ReceiveNothing ==
    /\ nh.step = "receive"
    /\ nh' = StartResending(nh, numberOfUnacknowledgedPackages)
    /\ UNCHANGED <<nhVars, queuePackagesToSend, live, ph, air, acks>>

\* The scans of the array stop after as many occupied slots as the counter says.
Scanned == {i \in Occupied :
               Cardinality({j \in Occupied : j < i}) < numberOfUnacknowledgedPackages}

AckMatchesDevice(p, ack) == p.dev = ack.dev
AckMatches(p, ack) == p.dev = ack.dev /\ p.sysTime = ack.sysTime

ReleaseAckFlag(conn) ==
    IF conn \in Uart THEN [ackReceived EXCEPT ![conn] = TRUE] ELSE ackReceived

\* The first stored package the acknowledge is for is freed.
ReceiveAck ==
    /\ nh.step = "receive"
    /\ acks[nh.dev] # <<>>
    /\ \E i \in Scanned :
          /\ AckMatches(unacknowledgedPackages[i], Head(acks[nh.dev]))
          /\ \A j \in Occupied : j < i =>
                ~AckMatches(unacknowledgedPackages[j], Head(acks[nh.dev]))
          /\ unacknowledgedPackages' = [unacknowledgedPackages EXCEPT ![i] = NoPackage]
    /\ numberOfUnacknowledgedPackages' = numberOfUnacknowledgedPackages - 1
    /\ ackReceived' = ReleaseAckFlag(nh.dev)
    /\ acks' = [acks EXCEPT ![nh.dev] = Tail(@)]
    /\ nh' = StartResending(nh, numberOfUnacknowledgedPackages - 1)
    /\ UNCHANGED <<sentPackNumTracker, pack, queuePackagesToSend, live, ph, air>>

ReceiveUnmatchedAck ==
    /\ nh.step = "receive"
    /\ acks[nh.dev] # <<>>
    /\ \A i \in Scanned : ~AckMatches(unacknowledgedPackages[i], Head(acks[nh.dev]))
    /\ acks' = [acks EXCEPT ![nh.dev] = Tail(@)]
    /\ nh' = StartResending(nh, numberOfUnacknowledgedPackages)
    /\ UNCHANGED <<nhVars, queuePackagesToSend, live, ph, air>>

-----------------------------------------------------------------------------
(* handleResendingOfUnacknowledgedPackages: nh.index and nh.prio are its two loops *)

\* Leaving the loop over the priorities for the next slot.
NextSlot(state) == [state EXCEPT !.prio = 1, !.index = @ + 1, !.left = @ - 1]

NextPrio(state) ==
    IF state.prio < NumUarts THEN [state EXCEPT !.prio = @ + 1] ELSE NextSlot(state)

\* The next device of this cycle, or the first one of the next cycle.
NextDevice == IF nh.dev + 1 < NumUarts THEN nh.dev + 1 ELSE 0

ResendDone ==
    /\ nh.step = "resend"
    /\ nh.index >= MaxUnack \/ nh.left <= 0
    /\ nh' = [step |-> "generate", dev |-> NextDevice, prio |-> 1, index |-> 0, left |-> 0]
    /\ UNCHANGED <<nhVars, queuePackagesToSend, live, ph, air, acks>>

ResendSkip ==
    /\ nh.step = "resend"
    /\ nh.index < MaxUnack
    /\ nh.left > 0
    /\ unacknowledgedPackages[nh.index] = NoPackage
    /\ nh' = [nh EXCEPT !.index = @ + 1]
    /\ UNCHANGED <<nhVars, queuePackagesToSend, live, ph, air, acks>>

AtStoredPackage ==
    /\ nh.step = "resend"
    /\ nh.index < MaxUnack
    /\ nh.left > 0
    /\ unacknowledgedPackages[nh.index] # NoPackage

Visited == unacknowledgedPackages[nh.index]
VisitedConn == getWlConnectionToUse(Visited.dev, nh.prio)

Dismissed(p) == p.first > DelayDismissOldPackagePerDev[p.dev]
ResendDelay(p, conn) == ResendDelayWirelessConnDev[conn][p.dev]

\* The search for maxPrio ends at a priority nobody uses, where getWlConnectionToUse says
\* NumUarts; so maxPrio is NumUarts, whatever the configuration.
MaxPrio == NumUarts

\* The priorities are exhausted, or the package is too old, or its last attempt was long ago.
MustDiscard ==
    \/ VisitedConn \notin Uart
    \/ Dismissed(Visited)
    \/ /\ VisitedConn \in Uart
       /\ nh.prio = MaxPrio
       /\ Visited.left[VisitedConn] = 0
       /\ Visited.last[VisitedConn] > ResendDelay(Visited, VisitedConn)

\* ackReceived[VisitedConn] = true is a write past the array if there is no connection.
ResendDiscard ==
    /\ AtStoredPackage
    /\ MustDiscard
    /\ unacknowledgedPackages' = [unacknowledgedPackages EXCEPT ![nh.index] = NoPackage]
    /\ numberOfUnacknowledgedPackages' = numberOfUnacknowledgedPackages - 1
    /\ ackReceived' = ReleaseAckFlag(VisitedConn)
    /\ nh' = NextSlot(nh)
    /\ UNCHANGED <<sentPackNumTracker, pack, queuePackagesToSend, live, ph, air, acks>>

ResendDue ==
    /\ AtStoredPackage
    /\ ~MustDiscard
    /\ Visited.left[VisitedConn] > 0
    /\ Visited.last[VisitedConn] > ResendDelay(Visited, VisitedConn)

\* The payload is copied "because memory is freed once package is pulled from queue".
ResendSharesPayload(p) ==
    [dev |-> p.dev, sysTime |-> p.sysTime, copy |-> FALSE, intact |-> p.intact]

ResendCopy(p) ==
    [dev |-> p.dev, sysTime |-> p.sysTime, copy |-> TRUE, intact |-> p.intact]

ResendPackage ==
    /\ ResendDue
    /\ HasSpace(VisitedConn)
    /\ queuePackagesToSend' =
          [queuePackagesToSend EXCEPT ![VisitedConn] = Append(@, ResendCopy(Visited))]
    /\ unacknowledgedPackages' =
          [unacknowledgedPackages EXCEPT
              ![nh.index] = [Visited EXCEPT !.left[VisitedConn] = @ - 1, !.last[VisitedConn] = 0]]
    /\ nh' = NextSlot(nh)
    /\ UNCHANGED <<numberOfUnacknowledgedPackages, sentPackNumTracker, ackReceived, pack,
                   live, ph, air, acks>>

\* The copy is freed again and the next priority is tried.
ResendPushFails ==
    /\ ResendDue
    /\ ~HasSpace(VisitedConn)
    /\ nh' = NextPrio(nh)
    /\ UNCHANGED <<nhVars, queuePackagesToSend, live, ph, air, acks>>

\* The answer to the last attempt on this connection may still come.
ResendWait ==
    /\ AtStoredPackage
    /\ ~MustDiscard
    /\ \/ /\ Visited.left[VisitedConn] > 0
          /\ Visited.last[VisitedConn] <= ResendDelay(Visited, VisitedConn)
       \/ /\ Visited.left[VisitedConn] = 0
          /\ Visited.last[VisitedConn] < ResendDelay(Visited, VisitedConn)
    /\ nh' = NextSlot(nh)
    /\ UNCHANGED <<nhVars, queuePackagesToSend, live, ph, air, acks>>

\* No attempt is left on this connection: it is free for the next package.
ResendConnectionExhausted ==
    /\ AtStoredPackage
    /\ ~MustDiscard
    /\ Visited.left[VisitedConn] = 0
    /\ Visited.last[VisitedConn] >= ResendDelay(Visited, VisitedConn)
    /\ ackReceived' = ReleaseAckFlag(VisitedConn)
    /\ nh' = NextPrio(nh)
    /\ UNCHANGED <<unacknowledgedPackages, numberOfUnacknowledgedPackages,
                   sentPackNumTracker, pack, queuePackagesToSend, live, ph, air, acks>>

\* A connection with SendCnt 0 that a new package was pushed to has -1 attempts left.
ResendNegative ==
    /\ AtStoredPackage
    /\ ~MustDiscard
    /\ Visited.left[VisitedConn] < 0
    /\ nh' = NextPrio(nh)
    /\ UNCHANGED <<nhVars, queuePackagesToSend, live, ph, air, acks>>

-----------------------------------------------------------------------------
(* packageHandler_TaskEntry, sending; the tick interrupt; the remote switch *)

\* A package is popped once the wireless byte queue has space for it.
PopReadyToSend(conn) ==
    /\ ph = NoPackage
    /\ queuePackagesToSend[conn] # <<>>
    /\ Len(air[conn]) < LinkLen
    /\ ph' = [conn |-> conn, pack |-> Head(queuePackagesToSend[conn])]
    /\ queuePackagesToSend' = [queuePackagesToSend EXCEPT ![conn] = Tail(@)]
    /\ UNCHANGED <<nhVars, live, nh, air, acks>>

FrameContents(p) == IF p.copy THEN {p.intact} ELSE ReadPayload(p)
LeavePopped(p) == live
FreePopped(p) == IF p.copy THEN live ELSE live \ {BufferOf(p)}

\* The bytes are pushed and the payload is freed; a package that did not fit entirely, or
\* that the radio loses, leaves nothing the peer recognises.
SendAndFree ==
    /\ ph # NoPackage
    /\ \/ \E read \in FrameContents(ph.pack) :
             air' = [air EXCEPT ![ph.conn] =
                        Append(@, [dev |-> ph.pack.dev, sysTime |-> ph.pack.sysTime,
                                   intact |-> read])]
       \/ UNCHANGED air
    /\ live' = FreePopped(ph.pack)
    /\ ph' = NoPackage
    /\ UNCHANGED <<nhVars, queuePackagesToSend, nh, acks>>

Older(age, delay) == IF age <= delay THEN age + 1 ELSE age

Aged(p) ==
    IF p = NoPackage THEN p
    ELSE [p EXCEPT
            !.first = Older(@, DelayDismissOldPackagePerDev[p.dev]),
            !.last = [conn \in Uart |->
                         Older(p.last[conn], ResendDelayWirelessConnDev[conn][p.dev])]]

Tick ==
    /\ unacknowledgedPackages' = [i \in Slots |-> Aged(unacknowledgedPackages[i])]
    /\ pack' = Aged(pack)
    /\ UNCHANGED <<numberOfUnacknowledgedPackages, sentPackNumTracker, ackReceived,
                   queuePackagesToSend, live, nh, ph, air, acks>>

\* The peer takes the next frame and acknowledges it, unless frame or acknowledge is lost.
PeerReceives(conn) ==
    /\ air[conn] # <<>>
    /\ air' = [air EXCEPT ![conn] = Tail(@)]
    /\ \/ /\ Len(acks[conn]) < LinkLen
          /\ acks' = [acks EXCEPT ![conn] =
                         Append(@, [dev |-> Head(air[conn]).dev,
                                    sysTime |-> Head(air[conn]).sysTime])]
       \/ UNCHANGED acks
    /\ UNCHANGED <<nhVars, queuePackagesToSend, live, nh, ph>>

-----------------------------------------------------------------------------
SendingStep ==
    \/ GenerateNothing \/ GenerateDataPackage
    \/ PushFails \/ PushWithoutAck \/ PushExpectingAck
    \/ StorePackage \/ StoreFails

ReceivingStep == ReceiveNothing \/ ReceiveAck \/ ReceiveUnmatchedAck

ResendingStep ==
    \/ ResendDone \/ ResendSkip \/ ResendPackage \/ ResendPushFails
    \/ ResendWait \/ ResendConnectionExhausted \/ ResendNegative

DiscardingStep == DropGeneratedPackage \/ ResendDiscard

NetworkHandler == SendingStep \/ ReceivingStep \/ ResendingStep \/ DiscardingStep

PackageHandler == SendAndFree \/ \E conn \in Uart : PopReadyToSend(conn)

Next ==
    \/ NetworkHandler
    \/ PackageHandler
    \/ Tick
    \/ \E conn \in Uart : PeerReceives(conn)

Spec == Init /\ [][Next]_vars

\* Both tasks are periodic and run at the same priority; the tick is a hardware timer.
\* Nothing is assumed of the trigger for new packages, the radio or the peer.
Fairness ==
    /\ WF_vars(NetworkHandler)
    /\ WF_vars(PackageHandler)
    /\ WF_vars(Tick)

FairSpec == Spec /\ Fairness

-----------------------------------------------------------------------------
(* Properties *)

\* A connection was used for a package once an attempt there is used up.
SentOn(p, conn) == p.left[conn] < SendCntWirelessConnDev[p.dev][conn]

\* Who is going to free the payload of new package b: queue entries, the package handler,
\* the network handler before its push.
QueueOwners(b) ==
    {place \in Uart \X (1 .. QueueLen) :
        LET queue == queuePackagesToSend[place[1]]
        IN  /\ place[2] <= Len(queue)
            /\ ~queue[place[2]].copy
            /\ BufferOf(queue[place[2]]) = b}

PackageHandlerOwns(b) == ph # NoPackage /\ ~ph.pack.copy /\ BufferOf(ph.pack) = b

NetworkHandlerOwns(b) == nh.step = "push" /\ BufferOf(pack) = b

NumberOfOwners(b) ==
    Cardinality(QueueOwners(b)) + (IF PackageHandlerOwns(b) THEN 1 ELSE 0)
        + (IF NetworkHandlerOwns(b) THEN 1 ELSE 0)

\* No payload leaks: an allocated payload of a new package always has somebody who will
\* free it.  (A failed pvPortMalloc halts the switch, Events.c, so a leak would end it.)
NoLeak ==
    \A b \in live : QueueOwners(b) # {} \/ PackageHandlerOwns(b) \/ NetworkHandlerOwns(b)

\* A payload is freed exactly once: as long as it is allocated one party owns it, and
\* afterwards nobody does (NetworkHandler.c:211, "free memory since it wont be freed when
\* popped from queue").
PayloadOwnedOnce ==
    \A b \in Buffer : NumberOfOwners(b) = (IF b \in live THEN 1 ELSE 0)

\* The counter that lets the scans of the unacknowledged array stop early never hides a
\* stored package from them.
ScansSeeEverything == Scanned = Occupied

\* Stop and wait: of the packages of WAIT_FOR_ACK devices at most one is unacknowledged per
\* connection, and it is the newest of its device (serialSwitch_Config.ini:89).
Waits(dev) == PackNumberingProcessingMode[dev] = WAIT_FOR_ACK_BEFORE_SENDING_NEXT_PACK

StopAndWait ==
    \A i, j \in Occupied, conn \in Uart :
        LET p == unacknowledgedPackages[i]
            q == unacknowledgedPackages[j]
        IN  Waits(p.dev) /\ Waits(q.dev) /\ SentOn(p, conn) /\ SentOn(q, conn)
                => i = j /\ p.sysTime = sentPackNumTracker[p.dev]

\* What is still to reach the peer over conn, in the order it will.
Popped(conn) == IF ph # NoPackage /\ ph.conn = conn THEN <<ph.pack>> ELSE <<>>
Pipeline(conn) == air[conn] \o Popped(conn) \o queuePackagesToSend[conn]

\* A WAIT_FOR_ACK device's packages are on their way in the order they were generated; a
\* resent package never overtakes or follows a newer one (NetworkHandler.c:272, "packages
\* are in right order").
PipelineInOrder ==
    \A conn \in Uart : \A m, n \in 1 .. Len(Pipeline(conn)) :
        LET p == Pipeline(conn)[m]
            q == Pipeline(conn)[n]
        IN  m < n /\ p.dev = q.dev /\ Waits(p.dev) => p.sysTime <= q.sysTime

\* A connection that waits for an acknowledge waits for one of a package that is still
\* stored: otherwise no step would ever end the wait (NetworkHandler.c:788, "make sure
\* next package can be sent").
WaitHasReason ==
    \A conn \in Uart : ~ackReceived[conn] =>
        \/ nh.step = "store"
        \/ \E i \in Occupied : SentOn(unacknowledgedPackages[i], conn)

\* What is stored for resending is what was generated (NetworkHandler.c:161, "stores it in
\* internal buffer if ACK is expected").
StoredCopyIntact == \A i \in Occupied : unacknowledgedPackages[i].intact

\* No package stays in the array for ever: it is acknowledged or given up.
StoredPackageSettles ==
    \A i \in Slots : unacknowledgedPackages[i] # NoPackage ~>
                     unacknowledgedPackages[i] = NoPackage

=============================================================================
