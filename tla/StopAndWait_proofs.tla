------------------------- MODULE StopAndWait_proofs -------------------------
(***************************************************************************)
(* Stop and wait, proved for the configurations in which it holds: every   *)
(* device that sends at all waits for acknowledges and uses one wireless   *)
(* connection, which acknowledges.  Any number of devices may share a      *)
(* connection.                                                             *)
(***************************************************************************)
EXTENDS NetworkSender_proofs

\* NumUarts is 4 in the code; with a single one, a package whose attempts are used up would
\* stay stored when its connection is released.
WaitsOnOneConnection ==
    /\ NumUarts > 1
    /\ \A dev, conn \in Uart : PrioWirelessConnDev[dev][conn] # 0 =>
          /\ PrioWirelessConnDev[dev][conn] = 1
          /\ Waits(dev)
          /\ SendAckPerWirelessConn[conn]
          /\ \A other \in Uart : PrioWirelessConnDev[dev][other] # 0 => other = conn

Uses(dev, conn) == PrioWirelessConnDev[dev][conn] # 0

-----------------------------------------------------------------------------
(* The inductive invariant *)

\* What is on its way over a connection belongs to a device that uses it, in both
\* directions.
AllUse(queues) ==
    \A conn \in Uart : \A k \in 1 .. Len(queues[conn]) : Uses(queues[conn][k].dev, conn)

TrafficOnUsed ==
    /\ AllUse(queuePackagesToSend)
    /\ AllUse(air)
    /\ AllUse(acks)
    /\ ph # NoPackage => Uses(ph.pack.dev, ph.conn)

\* Attempts are only made on a connection the device uses.
AttemptsOnUsed(p) == \A conn \in Uart : SentOn(p, conn) => Uses(p.dev, conn)

\* The package the network handler holds is the newest of its device, and nothing is
\* stored of a device with the same connection.
HeldIsNewest ==
    nh.step \in {"push", "store"} =>
        /\ pack.dev = nh.dev
        /\ pack.sysTime = sentPackNumTracker[nh.dev]
        /\ AttemptsOnUsed(pack)
        /\ \A conn \in Uart : Uses(nh.dev, conn) =>
              /\ nh.step = "store" => ~ackReceived[conn]
              /\ \A i \in Occupied : ~Uses(unacknowledgedPackages[i].dev, conn)

\* The connection of the package at slot i has been released; the package is discarded next.
Releasing(i) == nh.step = "resend" /\ nh.index = i /\ nh.prio > 1 /\ nh.left > 0

\* A stored package is the newest of its device, the only one of its connection, and keeps
\* the connection's acknowledge awaited until it is about to be discarded.
StoredIsAlone ==
    \A i \in Occupied :
        /\ AttemptsOnUsed(unacknowledgedPackages[i])
        /\ \A conn \in Uart : Uses(unacknowledgedPackages[i].dev, conn) =>
              /\ unacknowledgedPackages[i].sysTime =
                    sentPackNumTracker[unacknowledgedPackages[i].dev]
              /\ \A j \in Occupied : Uses(unacknowledgedPackages[j].dev, conn) => i = j
              /\ ackReceived[conn] => Releasing(i)

WaitInv ==
    /\ nh.prio > 0
    /\ TrafficOnUsed
    /\ HeldIsNewest
    /\ StoredIsAlone

-----------------------------------------------------------------------------
(* Consequences of the configuration *)

\* The only priority of a device with a connection is 1.
LEMMA FirstPriorityOnly ==
    ASSUME WaitsOnOneConnection, NEW dev \in Uart, NEW prio \in Nat, prio > 0,
           getWlConnectionToUse(dev, prio) \in Uart
    PROVE  prio = 1 /\ Uses(dev, getWlConnectionToUse(dev, prio))
<1>1. PrioWirelessConnDev[dev][getWlConnectionToUse(dev, prio)] = prio
  BY ConnectionHasPriority
<1> QED
  BY <1>1 DEF WaitsOnOneConnection, Uses

LEMMA PushUsesConnection ==
    ASSUME WaitsOnOneConnection, TypeOK, nh.prio > 0, PushPossible
    PROVE  nh.prio = 1 /\ PushConn \in Uart /\ Uses(nh.dev, PushConn)
<1>1. nh.dev \in Uart /\ nh.prio \in Nat
  BY DEF TypeOK, HandlerState
<1> QED
  BY <1>1, FirstPriorityOnly DEF PushPossible, PushConn

LEMMA VisitUsesConnection ==
    ASSUME WaitsOnOneConnection, TypeOK, nh.prio > 0, AtStoredPackage, VisitedConn \in Uart
    PROVE  nh.prio = 1 /\ Uses(Visited.dev, VisitedConn)
<1>1. Visited.dev \in Uart /\ nh.prio \in Nat
  BY VisitedPackage DEF TypeOK, HandlerState, Package
<1> QED
  BY <1>1, FirstPriorityOnly DEF VisitedConn

LEMMA SameConnection ==
    ASSUME WaitsOnOneConnection, NEW dev \in Uart, NEW conn \in Uart, NEW other \in Uart,
           Uses(dev, conn), Uses(dev, other)
    PROVE  conn = other
  BY DEF WaitsOnOneConnection, Uses

\* A step that resends, waits or exhausts a connection visits a package for the first
\* time, at priority 1, so no package is being released.
LEMMA NothingReleasing ==
    ASSUME WaitsOnOneConnection, TypeOK, nh.prio > 0, AtStoredPackage, ~MustDiscard
    PROVE  /\ nh.prio = 1 /\ VisitedConn \in Uart /\ Uses(Visited.dev, VisitedConn)
           /\ \A i \in Slots : ~Releasing(i)
<1>1. VisitedConn \in Uart
  BY DEF MustDiscard
<1> QED
  BY <1>1, VisitUsesConnection DEF Releasing

-----------------------------------------------------------------------------
(* Traffic stays on the connections the devices use *)

LEMMA UsePushed ==
    ASSUME NEW S, NEW queues \in [Uart -> Seq(S)], NEW conn \in Uart, NEW e \in S,
           AllUse(queues), Uses(e.dev, conn)
    PROVE  AllUse(Pushed(queues, conn, e))
<1>1. /\ Len(Pushed(queues, conn, e)[conn]) = Len(queues[conn]) + 1
      /\ Len(queues[conn]) \in Nat
      /\ Pushed(queues, conn, e)[conn][Len(queues[conn]) + 1] = e
      /\ \A k \in 1 .. Len(queues[conn]) :
            Pushed(queues, conn, e)[conn][k] = queues[conn][k]
  BY AppendProperties, LenProperties DEF Pushed
<1>2. \A c \in Uart : c # conn => Pushed(queues, conn, e)[c] = queues[c]
  BY DEF Pushed
<1>3. ASSUME NEW k \in 1 .. Len(Pushed(queues, conn, e)[conn])
      PROVE  Uses(Pushed(queues, conn, e)[conn][k].dev, conn)
  <2>1. k \in 1 .. Len(queues[conn]) \/ k = Len(queues[conn]) + 1
    BY <1>1
  <2> QED
    BY <1>1, <2>1 DEF AllUse
<1> QED
  BY <1>2, <1>3 DEF AllUse

LEMMA UseShortened ==
    ASSUME NEW S, NEW queues \in [Uart -> Seq(S)], NEW conn \in Uart,
           AllUse(queues), queues[conn] # <<>>
    PROVE  AllUse(Shortened(queues, conn)) /\ Uses(Head(queues[conn]).dev, conn)
<1>1. /\ Len(Shortened(queues, conn)[conn]) = Len(queues[conn]) - 1
      /\ Len(queues[conn]) \in Nat
      /\ Len(queues[conn]) >= 1
      /\ Head(queues[conn]) = queues[conn][1]
      /\ \A k \in 1 .. Len(queues[conn]) - 1 :
            Shortened(queues, conn)[conn][k] = queues[conn][k + 1]
  BY HeadTailProperties, LenProperties DEF Shortened
<1>2. \A c \in Uart : c # conn => Shortened(queues, conn)[c] = queues[c]
  BY DEF Shortened
<1>3. ASSUME NEW k \in 1 .. Len(Shortened(queues, conn)[conn])
      PROVE  Uses(Shortened(queues, conn)[conn][k].dev, conn)
  <2>1. k + 1 \in 1 .. Len(queues[conn]) /\ k \in 1 .. Len(queues[conn]) - 1
    BY <1>1
  <2> QED
    BY <1>1, <2>1 DEF AllUse
<1>4. Uses(Head(queues[conn]).dev, conn)
  BY <1>1 DEF AllUse
<1> QED
  BY <1>2, <1>3, <1>4 DEF AllUse

LEMMA TrafficStaysOnUsed ==
    ASSUME WaitsOnOneConnection, TypeOK, nh.prio > 0, TrafficOnUsed, HeldIsNewest, [Next]_vars
    PROVE  TrafficOnUsed'
<1>0. /\ queuePackagesToSend \in [Uart -> Seq(QueuedPackage)]
      /\ air \in [Uart -> Seq(Frame)]
      /\ acks \in [Uart -> Seq(Ack)]
      /\ nh.dev \in Uart
      /\ AllUse(queuePackagesToSend) /\ AllUse(air) /\ AllUse(acks)
  BY DEF TypeOK, HandlerState, TrafficOnUsed
<1>1. CASE PushWithoutAck \/ PushExpectingAck
  <2>1. /\ nh.step = "push" /\ PushPossible
        /\ queuePackagesToSend' = Pushed(queuePackagesToSend, PushConn, NewQueued(pack))
        /\ UNCHANGED <<ph, air, acks>>
    BY <1>1 DEF PushWithoutAck, PushExpectingAck, Pushed
  <2>2. PushConn \in Uart /\ Uses(nh.dev, PushConn)
    BY <2>1, PushUsesConnection
  <2>3. NewQueued(pack) \in QueuedPackage /\ NewQueued(pack).dev = nh.dev
    BY <2>1 DEF TypeOK, HeldIsNewest, NewQueued, QueuedPackage, Package
  <2>4. AllUse(queuePackagesToSend')
    BY <1>0, <2>1, <2>2, <2>3, UsePushed
  <2> QED
    BY <2>1, <2>4 DEF TrafficOnUsed, AllUse
<1>2. CASE ResendPackage
  <2>1. /\ AtStoredPackage /\ ~MustDiscard
        /\ queuePackagesToSend' = Pushed(queuePackagesToSend, VisitedConn, ResendCopy(Visited))
        /\ UNCHANGED <<ph, air, acks>>
    BY <1>2 DEF ResendPackage, ResendDue, Pushed
  <2>2. VisitedConn \in Uart /\ Uses(Visited.dev, VisitedConn)
    BY <2>1, NothingReleasing
  <2>3. ResendCopy(Visited) \in QueuedPackage /\ ResendCopy(Visited).dev = Visited.dev
    BY <2>1, VisitedPackage DEF ResendCopy, QueuedPackage, Package
  <2>4. AllUse(queuePackagesToSend')
    BY <1>0, <2>1, <2>2, <2>3, UsePushed
  <2> QED
    BY <2>1, <2>4 DEF TrafficOnUsed, AllUse
<1>3. ASSUME NEW conn \in Uart, PopReadyToSend(conn) PROVE TrafficOnUsed'
  <2>1. /\ queuePackagesToSend[conn] # <<>>
        /\ queuePackagesToSend' = Shortened(queuePackagesToSend, conn)
        /\ ph' = [conn |-> conn, pack |-> Head(queuePackagesToSend[conn])]
        /\ UNCHANGED <<air, acks>>
    BY <1>3 DEF PopReadyToSend, Shortened
  <2>2. AllUse(queuePackagesToSend') /\ Uses(Head(queuePackagesToSend[conn]).dev, conn)
    BY <1>0, <2>1, UseShortened
  <2> QED
    BY <2>1, <2>2 DEF TrafficOnUsed, AllUse
<1>4. CASE SendAndFree
  <2>1. ph.conn \in Uart /\ ph.pack \in QueuedPackage /\ Uses(ph.pack.dev, ph.conn)
    BY <1>4 DEF SendAndFree, TypeOK, TrafficOnUsed
  <2>2. ASSUME NEW read \in FrameContents(ph.pack)
        PROVE  AllUse(Pushed(air, ph.conn, [dev |-> ph.pack.dev, sysTime |-> ph.pack.sysTime,
                                            intact |-> read]))
    <3>1. [dev |-> ph.pack.dev, sysTime |-> ph.pack.sysTime, intact |-> read] \in Frame
      BY <2>1 DEF FrameContents, ReadPayload, QueuedPackage, Frame
    <3> QED
      BY <1>0, <2>1, <3>1, UsePushed
  <2>3. AllUse(air')
    BY <1>0, <1>4, <2>2 DEF SendAndFree, Pushed
  <2> QED
    BY <1>4, <2>3 DEF SendAndFree, TrafficOnUsed, AllUse
<1>5. ASSUME NEW conn \in Uart, PeerReceives(conn) PROVE TrafficOnUsed'
  <2>1. /\ air[conn] # <<>>
        /\ air' = Shortened(air, conn)
        /\ \/ acks' = Pushed(acks, conn, [dev |-> Head(air[conn]).dev,
                                          sysTime |-> Head(air[conn]).sysTime])
           \/ acks' = acks
        /\ UNCHANGED <<queuePackagesToSend, ph>>
    BY <1>5 DEF PeerReceives, Shortened, Pushed
  <2>2. AllUse(air') /\ Uses(Head(air[conn]).dev, conn)
    BY <1>0, <2>1, UseShortened
  <2>3. [dev |-> Head(air[conn]).dev, sysTime |-> Head(air[conn]).sysTime] \in Ack
    <3>1. Head(air[conn]) \in Frame
      BY <1>0, <2>1, QueueUpdates
    <3> QED
      BY <3>1 DEF Frame, Ack
  <2>4. AllUse(Pushed(acks, conn, [dev |-> Head(air[conn]).dev,
                                   sysTime |-> Head(air[conn]).sysTime]))
    BY <1>0, <2>2, <2>3, UsePushed
  <2>5. AllUse(acks')
    BY <1>0, <2>1, <2>4
  <2> QED
    BY <2>1, <2>2, <2>5 DEF TrafficOnUsed, AllUse
<1>6. CASE ReceiveAck \/ ReceiveUnmatchedAck
  <2>1. /\ acks[nh.dev] # <<>>
        /\ acks' = Shortened(acks, nh.dev)
        /\ UNCHANGED <<queuePackagesToSend, ph, air>>
    BY <1>6 DEF ReceiveAck, ReceiveUnmatchedAck, Shortened
  <2>2. AllUse(acks')
    BY <1>0, <2>1, UseShortened
  <2> QED
    BY <2>1, <2>2 DEF TrafficOnUsed, AllUse
<1>7. CASE UNCHANGED <<queuePackagesToSend, ph, air, acks>>
  BY <1>7 DEF TrafficOnUsed, AllUse
<1>8. CASE \/ GenerateNothing \/ GenerateDataPackage \/ PushFails \/ StorePackage \/ StoreFails
           \/ ReceiveNothing \/ DropGeneratedPackage
  BY <1>7, <1>8 DEF GenerateNothing, GenerateDataPackage, PushFails, StorePackage, StoreFails,
     ReceiveNothing, DropGeneratedPackage
<1>9. CASE \/ ResendDone \/ ResendSkip \/ ResendPushFails \/ ResendWait
           \/ ResendConnectionExhausted \/ ResendNegative \/ ResendDiscard
           \/ Tick \/ UNCHANGED vars
  BY <1>7, <1>9 DEF ResendDone, ResendSkip, ResendPushFails, ResendWait,
     ResendConnectionExhausted, ResendNegative, ResendDiscard, Tick, vars
<1> QED
  BY <1>1, <1>2, <1>3, <1>4, <1>5, <1>6, <1>8, <1>9
  DEF Next, NetworkHandler, SendingStep, ReceivingStep, ResendingStep, DiscardingStep,
      PackageHandler

-----------------------------------------------------------------------------
(* The package the network handler holds stays the newest *)

LEMMA HeldStaysNewest ==
    ASSUME WaitsOnOneConnection, TypeOK, WaitInv, [Next]_vars
    PROVE  HeldIsNewest'
<1>0. /\ nh \in HandlerState /\ nh.dev \in Uart /\ nh.prio > 0
      /\ nh.step \in {"push", "store"} => pack \in Package
      /\ HeldIsNewest /\ StoredIsAlone
  BY DEF TypeOK, HandlerState, WaitInv
<1>1. CASE GenerateDataPackage
  <2>1. PICK conn \in Uart : ChosenConn(nh.dev, conn) /\ MayGenerateFor(nh.dev, conn)
    BY <1>1 DEF GenerateDataPackage
  <2>2. Uses(nh.dev, conn)
    BY <1>0, <2>1, FirstPriorityOnly, ConfigAssumption DEF ChosenConn
  <2>3. ackReceived[conn]
    BY <1>0, <2>1, <2>2 DEF MayGenerateFor, WaitsOnOneConnection, Uses, Waits
  <2>4. \A i \in Occupied : ~Uses(unacknowledgedPackages[i].dev, conn)
    BY <1>0, <1>1, <2>3 DEF StoredIsAlone, Releasing, GenerateDataPackage
  <2>5. \A other \in Uart : Uses(nh.dev, other) => other = conn
    BY <1>0, <2>2, SameConnection
  <2>6. /\ nh'.step = "push" /\ nh'.dev = nh.dev
        /\ pack'.dev = nh.dev
        /\ pack'.sysTime = sentPackNumTracker'[nh.dev]
        /\ pack'.left = SendCntWirelessConnDev[nh.dev]
        /\ UNCHANGED <<unacknowledgedPackages, ackReceived>>
    <3>1. sentPackNumTracker'[nh.dev] = sentPackNumTracker[nh.dev] + 1
      BY <1>0, <1>1 DEF GenerateDataPackage, TypeOK
    <3> QED
      BY <1>0, <1>1, <3>1 DEF GenerateDataPackage, GeneratedPackage, HandlerState
  <2>7. AttemptsOnUsed(pack')
    <3>1. SendCntWirelessConnDev[nh.dev] \in [Uart -> Nat]
      BY <1>0, ConfigAssumption
    <3>2. \A c \in Uart : ~SentOn(pack', c)
      BY <2>6, <3>1 DEF SentOn
    <3> QED
      BY <3>2 DEF AttemptsOnUsed
  <2> QED
    BY <2>4, <2>5, <2>6, <2>7 DEF HeldIsNewest, Occupied
<1>2. CASE PushExpectingAck
  <2>1. PushConn \in Uart /\ Uses(nh.dev, PushConn)
    BY <1>0, <1>2, PushUsesConnection DEF PushExpectingAck
  <2>2. \A other \in Uart : Uses(nh.dev, other) => other = PushConn
    BY <1>0, <2>1, SameConnection
  <2>3. /\ nh'.step = "store" /\ nh'.dev = nh.dev
        /\ pack'.dev = pack.dev /\ pack'.sysTime = pack.sysTime
        /\ \A c \in Uart : c # PushConn => pack'.left[c] = pack.left[c]
        /\ ~ackReceived'[PushConn]
        /\ UNCHANGED <<unacknowledgedPackages, sentPackNumTracker>>
    <3>1. pack \in Package /\ nh.step = "push"
      BY <1>0, <1>2 DEF PushExpectingAck
    <3>2. /\ pack'.dev = pack.dev /\ pack'.sysTime = pack.sysTime
          /\ \A c \in Uart : c # PushConn => pack'.left[c] = pack.left[c]
      BY <1>2, <3>1 DEF PushExpectingAck, Package
    <3>3. ~ackReceived'[PushConn]
      BY <1>2, <2>1 DEF PushExpectingAck, TakeAckFlag, TypeOK
    <3> QED
      BY <1>0, <1>2, <3>2, <3>3 DEF PushExpectingAck, HandlerState
  <2>4. /\ pack.dev = nh.dev
        /\ pack.sysTime = sentPackNumTracker[nh.dev]
        /\ AttemptsOnUsed(pack)
        /\ \A i \in Occupied : ~Uses(unacknowledgedPackages[i].dev, PushConn)
    BY <1>0, <1>2, <2>1 DEF PushExpectingAck, HeldIsNewest
  <2>5. AttemptsOnUsed(pack')
    BY <2>1, <2>3, <2>4 DEF AttemptsOnUsed, SentOn
  <2> QED
    BY <2>2, <2>3, <2>4, <2>5 DEF HeldIsNewest, Occupied
<1>3. CASE PushFails \/ StoreFails
  <2>1. /\ nh.step \in {"push", "store"}
        /\ nh'.step = "push" /\ nh'.dev = nh.dev
        /\ UNCHANGED nhVars
    BY <1>0, <1>3 DEF PushFails, StoreFails, HandlerState
  <2> QED
    BY <1>0, <2>1 DEF HeldIsNewest, Occupied, nhVars
<1>4. CASE Tick
  <2>1. \A i \in Slots : /\ (unacknowledgedPackages'[i] = NoPackage)
                              <=> (unacknowledgedPackages[i] = NoPackage)
                         /\ unacknowledgedPackages[i] # NoPackage =>
                               unacknowledgedPackages'[i].dev = unacknowledgedPackages[i].dev
    BY <1>4, AgedPackage, AgedEmpty, SenderAssumption DEF Tick, TypeOK
  <2>2. pack \in Package => /\ pack'.dev = pack.dev
                            /\ pack'.sysTime = pack.sysTime
                            /\ pack'.left = pack.left
    BY <1>4, AgedPackage DEF Tick
  <2>3. UNCHANGED <<nh, ackReceived, sentPackNumTracker>>
    BY <1>4 DEF Tick
  <2>4. ASSUME nh.step \in {"push", "store"} PROVE AttemptsOnUsed(pack')
    BY <1>0, <2>2, <2>4 DEF HeldIsNewest, AttemptsOnUsed, SentOn
  <2> QED
    BY <1>0, <2>1, <2>2, <2>3, <2>4 DEF HeldIsNewest, Occupied
<1>5. CASE nh'.step \notin {"push", "store"}
  BY <1>5 DEF HeldIsNewest
<1>6. CASE UNCHANGED <<nhVars, nh>>
  BY <1>0, <1>6 DEF HeldIsNewest, Occupied, nhVars
<1>7. CASE \/ GenerateNothing \/ PushWithoutAck \/ StorePackage \/ DropGeneratedPackage
           \/ ReceivingStep
  BY <1>0, <1>5, <1>7, HandlerMoves DEF GenerateNothing, PushWithoutAck, StorePackage,
     DropGeneratedPackage, ReceivingStep, ReceiveNothing, ReceiveAck, ReceiveUnmatchedAck,
     StartResending, HandlerState
<1>8. CASE ResendingStep \/ ResendDiscard
  <2>1. nh.step = "resend"
    BY <1>8 DEF ResendingStep, ResendDiscard, ResendDone, ResendSkip, ResendPackage, ResendDue,
       ResendPushFails, ResendWait, ResendConnectionExhausted, ResendNegative, AtStoredPackage
  <2>2. NextSlot(nh).step = "resend" /\ NextPrio(nh).step = "resend"
    BY <1>0, <2>1, HandlerMoves
  <2>3. nh'.step \in {"resend", "generate"}
    BY <1>0, <1>8, <2>1, <2>2 DEF ResendingStep, ResendDiscard, ResendDone, ResendSkip,
       ResendPackage, ResendPushFails, ResendWait, ResendConnectionExhausted, ResendNegative,
       HandlerState
  <2> QED
    BY <1>5, <2>3
<1>9. CASE UNCHANGED vars
  BY <1>6, <1>9 DEF vars, nhVars
<1> QED
  BY <1>1, <1>2, <1>3, <1>4, <1>6, <1>7, <1>8, <1>9
  DEF Next, NetworkHandler, SendingStep, DiscardingStep, PackageHandler, PopReadyToSend,
      SendAndFree, PeerReceives

-----------------------------------------------------------------------------
(* What is stored stays alone on its connection *)

\* A step that leaves the array as it is, releases no connection and lets no discarding
\* begin or end.
LEMMA AloneUnlessReleased ==
    ASSUME StoredIsAlone, UNCHANGED <<unacknowledgedPackages, sentPackNumTracker>>,
           \A conn \in Uart : ackReceived'[conn] => ackReceived[conn],
           \A i \in Slots : i \in Occupied /\ Releasing(i) => Releasing(i)'
    PROVE  StoredIsAlone'
  BY DEF StoredIsAlone, Occupied

LEMMA SendingStaysAlone ==
    ASSUME WaitsOnOneConnection, TypeOK, WaitInv, SendingStep \/ DropGeneratedPackage
    PROVE  StoredIsAlone'
<1>0. /\ nh \in HandlerState /\ nh.dev \in Uart /\ nh.prio > 0
      /\ nh.step \in {"push", "store"} => pack \in Package
      /\ HeldIsNewest /\ StoredIsAlone
  BY DEF TypeOK, HandlerState, WaitInv
<1>1. \A i \in Slots : ~Releasing(i)
  BY DEF Releasing, SendingStep, GenerateNothing, GenerateDataPackage, PushFails,
     PushWithoutAck, PushExpectingAck, StorePackage, StoreFails, DropGeneratedPackage
<1>2. CASE GenerateDataPackage
  <2>1. HeldIsNewest'
    BY <1>2, HeldStaysNewest DEF Next, NetworkHandler, SendingStep
  <2>2. /\ nh'.step = "push" /\ nh'.dev = nh.dev
        /\ UNCHANGED <<unacknowledgedPackages, ackReceived>>
        /\ \A dev \in Uart : dev # nh.dev =>
              sentPackNumTracker'[dev] = sentPackNumTracker[dev]
    BY <1>0, <1>2 DEF GenerateDataPackage, HandlerState, TypeOK
  <2>3. ASSUME NEW i \in Occupied, NEW conn \in Uart, Uses(unacknowledgedPackages[i].dev, conn)
        PROVE  sentPackNumTracker'[unacknowledgedPackages[i].dev] =
                  sentPackNumTracker[unacknowledgedPackages[i].dev]
    <3>1. unacknowledgedPackages[i].dev # nh.dev
      BY <2>1, <2>2, <2>3 DEF HeldIsNewest, Occupied
    <3>2. unacknowledgedPackages[i].dev \in Uart
      BY DEF Occupied, TypeOK, Package
    <3> QED
      BY <2>2, <3>1, <3>2
  <2> QED
    BY <1>0, <1>1, <2>2, <2>3 DEF StoredIsAlone, Occupied
<1>3. CASE PushExpectingAck
  <2>1. \A conn \in Uart : ackReceived'[conn] => ackReceived[conn]
    BY <1>3 DEF PushExpectingAck, TakeAckFlag, TypeOK
  <2> QED
    BY <1>0, <1>1, <1>3, <2>1, AloneUnlessReleased DEF PushExpectingAck
<1>4. CASE StorePackage
  <2>1. PICK i \in Slots, read \in ReadPayload(pack) :
           /\ unacknowledgedPackages[i] = NoPackage
           /\ unacknowledgedPackages' =
                 [unacknowledgedPackages EXCEPT ![i] = [pack EXCEPT !.intact = read]]
    BY <1>4 DEF StorePackage
  <2>2. /\ pack \in Package /\ pack.dev = nh.dev
        /\ pack.sysTime = sentPackNumTracker[nh.dev]
        /\ AttemptsOnUsed(pack)
        /\ \A conn \in Uart : Uses(nh.dev, conn) =>
              /\ ~ackReceived[conn]
              /\ \A j \in Occupied : ~Uses(unacknowledgedPackages[j].dev, conn)
    BY <1>0, <1>4 DEF StorePackage, HeldIsNewest
  <2>3. /\ unacknowledgedPackages'[i].dev = nh.dev
        /\ unacknowledgedPackages'[i].sysTime = pack.sysTime
        /\ unacknowledgedPackages'[i].left = pack.left
        /\ \A j \in Slots : j # i => unacknowledgedPackages'[j] = unacknowledgedPackages[j]
    BY <2>1, <2>2 DEF TypeOK, Package
  <2>4. Occupied' \subseteq Occupied \cup {i} /\ i \notin Occupied
    BY <2>1, <2>3 DEF Occupied
  <2>5. AttemptsOnUsed(unacknowledgedPackages'[i])
    BY <2>2, <2>3 DEF AttemptsOnUsed, SentOn
  <2>6. UNCHANGED <<sentPackNumTracker, ackReceived>>
    BY <1>4 DEF StorePackage
  <2>7. ASSUME NEW j \in Occupied', j # i
        PROVE  /\ AttemptsOnUsed(unacknowledgedPackages'[j])
               /\ \A conn \in Uart : Uses(unacknowledgedPackages'[j].dev, conn) =>
                     /\ unacknowledgedPackages'[j].sysTime =
                           sentPackNumTracker'[unacknowledgedPackages'[j].dev]
                     /\ \A k \in Occupied' : Uses(unacknowledgedPackages'[k].dev, conn) => j = k
                     /\ ~ackReceived'[conn]
    <3>1. /\ j \in Occupied /\ j \in Slots
          /\ unacknowledgedPackages'[j] = unacknowledgedPackages[j]
      BY <2>3, <2>4, <2>7 DEF Occupied
    <3>2. \A k \in Occupied :
             k \in Slots /\ (k # i => unacknowledgedPackages'[k] = unacknowledgedPackages[k])
      BY <2>3 DEF Occupied
    <3> QED
      BY <1>0, <1>1, <2>2, <2>3, <2>4, <2>6, <3>1, <3>2 DEF StoredIsAlone
  <2>8. /\ AttemptsOnUsed(unacknowledgedPackages'[i])
        /\ \A conn \in Uart : Uses(unacknowledgedPackages'[i].dev, conn) =>
              /\ unacknowledgedPackages'[i].sysTime =
                    sentPackNumTracker'[unacknowledgedPackages'[i].dev]
              /\ \A k \in Occupied' : Uses(unacknowledgedPackages'[k].dev, conn) => i = k
              /\ ~ackReceived'[conn]
    <3>1. \A k \in Occupied' : k # i =>
             k \in Occupied /\ unacknowledgedPackages'[k] = unacknowledgedPackages[k]
      BY <2>3, <2>4 DEF Occupied
    <3> QED
      BY <2>2, <2>3, <2>5, <2>6, <3>1
  <2> QED
    BY <2>7, <2>8 DEF StoredIsAlone
<1>5. CASE GenerateNothing \/ PushFails \/ PushWithoutAck \/ StoreFails \/ DropGeneratedPackage
  <2>1. UNCHANGED <<unacknowledgedPackages, sentPackNumTracker, ackReceived>>
    BY <1>5 DEF GenerateNothing, PushFails, PushWithoutAck, StoreFails, DropGeneratedPackage,
       nhVars
  <2> QED
    BY <1>0, <1>1, <2>1, AloneUnlessReleased
<1> QED
  BY <1>2, <1>3, <1>4, <1>5 DEF SendingStep

\* Freeing slot i, and releasing at most the connection its package uses, leaves the other
\* stored packages alone, when none of them is being discarded.
LEMMA AloneWhenFreed ==
    ASSUME TypeOK, StoredIsAlone, NEW i \in Occupied, NEW conn \in Uart,
           Uses(unacknowledgedPackages[i].dev, conn),
           unacknowledgedPackages' = [unacknowledgedPackages EXCEPT ![i] = NoPackage],
           \A c \in Uart : c # conn => (ackReceived'[c] => ackReceived[c]),
           \A j \in Slots : j # i => ~Releasing(j),
           UNCHANGED sentPackNumTracker
    PROVE  StoredIsAlone'
<1>1. Occupied' \subseteq Occupied \ {i}
  BY DEF Occupied, TypeOK
<1>2. ASSUME NEW j \in Occupied'
      PROVE  /\ j \in Occupied /\ j \in Slots /\ j # i
             /\ unacknowledgedPackages'[j] = unacknowledgedPackages[j]
  BY <1>1 DEF Occupied
<1>3. ASSUME NEW j \in Occupied', NEW c \in Uart, Uses(unacknowledgedPackages'[j].dev, c)
      PROVE  c # conn /\ ~ackReceived'[c]
  BY <1>2, <1>3 DEF StoredIsAlone
<1> QED
  BY <1>2, <1>3 DEF StoredIsAlone

LEMMA ReceivingStaysAlone ==
    ASSUME WaitsOnOneConnection, TypeOK, WaitInv, ReceivingStep
    PROVE  StoredIsAlone'
<1>0. nh.dev \in Uart /\ StoredIsAlone /\ TrafficOnUsed
  BY DEF TypeOK, HandlerState, WaitInv
<1>1. \A i \in Slots : ~Releasing(i)
  BY DEF Releasing, ReceivingStep, ReceiveNothing, ReceiveAck, ReceiveUnmatchedAck
<1>2. CASE ReceiveNothing \/ ReceiveUnmatchedAck
  <2>1. UNCHANGED <<unacknowledgedPackages, sentPackNumTracker, ackReceived>>
    BY <1>2 DEF ReceiveNothing, ReceiveUnmatchedAck, nhVars
  <2> QED
    BY <1>0, <1>1, <2>1, AloneUnlessReleased
<1>3. CASE ReceiveAck
  <2>1. PICK i \in Scanned :
           /\ AckMatches(unacknowledgedPackages[i], Head(acks[nh.dev]))
           /\ unacknowledgedPackages' = [unacknowledgedPackages EXCEPT ![i] = NoPackage]
    BY <1>3 DEF ReceiveAck
  <2>2. Uses(Head(acks[nh.dev]).dev, nh.dev)
    BY <1>0, <1>3, UseShortened DEF ReceiveAck, TypeOK, TrafficOnUsed
  <2>3. i \in Occupied /\ Uses(unacknowledgedPackages[i].dev, nh.dev)
    BY <2>1, <2>2 DEF Scanned, AckMatches
  <2>4. \A c \in Uart : c # nh.dev => (ackReceived'[c] => ackReceived[c])
    BY <1>0, <1>3 DEF ReceiveAck, ReleaseAckFlag, TypeOK
  <2>5. UNCHANGED sentPackNumTracker
    BY <1>3 DEF ReceiveAck
  <2> QED
    BY <1>0, <1>1, <2>1, <2>3, <2>4, <2>5, AloneWhenFreed
<1> QED
  BY <1>2, <1>3 DEF ReceivingStep

LEMMA ResendingStaysAlone ==
    ASSUME WaitsOnOneConnection, TypeOK, WaitInv, ResendingStep
    PROVE  StoredIsAlone'
<1>0. /\ nh \in HandlerState /\ nh.index \in Nat /\ nh.left \in Int
      /\ nh.prio > 0 /\ StoredIsAlone
  BY DEF TypeOK, HandlerState, WaitInv
<1>1. CASE ResendDone \/ ResendSkip
  <2>1. \A i \in Occupied : ~Releasing(i)
    <3>1. ASSUME NEW i \in Occupied, Releasing(i) PROVE FALSE
      <4>1. i < MaxUnack /\ nh.index = i /\ nh.left > 0
        BY <3>1, SenderAssumption DEF Occupied, Slots, Releasing
      <4>2. CASE ResendDone
        BY <1>0, <4>1, <4>2, SenderAssumption DEF ResendDone
      <4>3. CASE ResendSkip
        BY <4>1, <4>3 DEF ResendSkip, Occupied
      <4> QED
        BY <1>1, <4>2, <4>3
    <3> QED
      BY <3>1
  <2>2. UNCHANGED <<unacknowledgedPackages, sentPackNumTracker, ackReceived>>
    BY <1>1 DEF ResendDone, ResendSkip, nhVars
  <2> QED
    BY <1>0, <2>1, <2>2, AloneUnlessReleased
<1>2. CASE ResendPushFails \/ ResendWait \/ ResendNegative
  <2>1. AtStoredPackage /\ ~MustDiscard
    BY <1>2 DEF ResendPushFails, ResendDue, ResendWait, ResendNegative
  <2>2. \A i \in Slots : ~Releasing(i)
    BY <1>0, <2>1, NothingReleasing
  <2>3. UNCHANGED <<unacknowledgedPackages, sentPackNumTracker, ackReceived>>
    BY <1>2 DEF ResendPushFails, ResendWait, ResendNegative, nhVars
  <2> QED
    BY <1>0, <2>2, <2>3, AloneUnlessReleased
<1>3. CASE ResendPackage
  <2>1. AtStoredPackage /\ ~MustDiscard
    BY <1>3 DEF ResendPackage, ResendDue
  <2>2. /\ VisitedConn \in Uart /\ Uses(Visited.dev, VisitedConn)
        /\ \A i \in Slots : ~Releasing(i)
    BY <1>0, <2>1, NothingReleasing
  <2>3. nh.index \in Slots /\ nh.index \in Occupied /\ Visited \in Package
    BY <2>1, VisitedPackage DEF AtStoredPackage, Occupied
  <2> DEFINE after == [Visited EXCEPT !.left[VisitedConn] = @ - 1, !.last[VisitedConn] = 0]
  <2>4. /\ after.dev = Visited.dev /\ after.sysTime = Visited.sysTime
        /\ \A c \in Uart : c # VisitedConn => after.left[c] = Visited.left[c]
        /\ after # NoPackage
    <3>1. after # NoPackage
      BY <2>2, <2>3, AttemptMade, SenderAssumption
    <3>2. /\ after.dev = Visited.dev /\ after.sysTime = Visited.sysTime
          /\ \A c \in Uart : c # VisitedConn => after.left[c] = Visited.left[c]
      BY <2>3 DEF Package
    <3> QED
      BY <3>1, <3>2
  <2>5. /\ unacknowledgedPackages'[nh.index] = after
        /\ \A j \in Slots : j # nh.index =>
              unacknowledgedPackages'[j] = unacknowledgedPackages[j]
        /\ UNCHANGED <<sentPackNumTracker, ackReceived>>
    BY <1>3, <2>3 DEF ResendPackage, TypeOK
  <2> HIDE DEF after
  <2>6. Occupied' = Occupied
    BY <2>3, <2>4, <2>5 DEF Occupied
  <2>7. \A i \in Occupied : /\ unacknowledgedPackages'[i].dev = unacknowledgedPackages[i].dev
                            /\ unacknowledgedPackages'[i].sysTime =
                                  unacknowledgedPackages[i].sysTime
    BY <2>4, <2>5 DEF Occupied, Visited
  <2>8. ASSUME NEW i \in Occupied PROVE AttemptsOnUsed(unacknowledgedPackages'[i])
    <3>1. AttemptsOnUsed(unacknowledgedPackages[i])
      BY <1>0 DEF StoredIsAlone
    <3>2. CASE i # nh.index
      BY <2>5, <3>1, <3>2 DEF Occupied
    <3>3. CASE i = nh.index
      BY <2>2, <2>4, <2>5, <3>1, <3>3 DEF AttemptsOnUsed, SentOn, Visited
    <3> QED
      BY <3>2, <3>3
  <2>9. \A i \in Occupied : i \in Slots
    BY DEF Occupied
  <2> QED
    BY <1>0, <2>2, <2>5, <2>6, <2>7, <2>8, <2>9 DEF StoredIsAlone
<1>4. CASE ResendConnectionExhausted
  <2>1. AtStoredPackage /\ ~MustDiscard
    BY <1>4 DEF ResendConnectionExhausted
  <2>2. /\ nh.prio = 1 /\ VisitedConn \in Uart /\ Uses(Visited.dev, VisitedConn)
        /\ \A i \in Slots : ~Releasing(i)
    BY <1>0, <2>1, NothingReleasing
  <2>3. nh.index \in Occupied
    BY <2>1, VisitedPackage DEF AtStoredPackage, Occupied
  <2>4. /\ \A c \in Uart : c # VisitedConn => (ackReceived'[c] => ackReceived[c])
        /\ UNCHANGED <<unacknowledgedPackages, sentPackNumTracker>>
    BY <1>4, <2>2 DEF ResendConnectionExhausted, ReleaseAckFlag, TypeOK
  <2>5. nh'.step = "resend" /\ nh'.index = nh.index /\ nh'.prio > 1 /\ nh'.left > 0
    <3>1. /\ nh' = [nh EXCEPT !.prio = @ + 1]
          /\ nh.step = "resend" /\ nh.left > 0
      BY <1>4, <2>1, <2>2
      DEF ResendConnectionExhausted, NextPrio, WaitsOnOneConnection, AtStoredPackage
    <3>2. nh'.step = "resend" /\ nh'.index = nh.index /\ nh'.prio = 2 /\ nh'.left = nh.left
      BY <1>0, <2>2, <3>1 DEF HandlerState
    <3> QED
      BY <3>1, <3>2
  <2>6. ASSUME NEW i \in Occupied, NEW conn \in Uart,
               Uses(unacknowledgedPackages[i].dev, conn), ackReceived'[conn]
        PROVE  Releasing(i)'
    <3>1. i \in Slots
      BY DEF Occupied
    <3>2. conn = VisitedConn
      BY <1>0, <2>2, <2>4, <2>6, <3>1 DEF StoredIsAlone
    <3>3. i = nh.index
      BY <1>0, <2>2, <2>3, <2>6, <3>2 DEF StoredIsAlone, Visited
    <3> QED
      BY <2>5, <3>3 DEF Releasing
  <2> QED
    BY <1>0, <2>4, <2>6 DEF StoredIsAlone, Occupied
<1> QED
  BY <1>1, <1>2, <1>3, <1>4 DEF ResendingStep

LEMMA DiscardStaysAlone ==
    ASSUME WaitsOnOneConnection, TypeOK, WaitInv, ResendDiscard
    PROVE  StoredIsAlone'
<1>0. nh.prio > 0 /\ StoredIsAlone
  BY DEF WaitInv
<1>1. /\ AtStoredPackage
      /\ unacknowledgedPackages' = [unacknowledgedPackages EXCEPT ![nh.index] = NoPackage]
      /\ UNCHANGED sentPackNumTracker
      /\ \A j \in Slots : j # nh.index => ~Releasing(j)
  BY DEF ResendDiscard, Releasing
<1>2. nh.index \in Occupied
  BY <1>1, VisitedPackage DEF AtStoredPackage, Occupied
<1>3. CASE VisitedConn \in Uart
  <2>1. Uses(unacknowledgedPackages[nh.index].dev, VisitedConn)
    BY <1>0, <1>1, <1>3, VisitUsesConnection DEF Visited
  <2>2. \A c \in Uart : c # VisitedConn => (ackReceived'[c] => ackReceived[c])
    BY <1>3 DEF ResendDiscard, ReleaseAckFlag, TypeOK
  <2> QED
    BY <1>0, <1>1, <1>2, <1>3, <2>1, <2>2, AloneWhenFreed
<1>4. CASE VisitedConn \notin Uart
  <2>1. ackReceived' = ackReceived
    BY <1>4 DEF ResendDiscard, ReleaseAckFlag
  <2>2. ASSUME NEW j \in Occupied'
        PROVE  /\ j \in Occupied /\ j \in Slots /\ j # nh.index
               /\ unacknowledgedPackages'[j] = unacknowledgedPackages[j]
    BY <1>1, <1>2 DEF Occupied, TypeOK
  <2> QED
    BY <1>0, <1>1, <2>1, <2>2 DEF StoredIsAlone
<1> QED
  BY <1>3, <1>4

LEMMA StoredStaysAlone ==
    ASSUME WaitsOnOneConnection, TypeOK, WaitInv, [Next]_vars
    PROVE  StoredIsAlone'
<1>0. StoredIsAlone
  BY DEF WaitInv
<1>1. CASE Tick
  <2>1. \A i \in Slots : /\ (unacknowledgedPackages'[i] = NoPackage)
                              <=> (unacknowledgedPackages[i] = NoPackage)
                         /\ unacknowledgedPackages[i] # NoPackage =>
                               /\ unacknowledgedPackages'[i].dev = unacknowledgedPackages[i].dev
                               /\ unacknowledgedPackages'[i].sysTime =
                                     unacknowledgedPackages[i].sysTime
                               /\ unacknowledgedPackages'[i].left =
                                     unacknowledgedPackages[i].left
    BY <1>1, AgedPackage, AgedEmpty, SenderAssumption DEF Tick, TypeOK
  <2>2. /\ Occupied' = Occupied
        /\ \A i \in Occupied : i \in Slots /\ unacknowledgedPackages[i] # NoPackage
    BY <2>1 DEF Occupied
  <2>3. UNCHANGED <<nh, ackReceived, sentPackNumTracker>>
    BY <1>1 DEF Tick
  <2>4. ASSUME NEW i \in Occupied PROVE AttemptsOnUsed(unacknowledgedPackages'[i])
    BY <1>0, <2>1, <2>2 DEF StoredIsAlone, AttemptsOnUsed, SentOn
  <2> QED
    BY <1>0, <2>1, <2>2, <2>3, <2>4 DEF StoredIsAlone, Releasing
<1>2. CASE UNCHANGED <<nhVars, nh>>
  BY <1>0, <1>2, AloneUnlessReleased DEF nhVars, Releasing
<1>3. CASE PackageHandler \/ (\E conn \in Uart : PeerReceives(conn)) \/ UNCHANGED vars
  BY <1>2, <1>3 DEF PackageHandler, PopReadyToSend, SendAndFree, PeerReceives, vars, nhVars
<1> QED
  BY <1>1, <1>3, SendingStaysAlone, ReceivingStaysAlone, ResendingStaysAlone, DiscardStaysAlone
  DEF Next, NetworkHandler, DiscardingStep

-----------------------------------------------------------------------------
LEMMA InitWaitInv == Init => WaitInv
<1> SUFFICES ASSUME Init PROVE WaitInv
  OBVIOUS
<1>1. nh.prio > 0 /\ HeldIsNewest
  BY DEF Init, HeldIsNewest
<1>2. TrafficOnUsed
  BY DEF Init, TrafficOnUsed, AllUse
<1>3. StoredIsAlone
  BY DEF Init, StoredIsAlone, Occupied
<1> QED
  BY <1>1, <1>2, <1>3 DEF WaitInv

LEMMA StepWaitInv ==
    ASSUME WaitsOnOneConnection, TypeOK, WaitInv, [Next]_vars
    PROVE  WaitInv'
<1>1. nh.prio > 0 /\ TrafficOnUsed /\ HeldIsNewest
  BY DEF WaitInv
<1>2. nh'.prio > 0 /\ TrafficOnUsed'
  BY <1>1, PrioPositive, TrafficStaysOnUsed
<1> QED
  BY <1>2, HeldStaysNewest, StoredStaysAlone DEF WaitInv

\* Where every device waits for acknowledges on one acknowledged connection, at most one
\* package per connection is unacknowledged and it is the newest of its device, whatever is
\* lost and however the tasks interleave (generateDataPackage, ackReceived).
THEOREM OneUnacknowledged == ASSUME WaitsOnOneConnection PROVE Spec => []StopAndWait
<1>1. TypeOK /\ WaitInv => StopAndWait
  BY DEF WaitInv, StoredIsAlone, AttemptsOnUsed, StopAndWait
<1>2. Init => WaitInv
  BY InitWaitInv
<1>3. TypeOK /\ WaitInv /\ [Next]_vars => WaitInv'
  BY StepWaitInv
<1> QED
  BY <1>1, <1>2, <1>3, TypeCorrect, PTL DEF Spec

-----------------------------------------------------------------------------
(* Sequences of which some elements are lost on the way *)

\* What of a package the order is about.
SameLabel(x, y) == x.dev = y.dev /\ x.sysTime = y.sysTime

\* t is q without some of its packages.
Thinned(t, q) ==
    \E f \in [1 .. Len(t) -> 1 .. Len(q)] :
        /\ \A i, j \in 1 .. Len(t) : i < j => f[i] < f[j]
        /\ \A i \in 1 .. Len(t) : SameLabel(t[i], q[f[i]])

\* The packages of a device are in the order they were generated.
InOrder(q) ==
    \A m, n \in 1 .. Len(q) : m < n /\ q[m].dev = q[n].dev => q[m].sysTime <= q[n].sysTime

NotNewer(q) == \A m \in 1 .. Len(q) : q[m].sysTime <= sentPackNumTracker[q[m].dev]

OnTheWay == Frame \cup QueuedPackage

LEMMA ThinnedInOrder ==
    ASSUME NEW t, NEW q, Thinned(t, q)
    PROVE  /\ InOrder(q) => InOrder(t)
           /\ NotNewer(q) => NotNewer(t)
<1>1. PICK f \in [1 .. Len(t) -> 1 .. Len(q)] :
         /\ \A i, j \in 1 .. Len(t) : i < j => f[i] < f[j]
         /\ \A i \in 1 .. Len(t) : SameLabel(t[i], q[f[i]])
  BY DEF Thinned
<1>2. ASSUME InOrder(q) PROVE InOrder(t)
  BY <1>1, <1>2 DEF InOrder, SameLabel
<1>3. ASSUME NotNewer(q) PROVE NotNewer(t)
  BY <1>1, <1>3 DEF NotNewer, SameLabel
<1> QED
  BY <1>2, <1>3

LEMMA ThinnedSelf == ASSUME NEW S, NEW q \in Seq(S) PROVE Thinned(q, q)
<1> DEFINE f == [i \in 1 .. Len(q) |-> i]
<1>1. /\ f \in [1 .. Len(q) -> 1 .. Len(q)]
      /\ \A i, j \in 1 .. Len(q) : i < j => f[i] < f[j]
      /\ \A i \in 1 .. Len(q) : SameLabel(q[i], q[f[i]])
  BY DEF SameLabel
<1> QED
  BY <1>1 DEF Thinned

\* The newest package joins at the end.
LEMMA NewestAppended ==
    ASSUME sentPackNumTracker \in [Uart -> 0 .. MaxPack],
           NEW q \in Seq(OnTheWay), InOrder(q), NotNewer(q),
           NEW e \in OnTheWay, e.sysTime = sentPackNumTracker[e.dev]
    PROVE  InOrder(Append(q, e)) /\ NotNewer(Append(q, e))
<1> DEFINE t == Append(q, e)
<1>1. /\ Len(t) = Len(q) + 1 /\ Len(q) \in Nat
      /\ t[Len(q) + 1] = e
      /\ \A m \in 1 .. Len(q) : t[m] = q[m]
  BY AppendProperties, LenProperties
<1>2. MaxPack \in Nat /\ e.dev \in Uart
  BY ConfigAssumption DEF OnTheWay, Frame, QueuedPackage
<1>3. sentPackNumTracker[e.dev] \in Int
  BY <1>2
<1> HIDE DEF t
<1>4. ASSUME NEW m \in 1 .. Len(t), NEW n \in 1 .. Len(t), m < n, t[m].dev = t[n].dev
      PROVE  t[m].sysTime <= t[n].sysTime
  <2>1. m \in 1 .. Len(q) /\ t[m] = q[m]
    BY <1>1, <1>4
  <2>2. CASE n \in 1 .. Len(q)
    BY <1>1, <1>4, <2>1, <2>2 DEF InOrder
  <2>3. CASE n = Len(q) + 1
    BY <1>1, <1>4, <2>1, <2>3 DEF NotNewer
  <2> QED
    BY <1>1, <2>2, <2>3
<1>5. ASSUME NEW m \in 1 .. Len(t) PROVE t[m].sysTime <= sentPackNumTracker[t[m].dev]
  <2>1. CASE m \in 1 .. Len(q)
    BY <1>1, <2>1 DEF NotNewer
  <2>2. CASE m = Len(q) + 1
    BY <1>1, <1>3, <2>2
  <2> QED
    BY <1>1, <2>1, <2>2
<1> QED
  BY <1>4, <1>5 DEF InOrder, NotNewer, t

\* Three queues in a row.
LEMMA ThreeParts ==
    ASSUME NEW S, NEW a \in Seq(S), NEW p \in Seq(S), NEW q \in Seq(S)
    PROVE  /\ a \o p \o q \in Seq(S)
           /\ Len(a) \in Nat /\ Len(p) \in Nat /\ Len(q) \in Nat
           /\ Len(a \o p \o q) = Len(a) + Len(p) + Len(q)
           /\ \A i \in 1 .. Len(a) + Len(p) + Len(q) :
                 (a \o p \o q)[i] = IF i <= Len(a) THEN a[i]
                                    ELSE IF i <= Len(a) + Len(p) THEN p[i - Len(a)]
                                    ELSE q[i - (Len(a) + Len(p))]
<1>1. Len(a) \in Nat /\ Len(p) \in Nat /\ Len(q) \in Nat
  BY LenProperties
<1>2. /\ a \o p \in Seq(S)
      /\ Len(a \o p) = Len(a) + Len(p)
      /\ \A i \in 1 .. Len(a) + Len(p) :
            (a \o p)[i] = IF i <= Len(a) THEN a[i] ELSE p[i - Len(a)]
  BY ConcatProperties
<1>3. PICK b \in Seq(S) :
         /\ b = a \o p
         /\ Len(b) = Len(a) + Len(p)
         /\ \A i \in 1 .. Len(a) + Len(p) : b[i] = IF i <= Len(a) THEN a[i] ELSE p[i - Len(a)]
  BY <1>2
<1>4. /\ b \o q \in Seq(S)
      /\ Len(b \o q) = Len(b) + Len(q)
      /\ \A i \in 1 .. Len(b) + Len(q) :
            (b \o q)[i] = IF i <= Len(b) THEN b[i] ELSE q[i - Len(b)]
  BY ConcatProperties
<1>5. ASSUME NEW i \in 1 .. Len(a) + Len(p) + Len(q)
      PROVE  (b \o q)[i] = IF i <= Len(a) THEN a[i]
                           ELSE IF i <= Len(a) + Len(p) THEN p[i - Len(a)]
                           ELSE q[i - (Len(a) + Len(p))]
  BY <1>1, <1>3, <1>4
<1> QED
  BY <1>1, <1>3, <1>4, <1>5

\* A package pushed to the last queue is the last of all.
LEMMA PushedLast ==
    ASSUME NEW S, NEW a \in Seq(S), NEW p \in Seq(S), NEW q \in Seq(S), NEW e \in S
    PROVE  a \o p \o Append(q, e) = Append(a \o p \o q, e)
<1>1. /\ Append(q, e) = q \o <<e>>
      /\ <<e>> \in Seq(S)
      /\ a \o p \in Seq(S)
  BY ConcatProperties, AppendProperties
<1>2. (a \o p) \o (q \o <<e>>) = ((a \o p) \o q) \o <<e>>
  BY <1>1, ConcatAssociative
<1>3. a \o p \o q \in Seq(S)
  BY ThreeParts
<1> QED
  BY <1>1, <1>2, <1>3, AppendProperties

\* A package popped from the last queue stays where it is in the row.
LEMMA PoppedStays ==
    ASSUME NEW S, NEW a \in Seq(S), NEW q \in Seq(S), q # <<>>
    PROVE  a \o <<Head(q)>> \o Tail(q) = a \o <<>> \o q
<1>1. /\ Head(q) \in S /\ Tail(q) \in Seq(S) /\ Len(Tail(q)) = Len(q) - 1
      /\ Len(q) \in Nat \ {0}
      /\ q[1] = Head(q)
      /\ \A i \in 1 .. Len(q) - 1 : Tail(q)[i] = q[i + 1]
  BY HeadTailProperties, EmptySeq
<1>2. /\ <<Head(q)>> \in Seq(S) /\ Len(<<Head(q)>>) = 1 /\ <<Head(q)>>[1] = Head(q)
      /\ <<>> \in Seq(S)
  BY <1>1
<1>3. <<Head(q)>> \o Tail(q) = q
  <2> DEFINE h == <<Head(q)>>
             r == Tail(q)
  <2>1. /\ h \o r \in Seq(S) /\ Len(h \o r) = Len(q)
        /\ \A i \in 1 .. Len(q) : (h \o r)[i] = IF i <= 1 THEN h[i] ELSE r[i - 1]
    BY <1>1, <1>2, ConcatProperties
  <2> HIDE DEF h, r
  <2>2. ASSUME NEW i \in 1 .. Len(q) PROVE (h \o r)[i] = q[i]
    <3>1. i = 1 => h[i] = q[i]
      BY <1>1, <1>2 DEF h
    <3>2. i # 1 => i - 1 \in 1 .. Len(q) - 1 /\ r[i - 1] = q[(i - 1) + 1]
      BY <1>1 DEF r
    <3> QED
      BY <1>1, <2>1, <3>1, <3>2
  <2>3. h \o r = q
    BY <2>1, <2>2, SeqEqual
  <2> QED
    BY <2>3 DEF h, r
<1>4. (a \o <<Head(q)>>) \o Tail(q) = a \o (<<Head(q)>> \o Tail(q))
  BY <1>1, <1>2, ConcatAssociative
<1>5. a \o <<>> = a
  BY ConcatEmptySeq
<1> QED
  BY <1>3, <1>4, <1>5

\* A package sent moves on to the air; the last in line before the queue.
LEMMA SentStays ==
    ASSUME NEW S, NEW a \in Seq(S), NEW q \in Seq(S), NEW x \in S, NEW y \in S,
           SameLabel(y, x)
    PROVE  Thinned(Append(a, y) \o <<>> \o q, a \o <<x>> \o q)
<1> DEFINE t == Append(a, y) \o <<>> \o q
           s == a \o <<x>> \o q
           f == [i \in 1 .. Len(t) |-> i]
<1>1. /\ Append(a, y) \in Seq(S) /\ Len(Append(a, y)) = Len(a) + 1
      /\ Append(a, y)[Len(a) + 1] = y
      /\ \A i \in 1 .. Len(a) : Append(a, y)[i] = a[i]
      /\ Len(a) \in Nat /\ Len(q) \in Nat
  BY AppendProperties, LenProperties
<1>2. /\ <<>> \in Seq(S) /\ Len(<<>>) = 0
      /\ <<x>> \in Seq(S) /\ Len(<<x>>) = 1 /\ <<x>>[1] = x
  BY EmptySeq
<1>3. PICK b \in Seq(S) : b = Append(a, y)
  BY <1>1
<1>4. PICK e \in Seq(S) : e = <<>> /\ Len(e) = 0
  BY <1>2
<1>5. PICK o \in Seq(S) : o = <<x>> /\ Len(o) = 1 /\ o[1] = x
  BY <1>2
<1>6. /\ Len(b \o e \o q) = Len(a) + 1 + Len(q)
      /\ \A i \in 1 .. Len(a) + 1 + Len(q) :
            (b \o e \o q)[i] = IF i <= Len(a) + 1 THEN b[i] ELSE q[i - (Len(a) + 1)]
  BY <1>1, <1>3, <1>4, ThreeParts
<1>7. /\ Len(a \o o \o q) = Len(a) + 1 + Len(q)
      /\ \A i \in 1 .. Len(a) + 1 + Len(q) :
            (a \o o \o q)[i] = IF i <= Len(a) THEN a[i]
                               ELSE IF i <= Len(a) + 1 THEN o[i - Len(a)]
                               ELSE q[i - (Len(a) + 1)]
  BY <1>1, <1>5, ThreeParts
<1>8. t = b \o e \o q /\ s = a \o o \o q
  BY <1>3, <1>4, <1>5
<1> HIDE DEF t, s
<1>9. ASSUME NEW i \in 1 .. Len(t) PROVE SameLabel(t[i], s[i])
  <2>1. CASE i <= Len(a)
    <3>1. t[i] = a[i] /\ s[i] = a[i]
      BY <1>1, <1>3, <1>6, <1>7, <1>8, <2>1
    <3> QED
      BY <3>1 DEF SameLabel
  <2>2. CASE i = Len(a) + 1
    <3>1. t[i] = y /\ s[i] = x
      BY <1>1, <1>3, <1>5, <1>6, <1>7, <1>8, <2>2
    <3> QED
      BY <3>1
  <2>3. CASE i > Len(a) + 1
    <3>1. t[i] = s[i]
      BY <1>1, <1>6, <1>7, <1>8, <2>3
    <3> QED
      BY <3>1 DEF SameLabel
  <2>4. i \in Nat
    OBVIOUS
  <2> QED
    BY <1>1, <2>1, <2>2, <2>3, <2>4
<1>10. /\ f \in [1 .. Len(t) -> 1 .. Len(s)]
       /\ \A i, j \in 1 .. Len(t) : i < j => f[i] < f[j]
       /\ \A i \in 1 .. Len(t) : f[i] = i
  BY <1>1, <1>6, <1>7, <1>8
<1> HIDE DEF f
<1>11. Thinned(t, s)
  BY <1>9, <1>10 DEF Thinned
<1> QED
  BY <1>11 DEF t, s

\* A package that is lost leaves the others as they are.
LEMMA LostThinned ==
    ASSUME NEW S, NEW a \in Seq(S), NEW q \in Seq(S), NEW x \in S
    PROVE  Thinned(a \o <<>> \o q, a \o <<x>> \o q)
<1> DEFINE t == a \o <<>> \o q
           s == a \o <<x>> \o q
           f == [i \in 1 .. Len(t) |-> IF i <= Len(a) THEN i ELSE i + 1]
<1>1. Len(a) \in Nat /\ Len(q) \in Nat
  BY LenProperties
<1>2. PICK e \in Seq(S) : e = <<>> /\ Len(e) = 0
  BY EmptySeq
<1>3. PICK o \in Seq(S) : o = <<x>> /\ Len(o) = 1
  <2>1. <<x>> \in Seq(S) /\ Len(<<x>>) = 1
    OBVIOUS
  <2> QED
    BY <2>1
<1>4. /\ Len(a \o e \o q) = Len(a) + Len(q)
      /\ \A i \in 1 .. Len(a) + Len(q) :
            (a \o e \o q)[i] = IF i <= Len(a) THEN a[i] ELSE q[i - Len(a)]
  BY <1>1, <1>2, ThreeParts
<1>5. /\ Len(a \o o \o q) = Len(a) + 1 + Len(q)
      /\ \A i \in 1 .. Len(a) + 1 + Len(q) :
            (a \o o \o q)[i] = IF i <= Len(a) THEN a[i]
                               ELSE IF i <= Len(a) + 1 THEN o[i - Len(a)]
                               ELSE q[i - (Len(a) + 1)]
  BY <1>1, <1>3, ThreeParts
<1>6. t = a \o e \o q /\ s = a \o o \o q
  BY <1>2, <1>3
<1> HIDE DEF t, s
<1>7. ASSUME NEW i \in 1 .. Len(t) PROVE SameLabel(t[i], s[IF i <= Len(a) THEN i ELSE i + 1])
  <2>1. CASE i <= Len(a)
    <3>1. t[i] = s[i]
      BY <1>1, <1>4, <1>5, <1>6, <2>1
    <3> QED
      BY <2>1, <3>1 DEF SameLabel
  <2>2. CASE i > Len(a)
    <3>1. /\ i \in 1 .. Len(a) + Len(q) /\ i + 1 \in 1 .. Len(a) + 1 + Len(q)
          /\ ~(i <= Len(a)) /\ ~(i + 1 <= Len(a)) /\ ~(i + 1 <= Len(a) + 1)
          /\ (i + 1) - (Len(a) + 1) = i - Len(a)
      BY <1>1, <1>4, <1>6, <2>2
    <3>2. t[i] = q[i - Len(a)]
      BY <1>4, <1>6, <3>1
    <3>3. s[i + 1] = q[i - Len(a)]
      BY <1>5, <1>6, <3>1
    <3> QED
      BY <3>1, <3>2, <3>3 DEF SameLabel
  <2>3. i \in Nat
    OBVIOUS
  <2> QED
    BY <1>1, <2>1, <2>2, <2>3
<1>8. /\ f \in [1 .. Len(t) -> 1 .. Len(s)]
      /\ \A i, j \in 1 .. Len(t) : i < j => f[i] < f[j]
      /\ \A i \in 1 .. Len(t) : f[i] = IF i <= Len(a) THEN i ELSE i + 1
  BY <1>1, <1>4, <1>5, <1>6
<1> HIDE DEF f
<1>9. Thinned(t, s)
  BY <1>7, <1>8 DEF Thinned
<1> QED
  BY <1>9 DEF t, s

\* Taking the first of a sequence leaves the others as they are.
LEMMA TailThinned ==
    ASSUME NEW S, NEW q \in Seq(S), q # <<>>
    PROVE  Thinned(Tail(q), q)
<1> DEFINE t == Tail(q)
           f == [i \in 1 .. Len(t) |-> i + 1]
<1>1. /\ Len(q) \in Nat \ {0} /\ Len(t) = Len(q) - 1
      /\ \A i \in 1 .. Len(t) : t[i] = q[i + 1]
  BY HeadTailProperties, EmptySeq
<1> HIDE DEF t
<1>2. /\ f \in [1 .. Len(t) -> 1 .. Len(q)]
      /\ \A i, j \in 1 .. Len(t) : i < j => f[i] < f[j]
      /\ \A i \in 1 .. Len(t) : f[i] = i + 1
  BY <1>1
<1> HIDE DEF f
<1>3. Thinned(t, q)
  BY <1>1, <1>2 DEF Thinned, SameLabel
<1> QED
  BY <1>3 DEF t

\* The first of three queues is the first of the row.
LEMMA FirstOfThree ==
    ASSUME NEW S, NEW a \in Seq(S), NEW p \in Seq(S), NEW q \in Seq(S), a # <<>>
    PROVE  /\ Tail(a) \o p \o q = Tail(a \o p \o q)
           /\ Head(a) = Head(a \o p \o q)
           /\ a \o p \o q # <<>>
           /\ a \o p \o q \in Seq(S)
<1>1. PICK b \in Seq(S) : b = Tail(a)
  BY HeadTailProperties
<1>2. /\ Len(a) \in Nat \ {0} /\ Len(b) = Len(a) - 1 /\ Head(a) = a[1]
      /\ \A i \in 1 .. Len(b) : b[i] = a[i + 1]
  BY <1>1, HeadTailProperties, EmptySeq
<1>3. /\ Len(p) \in Nat /\ Len(q) \in Nat
      /\ Len(a \o p \o q) = Len(a) + Len(p) + Len(q)
      /\ \A i \in 1 .. Len(a) + Len(p) + Len(q) :
            (a \o p \o q)[i] = IF i <= Len(a) THEN a[i]
                               ELSE IF i <= Len(a) + Len(p) THEN p[i - Len(a)]
                               ELSE q[i - (Len(a) + Len(p))]
      /\ a \o p \o q \in Seq(S)
  BY ThreeParts
<1>4. /\ Len(b \o p \o q) = Len(b) + Len(p) + Len(q)
      /\ \A i \in 1 .. Len(b) + Len(p) + Len(q) :
            (b \o p \o q)[i] = IF i <= Len(b) THEN b[i]
                               ELSE IF i <= Len(b) + Len(p) THEN p[i - Len(b)]
                               ELSE q[i - (Len(b) + Len(p))]
      /\ b \o p \o q \in Seq(S)
  BY ThreeParts
<1>5. PICK s \in Seq(S) : s = a \o p \o q
  BY <1>3
<1>6. s # <<>> /\ Len(s) = Len(a) + Len(p) + Len(q) /\ Head(s) = s[1]
  BY <1>2, <1>3, <1>5
<1>7. PICK u \in Seq(S) : u = Tail(s)
  BY <1>6, HeadTailProperties
<1>8. Len(u) = Len(s) - 1 /\ \A i \in 1 .. Len(u) : u[i] = s[i + 1]
  BY <1>6, <1>7, HeadTailProperties
<1>9. PICK t \in Seq(S) : t = b \o p \o q
  BY <1>4
<1>10. ASSUME NEW i \in 1 .. Len(t) PROVE t[i] = u[i]
  <2>1. /\ i \in 1 .. Len(b) + Len(p) + Len(q)
        /\ i \in 1 .. Len(u) /\ i + 1 \in 1 .. Len(a) + Len(p) + Len(q)
        /\ (i + 1) - Len(a) = i - Len(b)
        /\ (i + 1) - (Len(a) + Len(p)) = i - (Len(b) + Len(p))
        /\ i <= Len(b) <=> i + 1 <= Len(a)
        /\ i <= Len(b) + Len(p) <=> i + 1 <= Len(a) + Len(p)
    BY <1>2, <1>3, <1>4, <1>6, <1>8, <1>9
  <2>2. u[i] = s[i + 1]
    BY <1>8, <2>1
  <2>3. i <= Len(b) => b[i] = a[i + 1]
    BY <1>2, <2>1
  <2> QED
    BY <1>3, <1>4, <1>5, <1>9, <2>1, <2>2, <2>3
<1>11. Len(t) = Len(u)
  BY <1>2, <1>3, <1>4, <1>6, <1>8, <1>9
<1>12. t = u
  BY <1>10, <1>11, SeqEqual
<1>13. Head(a) = Head(s)
  <2>1. 1 \in 1 .. Len(a) + Len(p) + Len(q) /\ 1 <= Len(a)
    BY <1>2, <1>3
  <2> QED
    BY <1>2, <1>3, <1>5, <1>6, <2>1
<1> QED
  BY <1>1, <1>5, <1>6, <1>7, <1>9, <1>12, <1>13

-----------------------------------------------------------------------------
(* What is on its way stays in order *)

LEMMA PipelineParts ==
    ASSUME TypeOK, NEW conn \in Uart
    PROVE  /\ air[conn] \in Seq(OnTheWay)
           /\ Popped(conn) \in Seq(OnTheWay)
           /\ queuePackagesToSend[conn] \in Seq(OnTheWay)
           /\ Pipeline(conn) \in Seq(OnTheWay)
<1>1. air[conn] \in Seq(Frame) /\ queuePackagesToSend[conn] \in Seq(QueuedPackage)
  BY DEF TypeOK
<1>2. air[conn] \in Seq(OnTheWay) /\ queuePackagesToSend[conn] \in Seq(OnTheWay)
  BY <1>1, SeqMonotonic DEF OnTheWay
<1>3. Popped(conn) \in Seq(OnTheWay)
  <2>1. CASE ph # NoPackage
    <3>1. ph.pack \in OnTheWay
      BY <2>1 DEF TypeOK, OnTheWay
    <3>2. <<ph.pack>> \in Seq(OnTheWay) /\ <<>> \in Seq(OnTheWay)
      BY <3>1
    <3> QED
      BY <3>2 DEF Popped
  <2>2. CASE ph = NoPackage
    BY <2>2 DEF Popped
  <2> QED
    BY <2>1, <2>2
<1> QED
  BY <1>2, <1>3, ThreeParts DEF Pipeline

\* The newest package of its device joined the pipeline.
NewestJoins(conn) ==
    \E e \in OnTheWay : /\ Pipeline(conn)' = Append(Pipeline(conn), e)
                        /\ e.sysTime = sentPackNumTracker[e.dev]

LEMMA PushMovesPipeline ==
    ASSUME TypeOK, NEW conn \in Uart, NEW to \in Uart, NEW e \in QueuedPackage,
           queuePackagesToSend' = Pushed(queuePackagesToSend, to, e), UNCHANGED <<air, ph>>,
           e.sysTime = sentPackNumTracker[e.dev]
    PROVE  Thinned(Pipeline(conn)', Pipeline(conn)) \/ NewestJoins(conn)
<1>0. queuePackagesToSend \in [Uart -> Seq(QueuedPackage)] /\ e \in OnTheWay
  BY DEF TypeOK, OnTheWay
<1>1. CASE conn # to
  <2>1. Pipeline(conn)' = Pipeline(conn)
    BY <1>0, <1>1 DEF Pipeline, Popped, Pushed
  <2> QED
    BY <2>1, PipelineParts, ThinnedSelf
<1>2. CASE conn = to
  <2>1. queuePackagesToSend'[conn] = Append(queuePackagesToSend[conn], e)
    BY <1>0, <1>2 DEF Pushed
  <2>2. air[conn] \o Popped(conn) \o Append(queuePackagesToSend[conn], e)
           = Append(air[conn] \o Popped(conn) \o queuePackagesToSend[conn], e)
    <3>1. PICK a, p, q \in Seq(OnTheWay) :
             a = air[conn] /\ p = Popped(conn) /\ q = queuePackagesToSend[conn]
      BY PipelineParts
    <3>2. a \o p \o Append(q, e) = Append(a \o p \o q, e)
      BY <1>0, PushedLast
    <3> QED
      BY <3>1, <3>2
  <2>3. Popped(conn)' = Popped(conn)
    BY DEF Popped
  <2>4. Pipeline(conn)' = Append(Pipeline(conn), e)
    BY <2>1, <2>2, <2>3 DEF Pipeline
  <2> QED
    BY <1>0, <2>4 DEF NewestJoins
<1> QED
  BY <1>1, <1>2

LEMMA PopMovesPipeline ==
    ASSUME TypeOK, NEW conn \in Uart, NEW from \in Uart, PopReadyToSend(from)
    PROVE  Thinned(Pipeline(conn)', Pipeline(conn))
<1>0. /\ queuePackagesToSend \in [Uart -> Seq(QueuedPackage)]
      /\ ph = NoPackage
      /\ queuePackagesToSend[from] # <<>>
      /\ queuePackagesToSend' = [queuePackagesToSend EXCEPT ![from] = Tail(@)]
      /\ ph' = [conn |-> from, pack |-> Head(queuePackagesToSend[from])]
      /\ air' = air
  BY DEF TypeOK, PopReadyToSend
<1>1. ph' # NoPackage
  <2>1. Head(queuePackagesToSend[from]) \in QueuedPackage
    BY <1>0, QueueUpdates
  <2> QED
    BY <1>0, <2>1, SenderAssumption
<1>2. Pipeline(conn)' = Pipeline(conn)
  <2>1. CASE conn # from
    BY <1>0, <2>1 DEF Pipeline, Popped
  <2>2. CASE conn = from
    <3>1. /\ Popped(conn) = <<>>
          /\ Popped(conn)' = <<Head(queuePackagesToSend[conn])>>
          /\ queuePackagesToSend'[conn] = Tail(queuePackagesToSend[conn])
      BY <1>0, <1>1, <2>2 DEF Popped
    <3>2. air[conn] \o <<Head(queuePackagesToSend[conn])>> \o Tail(queuePackagesToSend[conn])
             = air[conn] \o <<>> \o queuePackagesToSend[conn]
      BY <1>0, <2>2, PipelineParts, PoppedStays
    <3> QED
      BY <1>0, <3>1, <3>2 DEF Pipeline
  <2> QED
    BY <2>1, <2>2
<1> QED
  BY <1>2, PipelineParts, ThinnedSelf

LEMMA SendMovesPipeline ==
    ASSUME TypeOK, NEW conn \in Uart, SendAndFree
    PROVE  Thinned(Pipeline(conn)', Pipeline(conn))
<1>0. /\ air \in [Uart -> Seq(Frame)]
      /\ ph.conn \in Uart /\ ph.pack \in QueuedPackage /\ ph # NoPackage
      /\ ph' = NoPackage /\ UNCHANGED queuePackagesToSend
  BY DEF TypeOK, SendAndFree
<1>1. PICK read \in BOOLEAN :
         \/ air' = [air EXCEPT ![ph.conn] = Append(@, [dev |-> ph.pack.dev,
                                   sysTime |-> ph.pack.sysTime, intact |-> read])]
         \/ air' = air
  BY <1>0 DEF SendAndFree, FrameContents, ReadPayload, QueuedPackage
<1> DEFINE y == [dev |-> ph.pack.dev, sysTime |-> ph.pack.sysTime, intact |-> read]
<1>2. CASE conn # ph.conn
  <2>1. Pipeline(conn)' = Pipeline(conn)
    BY <1>0, <1>1, <1>2 DEF Pipeline, Popped
  <2> QED
    BY <2>1, PipelineParts, ThinnedSelf
<1>3. CASE conn = ph.conn
  <2>1. Popped(conn) = <<ph.pack>> /\ Popped(conn)' = <<>>
    BY <1>0, <1>3 DEF Popped
  <2>2. /\ air[conn] \in Seq(OnTheWay) /\ queuePackagesToSend[conn] \in Seq(OnTheWay)
        /\ ph.pack \in OnTheWay /\ y \in OnTheWay /\ SameLabel(y, ph.pack)
    BY <1>0, PipelineParts DEF OnTheWay, QueuedPackage, Frame, SameLabel
  <2>3. air'[conn] = Append(air[conn], y) \/ air'[conn] = air[conn]
    BY <1>0, <1>1, <1>3
  <2>4. CASE air'[conn] = Append(air[conn], y)
    BY <1>0, <2>1, <2>2, <2>4, SentStays DEF Pipeline
  <2>5. CASE air'[conn] = air[conn]
    BY <1>0, <2>1, <2>2, <2>5, LostThinned DEF Pipeline
  <2> QED
    BY <2>3, <2>4, <2>5
<1> QED
  BY <1>2, <1>3

\* The first frame on the air is taken, by whoever receives it.
LEMMA TakingMovesPipeline ==
    ASSUME TypeOK, NEW conn \in Uart, NEW from \in Uart, air[from] # <<>>,
           air' = [air EXCEPT ![from] = Tail(@)], UNCHANGED <<queuePackagesToSend, ph>>
    PROVE  Thinned(Pipeline(conn)', Pipeline(conn))
<1>0. air \in [Uart -> Seq(Frame)]
  BY DEF TypeOK
<1>1. CASE conn # from
  <2>1. Pipeline(conn)' = Pipeline(conn)
    BY <1>0, <1>1 DEF Pipeline, Popped
  <2> QED
    BY <2>1, PipelineParts, ThinnedSelf
<1>2. CASE conn = from
  <2>1. air'[conn] = Tail(air[conn])
    BY <1>0, <1>2
  <2>2. /\ Tail(air[conn]) \o Popped(conn) \o queuePackagesToSend[conn]
              = Tail(air[conn] \o Popped(conn) \o queuePackagesToSend[conn])
        /\ air[conn] \o Popped(conn) \o queuePackagesToSend[conn] # <<>>
    <3>1. PICK a, p, q \in Seq(OnTheWay) :
             a = air[conn] /\ p = Popped(conn) /\ q = queuePackagesToSend[conn]
      BY PipelineParts
    <3>2. a # <<>>
      BY <1>2, <3>1
    <3>3. /\ Tail(a) \o p \o q = Tail(a \o p \o q)
          /\ Head(a) = Head(a \o p \o q)
          /\ a \o p \o q # <<>>
          /\ a \o p \o q \in Seq(OnTheWay)
      BY <3>2, FirstOfThree, Zenon
    <3> QED
      BY <3>1, <3>3
  <2>3. Popped(conn)' = Popped(conn)
    BY DEF Popped
  <2>4. Pipeline(conn)' = Tail(Pipeline(conn)) /\ Pipeline(conn) # <<>>
    BY <2>1, <2>2, <2>3 DEF Pipeline
  <2> QED
    BY <2>4, PipelineParts, TailThinned
<1> QED
  BY <1>1, <1>2

LEMMA PipelineMoves ==
    ASSUME WaitsOnOneConnection, TypeOK, WaitInv, NEW conn \in Uart, [Next]_vars
    PROVE  Thinned(Pipeline(conn)', Pipeline(conn)) \/ NewestJoins(conn)
<1>0. nh.prio > 0 /\ HeldIsNewest /\ StoredIsAlone /\ nh.dev \in Uart
  BY DEF WaitInv, TypeOK, HandlerState
<1>1. CASE PushWithoutAck \/ PushExpectingAck
  <2>1. /\ nh.step = "push" /\ PushPossible
        /\ queuePackagesToSend' = Pushed(queuePackagesToSend, PushConn, NewQueued(pack))
        /\ UNCHANGED <<ph, air>>
    BY <1>1 DEF PushWithoutAck, PushExpectingAck, Pushed
  <2>2. /\ PushConn \in Uart
        /\ NewQueued(pack) \in QueuedPackage
        /\ NewQueued(pack).dev = nh.dev
        /\ NewQueued(pack).sysTime = sentPackNumTracker[nh.dev]
    BY <1>0, <2>1 DEF TypeOK, PushPossible, HeldIsNewest, NewQueued, QueuedPackage, Package
  <2> QED
    BY <2>1, <2>2, PushMovesPipeline
<1>2. CASE ResendPackage
  <2>1. /\ AtStoredPackage /\ ~MustDiscard
        /\ queuePackagesToSend' = Pushed(queuePackagesToSend, VisitedConn, ResendCopy(Visited))
        /\ UNCHANGED <<ph, air>>
    BY <1>2 DEF ResendPackage, ResendDue, Pushed
  <2>2. VisitedConn \in Uart /\ Uses(Visited.dev, VisitedConn)
    BY <1>0, <2>1, NothingReleasing
  <2>3. nh.index \in Occupied /\ Visited \in Package
    BY <2>1, VisitedPackage DEF AtStoredPackage, Occupied
  <2>4. Visited.sysTime = sentPackNumTracker[Visited.dev]
    BY <1>0, <2>2, <2>3 DEF StoredIsAlone, Visited
  <2>5. /\ ResendCopy(Visited) \in QueuedPackage
        /\ ResendCopy(Visited).sysTime = sentPackNumTracker[ResendCopy(Visited).dev]
    BY <2>3, <2>4 DEF ResendCopy, QueuedPackage, Package
  <2> QED
    BY <2>1, <2>2, <2>5, PushMovesPipeline
<1>3. ASSUME NEW from \in Uart, PopReadyToSend(from) PROVE Thinned(Pipeline(conn)', Pipeline(conn))
  BY <1>3, PopMovesPipeline
<1>4. CASE SendAndFree
  BY <1>4, SendMovesPipeline
<1>5. ASSUME NEW from \in Uart, PeerReceives(from) PROVE Thinned(Pipeline(conn)', Pipeline(conn))
  BY <1>5, TakingMovesPipeline DEF PeerReceives
<1>6. CASE UNCHANGED <<queuePackagesToSend, ph, air>>
  <2>1. Pipeline(conn)' = Pipeline(conn)
    BY <1>6 DEF Pipeline, Popped
  <2> QED
    BY <2>1, PipelineParts, ThinnedSelf
<1>7. CASE \/ GenerateNothing \/ GenerateDataPackage \/ PushFails \/ StorePackage \/ StoreFails
           \/ ReceivingStep \/ DropGeneratedPackage
  BY <1>6, <1>7 DEF GenerateNothing, GenerateDataPackage, PushFails, StorePackage, StoreFails,
     ReceivingStep, ReceiveNothing, ReceiveAck, ReceiveUnmatchedAck, DropGeneratedPackage
<1>8. CASE \/ ResendDone \/ ResendSkip \/ ResendPushFails \/ ResendWait
           \/ ResendConnectionExhausted \/ ResendNegative \/ ResendDiscard
           \/ Tick \/ UNCHANGED vars
  BY <1>6, <1>8 DEF ResendDone, ResendSkip, ResendPushFails, ResendWait,
     ResendConnectionExhausted, ResendNegative, ResendDiscard, Tick, vars
<1> QED
  BY <1>1, <1>2, <1>3, <1>4, <1>5, <1>7, <1>8
  DEF Next, NetworkHandler, SendingStep, ResendingStep, DiscardingStep, PackageHandler

\* Inductive: what is on its way over a connection is in order and no newer than what was
\* generated last.
PipelineInv == \A conn \in Uart : InOrder(Pipeline(conn)) /\ NotNewer(Pipeline(conn))

\* The number of the package generated last only grows.
LEMMA TrackerGrows ==
    ASSUME TypeOK, [Next]_vars
    PROVE  \A dev \in Uart : sentPackNumTracker[dev] <= sentPackNumTracker'[dev]
<1>0. \A dev \in Uart : sentPackNumTracker[dev] \in Int
  BY ConfigAssumption DEF TypeOK
<1>1. CASE GenerateDataPackage
  <2>1. /\ sentPackNumTracker' =
              [sentPackNumTracker EXCEPT ![nh.dev] = sentPackNumTracker[nh.dev] + 1]
        /\ nh.dev \in Uart
        /\ sentPackNumTracker \in [Uart -> 0 .. MaxPack]
    BY <1>1 DEF GenerateDataPackage, TypeOK, HandlerState
  <2> QED
    BY <1>0, <2>1
<1>2. CASE UNCHANGED sentPackNumTracker
  BY <1>0, <1>2
<1>3. CASE \/ GenerateNothing \/ PushFails \/ PushWithoutAck \/ PushExpectingAck \/ StorePackage
           \/ StoreFails \/ ReceivingStep \/ DropGeneratedPackage \/ ResendDiscard
  BY <1>2, <1>3 DEF GenerateNothing, PushFails, PushWithoutAck, PushExpectingAck, StorePackage,
     StoreFails, ReceivingStep, ReceiveNothing, ReceiveAck, ReceiveUnmatchedAck,
     DropGeneratedPackage, ResendDiscard, nhVars
<1>4. CASE ResendingStep
  BY <1>2, <1>4 DEF ResendingStep, ResendDone, ResendSkip, ResendPackage, ResendPushFails,
     ResendWait, ResendConnectionExhausted, ResendNegative, nhVars
<1>5. CASE \/ PackageHandler \/ Tick \/ (\E conn \in Uart : PeerReceives(conn))
           \/ UNCHANGED vars
  BY <1>2, <1>5 DEF PackageHandler, SendAndFree, PopReadyToSend, Tick, PeerReceives, vars,
     nhVars
<1> QED
  BY <1>1, <1>3, <1>4, <1>5 DEF Next, NetworkHandler, SendingStep, DiscardingStep

\* Whatever moves on a pipeline was or is a package of a device.
LEMMA MovesDevices ==
    ASSUME NEW q \in Seq(OnTheWay), NEW t,
           Thinned(t, q) \/ \E e \in OnTheWay : t = Append(q, e)
    PROVE  \A m \in 1 .. Len(t) : t[m].dev \in Uart /\ t[m].sysTime \in Nat
<1>1. \A e \in OnTheWay : e.dev \in Uart /\ e.sysTime \in Nat
  BY ConfigAssumption DEF OnTheWay, Frame, QueuedPackage
<1>2. CASE Thinned(t, q)
  <2>1. \A i \in 1 .. Len(q) : q[i] \in OnTheWay
    OBVIOUS
  <2> QED
    BY <1>1, <1>2, <2>1 DEF Thinned, SameLabel
<1>3. ASSUME NEW e \in OnTheWay, t = Append(q, e)
      PROVE  \A m \in 1 .. Len(t) : t[m].dev \in Uart /\ t[m].sysTime \in Nat
  <2>1. t \in Seq(OnTheWay)
    BY <1>3
  <2>2. \A m \in 1 .. Len(t) : t[m] \in OnTheWay
    BY <2>1
  <2> QED
    BY <1>1, <2>2
<1> QED
  BY <1>2, <1>3

LEMMA StepPipeline ==
    ASSUME WaitsOnOneConnection, TypeOK, WaitInv, PipelineInv, [Next]_vars
    PROVE  PipelineInv'
<1>1. ASSUME NEW conn \in Uart
      PROVE  InOrder(Pipeline(conn)') /\ NotNewer(Pipeline(conn)')
  <2>1. CASE Thinned(Pipeline(conn)', Pipeline(conn))
    BY <2>1, ThinnedInOrder DEF PipelineInv
  <2>2. CASE NewestJoins(conn)
    BY <2>2, PipelineParts, NewestAppended DEF NewestJoins, PipelineInv, TypeOK
  <2> QED
    BY <2>1, <2>2, PipelineMoves
<1>2. ASSUME NEW conn \in Uart, NEW m \in 1 .. Len(Pipeline(conn)')
      PROVE  Pipeline(conn)'[m].sysTime <= sentPackNumTracker'[Pipeline(conn)'[m].dev]
  <2>1. Pipeline(conn)'[m].dev \in Uart /\ Pipeline(conn)'[m].sysTime \in Nat
    BY PipelineMoves, PipelineParts, MovesDevices DEF NewestJoins
  <2>2. Pipeline(conn)'[m].sysTime <= sentPackNumTracker[Pipeline(conn)'[m].dev]
    BY <1>1 DEF NotNewer
  <2>3. PICK dev \in Uart, n \in Nat :
           dev = Pipeline(conn)'[m].dev /\ n = Pipeline(conn)'[m].sysTime
    BY <2>1
  <2>4. n <= sentPackNumTracker[dev] /\ sentPackNumTracker[dev] <= sentPackNumTracker'[dev]
    BY <2>2, <2>3, TrackerGrows
  <2>5. sentPackNumTracker[dev] \in Int /\ sentPackNumTracker'[dev] \in Int
    <3>1. TypeOK'
      BY StepTypeOK
    <3>2. /\ sentPackNumTracker \in [Uart -> 0 .. MaxPack]
          /\ sentPackNumTracker' \in [Uart -> 0 .. MaxPack]
      BY <3>1 DEF TypeOK
    <3> QED
      BY <3>2
  <2>6. n <= sentPackNumTracker'[dev]
    BY <2>4, <2>5
  <2> QED
    BY <2>3, <2>6
<1> QED
  BY <1>1, <1>2 DEF PipelineInv, InOrder, NotNewer

LEMMA InitPipeline == Init => PipelineInv
<1> SUFFICES ASSUME Init, NEW conn \in Uart PROVE InOrder(Pipeline(conn)) /\ NotNewer(Pipeline(conn))
  BY DEF PipelineInv
<1>1. Pipeline(conn) = <<>> \o <<>> \o <<>>
  BY DEF Init, Pipeline, Popped
<1>2. Pipeline(conn) = <<>> /\ Len(Pipeline(conn)) = 0
  BY <1>1
<1> QED
  BY <1>2 DEF InOrder, NotNewer

\* In these configurations the packages of a device are on their way over a connection in
\* the order they were generated: what is resent neither overtakes a newer package nor is
\* followed out of order by an older one.
THEOREM NothingOvertakes == ASSUME WaitsOnOneConnection PROVE Spec => []PipelineInOrder
<1>1. Init => TypeOK /\ WaitInv /\ PipelineInv
  BY InitTypeOK, InitWaitInv, InitPipeline
<1>2. TypeOK /\ WaitInv /\ PipelineInv /\ [Next]_vars => TypeOK' /\ WaitInv' /\ PipelineInv'
  BY StepTypeOK, StepWaitInv, StepPipeline
<1>3. PipelineInv => PipelineInOrder
  BY DEF PipelineInv, InOrder, PipelineInOrder
<1> QED
  BY <1>1, <1>2, <1>3, PTL DEF Spec

-----------------------------------------------------------------------------
(* The array has space for one package of every connection *)

Connected(dev) == \E conn \in Uart : Uses(dev, conn)

\* Inductive: what is stored, or about to be, has been pushed to a connection of its device.
ConnectedInv ==
    /\ nh.step = "store" => Connected(pack.dev)
    /\ \A i \in Occupied : Connected(unacknowledgedPackages[i].dev)

\* A stored package is the one that was stored there before, or the one just pushed.
LEMMA StoredStays ==
    ASSUME TypeOK, [Next]_vars, NEW i \in Occupied'
    PROVE  \/ /\ i \in Occupied
              /\ unacknowledgedPackages'[i].dev = unacknowledgedPackages[i].dev
           \/ nh.step = "store" /\ unacknowledgedPackages'[i].dev = pack.dev
<1>0. /\ unacknowledgedPackages \in [Slots -> Package \cup {NoPackage}]
      /\ i \in Slots /\ unacknowledgedPackages'[i] # NoPackage
  BY DEF TypeOK, Occupied
<1>1. CASE StorePackage
  <2>1. PICK k \in Slots, read \in ReadPayload(pack) :
           unacknowledgedPackages' =
              [unacknowledgedPackages EXCEPT ![k] = [pack EXCEPT !.intact = read]]
    BY <1>1 DEF StorePackage
  <2>2. nh.step = "store" /\ [pack EXCEPT !.intact = read].dev = pack.dev
    BY <1>1 DEF StorePackage, TypeOK, Package
  <2> QED
    BY <1>0, <2>1, <2>2 DEF Occupied
<1>2. CASE ReceiveAck \/ ResendDiscard
  <2>1. \E k : unacknowledgedPackages' = [unacknowledgedPackages EXCEPT ![k] = NoPackage]
    BY <1>2 DEF ReceiveAck, ResendDiscard
  <2> QED
    BY <1>0, <2>1 DEF Occupied
<1>3. CASE ResendPackage
  <2>1. AtStoredPackage
    BY <1>3 DEF ResendPackage, ResendDue
  <2>2. /\ unacknowledgedPackages' =
              [unacknowledgedPackages EXCEPT
                 ![nh.index] = [Visited EXCEPT !.left[VisitedConn] = @ - 1, !.last[VisitedConn] = 0]]
        /\ nh.index \in Slots /\ Visited \in Package
        /\ unacknowledgedPackages[nh.index] # NoPackage
        /\ Visited = unacknowledgedPackages[nh.index]
    BY <1>3, <2>1, VisitedPackage DEF ResendPackage, AtStoredPackage, Visited
  <2>3. [Visited EXCEPT !.left[VisitedConn] = @ - 1, !.last[VisitedConn] = 0].dev = Visited.dev
    BY <2>2 DEF Package
  <2> QED
    BY <1>0, <2>2, <2>3 DEF Occupied
<1>4. CASE Tick
  <2>1. unacknowledgedPackages'[i] = Aged(unacknowledgedPackages[i])
    BY <1>0, <1>4 DEF Tick
  <2>2. unacknowledgedPackages[i] \in Package
    BY <1>0, <2>1, AgedEmpty
  <2> QED
    BY <1>0, <2>1, <2>2, AgedPackage, SenderAssumption DEF Occupied
<1>5. CASE UNCHANGED unacknowledgedPackages
  BY <1>0, <1>5 DEF Occupied
<1>6. CASE \/ GenerateNothing \/ GenerateDataPackage \/ PushFails \/ PushWithoutAck
           \/ PushExpectingAck \/ StoreFails \/ DropGeneratedPackage
           \/ ReceiveNothing \/ ReceiveUnmatchedAck
  BY <1>5, <1>6 DEF GenerateNothing, GenerateDataPackage, PushFails, PushWithoutAck,
     PushExpectingAck, StoreFails, DropGeneratedPackage, ReceiveNothing, ReceiveUnmatchedAck,
     nhVars
<1>7. CASE \/ ResendDone \/ ResendSkip \/ ResendPushFails \/ ResendWait
           \/ ResendConnectionExhausted \/ ResendNegative
  BY <1>5, <1>7 DEF ResendDone, ResendSkip, ResendPushFails, ResendWait,
     ResendConnectionExhausted, ResendNegative, nhVars
<1>8. CASE \/ PackageHandler \/ (\E conn \in Uart : PeerReceives(conn)) \/ UNCHANGED vars
  BY <1>5, <1>8 DEF PackageHandler, PopReadyToSend, SendAndFree, PeerReceives, vars, nhVars
<1> QED
  BY <1>1, <1>2, <1>3, <1>4, <1>6, <1>7, <1>8
  DEF Next, NetworkHandler, SendingStep, ReceivingStep, ResendingStep, DiscardingStep

\* What is about to be stored was so before, or was just pushed.
LEMMA HeldStays ==
    ASSUME WaitsOnOneConnection, TypeOK, WaitInv, [Next]_vars, nh'.step = "store"
    PROVE  \/ nh.step = "store" /\ pack'.dev = pack.dev
           \/ Connected(pack'.dev)
<1>0. nh \in HandlerState /\ nh.prio > 0 /\ HeldIsNewest
  BY DEF TypeOK, WaitInv
<1>1. CASE PushExpectingAck
  <2>1. Uses(nh.dev, PushConn) /\ PushConn \in Uart
    BY <1>0, <1>1, PushUsesConnection DEF PushExpectingAck
  <2>2. pack.dev = nh.dev /\ pack'.dev = pack.dev
    BY <1>0, <1>1 DEF PushExpectingAck, HeldIsNewest, TypeOK, Package
  <2> QED
    BY <2>1, <2>2 DEF Connected
<1>2. CASE Tick
  <2>1. nh' = nh /\ pack \in Package /\ pack' = Aged(pack)
    BY <1>2 DEF Tick, TypeOK
  <2> QED
    BY <2>1, AgedPackage
<1>3. CASE UNCHANGED <<nh, pack>>
  BY <1>3
<1>4. CASE \/ GenerateNothing \/ GenerateDataPackage \/ PushFails \/ PushWithoutAck
           \/ StorePackage \/ StoreFails \/ DropGeneratedPackage
  BY <1>0, <1>4 DEF GenerateNothing, GenerateDataPackage, PushFails, PushWithoutAck,
     StorePackage, StoreFails, DropGeneratedPackage, HandlerState
<1>5. CASE ReceivingStep
  <2>1. numberOfUnacknowledgedPackages \in Int /\ numberOfUnacknowledgedPackages - 1 \in Int
    BY DEF TypeOK
  <2> QED
    BY <1>0, <1>5, <2>1, HandlerMoves
    DEF ReceivingStep, ReceiveNothing, ReceiveAck, ReceiveUnmatchedAck
<1>6. CASE ResendDone
  BY <1>6 DEF ResendDone
<1>7. CASE \/ ResendSkip \/ ResendPackage \/ ResendPushFails \/ ResendWait
           \/ ResendConnectionExhausted \/ ResendNegative \/ ResendDiscard
  <2>1. nh.step = "resend"
    BY <1>7 DEF ResendSkip, ResendPackage, ResendPushFails, ResendWait,
       ResendConnectionExhausted, ResendNegative, ResendDiscard, ResendDue, AtStoredPackage
  <2>2. nh' \in {NextSlot(nh), NextPrio(nh), [nh EXCEPT !.index = @ + 1]}
    BY <1>7 DEF ResendSkip, ResendPackage, ResendPushFails, ResendWait,
       ResendConnectionExhausted, ResendNegative, ResendDiscard
  <2>3. [nh EXCEPT !.index = @ + 1].step = nh.step
    BY <1>0 DEF HandlerState
  <2> QED
    BY <1>0, <2>1, <2>2, <2>3, HandlerMoves
<1>8. CASE \/ PackageHandler \/ (\E conn \in Uart : PeerReceives(conn)) \/ UNCHANGED vars
  BY <1>3, <1>8 DEF PackageHandler, PopReadyToSend, SendAndFree, PeerReceives, vars, nhVars
<1> QED
  BY <1>1, <1>2, <1>4, <1>5, <1>6, <1>7, <1>8
  DEF Next, NetworkHandler, SendingStep, ResendingStep, DiscardingStep

LEMMA StepConnected ==
    ASSUME WaitsOnOneConnection, TypeOK, WaitInv, ConnectedInv, [Next]_vars
    PROVE  ConnectedInv'
<1>1. nh'.step = "store" => Connected(pack'.dev)
  BY HeldStays DEF ConnectedInv
<1>2. \A i \in Occupied' : Connected(unacknowledgedPackages'[i].dev)
  BY StoredStays DEF ConnectedInv
<1> QED
  BY <1>1, <1>2 DEF ConnectedInv, Connected

\* Stored packages use different connections, and none that of the package about to be
\* stored, so there are fewer of them than connections.
LEMMA OneSlotPerConnection ==
    ASSUME WaitsOnOneConnection, MaxUnack >= NumUarts, TypeOK, WaitInv, ConnectedInv
    PROVE  ArrayHasSpace
<1> SUFFICES ASSUME nh.step = "store", Occupied = Slots PROVE FALSE
  BY DEF ArrayHasSpace
<1>1. PICK conn \in Uart : Uses(nh.dev, conn)
  BY DEF ConnectedInv, Connected, WaitInv, HeldIsNewest
<1> DEFINE T == Uart \ {conn}
           f == [i \in Slots |-> CHOOSE c \in Uart : Uses(unacknowledgedPackages[i].dev, c)]
<1>2. ASSUME NEW i \in Slots
      PROVE  f[i] \in T /\ Uses(unacknowledgedPackages[i].dev, f[i])
  <2>1. \E c \in Uart : Uses(unacknowledgedPackages[i].dev, c)
    BY DEF ConnectedInv, Connected
  <2>2. f[i] \in Uart /\ Uses(unacknowledgedPackages[i].dev, f[i])
    BY <2>1
  <2>3. f[i] # conn
    BY <1>1, <2>2 DEF WaitInv, HeldIsNewest
  <2> QED
    BY <2>2, <2>3
<1>3. f \in [Slots -> T]
  BY <1>2
<1>4. /\ IsFiniteSet(Slots) /\ Cardinality(Slots) = MaxUnack
      /\ IsFiniteSet(Uart) /\ Cardinality(Uart) = NumUarts
      /\ MaxUnack \in Nat /\ NumUarts \in Nat
  <2>1. MaxUnack \in Nat \ {0} /\ NumUarts \in Nat \ {0}
    BY SenderAssumption, ConfigAssumption
  <2> QED
    BY <2>1, FS_Interval DEF Slots, Uart
<1>5. IsFiniteSet(T) /\ Cardinality(T) = NumUarts - 1
  BY <1>4, FS_RemoveElement
<1>6. Cardinality(T) < Cardinality(Slots)
  BY <1>4, <1>5
<1> HIDE DEF f, T
<1>7. PICK i, j \in Slots : i # j /\ f[i] = f[j]
  BY <1>3, <1>4, <1>5, <1>6, FS_PigeonHole
<1>8. f[i] \in Uart /\ Uses(unacknowledgedPackages[i].dev, f[i]) /\ Uses(unacknowledgedPackages[j].dev, f[i])
  BY <1>2, <1>7 DEF T
<1> QED
  BY <1>7, <1>8 DEF WaitInv, StoredIsAlone

\* In these configurations a payload is freed exactly once, since the array has a slot for
\* every connection (MAX_NUMBER_OF_UNACK_PACKS_STORED is 25, NUMBER_OF_UARTS is 4): a store
\* never fails, so no pushed package is pushed or freed again.
THEOREM OwnedOnce ==
    ASSUME WaitsOnOneConnection, MaxUnack >= NumUarts
    PROVE  Spec => []PayloadOwnedOnce
<1>1. Init => TypeOK /\ WaitInv /\ ConnectedInv
  <2>1. Init => ConnectedInv
    BY DEF Init, ConnectedInv, Occupied
  <2> QED
    BY <2>1, InitTypeOK, InitWaitInv
<1>2. TypeOK /\ WaitInv /\ ConnectedInv /\ [Next]_vars => TypeOK' /\ WaitInv' /\ ConnectedInv'
  BY StepTypeOK, StepWaitInv, StepConnected
<1>3. TypeOK /\ WaitInv /\ ConnectedInv => ArrayHasSpace
  BY OneSlotPerConnection
<1>4. Spec => []ArrayHasSpace
  BY <1>1, <1>2, <1>3, PTL DEF Spec
<1> QED
  BY <1>4, OwnedOnceWithSpace, PTL

=============================================================================
