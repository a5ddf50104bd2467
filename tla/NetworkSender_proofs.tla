------------------------ MODULE NetworkSender_proofs ------------------------
(***************************************************************************)
(* Theorems about NetworkSender, for every configuration and every size of *)
(* the queues and of the unacknowledged array.                             *)
(***************************************************************************)
EXTENDS NetworkSender, TLAPS, SequenceTheorems, FiniteSetTheorems, WellFoundedInduction

-----------------------------------------------------------------------------
(* The operators the model is built from *)

\* Every set of natural numbers that is not empty has a least element.
LEMMA LeastElement ==
    ASSUME NEW S \in SUBSET Nat, S # {}
    PROVE  \E m \in S : \A n \in S : m <= n
<1>1. PICK m \in S : \A n \in S : <<n, m>> \notin OpToRel(<, Nat)
  BY NatLessThanWellFounded, WFMin
<1>2. \A n \in S : ~(n < m)
  BY <1>1 DEF OpToRel
<1> QED
  BY <1>2

\* The connection found for a priority is one the device uses with that priority; there is
\* no such connection exactly if the answer is NumUarts (getWlConnectionToUse).
LEMMA ConnectionHasPriority ==
    ASSUME NEW dev \in Uart, NEW prio \in Nat,
           getWlConnectionToUse(dev, prio) \in Uart
    PROVE  PrioWirelessConnDev[dev][getWlConnectionToUse(dev, prio)] = prio
<1> DEFINE Found(conn) == /\ PrioWirelessConnDev[dev][conn] = prio
                          /\ \A lower \in 0 .. conn - 1 : PrioWirelessConnDev[dev][lower] # prio
<1>1. NumUarts \notin Uart
  BY ConfigAssumption DEF Uart
<1>2. PICK conn \in Uart : PrioWirelessConnDev[dev][conn] = prio
  BY <1>1 DEF getWlConnectionToUse
<1>3. \E c \in Uart : Found(c)
  <2> DEFINE S == {c \in Nat : c \in Uart /\ PrioWirelessConnDev[dev][c] = prio}
  <2>1. S \in SUBSET Nat /\ S # {}
    BY <1>2 DEF Uart
  <2>2. PICK c \in S : \A d \in S : c <= d
    BY <2>1, LeastElement
  <2>3. \A lower \in 0 .. c - 1 : PrioWirelessConnDev[dev][lower] # prio
    <3>1. SUFFICES ASSUME NEW lower \in 0 .. c - 1, PrioWirelessConnDev[dev][lower] = prio
                   PROVE  FALSE
      OBVIOUS
    <3>2. c \in 0 .. NumUarts - 1 /\ NumUarts \in Nat
      BY ConfigAssumption DEF Uart
    <3>3. lower \in Nat /\ lower \in 0 .. NumUarts - 1 /\ lower < c
      BY <3>2
    <3> QED
      BY <2>2, <3>1, <3>3 DEF Uart
  <2> QED
    BY <2>2, <2>3
<1>4. Found(CHOOSE c \in Uart : Found(c))
  BY <1>3
<1> QED
  BY <1>2, <1>4 DEF getWlConnectionToUse

\* Ageing changes nothing but the two ages, and leaves an empty slot empty.
LEMMA AgedPackage ==
    ASSUME NEW p \in Package
    PROVE  /\ Aged(p) \in Package
           /\ Aged(p).dev = p.dev
           /\ Aged(p).sysTime = p.sysTime
           /\ Aged(p).left = p.left
<1>1. p # NoPackage
  BY SenderAssumption
<1>2. \A age, delay \in Nat : Older(age, delay) \in Nat
  BY DEF Older
<1>3. /\ p.dev \in Uart
      /\ p.first \in Nat
      /\ p.last \in [Uart -> Nat]
  BY DEF Package
<1>4. /\ DelayDismissOldPackagePerDev[p.dev] \in Nat
      /\ \A conn \in Uart : ResendDelayWirelessConnDev[conn][p.dev] \in Nat
  BY <1>3, ConfigAssumption
<1>5. Older(p.first, DelayDismissOldPackagePerDev[p.dev]) \in Nat
  BY <1>2, <1>3, <1>4
<1>6. [conn \in Uart |-> Older(p.last[conn], ResendDelayWirelessConnDev[conn][p.dev])]
         \in [Uart -> Nat]
  BY <1>2, <1>3, <1>4
<1> QED
  BY <1>1, <1>5, <1>6 DEF Aged, Package

LEMMA AgedEmpty == Aged(NoPackage) = NoPackage
  BY DEF Aged

\* The moves of the network handler's loops stay within its states.
LEMMA HandlerMoves ==
    ASSUME NEW s \in HandlerState
    PROVE  /\ NextSlot(s) \in HandlerState
           /\ NextSlot(s).step = s.step
           /\ NextPrio(s) \in HandlerState
           /\ NextPrio(s).step = s.step
           /\ \A count \in Int : /\ StartResending(s, count) \in HandlerState
                                /\ StartResending(s, count).step = "resend"
<1>1. s.prio + 1 \in Nat /\ s.index + 1 \in Nat /\ s.left - 1 \in Int
  BY DEF HandlerState
<1>2. NextSlot(s) \in HandlerState /\ NextSlot(s).step = s.step
  BY <1>1 DEF NextSlot, HandlerState
<1>3. NextPrio(s) \in HandlerState /\ NextPrio(s).step = s.step
  BY <1>1, <1>2 DEF NextPrio, HandlerState
<1>4. ASSUME NEW count \in Int
      PROVE  /\ StartResending(s, count) \in HandlerState
             /\ StartResending(s, count).step = "resend"
  BY DEF StartResending, HandlerState
<1> QED
  BY <1>2, <1>3, <1>4

\* One more attempt on a connection, just made.
LEMMA AttemptMade ==
    ASSUME NEW p \in Package, NEW conn \in Uart
    PROVE  /\ [p EXCEPT !.left[conn] = @ - 1, !.last[conn] = 0] \in Package
           /\ [p EXCEPT !.left[conn] = @ - 1, !.last[conn] = 0, !.first = 0] \in Package
<1>1. p.left[conn] - 1 \in Int
  BY DEF Package
<1>2. [p.left EXCEPT ![conn] = @ - 1] \in [Uart -> Int]
  BY <1>1 DEF Package
<1>3. [p.last EXCEPT ![conn] = 0] \in [Uart -> Nat]
  BY DEF Package
<1> QED
  BY <1>2, <1>3 DEF Package

\* Appending to, or taking the first from, one of several queues.
LEMMA QueueUpdates ==
    ASSUME NEW S, NEW queues \in [Uart -> Seq(S)], NEW conn \in Uart
    PROVE  /\ \A e \in S : [queues EXCEPT ![conn] = Append(@, e)] \in [Uart -> Seq(S)]
           /\ queues[conn] # <<>> =>
                 /\ Head(queues[conn]) \in S
                 /\ [queues EXCEPT ![conn] = Tail(@)] \in [Uart -> Seq(S)]
<1>1. \A e \in S : Append(queues[conn], e) \in Seq(S)
  BY AppendProperties
<1>2. queues[conn] # <<>> => Head(queues[conn]) \in S /\ Tail(queues[conn]) \in Seq(S)
  BY HeadTailProperties
<1> QED
  BY <1>1, <1>2

-----------------------------------------------------------------------------
(* Type correctness *)

\* The initial state has the right type (networkHandler_TaskInit).
LEMMA InitTypeOK == Init => TypeOK
<1>1. 0 \in Uart
  BY ConfigAssumption DEF Uart
<1>2. ASSUME NEW S PROVE [conn \in Uart |-> <<>>] \in [Uart -> Seq(S)]
  <2>1. <<>> \in Seq(S)
    BY EmptySeq
  <2> QED
    BY <2>1
<1>3. MaxPack \in Nat
  BY ConfigAssumption
<1>4. Init => nh \in HandlerState /\ nh.step = "generate"
  BY <1>1 DEF Init, HandlerState
<1> QED
  BY <1>2, <1>3, <1>4 DEF Init, TypeOK

LEMMA SendingTypeOK == TypeOK /\ SendingStep => TypeOK'
<1> SUFFICES ASSUME TypeOK, SendingStep PROVE TypeOK'
  OBVIOUS
<1>0. /\ nh \in HandlerState
      /\ pack \in Package \cup {NoPackage}
      /\ nh.step \in {"push", "store"} => pack \in Package
  BY DEF TypeOK
<1>1. CASE GenerateNothing
  <2>1. nh' \in HandlerState /\ nh'.step = "receive"
    BY <1>0, <1>1 DEF GenerateNothing, HandlerState
  <2> QED
    BY <1>1, <2>1 DEF GenerateNothing, TypeOK, nhVars
<1>2. CASE GenerateDataPackage
  <2>1. nh.dev \in Uart
    BY <1>0 DEF HandlerState
  <2>2. sentPackNumTracker[nh.dev] + 1 \in 1 .. MaxPack
    <3>1. sentPackNumTracker[nh.dev] \in 0 .. MaxPack
      BY <2>1 DEF TypeOK
    <3>2. sentPackNumTracker[nh.dev] + 1 <= MaxPack /\ MaxPack \in Nat
      BY <1>2, ConfigAssumption DEF GenerateDataPackage
    <3> QED
      BY <3>1, <3>2
  <2>3. pack' \in Package
    <3>1. SendCntWirelessConnDev[nh.dev] \in [Uart -> Int]
      BY <2>1, ConfigAssumption
    <3>2. NeverSent(nh.dev) \in [Uart -> Nat]
      BY <2>1, ConfigAssumption DEF NeverSent
    <3> QED
      BY <1>2, <2>1, <2>2, <3>1, <3>2 DEF GenerateDataPackage, GeneratedPackage, Package
  <2>4. live' \in SUBSET Buffer
    <3>1. BufferOf(pack') \in Buffer
      BY <2>3 DEF BufferOf, Buffer, Package
    <3> QED
      BY <1>2, <3>1 DEF GenerateDataPackage, TypeOK
  <2>5. sentPackNumTracker' \in [Uart -> 0 .. MaxPack]
    <3>1. sentPackNumTracker[nh.dev] + 1 \in 0 .. MaxPack
      BY <2>2
    <3> QED
      BY <1>2, <3>1 DEF GenerateDataPackage, TypeOK
  <2>6. nh' \in HandlerState
    BY <1>0, <1>2 DEF GenerateDataPackage, HandlerState
  <2> QED
    BY <1>2, <2>3, <2>4, <2>5, <2>6 DEF GenerateDataPackage, TypeOK
<1>3. CASE PushFails
  <2>1. nh' \in HandlerState /\ nh.step = "push"
    <3>1. nh.prio + 1 \in Nat
      BY <1>0 DEF HandlerState
    <3> QED
      BY <1>0, <1>3, <3>1 DEF PushFails, HandlerState
  <2> QED
    BY <1>0, <1>3, <2>1 DEF PushFails, TypeOK, nhVars
<1>4. CASE PushWithoutAck
  <2>1. NewQueued(pack) \in QueuedPackage /\ PushConn \in Uart
    BY <1>0, <1>4 DEF PushWithoutAck, PushPossible, NewQueued, QueuedPackage, Package
  <2>2. queuePackagesToSend' \in [Uart -> Seq(QueuedPackage)]
    BY <1>4, <2>1, QueueUpdates DEF PushWithoutAck, TypeOK
  <2>3. nh' \in HandlerState /\ nh'.step = "receive"
    BY <1>0, <1>4 DEF PushWithoutAck, HandlerState
  <2> QED
    BY <1>4, <2>2, <2>3 DEF PushWithoutAck, TypeOK
<1>5. CASE PushExpectingAck
  <2>1. NewQueued(pack) \in QueuedPackage /\ PushConn \in Uart
    BY <1>0, <1>5 DEF PushExpectingAck, PushPossible, NewQueued, QueuedPackage, Package
  <2>2. queuePackagesToSend' \in [Uart -> Seq(QueuedPackage)]
    BY <1>5, <2>1, QueueUpdates DEF PushExpectingAck, TypeOK
  <2>3. pack' \in Package
    BY <1>0, <1>5, <2>1, AttemptMade DEF PushExpectingAck
  <2>4. nh' \in HandlerState
    BY <1>0, <1>5 DEF PushExpectingAck, HandlerState
  <2>5. ackReceived' \in [Uart -> BOOLEAN]
    BY <1>5, <2>1 DEF PushExpectingAck, TakeAckFlag, TypeOK
  <2> QED
    BY <1>5, <2>2, <2>3, <2>4, <2>5 DEF PushExpectingAck, TypeOK
<1>6. CASE StorePackage
  <2>1. PICK i \in Slots, read \in ReadPayload(pack) :
           unacknowledgedPackages' =
              [unacknowledgedPackages EXCEPT ![i] = [pack EXCEPT !.intact = read]]
    BY <1>6 DEF StorePackage
  <2>2. [pack EXCEPT !.intact = read] \in Package
    BY <1>0, <1>6, <2>1 DEF StorePackage, ReadPayload, Package
  <2>3. unacknowledgedPackages' \in [Slots -> Package \cup {NoPackage}]
    BY <2>1, <2>2 DEF TypeOK
  <2>4. nh' \in HandlerState /\ nh'.step = "receive"
    BY <1>0, <1>6 DEF StorePackage, HandlerState
  <2>5. numberOfUnacknowledgedPackages' \in Int
    BY <1>6 DEF StorePackage, OneMoreStored, TypeOK
  <2> QED
    BY <1>6, <2>3, <2>4, <2>5 DEF StorePackage, TypeOK
<1>7. CASE StoreFails
  <2>1. nh' \in HandlerState /\ nh.step = "store"
    <3>1. nh.prio + 1 \in Nat
      BY <1>0 DEF HandlerState
    <3> QED
      BY <1>0, <1>7, <3>1 DEF StoreFails, HandlerState
  <2> QED
    BY <1>0, <1>7, <2>1 DEF StoreFails, TypeOK, nhVars
<1> QED
  BY <1>1, <1>2, <1>3, <1>4, <1>5, <1>6, <1>7 DEF SendingStep

LEMMA ReceivingTypeOK == TypeOK /\ ReceivingStep => TypeOK'
<1> SUFFICES ASSUME TypeOK, ReceivingStep PROVE TypeOK'
  OBVIOUS
<1>0. nh \in HandlerState /\ nh.dev \in Uart /\ numberOfUnacknowledgedPackages \in Int
  BY DEF TypeOK, HandlerState
<1>1. numberOfUnacknowledgedPackages - 1 \in Int
  BY <1>0
<1>2. nh' \in HandlerState /\ nh'.step = "resend"
  BY <1>0, <1>1, HandlerMoves
  DEF ReceivingStep, ReceiveNothing, ReceiveAck, ReceiveUnmatchedAck
<1>3. acks[nh.dev] # <<>> => [acks EXCEPT ![nh.dev] = Tail(@)] \in [Uart -> Seq(Ack)]
  BY <1>0, QueueUpdates DEF TypeOK
<1>4. CASE ReceiveNothing
  BY <1>2, <1>4 DEF ReceiveNothing, TypeOK, nhVars
<1>5. CASE ReceiveAck
  <2>1. unacknowledgedPackages' \in [Slots -> Package \cup {NoPackage}]
    BY <1>5 DEF ReceiveAck, TypeOK
  <2>2. ackReceived' \in [Uart -> BOOLEAN]
    BY <1>5 DEF ReceiveAck, ReleaseAckFlag, TypeOK
  <2> QED
    BY <1>1, <1>2, <1>3, <1>5, <2>1, <2>2 DEF ReceiveAck, TypeOK
<1>6. CASE ReceiveUnmatchedAck
  BY <1>2, <1>3, <1>6 DEF ReceiveUnmatchedAck, TypeOK, nhVars
<1> QED
  BY <1>4, <1>5, <1>6 DEF ReceivingStep

\* Where a stored package is visited, the slot and the package exist.
LEMMA VisitedPackage ==
    ASSUME TypeOK, AtStoredPackage
    PROVE  nh.index \in Slots /\ Visited \in Package
<1>1. nh.index \in Nat /\ MaxUnack \in Nat
  BY SenderAssumption DEF TypeOK, HandlerState
<1>2. nh.index \in Slots
  BY <1>1 DEF AtStoredPackage, Slots
<1> QED
  BY <1>2 DEF AtStoredPackage, Visited, TypeOK

LEMMA ResendingTypeOK == TypeOK /\ ResendingStep => TypeOK'
<1> SUFFICES ASSUME TypeOK, ResendingStep PROVE TypeOK'
  OBVIOUS
<1>0. nh \in HandlerState
  BY DEF TypeOK
<1>1. /\ NextPrio(nh) \in HandlerState /\ NextPrio(nh).step = nh.step
      /\ NextSlot(nh) \in HandlerState /\ NextSlot(nh).step = nh.step
  BY <1>0, HandlerMoves
<1>2. CASE ResendDone
  <2>1. NextDevice \in Uart
    <3>1. nh.dev \in 0 .. NumUarts - 1 /\ NumUarts \in Nat /\ NumUarts > 0
      BY <1>0, ConfigAssumption DEF HandlerState, Uart
    <3> QED
      BY <3>1 DEF NextDevice, Uart
  <2>2. nh' \in HandlerState /\ nh'.step = "generate"
    BY <1>2, <2>1 DEF ResendDone, HandlerState
  <2> QED
    BY <1>2, <2>2 DEF ResendDone, TypeOK, nhVars
<1>3. CASE ResendSkip
  <2>1. nh' \in HandlerState /\ nh'.step = "resend"
    <3>1. nh.index + 1 \in Nat
      BY <1>0 DEF HandlerState
    <3> QED
      BY <1>0, <1>3, <3>1 DEF ResendSkip, HandlerState
  <2> QED
    BY <1>3, <2>1 DEF ResendSkip, TypeOK, nhVars
<1>4. CASE ResendPackage
  <2>1. AtStoredPackage /\ VisitedConn \in Uart
    BY <1>4 DEF ResendPackage, ResendDue, MustDiscard
  <2>2. nh.index \in Slots /\ Visited \in Package
    BY <2>1, VisitedPackage
  <2>3. ResendCopy(Visited) \in QueuedPackage
    BY <2>2 DEF ResendCopy, QueuedPackage, Package
  <2>4. [Visited EXCEPT !.left[VisitedConn] = @ - 1, !.last[VisitedConn] = 0] \in Package
    BY <2>1, <2>2, AttemptMade
  <2>5. unacknowledgedPackages' \in [Slots -> Package \cup {NoPackage}]
    BY <1>4, <2>4 DEF ResendPackage, TypeOK
  <2>6. queuePackagesToSend' \in [Uart -> Seq(QueuedPackage)]
    BY <1>4, <2>1, <2>3, QueueUpdates DEF ResendPackage, TypeOK
  <2>7. nh' \in HandlerState /\ nh'.step = "resend"
    BY <1>1, <1>4, <2>1 DEF ResendPackage, AtStoredPackage
  <2> QED
    BY <1>4, <2>5, <2>6, <2>7 DEF ResendPackage, TypeOK
<1>5. CASE ResendPushFails
  <2>1. nh' \in HandlerState /\ nh'.step = "resend"
    BY <1>1, <1>5 DEF ResendPushFails, ResendDue, AtStoredPackage
  <2> QED
    BY <1>5, <2>1 DEF ResendPushFails, TypeOK, nhVars
<1>6. CASE ResendWait
  <2>1. nh' \in HandlerState /\ nh'.step = "resend"
    BY <1>1, <1>6 DEF ResendWait, AtStoredPackage
  <2> QED
    BY <1>6, <2>1 DEF ResendWait, TypeOK, nhVars
<1>7. CASE ResendConnectionExhausted
  <2>1. nh' \in HandlerState /\ nh'.step = "resend"
    BY <1>1, <1>7 DEF ResendConnectionExhausted, AtStoredPackage
  <2>2. ackReceived' \in [Uart -> BOOLEAN]
    BY <1>7 DEF ResendConnectionExhausted, ReleaseAckFlag, TypeOK
  <2> QED
    BY <1>7, <2>1, <2>2 DEF ResendConnectionExhausted, TypeOK
<1>8. CASE ResendNegative
  <2>1. nh' \in HandlerState /\ nh'.step = "resend"
    BY <1>1, <1>8 DEF ResendNegative, AtStoredPackage
  <2> QED
    BY <1>8, <2>1 DEF ResendNegative, TypeOK, nhVars
<1> QED
  BY <1>2, <1>3, <1>4, <1>5, <1>6, <1>7, <1>8 DEF ResendingStep

LEMMA DiscardingTypeOK == TypeOK /\ DiscardingStep => TypeOK'
<1> SUFFICES ASSUME TypeOK, DiscardingStep PROVE TypeOK'
  OBVIOUS
<1>0. nh \in HandlerState
  BY DEF TypeOK
<1>1. CASE DropGeneratedPackage
  <2>1. nh' \in HandlerState /\ nh'.step = "receive"
    BY <1>0, <1>1 DEF DropGeneratedPackage, HandlerState
  <2> QED
    BY <1>1, <2>1 DEF DropGeneratedPackage, TypeOK
<1>2. CASE ResendDiscard
  <2>1. nh' \in HandlerState /\ nh'.step = "resend"
    BY <1>0, <1>2, HandlerMoves DEF ResendDiscard, AtStoredPackage
  <2>2. unacknowledgedPackages' \in [Slots -> Package \cup {NoPackage}]
    BY <1>2 DEF ResendDiscard, TypeOK
  <2>3. ackReceived' \in [Uart -> BOOLEAN]
    BY <1>2 DEF ResendDiscard, ReleaseAckFlag, TypeOK
  <2>4. numberOfUnacknowledgedPackages' \in Int
    BY <1>2 DEF ResendDiscard, TypeOK
  <2> QED
    BY <1>2, <2>1, <2>2, <2>3, <2>4 DEF ResendDiscard, TypeOK
<1> QED
  BY <1>1, <1>2 DEF DiscardingStep

LEMMA PackageHandlerTypeOK == TypeOK /\ PackageHandler => TypeOK'
<1> SUFFICES ASSUME TypeOK, PackageHandler PROVE TypeOK'
  OBVIOUS
<1>1. ASSUME NEW conn \in Uart, PopReadyToSend(conn) PROVE TypeOK'
  <2>1. /\ Head(queuePackagesToSend[conn]) \in QueuedPackage
        /\ queuePackagesToSend' \in [Uart -> Seq(QueuedPackage)]
    BY <1>1, QueueUpdates DEF PopReadyToSend, TypeOK
  <2>2. ph' \in [conn : Uart, pack : QueuedPackage]
    BY <1>1, <2>1 DEF PopReadyToSend
  <2> QED
    BY <1>1, <2>1, <2>2 DEF PopReadyToSend, TypeOK, nhVars
<1>2. CASE SendAndFree
  <2>1. ph.conn \in Uart /\ ph.pack \in QueuedPackage
    BY <1>2 DEF SendAndFree, TypeOK
  <2>2. \A read \in FrameContents(ph.pack) :
           [dev |-> ph.pack.dev, sysTime |-> ph.pack.sysTime, intact |-> read] \in Frame
    BY <2>1 DEF FrameContents, ReadPayload, QueuedPackage, Frame
  <2>3. air' \in [Uart -> Seq(Frame)]
    <3>1. air \in [Uart -> Seq(Frame)]
      BY DEF TypeOK
    <3>2. \A e \in Frame : [air EXCEPT ![ph.conn] = Append(@, e)] \in [Uart -> Seq(Frame)]
      BY <2>1, <3>1, QueueUpdates
    <3> QED
      BY <1>2, <2>2, <3>1, <3>2 DEF SendAndFree
  <2>4. live' \in SUBSET Buffer
    BY <1>2 DEF SendAndFree, FreePopped, TypeOK
  <2> QED
    BY <1>2, <2>3, <2>4 DEF SendAndFree, TypeOK, nhVars
<1> QED
  BY <1>1, <1>2 DEF PackageHandler

LEMMA TickTypeOK == TypeOK /\ Tick => TypeOK'
<1> SUFFICES ASSUME TypeOK, Tick PROVE TypeOK'
  OBVIOUS
<1>1. unacknowledgedPackages' \in [Slots -> Package \cup {NoPackage}]
  BY AgedPackage, AgedEmpty DEF Tick, TypeOK
<1>2. pack' \in Package \cup {NoPackage} /\ (pack \in Package => pack' \in Package)
  BY AgedPackage, AgedEmpty DEF Tick, TypeOK
<1> QED
  BY <1>1, <1>2 DEF Tick, TypeOK

LEMMA PeerTypeOK ==
    ASSUME TypeOK, NEW conn \in Uart, PeerReceives(conn)
    PROVE  TypeOK'
<1>1. Head(air[conn]) \in Frame /\ air' \in [Uart -> Seq(Frame)]
  BY QueueUpdates DEF PeerReceives, TypeOK
<1>2. [dev |-> Head(air[conn]).dev, sysTime |-> Head(air[conn]).sysTime] \in Ack
  BY <1>1 DEF Frame, Ack
<1>3. acks' \in [Uart -> Seq(Ack)]
  <2>1. acks \in [Uart -> Seq(Ack)]
    BY DEF TypeOK
  <2>2. \A e \in Ack : [acks EXCEPT ![conn] = Append(@, e)] \in [Uart -> Seq(Ack)]
    BY <2>1, QueueUpdates
  <2> QED
    BY <1>2, <2>1, <2>2 DEF PeerReceives
<1> QED
  BY <1>1, <1>3 DEF PeerReceives, TypeOK, nhVars

\* No step of either task, of the clock or of the peer leaves the types.
LEMMA StepTypeOK == TypeOK /\ [Next]_vars => TypeOK'
<1> SUFFICES ASSUME TypeOK, [Next]_vars PROVE TypeOK'
  OBVIOUS
<1>1. CASE NetworkHandler
  BY <1>1, SendingTypeOK, ReceivingTypeOK, ResendingTypeOK, DiscardingTypeOK DEF NetworkHandler
<1>2. CASE UNCHANGED vars
  BY <1>2 DEF vars, TypeOK
<1> QED
  BY <1>1, <1>2, PackageHandlerTypeOK, TickTypeOK, PeerTypeOK DEF Next

\* Every variable of the sending switch keeps its type, whatever the configuration, the
\* sizes and the interleaving of the two tasks.
THEOREM TypeCorrect == Spec => []TypeOK
<1>1. Init => TypeOK
  BY InitTypeOK
<1>2. TypeOK /\ [Next]_vars => TypeOK'
  BY StepTypeOK
<1> QED
  BY <1>1, <1>2, PTL DEF Spec

-----------------------------------------------------------------------------
(* The loops count priorities from 1 *)

LEMMA PrioPositive ==
    ASSUME TypeOK, nh.prio > 0, [Next]_vars
    PROVE  nh'.prio > 0
<1>0. nh \in HandlerState /\ nh.prio \in Nat
  BY DEF TypeOK, HandlerState
<1>1. NextSlot(nh).prio > 0 /\ NextPrio(nh).prio > 0
  BY <1>0 DEF NextSlot, NextPrio, HandlerState
<1>2. /\ \A step : /\ [nh EXCEPT !.step = step].prio > 0
                   /\ [nh EXCEPT !.step = step, !.prio = 1].prio > 0
                   /\ [nh EXCEPT !.step = step, !.prio = @ + 1].prio > 0
      /\ [nh EXCEPT !.prio = @ + 1].prio > 0
      /\ \A count : StartResending(nh, count).prio > 0
  BY <1>0 DEF HandlerState, StartResending
<1>3. CASE \/ GenerateNothing \/ GenerateDataPackage \/ PushFails \/ PushWithoutAck
           \/ PushExpectingAck \/ StorePackage \/ StoreFails \/ DropGeneratedPackage
           \/ ReceivingStep
  BY <1>2, <1>3 DEF GenerateNothing, GenerateDataPackage, PushFails, PushWithoutAck,
     PushExpectingAck, StorePackage, StoreFails, DropGeneratedPackage,
     ReceivingStep, ReceiveNothing, ReceiveAck, ReceiveUnmatchedAck
<1>4. CASE ResendingStep \/ ResendDiscard
  BY <1>0, <1>1, <1>4 DEF ResendingStep, ResendDiscard, ResendDone, ResendSkip, ResendPackage,
     ResendPushFails, ResendWait, ResendConnectionExhausted, ResendNegative, HandlerState
<1>5. CASE nh' = nh
  BY <1>5
<1> QED
  BY <1>2, <1>3, <1>4, <1>5 DEF Next, NetworkHandler, SendingStep, DiscardingStep,
     PackageHandler, PopReadyToSend, SendAndFree, Tick, PeerReceives, vars

-----------------------------------------------------------------------------
(* No payload leaks *)

\* Some queue holds a package that owns buffer b.
QueueHolds(queues, b) ==
    \E conn \in Uart : \E k \in 1 .. Len(queues[conn]) :
        ~queues[conn][k].copy /\ BufferOf(queues[conn][k]) = b

\* Inductive: no queue is longer than the code made it, and every allocated payload is
\* owned.
QueuesBounded == \A conn \in Uart : Len(queuePackagesToSend[conn]) <= QueueLen

LiveOwned ==
    \A b \in live : \/ QueueHolds(queuePackagesToSend, b)
                   \/ PackageHandlerOwns(b)
                   \/ NetworkHandlerOwns(b)

NoLeakInv == QueuesBounded /\ LiveOwned

\* One queue with a package pushed, and with one popped.
Pushed(queues, conn, e) == [queues EXCEPT ![conn] = Append(@, e)]
Shortened(queues, conn) == [queues EXCEPT ![conn] = Tail(@)]

LEMMA HeldAfterAppend ==
    ASSUME NEW queues \in [Uart -> Seq(QueuedPackage)], NEW conn \in Uart,
           NEW e \in QueuedPackage
    PROVE  /\ \A b : QueueHolds(queues, b) => QueueHolds(Pushed(queues, conn, e), b)
           /\ ~e.copy => QueueHolds(Pushed(queues, conn, e), BufferOf(e))
           /\ Len(Pushed(queues, conn, e)[conn]) = Len(queues[conn]) + 1
           /\ \A c \in Uart : c # conn => Pushed(queues, conn, e)[c] = queues[c]
<1> DEFINE after == Pushed(queues, conn, e)
<1>1. /\ Len(after[conn]) = Len(queues[conn]) + 1
      /\ Len(queues[conn]) \in Nat
      /\ after[conn][Len(queues[conn]) + 1] = e
      /\ \A k \in 1 .. Len(queues[conn]) : after[conn][k] = queues[conn][k]
  BY AppendProperties, LenProperties DEF Pushed
<1>2. \A c \in Uart : c # conn => after[c] = queues[c]
  BY DEF Pushed
<1> HIDE DEF after
<1>3. ASSUME NEW b, QueueHolds(queues, b) PROVE QueueHolds(after, b)
  <2>0. PICK c \in Uart : \E k \in 1 .. Len(queues[c]) :
           ~queues[c][k].copy /\ BufferOf(queues[c][k]) = b
    BY <1>3 DEF QueueHolds
  <2>1. PICK k \in 1 .. Len(queues[c]) :
           ~queues[c][k].copy /\ BufferOf(queues[c][k]) = b
    BY <2>0
  <2>2. k \in 1 .. Len(after[c]) /\ after[c][k] = queues[c][k]
    BY <1>1, <1>2, <2>1
  <2> QED
    BY <2>1, <2>2 DEF QueueHolds
<1>4. ~e.copy => QueueHolds(after, BufferOf(e))
  <2>1. Len(queues[conn]) + 1 \in 1 .. Len(after[conn])
    BY <1>1
  <2> QED
    BY <1>1, <2>1 DEF QueueHolds
<1> QED
  BY <1>1, <1>2, <1>3, <1>4 DEF after

LEMMA HeldAfterTail ==
    ASSUME NEW queues \in [Uart -> Seq(QueuedPackage)], NEW conn \in Uart,
           queues[conn] # <<>>
    PROVE  /\ \A b : QueueHolds(queues, b) =>
                  \/ QueueHolds(Shortened(queues, conn), b)
                  \/ ~Head(queues[conn]).copy /\ BufferOf(Head(queues[conn])) = b
           /\ Len(Shortened(queues, conn)[conn]) = Len(queues[conn]) - 1
           /\ \A c \in Uart : c # conn => Shortened(queues, conn)[c] = queues[c]
<1> DEFINE after == Shortened(queues, conn)
<1>1. /\ Len(queues[conn]) \in Nat
      /\ Len(after[conn]) = Len(queues[conn]) - 1
      /\ Head(queues[conn]) = queues[conn][1]
      /\ \A k \in 1 .. Len(queues[conn]) - 1 : after[conn][k] = queues[conn][k + 1]
  BY HeadTailProperties, LenProperties DEF Shortened
<1>2. \A c \in Uart : c # conn => after[c] = queues[c]
  BY DEF Shortened
<1> HIDE DEF after
<1>3. ASSUME NEW b, QueueHolds(queues, b)
      PROVE  \/ QueueHolds(after, b)
             \/ ~Head(queues[conn]).copy /\ BufferOf(Head(queues[conn])) = b
  <2>0. PICK c \in Uart : \E k \in 1 .. Len(queues[c]) :
           ~queues[c][k].copy /\ BufferOf(queues[c][k]) = b
    BY <1>3 DEF QueueHolds
  <2>1. PICK k \in 1 .. Len(queues[c]) :
           ~queues[c][k].copy /\ BufferOf(queues[c][k]) = b
    BY <2>0
  <2>2. CASE c # conn
    BY <1>2, <2>1, <2>2 DEF QueueHolds
  <2>3. CASE c = conn /\ k = 1
    BY <1>1, <2>1, <2>3
  <2>4. CASE c = conn /\ k # 1
    <3>1. /\ k - 1 \in 1 .. Len(after[conn])
          /\ after[conn][k - 1] = queues[conn][(k - 1) + 1]
          /\ (k - 1) + 1 = k
      BY <1>1, <2>1, <2>4
    <3> QED
      BY <2>1, <2>4, <3>1 DEF QueueHolds
  <2> QED
    BY <2>2, <2>3, <2>4
<1> QED
  BY <1>1, <1>2, <1>3 DEF after

LEMMA InitNoLeak == Init => NoLeakInv
<1>1. ASSUME Init PROVE QueuesBounded
  BY <1>1, SenderAssumption DEF Init, QueuesBounded
<1>2. ASSUME Init PROVE LiveOwned
  BY <1>2 DEF Init, LiveOwned
<1> QED
  BY <1>1, <1>2 DEF NoLeakInv

\* A step of the network handler that appends package e to a queue with space: the queues
\* stay bounded and go on holding what they held.
LEMMA PushKeepsQueues ==
    ASSUME TypeOK, QueuesBounded, NEW conn \in Uart, HasSpace(conn),
           NEW e \in QueuedPackage,
           queuePackagesToSend' = Pushed(queuePackagesToSend, conn, e)
    PROVE  /\ QueuesBounded'
           /\ \A b : QueueHolds(queuePackagesToSend, b) => QueueHolds(queuePackagesToSend', b)
           /\ ~e.copy => QueueHolds(queuePackagesToSend', BufferOf(e))
<1>1. queuePackagesToSend \in [Uart -> Seq(QueuedPackage)]
  BY DEF TypeOK
<1>2. /\ \A b : QueueHolds(queuePackagesToSend, b) => QueueHolds(queuePackagesToSend', b)
      /\ ~e.copy => QueueHolds(queuePackagesToSend', BufferOf(e))
      /\ Len(queuePackagesToSend'[conn]) = Len(queuePackagesToSend[conn]) + 1
      /\ \A c \in Uart : c # conn => queuePackagesToSend'[c] = queuePackagesToSend[c]
  BY <1>1, HeldAfterAppend
<1>3. Len(queuePackagesToSend[conn]) \in Nat /\ QueueLen \in Nat
  BY <1>1, LenProperties, SenderAssumption
<1>4. Len(queuePackagesToSend'[conn]) <= QueueLen
  BY <1>2, <1>3 DEF HasSpace
<1>5. QueuesBounded'
  BY <1>2, <1>4 DEF QueuesBounded
<1> QED
  BY <1>2, <1>5

LEMMA NetworkHandlerNoLeak == TypeOK /\ NoLeakInv /\ NetworkHandler => NoLeakInv'
<1> SUFFICES ASSUME TypeOK, NoLeakInv, NetworkHandler PROVE NoLeakInv'
  OBVIOUS
<1>0. /\ nh \in HandlerState
      /\ nh.step \in {"push", "store"} => pack \in Package
      /\ QueuesBounded
      /\ LiveOwned
  BY DEF TypeOK, NoLeakInv
<1>1. CASE GenerateDataPackage
  <2>1. /\ nh'.step = "push"
        /\ live' = live \cup {BufferOf(pack)'}
        /\ UNCHANGED <<queuePackagesToSend, ph>>
    BY <1>0, <1>1 DEF GenerateDataPackage, HandlerState, BufferOf
  <2>2. \A b \in live : ~NetworkHandlerOwns(b)
    BY <1>1 DEF GenerateDataPackage, NetworkHandlerOwns
  <2>3. LiveOwned'
    BY <1>0, <2>1, <2>2 DEF LiveOwned, PackageHandlerOwns, NetworkHandlerOwns
  <2> QED
    BY <1>0, <1>1, <2>3 DEF GenerateDataPackage, NoLeakInv, QueuesBounded
<1>2. CASE DropGeneratedPackage
  <2>1. \A b \in live' : b \in live /\ ~NetworkHandlerOwns(b)
    BY <1>2 DEF DropGeneratedPackage, NetworkHandlerOwns
  <2>2. LiveOwned'
    BY <1>0, <1>2, <2>1 DEF DropGeneratedPackage, LiveOwned, PackageHandlerOwns
  <2> QED
    BY <1>0, <1>2, <2>2 DEF DropGeneratedPackage, NoLeakInv, QueuesBounded
<1>3. CASE PushWithoutAck \/ PushExpectingAck
  <2>1. /\ nh.step = "push" /\ PushConn \in Uart /\ HasSpace(PushConn)
        /\ queuePackagesToSend' = Pushed(queuePackagesToSend, PushConn, NewQueued(pack))
        /\ UNCHANGED <<live, ph>>
    BY <1>3 DEF PushWithoutAck, PushExpectingAck, PushPossible, Pushed
  <2>2. /\ NewQueued(pack) \in QueuedPackage
        /\ ~NewQueued(pack).copy
        /\ BufferOf(NewQueued(pack)) = BufferOf(pack)
    BY <1>0, <2>1 DEF NewQueued, QueuedPackage, Package, BufferOf
  <2>3. /\ QueuesBounded'
        /\ \A b : QueueHolds(queuePackagesToSend, b) => QueueHolds(queuePackagesToSend', b)
        /\ QueueHolds(queuePackagesToSend', BufferOf(pack))
    BY <1>0, <2>1, <2>2, PushKeepsQueues
  <2>4. LiveOwned'
    BY <1>0, <2>1, <2>3 DEF LiveOwned, PackageHandlerOwns, NetworkHandlerOwns
  <2> QED
    BY <2>3, <2>4 DEF NoLeakInv
<1>4. CASE ResendPackage
  <2>1. AtStoredPackage /\ VisitedConn \in Uart /\ HasSpace(VisitedConn)
    BY <1>4 DEF ResendPackage, ResendDue, MustDiscard
  <2>2. ResendCopy(Visited) \in QueuedPackage
    BY <2>1, VisitedPackage DEF ResendCopy, QueuedPackage, Package
  <2>3. /\ QueuesBounded'
        /\ \A b : QueueHolds(queuePackagesToSend, b) => QueueHolds(queuePackagesToSend', b)
    BY <1>0, <1>4, <2>1, <2>2, PushKeepsQueues DEF ResendPackage, Pushed
  <2>4. \A b : ~NetworkHandlerOwns(b)
    BY <2>1 DEF AtStoredPackage, NetworkHandlerOwns
  <2>5. LiveOwned'
    BY <1>0, <1>4, <2>3, <2>4 DEF ResendPackage, LiveOwned, PackageHandlerOwns
  <2> QED
    BY <2>3, <2>5 DEF NoLeakInv
<1>5. CASE /\ UNCHANGED <<queuePackagesToSend, live, ph>>
           /\ \A b : NetworkHandlerOwns(b) => NetworkHandlerOwns(b)'
  BY <1>0, <1>5 DEF NoLeakInv, LiveOwned, QueuesBounded, PackageHandlerOwns
<1>6. CASE PushFails \/ StoreFails
  <2>1. UNCHANGED <<queuePackagesToSend, live, ph, pack>> /\ nh'.step = "push"
    BY <1>0, <1>6 DEF PushFails, StoreFails, nhVars, HandlerState
  <2> QED
    BY <1>5, <2>1 DEF NetworkHandlerOwns
<1>7. CASE \/ GenerateNothing \/ StorePackage
           \/ ReceivingStep
           \/ ResendDone \/ ResendSkip \/ ResendPushFails
           \/ ResendWait \/ ResendConnectionExhausted \/ ResendNegative
           \/ ResendDiscard
  <2>1. nh.step # "push" /\ UNCHANGED <<queuePackagesToSend, live, ph>>
    BY <1>7 DEF GenerateNothing, StorePackage, ReceivingStep, ReceiveNothing, ReceiveAck,
       ReceiveUnmatchedAck, ResendDone, ResendSkip, ResendPushFails, ResendWait,
       ResendConnectionExhausted, ResendNegative, ResendDiscard, ResendDue, AtStoredPackage
  <2> QED
    BY <1>5, <2>1 DEF NetworkHandlerOwns
<1> QED
  BY <1>1, <1>2, <1>3, <1>4, <1>6, <1>7
  DEF NetworkHandler, SendingStep, ResendingStep, DiscardingStep

LEMMA PackageHandlerNoLeak == TypeOK /\ NoLeakInv /\ PackageHandler => NoLeakInv'
<1> SUFFICES ASSUME TypeOK, NoLeakInv, PackageHandler PROVE NoLeakInv'
  OBVIOUS
<1>0. /\ queuePackagesToSend \in [Uart -> Seq(QueuedPackage)]
      /\ QueuesBounded
      /\ LiveOwned
  BY DEF TypeOK, NoLeakInv
<1>1. ASSUME NEW conn \in Uart, PopReadyToSend(conn) PROVE NoLeakInv'
  <2>1. /\ ph = NoPackage
        /\ queuePackagesToSend[conn] # <<>>
        /\ queuePackagesToSend' = Shortened(queuePackagesToSend, conn)
        /\ ph' = [conn |-> conn, pack |-> Head(queuePackagesToSend[conn])]
        /\ UNCHANGED <<live, nh, pack>>
    BY <1>1 DEF PopReadyToSend, nhVars, Shortened
  <2>2. /\ \A b : QueueHolds(queuePackagesToSend, b) =>
               \/ QueueHolds(queuePackagesToSend', b)
               \/ /\ ~Head(queuePackagesToSend[conn]).copy
                  /\ BufferOf(Head(queuePackagesToSend[conn])) = b
        /\ Len(queuePackagesToSend'[conn]) = Len(queuePackagesToSend[conn]) - 1
        /\ \A c \in Uart : c # conn => queuePackagesToSend'[c] = queuePackagesToSend[c]
    BY <1>0, <2>1, HeldAfterTail
  <2>3. ph' # NoPackage
    <3>1. Head(queuePackagesToSend[conn]) \in QueuedPackage
      BY <1>0, <2>1, QueueUpdates
    <3> QED
      BY <2>1, <3>1, SenderAssumption
  <2>4. \A b : ~PackageHandlerOwns(b)
    BY <2>1 DEF PackageHandlerOwns
  <2>5. \A b \in live : QueueHolds(queuePackagesToSend, b) \/ NetworkHandlerOwns(b)
    BY <1>0, <2>4 DEF LiveOwned
  <2>6. ASSUME NEW b \in live'
        PROVE  \/ QueueHolds(queuePackagesToSend', b)
               \/ PackageHandlerOwns(b)'
               \/ NetworkHandlerOwns(b)'
    <3>1. b \in live
      BY <2>1
    <3>2. CASE NetworkHandlerOwns(b)
      BY <2>1, <3>2 DEF NetworkHandlerOwns
    <3>3. CASE QueueHolds(queuePackagesToSend, b)
      BY <2>1, <2>2, <2>3, <3>3 DEF PackageHandlerOwns
    <3> QED
      BY <2>5, <3>1, <3>2, <3>3
  <2>7. QueuesBounded'
    <3>1. Len(queuePackagesToSend[conn]) \in Nat /\ QueueLen \in Nat
      BY <1>0, LenProperties, SenderAssumption
    <3>2. Len(queuePackagesToSend'[conn]) <= QueueLen
      BY <1>0, <2>2, <3>1 DEF QueuesBounded
    <3> QED
      BY <1>0, <2>2, <3>2 DEF QueuesBounded
  <2> QED
    BY <2>6, <2>7 DEF NoLeakInv, LiveOwned
<1>2. CASE SendAndFree
  <2>1. /\ ph # NoPackage
        /\ live' = FreePopped(ph.pack)
        /\ UNCHANGED <<queuePackagesToSend, nh, pack>>
    BY <1>2 DEF SendAndFree, nhVars
  <2>2. \A b \in live' : b \in live /\ ~PackageHandlerOwns(b)
    BY <2>1 DEF FreePopped, PackageHandlerOwns
  <2>3. LiveOwned'
    BY <1>0, <2>1, <2>2 DEF LiveOwned, NetworkHandlerOwns
  <2> QED
    BY <1>0, <2>1, <2>3 DEF NoLeakInv, QueuesBounded
<1> QED
  BY <1>1, <1>2 DEF PackageHandler

LEMMA StepNoLeak == TypeOK /\ NoLeakInv /\ [Next]_vars => NoLeakInv'
<1> SUFFICES ASSUME TypeOK, NoLeakInv, [Next]_vars PROVE NoLeakInv'
  OBVIOUS
<1>1. CASE Tick
  <2>1. /\ UNCHANGED <<queuePackagesToSend, live, nh, ph>>
        /\ nh.step = "push" => BufferOf(pack') = BufferOf(pack)
    BY <1>1, AgedPackage DEF Tick, TypeOK, BufferOf
  <2> QED
    BY <2>1 DEF NoLeakInv, LiveOwned, QueuesBounded, PackageHandlerOwns, NetworkHandlerOwns
<1>2. CASE UNCHANGED <<queuePackagesToSend, live, nh, pack, ph>>
  BY <1>2 DEF NoLeakInv, LiveOwned, QueuesBounded, PackageHandlerOwns, NetworkHandlerOwns
<1>3. ASSUME NEW conn \in Uart, PeerReceives(conn) PROVE NoLeakInv'
  BY <1>2, <1>3 DEF PeerReceives, nhVars
<1>4. CASE UNCHANGED vars
  BY <1>2, <1>4 DEF vars
<1> QED
  BY <1>1, <1>3, <1>4, NetworkHandlerNoLeak, PackageHandlerNoLeak DEF Next

\* A payload that is allocated always has an owner that will free it, whatever the
\* configuration and the interleaving: sendAndStoreGeneratedWlPackage and the package
\* handler together leak no payload of a new package.
THEOREM NothingLeaks == Spec => []NoLeak
<1>1. TypeOK /\ NoLeakInv => NoLeak
  <2> SUFFICES ASSUME TypeOK, NoLeakInv, NEW b \in live,
                      QueueHolds(queuePackagesToSend, b)
               PROVE  QueueOwners(b) # {}
    BY DEF NoLeak, NoLeakInv, LiveOwned
  <2>0. PICK conn \in Uart : \E k \in 1 .. Len(queuePackagesToSend[conn]) :
           /\ ~queuePackagesToSend[conn][k].copy
           /\ BufferOf(queuePackagesToSend[conn][k]) = b
    BY DEF QueueHolds
  <2>1. PICK k \in 1 .. Len(queuePackagesToSend[conn]) :
           /\ ~queuePackagesToSend[conn][k].copy
           /\ BufferOf(queuePackagesToSend[conn][k]) = b
    BY <2>0
  <2>2. Len(queuePackagesToSend[conn]) \in Nat /\ QueueLen \in Nat
    BY LenProperties, SenderAssumption DEF TypeOK
  <2>3. k \in 1 .. QueueLen /\ k <= Len(queuePackagesToSend[conn])
    BY <2>1, <2>2 DEF NoLeakInv, QueuesBounded
  <2>4. <<conn, k>> \in QueueOwners(b)
    BY <2>1, <2>3 DEF QueueOwners
  <2> QED
    BY <2>4
<1>2. Init => NoLeakInv
  BY InitNoLeak
<1>3. TypeOK /\ NoLeakInv /\ [Next]_vars => NoLeakInv'
  BY StepNoLeak
<1> QED
  BY <1>1, <1>2, <1>3, TypeCorrect, PTL DEF Spec

-----------------------------------------------------------------------------
(* The scans see every stored package *)

\* Inductive: the counter is the number of occupied slots.
CountInv == numberOfUnacknowledgedPackages = Cardinality(Occupied)

LEMMA OccupiedFinite == IsFiniteSet(Occupied) /\ Cardinality(Occupied) \in Nat
<1>1. IsFiniteSet(Slots)
  BY FS_Interval, SenderAssumption DEF Slots
<1>2. Occupied \in SUBSET Slots
  BY DEF Occupied
<1> QED
  BY <1>1, <1>2, FS_Subset, FS_CardinalityType

\* One slot is taken, one is freed, or none changes between empty and occupied.
LEMMA OccupiedSteps ==
    ASSUME TypeOK, [Next]_vars
    PROVE  \/ /\ Occupied' = Occupied
              /\ UNCHANGED numberOfUnacknowledgedPackages
           \/ /\ \E i \in Slots \ Occupied : Occupied' = Occupied \cup {i}
              /\ numberOfUnacknowledgedPackages' = numberOfUnacknowledgedPackages + 1
           \/ /\ \E i \in Occupied : Occupied' = Occupied \ {i}
              /\ numberOfUnacknowledgedPackages' = numberOfUnacknowledgedPackages - 1
<1>1. CASE StorePackage
  <2>1. PICK i \in Slots, read \in ReadPayload(pack) :
           /\ unacknowledgedPackages[i] = NoPackage
           /\ unacknowledgedPackages' =
                 [unacknowledgedPackages EXCEPT ![i] = [pack EXCEPT !.intact = read]]
    BY <1>1 DEF StorePackage
  <2>2. [pack EXCEPT !.intact = read] \in Package
    BY <1>1, <2>1 DEF StorePackage, TypeOK, ReadPayload, Package
  <2>3. i \in Slots \ Occupied /\ Occupied' = Occupied \cup {i}
    BY <2>1, <2>2, SenderAssumption DEF TypeOK, Occupied
  <2> QED
    BY <1>1, <2>3 DEF StorePackage, OneMoreStored
<1>2. CASE ReceiveAck
  <2>1. PICK i \in Scanned :
           unacknowledgedPackages' = [unacknowledgedPackages EXCEPT ![i] = NoPackage]
    BY <1>2 DEF ReceiveAck
  <2>2. i \in Occupied /\ Occupied' = Occupied \ {i}
    BY <2>1 DEF TypeOK, Occupied, Scanned
  <2> QED
    BY <1>2, <2>2 DEF ReceiveAck
<1>3. CASE ResendDiscard
  <2>1. nh.index \in Occupied
    BY <1>3, VisitedPackage DEF ResendDiscard, AtStoredPackage, Occupied
  <2>2. Occupied' = Occupied \ {nh.index}
    BY <1>3, <2>1 DEF ResendDiscard, TypeOK, Occupied
  <2> QED
    BY <1>3, <2>1, <2>2 DEF ResendDiscard
<1>4. CASE ResendPackage
  <2>1. AtStoredPackage /\ VisitedConn \in Uart
    BY <1>4 DEF ResendPackage, ResendDue, MustDiscard
  <2>2. nh.index \in Occupied /\ Visited \in Package
    BY <2>1, VisitedPackage DEF AtStoredPackage, Occupied
  <2>3. [Visited EXCEPT !.left[VisitedConn] = @ - 1, !.last[VisitedConn] = 0] \in Package
    BY <2>1, <2>2, AttemptMade
  <2>4. Occupied' = Occupied
    BY <1>4, <2>2, <2>3, SenderAssumption DEF ResendPackage, TypeOK, Occupied
  <2> QED
    BY <1>4, <2>4 DEF ResendPackage
<1>5. CASE Tick
  <2>1. Occupied' = Occupied
    BY <1>5, AgedPackage, AgedEmpty, SenderAssumption DEF Tick, TypeOK, Occupied
  <2> QED
    BY <1>5, <2>1 DEF Tick
<1>6. CASE UNCHANGED <<unacknowledgedPackages, numberOfUnacknowledgedPackages>>
  BY <1>6 DEF Occupied
<1>7. CASE \/ GenerateNothing \/ GenerateDataPackage \/ PushFails \/ PushWithoutAck
           \/ PushExpectingAck \/ StoreFails \/ DropGeneratedPackage
           \/ ReceiveNothing \/ ReceiveUnmatchedAck
  BY <1>6, <1>7 DEF GenerateNothing, GenerateDataPackage, PushFails, PushWithoutAck,
     PushExpectingAck, StoreFails, DropGeneratedPackage, ReceiveNothing, ReceiveUnmatchedAck,
     nhVars
<1>8. CASE \/ ResendDone \/ ResendSkip \/ ResendPushFails \/ ResendWait
           \/ ResendConnectionExhausted \/ ResendNegative
  BY <1>6, <1>8 DEF ResendDone, ResendSkip, ResendPushFails, ResendWait,
     ResendConnectionExhausted, ResendNegative, nhVars
<1>9. CASE \/ PackageHandler \/ (\E conn \in Uart : PeerReceives(conn)) \/ UNCHANGED vars
  BY <1>6, <1>9 DEF PackageHandler, PopReadyToSend, SendAndFree, PeerReceives, vars, nhVars
<1> QED
  BY <1>1, <1>2, <1>3, <1>4, <1>5, <1>7, <1>8, <1>9
  DEF Next, NetworkHandler, SendingStep, ReceivingStep, ResendingStep, DiscardingStep

LEMMA InitCount == Init => CountInv
<1> SUFFICES ASSUME Init PROVE CountInv
  OBVIOUS
<1>1. Occupied = {}
  BY DEF Init, Occupied
<1> QED
  BY <1>1, FS_EmptySet DEF Init, CountInv

LEMMA StepCount == TypeOK /\ CountInv /\ [Next]_vars => CountInv'
<1> SUFFICES ASSUME TypeOK, CountInv, [Next]_vars PROVE CountInv'
  OBVIOUS
<1>1. \A i : /\ Cardinality(Occupied \cup {i}) =
                   IF i \in Occupied THEN Cardinality(Occupied) ELSE Cardinality(Occupied) + 1
             /\ Cardinality(Occupied \ {i}) =
                   IF i \in Occupied THEN Cardinality(Occupied) - 1 ELSE Cardinality(Occupied)
  BY OccupiedFinite, FS_AddElement, FS_RemoveElement
<1> QED
  BY <1>1, OccupiedSteps DEF CountInv

LEMMA CountedAreScanned == CountInv => ScansSeeEverything
<1> SUFFICES ASSUME CountInv, NEW i \in Occupied
             PROVE  Cardinality({j \in Occupied : j < i}) < Cardinality(Occupied)
  BY DEF CountInv, ScansSeeEverything, Scanned
<1> DEFINE Below == {j \in Occupied : j < i}
<1>1. i \in Nat
  BY SenderAssumption DEF Occupied, Slots
<1>2. Below \in SUBSET Occupied /\ Below # Occupied
  BY <1>1
<1> HIDE DEF Below
<1>3. /\ IsFiniteSet(Below)
      /\ Cardinality(Below) <= Cardinality(Occupied)
      /\ Cardinality(Below) # Cardinality(Occupied)
  BY <1>2, OccupiedFinite, FS_Subset
<1>4. Cardinality(Below) < Cardinality(Occupied)
  BY <1>3, OccupiedFinite, FS_CardinalityType
<1> QED
  BY <1>4 DEF Below

\* The counter by which the scans of the unacknowledged array end early is the number of
\* occupied slots, so no stored package is hidden from an acknowledge or from resending
\* (NetworkHandler.c, numberOfUnacknowledgedPackages).
THEOREM CounterIsExact == Spec => []ScansSeeEverything
<1>1. Init => CountInv
  BY InitCount
<1>2. TypeOK /\ CountInv /\ [Next]_vars => CountInv'
  BY StepCount
<1>3. CountInv => ScansSeeEverything
  BY CountedAreScanned
<1> QED
  BY <1>1, <1>2, <1>3, TypeCorrect, PTL DEF Spec

-----------------------------------------------------------------------------
(* A payload is freed once *)

\* Place k of a queue owns buffer b.
Holds(queues, conn, k, b) ==
    /\ k \in 1 .. Len(queues[conn])
    /\ ~queues[conn][k].copy
    /\ BufferOf(queues[conn][k]) = b

HeldOnce(queues) ==
    \A conn, other \in Uart, k, l \in Nat : \A b :
        Holds(queues, conn, k, b) /\ Holds(queues, other, l, b) => conn = other /\ k = l

Owned(b) == QueueHolds(queuePackagesToSend, b) \/ PackageHandlerOwns(b) \/ NetworkHandlerOwns(b)

\* Inductive as long as the unacknowledged array has a slot for what has been pushed: nobody
\* shares what he owns, and what somebody owns is allocated.
OwnersDiffer ==
    /\ HeldOnce(queuePackagesToSend)
    /\ \A b : QueueHolds(queuePackagesToSend, b) => ~PackageHandlerOwns(b) /\ ~NetworkHandlerOwns(b)
    /\ \A b : ~(PackageHandlerOwns(b) /\ NetworkHandlerOwns(b))

OwnedIsLive == \A b : Owned(b) => b \in live

LiveIsGenerated == \A b \in live : b.sysTime <= sentPackNumTracker[b.dev]

OwnInv == OwnersDiffer /\ OwnedIsLive /\ LiveIsGenerated

ArrayHasSpace == nh.step = "store" => Occupied # Slots

LEMMA HoldsIsHeld ==
    ASSUME NEW queues, NEW b
    PROVE  QueueHolds(queues, b) <=> \E conn \in Uart : \E k \in Nat : Holds(queues, conn, k, b)
<1>1. ASSUME NEW conn \in Uart, NEW k \in 1 .. Len(queues[conn]) PROVE k \in Nat
  OBVIOUS
<1> QED
  BY <1>1 DEF QueueHolds, Holds

LEMMA HoldsAfterAppend ==
    ASSUME NEW queues \in [Uart -> Seq(QueuedPackage)], NEW conn \in Uart,
           NEW e \in QueuedPackage, NEW c \in Uart, NEW k \in Nat, NEW b
    PROVE  Holds(Pushed(queues, conn, e), c, k, b) <=>
              \/ Holds(queues, c, k, b)
              \/ c = conn /\ k = Len(queues[conn]) + 1 /\ ~e.copy /\ BufferOf(e) = b
<1> DEFINE after == Pushed(queues, conn, e)
<1>1. /\ Len(after[conn]) = Len(queues[conn]) + 1
      /\ Len(queues[conn]) \in Nat
      /\ after[conn][Len(queues[conn]) + 1] = e
      /\ \A i \in 1 .. Len(queues[conn]) : after[conn][i] = queues[conn][i]
  BY AppendProperties, LenProperties DEF Pushed
<1>2. c # conn => after[c] = queues[c]
  BY DEF Pushed
<1> HIDE DEF after
<1>3. CASE c # conn
  BY <1>2, <1>3 DEF Holds, after
<1>4. CASE c = conn /\ k \in 1 .. Len(queues[conn])
  <2>1. k # Len(queues[conn]) + 1 /\ k \in 1 .. Len(after[conn]) /\ after[conn][k] = queues[conn][k]
    BY <1>1, <1>4
  <2> QED
    BY <1>4, <2>1 DEF Holds, after
<1>5. CASE c = conn /\ k \notin 1 .. Len(queues[conn])
  <2>1. k \in 1 .. Len(after[conn]) <=> k = Len(queues[conn]) + 1
    BY <1>1, <1>5
  <2> QED
    BY <1>1, <1>5, <2>1 DEF Holds, after
<1> QED
  BY <1>3, <1>4, <1>5

LEMMA HoldsAfterTail ==
    ASSUME NEW queues \in [Uart -> Seq(QueuedPackage)], NEW conn \in Uart,
           queues[conn] # <<>>, NEW c \in Uart, NEW k \in Nat, NEW b
    PROVE  Holds(Shortened(queues, conn), c, k, b) <=>
              IF c = conn THEN k # 0 /\ Holds(queues, c, k + 1, b) ELSE Holds(queues, c, k, b)
<1> DEFINE after == Shortened(queues, conn)
<1>1. /\ Len(queues[conn]) \in Nat
      /\ Len(after[conn]) = Len(queues[conn]) - 1
      /\ \A i \in 1 .. Len(queues[conn]) - 1 : after[conn][i] = queues[conn][i + 1]
  BY HeadTailProperties, LenProperties DEF Shortened
<1>2. c # conn => after[c] = queues[c]
  BY DEF Shortened
<1> HIDE DEF after
<1>3. CASE c # conn
  BY <1>2, <1>3 DEF Holds, after
<1>4. CASE c = conn
  <2>1. k \in 1 .. Len(after[conn]) <=> k # 0 /\ k + 1 \in 1 .. Len(queues[conn])
    BY <1>1
  <2>2. k \in 1 .. Len(after[conn]) => after[conn][k] = queues[conn][k + 1]
    BY <1>1
  <2> QED
    BY <1>4, <2>1, <2>2 DEF Holds, after
<1> QED
  BY <1>3, <1>4

\* The first of a queue owns its payload alone.
LEMMA HeadHolds ==
    ASSUME NEW queues \in [Uart -> Seq(QueuedPackage)], NEW conn \in Uart, queues[conn] # <<>>,
           NEW b
    PROVE  Holds(queues, conn, 1, b) <=>
              ~Head(queues[conn]).copy /\ BufferOf(Head(queues[conn])) = b
<1>1. Len(queues[conn]) \in Nat \ {0} /\ Head(queues[conn]) = queues[conn][1]
  BY HeadTailProperties, LenProperties, EmptySeq
<1> QED
  BY <1>1 DEF Holds

\* Pushing what nobody else owns, or a copy, leaves one owner.
LEMMA HeldOncePushed ==
    ASSUME NEW queues \in [Uart -> Seq(QueuedPackage)], NEW conn \in Uart,
           NEW e \in QueuedPackage, HeldOnce(queues),
           ~e.copy => ~QueueHolds(queues, BufferOf(e))
    PROVE  /\ HeldOnce(Pushed(queues, conn, e))
           /\ \A b : QueueHolds(Pushed(queues, conn, e), b) <=>
                        QueueHolds(queues, b) \/ (~e.copy /\ BufferOf(e) = b)
<1>0. Len(queues[conn]) + 1 \in Nat
  BY LenProperties
<1>1. \A c \in Uart, k \in Nat : \A b :
         Holds(Pushed(queues, conn, e), c, k, b) <=>
            \/ Holds(queues, c, k, b)
            \/ c = conn /\ k = Len(queues[conn]) + 1 /\ ~e.copy /\ BufferOf(e) = b
  BY HoldsAfterAppend
<1>2. \A b : \A c \in Uart, k \in Nat : Holds(queues, c, k, b) => QueueHolds(queues, b)
  BY HoldsIsHeld
<1>3. HeldOnce(Pushed(queues, conn, e))
  BY <1>1, <1>2 DEF HeldOnce
<1>4. ASSUME NEW b
      PROVE  QueueHolds(Pushed(queues, conn, e), b) <=>
                QueueHolds(queues, b) \/ (~e.copy /\ BufferOf(e) = b)
  BY <1>0, <1>1, HoldsIsHeld
<1> QED
  BY <1>3, <1>4

\* What is popped is no longer held by a queue.
LEMMA HeldOncePopped ==
    ASSUME NEW queues \in [Uart -> Seq(QueuedPackage)], NEW conn \in Uart,
           queues[conn] # <<>>, HeldOnce(queues)
    PROVE  /\ HeldOnce(Shortened(queues, conn))
           /\ \A b : QueueHolds(Shortened(queues, conn), b) =>
                 /\ QueueHolds(queues, b)
                 /\ ~(~Head(queues[conn]).copy /\ BufferOf(Head(queues[conn])) = b)
           /\ ~Head(queues[conn]).copy => QueueHolds(queues, BufferOf(Head(queues[conn])))
<1>1. \A c \in Uart, k \in Nat : \A b :
         Holds(Shortened(queues, conn), c, k, b) <=>
            IF c = conn THEN k # 0 /\ Holds(queues, c, k + 1, b) ELSE Holds(queues, c, k, b)
  BY HoldsAfterTail
<1>2. HeldOnce(Shortened(queues, conn))
  <2> SUFFICES ASSUME NEW c \in Uart, NEW d \in Uart, NEW k \in Nat, NEW l \in Nat, NEW b,
                      Holds(Shortened(queues, conn), c, k, b),
                      Holds(Shortened(queues, conn), d, l, b)
               PROVE  c = d /\ k = l
    BY DEF HeldOnce
  <2> DEFINE kk == IF c = conn THEN k + 1 ELSE k
             ll == IF d = conn THEN l + 1 ELSE l
  <2>1. kk \in Nat /\ ll \in Nat /\ Holds(queues, c, kk, b) /\ Holds(queues, d, ll, b)
    BY <1>1
  <2>2. c = d /\ kk = ll
    BY <2>1 DEF HeldOnce
  <2> QED
    BY <2>2
<1>3. ASSUME NEW b, QueueHolds(Shortened(queues, conn), b)
      PROVE  /\ QueueHolds(queues, b)
             /\ ~(~Head(queues[conn]).copy /\ BufferOf(Head(queues[conn])) = b)
  <2>0. PICK c \in Uart : \E k \in Nat : Holds(Shortened(queues, conn), c, k, b)
    BY <1>3, HoldsIsHeld
  <2>1. PICK k \in Nat : Holds(Shortened(queues, conn), c, k, b)
    BY <2>0
  <2> DEFINE kk == IF c = conn THEN k + 1 ELSE k
  <2>2. kk \in Nat /\ Holds(queues, c, kk, b) /\ (c = conn => kk # 1)
    BY <1>1, <2>1
  <2>3. ~Holds(queues, conn, 1, b)
    BY <2>2 DEF HeldOnce
  <2>4. Holds(queues, conn, 1, b) <=> ~Head(queues[conn]).copy /\ BufferOf(Head(queues[conn])) = b
    BY HeadHolds
  <2> QED
    BY <2>2, <2>3, <2>4, HoldsIsHeld
<1>4. ASSUME ~Head(queues[conn]).copy PROVE QueueHolds(queues, BufferOf(Head(queues[conn])))
  <2>1. Holds(queues, conn, 1, BufferOf(Head(queues[conn])))
    BY <1>4, HeadHolds
  <2> QED
    BY <2>1, HoldsIsHeld
<1> QED
  BY <1>2, <1>3, <1>4

LEMMA NetworkHandlerOwn ==
    ASSUME TypeOK, OwnInv, ArrayHasSpace, NetworkHandler
    PROVE  OwnInv'
<1>0. /\ nh \in HandlerState
      /\ nh.step \in {"push", "store"} => pack \in Package
      /\ queuePackagesToSend \in [Uart -> Seq(QueuedPackage)]
      /\ OwnersDiffer /\ OwnedIsLive /\ LiveIsGenerated
  BY DEF TypeOK, OwnInv
<1>1. CASE GenerateDataPackage
  <2>0. /\ nh.dev \in Uart /\ sentPackNumTracker \in [Uart -> 0 .. MaxPack]
        /\ sentPackNumTracker' =
              [sentPackNumTracker EXCEPT ![nh.dev] = sentPackNumTracker[nh.dev] + 1]
        /\ nh.step = "generate"
    BY <1>1 DEF GenerateDataPackage, TypeOK, HandlerState
  <2>1. /\ nh'.step = "push"
        /\ BufferOf(pack') = [dev |-> nh.dev, sysTime |-> sentPackNumTracker[nh.dev] + 1]
        /\ live' = live \cup {BufferOf(pack')}
        /\ UNCHANGED <<queuePackagesToSend, ph>>
    BY <1>0, <1>1 DEF GenerateDataPackage, GeneratedPackage, HandlerState, BufferOf
  <2>2. BufferOf(pack') \notin live
    <3>1. sentPackNumTracker[nh.dev] \in Int
      BY <2>0
    <3> QED
      BY <1>0, <2>1, <3>1 DEF LiveIsGenerated
  <2>3. \A b : ~NetworkHandlerOwns(b) /\ (NetworkHandlerOwns(b)' <=> b = BufferOf(pack'))
    BY <2>0, <2>1 DEF NetworkHandlerOwns, BufferOf
  <2>4. \A b : PackageHandlerOwns(b)' <=> PackageHandlerOwns(b)
    BY <2>1 DEF PackageHandlerOwns
  <2>5. OwnersDiffer' /\ OwnedIsLive'
    BY <1>0, <2>1, <2>2, <2>3, <2>4 DEF OwnersDiffer, OwnedIsLive, Owned
  <2>6. LiveIsGenerated'
    <3> SUFFICES ASSUME NEW b \in live' PROVE b.sysTime <= sentPackNumTracker'[b.dev]
      BY DEF LiveIsGenerated
    <3>1. CASE b = BufferOf(pack')
      BY <2>0, <2>1, <3>1
    <3>2. CASE b \in live
      <4>1. /\ b.dev \in Uart /\ b.sysTime \in Int /\ b.sysTime <= sentPackNumTracker[b.dev]
            /\ sentPackNumTracker[b.dev] \in Int
        BY <1>0, <2>0, <3>2, ConfigAssumption DEF LiveIsGenerated, TypeOK, Buffer
      <4> QED
        BY <2>0, <4>1
    <3> QED
      BY <2>1, <3>1, <3>2
  <2> QED
    BY <2>5, <2>6 DEF OwnInv
<1>2. CASE DropGeneratedPackage
  <2>1. /\ nh.step = "push" /\ nh'.step = "receive"
        /\ live' = live \ {BufferOf(pack)}
        /\ UNCHANGED <<queuePackagesToSend, ph, sentPackNumTracker>>
    BY <1>0, <1>2 DEF DropGeneratedPackage, HandlerState
  <2>2. \A b : (NetworkHandlerOwns(b) <=> b = BufferOf(pack)) /\ ~NetworkHandlerOwns(b)'
    BY <2>1 DEF NetworkHandlerOwns
  <2>3. \A b : PackageHandlerOwns(b)' <=> PackageHandlerOwns(b)
    BY <2>1 DEF PackageHandlerOwns
  <2>4. OwnersDiffer' /\ OwnedIsLive'
    BY <1>0, <2>1, <2>2, <2>3 DEF OwnersDiffer, OwnedIsLive, Owned
  <2> QED
    BY <1>0, <2>1, <2>4 DEF OwnInv, LiveIsGenerated
<1>3. CASE PushWithoutAck \/ PushExpectingAck
  <2>1. /\ nh.step = "push" /\ nh'.step # "push" /\ PushConn \in Uart
        /\ queuePackagesToSend' = Pushed(queuePackagesToSend, PushConn, NewQueued(pack))
        /\ UNCHANGED <<live, ph, sentPackNumTracker>>
    BY <1>0, <1>3 DEF PushWithoutAck, PushExpectingAck, PushPossible, Pushed, HandlerState
  <2>2. /\ NewQueued(pack) \in QueuedPackage
        /\ ~NewQueued(pack).copy
        /\ BufferOf(NewQueued(pack)) = BufferOf(pack)
    BY <1>0, <2>1 DEF NewQueued, QueuedPackage, Package, BufferOf
  <2>3. \A b : (NetworkHandlerOwns(b) <=> b = BufferOf(pack)) /\ ~NetworkHandlerOwns(b)'
    BY <2>1 DEF NetworkHandlerOwns
  <2>4. \A b : PackageHandlerOwns(b)' <=> PackageHandlerOwns(b)
    BY <2>1 DEF PackageHandlerOwns
  <2>5. /\ HeldOnce(queuePackagesToSend')
        /\ \A b : QueueHolds(queuePackagesToSend', b) <=>
                     QueueHolds(queuePackagesToSend, b) \/ b = BufferOf(pack)
    BY <1>0, <2>1, <2>2, <2>3, HeldOncePushed DEF OwnersDiffer
  <2>6. OwnersDiffer' /\ OwnedIsLive'
    BY <1>0, <2>1, <2>3, <2>4, <2>5 DEF OwnersDiffer, OwnedIsLive, Owned
  <2> QED
    BY <1>0, <2>1, <2>6 DEF OwnInv, LiveIsGenerated
<1>4. CASE ResendPackage
  <2>1. AtStoredPackage /\ VisitedConn \in Uart
    BY <1>4 DEF ResendPackage, ResendDue, MustDiscard
  <2>2. ResendCopy(Visited) \in QueuedPackage /\ ResendCopy(Visited).copy
    BY <2>1, VisitedPackage DEF ResendCopy, QueuedPackage, Package
  <2>3. /\ nh.step # "push" /\ nh'.step # "push"
        /\ queuePackagesToSend' = Pushed(queuePackagesToSend, VisitedConn, ResendCopy(Visited))
        /\ UNCHANGED <<live, ph, sentPackNumTracker>>
    BY <1>0, <1>4, <2>1, HandlerMoves DEF ResendPackage, AtStoredPackage, Pushed
  <2>4. /\ HeldOnce(queuePackagesToSend')
        /\ \A b : QueueHolds(queuePackagesToSend', b) <=> QueueHolds(queuePackagesToSend, b)
    BY <1>0, <2>1, <2>2, <2>3, HeldOncePushed DEF OwnersDiffer
  <2>5. \A b : /\ ~NetworkHandlerOwns(b) /\ ~NetworkHandlerOwns(b)'
               /\ PackageHandlerOwns(b)' <=> PackageHandlerOwns(b)
    BY <2>3 DEF NetworkHandlerOwns, PackageHandlerOwns
  <2>6. OwnersDiffer' /\ OwnedIsLive'
    BY <1>0, <2>3, <2>4, <2>5 DEF OwnersDiffer, OwnedIsLive, Owned
  <2> QED
    BY <1>0, <2>3, <2>6 DEF OwnInv, LiveIsGenerated
<1>5. CASE /\ UNCHANGED <<queuePackagesToSend, live, ph, sentPackNumTracker>>
           /\ \A b : NetworkHandlerOwns(b)' => NetworkHandlerOwns(b)
  <2>1. \A b : PackageHandlerOwns(b)' <=> PackageHandlerOwns(b)
    BY <1>5 DEF PackageHandlerOwns
  <2>2. OwnersDiffer' /\ OwnedIsLive'
    BY <1>0, <1>5, <2>1 DEF OwnersDiffer, OwnedIsLive, Owned
  <2> QED
    BY <1>0, <1>5, <2>2 DEF OwnInv, LiveIsGenerated
<1>6. CASE PushFails
  <2>1. /\ UNCHANGED <<queuePackagesToSend, live, ph, pack, sentPackNumTracker>>
        /\ nh.step = "push"
    BY <1>6 DEF PushFails, nhVars
  <2> QED
    BY <1>5, <2>1 DEF NetworkHandlerOwns
<1>7. CASE StoreFails
  BY <1>7 DEF StoreFails, ArrayHasSpace
<1>8. CASE \/ GenerateNothing \/ StorePackage
           \/ ReceivingStep
           \/ ResendDone \/ ResendSkip \/ ResendPushFails
           \/ ResendWait \/ ResendConnectionExhausted \/ ResendNegative
           \/ ResendDiscard
  <2>1. numberOfUnacknowledgedPackages \in Int /\ numberOfUnacknowledgedPackages - 1 \in Int
    BY DEF TypeOK
  <2>2. nh'.step # "push"
    <3>1. CASE GenerateNothing \/ StorePackage \/ ResendDone
      BY <1>0, <3>1 DEF GenerateNothing, StorePackage, ResendDone, HandlerState
    <3>2. CASE ReceivingStep
      BY <1>0, <2>1, <3>2, HandlerMoves
      DEF ReceivingStep, ReceiveNothing, ReceiveAck, ReceiveUnmatchedAck
    <3>3. CASE \/ ResendSkip \/ ResendPushFails \/ ResendWait
               \/ ResendConnectionExhausted \/ ResendNegative \/ ResendDiscard
      <4>1. nh.step = "resend"
        BY <3>3 DEF ResendSkip, ResendPushFails, ResendWait, ResendConnectionExhausted,
           ResendNegative, ResendDiscard, ResendDue, AtStoredPackage
      <4>2. nh' \in {NextSlot(nh), NextPrio(nh), [nh EXCEPT !.index = @ + 1]}
        BY <3>3 DEF ResendSkip, ResendPushFails, ResendWait, ResendConnectionExhausted,
           ResendNegative, ResendDiscard
      <4>3. [nh EXCEPT !.index = @ + 1].step = nh.step
        BY <1>0 DEF HandlerState
      <4> QED
        BY <1>0, <4>1, <4>2, <4>3, HandlerMoves
    <3> QED
      BY <1>8, <3>1, <3>2, <3>3
  <2>3. UNCHANGED <<queuePackagesToSend, live, ph, sentPackNumTracker>>
    BY <1>8 DEF GenerateNothing, StorePackage, ReceivingStep, ReceiveNothing, ReceiveAck,
       ReceiveUnmatchedAck, ResendDone, ResendSkip, ResendPushFails, ResendWait,
       ResendConnectionExhausted, ResendNegative, ResendDiscard, nhVars
  <2> QED
    BY <1>5, <2>2, <2>3 DEF NetworkHandlerOwns
<1> QED
  BY <1>1, <1>2, <1>3, <1>4, <1>6, <1>7, <1>8
  DEF NetworkHandler, SendingStep, ResendingStep, DiscardingStep

LEMMA PackageHandlerOwn ==
    ASSUME TypeOK, OwnInv, PackageHandler
    PROVE  OwnInv'
<1>0. /\ queuePackagesToSend \in [Uart -> Seq(QueuedPackage)]
      /\ OwnersDiffer /\ OwnedIsLive /\ LiveIsGenerated
  BY DEF TypeOK, OwnInv
<1>1. ASSUME NEW conn \in Uart, PopReadyToSend(conn) PROVE OwnInv'
  <2>1. /\ ph = NoPackage
        /\ queuePackagesToSend[conn] # <<>>
        /\ queuePackagesToSend' = Shortened(queuePackagesToSend, conn)
        /\ ph' = [conn |-> conn, pack |-> Head(queuePackagesToSend[conn])]
        /\ UNCHANGED <<live, nh, pack, sentPackNumTracker>>
    BY <1>1 DEF PopReadyToSend, nhVars, Shortened
  <2>2. /\ HeldOnce(queuePackagesToSend')
        /\ \A b : QueueHolds(queuePackagesToSend', b) =>
              /\ QueueHolds(queuePackagesToSend, b)
              /\ ~(/\ ~Head(queuePackagesToSend[conn]).copy
                   /\ BufferOf(Head(queuePackagesToSend[conn])) = b)
        /\ ~Head(queuePackagesToSend[conn]).copy =>
              QueueHolds(queuePackagesToSend, BufferOf(Head(queuePackagesToSend[conn])))
    BY <1>0, <2>1, HeldOncePopped DEF OwnersDiffer
  <2>3. \A b : PackageHandlerOwns(b)' =>
                  /\ ~Head(queuePackagesToSend[conn]).copy
                  /\ BufferOf(Head(queuePackagesToSend[conn])) = b
    BY <2>1 DEF PackageHandlerOwns
  <2>4. \A b : NetworkHandlerOwns(b)' <=> NetworkHandlerOwns(b)
    BY <2>1 DEF NetworkHandlerOwns
  <2>5. OwnersDiffer' /\ OwnedIsLive'
    BY <1>0, <2>1, <2>2, <2>3, <2>4 DEF OwnersDiffer, OwnedIsLive, Owned
  <2> QED
    BY <1>0, <2>1, <2>5 DEF OwnInv, LiveIsGenerated
<1>2. CASE SendAndFree
  <2>1. /\ ph # NoPackage /\ ph' = NoPackage
        /\ live' = FreePopped(ph.pack)
        /\ UNCHANGED <<queuePackagesToSend, nh, pack, sentPackNumTracker>>
    BY <1>2 DEF SendAndFree, nhVars
  <2>2. /\ live' \in SUBSET live
        /\ \A b \in live : ~PackageHandlerOwns(b) => b \in live'
    BY <2>1 DEF FreePopped, PackageHandlerOwns
  <2>3. \A b : ~PackageHandlerOwns(b)' /\ (NetworkHandlerOwns(b)' <=> NetworkHandlerOwns(b))
    BY <2>1 DEF NetworkHandlerOwns, PackageHandlerOwns
  <2>4. OwnersDiffer' /\ OwnedIsLive'
    BY <1>0, <2>1, <2>2, <2>3 DEF OwnersDiffer, OwnedIsLive, Owned
  <2> QED
    BY <1>0, <2>1, <2>2, <2>4 DEF OwnInv, LiveIsGenerated
<1> QED
  BY <1>1, <1>2 DEF PackageHandler

LEMMA StepOwn ==
    ASSUME TypeOK, OwnInv, ArrayHasSpace, [Next]_vars
    PROVE  OwnInv'
<1>1. CASE /\ UNCHANGED <<queuePackagesToSend, live, ph, sentPackNumTracker>>
           /\ \A b : NetworkHandlerOwns(b)' <=> NetworkHandlerOwns(b)
  <2>1. \A b : PackageHandlerOwns(b)' <=> PackageHandlerOwns(b)
    BY <1>1 DEF PackageHandlerOwns
  <2>2. OwnersDiffer' /\ OwnedIsLive'
    BY <1>1, <2>1 DEF OwnInv, OwnersDiffer, OwnedIsLive, Owned
  <2> QED
    BY <1>1, <2>2 DEF OwnInv, LiveIsGenerated
<1>2. CASE Tick
  <2>1. /\ UNCHANGED <<queuePackagesToSend, live, nh, ph, sentPackNumTracker>>
        /\ nh.step = "push" => BufferOf(pack') = BufferOf(pack)
    BY <1>2, AgedPackage DEF Tick, TypeOK, BufferOf
  <2> QED
    BY <1>1, <2>1 DEF NetworkHandlerOwns
<1>3. CASE (\E conn \in Uart : PeerReceives(conn)) \/ UNCHANGED vars
  <2>1. UNCHANGED <<queuePackagesToSend, live, nh, ph, pack, sentPackNumTracker>>
    BY <1>3 DEF PeerReceives, nhVars, vars
  <2> QED
    BY <1>1, <2>1 DEF NetworkHandlerOwns
<1> QED
  BY <1>2, <1>3, NetworkHandlerOwn, PackageHandlerOwn DEF Next

LEMMA InitOwn == Init => OwnInv
<1> SUFFICES ASSUME Init PROVE OwnInv
  OBVIOUS
<1>1. \A conn \in Uart : queuePackagesToSend[conn] = <<>> /\ Len(queuePackagesToSend[conn]) = 0
  BY DEF Init
<1>2. HeldOnce(queuePackagesToSend) /\ \A b : ~QueueHolds(queuePackagesToSend, b)
  BY <1>1 DEF HeldOnce, Holds, QueueHolds
<1>3. \A b : ~PackageHandlerOwns(b) /\ ~NetworkHandlerOwns(b)
  BY DEF Init, PackageHandlerOwns, NetworkHandlerOwns
<1> QED
  BY <1>2, <1>3 DEF Init, OwnInv, OwnersDiffer, OwnedIsLive, LiveIsGenerated, Owned

LEMMA OneOwner ==
    ASSUME TypeOK, NoLeakInv, OwnInv
    PROVE  PayloadOwnedOnce
<1> SUFFICES ASSUME NEW b \in Buffer
             PROVE  NumberOfOwners(b) = IF b \in live THEN 1 ELSE 0
  BY DEF PayloadOwnedOnce
<1>1. ASSUME NEW place \in QueueOwners(b)
      PROVE  \E conn \in Uart, k \in Nat : place = <<conn, k>> /\ Holds(queuePackagesToSend, conn, k, b)
  <2>1. PICK conn \in Uart, k \in 1 .. QueueLen : place = <<conn, k>>
    BY DEF QueueOwners
  <2>2. /\ k <= Len(queuePackagesToSend[conn])
        /\ ~queuePackagesToSend[conn][k].copy
        /\ BufferOf(queuePackagesToSend[conn][k]) = b
    BY <2>1 DEF QueueOwners
  <2>3. k \in Nat /\ k \in 1 .. Len(queuePackagesToSend[conn])
    BY <2>2, LenProperties, SenderAssumption DEF TypeOK
  <2> QED
    BY <2>1, <2>2, <2>3 DEF Holds
<1>2. \A p, q \in QueueOwners(b) : p = q
  BY <1>1 DEF OwnInv, OwnersDiffer, HeldOnce
<1>3. ASSUME QueueHolds(queuePackagesToSend, b) PROVE QueueOwners(b) # {}
  <2>0. PICK conn \in Uart : \E k \in Nat : Holds(queuePackagesToSend, conn, k, b)
    BY <1>3, HoldsIsHeld
  <2>1. PICK k \in Nat : Holds(queuePackagesToSend, conn, k, b)
    BY <2>0
  <2>2. Len(queuePackagesToSend[conn]) \in Nat /\ QueueLen \in Nat
    BY LenProperties, SenderAssumption DEF TypeOK
  <2>3. k \in 1 .. QueueLen /\ k <= Len(queuePackagesToSend[conn])
    BY <2>1, <2>2 DEF Holds, NoLeakInv, QueuesBounded
  <2>4. <<conn, k>> \in QueueOwners(b)
    BY <2>1, <2>3 DEF QueueOwners, Holds
  <2> QED
    BY <2>4
<1>4. ASSUME QueueOwners(b) # {} PROVE QueueHolds(queuePackagesToSend, b)
  BY <1>1, <1>4, HoldsIsHeld
<1>5. Cardinality(QueueOwners(b)) = IF QueueHolds(queuePackagesToSend, b) THEN 1 ELSE 0
  <2>1. CASE QueueHolds(queuePackagesToSend, b)
    <3>1. PICK p \in QueueOwners(b) : TRUE
      BY <1>3, <2>1
    <3>2. QueueOwners(b) = {p}
      BY <1>2, <3>1
    <3> QED
      BY <2>1, <3>2, FS_Singleton
  <2>2. CASE ~QueueHolds(queuePackagesToSend, b)
    BY <1>4, <2>2, FS_EmptySet
  <2> QED
    BY <2>1, <2>2
<1>6. b \in live <=> Owned(b)
  BY DEF OwnInv, OwnedIsLive, NoLeakInv, LiveOwned, Owned
<1>7. /\ QueueHolds(queuePackagesToSend, b) => ~PackageHandlerOwns(b) /\ ~NetworkHandlerOwns(b)
      /\ ~(PackageHandlerOwns(b) /\ NetworkHandlerOwns(b))
  BY DEF OwnInv, OwnersDiffer
<1> QED
  BY <1>5, <1>6, <1>7 DEF NumberOfOwners, Owned

\* As long as the unacknowledged array has a free slot for what has been pushed, a payload
\* is freed exactly once, whatever the configuration: only the retry of a push after a failed
\* store (sendAndStoreGeneratedWlPackage) makes two parties own it.
THEOREM OwnedOnceWithSpace == Spec /\ []ArrayHasSpace => []PayloadOwnedOnce
<1>1. Init => NoLeakInv /\ OwnInv
  BY InitNoLeak, InitOwn
<1>2. TypeOK /\ NoLeakInv /\ OwnInv /\ ArrayHasSpace /\ [Next]_vars => NoLeakInv' /\ OwnInv'
  BY StepNoLeak, StepOwn
<1>3. TypeOK /\ NoLeakInv /\ OwnInv => PayloadOwnedOnce
  BY OneOwner
<1> QED
  BY <1>1, <1>2, <1>3, TypeCorrect, PTL DEF Spec

=============================================================================
