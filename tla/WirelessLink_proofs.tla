------------------------- MODULE WirelessLink_proofs -------------------------
(***************************************************************************)
(* Theorems about NetworkReceiver, for every configuration, every queue    *)
(* size and every sequence of frames the radio may deliver, and then about *)
(* WirelessLink: what an acknowledge means, and what may become of a       *)
(* package, for every configuration without a reordering device, every     *)
(* size of the queues, whatever the radio loses, and for any number of     *)
(* restarts unless a device wants newer packages only.                     *)
(***************************************************************************)
EXTENDS WirelessLink, NetworkSender_proofs

-----------------------------------------------------------------------------
(* The receiver alone: its inductive invariant *)

\* Nothing is ever stored for reordering: a reordering device takes every package for an
\* old one (NetworkHandler.c:276), and no other device stores any.
NothingStored(s) == s.stored = [i \in ReorderSlots |-> NoFrame]

Reorders(dev) == PackNumberingProcessingMode[dev] = PACKAGE_REORDERING

OnlyNew(dev) == PackNumberingProcessingMode[dev] = ONLY_SEND_OUT_NEW_PACKAGES

\* What was pushed out grows strictly and is no newer than last.
Increasing(s) ==
    /\ \A m \in 1 .. Len(s.out) : s.out[m].sysTime <= s.last
    /\ \A m, n \in 1 .. Len(s.out) : m < n => s.out[m].sysTime < s.out[n].sysTime

DeviceInv(dev, s) ==
    /\ s \in RxState
    /\ NothingStored(s)
    /\ Reorders(dev) => s.last = 0 /\ s.out = <<>>
    /\ OnlyNew(dev) => Increasing(s)

RxInv ==
    /\ RxTypeOK
    /\ \A dev \in Uart : DeviceInv(dev, rx[dev])

-----------------------------------------------------------------------------
(* The receiver alone: the steps of one device *)

\* Handing a package to the device.
LEMMA PushOutState ==
    ASSUME NEW s \in RxState, NEW frame \in Frame
    PROVE  /\ PushOut(s, frame) \in RxState
           /\ PushOut(s, frame).stored = s.stored
           /\ PushOut(s, frame).last = frame.sysTime
           /\ PushOut(s, frame).out = Append(s.out, frame)
<1>1. Append(s.out, frame) \in Seq(Frame)
  BY AppendProperties DEF RxState
<1>2. frame.sysTime \in 0 .. MaxPack
  BY DEF Frame
<1> QED
  BY <1>1, <1>2 DEF PushOut, RxState

\* Handing out a package newer than all before it keeps the order.
LEMMA NewerStaysIncreasing ==
    ASSUME NEW s \in RxState, NEW frame \in Frame, Increasing(s), Newer(s, frame)
    PROVE  Increasing(PushOut(s, frame))
<1> DEFINE after == PushOut(s, frame)
<1>1. after.last = frame.sysTime /\ after.out = Append(s.out, frame)
  BY PushOutState
<1>2. /\ s.out \in Seq(Frame) /\ s.last \in Nat /\ frame.sysTime \in Nat
      /\ s.last < frame.sysTime
  BY ConfigAssumption DEF RxState, Frame, Newer
<1>3. /\ Len(after.out) = Len(s.out) + 1
      /\ Len(s.out) \in Nat
      /\ after.out[Len(s.out) + 1] = frame
      /\ \A m \in 1 .. Len(s.out) : after.out[m] = s.out[m]
  BY <1>1, <1>2, AppendProperties, LenProperties
<1> HIDE DEF after
<1>4. \A m \in 1 .. Len(s.out) : s.out[m].sysTime \in Nat /\ s.out[m].sysTime < frame.sysTime
  <2>1. \A m \in 1 .. Len(s.out) : s.out[m] \in Frame
    BY <1>2, ElementOfSeq
  <2>2. \A m \in 1 .. Len(s.out) : s.out[m].sysTime \in Nat /\ s.out[m].sysTime <= s.last
    BY <2>1, ConfigAssumption DEF Frame, Increasing
  <2> QED
    BY <1>2, <2>2
<1>5. ASSUME NEW m \in 1 .. Len(after.out)
      PROVE  after.out[m].sysTime <= after.last
  <2>1. m \in 1 .. Len(s.out) \/ m = Len(s.out) + 1
    BY <1>3
  <2> QED
    BY <1>1, <1>2, <1>3, <1>4, <2>1
<1>6. ASSUME NEW m \in 1 .. Len(after.out), NEW n \in 1 .. Len(after.out), m < n
      PROVE  after.out[m].sysTime < after.out[n].sysTime
  <2>1. m \in 1 .. Len(s.out) /\ (n \in 1 .. Len(s.out) \/ n = Len(s.out) + 1)
    BY <1>3, <1>6
  <2> QED
    BY <1>3, <1>4, <1>6, <2>1 DEF Increasing
<1> QED
  BY <1>5, <1>6 DEF Increasing, after

\* Whatever package arrives, the state of its device stays right.
LEMMA ProcessFrameState ==
    ASSUME NEW s, NEW frame \in Frame, DeviceInv(frame.dev, s)
    PROVE  DeviceInv(frame.dev, ProcessFrame(s, frame))
<1>0. s \in RxState /\ frame.dev \in Uart
  BY DEF DeviceInv, Frame
<1>1. CASE Reorders(frame.dev)
  <2>1. s.last <= frame.sysTime
    BY <1>1, ConfigAssumption DEF DeviceInv, Frame
  <2>2. ProcessFrame(s, frame) = ReorderPackage(s, frame)
    BY <1>1 DEF ProcessFrame, Reorders, PACKAGE_REORDERING, ONLY_SEND_OUT_NEW_PACKAGES
  <2>3. ReorderPackage(s, frame) = s
    BY <2>1 DEF ReorderPackage
  <2> QED
    BY <2>2, <2>3
<1>2. CASE OnlyNew(frame.dev)
  <2>1. ProcessFrame(s, frame) = IF Newer(s, frame) THEN PushOut(s, frame) ELSE s
    BY <1>2 DEF ProcessFrame, OnlyNew, PACKAGE_REORDERING, ONLY_SEND_OUT_NEW_PACKAGES
  <2>2. ~Reorders(frame.dev)
    BY <1>2 DEF OnlyNew, Reorders, PACKAGE_REORDERING, ONLY_SEND_OUT_NEW_PACKAGES
  <2>3. CASE Newer(s, frame)
    <3>1. Increasing(PushOut(s, frame))
      BY <1>0, <1>2, <2>3, NewerStaysIncreasing DEF DeviceInv
    <3> QED
      BY <1>0, <2>1, <2>2, <2>3, <3>1, PushOutState DEF DeviceInv, NothingStored
  <2>4. CASE ~Newer(s, frame)
    BY <2>1, <2>4
  <2> QED
    BY <2>3, <2>4
<1>3. CASE ~Reorders(frame.dev) /\ ~OnlyNew(frame.dev)
  <2>1. ProcessFrame(s, frame) = PushOut(s, frame)
    BY <1>3 DEF ProcessFrame, Reorders, OnlyNew
  <2> QED
    BY <1>0, <1>3, <2>1, PushOutState DEF DeviceInv, NothingStored
<1> QED
  BY <1>1, <1>2, <1>3

\* With nothing stored there is no timeout to serve.
LEMMA NoTimeouts ==
    ASSUME NEW state, state = [d \in Uart |-> state[d]], NEW dev \in Uart,
           NothingStored(state[dev]), CheckTimeouts(state, dev)
    PROVE  rx' = state
<1>1. Stored(state[dev]) = {}
  BY DEF Stored, NothingStored
<1>2. Cardinality(Stored(state[dev])) = 0
  BY <1>1, FS_EmptySet
<1>3. 1 .. Cardinality(Stored(state[dev])) = {}
  BY <1>2
<1>4. AfterTimeouts(dev, state[dev]) = {state[dev]}
  BY <1>3 DEF AfterTimeouts
<1>5. rx' = [state EXCEPT ![dev] = state[dev]]
  BY <1>4 DEF CheckTimeouts
<1> QED
  BY <1>5

-----------------------------------------------------------------------------
(* The invariant holds initially and in every step *)

LEMMA RxInitInv == RxInit => RxInv
<1> SUFFICES ASSUME RxInit PROVE RxInv
  OBVIOUS
<1>1. receivedPackages \in [Uart -> Seq(Frame)]
  BY DEF RxInit
<1>2. rx \in [Uart -> RxState]
  BY ConfigAssumption DEF RxInit, RxState
<1>3. ASSUME NEW dev \in Uart PROVE DeviceInv(dev, rx[dev])
  <2>1. /\ rx[dev].last = 0
        /\ rx[dev].out = <<>>
        /\ rx[dev] \in RxState
        /\ NothingStored(rx[dev])
    BY ConfigAssumption DEF RxInit, RxState, NothingStored
  <2>2. Increasing(rx[dev])
    BY <2>1 DEF Increasing
  <2> QED
    BY <2>1, <2>2 DEF DeviceInv
<1> QED
  BY <1>1, <1>2, <1>3 DEF RxInv, RxTypeOK

\* A package the radio delivers is a frame, and so is what is left in the queue.
LEMMA ReceivedQueue ==
    ASSUME NEW queue \in Seq(Frame)
    PROVE  /\ queue # <<>> => Head(queue) \in Frame /\ Tail(queue) \in Seq(Frame)
           /\ \A frame \in Frame : Append(queue, frame) \in Seq(Frame)
  BY HeadTailProperties, AppendProperties

LEMMA RxStepInv == RxInv /\ [RxNext]_rxVars => RxInv'
<1> SUFFICES ASSUME RxInv, [RxNext]_rxVars PROVE RxInv'
  OBVIOUS
<1>0. /\ receivedPackages \in [Uart -> Seq(Frame)]
      /\ rx \in [Uart -> RxState]
      /\ rx = [d \in Uart |-> rx[d]]
      /\ \A dev \in Uart : DeviceInv(dev, rx[dev])
  BY DEF RxInv, RxTypeOK
<1>1. ASSUME NEW conn \in Uart, ProcessReceivedPackage(conn) PROVE RxInv'
  <2> DEFINE frame == Head(receivedPackages[conn])
             state == [rx EXCEPT ![frame.dev] = ProcessFrame(@, frame)]
  <2>1. /\ frame \in Frame
        /\ Tail(receivedPackages[conn]) \in Seq(Frame)
    BY <1>0, <1>1, ReceivedQueue DEF ProcessReceivedPackage
  <2>2. receivedPackages' \in [Uart -> Seq(Frame)]
    BY <1>0, <1>1, <2>1 DEF ProcessReceivedPackage
  <2>3. frame.dev \in Uart
    BY <2>1 DEF Frame
  <2>4. DeviceInv(frame.dev, ProcessFrame(rx[frame.dev], frame))
    BY <1>0, <2>1, <2>3, ProcessFrameState
  <2>5. CheckTimeouts(state, conn)
    BY <1>1 DEF ProcessReceivedPackage
  <2> HIDE DEF frame
  <2>6. /\ state \in [Uart -> RxState]
        /\ state = [d \in Uart |-> state[d]]
        /\ \A dev \in Uart : DeviceInv(dev, state[dev])
    BY <1>0, <2>3, <2>4 DEF DeviceInv
  <2> HIDE DEF state
  <2>7. rx' = state
    BY <2>5, <2>6, NoTimeouts DEF DeviceInv
  <2> QED
    BY <2>2, <2>6, <2>7 DEF RxInv, RxTypeOK
<1>2. ASSUME NEW conn \in Uart, ProcessNoPackage(conn) PROVE RxInv'
  <2>1. rx' = rx
    BY <1>0, <1>2, NoTimeouts DEF ProcessNoPackage, DeviceInv
  <2> QED
    BY <1>0, <1>2, <2>1 DEF ProcessNoPackage, RxInv, RxTypeOK
<1>3. ASSUME NEW conn \in Uart, NEW frame \in Frame, PushToReceivedPackages(conn, frame)
      PROVE  RxInv'
  <2>1. Append(receivedPackages[conn], frame) \in Seq(Frame)
    BY <1>0, ReceivedQueue
  <2> QED
    BY <1>0, <1>3, <2>1 DEF PushToReceivedPackages, RxInv, RxTypeOK
<1>4. CASE UNCHANGED rxVars
  BY <1>0, <1>4 DEF rxVars, RxInv, RxTypeOK
<1> QED
  BY <1>1, <1>2, <1>3, <1>4 DEF RxNext

LEMMA RxAlways == RxSpec => []RxInv
  BY RxInitInv, RxStepInv, PTL DEF RxSpec

-----------------------------------------------------------------------------
(* The theorems about the receiver alone *)

\* Every frame, counter and slot of the receiver stays in its range.
THEOREM RxTypeCorrect == RxSpec => []RxTypeOK
<1>1. RxInv => RxTypeOK
  BY DEF RxInv
<1> QED
  BY <1>1, RxAlways, PTL

\* A device in mode ONLY_SEND_OUT_NEW_PACKAGES gets its packages in strictly increasing
\* order, over any number of connections and whatever the radio loses, repeats or reorders.
THEOREM OnlyNewInOrder == RxSpec => []OnlyNewIncreases
<1>1. RxInv => OnlyNewIncreases
  BY DEF RxInv, DeviceInv, OnlyNewIncreases, OnlyNew, Increasing
<1> QED
  BY <1>1, RxAlways, PTL

\* A device in mode PACKAGE_REORDERING never gets a single byte: the comparison of
\* NetworkHandler.c:276 takes every package for an old one.
ReorderingIsMute ==
    \A dev \in Uart : Reorders(dev) => rx[dev].out = <<>> /\ NothingStored(rx[dev])

THEOREM NothingReordered == RxSpec => []ReorderingIsMute
<1>1. RxInv => ReorderingIsMute
  BY DEF RxInv, DeviceInv, ReorderingIsMute
<1> QED
  BY <1>1, RxAlways, PTL

-----------------------------------------------------------------------------
(* The link: its inductive invariant *)

\* A reordering device throws away what it acknowledges (NetworkHandler.c:276), so nothing
\* can be said of it.
NoReordering == \A dev \in Uart : ~Reorders(dev)

\* The number a newer package is compared with is that of a package handed out.
LastHandedOut(s) == s.last = 0 \/ \E k \in 1 .. Len(s.out) : s.out[k].sysTime = s.last

\* Where only newer packages are wanted, the first packages of a new session are thrown away
\* and acknowledged: across a restart nothing can be said of such a device either.
OneSessionIfOnlyNew == \A dev \in Uart : OnlyNew(dev) => MaxRestarts = 0

Reached(dev, n) == Kept(dev, n) \/ Outdated(dev, n)

KeptAcks == {ack \in Ack : Reached(ack.dev, ack.sysTime)}

\* What a device got before the session it still has, and before the first session it got
\* nothing.
SessionInv ==
    /\ session.number \in 0 .. MaxRestarts
    /\ \A dev \in Uart : /\ session.before[dev] \in Nat
                         /\ session.before[dev] <= Len(rx[dev].out)
                         /\ session.number = 0 => session.before[dev] = 0

LinkInv ==
    /\ TypeOK
    /\ RxInv
    /\ SessionInv
    /\ \A dev \in Uart : LastHandedOut(rx[dev])
    /\ acks \in [Uart -> Seq(KeptAcks)]

-----------------------------------------------------------------------------
(* What a processed frame does to its device *)

\* What was handed out stays handed out.
Extends(s, t) ==
    /\ t.stored = s.stored
    /\ Len(s.out) <= Len(t.out)
    /\ \A k \in 1 .. Len(s.out) : k \in 1 .. Len(t.out) /\ t.out[k] = s.out[k]

LEMMA FrameIsKept ==
    ASSUME NEW frame \in Frame, NEW s \in RxState, ~Reorders(frame.dev), LastHandedOut(s)
    PROVE  /\ Extends(s, ProcessFrame(s, frame))
           /\ LastHandedOut(ProcessFrame(s, frame))
           /\ \E k \in 1 .. Len(ProcessFrame(s, frame).out) :
                 \/ /\ k = Len(s.out) + 1
                    /\ ProcessFrame(s, frame).out[k].sysTime = frame.sysTime
                 \/ /\ OnlyNew(frame.dev)
                    /\ \/ ProcessFrame(s, frame).out[k].sysTime = frame.sysTime
                       \/ ProcessFrame(s, frame).out[k].sysTime > frame.sysTime
<1>1. /\ s.out \in Seq(Frame) /\ Len(s.out) \in Nat /\ s.last \in Nat
      /\ frame.sysTime \in Nat /\ frame.sysTime > 0
  BY ConfigAssumption, LenProperties DEF RxState, Frame
<1>2. CASE ProcessFrame(s, frame) = PushOut(s, frame)
  <2> DEFINE t == PushOut(s, frame)
  <2>1. t.stored = s.stored /\ t.last = frame.sysTime /\ t.out = Append(s.out, frame)
    BY PushOutState
  <2>2. /\ Len(t.out) = Len(s.out) + 1
        /\ t.out[Len(s.out) + 1] = frame
        /\ \A k \in 1 .. Len(s.out) : t.out[k] = s.out[k]
    BY <1>1, <2>1, AppendProperties
  <2> HIDE DEF t
  <2>3. /\ Len(s.out) + 1 \in 1 .. Len(t.out)
        /\ \A k \in 1 .. Len(s.out) : k \in 1 .. Len(t.out)
    BY <1>1, <2>2
  <2>4. Extends(s, t) /\ LastHandedOut(t)
    BY <1>1, <2>1, <2>2, <2>3 DEF Extends, LastHandedOut
  <2>5. \E k \in 1 .. Len(t.out) : k = Len(s.out) + 1 /\ t.out[k].sysTime = frame.sysTime
    BY <2>2, <2>3
  <2>6. ProcessFrame(s, frame) = t
    BY <1>2 DEF t
  <2> QED
    BY <2>4, <2>5, <2>6
<1>3. CASE OnlyNew(frame.dev) /\ ~Newer(s, frame)
  <2>1. ProcessFrame(s, frame) = s
    BY <1>3 DEF ProcessFrame, OnlyNew, PACKAGE_REORDERING, ONLY_SEND_OUT_NEW_PACKAGES
  <2>2. s.last >= frame.sysTime /\ s.last # 0
    BY <1>1, <1>3 DEF Newer
  <2>3. PICK k \in 1 .. Len(s.out) : s.out[k].sysTime = s.last
    BY <2>2 DEF LastHandedOut
  <2>4. s.out[k].sysTime = frame.sysTime \/ s.out[k].sysTime > frame.sysTime
    BY <1>1, <2>2, <2>3
  <2> QED
    BY <1>1, <1>3, <2>1, <2>4 DEF Extends
<1>4. OnlyNew(frame.dev) /\ Newer(s, frame) => ProcessFrame(s, frame) = PushOut(s, frame)
  BY DEF ProcessFrame, OnlyNew, PACKAGE_REORDERING, ONLY_SEND_OUT_NEW_PACKAGES
<1>5. ~OnlyNew(frame.dev) => ProcessFrame(s, frame) = PushOut(s, frame)
  BY DEF ProcessFrame, OnlyNew, Reorders
<1> QED
  BY <1>2, <1>3, <1>4, <1>5

\* With nothing stored, processing the next package changes its device and nothing else.
LEMMA ProcessedFrame ==
    ASSUME RxInv, NEW conn \in Uart, ProcessReceivedPackage(conn)
    PROVE  /\ Head(receivedPackages[conn]) \in Frame
           /\ rx' = [rx EXCEPT ![Head(receivedPackages[conn]).dev] =
                        ProcessFrame(rx[Head(receivedPackages[conn]).dev],
                                     Head(receivedPackages[conn]))]
<1> DEFINE frame == Head(receivedPackages[conn])
           state == [rx EXCEPT ![frame.dev] = ProcessFrame(@, frame)]
<1>0. /\ receivedPackages \in [Uart -> Seq(Frame)]
      /\ rx \in [Uart -> RxState]
      /\ \A dev \in Uart : DeviceInv(dev, rx[dev])
  BY DEF RxInv, RxTypeOK
<1>1. frame \in Frame
  BY <1>0, ReceivedQueue DEF ProcessReceivedPackage
<1>2. frame.dev \in Uart
  BY <1>1 DEF Frame
<1>3. DeviceInv(frame.dev, ProcessFrame(rx[frame.dev], frame))
  BY <1>0, <1>1, <1>2, ProcessFrameState
<1>4. CheckTimeouts(state, conn)
  BY DEF ProcessReceivedPackage
<1>5. state = [rx EXCEPT ![frame.dev] = ProcessFrame(rx[frame.dev], frame)]
  OBVIOUS
<1> HIDE DEF frame
<1>6. state = [d \in Uart |-> state[d]] /\ NothingStored(state[conn])
  BY <1>0, <1>2, <1>3 DEF DeviceInv
<1> HIDE DEF state
<1>7. rx' = state
  BY <1>4, <1>6, NoTimeouts
<1> QED
  BY <1>1, <1>5, <1>7 DEF frame

-----------------------------------------------------------------------------
(* Types *)

LEMMA RestartTypeOK == TypeOK /\ SenderRestarts => TypeOK'
<1> SUFFICES ASSUME TypeOK, SenderRestarts PROVE TypeOK'
  OBVIOUS
<1>1. 0 \in Uart /\ MaxPack \in Nat
  BY ConfigAssumption DEF Uart
<1>2. queuePackagesToSend' \in [Uart -> Seq(QueuedPackage)]
  <2>1. <<>> \in Seq(QueuedPackage)
    BY EmptySeq
  <2> QED
    BY <2>1 DEF SenderRestarts
<1>3. nh' \in HandlerState /\ nh'.step = "generate"
  BY <1>1 DEF SenderRestarts, HandlerState
<1> QED
  BY <1>1, <1>2, <1>3 DEF SenderRestarts, TypeOK

LEMMA TransferTypeOK ==
    ASSUME TypeOK, NEW conn \in Uart, Transfer(conn)
    PROVE  TypeOK' /\ Head(air[conn]) \in Frame
<1>1. Head(air[conn]) \in Frame /\ air' \in [Uart -> Seq(Frame)]
  BY QueueUpdates DEF Transfer, TypeOK
<1> QED
  BY <1>1 DEF Transfer, TypeOK, nhVars

LEMMA ProcessTypeOK ==
    ASSUME TypeOK, RxInv, NEW conn \in Uart, Process(conn)
    PROVE  TypeOK'
<1>1. AckOf(Head(receivedPackages[conn])) \in Ack
  BY ProcessedFrame DEF Process, AckOf, Frame, Ack
<1>2. acks \in [Uart -> Seq(Ack)]
  BY DEF TypeOK
<1>3. [acks EXCEPT ![conn] = Append(@, AckOf(Head(receivedPackages[conn])))]
         \in [Uart -> Seq(Ack)]
  BY <1>1, <1>2, QueueUpdates
<1>4. acks' \in [Uart -> Seq(Ack)]
  BY <1>2, <1>3 DEF Process
<1> QED
  BY <1>4 DEF Process, TypeOK, nhVars

\* The steps of the sending switch are those of NetworkSender, the peer's aside.
LEMMA SenderStep ==
    ASSUME Sender \/ SenderGivesUp
    PROVE  Next /\ UNCHANGED <<rxVars, session>>
  BY DEF Sender, SenderGivesUp, Next, NetworkHandler, DiscardingStep

LEMMA LinkStepTypeOK == TypeOK /\ RxInv /\ [LinkNext]_linkVars => TypeOK'
<1> SUFFICES ASSUME TypeOK, RxInv, [LinkNext]_linkVars PROVE TypeOK'
  OBVIOUS
<1>1. CASE Sender \/ SenderGivesUp \/ UNCHANGED linkVars
  BY <1>1, SenderStep, StepTypeOK DEF linkVars
<1>2. ASSUME NEW conn \in Uart, Idle(conn) PROVE TypeOK'
  BY <1>2, StepTypeOK DEF Idle
<1> QED
  BY <1>1, <1>2, RestartTypeOK, TransferTypeOK, ProcessTypeOK DEF LinkNext

\* The receiving switch sees the steps of NetworkReceiver.
LEMMA LinkStepRxInv == TypeOK /\ RxInv /\ [LinkNext]_linkVars => RxInv'
<1> SUFFICES ASSUME TypeOK, RxInv, [LinkNext]_linkVars PROVE RxInv'
  OBVIOUS
<1>1. CASE UNCHANGED rxVars
  BY <1>1, RxStepInv
<1>2. CASE Sender \/ SenderGivesUp \/ SenderRestarts \/ UNCHANGED linkVars
  BY <1>1, <1>2, SenderStep DEF SenderRestarts, linkVars
<1>3. ASSUME NEW conn \in Uart, Transfer(conn) PROVE RxInv'
  BY <1>1, <1>3, TransferTypeOK, RxStepInv DEF Transfer, RxNext
<1>4. ASSUME NEW conn \in Uart, Process(conn) \/ Idle(conn) PROVE RxInv'
  BY <1>4, RxStepInv DEF Process, Idle, RxNext
<1> QED
  BY <1>2, <1>3, <1>4 DEF LinkNext

-----------------------------------------------------------------------------
(* What the switches promise alone they keep when they are linked *)

LEMMA LinkStepCount == TypeOK /\ CountInv /\ [LinkNext]_linkVars => CountInv'
<1> SUFFICES ASSUME TypeOK, CountInv, [LinkNext]_linkVars PROVE CountInv'
  OBVIOUS
<1>1. CASE Sender \/ SenderGivesUp \/ UNCHANGED linkVars
  BY <1>1, SenderStep, StepCount DEF linkVars
<1>2. CASE SenderRestarts
  <2>1. Occupied' = {} /\ numberOfUnacknowledgedPackages' = 0
    BY <1>2 DEF SenderRestarts, Occupied
  <2> QED
    BY <2>1, FS_EmptySet DEF CountInv
<1>3. ASSUME NEW conn \in Uart, Transfer(conn) \/ Process(conn) \/ Idle(conn) PROVE CountInv'
  BY <1>3 DEF Transfer, Process, Idle, CountInv, Occupied, nhVars, vars
<1> QED
  BY <1>1, <1>2, <1>3 DEF LinkNext

\* Also between real switches, one of which may restart, the scans of the unacknowledged array
\* see every stored package (NetworkHandler.c, numberOfUnacknowledgedPackages).
THEOREM LinkedCounterIsExact == LinkSpec => []ScansSeeEverything
<1>1. LinkInit => TypeOK /\ RxInv /\ CountInv
  BY InitTypeOK, RxInitInv, InitCount DEF LinkInit
<1>2. TypeOK /\ RxInv /\ CountInv /\ [LinkNext]_linkVars => (TypeOK /\ RxInv /\ CountInv)'
  BY LinkStepTypeOK, LinkStepRxInv, LinkStepCount
<1>3. CountInv => ScansSeeEverything
  BY CountedAreScanned
<1> QED
  BY <1>1, <1>2, <1>3, PTL DEF LinkSpec

\* A device in mode ONLY_SEND_OUT_NEW_PACKAGES never gets an old package from a peer that sends
\* over several connections, resends, gives up or starts its numbers again
\* (processReceivedPackage).
THEOREM LinkedOnlyNewInOrder == LinkSpec => []OnlyNewIncreases
<1>1. LinkInit => TypeOK /\ RxInv
  BY InitTypeOK, RxInitInv DEF LinkInit
<1>2. TypeOK /\ RxInv /\ [LinkNext]_linkVars => (TypeOK /\ RxInv)'
  BY LinkStepTypeOK, LinkStepRxInv
<1>3. RxInv => OnlyNewIncreases
  BY DEF RxInv, DeviceInv, OnlyNewIncreases, OnlyNew, Increasing
<1> QED
  BY <1>1, <1>2, <1>3, PTL DEF LinkSpec

-----------------------------------------------------------------------------
(* What the receiving switch has, it keeps *)

\* Every step leaves what was handed out; a processed package is handed out or outdated.
RxGrows ==
    /\ \A dev \in Uart : Extends(rx[dev], rx'[dev]) /\ LastHandedOut(rx'[dev])
    /\ UNCHANGED session => \A dev \in Uart, n \in Nat : Reached(dev, n) => Reached(dev, n)'

LEMMA OutLength ==
    ASSUME RxInv, NEW dev \in Uart
    PROVE  Len(rx[dev].out) \in Nat
<1>1. rx[dev].out \in Seq(Frame)
  BY DEF RxInv, RxTypeOK, RxState
<1> QED
  BY <1>1, LenProperties

LEMMA ExtendedReaches ==
    ASSUME RxInv, SessionInv, UNCHANGED session,
           \A dev \in Uart : Extends(rx[dev], rx'[dev]),
           NEW dev \in Uart, NEW n, Reached(dev, n)
    PROVE  Reached(dev, n)'
<1>1. /\ rx'[dev].stored = rx[dev].stored
      /\ \A k \in 1 .. Len(rx[dev].out) :
            k \in 1 .. Len(rx'[dev].out) /\ rx'[dev].out[k] = rx[dev].out[k]
  BY DEF Extends
<1>2. HandedOut(dev) \subseteq HandedOut(dev)'
  <2>1. ASSUME NEW k \in session.before[dev] + 1 .. Len(rx[dev].out)
        PROVE  /\ k \in session'.before[dev] + 1 .. Len(rx'[dev].out)
               /\ rx'[dev].out[k] = rx[dev].out[k]
    <3>1. k \in 1 .. Len(rx[dev].out)
      BY OutLength DEF SessionInv
    <3>2. k \in 1 .. Len(rx'[dev].out) /\ rx'[dev].out[k] = rx[dev].out[k]
      BY <1>1, <3>1
    <3> QED
      BY <3>2 DEF SessionInv
  <2> QED
    BY <2>1 DEF HandedOut
<1>3. Stored(rx'[dev]) = Stored(rx[dev])
  BY <1>1 DEF Stored
<1>4. CASE Kept(dev, n)
  <2>1. Kept(dev, n)'
    BY <1>1, <1>2, <1>3, <1>4 DEF Kept
  <2> QED
    BY <2>1 DEF Reached
<1>5. CASE Outdated(dev, n)
  <2>1. Outdated(dev, n)'
    BY <1>2, <1>5 DEF Outdated
  <2> QED
    BY <2>1 DEF Reached
<1> QED
  BY <1>4, <1>5 DEF Reached

LEMMA RxUnchangedGrows ==
    ASSUME RxInv, SessionInv, \A dev \in Uart : LastHandedOut(rx[dev]), rx' = rx
    PROVE  RxGrows
<1>1. \A dev \in Uart : Extends(rx[dev], rx'[dev]) /\ LastHandedOut(rx'[dev])
  BY OutLength DEF Extends
<1> QED
  BY <1>1, ExtendedReaches DEF RxGrows

LEMMA ProcessGrows ==
    ASSUME NoReordering, OneSessionIfOnlyNew, RxInv, SessionInv, UNCHANGED session,
           \A dev \in Uart : LastHandedOut(rx[dev]),
           NEW conn \in Uart, ProcessReceivedPackage(conn)
    PROVE  RxGrows /\ AckOf(Head(receivedPackages[conn])) \in KeptAcks'
<1>1. PICK frame \in Frame :
         /\ frame = Head(receivedPackages[conn])
         /\ rx' = [rx EXCEPT ![frame.dev] = ProcessFrame(rx[frame.dev], frame)]
  BY ProcessedFrame
<1>2. frame.dev \in Uart /\ rx \in [Uart -> RxState]
  BY <1>1 DEF Frame, RxInv, RxTypeOK
<1>3. /\ rx'[frame.dev] = ProcessFrame(rx[frame.dev], frame)
      /\ \A dev \in Uart : dev # frame.dev => rx'[dev] = rx[dev]
  BY <1>1, <1>2
<1>4. /\ Extends(rx[frame.dev], rx'[frame.dev])
      /\ LastHandedOut(rx'[frame.dev])
      /\ \E k \in 1 .. Len(rx'[frame.dev].out) :
            \/ /\ k = Len(rx[frame.dev].out) + 1
               /\ rx'[frame.dev].out[k].sysTime = frame.sysTime
            \/ /\ OnlyNew(frame.dev)
               /\ \/ rx'[frame.dev].out[k].sysTime = frame.sysTime
                  \/ rx'[frame.dev].out[k].sysTime > frame.sysTime
  BY <1>1, <1>2, <1>3, FrameIsKept DEF NoReordering
<1>5. \A dev \in Uart : Extends(rx[dev], rx'[dev]) /\ LastHandedOut(rx'[dev])
  BY <1>3, <1>4, OutLength DEF Extends
<1>6. Reached(frame.dev, frame.sysTime)'
  <2>1. PICK k \in 1 .. Len(rx'[frame.dev].out) :
           \/ /\ k = Len(rx[frame.dev].out) + 1
              /\ rx'[frame.dev].out[k].sysTime = frame.sysTime
           \/ /\ OnlyNew(frame.dev)
              /\ \/ rx'[frame.dev].out[k].sysTime = frame.sysTime
                 \/ rx'[frame.dev].out[k].sysTime > frame.sysTime
    BY <1>4
  <2>2. OnlyNew(frame.dev) => session.before[frame.dev] = 0
    BY <1>2 DEF OneSessionIfOnlyNew, SessionInv
  <2>3. k \in session'.before[frame.dev] + 1 .. Len(rx'[frame.dev].out)
    BY <1>2, <2>1, <2>2, OutLength DEF SessionInv
  <2>4. rx'[frame.dev].out[k].sysTime \in HandedOut(frame.dev)'
    BY <2>3 DEF HandedOut
  <2> QED
    BY <2>1, <2>4 DEF Reached, Kept, Outdated, OnlyNew
<1>7. AckOf(frame) \in KeptAcks'
  BY <1>1, <1>6 DEF AckOf, KeptAcks, Frame, Ack
<1> QED
  BY <1>1, <1>5, <1>7, ExtendedReaches DEF RxGrows

LEMMA LinkStepGrows ==
    ASSUME NoReordering, OneSessionIfOnlyNew, LinkInv, [LinkNext]_linkVars
    PROVE  RxGrows
<1>0. /\ RxInv /\ SessionInv /\ \A dev \in Uart : LastHandedOut(rx[dev])
      /\ rx = [d \in Uart |-> rx[d]]
  BY DEF LinkInv, RxInv, RxTypeOK
<1>1. ASSUME NEW conn \in Uart, Process(conn) PROVE RxGrows
  BY <1>0, <1>1, ProcessGrows DEF Process
<1>2. ASSUME NEW conn \in Uart, Idle(conn) PROVE rx' = rx
  BY <1>0, <1>2, NoTimeouts DEF Idle, ProcessNoPackage, RxInv, DeviceInv
<1>3. CASE Sender \/ SenderGivesUp \/ SenderRestarts \/ UNCHANGED linkVars
  BY <1>3, <1>0, SenderStep, RxUnchangedGrows DEF SenderRestarts, linkVars, rxVars
<1>4. ASSUME NEW conn \in Uart, Transfer(conn) PROVE rx' = rx
  BY <1>4 DEF Transfer, PushToReceivedPackages, rxVars
<1> QED
  BY <1>0, <1>1, <1>2, <1>3, <1>4, RxUnchangedGrows DEF LinkNext

-----------------------------------------------------------------------------
(* Sessions *)

\* Only a restart of the sending switch begins a session.
LEMMA SameSession ==
    ASSUME [LinkNext]_linkVars, ~SenderRestarts
    PROVE  UNCHANGED session
  BY DEF LinkNext, Sender, SenderGivesUp, Transfer, Process, Idle, linkVars

LEMMA LinkStepSession ==
    ASSUME NoReordering, OneSessionIfOnlyNew, LinkInv, [LinkNext]_linkVars
    PROVE  SessionInv'
<1>1. RxGrows /\ RxInv /\ SessionInv
  BY LinkStepGrows DEF LinkInv
<1>2. CASE SenderRestarts
  <2>1. /\ session'.number = session.number + 1
        /\ session.number < MaxRestarts
        /\ \A dev \in Uart : session'.before[dev] = Len(rx'[dev].out)
        /\ rx' = rx
    BY <1>2 DEF SenderRestarts, rxVars
  <2>2. session.number \in 0 .. MaxRestarts /\ MaxRestarts \in Nat
    BY <1>1, RestartAssumption DEF SessionInv
  <2>3. session'.number \in 0 .. MaxRestarts /\ session'.number # 0
    BY <2>1, <2>2
  <2>4. \A dev \in Uart : Len(rx'[dev].out) \in Nat
    BY <1>1, <2>1, OutLength
  <2> QED
    BY <2>1, <2>3, <2>4 DEF SessionInv
<1>3. CASE ~SenderRestarts
  <2>1. session' = session
    BY <1>3, SameSession
  <2>2. ASSUME NEW dev \in Uart PROVE session.before[dev] <= Len(rx'[dev].out)
    <3>1. Len(rx[dev].out) \in Nat /\ Len(rx[dev].out) <= Len(rx'[dev].out)
      BY <1>1, OutLength DEF RxGrows, Extends
    <3>2. RxInv'
      BY LinkStepRxInv DEF LinkInv
    <3>3. Len(rx'[dev].out) \in Nat
      BY <3>2, LenProperties DEF RxInv, RxTypeOK, RxState
    <3> QED
      BY <1>1, <3>1, <3>3 DEF SessionInv
  <2> QED
    BY <1>1, <2>1, <2>2 DEF SessionInv
<1> QED
  BY <1>2, <1>3

-----------------------------------------------------------------------------
(* Acknowledges *)

\* Acknowledges are taken by the network handler only.
LEMMA SenderTakesAcks ==
    ASSUME Sender \/ SenderGivesUp
    PROVE  \/ UNCHANGED acks
           \/ /\ nh.dev \in Uart => acks[nh.dev] # <<>>
              /\ acks' = [acks EXCEPT ![nh.dev] = Tail(@)]
<1>1. CASE ReceiveAck \/ ReceiveUnmatchedAck
  BY <1>1 DEF ReceiveAck, ReceiveUnmatchedAck
<1>2. CASE \/ SendingStep \/ ReceiveNothing \/ ResendingStep \/ DropGeneratedPackage
           \/ ResendDiscard
  BY <1>2 DEF SendingStep, GenerateNothing, GenerateDataPackage, PushFails, PushWithoutAck,
     PushExpectingAck, StorePackage, StoreFails, ReceiveNothing, ResendingStep, ResendDone,
     ResendSkip, ResendPackage, ResendPushFails, ResendWait, ResendConnectionExhausted,
     ResendNegative, DropGeneratedPackage, ResendDiscard
<1>3. CASE PackageHandler \/ Tick
  BY <1>3 DEF PackageHandler, SendAndFree, PopReadyToSend, Tick
<1> QED
  BY <1>1, <1>2, <1>3 DEF Sender, SenderGivesUp, ReceivingStep

\* A restart finds no acknowledge on its way: those of one session end with it.
LEMMA RestartAcks ==
    ASSUME LinkInv, SenderRestarts
    PROVE  acks' \in [Uart -> Seq(KeptAcks')]
<1>1. acks = [conn \in Uart |-> acks[conn]] /\ acks' = acks
  BY DEF LinkInv, SenderRestarts
<1>2. \A conn \in Uart : acks[conn] = <<>>
  BY DEF SenderRestarts
<1>3. <<>> \in Seq(KeptAcks')
  BY EmptySeq
<1> QED
  BY <1>1, <1>2, <1>3

LEMMA LinkStepAcks ==
    ASSUME NoReordering, OneSessionIfOnlyNew, LinkInv, [LinkNext]_linkVars, ~SenderRestarts
    PROVE  acks' \in [Uart -> Seq(KeptAcks')]
<1>0. /\ TypeOK /\ RxInv /\ SessionInv /\ nh.dev \in Uart
      /\ \A dev \in Uart : LastHandedOut(rx[dev])
      /\ UNCHANGED session
  BY SameSession DEF LinkInv, TypeOK, HandlerState
<1>1. acks \in [Uart -> Seq(KeptAcks')]
  <2>1. KeptAcks \subseteq KeptAcks'
    BY <1>0, LinkStepGrows, ConfigAssumption DEF RxGrows, KeptAcks, Ack
  <2>2. ASSUME NEW conn \in Uart PROVE acks[conn] \in Seq(KeptAcks')
    BY <2>1, SeqMonotonic DEF LinkInv
  <2> QED
    BY <2>2 DEF LinkInv
<1> HIDE DEF KeptAcks
<1>2. CASE Sender \/ SenderGivesUp
  <2>1. \/ UNCHANGED acks
        \/ acks[nh.dev] # <<>> /\ acks' = [acks EXCEPT ![nh.dev] = Tail(@)]
    BY <1>0, <1>2, SenderTakesAcks
  <2>2. acks[nh.dev] # <<>> => [acks EXCEPT ![nh.dev] = Tail(@)] \in [Uart -> Seq(KeptAcks')]
    BY <1>0, <1>1, QueueUpdates
  <2> QED
    BY <1>1, <2>1, <2>2
<1>3. ASSUME NEW conn \in Uart, Process(conn) PROVE acks' \in [Uart -> Seq(KeptAcks')]
  <2>1. AckOf(Head(receivedPackages[conn])) \in KeptAcks'
    BY <1>0, <1>3, ProcessGrows DEF Process
  <2>2. [acks EXCEPT ![conn] = Append(@, AckOf(Head(receivedPackages[conn])))]
           \in [Uart -> Seq(KeptAcks')]
    BY <1>1, <2>1, QueueUpdates
  <2>3. \/ acks' = [acks EXCEPT ![conn] = Append(@, AckOf(Head(receivedPackages[conn])))]
        \/ acks' = acks
    BY <1>3 DEF Process
  <2> QED
    BY <1>1, <2>2, <2>3
<1>4. CASE UNCHANGED acks
  BY <1>1, <1>4
<1>5. CASE \/ \E conn \in Uart : Transfer(conn) \/ Idle(conn)
           \/ UNCHANGED linkVars
  BY <1>4, <1>5 DEF Transfer, Idle, vars, linkVars
<1> QED
  BY <1>2, <1>3, <1>5 DEF LinkNext

LEMMA LinkInitInv == LinkInit => LinkInv
<1> SUFFICES ASSUME LinkInit PROVE LinkInv
  OBVIOUS
<1>1. TypeOK /\ RxInv
  BY InitTypeOK, RxInitInv DEF LinkInit
<1>2. \A dev \in Uart : LastHandedOut(rx[dev])
  BY DEF LinkInit, RxInit, LastHandedOut
<1>3. acks \in [Uart -> Seq(KeptAcks)]
  <2>1. <<>> \in Seq(KeptAcks)
    BY EmptySeq
  <2> QED
    BY <2>1 DEF LinkInit, Init
<1>4. SessionInv
  <2>1. \A dev \in Uart : Len(rx[dev].out) \in Nat
    BY <1>1, OutLength
  <2> QED
    BY <2>1, RestartAssumption DEF LinkInit, SessionInv
<1> QED
  BY <1>1, <1>2, <1>3, <1>4 DEF LinkInv

LEMMA LinkStepInv ==
    ASSUME NoReordering, OneSessionIfOnlyNew
    PROVE  LinkInv /\ [LinkNext]_linkVars => LinkInv'
<1> SUFFICES ASSUME LinkInv, [LinkNext]_linkVars PROVE LinkInv'
  OBVIOUS
<1>1. TypeOK' /\ RxInv'
  BY LinkStepTypeOK, LinkStepRxInv DEF LinkInv
<1>2. \A dev \in Uart : LastHandedOut(rx'[dev])
  BY LinkStepGrows DEF RxGrows
<1>3. acks' \in [Uart -> Seq(KeptAcks')]
  BY LinkStepAcks, RestartAcks
<1>4. SessionInv'
  BY LinkStepSession
<1> QED
  BY <1>1, <1>2, <1>3, <1>4 DEF LinkInv

\* An acknowledge on its way means that the remote device got that package of the present
\* session of the sending switch, or a newer one of it where only newer ones are wanted,
\* whatever is lost, full or late.  Reordering devices and restarts of the sender of an
\* ONLY_SEND_OUT_NEW_PACKAGES device, for which the statement is refuted, are excluded.
THEOREM AcknowledgedIsKept ==
    ASSUME NoReordering, OneSessionIfOnlyNew
    PROVE  LinkSpec => []AckMeansKept
<1>1. LinkInv => AckMeansKept
  <2>1. SUFFICES ASSUME LinkInv, NEW conn \in Uart, NEW k \in 1 .. Len(acks[conn])
                 PROVE  \/ Kept(acks[conn][k].dev, acks[conn][k].sysTime)
                        \/ Outdated(acks[conn][k].dev, acks[conn][k].sysTime)
    BY DEF AckMeansKept
  <2>2. acks[conn][k] \in KeptAcks
    BY <2>1, ElementOfSeq DEF LinkInv
  <2> QED
    BY <2>2 DEF KeptAcks, Reached
<1>2. LinkInit => LinkInv
  BY LinkInitInv
<1>3. LinkInv /\ [LinkNext]_linkVars => LinkInv'
  BY LinkStepInv
<1> QED
  BY <1>1, <1>2, <1>3, PTL DEF LinkSpec

-----------------------------------------------------------------------------
(* Nothing vanishes *)

\* Every connection that is used uses acknowledges: a package pushed to one that does not
\* is forgotten at once (PushWithoutAck).
AcknowledgesUsed ==
    \A dev, conn \in Uart : PrioWirelessConnDev[dev][conn] # 0 => SendAckPerWirelessConn[conn]

\* The sending switch still has package b.
SenderHas(b) ==
    \/ pack # NoPackage /\ BufferOf(pack) = b
    \/ \E i \in Occupied : BufferOf(unacknowledgedPackages[i]) = b

\* Between two packages the network handler holds none.
HoldsOneAtATime == nh.step \notin {"push", "store"} => pack = NoPackage

VanishInv == nh.prio > 0 /\ HoldsOneAtATime /\ NothingVanishes

LEMMA AccountedFor ==
    \A dev, n : Accounted(dev, n) <=>
        LET b == [dev |-> dev, sysTime |-> n]
        IN  b \in givenUp \/ Reached(dev, n) \/ SenderHas(b)
  BY DEF Accounted, Reached, SenderHas

LEMMA StaysAccounted ==
    ASSUME RxGrows, UNCHANGED session, NEW dev \in Uart, NEW n \in Nat, Accounted(dev, n),
           givenUp \subseteq givenUp',
           SenderHas([dev |-> dev, sysTime |-> n]) =>
              \/ SenderHas([dev |-> dev, sysTime |-> n])'
              \/ [dev |-> dev, sysTime |-> n] \in givenUp'
              \/ Reached(dev, n)
    PROVE  Accounted(dev, n)'
<1> DEFINE b == [dev |-> dev, sysTime |-> n]
<1>1. b \in givenUp \/ Reached(dev, n) \/ SenderHas(b)
  BY AccountedFor
<1>2. b \in givenUp' \/ Reached(dev, n)' \/ SenderHas(b)'
  BY <1>1 DEF RxGrows
<1> QED
  BY <1>2 DEF Accounted, Reached, SenderHas

\* A connection a package is pushed to acknowledges.
LEMMA PushIsAcknowledged ==
    ASSUME AcknowledgesUsed, TypeOK, nh.prio > 0, PushPossible
    PROVE  SendAckPerWirelessConn[PushConn]
<1>1. nh.dev \in Uart /\ nh.prio \in Nat
  BY DEF TypeOK, HandlerState
<1>2. PushConn \in Uart /\ PrioWirelessConnDev[nh.dev][PushConn] = nh.prio
  BY <1>1, ConnectionHasPriority DEF PushPossible, PushConn
<1> QED
  BY <1>1, <1>2 DEF AcknowledgesUsed

LEMMA SendingKeeps ==
    ASSUME AcknowledgesUsed, TypeOK, nh.prio > 0, HoldsOneAtATime, SendingStep, NEW b,
           SenderHas(b)
    PROVE  SenderHas(b)'
<1>1. CASE GenerateNothing \/ PushFails \/ StoreFails
  BY <1>1 DEF GenerateNothing, PushFails, StoreFails, nhVars, SenderHas, Occupied
<1>2. CASE GenerateDataPackage
  <2>1. pack = NoPackage /\ UNCHANGED unacknowledgedPackages
    BY <1>2 DEF GenerateDataPackage, HoldsOneAtATime
  <2> QED
    BY <2>1 DEF SenderHas, Occupied
<1>3. CASE PushWithoutAck
  BY <1>3, PushIsAcknowledged DEF PushWithoutAck
<1>4. CASE PushExpectingAck
  <2>1. pack \in Package /\ PushConn \in Uart /\ UNCHANGED unacknowledgedPackages
    BY <1>4 DEF PushExpectingAck, PushPossible, TypeOK
  <2>2. pack' \in Package /\ BufferOf(pack') = BufferOf(pack)
    BY <1>4, <2>1, AttemptMade DEF PushExpectingAck, BufferOf, Package
  <2> QED
    BY <2>1, <2>2, SenderAssumption DEF SenderHas, Occupied, BufferOf
<1>5. CASE StorePackage
  <2>1. PICK i \in Slots, read \in ReadPayload(pack) :
           /\ unacknowledgedPackages[i] = NoPackage
           /\ unacknowledgedPackages' =
                 [unacknowledgedPackages EXCEPT ![i] = [pack EXCEPT !.intact = read]]
    BY <1>5 DEF StorePackage
  <2>2. pack \in Package
    BY <1>5 DEF StorePackage, TypeOK
  <2>3. [pack EXCEPT !.intact = read] \in Package
    BY <2>1, <2>2 DEF ReadPayload, Package
  <2>4. /\ unacknowledgedPackages'[i] \in Package
        /\ BufferOf(unacknowledgedPackages'[i]) = BufferOf(pack)
        /\ \A j \in Slots : j # i => unacknowledgedPackages'[j] = unacknowledgedPackages[j]
    BY <2>1, <2>2, <2>3 DEF TypeOK, BufferOf, Package
  <2>5. i \in Occupied' /\ \A j \in Occupied : j \in Occupied' /\ j # i
    BY <2>1, <2>4, SenderAssumption DEF Occupied
  <2> QED
    BY <2>1, <2>4, <2>5 DEF SenderHas, Occupied, BufferOf
<1> QED
  BY <1>1, <1>2, <1>3, <1>4, <1>5 DEF SendingStep

\* Freeing slot i forgets the package in it and no other.
LEMMA FreedSlot ==
    ASSUME TypeOK, NEW i \in Occupied, UNCHANGED pack,
           unacknowledgedPackages' = [unacknowledgedPackages EXCEPT ![i] = NoPackage],
           NEW b, SenderHas(b)
    PROVE  SenderHas(b)' \/ BufferOf(unacknowledgedPackages[i]) = b
<1>1. \A j \in Occupied : j # i =>
         j \in Occupied' /\ unacknowledgedPackages'[j] = unacknowledgedPackages[j]
  BY DEF Occupied, TypeOK
<1> QED
  BY <1>1 DEF SenderHas, BufferOf

\* An acknowledge that frees a stored package is one for a package that reached its device.
LEMMA ReceivingKeeps ==
    ASSUME LinkInv, ReceivingStep, NEW dev \in Uart, NEW n \in Nat,
           SenderHas([dev |-> dev, sysTime |-> n])
    PROVE  SenderHas([dev |-> dev, sysTime |-> n])' \/ Reached(dev, n)
<1> DEFINE b == [dev |-> dev, sysTime |-> n]
<1>0. TypeOK /\ nh.dev \in Uart
  BY DEF LinkInv, TypeOK, HandlerState
<1>1. CASE ReceiveNothing \/ ReceiveUnmatchedAck
  BY <1>1 DEF ReceiveNothing, ReceiveUnmatchedAck, nhVars, SenderHas, Occupied
<1>2. CASE ReceiveAck
  <2>1. PICK i \in Scanned :
           /\ AckMatches(unacknowledgedPackages[i], Head(acks[nh.dev]))
           /\ unacknowledgedPackages' = [unacknowledgedPackages EXCEPT ![i] = NoPackage]
    BY <1>2 DEF ReceiveAck
  <2>2. i \in Occupied /\ UNCHANGED pack
    BY <1>2 DEF Scanned, ReceiveAck
  <2>3. SenderHas(b)' \/ BufferOf(unacknowledgedPackages[i]) = b
    BY <1>0, <2>1, <2>2, FreedSlot
  <2>4. Head(acks[nh.dev]) \in KeptAcks
    <3>1. acks \in [Uart -> Seq(KeptAcks)] /\ acks[nh.dev] # <<>>
      BY <1>2 DEF LinkInv, ReceiveAck
    <3> QED
      BY <1>0, <3>1, QueueUpdates
  <2>5. BufferOf(unacknowledgedPackages[i]) = b =>
           Head(acks[nh.dev]).dev = dev /\ Head(acks[nh.dev]).sysTime = n
    BY <2>1 DEF AckMatches, BufferOf
  <2> QED
    BY <2>3, <2>4, <2>5 DEF KeptAcks
<1> QED
  BY <1>1, <1>2 DEF ReceivingStep

LEMMA ResendingKeeps ==
    ASSUME TypeOK, ResendingStep, NEW b, SenderHas(b)
    PROVE  SenderHas(b)'
<1>1. CASE ResendPackage
  <2>1. AtStoredPackage /\ VisitedConn \in Uart
    BY <1>1 DEF ResendPackage, ResendDue, MustDiscard
  <2>2. nh.index \in Slots /\ Visited \in Package
    BY <2>1, VisitedPackage
  <2> DEFINE after == [Visited EXCEPT !.left[VisitedConn] = @ - 1, !.last[VisitedConn] = 0]
  <2>3. after \in Package /\ BufferOf(after) = BufferOf(Visited)
    BY <2>1, <2>2, AttemptMade DEF BufferOf, Package
  <2>4. unacknowledgedPackages' = [unacknowledgedPackages EXCEPT ![nh.index] = after]
        /\ UNCHANGED pack
    BY <1>1 DEF ResendPackage
  <2> HIDE DEF after
  <2>5. \A j \in Slots : j # nh.index =>
           unacknowledgedPackages'[j] = unacknowledgedPackages[j]
    BY <2>4 DEF TypeOK
  <2>6. unacknowledgedPackages'[nh.index] = after
    BY <2>2, <2>4 DEF TypeOK
  <2>7. ASSUME NEW j \in Occupied
        PROVE  /\ j \in Occupied'
               /\ BufferOf(unacknowledgedPackages'[j]) = BufferOf(unacknowledgedPackages[j])
    <3>1. CASE j = nh.index
      BY <2>2, <2>3, <2>6, <3>1, SenderAssumption DEF Occupied, Visited
    <3>2. CASE j # nh.index
      BY <2>5, <3>2 DEF Occupied
    <3> QED
      BY <3>1, <3>2
  <2> QED
    BY <2>4, <2>7 DEF SenderHas, BufferOf
<1>2. CASE \/ ResendDone \/ ResendSkip \/ ResendPushFails \/ ResendWait
           \/ ResendConnectionExhausted \/ ResendNegative
  BY <1>2 DEF ResendDone, ResendSkip, ResendPushFails, ResendWait, ResendConnectionExhausted,
     ResendNegative, nhVars, SenderHas, Occupied
<1> QED
  BY <1>1, <1>2 DEF ResendingStep

LEMMA TickKeeps ==
    ASSUME TypeOK, Tick, NEW b, SenderHas(b)
    PROVE  SenderHas(b)'
<1>1. \A i \in Occupied : /\ i \in Occupied'
                          /\ BufferOf(unacknowledgedPackages'[i]) =
                                BufferOf(unacknowledgedPackages[i])
  BY AgedPackage, SenderAssumption DEF Tick, TypeOK, Occupied, BufferOf
<1>2. pack # NoPackage => pack' # NoPackage /\ BufferOf(pack') = BufferOf(pack)
  BY AgedPackage, SenderAssumption DEF Tick, TypeOK, BufferOf
<1> QED
  BY <1>1, <1>2 DEF SenderHas, BufferOf

LEMMA GivingUpKeeps ==
    ASSUME TypeOK, SenderGivesUp, NEW b, SenderHas(b)
    PROVE  SenderHas(b)' \/ b \in givenUp'
<1>1. CASE DropGeneratedPackage /\ givenUp' = givenUp \cup {BufferOf(pack)}
  BY <1>1 DEF DropGeneratedPackage, SenderHas, Occupied
<1>2. CASE ResendDiscard /\ givenUp' = givenUp \cup {BufferOf(Visited)}
  <2>1. /\ nh.index \in Occupied
        /\ UNCHANGED pack
        /\ unacknowledgedPackages' = [unacknowledgedPackages EXCEPT ![nh.index] = NoPackage]
    BY <1>2, VisitedPackage DEF ResendDiscard, AtStoredPackage, Occupied
  <2>2. SenderHas(b)' \/ BufferOf(unacknowledgedPackages[nh.index]) = b
    BY <2>1, FreedSlot
  <2> QED
    BY <1>2, <2>2 DEF Visited
<1> QED
  BY <1>1, <1>2 DEF SenderGivesUp

\* Whatever step the switches take, a package leaves the sending one only when it reached its
\* device or is given up.
LEMMA LinkStepKeeps ==
    ASSUME AcknowledgesUsed, LinkInv, nh.prio > 0, HoldsOneAtATime, LinkNext, ~SenderRestarts,
           NEW dev \in Uart, NEW n \in Nat, SenderHas([dev |-> dev, sysTime |-> n])
    PROVE  \/ SenderHas([dev |-> dev, sysTime |-> n])'
           \/ [dev |-> dev, sysTime |-> n] \in givenUp'
           \/ Reached(dev, n)
<1> DEFINE b == [dev |-> dev, sysTime |-> n]
<1>0. TypeOK
  BY DEF LinkInv
<1>1. CASE UNCHANGED <<unacknowledgedPackages, pack>>
  BY <1>1 DEF SenderHas, Occupied
<1>2. CASE PackageHandler \/ \E conn \in Uart : Transfer(conn) \/ Process(conn) \/ Idle(conn)
  BY <1>1, <1>2 DEF PackageHandler, SendAndFree, PopReadyToSend, Transfer, Process, Idle, vars,
     nhVars
<1>3. CASE SendingStep \/ ReceivingStep \/ ResendingStep \/ Tick \/ SenderGivesUp
  BY <1>0, <1>3, SendingKeeps, ReceivingKeeps, ResendingKeeps, TickKeeps, GivingUpKeeps
<1> QED
  BY <1>2, <1>3 DEF LinkNext, Sender

LEMMA PrioStaysPositive ==
    ASSUME TypeOK, nh.prio > 0, [LinkNext]_linkVars
    PROVE  nh'.prio > 0
<1>1. CASE Sender \/ SenderGivesUp
  BY <1>1, SenderStep, PrioPositive
<1>2. CASE SenderRestarts
  BY <1>2 DEF SenderRestarts
<1>3. CASE nh' = nh
  BY <1>3
<1> QED
  BY <1>1, <1>2, <1>3 DEF LinkNext, Transfer, Process, Idle, linkVars, vars

LEMMA StaysOneAtATime ==
    ASSUME TypeOK, HoldsOneAtATime, [LinkNext]_linkVars
    PROVE  HoldsOneAtATime'
<1>0. nh \in HandlerState
  BY DEF TypeOK
<1>1. CASE SendingStep \/ DropGeneratedPackage
  BY <1>0, <1>1 DEF HoldsOneAtATime, SendingStep, GenerateNothing, GenerateDataPackage,
     PushFails, PushWithoutAck, PushExpectingAck, StorePackage, StoreFails,
     DropGeneratedPackage, nhVars, HandlerState
<1>2. CASE ReceivingStep
  BY <1>2 DEF HoldsOneAtATime, ReceivingStep, ReceiveNothing, ReceiveAck, ReceiveUnmatchedAck,
     nhVars
<1>3. CASE ResendingStep \/ ResendDiscard
  BY <1>3 DEF HoldsOneAtATime, ResendingStep, ResendDiscard, ResendDone, ResendSkip,
     ResendPackage, ResendPushFails, ResendWait, ResendConnectionExhausted, ResendNegative,
     ResendDue, AtStoredPackage, nhVars
<1>4. CASE Tick
  BY <1>4, AgedEmpty DEF HoldsOneAtATime, Tick
<1>5. CASE SenderRestarts
  BY <1>5 DEF HoldsOneAtATime, SenderRestarts
<1>6. CASE UNCHANGED <<nh, pack>>
  BY <1>6 DEF HoldsOneAtATime
<1> QED
  BY <1>1, <1>2, <1>3, <1>4, <1>5, <1>6
  DEF LinkNext, Sender, SenderGivesUp, PackageHandler, SendAndFree, PopReadyToSend, Transfer,
      Process, Idle, linkVars, vars, nhVars

\* The numbers a step adds: that of a package just generated, which the handler holds.
LEMMA NumbersAdded ==
    ASSUME TypeOK, LinkNext, ~SenderRestarts, NEW dev \in Uart,
           NEW n \in 1 .. sentPackNumTracker'[dev]
    PROVE  /\ givenUp \subseteq givenUp'
           /\ \/ n \in 1 .. sentPackNumTracker[dev]
              \/ SenderHas([dev |-> dev, sysTime |-> n])'
<1>0. /\ sentPackNumTracker \in [Uart -> 0 .. MaxPack] /\ MaxPack \in Nat
      /\ nh.dev \in Uart
  BY ConfigAssumption DEF TypeOK, HandlerState
<1>1. givenUp \subseteq givenUp'
  BY DEF LinkNext, Sender, SenderGivesUp, Transfer, Process, Idle
<1>2. CASE GenerateDataPackage
  <2>1. /\ sentPackNumTracker' =
              [sentPackNumTracker EXCEPT ![nh.dev] = sentPackNumTracker[nh.dev] + 1]
        /\ pack' = GeneratedPackage(nh.dev, sentPackNumTracker[nh.dev] + 1)
    BY <1>2 DEF GenerateDataPackage
  <2>2. BufferOf(pack)' = [dev |-> nh.dev, sysTime |-> sentPackNumTracker[nh.dev] + 1]
    BY <2>1 DEF BufferOf, GeneratedPackage
  <2>3. pack' # NoPackage
    <3>1. TypeOK' /\ nh'.step = "push"
      BY <1>2, SendingTypeOK DEF SendingStep, GenerateDataPackage, TypeOK, HandlerState
    <3> QED
      BY <3>1, SenderAssumption DEF TypeOK
  <2>4. n \in 1 .. sentPackNumTracker[dev] \/ (dev = nh.dev /\ n = sentPackNumTracker[dev] + 1)
    BY <1>0, <2>1
  <2> QED
    BY <1>1, <2>2, <2>3, <2>4 DEF SenderHas
<1>3. CASE UNCHANGED sentPackNumTracker
  BY <1>1, <1>3
<1>4. CASE \/ GenerateNothing \/ PushFails \/ PushWithoutAck \/ PushExpectingAck \/ StorePackage
           \/ StoreFails \/ ReceivingStep \/ DropGeneratedPackage \/ ResendDiscard
  BY <1>3, <1>4 DEF GenerateNothing, PushFails, PushWithoutAck, PushExpectingAck, StorePackage,
     StoreFails, ReceivingStep, ReceiveNothing, ReceiveAck, ReceiveUnmatchedAck,
     DropGeneratedPackage, ResendDiscard, nhVars
<1>5. CASE ResendingStep
  BY <1>3, <1>5 DEF ResendingStep, ResendDone, ResendSkip, ResendPackage, ResendPushFails,
     ResendWait, ResendConnectionExhausted, ResendNegative, nhVars
<1>6. CASE \/ PackageHandler \/ Tick
           \/ \E conn \in Uart : Transfer(conn) \/ Process(conn) \/ Idle(conn)
  BY <1>3, <1>6 DEF PackageHandler, SendAndFree, PopReadyToSend, Tick, Transfer, Process, Idle,
     vars, nhVars
<1> QED
  BY <1>2, <1>4, <1>5, <1>6 DEF LinkNext, Sender, SenderGivesUp, SendingStep

LEMMA StepNothingVanishes ==
    ASSUME AcknowledgesUsed, NoReordering, OneSessionIfOnlyNew, LinkInv, VanishInv,
           [LinkNext]_linkVars
    PROVE  NothingVanishes'
<1>0. /\ TypeOK /\ nh.prio > 0 /\ HoldsOneAtATime /\ NothingVanishes
      /\ sentPackNumTracker \in [Uart -> 0 .. MaxPack] /\ MaxPack \in Nat
  BY ConfigAssumption DEF LinkInv, TypeOK, VanishInv
<1>1. CASE SenderRestarts
  <2>1. \A dev \in Uart : sentPackNumTracker'[dev] = 0
    BY <1>1 DEF SenderRestarts
  <2> QED
    BY <2>1 DEF NothingVanishes
<1>2. CASE LinkNext /\ ~SenderRestarts
  <2>1. SUFFICES ASSUME NEW dev \in Uart, NEW n \in 1 .. sentPackNumTracker'[dev]
                 PROVE  Accounted(dev, n)'
    BY DEF NothingVanishes
  <2> DEFINE b == [dev |-> dev, sysTime |-> n]
  <2>2. n \in Nat
    <3>1. sentPackNumTracker'[dev] \in Nat
      BY <1>0, LinkStepTypeOK DEF LinkInv, TypeOK
    <3> QED
      BY <2>1, <3>1
  <2>3. /\ givenUp \subseteq givenUp'
        /\ n \in 1 .. sentPackNumTracker[dev] \/ SenderHas(b)'
    BY <1>0, <1>2, <2>1, NumbersAdded
  <2>4. CASE SenderHas(b)'
    BY <2>4 DEF SenderHas, Accounted
  <2>5. CASE n \in 1 .. sentPackNumTracker[dev]
    <3>1. Accounted(dev, n)
      BY <1>0, <2>5 DEF NothingVanishes
    <3>2. SenderHas(b) => SenderHas(b)' \/ b \in givenUp' \/ Reached(dev, n)
      BY <1>0, <1>2, <2>2, LinkStepKeeps
    <3>3. RxGrows /\ UNCHANGED session
      BY <1>2, LinkStepGrows, SameSession
    <3> QED
      BY <2>2, <2>3, <3>1, <3>2, <3>3, StaysAccounted
  <2> QED
    BY <2>3, <2>4, <2>5
<1>3. CASE UNCHANGED linkVars
  <2>1. ASSUME NEW dev \in Uart, NEW n \in 1 .. sentPackNumTracker[dev]
        PROVE  Accounted(dev, n)'
    <3>1. Accounted(dev, n)
      BY <1>0 DEF NothingVanishes
    <3>2. UNCHANGED <<givenUp, session, rx, pack, unacknowledgedPackages>>
      BY <1>3 DEF linkVars, vars, rxVars
    <3> QED
      BY <3>1, <3>2 DEF Accounted, Kept, Outdated, HandedOut, Stored, Occupied, BufferOf
  <2>2. UNCHANGED sentPackNumTracker
    BY <1>3 DEF linkVars, vars
  <2> QED
    BY <2>1, <2>2 DEF NothingVanishes
<1> QED
  BY <1>1, <1>2, <1>3

\* Where acknowledges are used, every package a device handed in is on its way out of the
\* network handler, stored to be resent, with the remote device or given up: no interleaving,
\* loss, full queue or late acknowledge lets one vanish (NetworkHandler.c:161, "stores it in
\* internal buffer if ACK is expected").  The packages are those of the present session of the
\* switch: those of the one before are gone with its memory.
THEOREM NoPackageVanishes ==
    ASSUME AcknowledgesUsed, NoReordering, OneSessionIfOnlyNew
    PROVE  LinkSpec => []NothingVanishes
<1>1. LinkInit => LinkInv
  BY LinkInitInv
<1>2. LinkInv /\ [LinkNext]_linkVars => LinkInv'
  BY LinkStepInv
<1>3. LinkInit => VanishInv
  BY DEF LinkInit, Init, VanishInv, HoldsOneAtATime, NothingVanishes
<1>4. LinkInv /\ VanishInv /\ [LinkNext]_linkVars => VanishInv'
  <2> SUFFICES ASSUME LinkInv, VanishInv, [LinkNext]_linkVars PROVE VanishInv'
    OBVIOUS
  <2>1. TypeOK /\ nh.prio > 0 /\ HoldsOneAtATime
    BY DEF LinkInv, VanishInv
  <2> QED
    BY <2>1, PrioStaysPositive, StaysOneAtATime, StepNothingVanishes DEF VanishInv
<1>5. VanishInv => NothingVanishes
  BY DEF VanishInv
<1> QED
  BY <1>1, <1>2, <1>3, <1>4, <1>5, PTL DEF LinkSpec

=============================================================================
