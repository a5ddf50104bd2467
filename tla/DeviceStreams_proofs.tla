------------------------ MODULE DeviceStreams_proofs ------------------------
(***************************************************************************)
(* The wireless link implements DeviceStreams, for the configurations of   *)
(* StopAndWait_proofs: whatever is lost, full or late, the packages of a   *)
(* device come out at the remote device in the order they went in, and the *)
(* next one is only taken once the last one has been delivered or given    *)
(* up, anew after every restart of the sending switch.                     *)
(***************************************************************************)
EXTENDS WirelessLink_proofs, StopAndWait_proofs

-----------------------------------------------------------------------------
(* Sequences in a row *)

LEMMA BehindAppended ==
    ASSUME NEW S, NEW r \in Seq(S), NEW q \in Seq(S), NEW e \in S
    PROVE  r \o Append(q, e) = Append(r \o q, e)
<1>1. r \o <<>> \o Append(q, e) = Append(r \o <<>> \o q, e)
  BY PushedLast, EmptySeq
<1>2. r \o <<>> = r
  BY ConcatEmptySeq
<1> QED
  BY <1>1, <1>2

LEMMA HandedOver ==
    ASSUME NEW S, NEW r \in Seq(S), NEW q \in Seq(S), q # <<>>
    PROVE  Append(r, Head(q)) \o Tail(q) = r \o q
<1>1. r \o <<Head(q)>> \o Tail(q) = r \o <<>> \o q
  BY PoppedStays
<1>2. r \o <<>> = r
  BY ConcatEmptySeq
<1>3. r \o <<Head(q)>> = Append(r, Head(q))
  <2>1. Head(q) \in S
    BY HeadTailProperties
  <2>2. PICK a \in Seq(S) : a = Append(r, Head(q))
    BY <2>1, AppendProperties
  <2>3. PICK o \in Seq(S) : o = <<Head(q)>> /\ Len(o) = 1 /\ o[1] = Head(q)
    <3>1. PICK h \in S : h = Head(q)
      BY <2>1
    <3>2. <<h>> \in Seq(S) /\ Len(<<h>>) = 1 /\ <<h>>[1] = h
      OBVIOUS
    <3> QED
      BY <3>1, <3>2
  <2>4. PICK b \in Seq(S) : b = r \o o
    BY ConcatProperties
  <2>5. /\ Len(r) \in Nat /\ Len(a) = Len(r) + 1 /\ Len(b) = Len(r) + 1
        /\ \A i \in 1 .. Len(r) : a[i] = r[i]
        /\ a[Len(r) + 1] = Head(q)
        /\ \A i \in 1 .. Len(r) + 1 : b[i] = IF i <= Len(r) THEN r[i] ELSE o[i - Len(r)]
    BY <2>1, <2>2, <2>3, <2>4, AppendProperties, ConcatProperties, LenProperties
  <2>6. ASSUME NEW i \in 1 .. Len(a) PROVE a[i] = b[i]
    <3>1. CASE i \in 1 .. Len(r)
      BY <2>5, <3>1
    <3>2. CASE i = Len(r) + 1
      <4>1. i \in 1 .. Len(r) + 1 /\ ~(i <= Len(r)) /\ i - Len(r) = 1
        BY <2>5, <3>2
      <4> QED
        BY <2>3, <2>5, <3>2, <4>1
    <3> QED
      BY <2>5, <3>1, <3>2
  <2>7. a = b
    BY <2>5, <2>6, SeqEqual
  <2> QED
    BY <2>2, <2>3, <2>4, <2>7
<1> QED
  BY <1>1, <1>2, <1>3

LEMMA BehindThinned ==
    ASSUME NEW S, NEW r \in Seq(S), NEW q \in Seq(S), NEW t \in Seq(S), Thinned(t, q)
    PROVE  Thinned(r \o t, r \o q)
<1>1. PICK f \in [1 .. Len(t) -> 1 .. Len(q)] :
         /\ \A i, j \in 1 .. Len(t) : i < j => f[i] < f[j]
         /\ \A i \in 1 .. Len(t) : SameLabel(t[i], q[f[i]])
  BY DEF Thinned
<1>2. PICK a \in Seq(S) : a = r \o t
  BY ConcatProperties
<1>3. PICK b \in Seq(S) : b = r \o q
  BY ConcatProperties
<1>4. /\ Len(r) \in Nat /\ Len(t) \in Nat /\ Len(q) \in Nat
      /\ Len(a) = Len(r) + Len(t) /\ Len(b) = Len(r) + Len(q)
      /\ \A i \in 1 .. Len(a) : a[i] = IF i <= Len(r) THEN r[i] ELSE t[i - Len(r)]
      /\ \A i \in 1 .. Len(b) : b[i] = IF i <= Len(r) THEN r[i] ELSE q[i - Len(r)]
  BY <1>2, <1>3, ConcatProperties, LenProperties
<1> DEFINE g == [i \in 1 .. Len(a) |-> IF i <= Len(r) THEN i ELSE Len(r) + f[i - Len(r)]]
<1>5. ASSUME NEW i \in 1 .. Len(a), i > Len(r)
      PROVE  /\ i - Len(r) \in 1 .. Len(t)
             /\ f[i - Len(r)] \in 1 .. Len(q)
             /\ g[i] = Len(r) + f[i - Len(r)]
             /\ g[i] \in 1 .. Len(b) /\ g[i] > Len(r) /\ g[i] - Len(r) = f[i - Len(r)]
  <2>1. i - Len(r) \in 1 .. Len(t)
    BY <1>4, <1>5
  <2>2. f[i - Len(r)] \in 1 .. Len(q)
    BY <2>1
  <2> QED
    BY <1>4, <1>5, <2>1, <2>2
<1>6. ASSUME NEW i \in 1 .. Len(a), i <= Len(r)
      PROVE  g[i] = i /\ g[i] \in 1 .. Len(b)
  BY <1>4, <1>6
<1>7. \A i \in 1 .. Len(a) : i \in Nat /\ (i <= Len(r) \/ i > Len(r))
  BY <1>4
<1>8. g \in [1 .. Len(a) -> 1 .. Len(b)]
  <2>1. \A i \in 1 .. Len(a) : g[i] \in 1 .. Len(b)
    BY <1>5, <1>6, <1>7
  <2> QED
    BY <2>1
<1> HIDE DEF g
<1>9. ASSUME NEW i \in 1 .. Len(a), NEW j \in 1 .. Len(a), i < j PROVE g[i] < g[j]
  <2>1. CASE j <= Len(r)
    <3>1. i <= Len(r)
      BY <1>4, <1>7, <1>9, <2>1
    <3> QED
      BY <1>6, <1>9, <2>1, <3>1
  <2>2. CASE i <= Len(r) /\ j > Len(r)
    BY <1>4, <1>5, <1>6, <1>7, <2>2
  <2>3. CASE i > Len(r) /\ j > Len(r)
    <3>1. i - Len(r) < j - Len(r)
      BY <1>4, <1>7, <1>9
    <3>2. f[i - Len(r)] < f[j - Len(r)]
      BY <1>1, <1>5, <2>3, <3>1
    <3> QED
      BY <1>4, <1>5, <2>3, <3>2
  <2> QED
    BY <1>4, <1>7, <1>9, <2>1, <2>2, <2>3
<1>10. ASSUME NEW i \in 1 .. Len(a) PROVE SameLabel(a[i], b[g[i]])
  <2>1. CASE i <= Len(r)
    BY <1>4, <1>6, <2>1 DEF SameLabel
  <2>2. CASE i > Len(r)
    <3>1. /\ a[i] = t[i - Len(r)]
          /\ b[g[i]] = q[f[i - Len(r)]]
      BY <1>4, <1>5, <1>7, <2>2
    <3> QED
      BY <1>1, <1>5, <2>2, <3>1
  <2> QED
    BY <1>7, <2>1, <2>2
<1>11. Thinned(a, b)
  BY <1>8, <1>9, <1>10 DEF Thinned
<1> QED
  BY <1>2, <1>3, <1>11

-----------------------------------------------------------------------------
(* The way of a package from the network handler to its remote device *)

LinkPipeline(conn) == receivedPackages[conn] \o Pipeline(conn)

LEMMA PipelineTypedNext ==
    ASSUME TypeOK', NEW conn \in Uart
    PROVE  Pipeline(conn)' \in Seq(OnTheWay)
<1>1. air'[conn] \in Seq(Frame) /\ queuePackagesToSend'[conn] \in Seq(QueuedPackage)
  BY DEF TypeOK
<1>2. air'[conn] \in Seq(OnTheWay) /\ queuePackagesToSend'[conn] \in Seq(OnTheWay)
  BY <1>1, SeqMonotonic DEF OnTheWay
<1>3. Popped(conn)' \in Seq(OnTheWay)
  <2>1. CASE ph' # NoPackage
    <3>1. ph'.pack \in OnTheWay
      BY <2>1 DEF TypeOK, OnTheWay
    <3>2. <<ph'.pack>> \in Seq(OnTheWay) /\ <<>> \in Seq(OnTheWay)
      BY <3>1
    <3> QED
      BY <3>2 DEF Popped
  <2>2. CASE ph' = NoPackage
    BY <2>2 DEF Popped
  <2> QED
    BY <2>1, <2>2
<1> QED
  BY <1>2, <1>3, ThreeParts DEF Pipeline

LEMMA ReceivedParts ==
    ASSUME RxInv, NEW conn \in Uart
    PROVE  receivedPackages[conn] \in Seq(Frame) /\ receivedPackages[conn] \in Seq(OnTheWay)
<1>1. receivedPackages[conn] \in Seq(Frame)
  BY DEF RxInv, RxTypeOK
<1> QED
  BY <1>1, SeqMonotonic DEF OnTheWay

LEMMA LinkPipelineTyped ==
    ASSUME TypeOK, RxInv, NEW conn \in Uart
    PROVE  LinkPipeline(conn) \in Seq(OnTheWay)
  BY PipelineParts, ReceivedParts, ConcatProperties DEF LinkPipeline

\* The newest package of its device sets out.
NewestSetsOut(conn) ==
    \E e \in OnTheWay : /\ LinkPipeline(conn)' = Append(LinkPipeline(conn), e)
                        /\ e.sysTime = sentPackNumTracker[e.dev]

LEMMA SenderMovesPipeline ==
    ASSUME WaitsOnOneConnection, TypeOK, RxInv, WaitInv, NEW conn \in Uart, [Next]_vars,
           UNCHANGED receivedPackages
    PROVE  Thinned(LinkPipeline(conn)', LinkPipeline(conn)) \/ NewestSetsOut(conn)
<1>1. /\ receivedPackages[conn] \in Seq(OnTheWay)
      /\ Pipeline(conn) \in Seq(OnTheWay)
      /\ Pipeline(conn)' \in Seq(OnTheWay)
  BY ReceivedParts, PipelineParts, PipelineTypedNext, StepTypeOK
<1>2. LinkPipeline(conn)' = receivedPackages[conn] \o Pipeline(conn)'
  BY DEF LinkPipeline
<1>3. CASE Thinned(Pipeline(conn)', Pipeline(conn))
  <2>1. Thinned(receivedPackages[conn] \o Pipeline(conn)', receivedPackages[conn] \o Pipeline(conn))
    BY <1>1, <1>3, BehindThinned
  <2> QED
    BY <1>2, <2>1 DEF LinkPipeline
<1>4. CASE NewestJoins(conn)
  <2>1. PICK e \in OnTheWay : /\ Pipeline(conn)' = Append(Pipeline(conn), e)
                              /\ e.sysTime = sentPackNumTracker[e.dev]
    BY <1>4 DEF NewestJoins
  <2>2. receivedPackages[conn] \o Append(Pipeline(conn), e)
           = Append(receivedPackages[conn] \o Pipeline(conn), e)
    <3>1. PICK r, q \in Seq(OnTheWay) : r = receivedPackages[conn] /\ q = Pipeline(conn)
      BY <1>1
    <3>2. r \o Append(q, e) = Append(r \o q, e)
      BY BehindAppended
    <3> QED
      BY <3>1, <3>2
  <2> QED
    BY <1>2, <2>1, <2>2 DEF LinkPipeline, NewestSetsOut
<1> QED
  BY <1>3, <1>4, PipelineMoves

LEMMA TransferMovesPipeline ==
    ASSUME TypeOK, RxInv, NEW conn \in Uart, NEW from \in Uart, Transfer(from)
    PROVE  Thinned(LinkPipeline(conn)', LinkPipeline(conn))
<1>0. /\ air \in [Uart -> Seq(Frame)] /\ air[from] # <<>>
      /\ air' = [air EXCEPT ![from] = Tail(@)]
      /\ UNCHANGED <<queuePackagesToSend, ph>>
      /\ receivedPackages \in [Uart -> Seq(Frame)]
  BY DEF TypeOK, RxInv, RxTypeOK, Transfer
<1>1. PICK a, p, q, r \in Seq(OnTheWay) :
         /\ a = air[conn] /\ p = Popped(conn) /\ q = queuePackagesToSend[conn]
         /\ r = receivedPackages[conn]
  BY PipelineParts, ReceivedParts
<1>2. Popped(conn)' = p
  BY <1>0, <1>1 DEF Popped
<1>3. LinkPipeline(conn) = r \o (a \o p \o q)
  BY <1>1 DEF LinkPipeline, Pipeline
<1>4. CASE conn # from
  <2>1. receivedPackages'[conn] = r
    BY <1>0, <1>1, <1>4 DEF Transfer, PushToReceivedPackages, rxVars
  <2>2. LinkPipeline(conn)' = LinkPipeline(conn)
    BY <1>0, <1>1, <1>2, <1>3, <1>4, <2>1 DEF LinkPipeline, Pipeline
  <2> QED
    BY <2>2, LinkPipelineTyped, ThinnedSelf
<1>5. CASE conn = from
  <2>1. PICK w \in Seq(OnTheWay) : w = a \o p \o q
    BY ThreeParts
  <2>2. Tail(a) \o p \o q = Tail(w) /\ Head(a) = Head(w) /\ w # <<>>
    <3>1. a # <<>>
      BY <1>0, <1>1, <1>5
    <3>2. /\ Tail(a) \o p \o q = Tail(a \o p \o q)
          /\ Head(a) = Head(a \o p \o q)
          /\ a \o p \o q # <<>>
          /\ a \o p \o q \in Seq(OnTheWay)
      BY <3>1, FirstOfThree, Zenon
    <3> QED
      BY <2>1, <3>2
  <2>3. Pipeline(conn)' = Tail(w)
    BY <1>0, <1>1, <1>2, <1>5, <2>2 DEF Pipeline
  <2>4. \/ receivedPackages'[conn] = Append(r, Head(a))
        \/ receivedPackages'[conn] = r
    BY <1>0, <1>1, <1>5 DEF Transfer, PushToReceivedPackages, rxVars
  <2>5. CASE receivedPackages'[conn] = Append(r, Head(a))
    <3>1. LinkPipeline(conn)' = Append(r, Head(w)) \o Tail(w)
      BY <2>2, <2>3, <2>5 DEF LinkPipeline
    <3>2. LinkPipeline(conn)' = LinkPipeline(conn)
      BY <1>3, <2>1, <2>2, <3>1, HandedOver
    <3> QED
      BY <3>2, LinkPipelineTyped, ThinnedSelf
  <2>6. CASE receivedPackages'[conn] = r
    <3>1. LinkPipeline(conn)' = r \o Tail(w)
      BY <2>3, <2>6 DEF LinkPipeline
    <3>2. Tail(w) \in Seq(OnTheWay) /\ Thinned(Tail(w), w)
      BY <2>2, TailThinned, HeadTailProperties
    <3>3. Thinned(r \o Tail(w), r \o w)
      BY <3>2, BehindThinned
    <3> QED
      BY <1>3, <2>1, <3>1, <3>3
  <2> QED
    BY <2>4, <2>5, <2>6
<1> QED
  BY <1>4, <1>5

\* The package processed is the first one on the way.
LEMMA ProcessTakesFirst ==
    ASSUME TypeOK, RxInv, NEW conn \in Uart, NEW from \in Uart, Process(from)
    PROVE  IF conn = from
           THEN /\ LinkPipeline(conn) # <<>>
                /\ LinkPipeline(conn)' = Tail(LinkPipeline(conn))
                /\ Head(receivedPackages[from]) = Head(LinkPipeline(conn))
           ELSE LinkPipeline(conn)' = LinkPipeline(conn)
<1>0. /\ receivedPackages \in [Uart -> Seq(Frame)] /\ receivedPackages[from] # <<>>
      /\ receivedPackages' = [receivedPackages EXCEPT ![from] = Tail(@)]
      /\ UNCHANGED <<air, queuePackagesToSend, ph>>
  BY DEF RxInv, RxTypeOK, Process, ProcessReceivedPackage
<1>1. Pipeline(conn)' = Pipeline(conn)
  BY <1>0 DEF Pipeline, Popped
<1>2. CASE conn # from
  BY <1>0, <1>1, <1>2 DEF LinkPipeline
<1>3. CASE conn = from
  <2>1. PICK r, w \in Seq(OnTheWay) : r = receivedPackages[conn] /\ w = Pipeline(conn)
    BY ReceivedParts, PipelineParts
  <2>2. r # <<>>
    BY <1>0, <1>3, <2>1
  <2>3. /\ Tail(r) \o <<>> \o w = Tail(r \o <<>> \o w)
        /\ Head(r) = Head(r \o <<>> \o w)
        /\ r \o <<>> \o w # <<>>
    BY <2>2, FirstOfThree, EmptySeq
  <2>4. r \o <<>> = r /\ Tail(r) \o <<>> = Tail(r)
    BY <2>2, HeadTailProperties, ConcatEmptySeq
  <2>5. receivedPackages'[conn] = Tail(r)
    BY <1>0, <1>3, <2>1
  <2>6. LinkPipeline(conn)' = Tail(r) \o w /\ LinkPipeline(conn) = r \o w
    BY <1>1, <2>1, <2>5 DEF LinkPipeline
  <2> QED
    BY <1>3, <2>1, <2>3, <2>4, <2>6
<1> QED
  BY <1>2, <1>3

-----------------------------------------------------------------------------
(* Stop and wait on the link *)

\* A step of the peer or the radio leaves what the network handler knows alone.
LEMMA HandlerUntouched ==
    ASSUME WaitInv, ConnectedInv, TrafficOnUsed', UNCHANGED <<nhVars, nh>>
    PROVE  WaitInv' /\ ConnectedInv'
<1>1. HeldIsNewest' /\ StoredIsAlone'
  BY DEF WaitInv, HeldIsNewest, StoredIsAlone, nhVars, Occupied, Releasing
<1>2. ConnectedInv'
  BY DEF ConnectedInv, nhVars, Occupied
<1> QED
  BY <1>1, <1>2 DEF WaitInv

\* What the link adds: the packages assembled belong to devices that use the connection.
LinkWaitInv ==
    /\ WaitInv
    /\ ConnectedInv
    /\ AllUse(receivedPackages)

LEMMA TransferWaits ==
    ASSUME LinkInv, LinkWaitInv, NEW conn \in Uart, Transfer(conn)
    PROVE  WaitInv' /\ ConnectedInv' /\ AllUse(receivedPackages')
<1>0. /\ air \in [Uart -> Seq(Frame)] /\ receivedPackages \in [Uart -> Seq(Frame)]
      /\ AllUse(air) /\ AllUse(receivedPackages)
      /\ air[conn] # <<>> /\ air' = Shortened(air, conn)
      /\ UNCHANGED <<nhVars, nh, queuePackagesToSend, ph, acks>>
  BY DEF LinkInv, TypeOK, RxInv, RxTypeOK, LinkWaitInv, WaitInv, TrafficOnUsed, Transfer,
     Shortened
<1>1. AllUse(air') /\ Uses(Head(air[conn]).dev, conn) /\ Head(air[conn]) \in Frame
  BY <1>0, UseShortened, QueueUpdates
<1>2. \/ receivedPackages' = Pushed(receivedPackages, conn, Head(air[conn]))
      \/ receivedPackages' = receivedPackages
  BY DEF Transfer, PushToReceivedPackages, Pushed, rxVars
<1>3. AllUse(receivedPackages')
  BY <1>0, <1>1, <1>2, UsePushed
<1>4. TrafficOnUsed'
  BY <1>0, <1>1 DEF LinkWaitInv, WaitInv, TrafficOnUsed, AllUse
<1> QED
  BY <1>0, <1>3, <1>4, HandlerUntouched DEF LinkWaitInv

LEMMA ProcessWaits ==
    ASSUME LinkInv, LinkWaitInv, NEW conn \in Uart, Process(conn)
    PROVE  WaitInv' /\ ConnectedInv' /\ AllUse(receivedPackages')
<1>0. /\ acks \in [Uart -> Seq(Ack)] /\ receivedPackages \in [Uart -> Seq(Frame)]
      /\ AllUse(acks) /\ AllUse(receivedPackages)
      /\ receivedPackages[conn] # <<>>
      /\ receivedPackages' = Shortened(receivedPackages, conn)
      /\ UNCHANGED <<nhVars, nh, queuePackagesToSend, ph, air>>
  BY DEF LinkInv, TypeOK, RxInv, RxTypeOK, LinkWaitInv, WaitInv, TrafficOnUsed, Process,
     ProcessReceivedPackage, Shortened
<1>1. /\ AllUse(receivedPackages')
      /\ Uses(Head(receivedPackages[conn]).dev, conn)
      /\ Head(receivedPackages[conn]) \in Frame
  BY <1>0, UseShortened, QueueUpdates
<1>2. PICK ack \in Ack : ack = AckOf(Head(receivedPackages[conn])) /\ Uses(ack.dev, conn)
  <2>1. /\ AckOf(Head(receivedPackages[conn])) \in Ack
        /\ AckOf(Head(receivedPackages[conn])).dev = Head(receivedPackages[conn]).dev
    BY <1>1 DEF AckOf, Frame, Ack
  <2> QED
    BY <1>1, <2>1
<1>3. acks' = Pushed(acks, conn, ack) \/ acks' = acks
  BY <1>2 DEF Process, Pushed
<1>4. AllUse(acks')
  BY <1>0, <1>2, <1>3, UsePushed
<1>5. TrafficOnUsed'
  BY <1>0, <1>4 DEF LinkWaitInv, WaitInv, TrafficOnUsed, AllUse
<1> QED
  BY <1>0, <1>1, <1>5, HandlerUntouched DEF LinkWaitInv

\* A switch that has just restarted has nothing under way and stores nothing.
LEMMA RestartWaits == SenderRestarts => LinkWaitInv'
<1> SUFFICES ASSUME SenderRestarts PROVE LinkWaitInv'
  OBVIOUS
<1>0. \A conn \in Uart : air[conn] = <<>> /\ acks[conn] = <<>> /\ receivedPackages[conn] = <<>>
  BY DEF SenderRestarts
<1>1. nh'.prio > 0 /\ HeldIsNewest'
  BY DEF SenderRestarts, HeldIsNewest
<1>2. TrafficOnUsed' /\ AllUse(receivedPackages')
  BY <1>0 DEF SenderRestarts, TrafficOnUsed, AllUse, rxVars
<1>3. Occupied' = {}
  BY DEF SenderRestarts, Occupied
<1>4. StoredIsAlone' /\ ConnectedInv'
  BY <1>3 DEF SenderRestarts, StoredIsAlone, ConnectedInv
<1> QED
  BY <1>1, <1>2, <1>4 DEF LinkWaitInv, WaitInv, AllUse

LEMMA LinkStepWaits ==
    ASSUME WaitsOnOneConnection, LinkInv, LinkWaitInv, [LinkNext]_linkVars
    PROVE  LinkWaitInv'
<1>0. TypeOK /\ WaitInv /\ ConnectedInv /\ AllUse(receivedPackages)
  BY DEF LinkInv, LinkWaitInv
<1>1. CASE Sender \/ SenderGivesUp
  <2>1. Next /\ UNCHANGED receivedPackages
    BY <1>1, SenderStep DEF rxVars
  <2>2. WaitInv' /\ ConnectedInv'
    BY <1>0, <2>1, StepWaitInv, StepConnected
  <2> QED
    BY <1>0, <2>1, <2>2 DEF LinkWaitInv, AllUse
<1>2. ASSUME NEW conn \in Uart, Transfer(conn) PROVE LinkWaitInv'
  BY <1>0, <1>2, TransferWaits DEF LinkWaitInv, Transfer
<1>3. ASSUME NEW conn \in Uart, Process(conn) PROVE LinkWaitInv'
  BY <1>0, <1>3, ProcessWaits DEF LinkWaitInv, Process
<1>4. CASE UNCHANGED linkVars \/ \E conn \in Uart : Idle(conn)
  <2>1. UNCHANGED <<vars, receivedPackages>>
    BY <1>4 DEF linkVars, rxVars, Idle, ProcessNoPackage
  <2>2. WaitInv' /\ ConnectedInv'
    BY <1>0, <2>1, StepWaitInv, StepConnected
  <2> QED
    BY <1>0, <2>1, <2>2 DEF LinkWaitInv, AllUse
<1> QED
  BY <1>1, <1>2, <1>3, <1>4, RestartWaits DEF LinkNext

LEMMA LinkInitWaits == LinkInit => LinkWaitInv
<1> SUFFICES ASSUME LinkInit PROVE LinkWaitInv
  OBVIOUS
<1>1. WaitInv
  BY InitWaitInv DEF LinkInit
<1>2. ConnectedInv
  BY DEF LinkInit, Init, ConnectedInv, Occupied
<1>3. AllUse(receivedPackages)
  BY DEF LinkInit, RxInit, AllUse
<1> QED
  BY <1>1, <1>2, <1>3 DEF LinkWaitInv

\* A package on its way over a connection belongs to a device that uses it.
LEMMA LinkPipelineUses ==
    ASSUME TypeOK, RxInv, TrafficOnUsed, AllUse(receivedPackages), NEW conn \in Uart
    PROVE  \A m \in 1 .. Len(LinkPipeline(conn)) : Uses(LinkPipeline(conn)[m].dev, conn)
<1>1. PICK a, p, q, r \in Seq(OnTheWay) :
         /\ a = air[conn] /\ p = Popped(conn) /\ q = queuePackagesToSend[conn]
         /\ r = receivedPackages[conn]
  BY PipelineParts, ReceivedParts
<1>2. /\ \A k \in 1 .. Len(a) : Uses(a[k].dev, conn)
      /\ \A k \in 1 .. Len(q) : Uses(q[k].dev, conn)
      /\ \A k \in 1 .. Len(r) : Uses(r[k].dev, conn)
  BY <1>1 DEF TrafficOnUsed, AllUse
<1>3. \A k \in 1 .. Len(p) : Uses(p[k].dev, conn)
  <2>1. CASE ph # NoPackage /\ ph.conn = conn
    <3>1. p = <<ph.pack>> /\ Uses(ph.pack.dev, conn)
      BY <1>1, <2>1 DEF Popped, TrafficOnUsed
    <3> QED
      BY <3>1
  <2>2. CASE ~(ph # NoPackage /\ ph.conn = conn)
    BY <1>1, <2>2 DEF Popped
  <2> QED
    BY <2>1, <2>2
<1>4. PICK w \in Seq(OnTheWay) : w = a \o p \o q
  BY ThreeParts
<1>5. /\ Len(a) \in Nat /\ Len(p) \in Nat /\ Len(q) \in Nat /\ Len(r) \in Nat
      /\ Len(w) = Len(a) + Len(p) + Len(q)
      /\ \A i \in 1 .. Len(a) + Len(p) + Len(q) :
            w[i] = IF i <= Len(a) THEN a[i]
                   ELSE IF i <= Len(a) + Len(p) THEN p[i - Len(a)]
                   ELSE q[i - (Len(a) + Len(p))]
  <2>1. /\ Len(a \o p \o q) = Len(a) + Len(p) + Len(q)
        /\ \A i \in 1 .. Len(a) + Len(p) + Len(q) :
              (a \o p \o q)[i] = IF i <= Len(a) THEN a[i]
                                 ELSE IF i <= Len(a) + Len(p) THEN p[i - Len(a)]
                                 ELSE q[i - (Len(a) + Len(p))]
    BY ThreeParts
  <2> QED
    BY <1>4, <2>1, LenProperties
<1>6. ASSUME NEW i \in 1 .. Len(w) PROVE Uses(w[i].dev, conn)
  <2>1. CASE i <= Len(a)
    <3>1. i \in 1 .. Len(a) /\ w[i] = a[i]
      BY <1>5, <2>1
    <3> QED
      BY <1>2, <3>1
  <2>2. CASE i > Len(a) /\ i <= Len(a) + Len(p)
    <3>1. i - Len(a) \in 1 .. Len(p) /\ w[i] = p[i - Len(a)]
      BY <1>5, <2>2
    <3> QED
      BY <1>3, <3>1
  <2>3. CASE i > Len(a) + Len(p)
    <3>1. i - (Len(a) + Len(p)) \in 1 .. Len(q) /\ w[i] = q[i - (Len(a) + Len(p))]
      BY <1>5, <2>3
    <3> QED
      BY <1>2, <3>1
  <2>4. i \in Nat
    BY <1>5
  <2> QED
    BY <1>5, <2>1, <2>2, <2>3, <2>4
<1>7. /\ Len(r \o w) = Len(r) + Len(w)
      /\ \A i \in 1 .. Len(r) + Len(w) : (r \o w)[i] = IF i <= Len(r) THEN r[i] ELSE w[i - Len(r)]
  BY ConcatProperties
<1>8. PICK l \in Seq(OnTheWay) : l = r \o w
  BY ConcatProperties
<1>9. ASSUME NEW i \in 1 .. Len(l) PROVE Uses(l[i].dev, conn)
  <2>0. i \in Nat /\ Len(w) \in Nat /\ Len(l) = Len(r) + Len(w)
    BY <1>5, <1>7, <1>8
  <2>1. CASE i <= Len(r)
    <3>1. i \in 1 .. Len(r) /\ l[i] = r[i]
      BY <1>5, <1>7, <1>8, <2>0, <2>1
    <3> QED
      BY <1>2, <3>1
  <2>2. CASE i > Len(r)
    <3>1. i - Len(r) \in 1 .. Len(w) /\ l[i] = w[i - Len(r)]
      BY <1>5, <1>7, <1>8, <2>0, <2>2
    <3> QED
      BY <1>6, <3>1
  <2> QED
    BY <1>5, <2>0, <2>1, <2>2
<1> QED
  BY <1>1, <1>4, <1>8, <1>9 DEF LinkPipeline, Pipeline

-----------------------------------------------------------------------------
(* The order on the link *)

\* Where in what was handed to a device the packages of the session are.
InSession(dev) == session.before[dev] + 1 .. Len(rx[dev].out)

\* Inductive: on its way over a connection, a device's packages are in order, and all of
\* them are at least as new as what the remote device has got in the session.
NothingOlder(conn) ==
    \A m \in 1 .. Len(LinkPipeline(conn)), dev \in Uart :
        LinkPipeline(conn)[m].dev = dev =>
            \A k \in InSession(dev) :
                rx[dev].out[k].sysTime <= LinkPipeline(conn)[m].sysTime

DeliveredIsGenerated ==
    \A dev \in Uart : \A k \in InSession(dev) :
        rx[dev].out[k].sysTime <= sentPackNumTracker[dev]

OrderInv ==
    /\ DeliveredIsGenerated
    /\ \A conn \in Uart :
          /\ InOrder(LinkPipeline(conn))
          /\ NotNewer(LinkPipeline(conn))
          /\ NothingOlder(conn)

LinkPipelineMoves(conn) ==
    Thinned(LinkPipeline(conn)', LinkPipeline(conn)) \/ NewestSetsOut(conn)

LEMMA SessionBounds ==
    ASSUME LinkInv, NEW dev \in Uart
    PROVE  /\ rx[dev].out \in Seq(Frame) /\ Len(rx[dev].out) \in Nat
           /\ session.before[dev] \in Nat /\ session.before[dev] <= Len(rx[dev].out)
           /\ InSession(dev) \subseteq 1 .. Len(rx[dev].out)
<1>1. rx[dev].out \in Seq(Frame) /\ Len(rx[dev].out) \in Nat
  BY OutLength DEF LinkInv, RxInv, RxTypeOK, RxState
<1>2. session.before[dev] \in Nat /\ session.before[dev] <= Len(rx[dev].out)
  BY DEF LinkInv, SessionInv
<1> QED
  BY <1>1, <1>2 DEF InSession

\* What holds of every package on its way or of the newest one holds of those on their way
\* after the step.
LEMMA MovedFrom ==
    ASSUME TypeOK, RxInv, NEW conn \in Uart, LinkPipelineMoves(conn),
           NEW m \in 1 .. Len(LinkPipeline(conn)')
    PROVE  \/ \E n \in 1 .. Len(LinkPipeline(conn)) :
                 SameLabel(LinkPipeline(conn)'[m], LinkPipeline(conn)[n])
           \/ LinkPipeline(conn)'[m].sysTime = sentPackNumTracker[LinkPipeline(conn)'[m].dev]
<1>1. CASE Thinned(LinkPipeline(conn)', LinkPipeline(conn))
  BY <1>1 DEF Thinned
<1>2. CASE NewestSetsOut(conn)
  <2>1. PICK q \in Seq(OnTheWay), e \in OnTheWay :
           /\ q = LinkPipeline(conn)
           /\ LinkPipeline(conn)' = Append(q, e)
           /\ e.sysTime = sentPackNumTracker[e.dev]
    BY <1>2, LinkPipelineTyped DEF NewestSetsOut
  <2>2. /\ Len(q) \in Nat /\ Len(Append(q, e)) = Len(q) + 1
        /\ Append(q, e)[Len(q) + 1] = e
        /\ \A i \in 1 .. Len(q) : Append(q, e)[i] = q[i]
    BY AppendProperties, LenProperties
  <2>3. CASE m \in 1 .. Len(q)
    BY <2>1, <2>2, <2>3 DEF SameLabel
  <2>4. CASE m = Len(q) + 1
    BY <2>1, <2>2, <2>4
  <2> QED
    BY <2>1, <2>2, <2>3, <2>4
<1> QED
  BY <1>1, <1>2 DEF LinkPipelineMoves

\* The number of the package generated last only grows in a session, and stays in its range.
LEMMA LinkTrackerGrows ==
    ASSUME LinkInv, [LinkNext]_linkVars, ~SenderRestarts, NEW dev \in Uart
    PROVE  /\ sentPackNumTracker[dev] \in Nat /\ sentPackNumTracker'[dev] \in Nat
           /\ sentPackNumTracker[dev] <= sentPackNumTracker'[dev]
<1>1. sentPackNumTracker[dev] \in Nat /\ sentPackNumTracker'[dev] \in Nat
  <2>1. TypeOK /\ TypeOK'
    BY LinkStepTypeOK DEF LinkInv
  <2>2. /\ sentPackNumTracker \in [Uart -> 0 .. MaxPack]
        /\ sentPackNumTracker' \in [Uart -> 0 .. MaxPack]
    BY <2>1 DEF TypeOK
  <2> QED
    BY <2>2
<1>2. CASE Sender \/ SenderGivesUp
  BY <1>1, <1>2, SenderStep, TrackerGrows DEF LinkInv
<1>3. CASE UNCHANGED sentPackNumTracker
  BY <1>1, <1>3
<1>4. CASE UNCHANGED linkVars \/ \E conn \in Uart : Transfer(conn) \/ Process(conn) \/ Idle(conn)
  BY <1>3, <1>4 DEF linkVars, vars, Transfer, Process, Idle, nhVars
<1> QED
  BY <1>1, <1>2, <1>4 DEF LinkNext

\* Steps that hand out nothing.
LEMMA MoveKeepsOrder ==
    ASSUME LinkInv, OrderInv, [LinkNext]_linkVars, ~SenderRestarts, UNCHANGED session,
           \A dev \in Uart : rx'[dev] = rx[dev],
           \A conn \in Uart : LinkPipelineMoves(conn)
    PROVE  OrderInv'
<1>0. /\ TypeOK /\ RxInv
      /\ sentPackNumTracker \in [Uart -> 0 .. MaxPack]
      /\ \A dev \in Uart : InSession(dev)' = InSession(dev)
  BY DEF LinkInv, TypeOK, RxInv, RxTypeOK, RxState, InSession
<1>1. ASSUME NEW dev \in Uart, NEW k \in InSession(dev)
      PROVE  rx[dev].out[k].sysTime \in Nat
  <2>1. rx[dev].out[k] \in Frame
    BY <1>1, SessionBounds, ElementOfSeq
  <2> QED
    BY <2>1, ConfigAssumption DEF Frame
<1>2. DeliveredIsGenerated'
  <2>1. ASSUME NEW dev \in Uart, NEW k \in InSession(dev)
        PROVE  rx[dev].out[k].sysTime <= sentPackNumTracker'[dev]
    BY <1>1, <2>1, LinkTrackerGrows DEF OrderInv, DeliveredIsGenerated
  <2> QED
    BY <1>0, <2>1 DEF DeliveredIsGenerated
<1>3. ASSUME NEW conn \in Uart
      PROVE  /\ InOrder(LinkPipeline(conn)')
             /\ NotNewer(LinkPipeline(conn)')
             /\ \A m \in 1 .. Len(LinkPipeline(conn)') :
                   /\ LinkPipeline(conn)'[m].dev \in Uart
                   /\ LinkPipeline(conn)'[m].sysTime \in Nat
  <2>0. InOrder(LinkPipeline(conn)) /\ NotNewer(LinkPipeline(conn))
    BY DEF OrderInv
  <2>1. CASE Thinned(LinkPipeline(conn)', LinkPipeline(conn))
    BY <1>0, <2>0, <2>1, ThinnedInOrder, LinkPipelineTyped, MovesDevices
  <2>2. CASE NewestSetsOut(conn)
    <3>1. PICK q \in Seq(OnTheWay), e \in OnTheWay :
             /\ q = LinkPipeline(conn)
             /\ LinkPipeline(conn)' = Append(q, e)
             /\ e.sysTime = sentPackNumTracker[e.dev]
      BY <1>0, <2>2, LinkPipelineTyped DEF NewestSetsOut
    <3>2. InOrder(Append(q, e)) /\ NotNewer(Append(q, e))
      BY <1>0, <2>0, <3>1, NewestAppended
    <3>3. \A m \in 1 .. Len(Append(q, e)) :
             Append(q, e)[m].dev \in Uart /\ Append(q, e)[m].sysTime \in Nat
      BY MovesDevices
    <3> QED
      BY <3>1, <3>2, <3>3
  <2> QED
    BY <2>1, <2>2 DEF LinkPipelineMoves
<1>4. ASSUME NEW conn \in Uart, NEW m \in 1 .. Len(LinkPipeline(conn)')
      PROVE  LinkPipeline(conn)'[m].sysTime <= sentPackNumTracker'[LinkPipeline(conn)'[m].dev]
  <2>1. PICK dev \in Uart, n \in Nat :
           dev = LinkPipeline(conn)'[m].dev /\ n = LinkPipeline(conn)'[m].sysTime
    BY <1>3
  <2>2. n <= sentPackNumTracker[dev]
    BY <1>3, <2>1 DEF NotNewer
  <2>3. n <= sentPackNumTracker'[dev]
    BY <2>2, LinkTrackerGrows
  <2> QED
    BY <2>1, <2>3
<1>5. ASSUME NEW conn \in Uart, NEW m \in 1 .. Len(LinkPipeline(conn)'), NEW dev \in Uart,
             LinkPipeline(conn)'[m].dev = dev, NEW k \in InSession(dev)
      PROVE  rx[dev].out[k].sysTime <= LinkPipeline(conn)'[m].sysTime
  <2>1. CASE \E n \in 1 .. Len(LinkPipeline(conn)) :
                SameLabel(LinkPipeline(conn)'[m], LinkPipeline(conn)[n])
    BY <1>5, <2>1 DEF SameLabel, OrderInv, NothingOlder
  <2>2. CASE LinkPipeline(conn)'[m].sysTime = sentPackNumTracker[LinkPipeline(conn)'[m].dev]
    BY <1>5, <2>2 DEF OrderInv, DeliveredIsGenerated
  <2> QED
    BY <1>0, <2>1, <2>2, MovedFrom
<1> QED
  BY <1>0, <1>2, <1>3, <1>4, <1>5 DEF OrderInv, InOrder, NotNewer, NothingOlder

\* What a processed package is to its device: the newest of the session so far, and not newer
\* than what was generated.
Handed(from, frame) ==
    /\ Waits(frame.dev)
    /\ Uses(frame.dev, from)
    /\ rx'[frame.dev].out = Append(rx[frame.dev].out, frame)
    /\ \A dev \in Uart : dev # frame.dev => rx'[dev] = rx[dev]
    /\ LinkPipeline(from) # <<>>
    /\ frame = Head(LinkPipeline(from))
    /\ LinkPipeline(from)' = Tail(LinkPipeline(from))
    /\ \A k \in InSession(frame.dev) : rx[frame.dev].out[k].sysTime <= frame.sysTime
    /\ frame.sysTime <= sentPackNumTracker[frame.dev]

LEMMA ProcessHands ==
    ASSUME WaitsOnOneConnection, LinkInv, LinkWaitInv, OrderInv,
           NEW from \in Uart, Process(from)
    PROVE  \E frame \in Frame : Handed(from, frame)
<1>0. TypeOK /\ RxInv /\ receivedPackages \in [Uart -> Seq(Frame)] /\ rx \in [Uart -> RxState]
  BY DEF LinkInv, RxInv, RxTypeOK
<1>1. PICK frame \in Frame :
         /\ frame = Head(receivedPackages[from])
         /\ rx' = [rx EXCEPT ![frame.dev] = ProcessFrame(rx[frame.dev], frame)]
  BY <1>0, ProcessedFrame DEF Process
<1>2. frame.dev \in Uart
  BY DEF Frame
<1>3. Uses(frame.dev, from)
  BY <1>0, <1>1, UseShortened DEF LinkWaitInv, Process, ProcessReceivedPackage
<1>4. Waits(frame.dev)
  BY <1>2, <1>3 DEF WaitsOnOneConnection, Uses
<1>5. ProcessFrame(rx[frame.dev], frame) = PushOut(rx[frame.dev], frame)
  BY <1>4 DEF ProcessFrame, Waits, WAIT_FOR_ACK_BEFORE_SENDING_NEXT_PACK, PACKAGE_REORDERING,
     ONLY_SEND_OUT_NEW_PACKAGES
<1>6. /\ rx'[frame.dev].out = Append(rx[frame.dev].out, frame)
      /\ \A dev \in Uart : dev # frame.dev => rx'[dev] = rx[dev]
  <2>1. PICK s \in RxState : s = rx[frame.dev]
    BY <1>0, <1>2
  <2>2. PushOut(s, frame).out = Append(s.out, frame)
    BY PushOutState
  <2> QED
    BY <1>0, <1>1, <1>2, <1>5, <2>1, <2>2
<1>7. /\ LinkPipeline(from) # <<>>
      /\ LinkPipeline(from)' = Tail(LinkPipeline(from))
      /\ frame = Head(LinkPipeline(from))
  BY <1>0, <1>1, ProcessTakesFirst
<1>8. PICK q \in Seq(OnTheWay) : q = LinkPipeline(from)
  BY <1>0, LinkPipelineTyped
<1>9. 1 \in 1 .. Len(q) /\ q[1] = frame
  BY <1>7, <1>8, EmptySeq
<1>10. /\ \A k \in InSession(frame.dev) : rx[frame.dev].out[k].sysTime <= frame.sysTime
       /\ frame.sysTime <= sentPackNumTracker[frame.dev]
  BY <1>2, <1>8, <1>9 DEF OrderInv, NothingOlder, NotNewer
<1> QED
  BY <1>3, <1>4, <1>6, <1>7, <1>10 DEF Handed

LEMMA ProcessKeepsOrder ==
    ASSUME WaitsOnOneConnection, LinkInv, LinkWaitInv, OrderInv,
           NEW from \in Uart, Process(from)
    PROVE  OrderInv'
<1>0. /\ TypeOK /\ RxInv /\ TrafficOnUsed /\ AllUse(receivedPackages)
      /\ UNCHANGED <<sentPackNumTracker, session>>
  BY DEF LinkInv, LinkWaitInv, WaitInv, Process, nhVars
<1>1. PICK frame \in Frame : Handed(from, frame)
  BY ProcessHands
<1>2. PICK dev \in Uart, out \in Seq(Frame), before \in Nat :
         dev = frame.dev /\ out = rx[dev].out /\ before = session.before[dev]
  BY SessionBounds DEF Frame
<1>3. /\ rx'[dev].out = Append(out, frame)
      /\ \A k \in before + 1 .. Len(out) : out[k].sysTime <= frame.sysTime
      /\ frame.sysTime <= sentPackNumTracker[dev]
      /\ \A other \in Uart : other # dev => rx'[other] = rx[other]
      /\ Uses(dev, from)
  BY <1>1, <1>2 DEF Handed, InSession
<1>4. /\ Len(out) \in Nat /\ Len(Append(out, frame)) = Len(out) + 1
      /\ Append(out, frame)[Len(out) + 1] = frame
      /\ \A k \in 1 .. Len(out) : Append(out, frame)[k] = out[k]
  BY AppendProperties, LenProperties
\* Every payload handed out now was before, or is the package processed.
<1>5. ASSUME NEW k \in InSession(dev)'
      PROVE  \/ k \in InSession(dev) /\ rx'[dev].out[k] = out[k]
             \/ rx'[dev].out[k] = frame
  <2>1. k \in before + 1 .. Len(out) + 1
    BY <1>0, <1>2, <1>3, <1>4, <1>5 DEF InSession
  <2>2. (k \in before + 1 .. Len(out) /\ k \in 1 .. Len(out)) \/ k = Len(out) + 1
    BY <1>2, <1>4, <2>1
  <2> QED
    BY <1>2, <1>3, <1>4, <2>2 DEF InSession
<1>9. \A d \in Uart : d # dev => InSession(d)' = InSession(d)
  BY <1>0, <1>3 DEF InSession
<1>6. DeliveredIsGenerated'
  <2>1. ASSUME NEW d \in Uart, NEW k \in InSession(d)'
        PROVE  rx'[d].out[k].sysTime <= sentPackNumTracker[d]
    <3>1. CASE d = dev
      BY <1>2, <1>3, <1>5, <2>1, <3>1 DEF OrderInv, DeliveredIsGenerated
    <3>2. CASE d # dev
      BY <1>3, <1>9, <2>1, <3>2 DEF OrderInv, DeliveredIsGenerated
    <3> QED
      BY <3>1, <3>2
  <2> QED
    BY <1>0, <2>1 DEF DeliveredIsGenerated
<1>7. ASSUME NEW conn \in Uart, conn # from
      PROVE  /\ InOrder(LinkPipeline(conn)') /\ NotNewer(LinkPipeline(conn)')
             /\ \A m \in 1 .. Len(LinkPipeline(conn)'), d \in Uart :
                   LinkPipeline(conn)'[m].dev = d =>
                      \A k \in InSession(d)' :
                         rx'[d].out[k].sysTime <= LinkPipeline(conn)'[m].sysTime
  <2>1. LinkPipeline(conn)' = LinkPipeline(conn)
    BY <1>0, <1>7, ProcessTakesFirst
  <2>2. ASSUME NEW m \in 1 .. Len(LinkPipeline(conn)) PROVE LinkPipeline(conn)[m].dev # dev
    BY <1>0, <1>3, <1>7, LinkPipelineUses, SameConnection
  <2> QED
    BY <1>3, <1>9, <2>1, <2>2 DEF OrderInv, NothingOlder
<1>8. /\ InOrder(LinkPipeline(from)') /\ NotNewer(LinkPipeline(from)')
      /\ \A m \in 1 .. Len(LinkPipeline(from)'), d \in Uart :
            LinkPipeline(from)'[m].dev = d =>
               \A k \in InSession(d)' :
                  rx'[d].out[k].sysTime <= LinkPipeline(from)'[m].sysTime
  <2>1. PICK q \in Seq(OnTheWay) : q = LinkPipeline(from)
    BY <1>0, LinkPipelineTyped
  <2>2. /\ q # <<>> /\ Head(q) = frame /\ LinkPipeline(from)' = Tail(q)
        /\ InOrder(q) /\ NotNewer(q) /\ NothingOlder(from)
    BY <1>1, <2>1 DEF Handed, OrderInv
  <2>3. PICK t \in Seq(OnTheWay) : t = Tail(q)
    BY <2>2, HeadTailProperties
  <2>4. InOrder(t) /\ NotNewer(t)
    BY <2>2, <2>3, TailThinned, ThinnedInOrder
  <2>5. /\ Len(q) \in Nat /\ Len(t) = Len(q) - 1 /\ q[1] = frame
        /\ \A m \in 1 .. Len(t) : t[m] = q[m + 1]
    BY <2>2, <2>3, HeadTailProperties, LenProperties
  <2>6. ASSUME NEW m \in 1 .. Len(t), NEW d \in Uart, t[m].dev = d,
               NEW k \in InSession(d)'
        PROVE  rx'[d].out[k].sysTime <= t[m].sysTime
    <3>1. 1 \in 1 .. Len(q) /\ m + 1 \in 1 .. Len(q) /\ 1 < m + 1 /\ t[m] = q[m + 1]
      BY <2>5
    <3>2. d = dev => frame.sysTime <= t[m].sysTime
      BY <1>2, <2>2, <2>5, <2>6, <3>1 DEF InOrder
    <3>3. \A j \in InSession(d) : rx[d].out[j].sysTime <= t[m].sysTime
      BY <2>1, <2>2, <2>6, <3>1 DEF NothingOlder
    <3>4. CASE d = dev
      BY <1>2, <1>5, <2>6, <3>2, <3>3, <3>4
    <3>5. CASE d # dev
      BY <1>3, <1>9, <2>6, <3>3, <3>5
    <3> QED
      BY <3>4, <3>5
  <2> QED
    BY <2>2, <2>3, <2>4, <2>6
<1> QED
  BY <1>0, <1>6, <1>7, <1>8 DEF OrderInv, InOrder, NotNewer, NothingOlder

\* When the sending switch restarts, nothing is under way and nothing of the session was
\* handed out.
LEMMA RestartOrder ==
    ASSUME LinkInv, SenderRestarts
    PROVE  OrderInv'
<1>1. \A dev \in Uart : InSession(dev)' = {}
  <2>1. ASSUME NEW dev \in Uart PROVE InSession(dev)' = {}
    <3>1. rx' = rx /\ session'.before[dev] = Len(rx[dev].out)
      BY DEF SenderRestarts, rxVars
    <3>2. PICK n \in Nat : n = Len(rx[dev].out)
      BY SessionBounds
    <3>3. n + 1 .. n = {}
      OBVIOUS
    <3> QED
      BY <3>1, <3>2, <3>3 DEF InSession
  <2> QED
    BY <2>1
<1>2. ASSUME NEW conn \in Uart PROVE Len(LinkPipeline(conn)') = 0
  <2>1. /\ air'[conn] = <<>> /\ receivedPackages'[conn] = <<>>
        /\ queuePackagesToSend'[conn] = <<>> /\ ph' = NoPackage
    BY DEF SenderRestarts, rxVars
  <2>2. LinkPipeline(conn)' = <<>> \o (<<>> \o <<>> \o <<>>)
    BY <2>1 DEF LinkPipeline, Pipeline, Popped
  <2> QED
    BY <2>2
<1> QED
  BY <1>1, <1>2 DEF OrderInv, DeliveredIsGenerated, InOrder, NotNewer, NothingOlder

LEMMA LinkStepOrder ==
    ASSUME WaitsOnOneConnection, LinkInv, LinkWaitInv, OrderInv, [LinkNext]_linkVars
    PROVE  OrderInv'
<1>0. /\ TypeOK /\ RxInv /\ WaitInv
      /\ rx = [d \in Uart |-> rx[d]]
      /\ \A dev \in Uart : NothingStored(rx[dev])
  BY DEF LinkInv, LinkWaitInv, RxInv, RxTypeOK, DeviceInv
<1>1. CASE ~SenderRestarts /\ (Sender \/ SenderGivesUp)
  <2>1. Next /\ UNCHANGED <<receivedPackages, rx>>
    BY <1>1, SenderStep DEF rxVars
  <2>2. \A conn \in Uart : LinkPipelineMoves(conn)
    BY <1>0, <2>1, SenderMovesPipeline DEF LinkPipelineMoves
  <2> QED
    BY <1>1, <2>1, <2>2, SameSession, MoveKeepsOrder
<1>2. ASSUME ~SenderRestarts, NEW from \in Uart, Transfer(from) PROVE OrderInv'
  <2>1. rx' = rx
    BY <1>2 DEF Transfer, PushToReceivedPackages, rxVars
  <2>2. \A conn \in Uart : LinkPipelineMoves(conn)
    BY <1>0, <1>2, TransferMovesPipeline DEF LinkPipelineMoves
  <2> QED
    BY <1>2, <2>1, <2>2, SameSession, MoveKeepsOrder
<1>3. ASSUME NEW from \in Uart, Process(from) PROVE OrderInv'
  BY <1>3, ProcessKeepsOrder
<1>4. CASE ~SenderRestarts /\ (UNCHANGED linkVars \/ \E conn \in Uart : Idle(conn))
  <2>1. UNCHANGED <<vars, receivedPackages>>
    BY <1>4 DEF linkVars, rxVars, Idle, ProcessNoPackage
  <2>2. rx' = rx
    BY <1>0, <1>4, NoTimeouts DEF linkVars, rxVars, Idle, ProcessNoPackage
  <2>3. ASSUME NEW conn \in Uart PROVE LinkPipelineMoves(conn)
    <3>1. LinkPipeline(conn)' = LinkPipeline(conn)
      BY <2>1 DEF vars, LinkPipeline, Pipeline, Popped
    <3> QED
      BY <1>0, <3>1, LinkPipelineTyped, ThinnedSelf DEF LinkPipelineMoves
  <2> QED
    BY <1>4, <2>2, <2>3, SameSession, MoveKeepsOrder
<1>5. CASE SenderRestarts
  BY <1>5, RestartOrder
<1> QED
  BY <1>1, <1>2, <1>3, <1>4, <1>5 DEF LinkNext

LEMMA LinkInitOrder == LinkInit => OrderInv
<1> SUFFICES ASSUME LinkInit PROVE OrderInv
  OBVIOUS
<1>1. \A dev \in Uart : InSession(dev) = {}
  BY DEF LinkInit, RxInit, InSession
<1>2. ASSUME NEW conn \in Uart PROVE Len(LinkPipeline(conn)) = 0
  <2>1. LinkPipeline(conn) = <<>> \o (<<>> \o <<>> \o <<>>)
    BY DEF LinkInit, Init, RxInit, LinkPipeline, Pipeline, Popped
  <2> QED
    BY <2>1
<1> QED
  BY <1>1, <1>2 DEF OrderInv, DeliveredIsGenerated, InOrder, NotNewer, NothingOlder

-----------------------------------------------------------------------------
(* Every step is one of DeviceStreams, or changes nothing there *)

GivenUpOf(dev) == {b.sysTime : b \in {g \in givenUp : g.dev = dev}}

NumbersOf(dev) == NumbersAfter(rx[dev].out, session.before[dev])

StreamInv == LinkInv /\ VanishInv /\ LinkWaitInv /\ OrderInv

LEMMA NumbersTyped ==
    ASSUME NEW out \in Seq(Frame), NEW before \in Nat, before <= Len(out)
    PROVE  /\ NumbersAfter(out, before) \in Seq(Nat)
           /\ Len(NumbersAfter(out, before)) = Len(out) - before
           /\ \A k \in 1 .. Len(out) - before :
                 /\ before + k \in 1 .. Len(out)
                 /\ NumbersAfter(out, before)[k] = out[before + k].sysTime
<1>1. PICK n \in Nat : n = Len(out) - before /\ Len(out) = before + n
  BY LenProperties
<1>2. \A k \in 1 .. n : before + k \in 1 .. Len(out)
  BY <1>1
<1>3. \A k \in 1 .. n : out[before + k].sysTime \in Nat
  <2>1. \A f \in Frame : f.sysTime \in Nat
    BY ConfigAssumption DEF Frame
  <2> QED
    BY <1>2, <2>1, ElementOfSeq
<1>4. NumbersAfter(out, before) = [k \in 1 .. n |-> out[before + k].sysTime]
  BY <1>1 DEF NumbersAfter
<1>5. PICK f \in [1 .. n -> Nat] : f = NumbersAfter(out, before)
  BY <1>3, <1>4
<1>6. f \in Seq(Nat) /\ Len(f) = n
  BY <1>1, <1>5
<1> QED
  BY <1>1, <1>2, <1>4, <1>5, <1>6

LEMMA NumbersAppended ==
    ASSUME NEW out \in Seq(Frame), NEW frame \in Frame, NEW before \in Nat,
           before <= Len(out)
    PROVE  NumbersAfter(Append(out, frame), before) =
              Append(NumbersAfter(out, before), frame.sysTime)
<1>1. PICK n \in Nat : n = frame.sysTime
  BY ConfigAssumption DEF Frame
<1>2. PICK more \in Seq(Frame) : more = Append(out, frame)
  BY AppendProperties
<1>3. /\ Len(out) \in Nat /\ Len(more) = Len(out) + 1 /\ more[Len(out) + 1] = frame
      /\ \A k \in 1 .. Len(out) : more[k] = out[k]
  BY <1>2, AppendProperties, LenProperties
<1>4. before <= Len(more)
  BY <1>3
<1>5. PICK l \in Nat : l = Len(out) - before /\ Len(more) - before = l + 1
                        /\ before + (l + 1) = Len(out) + 1
  BY <1>3
<1>6. PICK s \in Seq(Nat) : s = NumbersAfter(out, before) /\ Len(s) = l
  BY <1>5, NumbersTyped
<1>7. PICK t \in Seq(Nat) : t = NumbersAfter(more, before) /\ Len(t) = l + 1
  BY <1>4, <1>5, NumbersTyped
<1>8. PICK a \in Seq(Nat) : a = Append(s, n)
  BY AppendProperties
<1>9. /\ Len(a) = l + 1 /\ a[l + 1] = n
      /\ \A k \in 1 .. l : a[k] = s[k]
  BY <1>6, <1>8, AppendProperties
<1>10. ASSUME NEW k \in 1 .. l + 1 PROVE t[k] = a[k]
  <2>0. k \in 1 .. l \/ k = l + 1
    OBVIOUS
  <2>1. t[k] = more[before + k].sysTime
    BY <1>4, <1>5, <1>7, NumbersTyped
  <2>2. CASE k \in 1 .. l
    <3>1. before + k \in 1 .. Len(out) /\ s[k] = out[before + k].sysTime
      BY <1>5, <1>6, <2>2, NumbersTyped
    <3> QED
      BY <1>3, <1>9, <2>1, <2>2, <3>1
  <2>3. CASE k = l + 1
    BY <1>1, <1>3, <1>5, <1>9, <2>1, <2>3
  <2> QED
    BY <2>0, <2>2, <2>3
<1>11. t = a
  BY <1>7, <1>9, <1>10, SeqEqual
<1> QED
  BY <1>1, <1>2, <1>6, <1>7, <1>8, <1>11

LEMMA InitStream == LinkInit => Stream!Init
<1> SUFFICES ASSUME LinkInit PROVE Stream!Init
  OBVIOUS
<1>1. \A dev \in WaitDevices : dev \in Uart
  BY DEF WaitDevices
<1>2. /\ \A dev \in WaitDevices : sentPackNumTracker[dev] = 0
      /\ \A dev \in WaitDevices : rx[dev].out = <<>>
      /\ \A dev \in WaitDevices : session.before[dev] = 0
      /\ givenUp = {}
  BY <1>1 DEF LinkInit, Init, RxInit
<1>3. NumbersAfter(<<>>, 0) = <<>>
  BY DEF NumbersAfter
<1> QED
  BY <1>2, <1>3 DEF Stream!Init

\* What no step of the streams may depend on.
LEMMA StreamStutters ==
    ASSUME UNCHANGED <<sentPackNumTracker, rx, givenUp, session>>
    PROVE  UNCHANGED Stream!vars
  BY DEF Stream!vars, WaitDevices

\* The sender takes a number for a package it generates and for no other step.
LEMMA OnlyGeneratingCounts ==
    ASSUME Sender \/ SenderGivesUp, ~GenerateDataPackage
    PROVE  UNCHANGED sentPackNumTracker
<1>1. CASE \/ GenerateNothing \/ PushFails \/ PushWithoutAck \/ PushExpectingAck \/ StorePackage
           \/ StoreFails \/ ReceivingStep \/ DropGeneratedPackage \/ ResendDiscard
  BY <1>1 DEF GenerateNothing, PushFails, PushWithoutAck, PushExpectingAck, StorePackage,
     StoreFails, ReceivingStep, ReceiveNothing, ReceiveAck, ReceiveUnmatchedAck,
     DropGeneratedPackage, ResendDiscard, nhVars
<1>2. CASE ResendingStep
  BY <1>2 DEF ResendingStep, ResendDone, ResendSkip, ResendPackage, ResendPushFails,
     ResendWait, ResendConnectionExhausted, ResendNegative, nhVars
<1>3. CASE PackageHandler \/ Tick
  BY <1>3 DEF PackageHandler, SendAndFree, PopReadyToSend, Tick, nhVars
<1> QED
  BY <1>1, <1>2, <1>3 DEF Sender, SenderGivesUp, SendingStep

\* The last package of a device that may generate the next one is settled.
LEMMA GeneratesWhenSettled ==
    ASSUME WaitsOnOneConnection, StreamInv, GenerateDataPackage
    PROVE  /\ nh.dev \in WaitDevices
           /\ \/ sentPackNumTracker[nh.dev] = 0
              \/ \E k \in InSession(nh.dev) :
                    rx[nh.dev].out[k].sysTime = sentPackNumTracker[nh.dev]
              \/ sentPackNumTracker[nh.dev] \in GivenUpOf(nh.dev)
<1>0. /\ TypeOK /\ RxInv /\ nh \in HandlerState /\ nh.dev \in Uart /\ nh.step = "generate"
      /\ HoldsOneAtATime /\ NothingVanishes /\ StoredIsAlone
  BY DEF StreamInv, LinkInv, VanishInv, LinkWaitInv, WaitInv, TypeOK, HandlerState,
     GenerateDataPackage
<1>1. PICK conn \in Uart : ChosenConn(nh.dev, conn) /\ MayGenerateFor(nh.dev, conn)
  BY DEF GenerateDataPackage
<1>2. Uses(nh.dev, conn)
  BY <1>0, <1>1, FirstPriorityOnly, ConfigAssumption DEF ChosenConn
<1>3. Waits(nh.dev) /\ ackReceived[conn]
  BY <1>0, <1>1, <1>2 DEF MayGenerateFor, WaitsOnOneConnection, Uses, Waits
<1>4. \A i \in Occupied : ~Uses(unacknowledgedPackages[i].dev, conn)
  BY <1>0, <1>3 DEF StoredIsAlone, Releasing
<1>5. PICK dev \in Uart, n \in Nat : dev = nh.dev /\ n = sentPackNumTracker[nh.dev]
  <2>1. sentPackNumTracker \in [Uart -> 0 .. MaxPack] /\ MaxPack \in Nat
    BY <1>0, ConfigAssumption DEF TypeOK
  <2> QED
    BY <1>0, <2>1
<1>6. CASE n # 0
  <2>1. Accounted(dev, n)
    BY <1>0, <1>5, <1>6 DEF NothingVanishes
  <2>2. /\ pack = NoPackage
        /\ \A i \in Occupied : BufferOf(unacknowledgedPackages[i]) # [dev |-> dev, sysTime |-> n]
    BY <1>0, <1>2, <1>4, <1>5 DEF HoldsOneAtATime, BufferOf
  <2>3. ~Outdated(dev, n)
    BY <1>3, <1>5 DEF Outdated, Waits, WAIT_FOR_ACK_BEFORE_SENDING_NEXT_PACK,
       ONLY_SEND_OUT_NEW_PACKAGES
  <2>4. Stored(rx[dev]) = {}
    BY <1>0 DEF RxInv, DeviceInv, NothingStored, Stored
  <2>5. \/ \E k \in InSession(dev) : rx[dev].out[k].sysTime = n
        \/ [dev |-> dev, sysTime |-> n] \in givenUp
    <3>1. n \in HandedOut(dev) \/ [dev |-> dev, sysTime |-> n] \in givenUp
      BY <2>1, <2>2, <2>3, <2>4 DEF Accounted, Kept
    <3> QED
      BY <3>1 DEF HandedOut, InSession
  <2>6. [dev |-> dev, sysTime |-> n] \in givenUp => n \in GivenUpOf(dev)
    BY DEF GivenUpOf
  <2> QED
    BY <1>0, <1>3, <1>5, <2>5, <2>6 DEF WaitDevices
<1> QED
  BY <1>0, <1>3, <1>5, <1>6 DEF WaitDevices

LEMMA GeneratingAccepts ==
    ASSUME WaitsOnOneConnection, StreamInv, GenerateDataPackage,
           UNCHANGED <<rx, givenUp, session>>
    PROVE  Stream!Next
<1>1. PICK dev \in WaitDevices : dev = nh.dev
  BY GeneratesWhenSettled
<1>2. \A d \in WaitDevices : d \in Uart
  BY DEF WaitDevices
<1>3. /\ sentPackNumTracker \in [Uart -> 0 .. MaxPack]
      /\ sentPackNumTracker' = [sentPackNumTracker EXCEPT ![dev] = sentPackNumTracker[dev] + 1]
  BY <1>1 DEF StreamInv, LinkInv, TypeOK, GenerateDataPackage
<1>4. Stream!Settled(dev, sentPackNumTracker[dev])
  <2>1. \/ sentPackNumTracker[dev] = 0
        \/ \E k \in InSession(dev) : rx[dev].out[k].sysTime = sentPackNumTracker[dev]
        \/ sentPackNumTracker[dev] \in GivenUpOf(dev)
    BY <1>1, GeneratesWhenSettled
  <2>2. ASSUME NEW k \in InSession(dev), rx[dev].out[k].sysTime = sentPackNumTracker[dev]
        PROVE  Stream!WasDelivered(dev, sentPackNumTracker[dev])
    <3>1. PICK out \in Seq(Frame), before \in Nat :
             out = rx[dev].out /\ before = session.before[dev] /\ before <= Len(out)
      BY <1>2, SessionBounds DEF StreamInv
    <3>2. PICK j \in 1 .. Len(out) - before : before + j = k
      <4>1. k - before \in 1 .. Len(out) - before /\ before + (k - before) = k
        BY <2>2, <3>1, LenProperties DEF InSession
      <4> QED
        BY <4>1
    <3>3. /\ Len(NumbersAfter(out, before)) = Len(out) - before
          /\ NumbersAfter(out, before)[j] = out[before + j].sysTime
      BY <3>1, NumbersTyped
    <3> QED
      BY <2>2, <3>1, <3>2, <3>3 DEF Stream!WasDelivered
  <2> QED
    BY <2>1, <2>2 DEF Stream!Settled, GivenUpOf
<1>5. [d \in WaitDevices |-> sentPackNumTracker'[d]] =
         [[d \in WaitDevices |-> sentPackNumTracker[d]] EXCEPT ![dev] = @ + 1]
  BY <1>2, <1>3
<1>6. /\ [d \in WaitDevices |-> NumbersOf(d)'] = [d \in WaitDevices |-> NumbersOf(d)]
      /\ [d \in WaitDevices |-> GivenUpOf(d)'] = [d \in WaitDevices |-> GivenUpOf(d)]
  BY DEF GivenUpOf, NumbersOf
<1>7. Stream!Accept(dev)
  BY <1>4, <1>5, <1>6 DEF Stream!Accept, NumbersOf, GivenUpOf, WaitDevices
<1> QED
  BY <1>7 DEF Stream!Next

LEMMA ProcessingDelivers ==
    ASSUME WaitsOnOneConnection, StreamInv, NEW from \in Uart, Process(from)
    PROVE  Stream!Next
<1>0. /\ \A d \in WaitDevices : d \in Uart
      /\ \A d \in Uart : sentPackNumTracker[d] \in Nat
      /\ UNCHANGED <<sentPackNumTracker, givenUp, session>>
  <2>1. sentPackNumTracker \in [Uart -> 0 .. MaxPack] /\ MaxPack \in Nat
    BY ConfigAssumption DEF StreamInv, LinkInv, TypeOK
  <2> QED
    BY <2>1 DEF WaitDevices, Process, nhVars
<1>1. PICK frame \in Frame : Handed(from, frame)
  BY ProcessHands DEF StreamInv
<1>2. PICK dev \in WaitDevices, out \in Seq(Frame), before \in Nat, n \in Nat :
         /\ dev = frame.dev /\ n = frame.sysTime
         /\ out = rx[dev].out /\ before = session.before[dev] /\ before <= Len(out)
  <2>1. frame.dev \in WaitDevices /\ frame.dev \in Uart /\ frame.sysTime \in Nat
    BY <1>1, ConfigAssumption DEF Handed, WaitDevices, Frame
  <2> QED
    BY <2>1, SessionBounds DEF StreamInv
<1>3. /\ rx'[dev].out = Append(out, frame)
      /\ \A k \in before + 1 .. Len(out) : out[k].sysTime <= n
      /\ n \in 1 .. sentPackNumTracker[dev]
      /\ \A d \in WaitDevices : d # dev => rx'[d] = rx[d]
  <2>1. n \in 1 .. MaxPack /\ MaxPack \in Nat /\ dev \in Uart
    BY <1>0, <1>2, ConfigAssumption DEF Frame
  <2>2. n <= sentPackNumTracker[dev] /\ sentPackNumTracker[dev] \in Nat
    BY <1>0, <1>1, <1>2, <2>1 DEF Handed
  <2>3. n \in 1 .. sentPackNumTracker[dev]
    BY <2>1, <2>2
  <2>4. /\ rx'[dev].out = Append(out, frame)
        /\ \A k \in before + 1 .. Len(out) : out[k].sysTime <= n
        /\ \A d \in WaitDevices : d # dev => rx'[d] = rx[d]
    BY <1>0, <1>1, <1>2 DEF Handed, InSession
  <2> QED
    BY <2>3, <2>4
<1>4. NumbersAfter(Append(out, frame), before) = Append(NumbersAfter(out, before), n)
  BY <1>2, NumbersAppended
<1>5. [d \in WaitDevices |-> NumbersOf(d)'] =
         [[d \in WaitDevices |-> NumbersOf(d)] EXCEPT ![dev] = Append(@, n)]
  <2>1. NumbersOf(dev) = NumbersAfter(out, before) /\ NumbersOf(dev)' = Append(NumbersOf(dev), n)
    BY <1>0, <1>2, <1>3, <1>4 DEF NumbersOf
  <2>2. \A d \in WaitDevices : d # dev => NumbersOf(d)' = NumbersOf(d)
    BY <1>0, <1>3 DEF NumbersOf
  <2> QED
    BY <2>1, <2>2
<1>6. \A k \in 1 .. Len(NumbersOf(dev)) : NumbersOf(dev)[k] <= n
  <2>0. before <= Len(out) /\ Len(out) \in Nat
    BY <1>2, LenProperties
  <2>1. PICK l \in Nat : l = Len(out) - before /\ Len(out) = before + l
    BY <2>0
  <2>2. /\ Len(NumbersAfter(out, before)) = l
        /\ \A k \in 1 .. l : NumbersAfter(out, before)[k] = out[before + k].sysTime
    BY <2>0, <2>1, NumbersTyped
  <2>3. \A k \in 1 .. l : before + k \in before + 1 .. Len(out)
    BY <2>1
  <2>4. NumbersOf(dev) = NumbersAfter(out, before)
    BY <1>2 DEF NumbersOf
  <2> QED
    BY <1>3, <2>2, <2>3, <2>4
<1>7. /\ [d \in WaitDevices |-> sentPackNumTracker'[d]] = [d \in WaitDevices |-> sentPackNumTracker[d]]
      /\ [d \in WaitDevices |-> GivenUpOf(d)'] = [d \in WaitDevices |-> GivenUpOf(d)]
  BY <1>0 DEF GivenUpOf
<1>8. Stream!Deliver(dev, n)
  <2>1. n \in 1 .. [d \in WaitDevices |-> sentPackNumTracker[d]][dev]
    BY <1>3
  <2>2. \A k \in 1 .. Len([d \in WaitDevices |-> NumbersOf(d)][dev]) :
           [d \in WaitDevices |-> NumbersOf(d)][dev][k] <= n
    BY <1>2, <1>6
  <2> QED
    BY <1>5, <1>7, <2>1, <2>2 DEF Stream!Deliver, NumbersOf, GivenUpOf, WaitDevices
<1>9. n \in 1 .. [d \in WaitDevices |-> sentPackNumTracker[d]][dev]
  BY <1>3
<1> QED
  BY <1>8, <1>9 DEF Stream!Next

\* A package given up is the newest of its device.
LEMMA GivingUpGivesUp ==
    ASSUME WaitsOnOneConnection, StreamInv, SenderGivesUp
    PROVE  [Stream!Next]_(Stream!vars)
<1>0. /\ TypeOK /\ HeldIsNewest /\ StoredIsAlone /\ ConnectedInv
      /\ UNCHANGED <<rx, sentPackNumTracker, session>>
  BY DEF StreamInv, LinkInv, LinkWaitInv, WaitInv, SenderGivesUp, rxVars, DropGeneratedPackage,
     ResendDiscard
<1>1. PICK p \in Package :
         /\ givenUp' = givenUp \cup {BufferOf(p)}
         /\ p.sysTime = sentPackNumTracker[p.dev]
  <2>1. CASE DropGeneratedPackage /\ givenUp' = givenUp \cup {BufferOf(pack)}
    <3>1. pack \in Package /\ pack.dev = nh.dev /\ pack.sysTime = sentPackNumTracker[nh.dev]
      BY <1>0, <2>1 DEF DropGeneratedPackage, TypeOK, HeldIsNewest
    <3> QED
      BY <2>1, <3>1
  <2>2. CASE ResendDiscard /\ givenUp' = givenUp \cup {BufferOf(Visited)}
    <3>1. nh.index \in Occupied /\ Visited \in Package
      BY <1>0, <2>2, VisitedPackage DEF ResendDiscard, AtStoredPackage, Occupied
    <3>2. Visited.sysTime = sentPackNumTracker[Visited.dev]
      BY <1>0, <3>1 DEF ConnectedInv, Connected, StoredIsAlone, Visited
    <3> QED
      BY <2>2, <3>1, <3>2
  <2> QED
    BY <2>1, <2>2 DEF SenderGivesUp
<1>2. PICK dev \in Uart, n \in Nat : dev = p.dev /\ n = p.sysTime /\ n > 0
  BY ConfigAssumption DEF Package
<1>3. \A d : GivenUpOf(d)' = IF d = dev THEN GivenUpOf(d) \cup {n} ELSE GivenUpOf(d)
  <2>1. givenUp' = givenUp \cup {[dev |-> dev, sysTime |-> n]}
    BY <1>1, <1>2 DEF BufferOf
  <2>2. PICK r : r = [dev |-> dev, sysTime |-> n] /\ r.dev = dev /\ r.sysTime = n
    <3>1. [dev |-> dev, sysTime |-> n].dev = dev /\ [dev |-> dev, sysTime |-> n].sysTime = n
      OBVIOUS
    <3> QED
      BY <3>1
  <2>3. ASSUME NEW d
        PROVE  {g \in givenUp' : g.dev = d} =
                  {g \in givenUp : g.dev = d} \cup (IF d = dev THEN {r} ELSE {})
    BY <2>1, <2>2
  <2>4. ASSUME NEW d
        PROVE  GivenUpOf(d)' = IF d = dev THEN GivenUpOf(d) \cup {n} ELSE GivenUpOf(d)
    BY <2>2, <2>3 DEF GivenUpOf
  <2> QED
    BY <2>4
<1>4. /\ [d \in WaitDevices |-> sentPackNumTracker'[d]] = [d \in WaitDevices |-> sentPackNumTracker[d]]
      /\ [d \in WaitDevices |-> NumbersOf(d)'] = [d \in WaitDevices |-> NumbersOf(d)]
  BY <1>0 DEF NumbersOf
<1>5. CASE dev \in WaitDevices
  <2>1. [d \in WaitDevices |-> GivenUpOf(d)'] =
           [[d \in WaitDevices |-> GivenUpOf(d)]
               EXCEPT ![dev] = @ \cup {[d \in WaitDevices |-> sentPackNumTracker[d]][dev]}]
    BY <1>1, <1>2, <1>3, <1>5
  <2>2. [d \in WaitDevices |-> sentPackNumTracker[d]][dev] > 0
    BY <1>1, <1>2, <1>5
  <2>3. Stream!GiveUp(dev)
    BY <1>4, <1>5, <2>1, <2>2 DEF Stream!GiveUp, NumbersOf, GivenUpOf, WaitDevices
  <2> QED
    BY <1>5, <2>3 DEF Stream!Next
<1>6. CASE dev \notin WaitDevices
  <2>1. [d \in WaitDevices |-> GivenUpOf(d)'] = [d \in WaitDevices |-> GivenUpOf(d)]
    BY <1>3, <1>6
  <2>2. UNCHANGED Stream!vars
    BY <1>4, <2>1 DEF Stream!vars, NumbersOf, GivenUpOf, WaitDevices
  <2> QED
    BY <2>2
<1> QED
  BY <1>5, <1>6

\* A restart of the sending switch begins the streams anew.
LEMMA RestartingRestarts ==
    ASSUME StreamInv, SenderRestarts
    PROVE  Stream!Next
<1>1. /\ \A dev \in WaitDevices : dev \in Uart
      /\ givenUp' = {} /\ rx' = rx
  BY DEF WaitDevices, SenderRestarts, rxVars
<1>2. ASSUME NEW dev \in WaitDevices
      PROVE  /\ sentPackNumTracker'[dev] = 0
             /\ NumbersOf(dev)' = <<>>
             /\ GivenUpOf(dev)' = {}
  <2>1. sentPackNumTracker'[dev] = 0 /\ session'.before[dev] = Len(rx[dev].out)
    BY <1>1 DEF SenderRestarts
  <2>2. PICK l \in Nat : l = Len(rx[dev].out)
    BY <1>1, SessionBounds DEF StreamInv
  <2>3. NumbersOf(dev)' = [k \in 1 .. l - l |-> rx[dev].out[l + k].sysTime]
    BY <1>1, <2>1, <2>2 DEF NumbersOf, NumbersAfter
  <2>4. l - l = 0
    OBVIOUS
  <2>5. NumbersOf(dev)' = <<>>
    BY <2>3, <2>4
  <2>6. GivenUpOf(dev)' = {}
    BY <1>1 DEF GivenUpOf
  <2> QED
    BY <2>1, <2>5, <2>6
<1>3. Stream!Restart
  BY <1>2 DEF Stream!Restart, NumbersOf, GivenUpOf, WaitDevices
<1> QED
  BY <1>3 DEF Stream!Next

LEMMA StepStream ==
    ASSUME WaitsOnOneConnection, StreamInv, [LinkNext]_linkVars
    PROVE  [Stream!Next]_(Stream!vars)
<1>0. /\ RxInv
      /\ rx = [d \in Uart |-> rx[d]]
      /\ \A dev \in Uart : NothingStored(rx[dev])
  BY DEF StreamInv, LinkInv, LinkWaitInv, RxInv, RxTypeOK, DeviceInv
<1>1. CASE Sender /\ GenerateDataPackage
  BY <1>1, GeneratingAccepts DEF Sender, rxVars
<1>2. CASE Sender /\ ~GenerateDataPackage
  BY <1>2, OnlyGeneratingCounts, StreamStutters DEF Sender, rxVars
<1>3. CASE SenderGivesUp
  BY <1>3, GivingUpGivesUp
<1>4. ASSUME NEW conn \in Uart, Transfer(conn) PROVE UNCHANGED Stream!vars
  BY <1>4, StreamStutters DEF Transfer, PushToReceivedPackages, rxVars, nhVars
<1>5. ASSUME NEW conn \in Uart, Process(conn) PROVE Stream!Next
  BY <1>5, ProcessingDelivers
<1>6. ASSUME NEW conn \in Uart, Idle(conn) PROVE UNCHANGED Stream!vars
  <2>1. rx' = rx
    BY <1>0, <1>6, NoTimeouts DEF Idle, ProcessNoPackage
  <2> QED
    BY <1>6, <2>1, StreamStutters DEF Idle, vars
<1>7. CASE UNCHANGED linkVars
  BY <1>7, StreamStutters DEF linkVars, vars, rxVars
<1>8. CASE SenderRestarts
  BY <1>8, RestartingRestarts
<1> QED
  BY <1>1, <1>2, <1>3, <1>4, <1>5, <1>6, <1>7, <1>8 DEF LinkNext

\* The wireless link keeps what DeviceStreams promises to every device that waits for
\* acknowledges: whatever is lost, full, late or discarded, its packages come out at the remote
\* device in the order they went in, and the next one is taken from it only when the last one
\* has been delivered or given up (generateDataPackage, processReceivedPackage,
\* handleResendingOfUnacknowledgedPackages together).  A restart of the
\* sender begins the streams anew, and what came before it neither counts as delivered nor is
\* held against the packages that follow.
THEOREM LinkImplementsStreams ==
    ASSUME WaitsOnOneConnection, NoReordering, OneSessionIfOnlyNew
    PROVE  LinkSpec => StreamSpec
<1>0. AcknowledgesUsed
  BY DEF WaitsOnOneConnection, AcknowledgesUsed
<1>1. LinkInit => StreamInv
  <2>1. LinkInit => VanishInv
    BY DEF LinkInit, Init, VanishInv, HoldsOneAtATime, NothingVanishes
  <2> QED
    BY <2>1, LinkInitInv, LinkInitWaits, LinkInitOrder DEF StreamInv
<1>2. StreamInv /\ [LinkNext]_linkVars => StreamInv'
  <2> SUFFICES ASSUME StreamInv, [LinkNext]_linkVars PROVE StreamInv'
    OBVIOUS
  <2>1. LinkInv /\ VanishInv /\ LinkWaitInv /\ OrderInv
    BY DEF StreamInv
  <2>2. LinkInv'
    BY <1>0, <2>1, LinkStepInv
  <2>3. VanishInv'
    <3>1. TypeOK /\ nh.prio > 0 /\ HoldsOneAtATime
      BY <2>1 DEF LinkInv, VanishInv
    <3> QED
      BY <1>0, <2>1, <3>1, PrioStaysPositive, StaysOneAtATime, StepNothingVanishes DEF VanishInv
  <2>4. LinkWaitInv' /\ OrderInv'
    BY <2>1, LinkStepWaits, LinkStepOrder
  <2> QED
    BY <2>2, <2>3, <2>4 DEF StreamInv
<1>3. StreamInv /\ [LinkNext]_linkVars => [Stream!Next]_(Stream!vars)
  BY StepStream
<1> QED
  BY <1>1, <1>2, <1>3, InitStream, PTL DEF LinkSpec, StreamSpec, Stream!Spec

=============================================================================
