---------------------------- MODULE WirelessLink ----------------------------
(***************************************************************************)
(* Two serial switches: the devices of the sending switch (NetworkSender)  *)
(* talk over lossy wireless connections to the devices of the receiving    *)
(* switch (NetworkReceiver), which acknowledges.  A connection is a FIFO   *)
(* per direction.  On the way back it stands for the queue, the byte queue *)
(* and the radio together, so an acknowledge that finds any of them full   *)
(* is a lost one.                                                          *)
(*                                                                         *)
(* The sending switch may restart: nothing is stored, so its numbers start *)
(* at 1 again, while the receiving switch knows of the packages before.    *)
(* The session number that changes with it is looked at by nobody: the     *)
(* package handler resets a timestamp with it that is never read           *)
(* (PackageHandler.c:488-493).  Starting takes longer than anything stays  *)
(* in the radio and the queues.                                            *)
(***************************************************************************)
EXTENDS NetworkSender, NetworkReceiver

CONSTANT MaxRestarts  \* bound: restarts of the sending switch

VARIABLES
    givenUp,    \* history: the packages the sender has discarded
    session     \* history: number of the session, and how much devices got before it

linkVars == <<vars, rxVars, givenUp, session>>

ASSUME RestartAssumption == MaxRestarts \in Nat

LinkInit ==
    /\ Init
    /\ RxInit
    /\ givenUp = {}
    /\ session = [number |-> 0, before |-> [dev \in Uart |-> 0]]

\* The sending switch works.
Sender ==
    /\ \/ SendingStep
       \/ ReceivingStep
       \/ ResendingStep
       \/ PackageHandler
       \/ Tick
    /\ UNCHANGED <<rxVars, givenUp, session>>

SenderGivesUp ==
    /\ \/ DropGeneratedPackage /\ givenUp' = givenUp \cup {BufferOf(pack)}
       \/ ResendDiscard /\ givenUp' = givenUp \cup {BufferOf(Visited)}
    /\ UNCHANGED <<rxVars, session>>

\* networkHandler_TaskInit once more, with a new session number.
SenderRestarts ==
    /\ session.number < MaxRestarts
    /\ \A conn \in Uart : <<air[conn], acks[conn], receivedPackages[conn]>> = <<<<>>, <<>>, <<>>>>
    /\ session' = [number |-> session.number + 1,
                   before |-> [dev \in Uart |-> Len(rx[dev].out)]]
    /\ queuePackagesToSend' = [conn \in Uart |-> <<>>]
    /\ unacknowledgedPackages' = [i \in Slots |-> NoPackage]
    /\ numberOfUnacknowledgedPackages' = 0
    /\ sentPackNumTracker' = [dev \in Uart |-> 0]
    /\ ackReceived' = [conn \in Uart |-> TRUE]
    /\ live' = {}
    /\ nh' = [step |-> "generate", dev |-> 0, prio |-> 1, index |-> 0, left |-> 0]
    /\ pack' = NoPackage
    /\ ph' = NoPackage
    /\ givenUp' = {}
    /\ UNCHANGED <<air, acks, rxVars>>

\* The receiving switch assembles the next frame, or it is lost on the way.
Transfer(conn) ==
    /\ air[conn] # <<>>
    /\ air' = [air EXCEPT ![conn] = Tail(@)]
    /\ \/ PushToReceivedPackages(conn, Head(air[conn]))
       \/ UNCHANGED rxVars
    /\ UNCHANGED <<nhVars, queuePackagesToSend, live, nh, ph, acks, givenUp, session>>

\* generateAckPackage: the payload of the acknowledge is the number of the package.
AckOf(frame) == [dev |-> frame.dev, sysTime |-> frame.sysTime]

\* A processed package is acknowledged, whatever became of it, if its connection uses
\* acknowledges.
Process(conn) ==
    /\ ProcessReceivedPackage(conn)
    /\ \/ /\ SendAckPerWirelessConn[conn]
          /\ Len(acks[conn]) < LinkLen
          /\ acks' = [acks EXCEPT ![conn] = Append(@, AckOf(Head(receivedPackages[conn])))]
       \/ UNCHANGED acks
    /\ UNCHANGED <<nhVars, queuePackagesToSend, live, nh, ph, air, givenUp, session>>

Idle(conn) == ProcessNoPackage(conn) /\ UNCHANGED <<vars, givenUp, session>>

LinkNext ==
    \/ Sender
    \/ SenderGivesUp
    \/ SenderRestarts
    \/ \E conn \in Uart : Transfer(conn) \/ Process(conn) \/ Idle(conn)

LinkSpec == LinkInit /\ [][LinkNext]_linkVars

-----------------------------------------------------------------------------
(* Properties *)

\* Numbers start at 1 again with every session of the sending switch, so a number means a
\* package of the present session: the numbers the device got in it.
HandedOut(dev) ==
    {rx[dev].out[k].sysTime : k \in session.before[dev] + 1 .. Len(rx[dev].out)}

\* Package n of the session was handed to the device or is kept for reordering; after a
\* restart nobody can tell which session a package kept for reordering is of.
Kept(dev, n) ==
    \/ n \in HandedOut(dev)
    \/ /\ session.number = 0
       /\ \E i \in Stored(rx[dev]) : rx[dev].stored[i].sysTime = n

\* The device wants new packages only and got a newer one in the session.
Outdated(dev, n) ==
    /\ PackNumberingProcessingMode[dev] = ONLY_SEND_OUT_NEW_PACKAGES
    /\ \E m \in HandedOut(dev) : m > n

\* An acknowledge means the package of this session, or a newer one of it where only newer
\* ones are wanted, has been handed to the device or is kept for reordering
\* (xx_ErrorCorrection.tex:36).
AckMeansKept ==
    \A conn \in Uart : \A k \in 1 .. Len(acks[conn]) :
        LET ack == acks[conn][k]
        IN  Kept(ack.dev, ack.sysTime) \/ Outdated(ack.dev, ack.sysTime)

\* What the package handler says of a new session: it notes that the session changed and
\* starts anew (PackageHandler.c:490), so that whatever the mode of the device, a package
\* acknowledged in the session, or a newer one, was handed out in it.
NewSessionKept ==
    \A conn \in Uart : \A k \in 1 .. Len(acks[conn]) :
        LET ack == acks[conn][k]
        IN  \E m \in HandedOut(ack.dev) : m >= ack.sysTime

\* Nothing vanishes: every package generated in this session for a connection with
\* acknowledges is on its way out of the network handler, still stored, kept by the remote
\* switch or given up.
Accounted(dev, n) ==
    LET b == [dev |-> dev, sysTime |-> n]
    IN  \/ b \in givenUp
        \/ Kept(dev, n) \/ Outdated(dev, n)
        \/ pack # NoPackage /\ BufferOf(pack) = b
        \/ \E i \in Occupied : BufferOf(unacknowledgedPackages[i]) = b

NothingVanishes ==
    \A dev \in Uart : \A n \in 1 .. sentPackNumTracker[dev] : Accounted(dev, n)

\* What the link promises its WAIT_FOR_ACK devices, in every session of the sending switch
\* anew: the packages before it do not count.
NumbersAfter(out, before) == [k \in 1 .. Len(out) - before |-> out[before + k].sysTime]

WaitDevices == {dev \in Uart : Waits(dev)}

Stream == INSTANCE DeviceStreams WITH
    Device <- WaitDevices,
    accepted <- [dev \in WaitDevices |-> sentPackNumTracker[dev]],
    delivered <- [dev \in WaitDevices |-> NumbersAfter(rx[dev].out, session.before[dev])],
    givenUp <- [dev \in WaitDevices |-> {b.sysTime : b \in {g \in givenUp : g.dev = dev}}]

StreamSpec == Stream!Spec

=============================================================================
