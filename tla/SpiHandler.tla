------------------------------ MODULE SpiHandler ------------------------------
(***************************************************************************)
(* The SPI task (SpiHandler.c: spiHandler_TaskEntry): it moves bytes       *)
(* between the byte queues of the other tasks and the hardware buffers of  *)
(* the two UART chips, for one UART, and limits, drops, encodes and        *)
(* decodes on the way (Golay.c).                                           *)
(*                                                                         *)
(* Every transfer is one step here: SpiTransfer shows from when on the     *)
(* transfers are in step with their interrupts.  The task has the highest  *)
(* priority, so the other tasks run only while it sleeps or is blocked by  *)
(* the shell's queue; the chips run all the time.                          *)
(*                                                                         *)
(* The chips are external.  A plug connects the output of each with its    *)
(* input: the switch reads what it writes, as its peer, which runs the     *)
(* same code, would.  The test modes (EnableStressTest,                    *)
(* TestHwLoopbackOnly) are left out.                                       *)
(*                                                                         *)
(* Bytes are numbered in the order they are written to a queue.            *)
(*                                                                         *)
(* Variants with a plausible bug: ReadThrice, OneTooFewDropped,            *)
(* TransmitterLeftOn, LimitNeverReset and SpaceNotHalved.                  *)
(***************************************************************************)
EXTENDS Integers, Sequences, FiniteSets

CONSTANTS
    FifoSize,       \* HW_FIFO_SIZE, for each slave
    QueueSize,      \* BYTE_QUEUE_SIZE, for each slave
    MaxThroughput,  \* MaxThroughputWirelessConn
    UseGolay,       \* UseGolayPerWlConn
    UseCts,         \* UseCtsPerWirelessConn
    Loads           \* bound: one of them bounds the bytes written for each slave

VARIABLES
    chipRx,      \* received bytes in the buffers of the chips
    chipTx,      \* bytes to be transmitted in the buffers of the chips
    txDisabled,  \* bit TxDisabl in register MODE1 of the chips
    rxQueue,     \* RxWirelessBytes, RxDeviceBytes
    txQueue,     \* TxWirelessBytes, TxDeviceBytes
    task,        \* what the SPI task is doing, with its local variables
    throughput,  \* throughputPerWlConn
    over,        \* the intervals that have passed since they were started
    dropped,     \* numberOfDroppedBytes
    written,     \* history: bytes written by the other tasks
    got,         \* history: bytes taken by the other tasks
    overrun,     \* history: bytes a full chip did not receive
    misaligned   \* history: Golay blocks were cut

vars == <<chipRx, chipTx, txDisabled, rxQueue, txQueue, task, throughput, over, dropped,
          written, got, overrun, misaligned>>

Wireless == "MAX_14830_WIRELESS_SIDE"
Device == "MAX_14830_DEVICE_SIDE"
Slaves == {Wireless, Device}

PACK_FILL == 0

\* What decoding makes of six bytes that are not one block.
Junk == -1

Bytes(s) == {Junk, PACK_FILL} \cup UNION {1 .. l[s] : l \in Loads}

Coded(s) == s = Wireless /\ UseGolay

ASSUME SpiAssumption ==
    /\ FifoSize \in [Slaves -> Nat \ {0}]
    /\ QueueSize \in [Slaves -> Nat]
    /\ \A s \in Slaves : FifoSize[s] < QueueSize[s]
    /\ MaxThroughput \in Nat
    /\ UseGolay \in BOOLEAN
    /\ UseCts \in BOOLEAN
    /\ Loads \subseteq [Slaves -> Nat]

\* One byte of a Golay block: the three bytes the block stands for and its place in it.
Symbols == [block : [1 .. 3 -> Bytes(Wireless)], part : 1 .. 6]

OnChip(s) == IF Coded(s) THEN Symbols ELSE Bytes(s)

Steps == {"sleep", "rx_level", "rx_burst", "rx_store", "tx_level", "tx_off", "tx_burst", "tx_on"}

Intervals == {"second", "readDelay", "encodeDelay"}

TypeOK ==
    /\ \A s \in Slaves : /\ chipRx[s] \in Seq(OnChip(s)) /\ Len(chipRx[s]) <= FifoSize[s]
                         /\ chipTx[s] \in Seq(OnChip(s)) /\ Len(chipTx[s]) <= FifoSize[s]
                         /\ rxQueue[s] \in Seq(Bytes(s)) /\ Len(rxQueue[s]) <= QueueSize[s]
                         /\ txQueue[s] \in Seq(Bytes(s)) /\ Len(txQueue[s]) <= QueueSize[s]
                         /\ got[s] \in Seq(Bytes(s))
                         /\ written[s] \in Nat
    /\ txDisabled \in [Slaves -> BOOLEAN]
    /\ task.slave \in Slaves /\ task.step \in Steps /\ task.loop \in 0 .. 1
    /\ task.n \in 0 .. FifoSize[task.slave]
    /\ task.step = "rx_store" => task.bytes \in Seq(Bytes(task.slave))
    /\ task.step \in {"tx_off", "tx_burst"} => task.bytes \in Seq(OnChip(task.slave))
    /\ throughput \in Nat
    /\ over \subseteq Intervals
    /\ dropped \in [Slaves -> Nat]
    /\ overrun \in [Slaves -> Nat]
    /\ misaligned \in BOOLEAN

Each(x) == [s \in Slaves |-> x]

At(step, slave) == [step |-> step, slave |-> slave, loop |-> 0, n |-> 0, bytes |-> <<>>]

\* The initialisation disables all transmitters (SpiHandler.c:184) and has not read or
\* encoded anything yet.
Init ==
    /\ chipRx = Each(<<>>)
    /\ chipTx = Each(<<>>)
    /\ txDisabled = Each(TRUE)
    /\ rxQueue = Each(<<>>)
    /\ txQueue = Each(<<>>)
    /\ task = At("sleep", Device)
    /\ throughput = 0
    /\ over = Intervals
    /\ dropped = Each(0)
    /\ written = Each(0)
    /\ got = Each(<<>>)
    /\ overrun = Each(0)
    /\ misaligned = FALSE

-----------------------------------------------------------------------------
(* The surroundings: other tasks, chips and time *)

OthersRun == task.step \in {"sleep", "rx_store"}

\* pushToByteQueue, which fails when the queue is full
Push(s) ==
    /\ OthersRun
    /\ Len(txQueue[s]) < QueueSize[s]
    /\ written' = [written EXCEPT ![s] = @ + 1]
    /\ \E l \in Loads : \A t \in Slaves : written'[t] <= l[t]
    /\ txQueue' = [txQueue EXCEPT ![s] = Append(@, written'[s])]
    /\ UNCHANGED <<chipRx, chipTx, txDisabled, rxQueue, task, throughput, over, dropped, got,
                   overrun, misaligned>>

\* popFromByteQueue
Pop(s) ==
    /\ OthersRun
    /\ rxQueue[s] # <<>>
    /\ got' = [got EXCEPT ![s] = Append(@, Head(rxQueue[s]))]
    /\ rxQueue' = [rxQueue EXCEPT ![s] = Tail(@)]
    /\ UNCHANGED <<chipRx, chipTx, txDisabled, txQueue, task, throughput, over, dropped,
                   written, overrun, misaligned>>

\* A chip transmits a byte, which is lost when its buffer for received bytes is full.
Transmit(s) ==
    /\ chipTx[s] # <<>>
    /\ ~txDisabled[s]
    /\ chipTx' = [chipTx EXCEPT ![s] = Tail(@)]
    /\ IF Len(chipRx[s]) < FifoSize[s]
       THEN /\ chipRx' = [chipRx EXCEPT ![s] = Append(@, Head(chipTx[s]))]
            /\ UNCHANGED <<overrun, misaligned>>
       ELSE /\ overrun' = [overrun EXCEPT ![s] = @ + 1]
            /\ misaligned' = (misaligned \/ Coded(s))
            /\ UNCHANGED chipRx
    /\ UNCHANGED <<txDisabled, rxQueue, txQueue, task, throughput, over, dropped, written, got>>

Pass(interval) ==
    /\ interval \notin over
    /\ over' = over \cup {interval}
    /\ UNCHANGED <<chipRx, chipTx, txDisabled, rxQueue, txQueue, task, throughput, dropped,
                   written, got, overrun, misaligned>>

-----------------------------------------------------------------------------
(* Golay code *)

\* golay_encode: a block of six for every three bytes
Encoded(bytes) ==
    [i \in 1 .. 2 * Len(bytes) |->
        LET k == (i - 1) \div 6
        IN  [block |-> SubSeq(bytes, 3 * k + 1, 3 * k + 3), part |-> ((i - 1) % 6) + 1]]

\* The block that begins at symbol i.
BlockAt(symbols, i) ==
    IF \A k \in 1 .. 6 : symbols[i + k - 1] = [block |-> symbols[i].block, part |-> k]
    THEN symbols[i].block
    ELSE <<Junk, Junk, Junk>>

\* golay_decode: what is left of less than six bytes is not decoded
Decoded(symbols) ==
    [i \in 1 .. 3 * (Len(symbols) \div 6) |->
        BlockAt(symbols, 6 * ((i - 1) \div 3) + 1)[((i - 1) % 3) + 1]]

\* Fill characters up to a multiple of three.
Filled(bytes) ==
    bytes \o [i \in 1 .. (3 - (Len(bytes) % 3)) % 3 |-> PACK_FILL]

-----------------------------------------------------------------------------
(* readHwBufAndWriteToQueue *)

Wake ==
    /\ task.step = "sleep"
    /\ task' = At("rx_level", Device)
    /\ UNCHANGED <<chipRx, chipTx, txDisabled, rxQueue, txQueue, throughput, over, dropped,
                   written, got, overrun, misaligned>>

\* Of encoded bytes multiples of six are read, and a single one when the last reading was
\* long ago.
ToRead(s, level) ==
    IF ~Coded(s) \/ level % 6 = 0 THEN level
    ELSE IF "readDelay" \in over THEN 1
    ELSE level - (level % 6)

ReadLevel ==
    /\ task.step = "rx_level"
    /\ LET s == task.slave
           n == ToRead(s, Len(chipRx[s]))
       IN  /\ task' = IF n = 0 THEN At("tx_level", s)
                      ELSE [task EXCEPT !.step = "rx_burst", !.n = n]
           /\ over' = IF Coded(s) /\ n > 0 THEN over \ {"readDelay"} ELSE over
    /\ UNCHANGED <<chipRx, chipTx, txDisabled, rxQueue, txQueue, throughput, dropped, written,
                   got, overrun, misaligned>>

ReadThrice ==
    IF task.loop < 2 THEN [At("rx_level", task.slave) EXCEPT !.loop = task.loop + 1]
    ELSE At("tx_level", task.slave)

\* The hardware buffer is read twice in a cycle.
AfterReading ==
    IF task.loop = 0 THEN [At("rx_level", task.slave) EXCEPT !.loop = 1]
    ELSE At("tx_level", task.slave)

OneTooFewDropped(queue, surplus) == SubSeq(queue, surplus, Len(queue))

\* The oldest bytes make room.
OldestDropped(queue, surplus) == SubSeq(queue, surplus + 1, Len(queue))

\* When bytes had to be dropped a warning goes to the shell's queue, which may block.
ReadBurst ==
    /\ task.step = "rx_burst"
    /\ LET s == task.slave
           symbols == SubSeq(chipRx[s], 1, task.n)
           bytes == IF Coded(s) THEN Decoded(symbols) ELSE symbols
           surplus == Len(bytes) - (QueueSize[s] - Len(rxQueue[s]))
       IN  /\ chipRx' = [chipRx EXCEPT ![s] = SubSeq(@, task.n + 1, Len(@))]
           /\ misaligned' = (misaligned \/ (Coded(s) /\ task.n % 6 # 0))
           /\ IF surplus > 0
              THEN /\ rxQueue' = [rxQueue EXCEPT ![s] = OldestDropped(@, surplus)]
                   /\ dropped' = [dropped EXCEPT ![s] = @ + surplus]
                   /\ task' = [task EXCEPT !.step = "rx_store", !.bytes = bytes]
              ELSE /\ rxQueue' = [rxQueue EXCEPT ![s] = @ \o bytes]
                   /\ task' = AfterReading
                   /\ UNCHANGED dropped
    /\ UNCHANGED <<chipTx, txDisabled, txQueue, throughput, over, written, got, overrun>>

StoreRead ==
    /\ task.step = "rx_store"
    /\ rxQueue' = [rxQueue EXCEPT ![task.slave] = @ \o task.bytes]
    /\ task' = AfterReading
    /\ UNCHANGED <<chipRx, chipTx, txDisabled, txQueue, throughput, over, dropped, written, got,
                   overrun, misaligned>>

-----------------------------------------------------------------------------
(* readQueueAndWriteToHwBuf *)

NextSlave(s) == IF s = Device THEN At("rx_level", Wireless) ELSE At("sleep", Device)

Smaller(a, b) == IF a < b THEN a ELSE b

SpaceNotHalved(s) == FifoSize[s] - Len(chipTx[s])

\* Golay doubles the number of bytes.
SpaceLeft(s) ==
    IF Coded(s) THEN (FifoSize[s] - Len(chipTx[s])) \div 2 ELSE FifoSize[s] - Len(chipTx[s])

\* Of bytes to be encoded multiples of three are taken, and one or two when the last
\* encoding was long ago.
ToWrite(s) ==
    LET n == Smaller(SpaceLeft(s), Len(txQueue[s]))
    IN  IF ~Coded(s) THEN n
        ELSE IF n >= 3 THEN n - (n % 3)
        ELSE IF "encodeDelay" \in over THEN n
        ELSE 0

LimitNeverReset(s) == throughput

\* The limit is for the wireless side; its counter is shared with the device side.
Counted(s) == IF s = Wireless /\ "second" \in over THEN 0 ELSE throughput

Popped(s) ==
    LET left == IF Counted(s) < MaxThroughput THEN MaxThroughput - Counted(s) ELSE 0
        n == IF s = Wireless THEN Smaller(ToWrite(s), left) ELSE ToWrite(s)
    IN  SubSeq(txQueue[s], 1, n)

WriteLevel ==
    /\ task.step = "tx_level"
    /\ LET s == task.slave
           asked == txQueue[s] # <<>>
           n == ToWrite(s)
           popped == IF n > 0 THEN Popped(s) ELSE <<>>
       IN  /\ task' = IF n = 0 THEN NextSlave(s)
                      ELSE [At("tx_off", s) EXCEPT
                              !.bytes = IF Coded(s) THEN Encoded(Filled(popped)) ELSE popped]
           /\ txQueue' = [txQueue EXCEPT ![s] = SubSeq(@, Len(popped) + 1, Len(@))]
           /\ throughput' = IF asked THEN Counted(s) + Len(popped) ELSE throughput
           /\ over' = over \ ((IF asked /\ s = Wireless THEN {"second"} ELSE {})
                              \cup (IF n > 0 /\ Coded(s) THEN {"encodeDelay"} ELSE {}))
    /\ UNCHANGED <<chipRx, chipTx, txDisabled, rxQueue, dropped, written, got, overrun, misaligned>>

\* With hardware flow control the transmitter is left alone.
Controlled(s) == s = Wireless /\ UseCts

TransmitterLeftOn ==
    /\ task.step = "tx_off"
    /\ task' = [task EXCEPT !.step = "tx_burst"]
    /\ UNCHANGED <<chipRx, chipTx, txDisabled, rxQueue, txQueue, throughput, over, dropped,
                   written, got, overrun, misaligned>>

DisableTransmitter ==
    /\ task.step = "tx_off"
    /\ task' = [task EXCEPT !.step = "tx_burst"]
    /\ txDisabled' = [txDisabled EXCEPT ![task.slave] = @ \/ ~Controlled(task.slave)]
    /\ UNCHANGED <<chipRx, chipTx, rxQueue, txQueue, throughput, over, dropped, written, got,
                   overrun, misaligned>>

\* What does not fit is lost.
WriteBurst ==
    /\ task.step = "tx_burst"
    /\ LET s == task.slave
           all == chipTx[s] \o task.bytes
       IN  /\ chipTx' = [chipTx EXCEPT ![s] = SubSeq(all, 1, Smaller(FifoSize[s], Len(all)))]
           /\ misaligned' = (misaligned \/ (Coded(s) /\ Len(all) > FifoSize[s]))
    /\ task' = [task EXCEPT !.step = "tx_on", !.bytes = <<>>]
    /\ UNCHANGED <<chipRx, txDisabled, rxQueue, txQueue, throughput, over, dropped, written, got,
                   overrun>>

EnableTransmitter ==
    /\ task.step = "tx_on"
    /\ task' = NextSlave(task.slave)
    /\ txDisabled' = [txDisabled EXCEPT ![task.slave] = @ /\ Controlled(task.slave)]
    /\ UNCHANGED <<chipRx, chipTx, rxQueue, txQueue, throughput, over, dropped, written, got,
                   overrun, misaligned>>

TaskStep ==
    \/ Wake
    \/ ReadLevel
    \/ ReadBurst
    \/ StoreRead
    \/ WriteLevel
    \/ DisableTransmitter
    \/ WriteBurst
    \/ EnableTransmitter

Next ==
    \/ \E s \in Slaves : Push(s)
    \/ \E s \in Slaves : Pop(s)
    \/ \E s \in Slaves : Transmit(s)
    \/ \E i \in Intervals : Pass(i)
    \/ TaskStep

\* The task runs periodically, enabled transmitters transmit and time passes.
Fairness ==
    /\ WF_vars(TaskStep)
    /\ \A s \in Slaves : SF_vars(Transmit(s))
    /\ \A i \in Intervals : WF_vars(Pass(i))

Spec == Init /\ [][Next]_vars /\ Fairness

-----------------------------------------------------------------------------
(* Properties *)

\* The bytes of slave s the task holds, before and behind the chip.
Held(s, steps) == IF task.slave = s /\ task.step \in steps THEN task.bytes ELSE <<>>

Line(s) == chipRx[s] \o chipTx[s] \o Held(s, {"tx_off", "tx_burst"})

OnTheWay(s) ==
    got[s] \o rxQueue[s] \o Held(s, {"rx_store"})
    \o (IF Coded(s) THEN Decoded(Line(s)) ELSE Line(s)) \o txQueue[s]

\* The places of the bytes that are no fill characters.
Real(bytes) == {i \in 1 .. Len(bytes) : bytes[i] # PACK_FILL}

InOrder(bytes, last) ==
    /\ \A i \in Real(bytes) : bytes[i] \in 1 .. last
    /\ \A i, j \in Real(bytes) : i < j => bytes[i] < bytes[j]

\* Through queues, chips, dropping and coding the bytes stay in order, none is duplicated,
\* and the ones missing are those counted as dropped and those a full chip did not take
\* (SpiHandler.c:535-566).  On a connection with Golay code this is so until a block is cut.
BytesAccountedFor ==
    \A s \in Slaves :
        ~(Coded(s) /\ misaligned) =>
            LET there == Cardinality(Real(OnTheWay(s)))
            IN  /\ InOrder(OnTheWay(s), written[s])
                /\ there + overrun[s] + dropped[s] >= written[s]
                /\ ~Coded(s) => there + overrun[s] + dropped[s] = written[s]

Made(symbols) == \E i \in DOMAIN symbols : PACK_FILL \in {symbols[i].block[k] : k \in 1 .. 3}

\* What was popped from a queue fits into the chip when it is written, since the level was
\* read before and the chip only gets emptier (SpiHandler.c:631).  This does not hold for
\* blocks made up with fill characters: see the hazards.
WritesFit ==
    task.step \in {"tx_off", "tx_burst"} /\ ~(Coded(task.slave) /\ Made(task.bytes))
        => Len(chipTx[task.slave]) + Len(task.bytes) <= FifoSize[task.slave]

\* Bytes are written to a chip only while it does not transmit, unless flow control decides
\* (SpiHandler.c:686-711).
WrittenWhileDisabled ==
    [][\A s \in Slaves : Len(chipTx'[s]) > Len(chipTx[s]) => txDisabled[s] \/ Controlled(s)]_vars

\* Whatever the limits, delays and fill characters, queued bytes are transmitted, unless flow
\* control is configured: then the transmitter the initialisation disabled is never enabled.
EverythingLeaves ==
    \A s \in Slaves :
        (~Controlled(s) /\ txQueue[s] # <<>>) ~> (txQueue[s] = <<>> /\ chipTx[s] = <<>>)

=============================================================================
