-------------------------- MODULE SpiTransfer_proofs --------------------------
(***************************************************************************)
(* The flags of the SPI transfers: one block at a time from the start, and *)
(* everything else from the moment the task and the interrupts are in step,*)
(* which they then stay for ever.                                          *)
(***************************************************************************)
EXTENDS SpiTransfer, TLAPS

\* The flag spiTxDone stands for an idle driver, or is taken by the call about to send.
TxDoneMeansIdle ==
    /\ spiTxDone => sending = NothingSent
    /\ pc = "send" => ~spiTxDone /\ sending = NothingSent

SelectedForCall == call.step = "init" \/ selected = call.slave

\* A burst that is being written is followed by the call that reenables transmission, for the
\* same slave.
BurstWritten ==
    sending.buffer = "buffer" =>
        /\ sending.intact
        /\ sending.slave = selected
        /\ \/ pc = "returned" /\ call.step = "tx_burst"
           \/ pc = "wait_tx" /\ call.step = "tx_on"

ReadWaitedFor ==
    pc \in {"wait_rx", "reset_rx"} =>
        /\ sending.intact
        /\ sending = NothingSent \/ sending.slave = selected

SinglesAreShort == sending.buffer = "writeData" => ~sending.burst

\* The inductive invariant.
IInv ==
    /\ TypeOK
    /\ TxDoneMeansIdle
    /\ SelectedForCall
    /\ BurstWritten
    /\ ReadWaitedFor
    /\ SinglesAreShort

\* What may follow a call is a call, and what follows a burst reenables its slave.
LEMMA FollowingCalls ==
    ASSUME NEW c \in [step : Steps, slave : Slaves, loop : 0 .. 1], NEW d \in Following(c)
    PROVE  /\ d \in [step : Steps, slave : Slaves, loop : 0 .. 1]
           /\ c.step = "tx_burst" => d.step = "tx_on" /\ d.slave = c.slave
           /\ d.step = "tx_burst" => c.step = "tx_off"
  <1>1. c.step \in Steps /\ c.slave \in Slaves /\ c.loop \in 0 .. 1
    OBVIOUS
  <1>2. Other(c.slave) \in Slaves
    BY DEF Other, Slaves
  <1>3. NextSlave("MAX_14830_WIRELESS_SIDE") \subseteq
            [step : {"rx_level", "tx_level"}, slave : Slaves, loop : 0 .. 1]
    BY DEF NextSlave, To, Other, Slaves
  <1>4. NextSlave(c.slave) \subseteq
            [step : {"rx_level", "tx_level"}, slave : Slaves, loop : 0 .. 1]
    BY <1>2 DEF NextSlave, To
  <1>5. CASE c.step = "init"
    BY <1>3, <1>5 DEF Following, Steps
  <1>6. CASE c.step = "rx_level"
    BY <1>1, <1>4, <1>6 DEF Following, WriteSide, To, Steps
  <1>7. CASE c.step = "rx_burst"
    BY <1>1, <1>4, <1>7 DEF Following, WriteSide, To, Steps
  <1>8. CASE c.step = "tx_level"
    BY <1>1, <1>4, <1>8 DEF Following, To, Steps
  <1>9. CASE c.step = "tx_off"
    BY <1>1, <1>9 DEF Following, To, Steps
  <1>10. CASE c.step = "tx_burst"
    BY <1>1, <1>10 DEF Following, To, Steps
  <1>11. CASE c.step = "tx_on"
    BY <1>1, <1>4, <1>11 DEF Following, Steps
  <1> QED
    BY <1>1, <1>5, <1>6, <1>7, <1>8, <1>9, <1>10, <1>11 DEF Steps

LEMMA InitIInv == Init => IInv
  <1> SUFFICES ASSUME Init PROVE IInv
    OBVIOUS
  <1>1. TypeOK
    <2>1. call \in [step : Steps, slave : Slaves, loop : 0 .. 1]
      BY DEF Init, Steps, Slaves
    <2>2. /\ pc = "returned"
          /\ spiTxDone \in BOOLEAN /\ spiRxDone \in BOOLEAN /\ answer \in BOOLEAN
          /\ selected \in Slaves
          /\ sending = NothingSent
          /\ receiving = "nothing"
      BY DEF Init
    <2> QED
      BY <2>1, <2>2 DEF TypeOK
  <1>2. TxDoneMeansIdle /\ SelectedForCall
    BY DEF Init, TxDoneMeansIdle, SelectedForCall
  <1>3. BurstWritten /\ ReadWaitedFor /\ SinglesAreShort
    BY DEF Init, BurstWritten, ReadWaitedFor, SinglesAreShort, NothingSent
  <1> QED
    BY <1>1, <1>2, <1>3 DEF IInv

\* A call touches the block being sent only by overwriting its buffer.
LEMMA CallIInv ==
    ASSUME IInv, NEW c \in Following(call), Call(c)
    PROVE  IInv'
  <1> USE DEF IInv
  <1>1. /\ c \in [step : Steps, slave : Slaves, loop : 0 .. 1]
        /\ call.step = "tx_burst" => c.step = "tx_on" /\ c.slave = call.slave
    BY FollowingCalls DEF TypeOK
  <1>2. /\ sending'.slave = sending.slave
        /\ sending'.buffer = sending.buffer
        /\ sending'.burst = sending.burst
        /\ sending = NothingSent => sending' = NothingSent
    <2>1. sending' = [sending EXCEPT !.intact = @ /\ sending.buffer \notin Filled(c.step)]
      BY DEF Call
    <2>2. ASSUME sending = NothingSent PROVE sending' = NothingSent
      <3>1. "none" \notin Filled(c.step)
        BY DEF Filled, BufferOf
      <3>2. (TRUE /\ "none" \notin Filled(c.step)) = TRUE
        BY <3>1
      <3> QED
        BY <2>1, <2>2, <3>2 DEF NothingSent
    <2> QED
      BY <2>1, <2>2 DEF TypeOK, NothingSent
  <1>3. TypeOK'
    <2>1. sending' \in {NothingSent} \cup
                       [slave : Slaves, buffer : {"data", "buffer", "writeData"},
                        burst : BOOLEAN, intact : BOOLEAN]
      BY <1>2 DEF Call, TypeOK
    <2> QED
      BY <1>1, <2>1 DEF Call, TypeOK
  <1>4. TxDoneMeansIdle'
    BY <1>2 DEF Call, TxDoneMeansIdle
  <1>5. SelectedForCall'
    BY DEF Call, SelectedForCall
  <1>6. BurstWritten'
    <2> SUFFICES ASSUME sending'.buffer = "buffer" PROVE BurstWritten'
      BY DEF BurstWritten
    <2>1. /\ sending.intact
          /\ sending.slave = selected
          /\ call.step = "tx_burst"
      BY <1>2 DEF BurstWritten, Call
    <2>2. c.step = "tx_on" /\ c.slave = selected
      BY <1>1, <2>1 DEF SelectedForCall
    <2>3. sending'.intact
      BY <2>1, <2>2, <1>2 DEF Call, Filled, BufferOf, Reads, TypeOK, NothingSent
    <2> QED
      BY <1>2, <2>1, <2>2, <2>3 DEF BurstWritten, Call
  <1>7. ReadWaitedFor'
    BY DEF Call, ReadWaitedFor
  <1>8. SinglesAreShort'
    BY <1>2 DEF SinglesAreShort
  <1> QED
    BY <1>3, <1>4, <1>5, <1>6, <1>7, <1>8

LEMMA SendIInv ==
    ASSUME IInv, Send
    PROVE  IInv'
  <1> USE DEF IInv
  <1>1. /\ sending'.slave = selected
        /\ sending'.buffer = BufferOf(call.step)
        /\ sending'.burst = (call.step \in Bursts)
        /\ sending'.intact
    BY DEF Send
  <1>2. BufferOf(call.step) \in {"data", "buffer", "writeData"}
    BY DEF BufferOf
  <1>3. TypeOK'
    BY <1>2 DEF Send, TypeOK
  <1>4. TxDoneMeansIdle'
    BY DEF Send, TxDoneMeansIdle
  <1>5. SelectedForCall'
    BY DEF Send, SelectedForCall
  <1>6. BurstWritten'
    BY <1>1 DEF Send, BurstWritten, BufferOf, Reads
  <1>7. ReadWaitedFor'
    BY <1>1 DEF Send, ReadWaitedFor
  <1>8. SinglesAreShort'
    BY <1>1 DEF SinglesAreShort, BufferOf, Reads, Bursts
  <1> QED
    BY <1>3, <1>4, <1>5, <1>6, <1>7, <1>8

LEMMA NextIInv == IInv /\ [Next]_vars => IInv'
  <1> SUFFICES ASSUME IInv, [Next]_vars PROVE IInv'
    OBVIOUS
  <1> USE DEF IInv
  <1>1. ASSUME NEW c \in Following(call), Call(c) PROVE IInv'
    BY <1>1, CallIInv
  <1>2. CASE AwaitSent
    <2>1. TypeOK'
      BY <1>2 DEF AwaitSent, TypeOK
    <2>2. sending = NothingSent /\ sending' = NothingSent
      BY <1>2 DEF AwaitSent, TxDoneMeansIdle
    <2>3. TxDoneMeansIdle'
      BY <1>2, <2>2 DEF AwaitSent, TxDoneMeansIdle
    <2> QED
      BY <1>2, <2>1, <2>2, <2>3 DEF AwaitSent, SelectedForCall, BurstWritten, ReadWaitedFor,
                                    SinglesAreShort, NothingSent
  <1>3. CASE Send
    BY <1>3, SendIInv
  <1>4. CASE AwaitReceived
    BY <1>4 DEF AwaitReceived, TypeOK, TxDoneMeansIdle, SelectedForCall, BurstWritten,
                ReadWaitedFor, SinglesAreShort
  <1>5. CASE ResetReceived
    BY <1>5 DEF ResetReceived, TypeOK, TxDoneMeansIdle, SelectedForCall, BurstWritten,
                ReadWaitedFor, SinglesAreShort
  <1>6. CASE OnBlockSent
    BY <1>6 DEF OnBlockSent, TypeOK, TxDoneMeansIdle, SelectedForCall, BurstWritten,
                ReadWaitedFor, SinglesAreShort, NothingSent
  <1>7. CASE OnBlockReceived
    <2>1. TypeOK'
      BY <1>7 DEF OnBlockReceived, TypeOK
    <2> QED
      BY <1>7, <2>1 DEF OnBlockReceived, TxDoneMeansIdle, SelectedForCall, BurstWritten,
                        ReadWaitedFor, SinglesAreShort
  <1>8. CASE UNCHANGED vars
    BY <1>8 DEF vars, TypeOK, TxDoneMeansIdle, SelectedForCall, BurstWritten, ReadWaitedFor,
                SinglesAreShort
  <1> QED
    BY <1>1, <1>2, <1>3, <1>4, <1>5, <1>6, <1>7, <1>8 DEF Next, TaskStep

\* Everything above, at all times.
THEOREM Invariance == Spec => []IInv
  BY InitIInv, NextIInv, PTL DEF Spec

\* The variables keep to their types, so at most two reads of the receive buffer are made
\* for one connection in a cycle (SpiHandler.c:485).
THEOREM TypeCorrect == Spec => []TypeOK
  <1>1. IInv => TypeOK
    BY DEF IInv
  <1> QED
    BY <1>1, Invariance, PTL

\* A block is handed to the driver only when the last one was sent (SpiHandler.c:392),
\* whether the reads wait for their answers or not.
THEOREM BlocksDoNotOverlap == Spec => []OneBlockAtATime
  <1>1. IInv => OneBlockAtATime
    BY DEF IInv, TxDoneMeansIdle, OneBlockAtATime
  <1> QED
    BY <1>1, Invariance, PTL

\* In step, bursts and read commands are sent as they were put into their static buffers
\* (SpiHandler.c:324).
THEOREM SentAsFilled == Spec => []BuffersKept
  <1>1. IInv => BuffersKept
    <2> SUFFICES ASSUME IInv, InStep, sending.buffer # "writeData" PROVE sending.intact
      BY DEF BuffersKept
    <2>1. CASE sending.buffer = "buffer"
      BY <2>1 DEF IInv, BurstWritten
    <2>2. CASE sending.buffer = "data"
      BY <2>2 DEF IInv, InStep, ReadWaitedFor
    <2>3. CASE sending = NothingSent
      BY <2>3 DEF NothingSent
    <2> QED
      BY <2>1, <2>2, <2>3 DEF IInv, TypeOK
  <1> QED
    BY <1>1, Invariance, PTL

\* In step, no burst is under way when the other slave is selected (SpiHandler.c:366).
THEOREM BurstsKeepTheirSlave == Spec => []BurstKeepsSlave
  <1>1. IInv => BurstKeepsSlave
    <2> SUFFICES ASSUME IInv, InStep, sending.burst PROVE selected = sending.slave
      BY DEF BurstKeepsSlave
    <2>1. sending # NothingSent
      BY DEF NothingSent
    <2>2. CASE sending.buffer = "buffer"
      BY <2>2 DEF IInv, BurstWritten
    <2>3. CASE sending.buffer = "data"
      BY <2>1, <2>3 DEF IInv, InStep, ReadWaitedFor
    <2> QED
      BY <2>1, <2>2, <2>3 DEF IInv, TypeOK, SinglesAreShort
  <1> QED
    BY <1>1, Invariance, PTL

\* The task and the interrupts never fall out of step again.
LEMMA StaysInStep == IInv /\ InStep /\ [Next]_vars => InStep'
  <1> SUFFICES ASSUME IInv, InStep, [Next]_vars PROVE InStep'
    OBVIOUS
  <1>1. ASSUME NEW c \in Following(call), Call(c) PROVE InStep'
    <2>1. sending'.buffer = sending.buffer
      BY <1>1 DEF Call, IInv, TypeOK, NothingSent
    <2> QED
      BY <1>1, <2>1 DEF Call, InStep
  <1>2. CASE AwaitSent
    BY <1>2 DEF AwaitSent, InStep
  <1>3. CASE Send
    BY <1>3 DEF Send, InStep, BufferOf
  <1>4. CASE AwaitReceived
    BY <1>4 DEF AwaitReceived, InStep
  <1>5. CASE ResetReceived
    BY <1>5 DEF ResetReceived, InStep, NothingSent
  <1>6. CASE OnBlockSent
    BY <1>6 DEF OnBlockSent, InStep, NothingSent
  <1>7. CASE OnBlockReceived
    BY <1>7 DEF OnBlockReceived, InStep
  <1>8. CASE UNCHANGED vars
    BY <1>8 DEF vars, InStep
  <1> QED
    BY <1>1, <1>2, <1>3, <1>4, <1>5, <1>6, <1>7, <1>8 DEF Next, TaskStep

\* Once one call ended in step, every later read returns with its answer
\* (SpiHandler.c:399, 402).
THEOREM ReadsAnswered == Spec => ReadsAnsweredOnceInStep
  <1>1. InStepBetweenCalls => InStep
    BY DEF InStepBetweenCalls, InStep
  <1>2. InStep => (pc = "reset_rx" => answer)
    BY DEF InStep
  <1>3. [](InStepBetweenCalls => InStep)
    BY <1>1, PTL
  <1> QED
    BY <1>1, <1>2, StaysInStep, Invariance, PTL DEF Spec, ReadsAnsweredOnceInStep

=============================================================================
