----------------------------- MODULE SpiTransfer -----------------------------
(***************************************************************************)
(* The transfers between the SPI task and the two UART chips               *)
(* (SpiHandler.c: spiTransfer and its callers) and the two interrupt       *)
(* events that end them (Events.c).  The task and the interrupts share the *)
(* flags spiTxDone and spiRxDone (USE_SEMAPHORES_INSTEAD_OF_FLAGS is 0).   *)
(*                                                                         *)
(* Both flags start true.  The first read therefore does not wait for its  *)
(* answer, and every later one takes the event of the read before, until   *)
(* an event arrives between a test of spiRxDone and its reset and is lost. *)
(* From then on the task and the interrupts are in step.                   *)
(*                                                                         *)
(* The SPI driver and the chips are generated or external code.  SendBlock *)
(* and ReceiveBlock are taken to return at once, OnBlockSent to come when  *)
(* the last byte has left the buffer and OnBlockReceived after that; a     *)
(* ReceiveBlock while another one is pending may be refused or replace it  *)
(* (its result is ignored, SpiHandler.c:396).                              *)
(*                                                                         *)
(* Variants with a plausible bug: SentWithoutReset, AnswerNotAwaited,      *)
(* FillBeforeBurstEnds, TxOnForgotten, ThreeReads and EventIgnored.        *)
(***************************************************************************)
EXTENDS Integers

VARIABLES
    call,       \* the transfer the task makes or made last
    pc,         \* where it is in spiTransfer
    spiTxDone, spiRxDone,
    selected,   \* the slave chosen with SPI_SelectConfiguration
    sending,    \* the block being sent
    receiving,  \* whether a ReceiveBlock is pending, and whose
    answer      \* history: the answer of the current read is in its buffer

vars == <<call, pc, spiTxDone, spiRxDone, selected, sending, receiving, answer>>

Slaves == {"MAX_14830_WIRELESS_SIDE", "MAX_14830_DEVICE_SIDE"}

Steps == {"init", "rx_level", "rx_burst", "tx_level", "tx_off", "tx_burst", "tx_on"}

Reads == {"rx_level", "rx_burst", "tx_level"}

\* The transfers that may take long.
Bursts == {"rx_burst", "tx_burst"}

NothingSent == [slave |-> "none", buffer |-> "none", burst |-> FALSE, intact |-> TRUE]

\* The static buffer a transfer is sent from.
BufferOf(step) ==
    IF step \in Reads THEN "data" ELSE IF step = "tx_burst" THEN "buffer" ELSE "writeData"

FillBeforeBurstEnds(step) == IF step = "tx_on" THEN {"writeData", "buffer"} ELSE {BufferOf(step)}

\* The static buffers written before the transfer waits for the last one to be sent: that of
\* the command, and the bytes popped before transmission is disabled.
Filled(step) ==
    IF step = "tx_off" THEN {"writeData", "buffer"} ELSE {BufferOf(step)}

TypeOK ==
    /\ call \in [step : Steps, slave : Slaves, loop : 0 .. 1]
    /\ pc \in {"returned", "wait_tx", "send", "wait_rx", "reset_rx"}
    /\ spiTxDone \in BOOLEAN
    /\ spiRxDone \in BOOLEAN
    /\ selected \in Slaves
    /\ sending \in {NothingSent} \cup
                   [slave : Slaves, buffer : {"data", "buffer", "writeData"},
                    burst : BOOLEAN, intact : BOOLEAN]
    /\ receiving \in {"nothing", "own", "older"}
    /\ answer \in BOOLEAN

\* spiHandler_TaskInit, before the first transfer
Init ==
    /\ call = [step |-> "init", slave |-> "MAX_14830_WIRELESS_SIDE", loop |-> 0]
    /\ pc = "returned"
    /\ spiTxDone = TRUE
    /\ spiRxDone = TRUE
    /\ selected \in Slaves
    /\ sending = NothingSent
    /\ receiving = "nothing"
    /\ answer = FALSE

-----------------------------------------------------------------------------
(* The order of the transfers *)

To(step, slave, loop) == [step |-> step, slave |-> slave, loop |-> loop]

Other(slave) ==
    IF slave = "MAX_14830_WIRELESS_SIDE" THEN "MAX_14830_DEVICE_SIDE"
    ELSE "MAX_14830_WIRELESS_SIDE"

\* The write side of a slave is skipped when its queue is empty.  The first read is that
\* of the level, and is left out on the device side when data is generated for a test.
NextSlave(slave) ==
    {To("rx_level", Other(slave), 0), To("tx_level", Other(slave), 0)}

WriteSide(slave) == {To("tx_level", slave, 0)} \cup NextSlave(slave)

ThreeReads(c) ==
    IF c.step = "rx_burst" /\ c.loop < 2 THEN {To("rx_level", c.slave, c.loop + 1)}
    ELSE IF c.step = "tx_burst" THEN {To("tx_on", c.slave, 0)}
    ELSE {To("rx_burst", c.slave, c.loop)} \cup WriteSide(c.slave)

TxOnForgotten(c) ==
    IF c.step = "tx_off" THEN {To("tx_burst", c.slave, 0)}
    ELSE IF c.step = "tx_level" THEN {To("tx_off", c.slave, 0)} \cup NextSlave(c.slave)
    ELSE NextSlave(c.slave)

\* The transfers that may follow call c in spiHandler_TaskInit, in
\* readHwBufAndWriteToQueue and in readQueueAndWriteToHwBuf.
Following(c) ==
    CASE c.step = "init" ->
            [step : {"init"}, slave : Slaves, loop : {0}]
            \cup NextSlave("MAX_14830_WIRELESS_SIDE")
      [] c.step = "rx_level" -> {To("rx_burst", c.slave, c.loop)} \cup WriteSide(c.slave)
      [] c.step = "rx_burst" ->
            IF c.loop < 1 THEN {To("rx_level", c.slave, c.loop + 1)} ELSE WriteSide(c.slave)
      [] c.step = "tx_level" -> {To("tx_off", c.slave, 0)} \cup NextSlave(c.slave)
      [] c.step = "tx_off" -> {To("tx_burst", c.slave, 0), To("tx_on", c.slave, 0)}
      [] c.step = "tx_burst" -> {To("tx_on", c.slave, 0)}
      [] c.step = "tx_on" -> NextSlave(c.slave)

-----------------------------------------------------------------------------
(* spiTransfer *)

\* The command goes into the buffer and the slave is selected before the task waits.
Call(c) ==
    /\ pc = "returned"
    /\ pc' = "wait_tx"
    /\ call' = c
    /\ selected' = c.slave
    /\ sending' = [sending EXCEPT !.intact = @ /\ sending.buffer \notin Filled(c.step)]
    /\ receiving' = IF receiving = "own" THEN "older" ELSE receiving
    /\ answer' = FALSE
    /\ UNCHANGED <<spiTxDone, spiRxDone>>

SentWithoutReset ==
    /\ pc = "wait_tx"
    /\ spiTxDone
    /\ pc' = "send"
    /\ UNCHANGED <<call, spiTxDone, spiRxDone, selected, sending, receiving, answer>>

\* while(spiTxDone != true); spiTxDone = false;
AwaitSent ==
    /\ pc = "wait_tx"
    /\ spiTxDone
    /\ spiTxDone' = FALSE
    /\ pc' = "send"
    /\ UNCHANGED <<call, spiRxDone, selected, sending, receiving, answer>>

\* SPI_ReceiveBlock, for a read, and SPI_SendBlock
Send ==
    /\ pc = "send"
    /\ sending' = [slave |-> selected, buffer |-> BufferOf(call.step),
                   burst |-> call.step \in Bursts, intact |-> TRUE]
    /\ IF call.step \in Reads
       THEN /\ pc' = "wait_rx"
            /\ \/ receiving' = "own"
               \/ receiving = "older" /\ receiving' = "older"
       ELSE pc' = "returned" /\ UNCHANGED receiving
    /\ UNCHANGED <<call, spiTxDone, spiRxDone, selected, answer>>

AnswerNotAwaited ==
    /\ pc = "wait_rx"
    /\ pc' = "reset_rx"
    /\ UNCHANGED <<call, spiTxDone, spiRxDone, selected, sending, receiving, answer>>

\* while(spiRxDone != true);
AwaitReceived ==
    /\ pc = "wait_rx"
    /\ spiRxDone
    /\ pc' = "reset_rx"
    /\ UNCHANGED <<call, spiTxDone, spiRxDone, selected, sending, receiving, answer>>

\* spiRxDone = false; the caller uses the buffer from here on.
ResetReceived ==
    /\ pc = "reset_rx"
    /\ spiRxDone' = FALSE
    /\ pc' = "returned"
    /\ UNCHANGED <<call, spiTxDone, selected, sending, receiving, answer>>

-----------------------------------------------------------------------------
(* The interrupts *)

\* SPI_OnBlockSent
OnBlockSent ==
    /\ sending # NothingSent
    /\ sending' = NothingSent
    /\ spiTxDone' = TRUE
    /\ UNCHANGED <<call, pc, spiRxDone, selected, receiving, answer>>

EventIgnored ==
    /\ receiving # "nothing"
    /\ receiving = "own" => sending = NothingSent
    /\ UNCHANGED vars

\* SPI_OnBlockReceived
OnBlockReceived ==
    /\ receiving # "nothing"
    /\ receiving = "own" => sending = NothingSent
    /\ receiving' = "nothing"
    /\ answer' = (receiving = "own")
    /\ spiRxDone' = TRUE
    /\ UNCHANGED <<call, pc, spiTxDone, selected, sending>>

TaskStep ==
    \/ \E c \in Following(call) : Call(c)
    \/ AwaitSent
    \/ Send
    \/ AwaitReceived
    \/ ResetReceived

Next ==
    \/ TaskStep
    \/ OnBlockSent
    \/ OnBlockReceived

\* The task has the highest priority and polls; a block that is being sent or received ends.
Fairness ==
    /\ WF_vars(TaskStep)
    /\ WF_vars(OnBlockSent)
    /\ WF_vars(OnBlockReceived)

Spec == Init /\ [][Next]_vars /\ Fairness

-----------------------------------------------------------------------------
(* Properties *)

\* A block is handed to the driver only when the last one was sent, also while reads do not
\* wait for their answers (SpiHandler.c:382, 393).
OneBlockAtATime == pc = "send" => sending = NothingSent

\* A call ended, no read is under way and no event of one is outstanding.
InStepBetweenCalls ==
    /\ pc = "returned"
    /\ ~spiRxDone
    /\ receiving = "nothing"
    /\ sending.buffer # "data"

InStep ==
    \/ /\ pc \in {"returned", "wait_tx", "send"}
       /\ ~spiRxDone
       /\ receiving = "nothing"
       /\ sending.buffer # "data"
    \/ /\ pc = "wait_rx"
       /\ receiving = "own"
       /\ ~spiRxDone
    \/ /\ pc \in {"wait_rx", "reset_rx"}
       /\ receiving = "nothing"
       /\ sending = NothingSent
       /\ spiRxDone
       /\ answer

\* Once a call ended in step, every read has its answer in the buffer
\* before it returns (SpiHandler.c:401).
ReadsAnsweredOnceInStep == [](InStepBetweenCalls => [](pc = "reset_rx" => answer))

\* In step, neither the bytes of a burst nor the command of a read are overwritten while they
\* are sent, although every call fills its buffers before it waits (SpiHandler.c:323).
\* The single register writes share one buffer and do not keep to this: see the hazards.
BuffersKept == InStep /\ sending.buffer # "writeData" => sending.intact

\* In step, the other slave is selected while at most a single byte with its command is
\* being sent, although the selection precedes the wait (SpiHandler.c:361-368).
BurstKeepsSlave == InStep /\ sending.burst => selected = sending.slave

\* Whatever the order of the events, no transfer waits for ever, in step or not.
TransfersReturn == (pc # "returned") ~> (pc = "returned")

=============================================================================
