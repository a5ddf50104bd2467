# Serial switch: TLA+ models, checks and proofs

The serial switch (`src/Software/UavSerialSwitch`) is FreeRTOS firmware with four UARTs towards devices and four towards wireless modems. It packs the bytes of its devices into numbered packages, sends them over the configured wireless connections, acknowledges, resends, and hands received payloads to the device of the same number at the remote switch. This directory models what happens to a package and to the bytes it is made of: the network handler, the package handler with its framing, the SPI handler with its interrupts and Golay code, two switches joined by a lossy radio, and the logger and shell that share their memory.

`NH` below is `Sources/NetworkHandler.c`, `PH` is `Sources/PackageHandler.c`, `SH` is `Sources/SpiHandler.c`.

## 1. Inventory

| component | state it keeps | operations | talks to | hard parts | what makes it correct |
|---|---|---|---|---|---|
| network handler, sending (NH) | queue of packages per connection, array of unacknowledged packages with a counter, `sentPackNumTracker`, `ackReceived` | generate, push and store, match acknowledge, resend or discard | byte queues of the devices; package handler through `queuePackagesToSend` | payload ownership across tasks; the flag per connection; queue and array limits; ages | payload freed once, one unacknowledged package in mode 2, no package lost unnoticed |
| network handler, receiving (NH) | `sysTimeLastPushedOutPack`, reordering array | four processing modes, timeouts, acknowledge | `ReceivedPackages`, byte queue of the device | repeated and overtaking packages | order per mode, an acknowledge only for what is kept |
| package handler (PH) | `ReceivedPackages`, state machine per connection | pop, write bytes, free; assemble packages | byte queues of the wireless side | replacement of START, lost bytes, checksums not looked at, full queues | what is sent is what is assembled; the receiver finds back to the stream |
| configuration (`Config.c`) | `config` | read once at start | everybody | comma separated values, defaults | values in range |
| SPI handler (SH) | byte queues, throughput counter, `spiRxDone`, `spiTxDone` | read and write the chips' buffers, drop, limit, encode, decode | UART chips, interrupt events | levels read before they are used, oldest bytes dropped, delays, fill bytes | bytes stay in order and every missing one is accounted for |
| interrupt events (`Events.c`) | the two flags | `SPI_OnBlockSent`, `SPI_OnBlockReceived` | SPI handler | flags that start true, events at any time | blocks do not overlap, no transfer waits for ever |
| Golay code (`Golay.c`) | tables | encode three bytes to six, decode | SPI handler | blocks cut in two | a whole block decodes to what was encoded |
| logger, shell (`Logger.c`, `Shell.c`) | queues of copies | push, write about half, print | all tasks | memory of queued copies, order against the consumer | every copy is freed once and logged once |
| throughput printout, ring buffer, start-up | statistics | | | division by an interval's counts | |

Vendored and generated code (`Static_Code`, `Project_Settings`, `Golay23.h`) is left aside. `PROJECT.json` lists every component, and under `hazards` every place where a mistake would be hard to find by testing, with the properties that watch it.

All application tasks are periodic. The package handler and the network handler have the same priority and FreeRTOS is configured with preemption and time slicing (`SysInit.c:83-111`), so their steps interleave between any two queue operations. The SPI task has the highest priority and polls its flags, so only interrupts and the chips run during a transfer; logger and shell run at the bottom. Queue operations of the handlers never block (`MAX_DELAY_NETW_HANDLER_MS` is 0); pushing a message for the shell may. A failed allocation halts the firmware in `Events.c`, so the `payload == NULL` branches cannot be reached.

## 2. Modules

| module | models |
|---|---|
| `SwitchConfig` | `struct Configurations` as constants, `getWlConnectionToUse` |
| `NetworkSender` | sending half of one switch: NH without received data, PH's sending loop |
| `NetworkReceiver` | receiving half: `ReceivedPackages`, processing modes, reordering array |
| `WirelessLink` | one switch's sender, which may restart, two lossy channels, another switch's receiver |
| `DeviceStreams` | abstract: what the user of a mode 2 device is promised |
| `PackFraming` | a package as bytes: writing, losing, and the receiving state machine |
| `SpiTransfer` | `spiTransfer`, the order of its callers, and the two interrupts |
| `SpiHandler` | the SPI task's cycle over both chips of one UART, on top of whole transfers, with Golay code |
| `Diagnostics` | ownership and order of the copies in the queues of logger and shell |
| `MC...` | small instances for TLC (`SpiTransfer` and `Diagnostics` need none) |
| `NetworkSender_proofs` | type correctness, memory ownership and the exact counter of the sender |
| `StopAndWait_proofs` | stop and wait, order and ownership, for devices with a connection of their own |
| `WirelessLink_proofs` | type correctness and order of the receiver; what acknowledges mean, that nothing vanishes; the halves' theorems for the composed system |
| `DeviceStreams_proofs` | the link implements the abstract streams |
| `PackFraming_proofs` | everything stated of the framing |
| `SpiTransfer_proofs` | everything stated of the transfers but liveness |
| `SpiHandler_proofs` | everything stated of the SPI task but liveness |
| `Diagnostics_proofs` | everything stated of logger and shell but liveness |

The layers meet at queues. `NetworkSender` hands packages to `queuePackagesToSend`; `PackFraming` takes them from there to the receiver's `ReceivedPackages`, where `NetworkReceiver` begins; `WirelessLink` composes the two halves and takes for granted that a damaged stream loses packages and makes no others, which `PackFraming` shows for bytes missing behind the header of packages without START and REP, and which the code cannot guarantee for any damage, since it does not compare the checksums. `SpiHandler` is the byte stream below `PackFraming`, and `SpiTransfer` the transfers below `SpiHandler`.

### NetworkSender

One action stands for one stretch of code between two queue operations. `nh` is the program counter of the network handler: its cycle over the devices (`nh.dev`) goes through *generate*, *push*, *store*, *receive* and *resend*; `nh.prio`, `nh.index` and `nh.left` are the loop variables of `sendAndStoreGeneratedWlPackage` and `handleResendingOfUnacknowledgedPackages`. `ph` holds what the package handler has popped and not freed.

- *Generate.* `GenerateDataPackage` is NH:522-629. `ChosenConn` keeps a subtlety of the loop at NH:547: when all priorities are configured and all queues full, it ends with a valid connection.
- *Push and store.* `PushWithoutAck`, `PushExpectingAck`, `PushFails`, `DropGeneratedPackage`, then `StorePackage` or `StoreFails`. After `StoreFails` the loop goes on with a package that is already in a queue, as in the code.
- *Acknowledges.* `ReceiveAck` frees the first match among the slots that the counter lets the scan see (`Scanned`).
- *Resending.* One action per branch of the loop: discard, resend, full queue, wait, connection exhausted, negative attempts.
- *Payloads.* `live` is the set of allocated payloads of new packages. Copies made for resending have a single owner by construction. A read of a freed payload gives arbitrary bytes (`ReadPayload`); the bytes themselves are reduced to whether they are the device's (`intact`).

### NetworkReceiver and WirelessLink

`ProcessReceivedPackage` pops one package, applies the mode of its device and serves the reordering timeouts. `out` records the payloads pushed to the device. Whether a reordering timeout is found is a free choice, which includes the comparison of NH:498. `WirelessLink` replaces the environment of both halves: `Transfer` moves a frame or loses it, also when `ReceivedPackages` is full; `Process` adds the acknowledge, which may be lost; `givenUp` is a history variable. `SenderRestarts` puts the sender back to `networkHandler_TaskInit`: nothing is stored, so the package numbers start again. It is taken when both channels are empty, since the start takes longer than anything stays in the radio. `session` is a history variable: how many packages each device had got when the session began. A number means a package of the present session, so `AckMeansKept` and `NothingVanishes` look for it only among those handed out since then (`HandedOut`); a package of an earlier session with the same number does not count.

`DeviceStreams` has four actions: accept the next package once the last one is settled, deliver in order (with repetitions), give up the newest, and restart, which empties everything. `WirelessLink!StreamSpec` maps `accepted` to `sentPackNumTracker`, `delivered` to what `out` got in the session (`NumbersAfter`) and `givenUp` to the history variable; only `SenderRestarts` is mapped to a restart.

### PackFraming

`SendPackage` is PH:71-85 with PH:152-243: a START, header and payload with every START inside replaced by REP START REP, and two fill bytes, as far as they fit the byte queue. `wire` is one FIFO of everything up to the other package handler and loses bytes (`LoseByte`). `ReceiveByte` is one iteration of `readAndExtractWirelessData` (PH:263-510) with its three states; `Checked` is `checkForPackStartReplacement`, with `patternReplaced` kept where the code keeps it. The header is four bytes instead of eleven; the other ones are treated alike, and the check of the device number (PH:382) goes with the field it looks at. `EscapedAll` is written by position, so that it needs no recursion; an assumption of `MCPackFraming`, evaluated with the run, compares it with the replacement byte by byte. Bytes on the wire carry the index of their package and their place in it for the properties only.

### SpiTransfer and SpiHandler

`SpiTransfer` has one action per statement of `spiTransfer` that touches a flag (SH:319-406), `Following` for the order in which the callers call it, and the two interrupts at any time. `InStep` says that the flag `spiRxDone` belongs to the current read. At first it does not: both flags start true, so the first read returns before its answer, and every later one takes the event of its predecessor, until an event arrives between the test of the flag and its reset and is absorbed. From then on the task and the interrupts are in step for good. `ReadsAnsweredOnceInStep` says so; before that point nothing can be said of what a read returns.

`SpiHandler` takes transfers as steps and follows one UART through both slaves: level, burst, and storing in `readHwBufAndWriteToQueue` (SH:473-573), level, transmitter off, burst, transmitter on in `readQueueAndWriteToHwBuf` (SH:600-742). Other tasks push and pop bytes only while the SPI task sleeps or waits for the shell's queue. The chips are external, and a plug joins the output of each with its input, so that what is written is read by the same code. A Golay block is a record of three bytes with the place of each of its six; `Decoded` gives `Junk` for six bytes that are not one block. Intervals (a second, the delays for reading and encoding an incomplete block) are over or not.

### Diagnostics

One producer and one consumer of packages, the logger, one task that posts messages, and the shell. The heap is a set of named blocks; freed blocks are removed, and `BlocksOwnedOnce` compares it with the owners of each block, the places in queues and tasks that refer to it. The producer logs a package after the push (`PH:613`, `NH:880`), when the consumer may have freed it: what `CopyPayload` reads then is a free choice.

### Abstractions

- The trigger of a package (enough bytes or a timeout) is a free choice.
- Times are ages that stop one tick after the delay they are compared with. A connection that was never tried has the age of a timestamp of 0, one more than the delay; during the first moments after start-up the code's age is smaller.
- In `WirelessLink` the radio loses frames and does not damage them; `PackFraming` loses bytes and does not change them.
- A restart happens with empty channels, and only of the sender.
- In `WirelessLink` only one direction carries data. The acknowledges' way back (send queue, bytes, radio, received queue) is one FIFO that loses.
- `ackReceived[NUMBER_OF_UARTS] = true` (NH:741) writes past the array; the model lets it have no effect.
- The loops over the reordering array end at its length, not at `sizeof`.
- The order in which the package handler visits the connections is free.
- `spiRxDone` and `spiTxDone` are sampled atomically. The driver's calls return at once; a `ReceiveBlock` while one is pending is refused or replaces it, since its result is ignored.
- The test modes of the SPI handler (`EnableStressTest`, `TestHwLoopbackOnly`), the statistics and the contents of messages are left out.
- Golay's correction of bit errors is left out: no bit changes in the models.

## 3. What is checked

| run | instance | checks |
|---|---|---|
| `sender_wait` | two mode 2 devices on one connection, two attempts, queue of 3, array of 2, two packages each | `StopAndWait`, `PayloadOwnedOnce`, `PipelineInOrder` |
| `sender_fallback` | three devices with one package each, device 0 with two connections, one without acknowledges, `SendCnt` 0 for device 2, array of 2, queues of 1 | `TypeOK`, `NoLeak`, `StoredPackageSettles` |
| `link_wait` | one mode 2 device over one connection, two attempts, channel of 2, one restart of the sender, two packages in each session | `NothingVanishes`, `AckMeansKept`, refinement `StreamSpec` |
| `link_only_new` | one mode 4 device over two connections | `RxTypeOK`, `OnlyNewIncreases`, `AckMeansKept`, `ScansSeeEverything` |
| `framing` | packages full of START and REP, up to three sent and two bytes lost | `TypeOK`, `UndamagedStream`, `ShortPackagesDropped`, `PlainHeaderResynchronises` |
| `spi_transfer` | no bounds: the state space is finite | `TypeOK`, `OneBlockAtATime`, `BuffersKept`, `BurstKeepsSlave`, `ReadsAnsweredOnceInStep`, `TransfersReturn` |
| `spi_handler` | Golay code on the wireless side, a plain device side, throughput limit of 3 | `TypeOK`, `BytesAccountedFor`, `WritesFit`, `WrittenWhileDisabled`, `EverythingLeaves` |
| `diagnostics` | five packages, queues of 1 and 2 | `TypeOK`, `BlocksOwnedOnce`, `LogCompleteAndOrdered`, `QueuesDrain` |

Bounds. `MaxPack` bounds packages per device: with two, a package and its successor meet in every queue, array slot and channel, and the stream goes on with the second after the first was given up. In `link_wait` the numbers 1 and 2 of the first session come again after the restart, and the receiver may have had none, the first or both of that session; a receiver that took them for old ones (`DropOldFrame`) is noticed only there. Mode 4 does so by design of its comparison, and `finding_new_session` is its run with a restart. Sizes of 1 to 3 stand for 20, 25 and 10: full, empty and one in between. Delays of 0 or 1 tick separate "not yet", "now" and "too late"; the dismissal comes after the resend delay, so that resend, exhaustion and dismissal all happen. Two devices (three, where the array is to be full) and two connections give a shared connection, a fallback and an unconfigured priority. In `sender_wait` the queue of 3 holds what two packages with two attempts each can bring; smaller queues meet the failure of `finding_wait_for_nothing`. These models do not stop: the tick and the network handler's cycle always go on, and deadlock is checked.

In `framing` a queue of 30 takes one package of any kind and a second one only if the first was partly read, so a package is cut off at its end; three packages are a damaged one, the one it runs into and one to find back with. Payloads hold START, REP, and the replacement itself. Sending is bounded, so the model may stop and deadlock is not checked. In `spi_handler` the wireless chip holds a Golay block and a byte (7), the device chip two; queues hold one byte more than the chips. The loads are four bytes on the wireless side (a whole block and an incomplete one), five on the device side (more than queue and chip), and two on each. What is behind the first cut block is not explored: from there on nothing is known of the bytes. In `diagnostics` both queues fill, and five packages through a log queue of two make a call of the logger leave entries behind.

Fairness. `sender_fallback` assumes weak fairness of the network handler, the package handler and the tick. The tasks are periodic, the tick is a hardware timer, and no task of a higher priority runs without end. Nothing is assumed of the trigger, the radio or the peer: a stored package leaves the array because its attempts or its age run out. `SpiTransfer` assumes that the task, which polls at the highest priority, goes on and that a block being sent or received ends. `SpiHandler` assumes that the task runs, that intervals pass, and that a chip whose transmitter is enabled again and again transmits (strong fairness: the task turns it off for every burst, for a time much shorter than that between its cycles). `Diagnostics` assumes weak fairness of each task but the one that posts messages; nobody has to post.

### Disagreements between code and documentation

Each is a run that violates one property.

| run | what happens |
|---|---|
| `finding_wait_for_nothing` | A resend finds the queue full, no further priority is configured, the package is discarded and the flag of its connection stays taken; the device never sends again (NH:741, 771). |
| `finding_stored_late` | The package handler frees the payload before it is copied into the array (NH:183, 815). |
| `finding_reordering` | Mode 3 drops and acknowledges every package (NH:276). |
| `finding_new_session` | After a restart of the sender a mode 4 device drops and acknowledges the new packages: the changed session number resets a timestamp that nobody reads (PH:488-493). |

The models show further ones, which have no run of their own:

- A package that finds the array full is freed by the network handler while it is queued (NH:197-213).
- The connection checked for an awaited acknowledge is not the one pushed to when there is a fallback (NH:564, 173); hence the hypothesis of `OneUnacknowledged`.
- When all priorities are configured and all queues full, a package is generated and discarded (NH:547-562).
- A header that contains START and follows a truncated package may be missed, because the position of the last replacement is kept when reading restarts (PH:327, 416). `PlainHeaderResynchronises` is stated for headers without START.
- A Golay block made up with fill bytes may not fit the chip and is cut (SH:678); `WritesFit` leaves such blocks out.
- With hardware flow control the transmitter that the initialisation disables is never enabled (SH:184, 697-738); `EverythingLeaves` leaves such connections out.

These situations are outside the instances of the passing runs on purpose, or stated as premises of their properties: `sender_wait` has an array and queues large enough and one connection; the other runs contain them where the properties hold regardless (`sender_fallback` fills its array and queues).

## 4. What is proved

For every number of devices and connections, every configuration, every queue, array and buffer size:

| theorem | statement |
|---|---|
| `TypeCorrect` | `Spec => []TypeOK` |
| `NothingLeaks` | `Spec => []NoLeak` |
| `CounterIsExact` | `Spec => []ScansSeeEverything` |
| `OwnedOnceWithSpace` | `Spec /\ []ArrayHasSpace => []PayloadOwnedOnce` |
| `OneUnacknowledged` | `WaitsOnOneConnection` implies `Spec => []StopAndWait` |
| `OwnedOnce` | `WaitsOnOneConnection` and `MaxUnack >= NumUarts` imply `Spec => []PayloadOwnedOnce` |
| `NothingOvertakes` | `WaitsOnOneConnection` implies `Spec => []PipelineInOrder` |
| `RxTypeCorrect` | `RxSpec => []RxTypeOK` |
| `OnlyNewInOrder` | `RxSpec => []OnlyNewIncreases` |
| `NothingReordered` | `RxSpec => []ReorderingIsMute` |
| `LinkedCounterIsExact` | `LinkSpec => []ScansSeeEverything` |
| `LinkedOnlyNewInOrder` | `LinkSpec => []OnlyNewIncreases` |
| `AcknowledgedIsKept` | `NoReordering` and `OneSessionIfOnlyNew` imply `LinkSpec => []AckMeansKept` |
| `NoPackageVanishes` | `AcknowledgesUsed`, `NoReordering` and `OneSessionIfOnlyNew` imply `LinkSpec => []NothingVanishes` |
| `LinkImplementsStreams` | `WaitsOnOneConnection`, `NoReordering` and `OneSessionIfOnlyNew` imply `LinkSpec => StreamSpec` |
| `PackFraming_proofs!TypeCorrect` | `PackFraming!Spec => []TypeOK` |
| `UndamagedStreamArrives` | `PackFraming!Spec => []UndamagedStream` |
| `ShortOnesDropped` | `PackFraming!Spec => []ShortPackagesDropped` |
| `Resynchronises` | `PackFraming!Spec => PlainHeaderResynchronises` |
| `SpiTransfer_proofs!TypeCorrect` | `Spec => []TypeOK` |
| `BlocksDoNotOverlap` | `Spec => []OneBlockAtATime` |
| `SentAsFilled` | `Spec => []BuffersKept` |
| `BurstsKeepTheirSlave` | `Spec => []BurstKeepsSlave` |
| `ReadsAnswered` | `Spec => ReadsAnsweredOnceInStep` |
| `SpiHandler_proofs!TypeCorrect` | `Spec => []TypeOK` |
| `EveryByteAccountedFor` | `SpiHandler!Spec => []BytesAccountedFor` |
| `BurstsFit` | `SpiHandler!Spec => []WritesFit` |
| `NothingWrittenWhileTransmitting` | `SpiHandler!Spec => WrittenWhileDisabled` |
| `Diagnostics_proofs!TypeCorrect` | `Spec => []TypeOK` |
| `EveryBlockOwnedOnce` | `Spec => []BlocksOwnedOnce` |
| `LogIsComplete` | `Spec => []LogCompleteAndOrdered` |

The proofs rest on `ConfigAssumption`, `SenderAssumption`, `ReceiverAssumption`, `RestartAssumption`, `FramingAssumption`, `SpiAssumption` and `DiagnosticsAssumption`: ranges of the configuration, the shape of a package, and positive sizes.

`TypeOK` is inductive. `NoLeak` needs that queues never exceed `QueueLen` and that `live` only holds owned payloads across pushes and pops (`NoLeakInv`); each step that takes a payload from one owner hands it to the next or frees it. The array-full failure frees too much, never too little, so it does not disturb `NoLeak`.

`PayloadOwnedOnce` is what that failure does disturb, so it is proved in two ways. `OwnedOnceWithSpace` takes every behaviour in which the array has a free slot whenever a package is to be stored (`ArrayHasSpace`), for any configuration. `OwnInv` says of any two places that may refer to a payload (a place in a queue, the package handler's hands, the network handler's) that they refer to different ones, that what is referred to is allocated, and that nothing allocated is newer than its device's tracker, so that a new package never meets an old payload. `OwnedOnce` needs no premise on the behaviour: with `WaitsOnOneConnection` at most one package per connection is stored, so an array with a slot for each connection is never full when one more comes; the code has 25 slots for 4 connections.

`CountInv` says that the counter is the number of occupied slots; every branch that takes or empties a slot moves both. That the scans, which stop when they have seen as many packages as the counter says, reach every stored one follows from the definition of `Scanned` and needs no reachability beyond it.

`OneUnacknowledged` assumes `WaitsOnOneConnection`: every device that sends at all is in mode 2 and uses one wireless connection, of priority 1, with acknowledges; any number of devices may share a connection. It is the hypothesis under which the check at NH:564 and the push at NH:173 concern the same connection; without it a second unacknowledged package appears. `WaitInv` says that only a connection the device uses is ever tried for its packages, that the package in the network handler's hands is the newest of its device and finds nothing stored for its connection, and that a stored package is alone on its connection and keeps the acknowledge awaited until the visit that discards it. A new package needs a released flag; the flag is released only when the package leaves the array, or after its last attempt, when the same visit goes on to discard it.

`NothingOvertakes` strengthens order to `PipelineInv`: the numbers of a device's packages in the connection's queue, popped or on the air never decrease and never exceed the device's newest. What is pushed is always a copy of the newest, new or resent, by `WaitInv`; every other step takes packages away or moves them on.

`RxInv` adds to the type that nothing is ever stored for reordering, that a mode 3 device has received nothing, and that a mode 4 device's output is strictly increasing and bounded by `last`. The radio is any sequence of frames.

On the composed system, `LinkInv` joins the types of both halves and `RxInv` with three facts: the number a newer package is compared with belongs to a package handed out; what a device had got before the session it still has (`SessionInv`); and every acknowledge on its way is for a package of the session that the remote device got, or has outdated, in it. Within a session being had or outdated is stable, since outputs only grow, so loss and repetition need no further argument. A restart begins with nothing had, but also with no acknowledge on its way and no number given out. A package processed afterwards is handed out behind those of the earlier sessions, unless its device wants newer ones only: its last number may then be one of an earlier session, and what is thrown away is acknowledged all the same (`finding_new_session`). `OneSessionIfOnlyNew` therefore asks that the sender does not restart if there is such a device; all others may see any number of restarts. `NoReordering` leaves out the mode that acknowledges what it throws away (`finding_reordering`). `VanishInv` adds that the network handler holds one package at a time, between generation and storing. A package leaves the array by an acknowledge, and then the remote device has it, or by being given up; `AcknowledgesUsed` leaves out connections without acknowledges, whose packages are not stored at all.

The refinement needs all of it at once: `StreamInv` is `LinkInv`, `VanishInv`, the sender's `WaitInv` with the fact that what is assembled at the remote switch belongs to a device that uses that connection (`LinkWaitInv`), and `OrderInv`, which extends the order of the sender's pipeline through the radio and the received packages up to the device's output: nothing on its way is older than what was delivered in the session. An *accept* step then finds the newest package settled because the flag of its only connection is free; a *deliver* step appends a number not smaller than the last; a *give up* concerns the newest package. A restart of the sender is one of the streams: nothing is under way then, and of the new session nothing has been delivered. Every other step is a stutter, shown action by action.

The invariant `IInv` of the transfers says that `spiTxDone` stands for an idle driver or is taken by the call about to send, that a burst being written is followed by the call that enables the transmitter of the same slave, and that a read being waited for is the last thing sent. From it `OneBlockAtATime` follows at once. `InStep` is not an invariant but is never left: `ReadsAnswered` proves that a step from `InStep /\ IInv` ends in `InStep`, and that `InStepBetweenCalls` implies it.

The invariant of the SPI task has three parts. `WriteInv`, the writing half, adds to the types of what it touches that chips hold no more than they can, that from disabling the transmitter to enabling it the bit stays set, and `WritesFit` itself. `PoppedFits` is its core: what is popped is no longer than the space asked for, encoding doubles it, and only a block with a fill character may be longer; the chip only gets emptier in between. It needs nothing of the reading half. `ReadInv` says that what is to be read is on the chip and that bytes that wait to be stored still fit the queue: the oldest ones made room for them, of which there are enough because a chip holds less than a queue (`SpiAssumption`; 128 and 2048 in the code), and other tasks only take from it in the meantime. `TypeInv` is both, and `TypeOK` follows.

`PathsKept`, the third part, takes what is on the way between two tasks as one row: the bytes before the chips, those in the chips and behind them as they come through the decoder, and those queued to be written. It says of the row what `BytesAccountedFor` says, that without Golay code there are no fill characters, and that with it what is in the chips and behind them is whole blocks as long as none was cut. A step moves the border between two parts, which leaves the row as it is; drops a part of it, which costs no more bytes than the part is long (`CutKeeps`); inserts fill characters, which do not count (`FillKeeps`); or appends the newest byte (`NewKeeps`). For the steps on the coded side two lemmas about the code are needed: `DecodedEncoded`, that what was encoded is decoded, and `DecodedJoined`, that a row that begins with whole blocks is decoded piece by piece. Behind a cut block the second one fails, which is why the property ends there.

The invariant of logger and shell, `DiagnosticsInv`, has a part per actor. `ProducerInv` says what the producer holds at each step of its cycle, `PacksInv` that the queued payloads are allocated, distinct and older than the one in its hands, `LogInv` and `LoggerInv` the same of the copies in the log queue and in the logger's hands, `MessagesInv` of the shell's. Kinds of blocks differ, so ownership is decided kind by kind. `LogOrderInv` says that the numbers in the file followed by those in the queue increase and are all packages up to the last one settled but the ones that found a full queue. `BlocksOwnedOnce` counts owners, and the proof shows that the set of them has one element for an allocated block and none for a free one.

The framing theorems hold for every set of packages with any bytes in every field, for payloads of 1 to 254 bytes (the model's size field is one byte), any size of the byte queue and any number of bytes lost. A stream cannot be followed by induction over its bytes here, so the invariant says of a single state how far the receiver is in the package whose bytes come next. `WireInv` describes the wire: each byte is where its package has it, and is followed by the next one of that package or, if it was the last one written, by the START of the next package. `Midway` places a receiver that has read every byte so far: its data are the contents up to some place, with at most two bytes of an unfinished replacement behind them (`Holds`), and the position of the last replacement, `patternReplaced`, is not one at which a coming replacement would be overlooked (`Sane`). `FollowInv` says that the receiver is midway in every package that is whole so far. It holds although the position is not reset when a START restarts the header (PH:327): in a header without START no replacement is due, and as long as only mild losses happened (`mild`: bytes behind the header of packages without START and REP) every restart finds the position reset. `gentle`, the parameter of `Midway`, tells the two cases apart. `MidwayStep` is the heart of the proof: a byte read midway leaves the receiver midway, and the last one assembles the package. `PlainHeaderResynchronises` is `FollowInv` at that last byte, and `UndamagedStream` adds a count of the packages behind the receiver (`AssembledInv`).

`ShortPackagesDropped` needs the place of a receiver that missed bytes: `Short` says that its header is right, that no START or REP is in its data, and that it holds fewer bytes than its place in the package requires, so the next START comes before it has enough. `MildInv` says that in every package hit it is midway or short and that it is ready for a START where one is next: the byte before is no REP, because a package ends with a fill byte (`LastIsFill`) or was cut in contents without REP.

Only model-checked: the liveness properties `StoredPackageSettles`, `TransfersReturn`, `EverythingLeaves` and `QueuesDrain`, which are out of the prover's reach.

## 5. What is left

1. Two-way traffic in `WirelessLink`: acknowledges in the send queues behind data, restarts of the receiver, stale acknowledges; property: neither switch waits for the other for ever (NH:246).
2. The trigger and pop loop of a data package (NH:572-629) with the byte queues it empties.
3. A header with START after a damaged package (PH:327, 416): no property says how many packages may be lost there.

### Not modelled

- Parsing of the configuration file (`csvToInt`, `csvToBool`): it runs once, before the tasks are created, over strings an external library reads from the file.
- The bits of the Golay code, the checksums and the statistics: data without influence on control in the models, and bit tables are out of the tools' reach.
- The ring buffer, which nothing calls, start-up, which creates tasks and halts on failure, the SPI driver and the UART chips' registers, the file system, the console.
- Vendored and generated code: the register headers of the microcontroller (`IO_Map`, `PDD`) and the libraries in `Static_Code` and `Project_Settings` are more than nine tenths of the lines in `src`. They hold definitions and no behaviour of the switch. The switch's own code in `Sources` has about 4,500 lines, comments included.
