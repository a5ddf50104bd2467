----------------------------- MODULE Diagnostics -----------------------------
(***************************************************************************)
(* Logging of packages and debug messages: pushPackageToLoggerQueue and    *)
(* logPackages (Logger.c), pushMsgToShellQueue and                         *)
(* pullMsgFromQueueAndPrint (Shell.c), and the memory they take from the   *)
(* heap the packages live in.                                              *)
(*                                                                         *)
(* There is one producer of packages and one consumer: the package handler *)
(* and the network handler for received packages, the other way round for  *)
(* packages to be sent.  The producer logs a package after it was pushed   *)
(* to the consumer (PackageHandler.c:613, NetworkHandler.c:880), which may *)
(* have freed the payload by then: what is read from freed memory is a     *)
(* free choice.                                                            *)
(*                                                                         *)
(* Allocations succeed: a failed one stops the switch (Events.c:138).  The *)
(* file system and the console are external: a write always ends.          *)
(*                                                                         *)
(* Variants with a plausible bug: KeptWhenFull, SpaceNotChecked,           *)
(* FirstSkipped and WrittenBeforePop.                                      *)
(***************************************************************************)
EXTENDS Integers, Sequences, FiniteSets

LOCAL INSTANCE SequencesExt

CONSTANTS
    PackLen,      \* length of the queue of packages
    LogLen,       \* QUEUE_NUM_OF_LOG_ENTRIES
    MsgLen,       \* MAX_NUMBER_OF_MESSAGES_STORED
    MaxPackages   \* bound: packages made

VARIABLES
    heap,      \* the allocated blocks
    packs,     \* queuePackagesToSend, ReceivedPackages
    logQueue,  \* queuePackagesToLog
    msgQueue,  \* msgQueue
    producer, consumer, logger, poster, shell,  \* the tasks with their local variables
    made,      \* history: packages made
    unlogged,  \* history: packages not delivered or without space in the log queue
    file       \* history: the entries written

vars == <<heap, packs, logQueue, msgQueue, producer, consumer, logger, poster, shell, made,
          unlogged, file>>

\* The blocks of the heap are named after what they hold; messages are alike.
Payload(n) == <<"payload", n>>
Copy(n) == <<"copy", n>>
String == <<"string", 0>>
Message(n) == <<"message", n>>

NoBlock == <<"none", 0>>

Blocks ==
    {Payload(n) : n \in 1 .. MaxPackages} \cup {Copy(n) : n \in 1 .. MaxPackages}
    \cup {String} \cup {Message(n) : n \in 0 .. MsgLen}

ASSUME DiagnosticsAssumption ==
    /\ PackLen \in Nat \ {0}
    /\ LogLen \in Nat \ {0}
    /\ MsgLen \in Nat \ {0}
    /\ MaxPackages \in Nat

\* A package or log entry: its number stands for the fields of the struct, which are copied.
Entry == [number : 1 .. MaxPackages, payload : Blocks, intact : BOOLEAN]

MaybeBlock == Blocks \cup {NoBlock}

TypeOK ==
    /\ heap \subseteq Blocks
    /\ packs \in Seq(Entry) /\ Len(packs) <= PackLen
    /\ logQueue \in Seq(Entry) /\ Len(logQueue) <= LogLen
    /\ msgQueue \in Seq(Blocks) /\ Len(msgQueue) <= MsgLen
    /\ producer \in [at : {"idle", "push", "log", "copy", "pushLog"}, payload : MaybeBlock,
                     copy : MaybeBlock, intact : BOOLEAN]
    /\ consumer \in MaybeBlock
    /\ logger \in [at : {"sleep", "loop", "write"}, string : MaybeBlock,
                   i : 0 .. MaxPackages]
    /\ poster \in MaybeBlock
    /\ shell \in 0 .. MsgLen
    /\ made \in 0 .. MaxPackages
    /\ unlogged \subseteq 1 .. MaxPackages
    /\ file \in Seq([number : 1 .. MaxPackages, intact : BOOLEAN])

IdleProducer == [at |-> "idle", payload |-> NoBlock, copy |-> NoBlock, intact |-> TRUE]

Sleeping == [at |-> "sleep", string |-> NoBlock, i |-> 0]

Init ==
    /\ heap = {}
    /\ packs = <<>>
    /\ logQueue = <<>>
    /\ msgQueue = <<>>
    /\ producer = IdleProducer
    /\ consumer = NoBlock
    /\ logger = Sleeping
    /\ poster = NoBlock
    /\ shell = 0
    /\ made = 0
    /\ unlogged = {}
    /\ file = <<>>

-----------------------------------------------------------------------------
(* Packages *)

MakePackage ==
    /\ producer.at = "idle"
    /\ made < MaxPackages
    /\ made' = made + 1
    /\ heap' = heap \cup {Payload(made')}
    /\ producer' = [producer EXCEPT !.at = "push", !.payload = Payload(made')]
    /\ UNCHANGED <<packs, logQueue, msgQueue, consumer, logger, poster, shell, unlogged, file>>

\* pushToReceivedPackagesQueue, pushToSentPackagesQueue
PushPackage ==
    /\ producer.at = "push"
    /\ Len(packs) < PackLen
    /\ packs' = Append(packs, [number |-> made, payload |-> producer.payload, intact |-> TRUE])
    /\ producer' = [producer EXCEPT !.at = "log"]
    /\ UNCHANGED <<heap, logQueue, msgQueue, consumer, logger, poster, shell, made, unlogged,
                   file>>

\* No space until the delay ran out: the caller frees the payload and nothing is logged.
DropPackage ==
    /\ producer.at = "push"
    /\ Len(packs) = PackLen
    /\ heap' = heap \ {producer.payload}
    /\ producer' = IdleProducer
    /\ unlogged' = unlogged \cup {made}
    /\ UNCHANGED <<packs, logQueue, msgQueue, consumer, logger, poster, shell, made, file>>

PopPackage ==
    /\ consumer = NoBlock
    /\ packs # <<>>
    /\ consumer' = Head(packs).payload
    /\ packs' = Tail(packs)
    /\ UNCHANGED <<heap, logQueue, msgQueue, producer, logger, poster, shell, made, unlogged,
                   file>>

FreePackage ==
    /\ consumer # NoBlock
    /\ heap' = heap \ {consumer}
    /\ consumer' = NoBlock
    /\ UNCHANGED <<packs, logQueue, msgQueue, producer, logger, poster, shell, made, unlogged,
                   file>>

-----------------------------------------------------------------------------
(* pushPackageToLoggerQueue *)

AllocateCopy ==
    /\ producer.at = "log"
    /\ heap' = heap \cup {Copy(made)}
    /\ producer' = [producer EXCEPT !.at = "copy", !.copy = Copy(made)]
    /\ UNCHANGED <<packs, logQueue, msgQueue, consumer, logger, poster, shell, made, unlogged,
                   file>>

\* The consumer still has the payload of the package being logged.
PayloadAlive ==
    \/ consumer = producer.payload
    \/ \E i \in DOMAIN packs : packs[i].number = made

CopyPayload ==
    /\ producer.at = "copy"
    /\ \E ok \in IF PayloadAlive THEN {TRUE} ELSE BOOLEAN :
          producer' = [producer EXCEPT !.at = "pushLog", !.intact = ok]
    /\ UNCHANGED <<heap, packs, logQueue, msgQueue, consumer, logger, poster, shell, made,
                   unlogged, file>>

SpaceNotChecked ==
    /\ producer.at = "pushLog"
    /\ logQueue' = Append(logQueue, [number |-> made, payload |-> producer.copy,
                                     intact |-> producer.intact])
    /\ producer' = IdleProducer
    /\ UNCHANGED <<heap, packs, msgQueue, consumer, logger, poster, shell, made, unlogged, file>>

PushLogEntry ==
    /\ producer.at = "pushLog"
    /\ Len(logQueue) < LogLen
    /\ logQueue' = Append(logQueue, [number |-> made, payload |-> producer.copy,
                                     intact |-> producer.intact])
    /\ producer' = IdleProducer
    /\ UNCHANGED <<heap, packs, msgQueue, consumer, logger, poster, shell, made, unlogged, file>>

KeptWhenFull ==
    /\ producer.at = "pushLog"
    /\ Len(logQueue) = LogLen
    /\ producer' = IdleProducer
    /\ unlogged' = unlogged \cup {made}
    /\ UNCHANGED <<heap, packs, logQueue, msgQueue, consumer, logger, poster, shell, made, file>>

DropLogEntry ==
    /\ producer.at = "pushLog"
    /\ Len(logQueue) = LogLen
    /\ heap' = heap \ {producer.copy}
    /\ producer' = IdleProducer
    /\ unlogged' = unlogged \cup {made}
    /\ UNCHANGED <<packs, logQueue, msgQueue, consumer, logger, poster, shell, made, file>>

-----------------------------------------------------------------------------
(* logPackages *)

WakeLogger ==
    /\ logger.at = "sleep"
    /\ logger' = [Sleeping EXCEPT !.at = "loop"]
    /\ UNCHANGED <<heap, packs, logQueue, msgQueue, producer, consumer, poster, shell, made,
                   unlogged, file>>

FirstSkipped(i) == i + 1 < Len(logQueue)

\* The condition of the loop, with the number of entries waiting now: about half are written.
MoreToLog(i) == i < Len(logQueue)

\* The first entry is looked at and becomes a string.
FormatEntry ==
    /\ logger.at = "loop"
    /\ MoreToLog(logger.i)
    /\ heap' = heap \cup {String}
    /\ logger' = [logger EXCEPT !.at = "write", !.string = String]
    /\ UNCHANGED <<packs, logQueue, msgQueue, producer, consumer, poster, shell, made, unlogged,
                   file>>

WrittenBeforePop ==
    /\ logger.at = "write"
    /\ file' = Append(file, [number |-> Last(logQueue).number, intact |-> Last(logQueue).intact])
    /\ heap' = heap \ {Head(logQueue).payload, logger.string}
    /\ logQueue' = Tail(logQueue)
    /\ logger' = [at |-> "loop", string |-> NoBlock, i |-> logger.i + 1]
    /\ UNCHANGED <<packs, msgQueue, producer, consumer, poster, shell, made, unlogged>>

\* It is popped and written, and both blocks are freed.
WriteEntry ==
    /\ logger.at = "write"
    /\ file' = Append(file, [number |-> Head(logQueue).number, intact |-> Head(logQueue).intact])
    /\ heap' = heap \ {Head(logQueue).payload, logger.string}
    /\ logQueue' = Tail(logQueue)
    /\ logger' = [at |-> "loop", string |-> NoBlock, i |-> logger.i + 1]
    /\ UNCHANGED <<packs, msgQueue, producer, consumer, poster, shell, made, unlogged>>

LoggerDone ==
    /\ logger.at = "loop"
    /\ ~MoreToLog(logger.i)
    /\ logger' = Sleeping
    /\ UNCHANGED <<heap, packs, logQueue, msgQueue, producer, consumer, poster, shell, made,
                   unlogged, file>>

-----------------------------------------------------------------------------
(* Debug messages *)

\* pushMsgToShellQueue, by any task
AllocateMessage ==
    /\ poster = NoBlock
    /\ poster' = CHOOSE b \in {Message(n) : n \in 0 .. MsgLen} : b \notin heap
    /\ heap' = heap \cup {poster'}
    /\ UNCHANGED <<packs, logQueue, msgQueue, producer, consumer, logger, shell, made, unlogged,
                   file>>

PushMessage ==
    /\ poster # NoBlock
    /\ Len(msgQueue) < MsgLen
    /\ msgQueue' = Append(msgQueue, poster)
    /\ poster' = NoBlock
    /\ UNCHANGED <<heap, packs, logQueue, producer, consumer, logger, shell, made, unlogged, file>>

DropMessage ==
    /\ poster # NoBlock
    /\ Len(msgQueue) = MsgLen
    /\ heap' = heap \ {poster}
    /\ poster' = NoBlock
    /\ UNCHANGED <<packs, logQueue, msgQueue, producer, consumer, logger, shell, made, unlogged,
                   file>>

\* pullMsgFromQueueAndPrint: as many as are waiting at its start
WakeShell ==
    /\ shell = 0
    /\ msgQueue # <<>>
    /\ shell' = Len(msgQueue)
    /\ UNCHANGED <<heap, packs, logQueue, msgQueue, producer, consumer, logger, poster, made,
                   unlogged, file>>

PrintMessage ==
    /\ shell > 0
    /\ heap' = heap \ {Head(msgQueue)}
    /\ msgQueue' = Tail(msgQueue)
    /\ shell' = shell - 1
    /\ UNCHANGED <<packs, logQueue, producer, consumer, logger, poster, made, unlogged, file>>

-----------------------------------------------------------------------------

Handlers ==
    \/ MakePackage
    \/ PushPackage
    \/ DropPackage
    \/ AllocateCopy
    \/ CopyPayload
    \/ PushLogEntry
    \/ DropLogEntry

Consumer == PopPackage \/ FreePackage

Logger == WakeLogger \/ FormatEntry \/ WriteEntry \/ LoggerDone

Poster == AllocateMessage \/ PushMessage \/ DropMessage

Shell == WakeShell \/ PrintMessage

Next == Handlers \/ Consumer \/ Logger \/ Poster \/ Shell

\* All tasks run periodically.
Fairness == WF_vars(Handlers) /\ WF_vars(Consumer) /\ WF_vars(Logger) /\ WF_vars(Shell)

Spec == Init /\ [][Next]_vars /\ Fairness

-----------------------------------------------------------------------------
(* Properties *)

\* The blocks the tasks refer to, the one of a package already pushed aside.
HeldByTasks ==
    <<IF producer.at = "push" THEN producer.payload ELSE NoBlock,
      producer.copy, consumer, logger.string, poster>>

\* Who is going to free block b: entries of the queues, or tasks.
Owners(b) ==
    ({"packs"} \X {i \in DOMAIN packs : packs[i].payload = b})
        \cup ({"logQueue"} \X {i \in DOMAIN logQueue : logQueue[i].payload = b})
        \cup ({"msgQueue"} \X {i \in DOMAIN msgQueue : msgQueue[i] = b})
        \cup ({"tasks"} \X {i \in DOMAIN HeldByTasks : HeldByTasks[i] = b})

\* Through full queues and the half emptied log queue every allocated block has exactly one
\* owner: nothing leaks and nothing is freed twice (Logger.c:198-201, 334; Shell.c:132, 164).
\* So the queues and what each task holds bound the memory in use, and logging does not stop
\* the switch by taking ever more of it.
BlocksOwnedOnce == \A b \in Blocks : Cardinality(Owners(b)) = (IF b \in heap THEN 1 ELSE 0)

Numbers(queue) == [i \in DOMAIN queue |-> queue[i].number]

Logging == IF producer.at \in {"push", "log", "copy", "pushLog"} THEN <<made>> ELSE <<>>

Logged == Numbers(file) \o Numbers(logQueue) \o Logging

\* The log holds the delivered packages in the order they were delivered, each once; the
\* missing ones found a full queue (Logger.c:331).
LogCompleteAndOrdered ==
    /\ {Logged[k] : k \in DOMAIN Logged} = (1 .. made) \ unlogged
    /\ \A j, k \in DOMAIN Logged : j < k => Logged[j] < Logged[k]

\* Every copied package is written to the file in the end although a call of logPackages
\* leaves about half of the queue behind (Logger.c:182), and the shell's queue does not stay
\* full, so that tasks that post are not held up for ever (Shell.c:161).
QueuesDrain ==
    /\ \A n \in 1 .. MaxPackages :
          n \in ToSet(Numbers(logQueue)) ~> n \in ToSet(Numbers(file))
    /\ Len(msgQueue) = MsgLen ~> Len(msgQueue) < MsgLen

=============================================================================
