------------------------- MODULE Diagnostics_proofs -------------------------
(***************************************************************************)
(* Theorems about Diagnostics: no block leaks or is freed twice, and the   *)
(* log is complete and in order, for every length of the queues, any       *)
(* number of packages and messages, and every interleaving of the tasks.   *)
(***************************************************************************)
EXTENDS Diagnostics, SequenceTheorems, FiniteSetTheorems, TLAPS

-----------------------------------------------------------------------------
(* The inductive invariant *)

Messages == {Message(n) : n \in 0 .. MsgLen}

\* The packages the producer is done with.
Settled == IF producer.at = "idle" THEN made ELSE made - 1

Ascending(queue) == \A i, j \in 1 .. Len(queue) : i < j => queue[i].number < queue[j].number

\* The entry of the package with number n is in the queue.
Waiting(queue, n) == \E i \in 1 .. Len(queue) : queue[i].number = n

ProducerInv ==
    /\ producer.at # "idle" => made > 0
    /\ producer.at = "push" => producer.payload = Payload(made)
    /\ producer.copy = IF producer.at \in {"copy", "pushLog"} THEN Copy(made) ELSE NoBlock
    /\ unlogged \subseteq 1 .. Settled

\* The packages pushed: those the consumer has not yet taken follow the one it holds.
PacksInv ==
    /\ Ascending(packs)
    /\ \A i \in 1 .. Len(packs) :
          /\ packs[i].payload = Payload(packs[i].number)
          /\ packs[i].number <= made
          /\ producer.at = "push" => packs[i].number < made
          /\ \A n \in 1 .. MaxPackages : consumer = Payload(n) => n < packs[i].number
    /\ consumer = NoBlock \/ \E n \in 1 .. MaxPackages : consumer = Payload(n)
    /\ \A n \in 1 .. MaxPackages : consumer = Payload(n) =>
          n <= made /\ (producer.at = "push" => n < made)
    /\ \A n \in 1 .. MaxPackages : Payload(n) \in heap <=>
          \/ Waiting(packs, n)
          \/ producer.at = "push" /\ n = made
          \/ consumer = Payload(n)

\* The copies: written, waiting to be written, or in the producer's hands.
LogInv ==
    /\ Ascending(logQueue)
    /\ \A i \in 1 .. Len(logQueue) :
          /\ logQueue[i].payload = Copy(logQueue[i].number)
          /\ logQueue[i].number <= Settled
    /\ \A n \in 1 .. MaxPackages : Copy(n) \in heap <=>
          \/ Waiting(logQueue, n)
          \/ producer.at \in {"copy", "pushLog"} /\ n = made

LoggerInv ==
    /\ logger.string = IF logger.at = "write" THEN String ELSE NoBlock
    /\ logger.at = "write" => logQueue # <<>>
    /\ logger.i <= Len(file)
    /\ Len(file) + Len(logQueue) <= Settled
    /\ String \in heap <=> logger.at = "write"

\* A message belongs to the task that posts it or waits for the shell, and there are more of
\* them than the queue holds.
MessagesInv ==
    /\ shell <= Len(msgQueue)
    /\ poster \in Messages \cup {NoBlock}
    /\ \A i \in 1 .. Len(msgQueue) : msgQueue[i] \in Messages /\ msgQueue[i] # poster
    /\ \A i, j \in 1 .. Len(msgQueue) : msgQueue[i] = msgQueue[j] => i = j
    /\ \A b \in Messages : b \in heap <=>
          poster = b \/ \E i \in 1 .. Len(msgQueue) : msgQueue[i] = b

Written == Numbers(file) \o Numbers(logQueue)

LogOrderInv ==
    /\ {Written[k] : k \in 1 .. Len(Written)} = (1 .. Settled) \ unlogged
    /\ \A j, k \in 1 .. Len(Written) : j < k => Written[j] < Written[k]

DiagnosticsInv ==
    TypeOK /\ ProducerInv /\ PacksInv /\ LogInv /\ LoggerInv /\ MessagesInv /\ LogOrderInv

-----------------------------------------------------------------------------
(* Blocks *)

LEMMA Kinds ==
    /\ \A m, n : /\ Payload(m) = Payload(n) <=> m = n
                 /\ Copy(m) = Copy(n) <=> m = n
                 /\ Message(m) = Message(n) <=> m = n
                 /\ Payload(m) # Copy(n) /\ Payload(m) # Message(n) /\ Copy(m) # Message(n)
                 /\ Payload(m) # String /\ Copy(m) # String /\ Message(m) # String
                 /\ Payload(m) # NoBlock /\ Copy(m) # NoBlock /\ Message(m) # NoBlock
    /\ String # NoBlock
  BY DEF Payload, Copy, Message, String, NoBlock

LEMMA NoBlockIsNone == NoBlock \notin Blocks
  BY Kinds DEF Blocks

LEMMA KindsAreBlocks ==
    /\ \A n \in 1 .. MaxPackages : Payload(n) \in Blocks /\ Copy(n) \in Blocks
    /\ String \in Blocks
    /\ Messages \subseteq Blocks
  BY DEF Blocks, Messages

\* A block of one kind is taken or freed: the others are as they were.
LEMMA MessagesDiffer ==
    \A b \in Messages : /\ \A n : b # Payload(n) /\ b # Copy(n)
                        /\ b # String /\ b # NoBlock
  BY Kinds DEF Messages

LEMMA InitInv == Init => DiagnosticsInv
<1> SUFFICES ASSUME Init PROVE DiagnosticsInv
  OBVIOUS
<1>0. MaxPackages \in Nat
  BY DiagnosticsAssumption
<1>1. TypeOK
  BY <1>0, DiagnosticsAssumption DEF Init, TypeOK, IdleProducer, Sleeping, MaybeBlock
<1>2. ProducerInv /\ Settled = 0
  BY DEF Init, ProducerInv, IdleProducer, Settled
<1>3. PacksInv
  BY Kinds DEF Init, PacksInv, Ascending, Waiting, IdleProducer
<1>4. LogInv
  BY DEF Init, LogInv, Ascending, Waiting, IdleProducer
<1>5. LoggerInv
  BY <1>2 DEF Init, LoggerInv, Sleeping
<1>6. MessagesInv
  BY MessagesDiffer DEF Init, MessagesInv
<1>7. LogOrderInv
  <2>1. Written = <<>> \o <<>>
    BY DEF Init, Written, Numbers
  <2>2. Len(Written) = 0
    BY <2>1
  <2>3. (1 .. Settled) \ unlogged = {}
    BY <1>2 DEF Init
  <2> QED
    BY <2>2, <2>3 DEF LogOrderInv
<1> QED
  BY <1>1, <1>2, <1>3, <1>4, <1>5, <1>6, <1>7 DEF DiagnosticsInv

-----------------------------------------------------------------------------
(* Queues *)

LEMMA QueueAppended ==
    ASSUME NEW S, NEW q \in Seq(S), NEW e \in S
    PROVE  /\ Append(q, e) \in Seq(S)
           /\ Len(Append(q, e)) = Len(q) + 1 /\ Len(q) \in Nat
           /\ Append(q, e)[Len(q) + 1] = e
           /\ \A i \in 1 .. Len(q) : Append(q, e)[i] = q[i]
           /\ \A i \in 1 .. Len(Append(q, e)) :
                 \/ i \in 1 .. Len(q) /\ Append(q, e)[i] = q[i]
                 \/ i = Len(q) + 1 /\ Append(q, e)[i] = e
<1>1. /\ Append(q, e) \in Seq(S)
      /\ Len(Append(q, e)) = Len(q) + 1 /\ Len(q) \in Nat
      /\ Append(q, e)[Len(q) + 1] = e
      /\ \A i \in 1 .. Len(q) : Append(q, e)[i] = q[i]
  BY AppendProperties, LenProperties
<1> QED
  BY <1>1

LEMMA QueueShortened ==
    ASSUME NEW S, NEW q \in Seq(S), q # <<>>
    PROVE  /\ Tail(q) \in Seq(S) /\ Head(q) \in S /\ Head(q) = q[1]
           /\ Len(q) \in Nat /\ Len(q) > 0 /\ 1 \in 1 .. Len(q)
           /\ Len(Tail(q)) = Len(q) - 1
           /\ \A i \in 1 .. Len(Tail(q)) : i + 1 \in 1 .. Len(q) /\ Tail(q)[i] = q[i + 1]
           /\ \A i \in 1 .. Len(q) :
                 i = 1 \/ (i - 1 \in 1 .. Len(Tail(q)) /\ Tail(q)[i - 1] = q[i])
<1>1. /\ Tail(q) \in Seq(S) /\ Head(q) \in S /\ Head(q) = q[1]
      /\ Len(q) \in Nat /\ Len(q) > 0
      /\ Len(Tail(q)) = Len(q) - 1
      /\ \A i \in 1 .. Len(Tail(q)) : Tail(q)[i] = q[i + 1]
  BY HeadTailProperties, LenProperties, EmptySeq
<1>2. \A i \in 1 .. Len(Tail(q)) : i + 1 \in 1 .. Len(q)
  BY <1>1
<1>3. ASSUME NEW i \in 1 .. Len(q), i # 1
      PROVE  i - 1 \in 1 .. Len(Tail(q)) /\ Tail(q)[i - 1] = q[i]
  <2>1. i - 1 \in 1 .. Len(Tail(q)) /\ (i - 1) + 1 = i
    BY <1>1, <1>3
  <2> QED
    BY <1>1, <2>1
<1>4. 1 \in 1 .. Len(q)
  BY <1>1
<1> QED
  BY <1>1, <1>2, <1>3, <1>4

\* The numbers of packages are integers.
LEMMA EntryNumber == \A e \in Entry : e.number \in Nat /\ e.number > 0 /\ e.number <= MaxPackages
  BY DiagnosticsAssumption DEF Entry

LEMMA EntriesOfQueue ==
    ASSUME NEW q \in Seq(Entry)
    PROVE  /\ Len(q) \in Nat
           /\ \A i \in 1 .. Len(q) : q[i] \in Entry /\ q[i].number \in 1 .. MaxPackages
<1>1. Len(q) \in Nat
  BY LenProperties
<1>2. \A i \in 1 .. Len(q) : q[i] \in Entry
  BY ElementOfSeq
<1>3. \A e \in Entry : e.number \in 1 .. MaxPackages
  BY DEF Entry
<1> QED
  BY <1>1, <1>2, <1>3

LEMMA NewestWaits ==
    ASSUME NEW q \in Seq(Entry), NEW e \in Entry, Ascending(q),
           \A i \in 1 .. Len(q) : q[i].number < e.number
    PROVE  /\ Ascending(Append(q, e))
           /\ \A n : Waiting(Append(q, e), n) <=> Waiting(q, n) \/ e.number = n
<1> DEFINE t == Append(q, e)
<1>1. /\ Len(t) = Len(q) + 1 /\ Len(q) \in Nat
      /\ t[Len(q) + 1] = e
      /\ \A i \in 1 .. Len(q) : t[i] = q[i]
      /\ \A i \in 1 .. Len(t) :
            \/ i \in 1 .. Len(q) /\ t[i] = q[i]
            \/ i = Len(q) + 1 /\ t[i] = e
  BY QueueAppended
<1> HIDE DEF t
<1>2. ASSUME NEW i \in 1 .. Len(t), NEW j \in 1 .. Len(t), i < j
      PROVE  t[i].number < t[j].number
  <2>1. i \in 1 .. Len(q) /\ t[i] = q[i]
    BY <1>1, <1>2
  <2> QED
    BY <1>1, <1>2, <2>1 DEF Ascending
<1>3. Len(q) + 1 \in 1 .. Len(t) /\ \A i \in 1 .. Len(q) : i \in 1 .. Len(t)
  BY <1>1
<1>4. ASSUME NEW n PROVE Waiting(t, n) <=> Waiting(q, n) \/ e.number = n
  BY <1>1, <1>3 DEF Waiting
<1> QED
  BY <1>2, <1>4 DEF Ascending, t

LEMMA OldestTaken ==
    ASSUME NEW q \in Seq(Entry), q # <<>>, Ascending(q)
    PROVE  /\ Ascending(Tail(q))
           /\ \A i \in 1 .. Len(Tail(q)) : Head(q).number < Tail(q)[i].number
           /\ \A n : Waiting(Tail(q), n) <=> Waiting(q, n) /\ n # Head(q).number
<1> DEFINE t == Tail(q)
<1>1. /\ Head(q) = q[1] /\ 1 \in 1 .. Len(q) /\ Len(q) \in Nat
      /\ Len(t) = Len(q) - 1
      /\ \A i \in 1 .. Len(t) : i + 1 \in 1 .. Len(q) /\ t[i] = q[i + 1]
      /\ \A i \in 1 .. Len(q) : i = 1 \/ (i - 1 \in 1 .. Len(t) /\ t[i - 1] = q[i])
      /\ t \in Seq(Entry)
  BY QueueShortened
<1> HIDE DEF t
<1>2. ASSUME NEW i \in 1 .. Len(t), NEW j \in 1 .. Len(t), i < j
      PROVE  t[i].number < t[j].number
  <2>1. i + 1 < j + 1
    BY <1>1, <1>2
  <2> QED
    BY <1>1, <2>1 DEF Ascending
<1>3. ASSUME NEW i \in 1 .. Len(t) PROVE Head(q).number < t[i].number
  <2>1. 1 < i + 1
    BY <1>1
  <2> QED
    BY <1>1, <2>1 DEF Ascending
<1>4. ASSUME NEW n PROVE Waiting(t, n) <=> Waiting(q, n) /\ n # Head(q).number
  <2>1. ASSUME Waiting(t, n) PROVE Waiting(q, n) /\ n # Head(q).number
    <3>1. PICK i \in 1 .. Len(t) : t[i].number = n
      BY <2>1 DEF Waiting
    <3>2. Head(q).number < n /\ t[i] \in Entry /\ q[1] \in Entry
      BY <1>1, <1>3, <3>1
    <3>3. Head(q).number \in Nat /\ n \in Nat
      BY <1>1, <3>1, <3>2, EntryNumber
    <3> QED
      BY <1>1, <3>1, <3>2, <3>3 DEF Waiting
  <2>2. ASSUME Waiting(q, n), n # Head(q).number PROVE Waiting(t, n)
    BY <1>1, <2>2 DEF Waiting
  <2> QED
    BY <2>1, <2>2
<1> QED
  BY <1>2, <1>3, <1>4 DEF Ascending, t

\* There is always a block for one more message: the queue and the task that posts hold fewer
\* than there are.
LEMMA FreeMessage ==
    ASSUME TypeOK, MessagesInv, poster = NoBlock
    PROVE  \E b \in Messages : b \notin heap
<1> SUFFICES ASSUME \A b \in Messages : b \in heap PROVE FALSE
  OBVIOUS
<1>1. Len(msgQueue) \in Nat /\ Len(msgQueue) <= MsgLen /\ MsgLen \in Nat
  BY LenProperties, DiagnosticsAssumption DEF TypeOK
<1> DEFINE f == [n \in 0 .. MsgLen |->
                    CHOOSE i \in 1 .. Len(msgQueue) : msgQueue[i] = Message(n)]
<1>2. ASSUME NEW n \in 0 .. MsgLen
      PROVE  f[n] \in 1 .. Len(msgQueue) /\ msgQueue[f[n]] = Message(n)
  <2>1. Message(n) \in Messages /\ Message(n) # poster
    BY Kinds DEF Messages
  <2>2. \E i \in 1 .. Len(msgQueue) : msgQueue[i] = Message(n)
    BY <2>1 DEF MessagesInv
  <2> QED
    BY <2>2
<1>3. f \in [0 .. MsgLen -> 1 .. Len(msgQueue)]
  BY <1>2
<1>4. /\ IsFiniteSet(0 .. MsgLen) /\ Cardinality(0 .. MsgLen) = MsgLen + 1
      /\ IsFiniteSet(1 .. Len(msgQueue)) /\ Cardinality(1 .. Len(msgQueue)) = Len(msgQueue)
  <2>1. /\ 0 \in Int /\ MsgLen \in Int /\ ~(0 > MsgLen) /\ (MsgLen - 0) + 1 = MsgLen + 1
    BY <1>1
  <2>2. IsFiniteSet(0 .. MsgLen) /\ Cardinality(0 .. MsgLen) = MsgLen + 1
    <3>1. Cardinality(0 .. MsgLen) = IF 0 > MsgLen THEN 0 ELSE (MsgLen - 0) + 1
      BY <2>1, FS_Interval
    <3> QED
      BY <2>1, <3>1, FS_Interval
  <2>3. PICK n \in Nat : n = Len(msgQueue)
    BY <1>1
  <2>4. 1 \in Int /\ n \in Int
    BY <2>3
  <2>5. IsFiniteSet(1 .. n) /\ Cardinality(1 .. n) = IF 1 > n THEN 0 ELSE (n - 1) + 1
    BY <2>4, FS_Interval
  <2>6. Cardinality(1 .. n) = n
    BY <2>3, <2>5
  <2> QED
    BY <2>2, <2>3, <2>5, <2>6
<1>5. Cardinality(1 .. Len(msgQueue)) < Cardinality(0 .. MsgLen)
  BY <1>1, <1>4
<1> HIDE DEF f
<1>6. PICK m, n \in 0 .. MsgLen : m # n /\ f[m] = f[n]
  BY <1>3, <1>4, <1>5, FS_PigeonHole
<1> QED
  BY <1>2, <1>6, Kinds

LEMMA MessageAllocated ==
    ASSUME TypeOK, MessagesInv, AllocateMessage
    PROVE  poster' \in Messages /\ poster' \notin heap
<1>1. \E b \in Messages : b \notin heap
  BY FreeMessage DEF AllocateMessage
<1>2. poster' = CHOOSE b \in Messages : b \notin heap
  BY DEF AllocateMessage, Messages
<1> QED
  BY <1>1, <1>2

-----------------------------------------------------------------------------
(* Every step keeps the invariant *)

LEMMA NumberOfPackage ==
    ASSUME DiagnosticsInv, producer.at # "idle"
    PROVE  /\ made \in 1 .. MaxPackages
           /\ Payload(made) \in Blocks /\ Copy(made) \in Blocks
<1>1. made \in 1 .. MaxPackages
  BY DiagnosticsAssumption DEF DiagnosticsInv, TypeOK, ProducerInv
<1> QED
  BY <1>1, KindsAreBlocks

LEMMA HandlersTypeOK == DiagnosticsInv /\ Handlers => TypeOK'
<1> SUFFICES ASSUME DiagnosticsInv, Handlers PROVE TypeOK'
  OBVIOUS
<1>0. TypeOK /\ ProducerInv /\ MaxPackages \in Nat
  BY DiagnosticsAssumption DEF DiagnosticsInv
<1>1. CASE MakePackage
  <2>1. made' \in 1 .. MaxPackages
    BY <1>0, <1>1 DEF MakePackage, TypeOK
  <2>2. Payload(made') \in Blocks
    BY <2>1, KindsAreBlocks
  <2>3. producer' \in [at : {"idle", "push", "log", "copy", "pushLog"}, payload : MaybeBlock,
                       copy : MaybeBlock, intact : BOOLEAN]
    BY <1>0, <1>1, <2>2 DEF MakePackage, TypeOK, MaybeBlock
  <2> QED
    BY <1>0, <1>1, <2>1, <2>2, <2>3 DEF MakePackage, TypeOK
<1>2. CASE PushPackage
  <2> DEFINE e == [number |-> made, payload |-> producer.payload, intact |-> TRUE]
  <2>1. e \in Entry
    BY <1>0, <1>2, NumberOfPackage DEF PushPackage, ProducerInv, Entry
  <2>2. packs' = Append(packs, e) /\ packs \in Seq(Entry) /\ Len(packs) < PackLen
    BY <1>0, <1>2 DEF PushPackage, TypeOK
  <2> HIDE DEF e
  <2>3. packs' \in Seq(Entry) /\ Len(packs') <= PackLen
    BY <2>1, <2>2, QueueAppended, DiagnosticsAssumption
  <2>4. producer' \in [at : {"idle", "push", "log", "copy", "pushLog"}, payload : MaybeBlock,
                       copy : MaybeBlock, intact : BOOLEAN]
    BY <1>0, <1>2 DEF PushPackage, TypeOK
  <2> QED
    BY <1>0, <1>2, <2>3, <2>4 DEF PushPackage, TypeOK
<1>3. CASE DropPackage
  <2>1. unlogged' \subseteq 1 .. MaxPackages
    BY <1>0, <1>3, NumberOfPackage DEF DropPackage, TypeOK
  <2>2. producer' \in [at : {"idle", "push", "log", "copy", "pushLog"}, payload : MaybeBlock,
                       copy : MaybeBlock, intact : BOOLEAN]
    BY <1>3 DEF DropPackage, IdleProducer, MaybeBlock
  <2> QED
    BY <1>0, <1>3, <2>1, <2>2 DEF DropPackage, TypeOK
<1>4. CASE AllocateCopy
  <2>1. Copy(made) \in Blocks
    BY <1>4, NumberOfPackage DEF AllocateCopy
  <2>2. producer' \in [at : {"idle", "push", "log", "copy", "pushLog"}, payload : MaybeBlock,
                       copy : MaybeBlock, intact : BOOLEAN]
    BY <1>0, <1>4, <2>1 DEF AllocateCopy, TypeOK, MaybeBlock
  <2> QED
    BY <1>0, <1>4, <2>1, <2>2 DEF AllocateCopy, TypeOK
<1>5. CASE CopyPayload
  <2>1. PICK ok \in BOOLEAN : producer' = [producer EXCEPT !.at = "pushLog", !.intact = ok]
    BY <1>5 DEF CopyPayload
  <2>2. producer' \in [at : {"idle", "push", "log", "copy", "pushLog"}, payload : MaybeBlock,
                       copy : MaybeBlock, intact : BOOLEAN]
    BY <1>0, <2>1 DEF TypeOK
  <2> QED
    BY <1>0, <1>5, <2>2 DEF CopyPayload, TypeOK
<1>6. CASE PushLogEntry
  <2> DEFINE e == [number |-> made, payload |-> producer.copy, intact |-> producer.intact]
  <2>1. e \in Entry
    <3>1. producer.copy = Copy(made)
      BY <1>0, <1>6 DEF PushLogEntry, ProducerInv
    <3>2. producer.intact \in BOOLEAN
      BY <1>0 DEF TypeOK
    <3> QED
      BY <1>6, <3>1, <3>2, NumberOfPackage DEF PushLogEntry, Entry
  <2>2. logQueue' = Append(logQueue, e) /\ logQueue \in Seq(Entry) /\ Len(logQueue) < LogLen
    BY <1>0, <1>6 DEF PushLogEntry, TypeOK
  <2> HIDE DEF e
  <2>3. logQueue' \in Seq(Entry) /\ Len(logQueue') <= LogLen
    BY <2>1, <2>2, QueueAppended, DiagnosticsAssumption
  <2>4. producer' \in [at : {"idle", "push", "log", "copy", "pushLog"}, payload : MaybeBlock,
                       copy : MaybeBlock, intact : BOOLEAN]
    BY <1>6 DEF PushLogEntry, IdleProducer, MaybeBlock
  <2> QED
    BY <1>0, <1>6, <2>3, <2>4 DEF PushLogEntry, TypeOK
<1>7. CASE DropLogEntry
  <2>1. unlogged' \subseteq 1 .. MaxPackages
    BY <1>0, <1>7, NumberOfPackage DEF DropLogEntry, TypeOK
  <2>2. producer' \in [at : {"idle", "push", "log", "copy", "pushLog"}, payload : MaybeBlock,
                       copy : MaybeBlock, intact : BOOLEAN]
    BY <1>7 DEF DropLogEntry, IdleProducer, MaybeBlock
  <2> QED
    BY <1>0, <1>7, <2>1, <2>2 DEF DropLogEntry, TypeOK
<1> QED
  BY <1>1, <1>2, <1>3, <1>4, <1>5, <1>6, <1>7 DEF Handlers

LEMMA TasksTypeOK == DiagnosticsInv /\ (Consumer \/ Logger \/ Poster \/ Shell) => TypeOK'
<1> SUFFICES ASSUME DiagnosticsInv, Consumer \/ Logger \/ Poster \/ Shell PROVE TypeOK'
  OBVIOUS
<1>0. /\ TypeOK /\ LoggerInv /\ MessagesInv /\ ProducerInv /\ MaxPackages \in Nat
      /\ PackLen \in Nat /\ LogLen \in Nat /\ MsgLen \in Nat
  BY DiagnosticsAssumption DEF DiagnosticsInv
<1>1. CASE PopPackage
  <2>1. packs \in Seq(Entry) /\ packs # <<>> /\ Len(packs) <= PackLen
    BY <1>0, <1>1 DEF PopPackage, TypeOK
  <2>2. /\ Tail(packs) \in Seq(Entry) /\ Len(Tail(packs)) = Len(packs) - 1
        /\ Len(packs) \in Nat /\ Head(packs) \in Entry
    BY <2>1, QueueShortened
  <2>3. Head(packs).payload \in Blocks
    BY <2>2 DEF Entry
  <2> QED
    BY <1>0, <1>1, <2>1, <2>2, <2>3 DEF PopPackage, TypeOK, MaybeBlock
<1>2. CASE FreePackage
  BY <1>0, <1>2 DEF FreePackage, TypeOK, MaybeBlock
<1>3. CASE WakeLogger
  <2>1. logger' = [at |-> "loop", string |-> NoBlock, i |-> 0]
    BY <1>3 DEF WakeLogger, Sleeping
  <2>2. logger' \in [at : {"sleep", "loop", "write"}, string : MaybeBlock,
                     i : 0 .. MaxPackages]
    BY <1>0, <2>1 DEF MaybeBlock
  <2> QED
    BY <1>0, <1>3, <2>2 DEF WakeLogger, TypeOK
<1>4. CASE FormatEntry
  <2>1. String \in Blocks
    BY KindsAreBlocks
  <2>2. logger' \in [at : {"sleep", "loop", "write"}, string : MaybeBlock,
                     i : 0 .. MaxPackages]
    BY <1>0, <1>4, <2>1 DEF FormatEntry, TypeOK, MaybeBlock
  <2> QED
    BY <1>0, <1>4, <2>1, <2>2 DEF FormatEntry, TypeOK
<1>5. CASE WriteEntry
  <2>1. logQueue \in Seq(Entry) /\ logQueue # <<>> /\ Len(logQueue) <= LogLen
    BY <1>0, <1>5 DEF WriteEntry, TypeOK, LoggerInv
  <2>2. /\ Tail(logQueue) \in Seq(Entry) /\ Len(Tail(logQueue)) = Len(logQueue) - 1
        /\ Len(logQueue) \in Nat /\ Len(logQueue) > 0 /\ Head(logQueue) \in Entry
    BY <2>1, QueueShortened
  <2> DEFINE w == [number |-> Head(logQueue).number, intact |-> Head(logQueue).intact]
  <2>3. w \in [number : 1 .. MaxPackages, intact : BOOLEAN]
    BY <2>2 DEF Entry
  <2>4. file' = Append(file, w) /\ file \in Seq([number : 1 .. MaxPackages, intact : BOOLEAN])
    BY <1>0, <1>5 DEF WriteEntry, TypeOK
  <2> HIDE DEF w
  <2>5. file' \in Seq([number : 1 .. MaxPackages, intact : BOOLEAN]) /\ Len(file) \in Nat
    BY <2>3, <2>4, QueueAppended
  <2>6. logger.i + 1 \in 0 .. MaxPackages
    <3>1. made \in 0 .. MaxPackages /\ logger.i \in 0 .. MaxPackages
      BY <1>0 DEF TypeOK
    <3>2. Settled <= MaxPackages
      BY <1>0, <3>1 DEF Settled
    <3>3. logger.i <= Len(file) /\ Len(file) + Len(logQueue) <= Settled
      BY <1>0 DEF LoggerInv
    <3>4. Settled \in Int
      BY <3>1 DEF Settled
    <3> QED
      BY <1>0, <2>2, <2>5, <3>1, <3>2, <3>3, <3>4
  <2>7. logger' \in [at : {"sleep", "loop", "write"}, string : MaybeBlock,
                     i : 0 .. MaxPackages]
    BY <1>5, <2>6 DEF WriteEntry, MaybeBlock
  <2>8. heap' \subseteq Blocks /\ logQueue' \in Seq(Entry) /\ Len(logQueue') <= LogLen
    BY <1>0, <1>5, <2>1, <2>2 DEF WriteEntry, TypeOK
  <2> QED
    BY <1>0, <1>5, <2>5, <2>7, <2>8 DEF WriteEntry, TypeOK
<1>6. CASE LoggerDone
  BY <1>0, <1>6 DEF LoggerDone, TypeOK, Sleeping, MaybeBlock
<1>7. CASE AllocateMessage
  <2>1. poster' \in Blocks
    BY <1>0, <1>7, MessageAllocated, KindsAreBlocks
  <2> QED
    BY <1>0, <1>7, <2>1 DEF AllocateMessage, TypeOK, MaybeBlock
<1>8. CASE PushMessage
  <2>1. poster \in Blocks /\ msgQueue \in Seq(Blocks) /\ Len(msgQueue) < MsgLen
    BY <1>0, <1>8 DEF PushMessage, TypeOK, MaybeBlock
  <2>2. Append(msgQueue, poster) \in Seq(Blocks)
        /\ Len(Append(msgQueue, poster)) = Len(msgQueue) + 1 /\ Len(msgQueue) \in Nat
    BY <2>1, QueueAppended
  <2> QED
    BY <1>0, <1>8, <2>1, <2>2 DEF PushMessage, TypeOK, MaybeBlock
<1>9. CASE DropMessage
  BY <1>0, <1>9 DEF DropMessage, TypeOK, MaybeBlock
<1>10. CASE WakeShell
  <2>1. Len(msgQueue) \in Nat /\ Len(msgQueue) <= MsgLen
    BY <1>0, LenProperties DEF TypeOK
  <2> QED
    BY <1>0, <1>10, <2>1 DEF WakeShell, TypeOK
<1>11. CASE PrintMessage
  <2>1. msgQueue \in Seq(Blocks) /\ Len(msgQueue) <= MsgLen /\ shell \in 0 .. MsgLen
    BY <1>0 DEF TypeOK
  <2>2. msgQueue # <<>>
    BY <1>0, <1>11, <2>1, EmptySeq DEF PrintMessage, MessagesInv
  <2>3. Tail(msgQueue) \in Seq(Blocks) /\ Len(Tail(msgQueue)) = Len(msgQueue) - 1
        /\ Len(msgQueue) \in Nat
    BY <2>1, <2>2, QueueShortened
  <2> QED
    BY <1>0, <1>11, <2>1, <2>3 DEF PrintMessage, TypeOK
<1> QED
  BY <1>1, <1>2, <1>3, <1>4, <1>5, <1>6, <1>7, <1>8, <1>9, <1>10, <1>11
  DEF Consumer, Logger, Poster, Shell

LEMMA StepTypeOK == DiagnosticsInv /\ [Next]_vars => TypeOK'
<1>1. DiagnosticsInv /\ UNCHANGED vars => TypeOK'
  BY DEF DiagnosticsInv, TypeOK, vars
<1> QED
  BY <1>1, HandlersTypeOK, TasksTypeOK DEF Next

\* Only the handlers make, deliver and log packages.
LEMMA OthersLeaveProducer ==
    Consumer \/ Logger \/ Poster \/ Shell => UNCHANGED <<producer, made, unlogged>>
  BY DEF Consumer, Logger, Poster, Shell, PopPackage, FreePackage, WakeLogger, FormatEntry,
     WriteEntry, LoggerDone, AllocateMessage, PushMessage, DropMessage, WakeShell, PrintMessage

LEMMA StepProducerInv == DiagnosticsInv /\ [Next]_vars => ProducerInv'
<1> SUFFICES ASSUME DiagnosticsInv, [Next]_vars PROVE ProducerInv'
  OBVIOUS
<1>0. /\ ProducerInv /\ made \in Nat /\ producer.at \in {"idle", "push", "log", "copy", "pushLog"}
      /\ producer \in [at : {"idle", "push", "log", "copy", "pushLog"}, payload : MaybeBlock,
                       copy : MaybeBlock, intact : BOOLEAN]
  BY DiagnosticsAssumption DEF DiagnosticsInv, TypeOK
<1>1. CASE MakePackage
  BY <1>0, <1>1 DEF MakePackage, ProducerInv, Settled
<1>2. CASE PushPackage
  BY <1>0, <1>2 DEF PushPackage, ProducerInv, Settled
<1>3. CASE DropPackage
  BY <1>0, <1>3 DEF DropPackage, ProducerInv, Settled, IdleProducer
<1>4. CASE AllocateCopy
  BY <1>0, <1>4 DEF AllocateCopy, ProducerInv, Settled
<1>5. CASE CopyPayload
  <2>1. PICK ok \in BOOLEAN : producer' = [producer EXCEPT !.at = "pushLog", !.intact = ok]
    BY <1>5 DEF CopyPayload
  <2> QED
    BY <1>0, <1>5, <2>1 DEF CopyPayload, ProducerInv, Settled
<1>6. CASE PushLogEntry
  BY <1>0, <1>6 DEF PushLogEntry, ProducerInv, Settled, IdleProducer
<1>7. CASE DropLogEntry
  BY <1>0, <1>7 DEF DropLogEntry, ProducerInv, Settled, IdleProducer
<1>8. CASE UNCHANGED <<producer, made, unlogged>>
  BY <1>0, <1>8 DEF ProducerInv, Settled
<1> QED
  BY <1>1, <1>2, <1>3, <1>4, <1>5, <1>6, <1>7, <1>8, OthersLeaveProducer
  DEF Next, Handlers, vars

-----------------------------------------------------------------------------
(* An action takes or frees blocks of one kind, the logger's writing of two *)

SamePayloads == \A n \in 1 .. MaxPackages : Payload(n) \in heap' <=> Payload(n) \in heap

SameCopies == \A n \in 1 .. MaxPackages : Copy(n) \in heap' <=> Copy(n) \in heap

SameString == String \in heap' <=> String \in heap

SameMessages == \A b \in Messages : b \in heap' <=> b \in heap

LEMMA PackageBlocks ==
    ASSUME DiagnosticsInv, MakePackage \/ DropPackage \/ FreePackage
    PROVE  SameCopies /\ SameString /\ SameMessages
<1>1. CASE MakePackage
  BY <1>1, Kinds, MessagesDiffer
  DEF MakePackage, SameCopies, SameString, SameMessages
<1>2. CASE DropPackage
  <2>1. producer.payload = Payload(made)
    BY <1>2 DEF DropPackage, DiagnosticsInv, ProducerInv
  <2>2. heap' = heap \ {Payload(made)}
    BY <1>2, <2>1 DEF DropPackage
  <2> QED
    BY <2>2, Kinds, MessagesDiffer DEF SameCopies, SameString, SameMessages
<1>3. CASE FreePackage
  <2>1. PICK n \in 1 .. MaxPackages : consumer = Payload(n)
    BY <1>3 DEF FreePackage, DiagnosticsInv, PacksInv
  <2>2. heap' = heap \ {Payload(n)}
    BY <1>3, <2>1 DEF FreePackage
  <2> QED
    BY <2>2, Kinds, MessagesDiffer DEF SameCopies, SameString, SameMessages
<1> QED
  BY <1>1, <1>2, <1>3

LEMMA CopyBlocks ==
    ASSUME DiagnosticsInv, AllocateCopy \/ DropLogEntry
    PROVE  SamePayloads /\ SameString /\ SameMessages
<1>1. CASE AllocateCopy
  BY <1>1, Kinds, MessagesDiffer
  DEF AllocateCopy, SamePayloads, SameString, SameMessages
<1>2. CASE DropLogEntry
  <2>1. producer.copy = Copy(made)
    BY <1>2 DEF DropLogEntry, DiagnosticsInv, ProducerInv
  <2>2. heap' = heap \ {Copy(made)}
    BY <1>2, <2>1 DEF DropLogEntry
  <2> QED
    BY <2>2, Kinds, MessagesDiffer DEF SamePayloads, SameString, SameMessages
<1> QED
  BY <1>1, <1>2

\* The entry the logger writes and what it frees.
LEMMA EntryWritten ==
    ASSUME DiagnosticsInv, WriteEntry
    PROVE  /\ logQueue \in Seq(Entry) /\ logQueue # <<>>
           /\ Head(logQueue) \in Entry
           /\ heap' = heap \ {Copy(Head(logQueue).number), String}
<1>1. /\ logQueue \in Seq(Entry) /\ logQueue # <<>> /\ logger.string = String
      /\ \A i \in 1 .. Len(logQueue) : logQueue[i].payload = Copy(logQueue[i].number)
  BY DEF DiagnosticsInv, TypeOK, WriteEntry, LoggerInv, LogInv
<1>2. Head(logQueue) \in Entry /\ Head(logQueue) = logQueue[1] /\ 1 \in 1 .. Len(logQueue)
  BY <1>1, QueueShortened
<1>3. Head(logQueue).payload = Copy(Head(logQueue).number)
  BY <1>1, <1>2
<1> QED
  BY <1>1, <1>2, <1>3 DEF WriteEntry

LEMMA LoggerBlocks ==
    ASSUME DiagnosticsInv, FormatEntry \/ WriteEntry
    PROVE  SamePayloads /\ SameMessages /\ (FormatEntry => SameCopies)
<1>1. CASE FormatEntry
  BY <1>1, Kinds, MessagesDiffer DEF FormatEntry, SamePayloads, SameCopies, SameMessages
<1>2. CASE WriteEntry
  <2>1. SamePayloads /\ SameMessages
    BY <1>2, EntryWritten, Kinds, MessagesDiffer DEF SamePayloads, SameMessages
  <2>2. ~FormatEntry
    BY <1>2 DEF WriteEntry, FormatEntry
  <2> QED
    BY <2>1, <2>2
<1> QED
  BY <1>1, <1>2

LEMMA MessageBlocks ==
    ASSUME DiagnosticsInv, AllocateMessage \/ DropMessage \/ PrintMessage
    PROVE  SamePayloads /\ SameCopies /\ SameString
<1>0. TypeOK /\ MessagesInv
  BY DEF DiagnosticsInv
<1>1. CASE AllocateMessage
  BY <1>0, <1>1, MessageAllocated, MessagesDiffer
  DEF AllocateMessage, SamePayloads, SameCopies, SameString
<1>2. CASE DropMessage
  BY <1>0, <1>2, MessagesDiffer
  DEF DropMessage, MessagesInv, SamePayloads, SameCopies, SameString
<1>3. CASE PrintMessage
  <2>1. msgQueue \in Seq(Blocks) /\ msgQueue # <<>>
    BY <1>0, <1>3, EmptySeq DEF PrintMessage, TypeOK, MessagesInv
  <2>2. Head(msgQueue) = msgQueue[1] /\ 1 \in 1 .. Len(msgQueue)
    BY <2>1, QueueShortened
  <2>3. Head(msgQueue) \in Messages
    BY <1>0, <2>2 DEF MessagesInv
  <2> QED
    BY <1>3, <2>3, MessagesDiffer DEF PrintMessage, SamePayloads, SameCopies, SameString
<1> QED
  BY <1>1, <1>2, <1>3

-----------------------------------------------------------------------------
(* The queue of packages *)

LEMMA PacksLeftAlone ==
    ASSUME PacksInv, UNCHANGED <<packs, consumer, made>>, SamePayloads,
           producer'.at = "push" <=> producer.at = "push"
    PROVE  PacksInv'
  BY DEF PacksInv, Ascending, Waiting, SamePayloads

LEMMA StepPacksInv == DiagnosticsInv /\ [Next]_vars => PacksInv'
<1> SUFFICES ASSUME DiagnosticsInv, [Next]_vars PROVE PacksInv'
  OBVIOUS
<1>0. /\ PacksInv /\ ProducerInv /\ packs \in Seq(Entry) /\ made \in 0 .. MaxPackages
      /\ MaxPackages \in Nat
      /\ producer \in [at : {"idle", "push", "log", "copy", "pushLog"}, payload : MaybeBlock,
                       copy : MaybeBlock, intact : BOOLEAN]
  BY DiagnosticsAssumption DEF DiagnosticsInv, TypeOK
<1>a. /\ Len(packs) \in Nat
      /\ \A i \in 1 .. Len(packs) : packs[i] \in Entry /\ packs[i].number \in 1 .. MaxPackages
  BY <1>0, EntriesOfQueue
<1>1. CASE MakePackage
  <2>1. /\ UNCHANGED <<packs, consumer>> /\ made' = made + 1 /\ producer'.at = "push"
        /\ producer.at = "idle" /\ made' \in 1 .. MaxPackages
        /\ heap' = heap \cup {Payload(made')}
    BY <1>0, <1>1 DEF MakePackage
  <2>2. \A i \in 1 .. Len(packs) : packs[i].number <= made /\ packs[i].number < made'
    BY <1>0, <1>a, <2>1 DEF PacksInv
  <2>3. \A n \in 1 .. MaxPackages : consumer = Payload(n) => n < made'
    BY <1>0, <2>1 DEF PacksInv
  <2>4. \A n \in 1 .. MaxPackages : Payload(n) \in heap' <=>
          \/ Waiting(packs, n)
          \/ n = made'
          \/ consumer = Payload(n)
    BY <1>0, <2>1, Kinds DEF PacksInv
  <2>5. \A n \in 1 .. MaxPackages : n < made' => n <= made'
    BY <2>1
  <2>6. \A i \in 1 .. Len(packs) : packs[i].number <= made'
    BY <1>a, <2>2, <2>5
  <2> QED
    BY <1>0, <2>1, <2>2, <2>3, <2>4, <2>5, <2>6 DEF PacksInv, Waiting, Ascending
<1>2. CASE PushPackage
  <2> DEFINE e == [number |-> made, payload |-> producer.payload, intact |-> TRUE]
  <2>1. producer.payload = Payload(made) /\ producer.at = "push" /\ producer'.at = "log"
    BY <1>0, <1>2 DEF PushPackage, ProducerInv
  <2>2. /\ e \in Entry /\ e.number = made /\ e.payload = Payload(made)
        /\ made \in 1 .. MaxPackages
    BY <2>1, NumberOfPackage DEF Entry
  <2>3. packs' = Append(packs, e) /\ UNCHANGED <<heap, consumer, made>>
    BY <1>2 DEF PushPackage
  <2> HIDE DEF e
  <2>4. \A i \in 1 .. Len(packs) : packs[i].number < e.number
    BY <1>0, <2>1, <2>2 DEF PacksInv
  <2>5. /\ Ascending(packs')
        /\ \A n : Waiting(packs', n) <=> Waiting(packs, n) \/ made = n
    BY <1>0, <2>2, <2>3, <2>4, NewestWaits DEF PacksInv
  <2>6. \A i \in 1 .. Len(packs') :
           \/ i \in 1 .. Len(packs) /\ packs'[i] = packs[i]
           \/ packs'[i] = e
    BY <1>0, <2>2, <2>3, QueueAppended
  <2>7. ASSUME NEW i \in 1 .. Len(packs')
        PROVE  /\ packs'[i].payload = Payload(packs'[i].number)
               /\ packs'[i].number <= made
               /\ \A n \in 1 .. MaxPackages : consumer = Payload(n) => n < packs'[i].number
    <3>1. CASE packs'[i] = e
      BY <1>0, <2>1, <2>2, <3>1 DEF PacksInv
    <3>2. CASE i \in 1 .. Len(packs) /\ packs'[i] = packs[i]
      BY <1>0, <3>2 DEF PacksInv
    <3> QED
      BY <2>6, <3>1, <3>2
  <2>8. \A n \in 1 .. MaxPackages : Payload(n) \in heap' <=>
          \/ Waiting(packs', n)
          \/ consumer = Payload(n)
    BY <1>0, <2>1, <2>3, <2>5 DEF PacksInv
  <2>9. /\ consumer = NoBlock \/ \E n \in 1 .. MaxPackages : consumer = Payload(n)
        /\ \A n \in 1 .. MaxPackages : consumer = Payload(n) => n <= made
    BY <1>0 DEF PacksInv
  <2> QED
    BY <2>1, <2>3, <2>5, <2>7, <2>8, <2>9 DEF PacksInv
<1>3. CASE DropPackage
  <2>1. /\ UNCHANGED <<packs, consumer, made>> /\ producer'.at = "idle" /\ producer.at = "push"
        /\ producer.payload = Payload(made) /\ made \in 1 .. MaxPackages
        /\ heap' = heap \ {Payload(made)}
    BY <1>0, <1>3, NumberOfPackage DEF DropPackage, ProducerInv, IdleProducer
  <2>2. ~Waiting(packs, made) /\ consumer # Payload(made)
    BY <1>0, <1>a, <2>1 DEF PacksInv, Waiting
  <2>3. \A n \in 1 .. MaxPackages : Payload(n) \in heap' <=>
          \/ Waiting(packs, n)
          \/ consumer = Payload(n)
    BY <1>0, <2>1, <2>2, Kinds DEF PacksInv
  <2> QED
    BY <1>0, <2>1, <2>3 DEF PacksInv, Waiting, Ascending
<1>4. CASE PopPackage
  <2>1. /\ consumer = NoBlock /\ packs # <<>> /\ consumer' = Head(packs).payload
        /\ packs' = Tail(packs) /\ UNCHANGED <<heap, producer, made>>
    BY <1>4 DEF PopPackage
  <2>2. /\ Ascending(packs')
        /\ \A i \in 1 .. Len(packs') : Head(packs).number < packs'[i].number
        /\ \A n : Waiting(packs', n) <=> Waiting(packs, n) /\ n # Head(packs).number
    BY <1>0, <2>1, OldestTaken DEF PacksInv
  <2>3. /\ Head(packs) = packs[1] /\ 1 \in 1 .. Len(packs)
        /\ \A i \in 1 .. Len(packs') : i + 1 \in 1 .. Len(packs) /\ packs'[i] = packs[i + 1]
    BY <1>0, <2>1, QueueShortened
  <2>4. PICK m \in 1 .. MaxPackages : m = Head(packs).number
    BY <1>a, <2>3
  <2>5. consumer' = Payload(m) /\ m <= made /\ (producer.at = "push" => m < made)
    BY <1>0, <2>1, <2>3, <2>4 DEF PacksInv
  <2>6. ASSUME NEW i \in 1 .. Len(packs')
        PROVE  /\ packs'[i].payload = Payload(packs'[i].number)
               /\ packs'[i].number <= made
               /\ producer.at = "push" => packs'[i].number < made
               /\ \A n \in 1 .. MaxPackages : consumer' = Payload(n) => n < packs'[i].number
    BY <1>0, <2>2, <2>3, <2>4, <2>5, Kinds DEF PacksInv
  <2>7. Waiting(packs, m) /\ \A n \in 1 .. MaxPackages : consumer # Payload(n)
    BY <2>1, <2>3, <2>4, Kinds DEF Waiting
  <2>8. \A n \in 1 .. MaxPackages : Payload(n) \in heap' <=>
          \/ Waiting(packs', n)
          \/ producer.at = "push" /\ n = made
          \/ consumer' = Payload(n)
    BY <1>0, <2>1, <2>2, <2>4, <2>5, <2>7, Kinds DEF PacksInv
  <2> QED
    BY <2>1, <2>2, <2>5, <2>6, <2>8, Kinds DEF PacksInv
<1>5. CASE FreePackage
  <2>1. PICK m \in 1 .. MaxPackages : consumer = Payload(m)
    BY <1>0, <1>5 DEF FreePackage, PacksInv
  <2>2. /\ UNCHANGED <<packs, producer, made>> /\ consumer' = NoBlock
        /\ heap' = heap \ {Payload(m)}
    BY <1>5, <2>1 DEF FreePackage
  <2>3. ~Waiting(packs, m) /\ ~(producer.at = "push" /\ m = made)
    BY <1>0, <1>a, <2>1 DEF PacksInv, Waiting
  <2>4. \A n \in 1 .. MaxPackages : Payload(n) \in heap' <=>
          \/ Waiting(packs, n)
          \/ producer.at = "push" /\ n = made
    BY <1>0, <2>1, <2>2, <2>3, Kinds DEF PacksInv
  <2> QED
    BY <1>0, <2>2, <2>4, Kinds DEF PacksInv, Waiting, Ascending
<1>6. CASE AllocateCopy \/ CopyPayload \/ PushLogEntry \/ DropLogEntry
  <2>1. SamePayloads
    BY <1>6, CopyBlocks DEF CopyPayload, PushLogEntry, SamePayloads
  <2>2. /\ UNCHANGED <<packs, consumer, made>>
        /\ producer'.at # "push" /\ producer.at # "push"
    <3>1. CASE CopyPayload
      <4>1. PICK ok \in BOOLEAN : producer' = [producer EXCEPT !.at = "pushLog", !.intact = ok]
        BY <3>1 DEF CopyPayload
      <4> QED
        BY <1>0, <3>1, <4>1 DEF CopyPayload
    <3>2. CASE AllocateCopy
      BY <1>0, <3>2 DEF AllocateCopy
    <3>3. CASE PushLogEntry \/ DropLogEntry
      BY <1>0, <3>3 DEF PushLogEntry, DropLogEntry, IdleProducer
    <3> QED
      BY <1>6, <3>1, <3>2, <3>3
  <2> QED
    BY <1>0, <2>1, <2>2, PacksLeftAlone
<1>7. CASE Logger \/ Poster \/ Shell \/ UNCHANGED vars
  <2>1. UNCHANGED <<packs, consumer, made, producer>>
    BY <1>7 DEF Logger, Poster, Shell, WakeLogger, FormatEntry, WriteEntry, LoggerDone, vars,
       AllocateMessage, PushMessage, DropMessage, WakeShell, PrintMessage
  <2>2. SamePayloads
    BY <1>7, LoggerBlocks, MessageBlocks
    DEF Logger, Poster, Shell, WakeLogger, LoggerDone, vars, PushMessage, WakeShell, SamePayloads
  <2> QED
    BY <1>0, <2>1, <2>2, PacksLeftAlone
<1> QED
  BY <1>1, <1>2, <1>3, <1>4, <1>5, <1>6, <1>7 DEF Next, Handlers, Consumer

-----------------------------------------------------------------------------
(* The queue of the log and the logger *)

Held(n) == producer.at \in {"copy", "pushLog"} /\ n = made

LEMMA LogLeftAlone ==
    ASSUME LogInv, logQueue \in Seq(Entry), UNCHANGED logQueue, SameCopies,
           Settled \in Int, Settled' \in Int, Settled <= Settled',
           \A n \in 1 .. MaxPackages : Held(n)' <=> Held(n)
    PROVE  LogInv'
<1>1. \A i \in 1 .. Len(logQueue) : logQueue[i].number \in Int
  BY EntriesOfQueue
<1>2. \A i \in 1 .. Len(logQueue) : logQueue[i].number <= Settled'
  BY <1>1 DEF LogInv
<1> QED
  BY <1>2 DEF LogInv, Ascending, Waiting, SameCopies, Held

\* The number of packages the producer is done with only grows, by one when the package it has
\* is logged or dropped.
LEMMA SettledGrows ==
    ASSUME DiagnosticsInv, [Next]_vars
    PROVE  /\ Settled \in Nat /\ Settled' \in Nat
           /\ DropPackage \/ PushLogEntry \/ DropLogEntry =>
                 Settled = made - 1 /\ Settled' = made
           /\ ~(DropPackage \/ PushLogEntry \/ DropLogEntry) => Settled' = Settled
<1>0. /\ TypeOK /\ ProducerInv /\ made \in Nat
      /\ producer \in [at : {"idle", "push", "log", "copy", "pushLog"}, payload : MaybeBlock,
                       copy : MaybeBlock, intact : BOOLEAN]
  BY DiagnosticsAssumption DEF DiagnosticsInv, TypeOK
<1>1. Settled \in Nat
  BY <1>0 DEF Settled, ProducerInv
<1>2. CASE MakePackage
  <2>1. Settled' = Settled
    BY <1>0, <1>2 DEF MakePackage, Settled
  <2> QED
    BY <1>1, <1>2, <2>1 DEF MakePackage, DropPackage, PushLogEntry, DropLogEntry
<1>3. CASE DropPackage \/ PushLogEntry \/ DropLogEntry
  BY <1>0, <1>1, <1>3 DEF DropPackage, PushLogEntry, DropLogEntry, Settled, IdleProducer
<1>4. CASE PushPackage \/ AllocateCopy
  <2>1. Settled' = Settled
    BY <1>0, <1>4 DEF PushPackage, AllocateCopy, Settled
  <2>2. ~(DropPackage \/ PushLogEntry \/ DropLogEntry)
    BY <1>0, <1>4, LenProperties
    DEF PushPackage, AllocateCopy, DropPackage, PushLogEntry, DropLogEntry, TypeOK
  <2> QED
    BY <1>1, <2>1, <2>2
<1>5. CASE CopyPayload
  <2>1. PICK ok \in BOOLEAN : producer' = [producer EXCEPT !.at = "pushLog", !.intact = ok]
    BY <1>5 DEF CopyPayload
  <2>2. Settled' = Settled
    BY <1>0, <1>5, <2>1 DEF CopyPayload, Settled
  <2> QED
    BY <1>1, <1>5, <2>2 DEF CopyPayload, DropPackage, PushLogEntry, DropLogEntry
<1>6. CASE UNCHANGED <<producer, made>>
  <2>1. Settled' = Settled
    BY <1>6 DEF Settled
  <2>2. ~(DropPackage \/ PushLogEntry \/ DropLogEntry)
    BY <1>6 DEF DropPackage, PushLogEntry, DropLogEntry, IdleProducer
  <2> QED
    BY <1>1, <2>1, <2>2
<1> QED
  BY <1>2, <1>3, <1>4, <1>5, <1>6, OthersLeaveProducer DEF Next, Handlers, vars

LEMMA StepLogInv == DiagnosticsInv /\ [Next]_vars => LogInv'
<1> SUFFICES ASSUME DiagnosticsInv, [Next]_vars PROVE LogInv'
  OBVIOUS
<1>0. /\ LogInv /\ ProducerInv /\ logQueue \in Seq(Entry) /\ made \in 0 .. MaxPackages
      /\ MaxPackages \in Nat
      /\ producer \in [at : {"idle", "push", "log", "copy", "pushLog"}, payload : MaybeBlock,
                       copy : MaybeBlock, intact : BOOLEAN]
  BY DiagnosticsAssumption DEF DiagnosticsInv, TypeOK
<1>a. /\ Len(logQueue) \in Nat
      /\ \A i \in 1 .. Len(logQueue) :
            logQueue[i] \in Entry /\ logQueue[i].number \in 1 .. MaxPackages
  BY <1>0, EntriesOfQueue
<1>b. Settled \in Int /\ Settled' \in Int /\ Settled <= Settled'
  BY <1>0, SettledGrows
<1>1. CASE MakePackage \/ DropPackage \/ PushPackage
  <2>1. UNCHANGED logQueue /\ SameCopies
    BY <1>1, PackageBlocks DEF MakePackage, DropPackage, PushPackage, SameCopies
  <2>2. producer.at \notin {"copy", "pushLog"} /\ producer'.at \notin {"copy", "pushLog"}
    <3>1. CASE MakePackage
      BY <1>0, <3>1 DEF MakePackage
    <3>2. CASE DropPackage
      BY <3>2 DEF DropPackage, IdleProducer
    <3>3. CASE PushPackage
      BY <1>0, <3>3 DEF PushPackage
    <3> QED
      BY <1>1, <3>1, <3>2, <3>3
  <2> QED
    BY <1>0, <1>b, <2>1, <2>2, LogLeftAlone DEF Held
<1>2. CASE AllocateCopy
  <2>1. /\ UNCHANGED <<logQueue, made>> /\ producer.at = "log" /\ producer'.at = "copy"
        /\ heap' = heap \cup {Copy(made)}
    BY <1>0, <1>2 DEF AllocateCopy
  <2>2. \A n \in 1 .. MaxPackages : Copy(n) \in heap' <=>
          \/ Waiting(logQueue, n)
          \/ producer'.at \in {"copy", "pushLog"} /\ n = made
    BY <1>0, <2>1, Kinds DEF LogInv
  <2>3. \A i \in 1 .. Len(logQueue) : logQueue[i].number <= Settled'
    BY <1>0, <1>a, <1>b DEF LogInv
  <2> QED
    BY <1>0, <2>1, <2>2, <2>3 DEF LogInv, Waiting, Ascending
<1>3. CASE CopyPayload
  <2>1. PICK ok \in BOOLEAN : producer' = [producer EXCEPT !.at = "pushLog", !.intact = ok]
    BY <1>3 DEF CopyPayload
  <2>2. producer'.at = "pushLog" /\ producer.at = "copy" /\ UNCHANGED <<heap, logQueue, made>>
    BY <1>0, <1>3, <2>1 DEF CopyPayload
  <2> QED
    BY <1>0, <1>b, <2>2, LogLeftAlone DEF Held, SameCopies
<1>4. CASE PushLogEntry
  <2> DEFINE e == [number |-> made, payload |-> producer.copy, intact |-> producer.intact]
  <2>1. /\ producer.at = "pushLog" /\ producer'.at = "idle" /\ producer.copy = Copy(made)
        /\ UNCHANGED <<heap, made>> /\ logQueue' = Append(logQueue, e)
        /\ Settled = made - 1 /\ Settled' = made
    BY <1>0, <1>4, SettledGrows DEF PushLogEntry, ProducerInv, IdleProducer
  <2>2. e \in Entry /\ e.number = made /\ e.payload = Copy(made)
    <3>1. producer.intact \in BOOLEAN
      BY <1>0
    <3> QED
      BY <2>1, <3>1, NumberOfPackage DEF Entry
  <2> HIDE DEF e
  <2>3. \A i \in 1 .. Len(logQueue) : logQueue[i].number < e.number
    BY <1>0, <1>a, <2>1, <2>2 DEF LogInv
  <2>4. /\ Ascending(logQueue')
        /\ \A n : Waiting(logQueue', n) <=> Waiting(logQueue, n) \/ made = n
    BY <1>0, <2>1, <2>2, <2>3, NewestWaits DEF LogInv
  <2>5. \A i \in 1 .. Len(logQueue') :
           \/ i \in 1 .. Len(logQueue) /\ logQueue'[i] = logQueue[i]
           \/ logQueue'[i] = e
    BY <1>0, <2>1, <2>2, QueueAppended
  <2>6. ASSUME NEW i \in 1 .. Len(logQueue')
        PROVE  /\ logQueue'[i].payload = Copy(logQueue'[i].number)
               /\ logQueue'[i].number <= made
    <3>1. CASE logQueue'[i] = e
      BY <1>0, <2>2, <3>1
    <3>2. CASE i \in 1 .. Len(logQueue) /\ logQueue'[i] = logQueue[i]
      BY <1>0, <1>a, <2>1, <3>2 DEF LogInv
    <3> QED
      BY <2>5, <3>1, <3>2
  <2>7. \A n \in 1 .. MaxPackages : Copy(n) \in heap' <=> Waiting(logQueue', n)
    BY <1>0, <2>1, <2>4 DEF LogInv
  <2> QED
    BY <2>1, <2>4, <2>6, <2>7 DEF LogInv
<1>5. CASE DropLogEntry
  <2>1. /\ producer.at = "pushLog" /\ producer'.at = "idle" /\ UNCHANGED <<logQueue, made>>
        /\ heap' = heap \ {Copy(made)} /\ Settled = made - 1
    BY <1>0, <1>5, SettledGrows DEF DropLogEntry, ProducerInv, IdleProducer
  <2>2. ~Waiting(logQueue, made)
    BY <1>0, <1>a, <2>1 DEF LogInv, Waiting
  <2>3. \A n \in 1 .. MaxPackages : Copy(n) \in heap' <=> Waiting(logQueue, n)
    BY <1>0, <2>1, <2>2, Kinds DEF LogInv
  <2>4. \A i \in 1 .. Len(logQueue) : logQueue[i].number <= Settled'
    BY <1>0, <1>a, <1>b DEF LogInv
  <2> QED
    BY <1>0, <2>1, <2>3, <2>4 DEF LogInv, Waiting, Ascending
<1>6. CASE WriteEntry
  <2>1. /\ logQueue # <<>> /\ Head(logQueue) \in Entry /\ logQueue' = Tail(logQueue)
        /\ heap' = heap \ {Copy(Head(logQueue).number), String}
        /\ UNCHANGED <<producer, made>>
    BY <1>6, EntryWritten DEF WriteEntry
  <2>2. /\ Ascending(logQueue')
        /\ \A n : Waiting(logQueue', n) <=> Waiting(logQueue, n) /\ n # Head(logQueue).number
    BY <1>0, <2>1, OldestTaken DEF LogInv
  <2>3. /\ Head(logQueue) = logQueue[1] /\ 1 \in 1 .. Len(logQueue)
        /\ \A i \in 1 .. Len(logQueue') :
              i + 1 \in 1 .. Len(logQueue) /\ logQueue'[i] = logQueue[i + 1]
    BY <1>0, <2>1, QueueShortened
  <2>4. Settled' = Settled
    BY <2>1 DEF Settled
  <2>5. \A i \in 1 .. Len(logQueue') :
          /\ logQueue'[i].payload = Copy(logQueue'[i].number)
          /\ logQueue'[i].number <= Settled'
    BY <1>0, <2>3, <2>4 DEF LogInv
  <2>6. ~(producer.at \in {"copy", "pushLog"} /\ Head(logQueue).number = made)
    <3>1. Head(logQueue).number <= Settled /\ Head(logQueue).number \in Int
      BY <1>0, <1>a, <2>3 DEF LogInv
    <3> QED
      BY <1>0, <3>1 DEF Settled
  <2>7. \A n \in 1 .. MaxPackages : Copy(n) \in heap' <=>
          \/ Waiting(logQueue', n)
          \/ producer.at \in {"copy", "pushLog"} /\ n = made
    BY <1>0, <2>1, <2>2, <2>6, Kinds DEF LogInv
  <2> QED
    BY <2>1, <2>2, <2>5, <2>7 DEF LogInv
<1>7. CASE Consumer \/ WakeLogger \/ FormatEntry \/ LoggerDone \/ Poster \/ Shell \/ UNCHANGED vars
  <2>1. UNCHANGED <<logQueue, made, producer>>
    BY <1>7 DEF Consumer, Poster, Shell, WakeLogger, FormatEntry, LoggerDone, vars,
       PopPackage, FreePackage, AllocateMessage, PushMessage, DropMessage, WakeShell, PrintMessage
  <2>2. SameCopies
    BY <1>7, PackageBlocks, LoggerBlocks, MessageBlocks
    DEF Consumer, Poster, Shell, WakeLogger, LoggerDone, vars, PopPackage, PushMessage, WakeShell,
        SameCopies
  <2> QED
    BY <1>0, <1>b, <2>1, <2>2, LogLeftAlone DEF Held
<1> QED
  BY <1>1, <1>2, <1>3, <1>4, <1>5, <1>6, <1>7 DEF Next, Handlers, Logger

LEMMA LoggerLeftAlone ==
    ASSUME LoggerInv, TypeOK, SameString, Settled \in Int, Settled' \in Int, Settled <= Settled',
           UNCHANGED <<logQueue, logger, file>>
    PROVE  LoggerInv'
<1>1. Len(logQueue) \in Nat /\ Len(file) \in Nat
  BY LenProperties DEF TypeOK
<1>2. Len(file) + Len(logQueue) <= Settled'
  BY <1>1 DEF LoggerInv
<1> QED
  BY <1>2 DEF LoggerInv, SameString

LEMMA StepLoggerInv == DiagnosticsInv /\ [Next]_vars => LoggerInv'
<1> SUFFICES ASSUME DiagnosticsInv, [Next]_vars PROVE LoggerInv'
  OBVIOUS
<1>0. /\ LoggerInv /\ TypeOK /\ logQueue \in Seq(Entry)
      /\ logger \in [at : {"sleep", "loop", "write"}, string : MaybeBlock, i : 0 .. MaxPackages]
      /\ MaxPackages \in Nat
  BY DiagnosticsAssumption DEF DiagnosticsInv, TypeOK
<1>a. Len(logQueue) \in Nat /\ Len(file) \in Nat /\ logger.i \in Nat
  BY <1>0, LenProperties DEF TypeOK
<1>b. /\ Settled \in Int /\ Settled' \in Int /\ Settled <= Settled'
      /\ PushLogEntry => Settled' = Settled + 1
  <2>1. made \in Int
    BY <1>0 DEF TypeOK
  <2> QED
    BY <2>1, SettledGrows
<1>1. CASE PushLogEntry
  <2> DEFINE e == [number |-> made, payload |-> producer.copy, intact |-> producer.intact]
  <2>1. logQueue' = Append(logQueue, e) /\ UNCHANGED <<heap, logger, file>>
    BY <1>1 DEF PushLogEntry
  <2>2. e \in Entry
    <3>1. producer.copy = Copy(made) /\ producer.intact \in BOOLEAN
      BY <1>1 DEF DiagnosticsInv, ProducerInv, TypeOK, PushLogEntry
    <3> QED
      BY <1>1, <3>1, NumberOfPackage DEF Entry, PushLogEntry
  <2> HIDE DEF e
  <2>3. Len(logQueue') = Len(logQueue) + 1
    BY <1>0, <2>1, <2>2, QueueAppended
  <2>4. logQueue' # <<>>
    BY <1>a, <2>3
  <2> QED
    BY <1>0, <1>1, <1>a, <1>b, <2>1, <2>3, <2>4 DEF LoggerInv
<1>2. CASE WakeLogger
  <2>1. /\ logger' = [at |-> "loop", string |-> NoBlock, i |-> 0]
        /\ UNCHANGED <<heap, logQueue, producer, made, file>> /\ logger.at = "sleep"
    BY <1>2 DEF WakeLogger, Sleeping
  <2>2. Settled' = Settled
    BY <2>1 DEF Settled
  <2> QED
    BY <1>0, <1>a, <2>1, <2>2 DEF LoggerInv
<1>3. CASE FormatEntry
  <2>1. /\ logger' = [logger EXCEPT !.at = "write", !.string = String]
        /\ UNCHANGED <<logQueue, producer, made, file>> /\ heap' = heap \cup {String}
        /\ logger.i < Len(logQueue)
    BY <1>3 DEF FormatEntry, MoreToLog
  <2>2. Settled' = Settled
    BY <2>1 DEF Settled
  <2>3. logQueue # <<>>
    BY <1>a, <2>1
  <2>4. logger'.at = "write" /\ logger'.string = String /\ logger'.i = logger.i
    BY <1>0, <2>1
  <2> QED
    BY <1>0, <2>1, <2>2, <2>3, <2>4 DEF LoggerInv
<1>4. CASE WriteEntry
  <2>1. /\ logger' = [at |-> "loop", string |-> NoBlock, i |-> logger.i + 1]
        /\ UNCHANGED <<producer, made>> /\ logQueue # <<>> /\ logQueue' = Tail(logQueue)
        /\ heap' = heap \ {Copy(Head(logQueue).number), String}
    BY <1>4, EntryWritten DEF WriteEntry
  <2>2. Settled' = Settled
    BY <2>1 DEF Settled
  <2>3. Len(logQueue') = Len(logQueue) - 1
    BY <1>0, <2>1, QueueShortened
  <2>4. Len(file') = Len(file) + 1
    <3> DEFINE w == [number |-> Head(logQueue).number, intact |-> Head(logQueue).intact]
    <3>1. file' = Append(file, w) /\ file \in Seq([number : 1 .. MaxPackages, intact : BOOLEAN])
      BY <1>0, <1>4 DEF WriteEntry, TypeOK
    <3>2. w \in [number : 1 .. MaxPackages, intact : BOOLEAN]
      BY <1>4, EntryWritten DEF Entry
    <3> HIDE DEF w
    <3> QED
      BY <3>1, <3>2, QueueAppended
  <2>5. String \notin heap' /\ logger'.at = "loop" /\ logger'.string = NoBlock
        /\ logger'.i = logger.i + 1
    BY <2>1
  <2> QED
    BY <1>0, <1>a, <2>2, <2>3, <2>4, <2>5 DEF LoggerInv
<1>5. CASE LoggerDone
  <2>1. /\ logger' = [at |-> "sleep", string |-> NoBlock, i |-> 0] /\ logger.at = "loop"
        /\ UNCHANGED <<heap, logQueue, producer, made, file>>
    BY <1>5 DEF LoggerDone, Sleeping
  <2>2. Settled' = Settled
    BY <2>1 DEF Settled
  <2> QED
    BY <1>0, <1>a, <2>1, <2>2 DEF LoggerInv
<1>6. CASE MakePackage \/ PushPackage \/ DropPackage \/ AllocateCopy \/ CopyPayload \/ DropLogEntry
  <2>1. UNCHANGED <<logQueue, logger, file>>
    BY <1>6 DEF MakePackage, PushPackage, DropPackage, AllocateCopy, CopyPayload, DropLogEntry
  <2>2. SameString
    BY <1>6, PackageBlocks, CopyBlocks DEF PushPackage, CopyPayload, SameString
  <2> QED
    BY <1>0, <1>b, <2>1, <2>2, LoggerLeftAlone
<1>7. CASE Consumer \/ Poster \/ Shell \/ UNCHANGED vars
  <2>1. UNCHANGED <<logQueue, logger, file>>
    BY <1>7 DEF Consumer, Poster, Shell, vars,
       PopPackage, FreePackage, AllocateMessage, PushMessage, DropMessage, WakeShell, PrintMessage
  <2>2. SameString
    BY <1>7, PackageBlocks, MessageBlocks
    DEF Consumer, Poster, Shell, vars, PopPackage, PushMessage, WakeShell, SameString
  <2> QED
    BY <1>0, <1>b, <2>1, <2>2, LoggerLeftAlone
<1> QED
  BY <1>1, <1>2, <1>3, <1>4, <1>5, <1>6, <1>7 DEF Next, Handlers, Logger

-----------------------------------------------------------------------------
(* Debug messages *)

LEMMA StepMessagesInv == DiagnosticsInv /\ [Next]_vars => MessagesInv'
<1> SUFFICES ASSUME DiagnosticsInv, [Next]_vars PROVE MessagesInv'
  OBVIOUS
<1>0. /\ MessagesInv /\ TypeOK /\ msgQueue \in Seq(Blocks) /\ Len(msgQueue) \in Nat
      /\ shell \in Nat
  BY LenProperties, DiagnosticsAssumption DEF DiagnosticsInv, TypeOK
<1>1. CASE AllocateMessage
  <2>1. /\ poster = NoBlock /\ UNCHANGED <<msgQueue, shell>> /\ heap' = heap \cup {poster'}
        /\ poster' \in Messages /\ poster' \notin heap
    BY <1>0, <1>1, MessageAllocated DEF AllocateMessage
  <2>2. \A i \in 1 .. Len(msgQueue) : msgQueue[i] # poster'
    BY <1>0, <2>1 DEF MessagesInv
  <2>3. \A b \in Messages : b \in heap' <=>
          poster' = b \/ \E i \in 1 .. Len(msgQueue) : msgQueue[i] = b
    BY <1>0, <2>1, MessagesDiffer DEF MessagesInv
  <2> QED
    BY <1>0, <2>1, <2>2, <2>3 DEF MessagesInv
<1>2. CASE PushMessage
  <2>1. /\ poster \in Messages /\ poster \in Blocks /\ poster' = NoBlock
        /\ msgQueue' = Append(msgQueue, poster) /\ UNCHANGED <<heap, shell>>
    BY <1>0, <1>2, KindsAreBlocks DEF PushMessage, MessagesInv
  <2>2. /\ Len(msgQueue') = Len(msgQueue) + 1
        /\ msgQueue'[Len(msgQueue) + 1] = poster
        /\ \A i \in 1 .. Len(msgQueue) : msgQueue'[i] = msgQueue[i]
        /\ \A i \in 1 .. Len(msgQueue') :
              \/ i \in 1 .. Len(msgQueue) /\ msgQueue'[i] = msgQueue[i]
              \/ i = Len(msgQueue) + 1 /\ msgQueue'[i] = poster
    BY <1>0, <2>1, QueueAppended
  <2>3. \A i \in 1 .. Len(msgQueue') : msgQueue'[i] \in Messages /\ msgQueue'[i] # poster'
    BY <1>0, <2>1, <2>2, MessagesDiffer DEF MessagesInv
  <2>4. \A i, j \in 1 .. Len(msgQueue') : msgQueue'[i] = msgQueue'[j] => i = j
    BY <1>0, <2>2 DEF MessagesInv
  <2>5. /\ Len(msgQueue) + 1 \in 1 .. Len(msgQueue')
        /\ \A i \in 1 .. Len(msgQueue) : i \in 1 .. Len(msgQueue')
    BY <1>0, <2>2
  <2>6. ASSUME NEW b \in Messages
        PROVE  b \in heap' <=> poster' = b \/ \E i \in 1 .. Len(msgQueue') : msgQueue'[i] = b
    <3>1. b \in heap <=> poster = b \/ \E i \in 1 .. Len(msgQueue) : msgQueue[i] = b
      BY <1>0 DEF MessagesInv
    <3>2. (\E i \in 1 .. Len(msgQueue') : msgQueue'[i] = b)
             <=> poster = b \/ \E i \in 1 .. Len(msgQueue) : msgQueue[i] = b
      BY <2>2, <2>5
    <3>3. poster' # b
      BY <2>1, MessagesDiffer
    <3> QED
      BY <2>1, <3>1, <3>2, <3>3
  <2> QED
    BY <1>0, <2>1, <2>2, <2>3, <2>4, <2>6 DEF MessagesInv
<1>3. CASE DropMessage
  <2>1. /\ poster \in Messages /\ poster' = NoBlock /\ heap' = heap \ {poster}
        /\ UNCHANGED <<msgQueue, shell>>
    BY <1>0, <1>3 DEF DropMessage, MessagesInv
  <2>2. \A i \in 1 .. Len(msgQueue) : msgQueue[i] # NoBlock
    BY <1>0, MessagesDiffer DEF MessagesInv
  <2>3. \A b \in Messages : b \in heap' <=>
          poster' = b \/ \E i \in 1 .. Len(msgQueue) : msgQueue[i] = b
    BY <1>0, <2>1, MessagesDiffer DEF MessagesInv
  <2> QED
    BY <1>0, <2>1, <2>2, <2>3 DEF MessagesInv
<1>4. CASE WakeShell
  BY <1>0, <1>4 DEF WakeShell, MessagesInv
<1>5. CASE PrintMessage
  <2>1. /\ shell > 0 /\ shell' = shell - 1 /\ heap' = heap \ {Head(msgQueue)}
        /\ msgQueue' = Tail(msgQueue) /\ UNCHANGED poster /\ msgQueue # <<>>
    BY <1>0, <1>5, EmptySeq DEF PrintMessage, MessagesInv
  <2>2. /\ Head(msgQueue) = msgQueue[1] /\ 1 \in 1 .. Len(msgQueue)
        /\ Len(msgQueue') = Len(msgQueue) - 1
        /\ \A i \in 1 .. Len(msgQueue') :
              i + 1 \in 1 .. Len(msgQueue) /\ msgQueue'[i] = msgQueue[i + 1]
        /\ \A i \in 1 .. Len(msgQueue) :
              i = 1 \/ (i - 1 \in 1 .. Len(msgQueue') /\ msgQueue'[i - 1] = msgQueue[i])
    BY <1>0, <2>1, QueueShortened
  <2>3. \A i \in 1 .. Len(msgQueue') :
           /\ msgQueue'[i] \in Messages /\ msgQueue'[i] # poster'
           /\ msgQueue'[i] # Head(msgQueue)
    BY <1>0, <2>1, <2>2 DEF MessagesInv
  <2>4. ASSUME NEW i \in 1 .. Len(msgQueue'), NEW j \in 1 .. Len(msgQueue'),
               msgQueue'[i] = msgQueue'[j]
        PROVE  i = j
    <3>1. i + 1 = j + 1
      BY <1>0, <2>2, <2>4 DEF MessagesInv
    <3> QED
      BY <3>1
  <2>5. ASSUME NEW b \in Messages
        PROVE  b \in heap' <=> poster' = b \/ \E i \in 1 .. Len(msgQueue') : msgQueue'[i] = b
    <3>1. b \in heap <=> poster = b \/ \E i \in 1 .. Len(msgQueue) : msgQueue[i] = b
      BY <1>0 DEF MessagesInv
    <3>2. poster # Head(msgQueue)
      BY <1>0, <2>2 DEF MessagesInv
    <3>3. (\E i \in 1 .. Len(msgQueue') : msgQueue'[i] = b)
             <=> b # Head(msgQueue) /\ \E i \in 1 .. Len(msgQueue) : msgQueue[i] = b
      BY <2>2, <2>3
    <3> QED
      BY <2>1, <3>1, <3>2, <3>3
  <2> QED
    BY <1>0, <2>1, <2>2, <2>3, <2>4, <2>5 DEF MessagesInv
<1>6. CASE Handlers \/ Consumer \/ Logger \/ UNCHANGED vars
  <2>1. UNCHANGED <<msgQueue, poster, shell>>
    BY <1>6 DEF Handlers, Consumer, Logger, vars, MakePackage, PushPackage, DropPackage,
       AllocateCopy, CopyPayload, PushLogEntry, DropLogEntry, PopPackage, FreePackage, WakeLogger,
       FormatEntry, WriteEntry, LoggerDone
  <2>2. SameMessages
    BY <1>6, PackageBlocks, CopyBlocks, LoggerBlocks
    DEF Handlers, Consumer, Logger, vars, PushPackage, CopyPayload, PushLogEntry, PopPackage,
        WakeLogger, LoggerDone, SameMessages
  <2> QED
    BY <1>0, <2>1, <2>2 DEF MessagesInv, SameMessages
<1> QED
  BY <1>1, <1>2, <1>3, <1>4, <1>5, <1>6 DEF Next, Poster, Shell

-----------------------------------------------------------------------------
(* The log: what is written followed by what waits *)

FileEntry == [number : 1 .. MaxPackages, intact : BOOLEAN]

LEMMA NumbersAreSequence ==
    ASSUME NEW S, NEW q \in Seq(S), \A e \in S : e.number \in 1 .. MaxPackages
    PROVE  /\ Numbers(q) \in Seq(1 .. MaxPackages) /\ Len(Numbers(q)) = Len(q)
           /\ \A i \in 1 .. Len(q) : Numbers(q)[i] = q[i].number
<1>1. PICK n \in Nat : Len(q) = n /\ DOMAIN q = 1 .. n
  BY LenProperties
<1>2. \A i \in 1 .. n : q[i].number \in 1 .. MaxPackages
  BY <1>1, ElementOfSeq
<1>3. Numbers(q) = [i \in 1 .. n |-> q[i].number]
  BY <1>1 DEF Numbers
<1>4. Numbers(q) \in [1 .. n -> 1 .. MaxPackages]
  BY <1>2, <1>3
<1>5. Numbers(q) \in Seq(1 .. MaxPackages)
  <2>1. Seq(1 .. MaxPackages) = UNION {[1 .. m -> 1 .. MaxPackages] : m \in Nat}
    BY SeqDef
  <2>2. n \in Nat
    OBVIOUS
  <2> QED
    BY <1>4, <2>1, <2>2, Zenon
<1>6. Len(Numbers(q)) = n
  BY <1>4, <1>5, LenProperties
<1> QED
  BY <1>1, <1>3, <1>5, <1>6

LEMMA WrittenThenWaiting ==
    ASSUME NEW f \in Seq(FileEntry), NEW q \in Seq(Entry)
    PROVE  LET w == Numbers(f) \o Numbers(q)
           IN  /\ w \in Seq(1 .. MaxPackages)
               /\ Len(w) = Len(f) + Len(q) /\ Len(f) \in Nat /\ Len(q) \in Nat
               /\ \A k \in 1 .. Len(w) :
                     w[k] = IF k <= Len(f) THEN f[k].number ELSE q[k - Len(f)].number
<1> DEFINE w == Numbers(f) \o Numbers(q)
<1>0. Len(f) \in Nat /\ Len(q) \in Nat
  BY LenProperties
<1>1. \A e \in FileEntry : e.number \in 1 .. MaxPackages
  BY DEF FileEntry
<1>2. \A e \in Entry : e.number \in 1 .. MaxPackages
  BY DEF Entry
<1>3. /\ Numbers(f) \in Seq(1 .. MaxPackages) /\ Len(Numbers(f)) = Len(f)
      /\ \A i \in 1 .. Len(f) : Numbers(f)[i] = f[i].number
  BY <1>1, NumbersAreSequence
<1>4. /\ Numbers(q) \in Seq(1 .. MaxPackages) /\ Len(Numbers(q)) = Len(q)
      /\ \A i \in 1 .. Len(q) : Numbers(q)[i] = q[i].number
  BY <1>2, NumbersAreSequence
<1>5. /\ w \in Seq(1 .. MaxPackages)
      /\ Len(w) = Len(f) + Len(q)
      /\ \A k \in 1 .. Len(f) + Len(q) :
            w[k] = IF k <= Len(f) THEN Numbers(f)[k] ELSE Numbers(q)[k - Len(f)]
  <2>1. PICK a, b \in Seq(1 .. MaxPackages) : a = Numbers(f) /\ b = Numbers(q)
    BY <1>3, <1>4
  <2>2. /\ a \o b \in Seq(1 .. MaxPackages)
        /\ Len(a \o b) = Len(a) + Len(b)
        /\ \A k \in 1 .. Len(a) + Len(b) :
              (a \o b)[k] = IF k <= Len(a) THEN a[k] ELSE b[k - Len(a)]
    BY ConcatProperties, Zenon
  <2>3. w = a \o b /\ Len(a) = Len(f) /\ Len(b) = Len(q)
    BY <1>3, <1>4, <2>1
  <2> HIDE DEF w
  <2> QED
    BY <2>1, <2>2, <2>3
<1> HIDE DEF w
<1>6. ASSUME NEW k \in 1 .. Len(w)
      PROVE  w[k] = IF k <= Len(f) THEN f[k].number ELSE q[k - Len(f)].number
  <2>1. CASE k <= Len(f)
    <3>1. k \in 1 .. Len(f)
      BY <1>0, <2>1
    <3> QED
      BY <1>0, <1>3, <1>5, <2>1, <3>1
  <2>2. CASE ~(k <= Len(f))
    <3>1. k - Len(f) \in 1 .. Len(q)
      BY <1>0, <1>5, <2>2
    <3> QED
      BY <1>0, <1>4, <1>5, <2>2, <3>1
  <2> QED
    BY <2>1, <2>2
<1> QED
  BY <1>0, <1>5, <1>6 DEF w

\* An entry that enters the queue goes to the end of the log.
LEMMA LogExtended ==
    ASSUME NEW f \in Seq(FileEntry), NEW q \in Seq(Entry), NEW e \in Entry
    PROVE  LET w == Numbers(f) \o Numbers(q)
               x == Numbers(f) \o Numbers(Append(q, e))
           IN  /\ Len(w) \in Nat /\ Len(x) = Len(w) + 1
               /\ \A k \in 1 .. Len(w) : x[k] = w[k]
               /\ x[Len(w) + 1] = e.number
<1> DEFINE w == Numbers(f) \o Numbers(q)
           t == Append(q, e)
           x == Numbers(f) \o Numbers(t)
<1>1. /\ t \in Seq(Entry) /\ Len(t) = Len(q) + 1
      /\ t[Len(q) + 1] = e /\ \A i \in 1 .. Len(q) : t[i] = q[i]
  BY QueueAppended
<1> HIDE DEF t
<1>2. /\ Len(w) = Len(f) + Len(q) /\ Len(f) \in Nat /\ Len(q) \in Nat
      /\ \A k \in 1 .. Len(w) :
            w[k] = IF k <= Len(f) THEN f[k].number ELSE q[k - Len(f)].number
  BY WrittenThenWaiting
<1>3. /\ Len(x) = Len(f) + Len(t)
      /\ \A k \in 1 .. Len(x) :
            x[k] = IF k <= Len(f) THEN f[k].number ELSE t[k - Len(f)].number
  BY <1>1, WrittenThenWaiting
<1> HIDE DEF w, x
<1>4. Len(w) \in Nat /\ Len(x) = Len(w) + 1
  BY <1>1, <1>2, <1>3
<1>5. ASSUME NEW k \in 1 .. Len(w) PROVE x[k] = w[k]
  <2>1. k \in 1 .. Len(x)
    BY <1>4
  <2>2. CASE k <= Len(f)
    BY <1>2, <1>3, <2>1, <2>2
  <2>3. CASE ~(k <= Len(f))
    <3>1. k - Len(f) \in 1 .. Len(q)
      BY <1>2, <2>3
    <3>2. t[k - Len(f)] = q[k - Len(f)]
      BY <1>1, <3>1
    <3> QED
      BY <1>2, <1>3, <2>1, <2>3, <3>2
  <2> QED
    BY <2>2, <2>3
<1>6. x[Len(w) + 1] = e.number
  <2>1. /\ Len(w) + 1 \in 1 .. Len(x) /\ ~(Len(w) + 1 <= Len(f))
        /\ (Len(w) + 1) - Len(f) = Len(q) + 1
    BY <1>2, <1>4
  <2> QED
    BY <1>1, <1>3, <2>1
<1> QED
  BY <1>4, <1>5, <1>6 DEF w, x, t

\* An entry that is written stays where it is in the log.
LEMMA LogHandedOver ==
    ASSUME NEW f \in Seq(FileEntry), NEW q \in Seq(Entry), q # <<>>, NEW e \in FileEntry,
           e.number = Head(q).number
    PROVE  LET w == Numbers(f) \o Numbers(q)
               x == Numbers(Append(f, e)) \o Numbers(Tail(q))
           IN  /\ Len(w) \in Nat /\ Len(x) = Len(w)
               /\ \A k \in 1 .. Len(w) : x[k] = w[k]
<1> DEFINE w == Numbers(f) \o Numbers(q)
           g == Append(f, e)
           t == Tail(q)
           x == Numbers(g) \o Numbers(t)
<1>0. /\ g \in Seq(FileEntry) /\ Len(g) = Len(f) + 1
      /\ g[Len(f) + 1] = e /\ \A i \in 1 .. Len(f) : g[i] = f[i]
  BY QueueAppended
<1>1. /\ t \in Seq(Entry) /\ Head(q) = q[1] /\ Len(t) = Len(q) - 1 /\ Len(q) > 0
      /\ \A i \in 1 .. Len(t) : t[i] = q[i + 1]
  BY QueueShortened
<1> HIDE DEF t, g
<1>2. /\ Len(w) = Len(f) + Len(q) /\ Len(f) \in Nat /\ Len(q) \in Nat
      /\ \A k \in 1 .. Len(w) :
            w[k] = IF k <= Len(f) THEN f[k].number ELSE q[k - Len(f)].number
  BY WrittenThenWaiting
<1>3. /\ Len(x) = Len(g) + Len(t)
      /\ \A k \in 1 .. Len(x) :
            x[k] = IF k <= Len(g) THEN g[k].number ELSE t[k - Len(g)].number
  BY <1>0, <1>1, WrittenThenWaiting
<1> HIDE DEF w, x
<1>4. Len(w) \in Nat /\ Len(x) = Len(w)
  BY <1>0, <1>1, <1>2, <1>3
<1>5. ASSUME NEW k \in 1 .. Len(w) PROVE x[k] = w[k]
  <2>1. k \in 1 .. Len(x) /\ k \in Int
    BY <1>4
  <2>2. CASE k <= Len(f)
    <3>1. k \in 1 .. Len(f) /\ k <= Len(g)
      BY <1>0, <1>2, <2>1, <2>2
    <3> QED
      BY <1>0, <1>2, <1>3, <2>1, <2>2, <3>1
  <2>3. CASE k = Len(f) + 1
    <3>1. k <= Len(g) /\ ~(k <= Len(f)) /\ k - Len(f) = 1
      BY <1>0, <1>2, <2>3
    <3> QED
      BY <1>0, <1>1, <1>2, <1>3, <2>1, <2>3, <3>1
  <2>4. CASE k > Len(f) + 1
    <3>1. /\ k - Len(g) \in 1 .. Len(t) /\ ~(k <= Len(g)) /\ ~(k <= Len(f))
          /\ (k - Len(g)) + 1 = k - Len(f)
      BY <1>0, <1>1, <1>2, <2>4
    <3>2. t[k - Len(g)] = q[k - Len(f)]
      BY <1>1, <3>1
    <3> QED
      BY <1>2, <1>3, <2>1, <3>1, <3>2
  <2> QED
    BY <1>2, <2>1, <2>2, <2>3, <2>4
<1> QED
  BY <1>4, <1>5 DEF w, x, t, g

LEMMA StepLogOrderInv == DiagnosticsInv /\ [Next]_vars => LogOrderInv'
<1> SUFFICES ASSUME DiagnosticsInv, [Next]_vars PROVE LogOrderInv'
  OBVIOUS
<1>0. /\ LogOrderInv /\ ProducerInv /\ logQueue \in Seq(Entry) /\ file \in Seq(FileEntry)
      /\ made \in 0 .. MaxPackages /\ MaxPackages \in Nat
  BY DiagnosticsAssumption DEF DiagnosticsInv, TypeOK, FileEntry
<1>a. /\ Written \in Seq(1 .. MaxPackages) /\ Len(Written) \in Nat
  <2>1. Written \in Seq(1 .. MaxPackages)
    BY <1>0, WrittenThenWaiting DEF Written
  <2> QED
    BY <2>1, LenProperties
<1>b. \A k \in 1 .. Len(Written) : Written[k] \in (1 .. Settled) \ unlogged
  BY <1>0 DEF LogOrderInv
<1>1. CASE PushLogEntry
  <2> DEFINE e == [number |-> made, payload |-> producer.copy, intact |-> producer.intact]
  <2>1. /\ logQueue' = Append(logQueue, e) /\ UNCHANGED <<file, unlogged>>
        /\ Settled = made - 1 /\ Settled' = made
    BY <1>1, SettledGrows DEF PushLogEntry
  <2>2. e \in Entry /\ e.number = made /\ made \in 1 .. MaxPackages
    <3>1. producer.copy = Copy(made) /\ producer.intact \in BOOLEAN
      BY <1>1 DEF DiagnosticsInv, ProducerInv, TypeOK, PushLogEntry
    <3> QED
      BY <1>1, <3>1, NumberOfPackage DEF Entry, PushLogEntry
  <2> HIDE DEF e
  <2>3. /\ Len(Written') = Len(Written) + 1
        /\ \A k \in 1 .. Len(Written) : Written'[k] = Written[k]
        /\ Written'[Len(Written) + 1] = made
    BY <1>0, <2>1, <2>2, LogExtended DEF Written
  <2>4. made \notin unlogged
    BY <1>0, <2>1, <2>2 DEF ProducerInv
  <2>5. \A k \in 1 .. Len(Written') :
           \/ k \in 1 .. Len(Written) /\ Written'[k] = Written[k]
           \/ k = Len(Written) + 1 /\ Written'[k] = made
    BY <1>a, <2>3
  <2>6. \A k \in 1 .. Len(Written) : Written[k] < made
    BY <1>b, <2>1, <2>2
  <2>7. \A j, k \in 1 .. Len(Written') : j < k => Written'[j] < Written'[k]
    <3> SUFFICES ASSUME NEW j \in 1 .. Len(Written'), NEW k \in 1 .. Len(Written'), j < k
                 PROVE  Written'[j] < Written'[k]
      OBVIOUS
    <3>1. j \in 1 .. Len(Written) /\ Written'[j] = Written[j]
      BY <1>a, <2>3, <2>5
    <3>2. CASE k \in 1 .. Len(Written) /\ Written'[k] = Written[k]
      BY <1>0, <3>1, <3>2 DEF LogOrderInv
    <3>3. CASE Written'[k] = made
      BY <2>6, <3>1, <3>3
    <3> QED
      BY <2>5, <3>2, <3>3
  <2>8. {Written'[k] : k \in 1 .. Len(Written')} = {Written[k] : k \in 1 .. Len(Written)} \cup {made}
    <3>1. \A k \in 1 .. Len(Written) : k \in 1 .. Len(Written')
      BY <1>a, <2>3
    <3>2. Len(Written) + 1 \in 1 .. Len(Written')
      BY <1>a, <2>3
    <3> QED
      BY <2>3, <2>5, <3>1, <3>2
  <2>9. (1 .. made) \ unlogged = ((1 .. made - 1) \ unlogged) \cup {made}
    BY <2>2, <2>4
  <2>10. {Written'[k] : k \in 1 .. Len(Written')} = (1 .. Settled') \ unlogged'
    BY <1>0, <2>1, <2>8, <2>9 DEF LogOrderInv
  <2> QED
    BY <2>7, <2>10 DEF LogOrderInv
<1>2. CASE DropPackage \/ DropLogEntry
  <2>1. /\ UNCHANGED <<file, logQueue>> /\ unlogged' = unlogged \cup {made}
        /\ Settled = made - 1 /\ Settled' = made
    BY <1>2, SettledGrows DEF DropPackage, DropLogEntry
  <2>2. Written' = Written
    BY <2>1 DEF Written, Numbers
  <2>3. (1 .. made) \ unlogged' = (1 .. made - 1) \ unlogged
    <3>1. made \in Nat
      BY <1>0
    <3> QED
      BY <2>1, <3>1
  <2> QED
    BY <1>0, <2>1, <2>2, <2>3 DEF LogOrderInv
<1>3. CASE WriteEntry
  <2> DEFINE e == [number |-> Head(logQueue).number, intact |-> Head(logQueue).intact]
  <2>1. /\ logQueue' = Tail(logQueue) /\ logQueue # <<>> /\ file' = Append(file, e)
        /\ UNCHANGED <<unlogged, producer, made>>
    BY <1>3, EntryWritten DEF WriteEntry
  <2>2. e \in FileEntry /\ e.number = Head(logQueue).number
    BY <1>3, EntryWritten DEF Entry, FileEntry
  <2> HIDE DEF e
  <2>3. Len(Written') = Len(Written) /\ \A k \in 1 .. Len(Written) : Written'[k] = Written[k]
    BY <1>0, <2>1, <2>2, LogHandedOver DEF Written
  <2>4. Settled' = Settled
    BY <2>1 DEF Settled
  <2>5. {Written'[k] : k \in 1 .. Len(Written')} = {Written[k] : k \in 1 .. Len(Written)}
    BY <2>3
  <2> QED
    BY <1>0, <2>1, <2>3, <2>4, <2>5 DEF LogOrderInv
<1>4. CASE /\ ~(DropPackage \/ PushLogEntry \/ DropLogEntry)
           /\ UNCHANGED <<file, logQueue, unlogged>>
  <2>1. Written' = Written /\ Settled' = Settled
    BY <1>4, SettledGrows DEF Written, Numbers
  <2> QED
    BY <1>0, <1>4, <2>1 DEF LogOrderInv
<1>5. PushLogEntry \/ DropPackage \/ DropLogEntry \/ WriteEntry \/ UNCHANGED <<file, logQueue, unlogged>>
  BY DEF Next, Handlers, Consumer, Logger, Poster, Shell, vars, MakePackage, PushPackage,
     AllocateCopy, CopyPayload, PopPackage, FreePackage, WakeLogger, FormatEntry, LoggerDone,
     AllocateMessage, PushMessage, DropMessage, WakeShell, PrintMessage
<1> QED
  BY <1>1, <1>2, <1>3, <1>4, <1>5

LEMMA StepInv == DiagnosticsInv /\ [Next]_vars => DiagnosticsInv'
<1> SUFFICES ASSUME DiagnosticsInv, [Next]_vars PROVE DiagnosticsInv'
  OBVIOUS
<1> QED
  BY StepTypeOK, StepProducerInv, StepPacksInv, StepLogInv, StepLoggerInv, StepMessagesInv,
     StepLogOrderInv
  DEF DiagnosticsInv

-----------------------------------------------------------------------------
(* Every block has one owner *)

LEMMA TaskBlocks ==
    /\ DOMAIN HeldByTasks = 1 .. 5
    /\ HeldByTasks[1] = IF producer.at = "push" THEN producer.payload ELSE NoBlock
    /\ HeldByTasks[2] = producer.copy
    /\ HeldByTasks[3] = consumer
    /\ HeldByTasks[4] = logger.string
    /\ HeldByTasks[5] = poster
  BY DEF HeldByTasks

LEMMA OwnersAre ==
    ASSUME DiagnosticsInv, NEW b, b # NoBlock, NEW o
    PROVE  o \in Owners(b) <=>
              \/ \E i \in 1 .. Len(packs) : packs[i].payload = b /\ o = <<"packs", i>>
              \/ \E i \in 1 .. Len(logQueue) : logQueue[i].payload = b /\ o = <<"logQueue", i>>
              \/ \E i \in 1 .. Len(msgQueue) : msgQueue[i] = b /\ o = <<"msgQueue", i>>
              \/ producer.at = "push" /\ producer.payload = b /\ o = <<"tasks", 1>>
              \/ producer.copy = b /\ o = <<"tasks", 2>>
              \/ consumer = b /\ o = <<"tasks", 3>>
              \/ logger.string = b /\ o = <<"tasks", 4>>
              \/ poster = b /\ o = <<"tasks", 5>>
<1>1. /\ DOMAIN packs = 1 .. Len(packs) /\ DOMAIN logQueue = 1 .. Len(logQueue)
      /\ DOMAIN msgQueue = 1 .. Len(msgQueue)
  BY LenProperties DEF DiagnosticsInv, TypeOK
<1>2. o \in Owners(b) <=>
        \/ o \in {"packs"} \X {i \in DOMAIN packs : packs[i].payload = b}
        \/ o \in {"logQueue"} \X {i \in DOMAIN logQueue : logQueue[i].payload = b}
        \/ o \in {"msgQueue"} \X {i \in DOMAIN msgQueue : msgQueue[i] = b}
        \/ o \in {"tasks"} \X {i \in DOMAIN HeldByTasks : HeldByTasks[i] = b}
  BY DEF Owners
<1>3. o \in {"packs"} \X {i \in DOMAIN packs : packs[i].payload = b} <=>
        \E i \in 1 .. Len(packs) : packs[i].payload = b /\ o = <<"packs", i>>
  BY <1>1
<1>4. o \in {"logQueue"} \X {i \in DOMAIN logQueue : logQueue[i].payload = b} <=>
        \E i \in 1 .. Len(logQueue) : logQueue[i].payload = b /\ o = <<"logQueue", i>>
  BY <1>1
<1>5. o \in {"msgQueue"} \X {i \in DOMAIN msgQueue : msgQueue[i] = b} <=>
        \E i \in 1 .. Len(msgQueue) : msgQueue[i] = b /\ o = <<"msgQueue", i>>
  BY <1>1
<1>6. o \in {"tasks"} \X {i \in DOMAIN HeldByTasks : HeldByTasks[i] = b} <=>
        \E i \in 1 .. 5 : HeldByTasks[i] = b /\ o = <<"tasks", i>>
  BY TaskBlocks
<1>7. (\E i \in 1 .. 5 : HeldByTasks[i] = b /\ o = <<"tasks", i>>) <=>
        \/ producer.at = "push" /\ producer.payload = b /\ o = <<"tasks", 1>>
        \/ producer.copy = b /\ o = <<"tasks", 2>>
        \/ consumer = b /\ o = <<"tasks", 3>>
        \/ logger.string = b /\ o = <<"tasks", 4>>
        \/ poster = b /\ o = <<"tasks", 5>>
  <2>1. \A i : i \in 1 .. 5 <=> i = 1 \/ i = 2 \/ i = 3 \/ i = 4 \/ i = 5
    OBVIOUS
  <2> QED
    BY <2>1, TaskBlocks
<1> QED
  BY <1>2, <1>3, <1>4, <1>5, <1>6, <1>7

OneOwner(b) ==
    /\ \A o, p \in Owners(b) : o = p
    /\ b \in heap <=> Owners(b) # {}

LEMMA PayloadOwner == ASSUME DiagnosticsInv, NEW n \in 1 .. MaxPackages PROVE OneOwner(Payload(n))
<1> DEFINE b == Payload(n)
<1>0. /\ PacksInv /\ ProducerInv /\ LogInv /\ LoggerInv /\ MessagesInv
      /\ \A i \in 1 .. Len(packs) : packs[i].number \in 1 .. MaxPackages
      /\ Len(packs) \in Nat /\ MaxPackages \in Nat
  BY EntriesOfQueue, DiagnosticsAssumption DEF DiagnosticsInv, TypeOK
<1>1. /\ \A i \in 1 .. Len(packs) : packs[i].payload = b <=> packs[i].number = n
      /\ \A i \in 1 .. Len(logQueue) : logQueue[i].payload # b
      /\ \A i \in 1 .. Len(msgQueue) : msgQueue[i] # b
      /\ producer.at = "push" => (producer.payload = b <=> n = made)
      /\ producer.copy # b /\ logger.string # b /\ poster # b /\ b # NoBlock
  <2>1. \A i \in 1 .. Len(packs) : packs[i].payload = b <=> packs[i].number = n
    BY <1>0, Kinds DEF PacksInv
  <2>2. \A i \in 1 .. Len(logQueue) : logQueue[i].payload # b
    BY <1>0, Kinds DEF LogInv
  <2>3. \A i \in 1 .. Len(msgQueue) : msgQueue[i] # b
    BY <1>0, MessagesDiffer DEF MessagesInv
  <2>4. producer.at = "push" => (producer.payload = b <=> n = made)
    BY <1>0, Kinds DEF ProducerInv
  <2>5. producer.copy # b /\ logger.string # b /\ b # NoBlock
    BY <1>0, Kinds DEF ProducerInv, LoggerInv
  <2>6. poster # b
    BY <1>0, <2>5, MessagesDiffer DEF MessagesInv
  <2> QED
    BY <2>1, <2>2, <2>3, <2>4, <2>5, <2>6
<1> HIDE DEF b
<1>2. \A o : o \in Owners(b) <=>
        \/ \E i \in 1 .. Len(packs) : packs[i].number = n /\ o = <<"packs", i>>
        \/ producer.at = "push" /\ n = made /\ o = <<"tasks", 1>>
        \/ consumer = b /\ o = <<"tasks", 3>>
  BY <1>1, OwnersAre
<1>3. \A i, j \in 1 .. Len(packs) : packs[i].number = n /\ packs[j].number = n => i = j
  BY <1>0 DEF PacksInv, Ascending
<1>4. \A i \in 1 .. Len(packs) :
         packs[i].number = n => ~(producer.at = "push" /\ n = made) /\ consumer # b
  BY <1>0 DEF PacksInv, b
<1>5. consumer = b => ~(producer.at = "push" /\ n = made)
  BY <1>0 DEF PacksInv, b
<1>6. \A o, p \in Owners(b) : o = p
  BY <1>2, <1>3, <1>4, <1>5
<1>7. b \in heap <=>
        \/ \E i \in 1 .. Len(packs) : packs[i].number = n
        \/ producer.at = "push" /\ n = made
        \/ consumer = b
  BY <1>0 DEF PacksInv, Waiting, b
<1>8. b \in heap <=> \E o : o \in Owners(b)
  BY <1>2, <1>7
<1> QED
  BY <1>6, <1>8 DEF OneOwner, b

LEMMA CopyOwner == ASSUME DiagnosticsInv, NEW n \in 1 .. MaxPackages PROVE OneOwner(Copy(n))
<1> DEFINE b == Copy(n)
<1>0. /\ PacksInv /\ ProducerInv /\ LogInv /\ LoggerInv /\ MessagesInv
      /\ \A i \in 1 .. Len(logQueue) : logQueue[i].number \in 1 .. MaxPackages
      /\ Len(logQueue) \in Nat /\ MaxPackages \in Nat /\ made \in Nat
  BY EntriesOfQueue, DiagnosticsAssumption DEF DiagnosticsInv, TypeOK
<1>1. /\ \A i \in 1 .. Len(packs) : packs[i].payload # b
      /\ \A i \in 1 .. Len(logQueue) : logQueue[i].payload = b <=> logQueue[i].number = n
      /\ \A i \in 1 .. Len(msgQueue) : msgQueue[i] # b
      /\ producer.at = "push" => producer.payload # b
      /\ producer.copy = b <=> producer.at \in {"copy", "pushLog"} /\ n = made
      /\ consumer # b /\ logger.string # b /\ poster # b /\ b # NoBlock
  <2>1. \A i \in 1 .. Len(packs) : packs[i].payload # b
    BY <1>0, Kinds DEF PacksInv
  <2>2. \A i \in 1 .. Len(logQueue) : logQueue[i].payload = b <=> logQueue[i].number = n
    BY <1>0, Kinds DEF LogInv
  <2>3. \A i \in 1 .. Len(msgQueue) : msgQueue[i] # b
    BY <1>0, MessagesDiffer DEF MessagesInv
  <2>4. producer.at = "push" => producer.payload # b
    BY <1>0, Kinds DEF ProducerInv
  <2>5. /\ logger.string # b /\ b # NoBlock
        /\ producer.copy = b <=> producer.at \in {"copy", "pushLog"} /\ n = made
    BY <1>0, Kinds DEF ProducerInv, LoggerInv
  <2>6. poster # b
    BY <1>0, <2>5, MessagesDiffer DEF MessagesInv
  <2>7. consumer # b
    BY <1>0, Kinds DEF PacksInv
  <2> QED
    BY <2>1, <2>2, <2>3, <2>4, <2>5, <2>6, <2>7
<1> HIDE DEF b
<1>2. \A o : o \in Owners(b) <=>
        \/ \E i \in 1 .. Len(logQueue) : logQueue[i].number = n /\ o = <<"logQueue", i>>
        \/ producer.at \in {"copy", "pushLog"} /\ n = made /\ o = <<"tasks", 2>>
  BY <1>1, OwnersAre
<1>3. \A i, j \in 1 .. Len(logQueue) : logQueue[i].number = n /\ logQueue[j].number = n => i = j
  BY <1>0 DEF LogInv, Ascending
<1>4. \A i \in 1 .. Len(logQueue) :
         logQueue[i].number = n => ~(producer.at \in {"copy", "pushLog"} /\ n = made)
  BY <1>0 DEF LogInv, Settled
<1>5. \A o, p \in Owners(b) : o = p
  BY <1>2, <1>3, <1>4
<1>6. b \in heap <=>
        \/ \E i \in 1 .. Len(logQueue) : logQueue[i].number = n
        \/ producer.at \in {"copy", "pushLog"} /\ n = made
  BY <1>0 DEF LogInv, Waiting, b
<1>7. b \in heap <=> \E o : o \in Owners(b)
  BY <1>2, <1>6
<1> QED
  BY <1>5, <1>7 DEF OneOwner, b

LEMMA StringOwner == ASSUME DiagnosticsInv PROVE OneOwner(String)
<1>0. PacksInv /\ ProducerInv /\ LogInv /\ LoggerInv /\ MessagesInv
  BY DEF DiagnosticsInv
<1>1. /\ \A i \in 1 .. Len(packs) : packs[i].payload # String
      /\ \A i \in 1 .. Len(logQueue) : logQueue[i].payload # String
      /\ producer.at = "push" => producer.payload # String
      /\ producer.copy # String /\ consumer # String /\ String # NoBlock
  BY <1>0, Kinds DEF PacksInv, ProducerInv, LogInv
<1>2. poster # String /\ \A i \in 1 .. Len(msgQueue) : msgQueue[i] # String
  BY <1>0, <1>1, MessagesDiffer DEF MessagesInv
<1>3. \A o : o \in Owners(String) <=> logger.string = String /\ o = <<"tasks", 4>>
  BY <1>1, <1>2, OwnersAre
<1>4. String \in heap <=> logger.string = String
  BY <1>0, Kinds DEF LoggerInv
<1>5. \A o, p \in Owners(String) : o = p
  BY <1>3
<1>6. String \in heap <=> \E o : o \in Owners(String)
  BY <1>3, <1>4
<1> QED
  BY <1>5, <1>6 DEF OneOwner

LEMMA MessageOwner == ASSUME DiagnosticsInv, NEW b \in Messages PROVE OneOwner(b)
<1>0. PacksInv /\ ProducerInv /\ LogInv /\ LoggerInv /\ MessagesInv
  BY DEF DiagnosticsInv
<1>1. /\ \A i \in 1 .. Len(packs) : packs[i].payload # b
      /\ \A i \in 1 .. Len(logQueue) : logQueue[i].payload # b
      /\ producer.at = "push" => producer.payload # b
      /\ producer.copy # b /\ consumer # b /\ logger.string # b /\ b # NoBlock
  BY <1>0, MessagesDiffer DEF PacksInv, ProducerInv, LogInv, LoggerInv
<1>2. \A o : o \in Owners(b) <=>
        \/ \E i \in 1 .. Len(msgQueue) : msgQueue[i] = b /\ o = <<"msgQueue", i>>
        \/ poster = b /\ o = <<"tasks", 5>>
  BY <1>1, OwnersAre
<1>3. \A o, p \in Owners(b) : o = p
  BY <1>0, <1>2 DEF MessagesInv
<1>4. b \in heap <=> poster = b \/ \E i \in 1 .. Len(msgQueue) : msgQueue[i] = b
  BY <1>0 DEF MessagesInv
<1>5. b \in heap <=> \E o : o \in Owners(b)
  BY <1>2, <1>4
<1> QED
  BY <1>3, <1>5 DEF OneOwner

LEMMA InvOwned == DiagnosticsInv => BlocksOwnedOnce
<1> SUFFICES ASSUME DiagnosticsInv, NEW b \in Blocks
             PROVE  Cardinality(Owners(b)) = (IF b \in heap THEN 1 ELSE 0)
  BY DEF BlocksOwnedOnce
<1>1. OneOwner(b)
  BY PayloadOwner, CopyOwner, StringOwner, MessageOwner DEF Blocks, Messages
<1>2. CASE Owners(b) = {}
  BY <1>1, <1>2, FS_EmptySet DEF OneOwner
<1>3. CASE Owners(b) # {}
  <2>1. PICK o : o \in Owners(b)
    BY <1>3
  <2>2. Owners(b) = {o}
    BY <1>1, <2>1 DEF OneOwner
  <2>3. Cardinality({o}) = 1
    BY FS_Singleton
  <2> QED
    BY <1>1, <1>3, <2>2, <2>3 DEF OneOwner
<1> QED
  BY <1>2, <1>3

-----------------------------------------------------------------------------
(* The log is complete *)

LEMMA InvLogged == DiagnosticsInv => LogCompleteAndOrdered
<1> SUFFICES ASSUME DiagnosticsInv PROVE LogCompleteAndOrdered
  OBVIOUS
<1>0. /\ LogOrderInv /\ ProducerInv /\ made \in 0 .. MaxPackages /\ MaxPackages \in Nat
      /\ producer.at \in {"idle", "push", "log", "copy", "pushLog"}
      /\ logQueue \in Seq(Entry) /\ file \in Seq(FileEntry)
  BY DiagnosticsAssumption DEF DiagnosticsInv, TypeOK, FileEntry
<1>1. /\ Written \in Seq(1 .. MaxPackages) /\ Len(Written) \in Nat
      /\ \A k \in 1 .. Len(Written) : Written[k] \in (1 .. Settled) \ unlogged
  <2>1. Written \in Seq(1 .. MaxPackages)
    BY <1>0, WrittenThenWaiting DEF Written
  <2> QED
    BY <1>0, <2>1, LenProperties DEF LogOrderInv
<1>2. CASE producer.at = "idle"
  <2>1. Logging = <<>> /\ Settled = made
    BY <1>2 DEF Logging, Settled
  <2>2. Logged = Written
    <3>1. Logged = Written \o <<>>
      BY <2>1 DEF Logged, Written
    <3> QED
      BY <1>1, <3>1, ConcatEmptySeq
  <2>3. DOMAIN Logged = 1 .. Len(Written)
    BY <1>1, <2>2, LenProperties
  <2> QED
    BY <1>0, <2>1, <2>2, <2>3 DEF LogOrderInv, LogCompleteAndOrdered
<1>3. CASE producer.at # "idle"
  <2>1. Logging = <<made>> /\ Settled = made - 1 /\ made \in 1 .. MaxPackages
    BY <1>0, <1>3, NumberOfPackage DEF Logging, Settled
  <2>2. Logged = Written \o <<made>>
    BY <2>1 DEF Logged, Written
  <2>3. Logged = Append(Written, made)
    BY <1>1, <2>1, <2>2, AppendIsConcat
  <2>4. /\ Logged \in Seq(1 .. MaxPackages) /\ Len(Logged) = Len(Written) + 1
        /\ Logged[Len(Written) + 1] = made
        /\ \A k \in 1 .. Len(Written) : Logged[k] = Written[k]
        /\ \A k \in 1 .. Len(Logged) :
              \/ k \in 1 .. Len(Written) /\ Logged[k] = Written[k]
              \/ k = Len(Written) + 1 /\ Logged[k] = made
    BY <1>1, <2>1, <2>3, QueueAppended
  <2>5. DOMAIN Logged = 1 .. Len(Logged)
    BY <2>4, LenProperties
  <2>6. ASSUME NEW j \in 1 .. Len(Logged), NEW k \in 1 .. Len(Logged), j < k
        PROVE  Logged[j] < Logged[k]
    <3>1. j \in 1 .. Len(Written) /\ Logged[j] = Written[j]
      BY <1>1, <2>4, <2>6
    <3>2. Written[j] < made
      BY <1>1, <2>1, <3>1
    <3>3. CASE k \in 1 .. Len(Written) /\ Logged[k] = Written[k]
      BY <1>0, <2>6, <3>1, <3>3 DEF LogOrderInv
    <3>4. CASE Logged[k] = made
      BY <3>1, <3>2, <3>4
    <3> QED
      BY <2>4, <3>3, <3>4
  <2>7. {Logged[k] : k \in 1 .. Len(Logged)} = {Written[k] : k \in 1 .. Len(Written)} \cup {made}
    <3>1. \A k \in 1 .. Len(Written) : k \in 1 .. Len(Logged)
      BY <1>1, <2>4
    <3>2. Len(Written) + 1 \in 1 .. Len(Logged)
      BY <1>1, <2>4
    <3> QED
      BY <2>4, <3>1, <3>2
  <2>8. made \notin unlogged
    BY <1>0, <2>1 DEF ProducerInv
  <2>9. (1 .. made) \ unlogged = ((1 .. made - 1) \ unlogged) \cup {made}
    BY <2>1, <2>8
  <2>10. {Logged[k] : k \in 1 .. Len(Logged)} = (1 .. made) \ unlogged
    BY <1>0, <2>1, <2>7, <2>9 DEF LogOrderInv
  <2> QED
    BY <2>5, <2>6, <2>10 DEF LogCompleteAndOrdered
<1> QED
  BY <1>2, <1>3

-----------------------------------------------------------------------------
(* Theorems *)

LEMMA DiagnosticsInvariant == Spec => []DiagnosticsInv
<1> QED
  BY InitInv, StepInv, PTL DEF Spec

\* The queues of packages, log entries and messages keep their lengths and the tasks' local
\* variables their types whatever the order of their steps: the logger's index stays within the
\* packages although entries come in while it writes, and a free block for a message is always
\* found (Logger.c:182, Shell.c:161).
THEOREM TypeCorrect == Spec => []TypeOK
<1>1. DiagnosticsInv => TypeOK
  BY DEF DiagnosticsInv
<1> QED
  BY <1>1, DiagnosticsInvariant, PTL

\* No allocated block is ever without an owner, and none has two: a copy for the log is freed
\* when the queue has no space or when it is written, the string of the logger with it, a message
\* when it is dropped or printed, a payload by the consumer or by the producer that could not push
\* it (Logger.c:198-201, 334; Shell.c:132, 164).
THEOREM EveryBlockOwnedOnce == Spec => []BlocksOwnedOnce
<1> QED
  BY InvOwned, DiagnosticsInvariant, PTL

\* The file, the queue of the log and the package the producer has in its hands are together all
\* packages made, in order, without those that were dropped or found the queue full
\* (pushPackageToLoggerQueue, logPackages).
THEOREM LogIsComplete == Spec => []LogCompleteAndOrdered
<1> QED
  BY InvLogged, DiagnosticsInvariant, PTL

=============================================================================
