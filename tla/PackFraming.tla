----------------------------- MODULE PackFraming -----------------------------
(***************************************************************************)
(* How a package becomes bytes and bytes become a package again            *)
(* (PackageHandler.c), for one wireless connection: a START, the header    *)
(* with its checksum, the payload with its checksum and two fill bytes;    *)
(* every START byte inside is replaced by REP START REP.                   *)
(*                                                                         *)
(* `wire` is everything between the two package handlers in one FIFO: the  *)
(* queue TxWirelessBytes, both SPI handlers, the radio and the queue       *)
(* RxWirelessBytes.  It loses bytes, because the radio does or because a   *)
(* full receive queue drops its oldest ones.  Bytes carry the index of     *)
(* their package in `sent` and their place in it, for the properties.      *)
(*                                                                         *)
(* The header is reduced to packType, a byte of sysTime, payloadSize and   *)
(* crc8Header; device, session and the other bytes of sysTime are treated  *)
(* alike.  The comparison of both checksums is switched off in the code    *)
(* (PackageHandler.c:372, 436), so to the receiver they are bytes like any.*)
(*                                                                         *)
(* Variants with a plausible bug, used to confirm that a property notices: *)
(* ReplacedTwice, RestartKeepsBytes, StartOverlooked and SizeUnchecked.    *)
(***************************************************************************)
EXTENDS Integers, Sequences, FiniteSets

CONSTANTS
    Packages,    \* the packages the network handler may queue
    MaxPayload,  \* PACKAGE_MAX_PAYLOAD_SIZE
    TxLen,       \* BYTE_QUEUE_SIZE
    MaxSent,     \* bound: packages written
    MaxLost      \* bound: bytes lost

VARIABLES
    wire,        \* bytes written and not yet read
    rx,          \* the static variables of readAndExtractWirelessData
    assembled,   \* history: packages pushed to the queue of received packages
    sent,        \* history: packages popped for sending
    spoiled,     \* history: indices of packages that do not arrive whole and recognisable
    mild,        \* history: only payload, crc16 or fill bytes of plain packages are missing
    before,      \* history: the byte read last
    lost         \* history: number of bytes lost

vars == <<wire, rx, assembled, sent, spoiled, mild, before, lost>>

PACK_START == 27    \* '\e'
PACK_REP == 34      \* '"'
PACK_FILL == 32     \* ' '
PACK_TYPE_DATA_PACKAGE == 1
PACK_TYPE_REC_ACKNOWLEDGE == 2

Byte == 0 .. 255

Package == [packType : {PACK_TYPE_DATA_PACKAGE, PACK_TYPE_REC_ACKNOWLEDGE},
            sysTime : Seq(Byte), payload : Seq(Byte), crc8Header : Byte, crc16payload : Seq(Byte)]

HeaderSize == 4     \* PACKAGE_HEADER_SIZE - 1: without PACK_START
TotalSize == HeaderSize + 1 + 2     \* TOTAL_WL_PACKAGE_SIZE: the crc16 added

ReceiverStates == {"STATE_START", "STATE_READ_HEADER", "STATE_READ_PAYLOAD"}

ASSUME FramingAssumption ==
    /\ MaxPayload \in 1 .. 254
    /\ TxLen \in Nat
    /\ MaxSent \in Nat
    /\ MaxLost \in Nat
    /\ Packages \subseteq Package
    /\ \A p \in Packages : /\ Len(p.payload) \in 1 .. MaxPayload
                           /\ Len(p.sysTime) = 1
                           /\ Len(p.crc16payload) = 2
                           /\ p.packType = PACK_TYPE_REC_ACKNOWLEDGE => Len(p.payload) = 4

TypeOK ==
    /\ wire \in Seq([byte : Byte, pack : Nat, at : Nat])
    /\ rx \in [state : ReceiverStates, data : Seq(Byte), patternReplaced : Nat,
               header : Seq(Byte)]
    /\ rx.state = "STATE_START" => Len(rx.data) \in {0, 2}
    /\ rx.state = "STATE_READ_HEADER" => Len(rx.data) < HeaderSize + 2
    /\ rx.state = "STATE_READ_PAYLOAD" => /\ Len(rx.header) = HeaderSize
                                          /\ rx.header[3] <= MaxPayload
                                          /\ Len(rx.data) < rx.header[3] + 4
    /\ assembled \in Seq(Package)
    /\ sent \in Seq(Packages)
    /\ spoiled \in SUBSET Nat
    /\ mild \in BOOLEAN
    /\ before \in Byte
    /\ lost \in 0 .. MaxLost

Init ==
    /\ wire = <<>>
    /\ rx = [state |-> "STATE_START", data |-> <<>>, patternReplaced |-> 0, header |-> <<>>]
    /\ assembled = <<>>
    /\ sent = <<>>
    /\ spoiled = {}
    /\ mild = TRUE
    /\ before = PACK_FILL
    /\ lost = 0

-----------------------------------------------------------------------------
(* Sending *)

\* sendNonPackStartCharacter
Escaped(byte) ==
    IF byte = PACK_START THEN <<PACK_REP, PACK_START, PACK_REP>> ELSE <<byte>>

\* How many bytes the first i become.
EscapedLen(bytes, i) == i + 2 * Cardinality({k \in 1 .. i : bytes[k] = PACK_START})

\* One after the other: the n-th byte is one of those of the byte with index i.
EscapedAll(bytes) ==
    [n \in 1 .. EscapedLen(bytes, Len(bytes)) |->
        LET i == CHOOSE i \in DOMAIN bytes :
                    n \in EscapedLen(bytes, i - 1) + 1 .. EscapedLen(bytes, i)
        IN  Escaped(bytes[i])[n - EscapedLen(bytes, i - 1)]]

Header(p) == <<p.packType>> \o p.sysTime \o <<Len(p.payload), p.crc8Header>>

\* The fill bytes need no replacement.
Contents(p) == Header(p) \o p.payload \o p.crc16payload \o <<PACK_FILL, PACK_FILL>>

Written == [p \in Packages |-> <<PACK_START>> \o EscapedAll(Contents(p))]

Plain(p) == \A i \in DOMAIN Contents(p) : Contents(p)[i] \notin {PACK_START, PACK_REP}

FreeSpace == TxLen - Len(wire)

\* The package is written in one critical section, as far as there is space.  The space
\* asked for counts neither the replacements nor the fill bytes; what does not fit is
\* missing at the end.
SendPackage(p) ==
    /\ Len(sent) < MaxSent
    /\ FreeSpace > TotalSize + Len(p.payload)
    /\ LET bytes == Written[p]
           count == IF Len(bytes) <= FreeSpace THEN Len(bytes) ELSE FreeSpace
           n == Len(sent) + 1
       IN  /\ wire' = wire \o [i \in 1 .. count |->
                                 [byte |-> bytes[i], pack |-> n, at |-> i]]
           /\ IF count = Len(bytes)
              THEN UNCHANGED <<spoiled, mild>>
              ELSE spoiled' = spoiled \cup {n} /\ mild' = (mild /\ Plain(p))
           /\ sent' = Append(sent, p)
    /\ UNCHANGED <<rx, assembled, before, lost>>

\* A byte does not arrive.
LoseByte ==
    /\ wire # <<>>
    /\ lost < MaxLost
    /\ wire' = Tail(wire)
    /\ LET b == Head(wire)
       IN  /\ spoiled' = spoiled \cup {b.pack}
           /\ mild' = (mild /\ Plain(sent[b.pack]) /\ b.at > 1 + HeaderSize)
    /\ lost' = lost + 1
    /\ UNCHANGED <<rx, assembled, sent, before>>

-----------------------------------------------------------------------------
(* Receiving *)

\* The bytes read so far end with a START that is not part of a replacement.
EndsWithStart(data) ==
    LET n == Len(data)
    IN  /\ n > 0
        /\ data[n] = PACK_START
        /\ n = 1 \/ data[n - 1] # PACK_REP

ReplacedTwice(data, replaced) ==
    LET n == Len(data)
    IN  n >= 3 /\ SubSeq(data, n - 2, n) = <<PACK_REP, PACK_START, PACK_REP>>

\* They end with a replacement that was not made already.  (Positions count from 0.)
EndsWithReplacement(data, replaced) ==
    LET n == Len(data)
    IN  /\ n >= 3
        /\ SubSeq(data, n - 2, n) = <<PACK_REP, PACK_START, PACK_REP>>
        /\ n - 2 # replaced

\* checkForPackStartReplacement
Checked(data, replaced) ==
    LET n == Len(data)
    IN  IF EndsWithReplacement(data, replaced)
        THEN [data |-> Append(SubSeq(data, 1, n - 3), PACK_START), replaced |-> n - 3,
              start |-> FALSE]
        ELSE [data |-> data, replaced |-> replaced, start |-> EndsWithStart(data)]

RestartKeepsBytes(c) == c.data

\* A START restarts the reading of a header.
Restarted(c) == IF c.start THEN <<>> ELSE c.data

In(state, data, replaced, header) ==
    [state |-> state, data |-> data, patternReplaced |-> replaced, header |-> header]

LastTwo(data) == SubSeq(data, Len(data) - 1, Len(data))

\* STATE_START.  The two bytes read beyond the last package may hold a START, looked for
\* from the end.
Leftover(chr) ==
    IF rx.data[2] = PACK_START THEN <<chr>> ELSE <<rx.data[2], chr>>

AfterStart(chr) ==
    IF chr = PACK_START
    THEN In("STATE_READ_HEADER", <<>>, 0, rx.header)
    ELSE IF \E i \in DOMAIN rx.data : rx.data[i] = PACK_START
    THEN LET c == Checked(Leftover(chr), 0)
         IN  In("STATE_READ_HEADER", Restarted(c), c.replaced, rx.header)
    ELSE In("STATE_START", <<>>, rx.patternReplaced, rx.header)

SizeUnchecked(h) == h[1] \in {PACK_TYPE_DATA_PACKAGE, PACK_TYPE_REC_ACKNOWLEDGE}

ValidHeader(h) ==
    /\ h[1] \in {PACK_TYPE_DATA_PACKAGE, PACK_TYPE_REC_ACKNOWLEDGE}
    /\ h[3] <= MaxPayload

\* STATE_READ_HEADER.  The header is complete when two bytes of the payload are there.
AfterHeader(chr) ==
    LET c == Checked(Append(rx.data, chr), rx.patternReplaced)
        data == Restarted(c)
        header == SubSeq(data, 1, HeaderSize)
    IN  IF Len(data) < HeaderSize + 2
        THEN In("STATE_READ_HEADER", data, c.replaced, rx.header)
        ELSE IF EndsWithStart(LastTwo(data))
        THEN In("STATE_READ_HEADER", <<>>, 0, header)
        ELSE IF ValidHeader(header)
        THEN In("STATE_READ_PAYLOAD", LastTwo(data), 0, header)
        ELSE In("STATE_START", <<>>, 0, header)

PayloadRead(chr) == Checked(Append(rx.data, chr), rx.patternReplaced)

StartOverlooked(c) == Len(c.data) >= rx.header[3] + 4

\* Payload, crc16 and two bytes more: a replacement may have begun at the end.
PackageComplete(c) == ~c.start /\ Len(c.data) >= rx.header[3] + 4

\* STATE_READ_PAYLOAD
AfterPayload(chr) ==
    LET c == PayloadRead(chr)
    IN  IF PackageComplete(c)
        THEN In("STATE_START", LastTwo(c.data), 0, rx.header)
        ELSE IF c.start
        THEN In("STATE_READ_HEADER", <<>>, c.replaced, rx.header)
        ELSE In("STATE_READ_PAYLOAD", c.data, c.replaced, rx.header)

\* An acknowledge is for the package whose number are the last four bytes of its payload,
\* found by counting back from the crc16.  A payload of less than four bytes would make it
\* read in front of the array: only a damaged package has one, and what is read is unknown.
Number(packType, sysTime, payload) ==
    IF packType # PACK_TYPE_REC_ACKNOWLEDGE THEN sysTime
    ELSE IF Len(payload) >= 4 THEN SubSeq(payload, Len(payload) - 3, Len(payload))
    ELSE <<>>

\* The package taken from the bytes; one without payload is dropped.
TakenFrom(c) ==
    LET h == rx.header
        payload == SubSeq(c.data, 1, h[3])
    IN  [packType |-> h[1], sysTime |-> Number(h[1], <<h[2]>>, payload), payload |-> payload,
         crc8Header |-> h[4],
         crc16payload |-> SubSeq(c.data, h[3] + 1, h[3] + 2)]

Assemble(chr) ==
    LET c == PayloadRead(chr)
    IN  IF rx.state = "STATE_READ_PAYLOAD" /\ PackageComplete(c) /\ rx.header[3] > 0
        THEN assembled' = Append(assembled, TakenFrom(c))
        ELSE UNCHANGED assembled

\* The START of a package right after a REP cannot be told from a replacement.
Hidden(b) == b.at = 1 /\ before = PACK_REP

\* One iteration of readAndExtractWirelessData.
ReceiveByte ==
    /\ wire # <<>>
    /\ LET b == Head(wire)
       IN  /\ wire' = Tail(wire)
           /\ rx' = CASE rx.state = "STATE_START" -> AfterStart(b.byte)
                      [] rx.state = "STATE_READ_HEADER" -> AfterHeader(b.byte)
                      [] rx.state = "STATE_READ_PAYLOAD" -> AfterPayload(b.byte)
           /\ Assemble(b.byte)
           /\ before' = b.byte
           /\ spoiled' = IF Hidden(b) THEN spoiled \cup {b.pack} ELSE spoiled
    /\ UNCHANGED <<sent, mild, lost>>

Next ==
    \/ \E p \in Packages : SendPackage(p)
    \/ LoseByte
    \/ ReceiveByte

Spec == Init /\ [][Next]_vars

-----------------------------------------------------------------------------
(* Properties *)

\* What the receiver is to make of package p: the payload of an acknowledge is the number
\* of the package it is for.
Received(p) ==
    IF p.packType = PACK_TYPE_REC_ACKNOWLEDGE THEN [p EXCEPT !.sysTime = p.payload] ELSE p

\* As long as nothing is lost, what is assembled is what was sent: the same packages with
\* the same bytes, whatever START and REP bytes they contain, and none is held back once
\* its last byte was read (PackageHandler.c:189, 212).
UndamagedStream ==
    spoiled = {} =>
        /\ Len(assembled) <= Len(sent)
        /\ \A i \in DOMAIN assembled : assembled[i] = Received(sent[i])
        /\ wire = <<>> => Len(assembled) = Len(sent)

\* Bytes missing in the payload, the crc16 or the fill bytes of packages without START and
\* REP make these packages disappear; they never turn into other packages, although the
\* checksums are not looked at: the START of the next package comes too early.
ShortPackagesDropped ==
    mild => \A i \in DOMAIN assembled : \E k \in DOMAIN sent : assembled[i] = Received(sent[k])

ArrivesWhole ==
    /\ wire # <<>>
    /\ lost' = lost
    /\ wire' = Tail(wire)
    /\ Head(wire).pack \notin spoiled
    /\ Head(wire).at = Len(Written[sent[Head(wire).pack]])

NoStartInHeader(p) == \A i \in DOMAIN Header(p) : Header(p)[i] # PACK_START

\* Whatever was lost before, a package that arrives whole is assembled when its last byte
\* is read, if its header needed no replacement: the receiver finds back to the stream.  A
\* header with a replaced START may be misread, since where the last replacement was made is
\* not forgotten when the reading restarts (PackageHandler.c:327, 416): see the hazards.
PlainHeaderResynchronises ==
    [][ArrivesWhole /\ NoStartInHeader(sent[Head(wire).pack])
         => assembled' = Append(assembled, Received(sent[Head(wire).pack]))]_vars

=============================================================================
