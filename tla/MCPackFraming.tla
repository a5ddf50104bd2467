---------------------------- MODULE MCPackFraming ----------------------------
(* Small instances of PackFraming: the packages are those whose bytes can be taken for  *)
(* the marks of the framing.                                                            *)
EXTENDS PackFraming

LOCAL INSTANCE SequencesExt

Data(n, bytes, crc8, crc16) ==
    [packType |-> PACK_TYPE_DATA_PACKAGE, sysTime |-> <<n>>, payload |-> bytes,
     crc8Header |-> crc8, crc16payload |-> crc16]

Acknowledge(n, number, crc8, crc16) ==
    [packType |-> PACK_TYPE_REC_ACKNOWLEDGE, sysTime |-> <<n>>, payload |-> number,
     crc8Header |-> crc8, crc16payload |-> crc16]

\* START and REP in every place where they can meet: at the ends of the header, of the
\* payload and of the checksum.
TrickyPackages ==
    {Data(7, <<PACK_REP, PACK_START>>, PACK_REP, <<PACK_START, PACK_REP>>),
     Data(7, <<PACK_START>>, PACK_REP, <<PACK_REP, PACK_START>>),
     Data(PACK_START, <<PACK_REP, PACK_REP>>, PACK_START, <<9, PACK_REP>>),
     Data(7, <<PACK_START, PACK_REP>>, 9, <<PACK_REP, PACK_START>>),
     Data(7, <<9, 9>>, 9, <<9, 9>>),
     Acknowledge(PACK_REP, <<0, PACK_START, 9, 9>>, PACK_REP, <<PACK_REP, 9>>)}

\* Escaping is byte by byte.
ASSUME EscapedIsFlat ==
    \A p \in TrickyPackages :
        LET bytes == Contents(p)
        IN  EscapedAll(bytes) = FlattenSeq([i \in DOMAIN bytes |-> Escaped(bytes[i])])

=============================================================================
