------------------------- MODULE PackFraming_proofs -------------------------
(***************************************************************************)
(* Theorems about PackFraming, for every set of packages, every size of    *)
(* the payload and of the byte queue, and whatever is lost.                *)
(*                                                                         *)
(* They rest on where the receiver is while the bytes of a package come    *)
(* in: Midway, if it has read all of them so far, or Short, if it missed   *)
(* some behind the header of a package in which nothing is replaced.       *)
(***************************************************************************)
EXTENDS PackFraming, TLAPS, SequenceTheorems, FiniteSetTheorems, WellFoundedInduction

USE DEF PACK_START, PACK_REP, PACK_FILL, HeaderSize

-----------------------------------------------------------------------------
(* Escaping *)

\* Every set of natural numbers that is not empty has a least element.
LEMMA LeastElement ==
    ASSUME NEW S \in SUBSET Nat, S # {}
    PROVE  \E m \in S : \A n \in S : m <= n
<1>1. PICK m \in S : \A n \in S : <<n, m>> \notin OpToRel(<, Nat)
  BY NatLessThanWellFounded, WFMin
<1>2. \A n \in S : ~(n < m)
  BY <1>1 DEF OpToRel
<1> QED
  BY <1>2

\* A byte becomes itself or a mark of three.
LEMMA EscapedByte ==
    ASSUME NEW b \in Byte
    PROVE  /\ Len(Escaped(b)) = IF b = PACK_START THEN 3 ELSE 1
           /\ Escaped(b) \in Seq(Byte)
           /\ b # PACK_START => Escaped(b)[1] = b
           /\ b = PACK_START => /\ Escaped(b)[1] = PACK_REP
                                /\ Escaped(b)[2] = PACK_START
                                /\ Escaped(b)[3] = PACK_REP
<1>1. CASE b = PACK_START
  <2>1. Escaped(b) = <<34, 27, 34>>
    BY <1>1 DEF Escaped
  <2>2. 34 \in Byte /\ 27 \in Byte
    BY DEF Byte
  <2>3. <<34, 27, 34>> \in Seq(Byte)
    BY <2>2
  <2>4. /\ Len(<<34, 27, 34>>) = 3
        /\ <<34, 27, 34>>[1] = 34 /\ <<34, 27, 34>>[2] = 27 /\ <<34, 27, 34>>[3] = 34
    OBVIOUS
  <2> QED
    BY <1>1, <2>1, <2>3, <2>4, Zenon
<1>2. CASE b # PACK_START
  <2>1. Escaped(b) = <<b>>
    BY <1>2 DEF Escaped
  <2> QED
    BY <1>2, <2>1
<1> QED
  BY <1>1, <1>2

\* The START among the first i bytes can be counted.
LEMMA StartsCounted ==
    ASSUME NEW c, NEW i \in Nat
    PROVE  /\ IsFiniteSet({k \in 1 .. i : c[k] = PACK_START})
           /\ Cardinality({k \in 1 .. i : c[k] = PACK_START}) \in Nat
<1>1. IsFiniteSet(1 .. i)
  BY FS_Interval
<1>2. {k \in 1 .. i : c[k] = PACK_START} \in SUBSET (1 .. i)
  OBVIOUS
<1>3. IsFiniteSet({k \in 1 .. i : c[k] = PACK_START})
  BY <1>1, <1>2, FS_Subset
<1> QED
  BY <1>3, FS_CardinalityType

\* Each byte adds the length of what it becomes.
LEMMA EscapedLenGrows ==
    ASSUME NEW c \in Seq(Byte), NEW j \in 0 .. Len(c) - 1
    PROVE  /\ EscapedLen(c, j) \in Nat
           /\ EscapedLen(c, j) >= j
           /\ EscapedLen(c, j + 1) = EscapedLen(c, j) + Len(Escaped(c[j + 1]))
<1> DEFINE S(i) == {k \in 1 .. i : c[k] = PACK_START}
<1>1. j \in Nat /\ j + 1 \in Nat /\ c[j + 1] \in Byte /\ Len(c) \in Nat
  OBVIOUS
<1>2. IsFiniteSet(S(j)) /\ Cardinality(S(j)) \in Nat
  BY <1>1, StartsCounted
<1>3. EscapedLen(c, j) = j + 2 * Cardinality(S(j))
  BY DEF EscapedLen
<1>4. EscapedLen(c, j + 1) = j + 1 + 2 * Cardinality(S(j + 1))
  BY DEF EscapedLen
<1>5. CASE c[j + 1] = PACK_START
  <2>1. S(j + 1) = S(j) \cup {j + 1}
    BY <1>1, <1>5
  <2>2. j + 1 \notin S(j)
    BY <1>1
  <2>3. Cardinality(S(j + 1)) = Cardinality(S(j)) + 1
    BY <1>2, <2>1, <2>2, FS_AddElement
  <2>4. Len(Escaped(c[j + 1])) = 3
    BY <1>1, <1>5, EscapedByte
  <2> HIDE DEF S
  <2>5. PICK a \in Nat : a = Cardinality(S(j))
    BY <1>2
  <2>6. EscapedLen(c, j) = j + 2 * a /\ EscapedLen(c, j + 1) = j + 1 + 2 * (a + 1)
    BY <1>3, <1>4, <2>3, <2>5
  <2> QED
    BY <1>1, <2>4, <2>6
<1>6. CASE c[j + 1] # PACK_START
  <2>1. S(j + 1) = S(j)
    BY <1>1, <1>6
  <2>2. Len(Escaped(c[j + 1])) = 1
    BY <1>1, <1>6, EscapedByte
  <2> HIDE DEF S
  <2>5. PICK a \in Nat : a = Cardinality(S(j))
    BY <1>2
  <2>6. EscapedLen(c, j) = j + 2 * a /\ EscapedLen(c, j + 1) = j + 1 + 2 * a
    BY <1>3, <1>4, <2>1, <2>5
  <2> QED
    BY <1>1, <2>2, <2>6
<1> QED
  BY <1>5, <1>6

\* The length of an escaped prefix is a number, no less than that of the prefix.
LEMMA EscapedLenType ==
    ASSUME NEW c \in Seq(Byte), NEW j \in 0 .. Len(c)
    PROVE  EscapedLen(c, j) \in Nat /\ EscapedLen(c, j) >= j
<1>1. j \in Nat
  OBVIOUS
<1>2. Cardinality({k \in 1 .. j : c[k] = PACK_START}) \in Nat
  BY <1>1, StartsCounted
<1> QED
  BY <1>1, <1>2 DEF EscapedLen

\* No byte becomes no byte.
LEMMA NothingEscaped ==
    ASSUME NEW c
    PROVE  EscapedLen(c, 0) = 0
<1>1. {k \in 1 .. 0 : c[k] = PACK_START} = {}
  OBVIOUS
<1> QED
  BY <1>1, FS_EmptySet DEF EscapedLen

\* Without START nothing is added.
LEMMA PlainLen ==
    ASSUME NEW c \in Seq(Byte), NEW j \in 0 .. Len(c), \A i \in 1 .. j : c[i] # PACK_START
    PROVE  EscapedLen(c, j) = j
<1>1. {k \in 1 .. j : c[k] = PACK_START} = {}
  OBVIOUS
<1>2. Cardinality({k \in 1 .. j : c[k] = PACK_START}) = 0
  BY <1>1, FS_EmptySet
<1> QED
  BY <1>2 DEF EscapedLen

\* What a byte becomes is behind what the bytes before it become.
LEMMA EscapedLenMonotone ==
    ASSUME NEW c \in Seq(Byte), NEW i \in 0 .. Len(c), NEW j \in 0 .. Len(c), i <= j
    PROVE  EscapedLen(c, i) <= EscapedLen(c, j)
<1>1. {k \in 1 .. i : c[k] = PACK_START} \in SUBSET {k \in 1 .. j : c[k] = PACK_START}
  OBVIOUS
<1>n. i \in Nat /\ j \in Nat
  OBVIOUS
<1>2. /\ IsFiniteSet({k \in 1 .. j : c[k] = PACK_START})
      /\ Cardinality({k \in 1 .. j : c[k] = PACK_START}) \in Nat
      /\ Cardinality({k \in 1 .. i : c[k] = PACK_START}) \in Nat
  BY <1>n, StartsCounted
<1>3. Cardinality({k \in 1 .. i : c[k] = PACK_START})
        <= Cardinality({k \in 1 .. j : c[k] = PACK_START})
  BY <1>1, <1>2, FS_Subset
<1> QED
  BY <1>n, <1>2, <1>3 DEF EscapedLen

\* The index of the byte that the n-th escaped byte belongs to.
OwnerOf(c, n, i) == n \in EscapedLen(c, i - 1) + 1 .. EscapedLen(c, i)

\* A written byte is one of those of a single byte of the contents.
LEMMA OneOwner ==
    ASSUME NEW c \in Seq(Byte), NEW n \in Nat, NEW i \in 1 .. Len(c), NEW j \in 1 .. Len(c),
           OwnerOf(c, n, i), OwnerOf(c, n, j)
    PROVE  i = j
<1>1. /\ i \in Nat /\ j \in Nat /\ Len(c) \in Nat /\ i - 1 \in 0 .. Len(c)
      /\ j - 1 \in 0 .. Len(c) /\ i \in 0 .. Len(c) /\ j \in 0 .. Len(c)
  OBVIOUS
<1>2. /\ EscapedLen(c, i) \in Nat /\ EscapedLen(c, j) \in Nat
      /\ EscapedLen(c, i - 1) \in Nat /\ EscapedLen(c, j - 1) \in Nat
  BY <1>1, EscapedLenType
<1>3. CASE i < j
  <2>1. i <= j - 1
    BY <1>1, <1>3
  <2>2. EscapedLen(c, i) <= EscapedLen(c, j - 1)
    BY <1>1, <2>1, EscapedLenMonotone
  <2> QED
    BY <1>2, <2>2 DEF OwnerOf
<1>4. CASE j < i
  <2>1. j <= i - 1
    BY <1>1, <1>4
  <2>2. EscapedLen(c, j) <= EscapedLen(c, i - 1)
    BY <1>1, <2>1, EscapedLenMonotone
  <2> QED
    BY <1>2, <2>2 DEF OwnerOf
<1> QED
  BY <1>1, <1>3, <1>4

\* The escaped byte at place r of what byte j + 1 becomes.
LEMMA EscapedAt ==
    ASSUME NEW c \in Seq(Byte), NEW j \in 0 .. Len(c) - 1,
           NEW r \in Nat, r < Len(Escaped(c[j + 1]))
    PROVE  /\ EscapedLen(c, j) + r + 1 \in 1 .. EscapedLen(c, Len(c))
           /\ EscapedAll(c)[EscapedLen(c, j) + r + 1] = Escaped(c[j + 1])[r + 1]
<1>1. /\ Len(c) \in Nat /\ j \in Nat /\ j + 1 \in 1 .. Len(c) /\ c[j + 1] \in Byte
      /\ j + 1 \in 0 .. Len(c) /\ Len(c) \in 0 .. Len(c) /\ (j + 1) - 1 = j
  OBVIOUS
<1>2. /\ EscapedLen(c, j) \in Nat
      /\ EscapedLen(c, j + 1) = EscapedLen(c, j) + Len(Escaped(c[j + 1]))
  BY EscapedLenGrows
<1>3. Len(Escaped(c[j + 1])) \in Nat
  BY <1>1, EscapedByte
<1>4. EscapedLen(c, j + 1) <= EscapedLen(c, Len(c)) /\ EscapedLen(c, Len(c)) \in Nat
  BY <1>1, EscapedLenMonotone, EscapedLenType
<1>5. PICK n \in Nat : n = EscapedLen(c, j) + r + 1
  BY <1>2
<1>6. n \in 1 .. EscapedLen(c, Len(c))
  BY <1>2, <1>3, <1>4, <1>5
<1>7. OwnerOf(c, n, j + 1)
  BY <1>1, <1>2, <1>3, <1>5 DEF OwnerOf
<1>8. DOMAIN c = 1 .. Len(c)
  OBVIOUS
<1>9. (CHOOSE i \in DOMAIN c : OwnerOf(c, n, i)) = j + 1
  BY <1>1, <1>7, <1>8, OneOwner
<1>10. EscapedAll(c)[n] = Escaped(c[j + 1])[n - EscapedLen(c, (j + 1) - 1)]
  BY <1>6, <1>9 DEF EscapedAll, OwnerOf
<1>11. n - EscapedLen(c, (j + 1) - 1) = r + 1
  BY <1>1, <1>2, <1>5
<1> QED
  BY <1>5, <1>6, <1>10, <1>11

\* Every escaped byte belongs to a byte.
LEMMA EveryOneOwned ==
    ASSUME NEW c \in Seq(Byte), NEW n \in 1 .. EscapedLen(c, Len(c))
    PROVE  \E j \in 0 .. Len(c) - 1, r \in Nat :
               r < Len(Escaped(c[j + 1])) /\ n = EscapedLen(c, j) + r + 1
<1> DEFINE S == {i \in Nat : i \in 0 .. Len(c) /\ n <= EscapedLen(c, i)}
<1>1. Len(c) \in Nat /\ EscapedLen(c, Len(c)) \in Nat /\ n \in Nat
  BY EscapedLenType
<1>2. Len(c) \in S
  BY <1>1
<1>3. PICK i \in S : \A k \in S : i <= k
  <2>1. S \in SUBSET Nat /\ S # {}
    BY <1>2
  <2> HIDE DEF S
  <2> QED
    BY <2>1, LeastElement
<1>4. i # 0
  BY <1>1, NothingEscaped
<1>5. i - 1 \in 0 .. Len(c) - 1 /\ i - 1 \in Nat /\ (i - 1) + 1 = i
  BY <1>1, <1>4
<1>6. i - 1 \notin S
  BY <1>3, <1>5
<1>7. EscapedLen(c, i - 1) \in Nat
      /\ EscapedLen(c, i) = EscapedLen(c, i - 1) + Len(Escaped(c[i]))
  BY <1>5, EscapedLenGrows
<1>8. EscapedLen(c, i - 1) < n /\ n <= EscapedLen(c, i)
  BY <1>1, <1>5, <1>6, <1>7
<1>9. c[i] \in Byte
  BY <1>5
<1>10. Len(Escaped(c[i])) \in Nat
  BY <1>9, EscapedByte
<1>11. PICK r \in Nat : r = n - EscapedLen(c, i - 1) - 1
  BY <1>1, <1>7, <1>8
<1>12. r < Len(Escaped(c[i])) /\ n = EscapedLen(c, i - 1) + r + 1
  BY <1>1, <1>7, <1>8, <1>10, <1>11
<1> QED
  BY <1>5, <1>12

\* Escaping a sequence of bytes makes a sequence of bytes of the length counted.
LEMMA EscapedIsSeq ==
    ASSUME NEW c \in Seq(Byte)
    PROVE  /\ EscapedAll(c) \in Seq(Byte)
           /\ Len(EscapedAll(c)) = EscapedLen(c, Len(c))
<1>1. Len(c) \in Nat /\ EscapedLen(c, Len(c)) \in Nat
  BY EscapedLenType
<1>2. ASSUME NEW n \in 1 .. EscapedLen(c, Len(c)) PROVE EscapedAll(c)[n] \in Byte
  <2>1. PICK j \in 0 .. Len(c) - 1, r \in Nat :
            r < Len(Escaped(c[j + 1])) /\ n = EscapedLen(c, j) + r + 1
    BY EveryOneOwned
  <2>2. EscapedAll(c)[n] = Escaped(c[j + 1])[r + 1]
    BY <2>1, EscapedAt
  <2>3. c[j + 1] \in Byte
    BY <1>1
  <2>4. Escaped(c[j + 1]) \in Seq(Byte) /\ r + 1 \in 1 .. Len(Escaped(c[j + 1]))
    BY <2>1, <2>3, EscapedByte
  <2> QED
    BY <2>2, <2>4, ElementOfSeq
<1>3. DOMAIN EscapedAll(c) = 1 .. EscapedLen(c, Len(c))
      /\ EscapedAll(c) = [n \in 1 .. EscapedLen(c, Len(c)) |-> EscapedAll(c)[n]]
  BY DEF EscapedAll
<1>4. EscapedAll(c) \in [1 .. EscapedLen(c, Len(c)) -> Byte]
  BY <1>2, <1>3
<1> QED
  BY <1>1, <1>4

-----------------------------------------------------------------------------
(* Sequences *)

\* A sequence of one element.
LEMMA OneElement ==
    ASSUME NEW S, NEW x \in S
    PROVE  <<x>> \in Seq(S) /\ Len(<<x>>) = 1 /\ <<x>>[1] = x
OBVIOUS

\* A sequence of two elements.
LEMMA TwoElements ==
    ASSUME NEW S, NEW x \in S, NEW y \in S
    PROVE  <<x, y>> \in Seq(S) /\ Len(<<x, y>>) = 2 /\ <<x, y>>[1] = x /\ <<x, y>>[2] = y
OBVIOUS

\* Two sequences joined: type, length and elements.
LEMMA JoinedElements ==
    ASSUME NEW S, NEW x \in Seq(S), NEW y \in Seq(S)
    PROVE  /\ x \o y \in Seq(S)
           /\ Len(x) \in Nat /\ Len(y) \in Nat
           /\ Len(x \o y) = Len(x) + Len(y)
           /\ \A i \in 1 .. Len(x) : (x \o y)[i] = x[i]
           /\ \A j \in 1 .. Len(y) : (x \o y)[Len(x) + j] = y[j]
<1>1. /\ x \o y \in Seq(S)
      /\ Len(x \o y) = Len(x) + Len(y)
      /\ \A i \in 1 .. Len(x) + Len(y) :
            (x \o y)[i] = IF i <= Len(x) THEN x[i] ELSE y[i - Len(x)]
  BY ConcatProperties
<1>2. Len(x) \in Nat /\ Len(y) \in Nat
  OBVIOUS
<1>3. ASSUME NEW i \in 1 .. Len(x) PROVE (x \o y)[i] = x[i]
  <2>1. i \in 1 .. Len(x) + Len(y) /\ i <= Len(x)
    BY <1>2
  <2> QED
    BY <1>1, <2>1
<1>4. ASSUME NEW j \in 1 .. Len(y) PROVE (x \o y)[Len(x) + j] = y[j]
  <2>1. Len(x) + j \in 1 .. Len(x) + Len(y) /\ ~(Len(x) + j <= Len(x))
        /\ (Len(x) + j) - Len(x) = j
    BY <1>2
  <2> QED
    BY <1>1, <2>1
<1> QED
  BY <1>1, <1>2, <1>3, <1>4

-----------------------------------------------------------------------------
(* The bytes of a package *)

\* The fields of a package: their types, the lengths of the variable ones, and that a type
\* is never taken for a START or a REP.
LEMMA PackageFacts ==
    ASSUME NEW p \in Packages
    PROVE  /\ p \in Package
           /\ p.packType \in {PACK_TYPE_DATA_PACKAGE, PACK_TYPE_REC_ACKNOWLEDGE}
           /\ p.sysTime \in Seq(Byte) /\ Len(p.sysTime) = 1
           /\ p.payload \in Seq(Byte) /\ Len(p.payload) \in 1 .. MaxPayload
           /\ p.crc8Header \in Byte
           /\ p.crc16payload \in Seq(Byte) /\ Len(p.crc16payload) = 2
           /\ p.packType = PACK_TYPE_REC_ACKNOWLEDGE => Len(p.payload) = 4
           /\ Len(p.payload) \in 1 .. 254 /\ MaxPayload \in Nat
           /\ p.packType \in Byte /\ Len(p.payload) \in Byte
           /\ p.packType \notin {PACK_START, PACK_REP}
<1>1. p \in Package
  BY FramingAssumption
<1>2. /\ p.packType \in {PACK_TYPE_DATA_PACKAGE, PACK_TYPE_REC_ACKNOWLEDGE}
      /\ p.sysTime \in Seq(Byte) /\ p.payload \in Seq(Byte) /\ p.crc8Header \in Byte
      /\ p.crc16payload \in Seq(Byte)
  BY <1>1 DEF Package
<1>3. /\ Len(p.payload) \in 1 .. MaxPayload /\ Len(p.sysTime) = 1 /\ Len(p.crc16payload) = 2
      /\ p.packType = PACK_TYPE_REC_ACKNOWLEDGE => Len(p.payload) = 4
  BY FramingAssumption
<1>4. MaxPayload \in 1 .. 254
  BY FramingAssumption
<1>m. MaxPayload \in Nat /\ MaxPayload <= 254
  BY <1>4
<1>l. Len(p.payload) \in Nat /\ 1 <= Len(p.payload) /\ Len(p.payload) <= MaxPayload
  BY <1>2, <1>3, <1>m
<1>n. PICK n \in Nat, m \in Nat : n = Len(p.payload) /\ m = MaxPayload
  BY <1>l, <1>m
<1>5. Len(p.payload) \in 1 .. 254 /\ MaxPayload \in Nat
  <2>1. 1 <= n /\ n <= m /\ m <= 254
    BY <1>l, <1>m, <1>n
  <2>2. n \in 1 .. 254
    BY <2>1
  <2> QED
    BY <1>n, <2>2
<1>6. Len(p.payload) \in Byte
  BY <1>5 DEF Byte
<1>7. p.packType \in Byte /\ p.packType \notin {PACK_START, PACK_REP}
  BY <1>2 DEF Byte, PACK_TYPE_DATA_PACKAGE, PACK_TYPE_REC_ACKNOWLEDGE
<1> QED
  BY <1>1, <1>2, <1>3, <1>5, <1>6, <1>7

\* The header is four bytes: the type, the number, the size of the payload and the checksum.
LEMMA HeaderFacts ==
    ASSUME NEW p \in Packages
    PROVE  /\ Header(p) \in Seq(Byte) /\ Len(Header(p)) = HeaderSize
           /\ Header(p)[1] = p.packType
           /\ Header(p)[2] = p.sysTime[1]
           /\ Header(p)[3] = Len(p.payload)
           /\ Header(p)[4] = p.crc8Header
<1>1. /\ p.packType \in Byte /\ Len(p.payload) \in Byte /\ p.crc8Header \in Byte
      /\ p.sysTime \in Seq(Byte) /\ Len(p.sysTime) = 1
  BY PackageFacts
<1>2. PICK a \in Seq(Byte) : a = <<p.packType>> /\ Len(a) = 1 /\ a[1] = p.packType
  BY <1>1, OneElement
<1>3. PICK b \in Seq(Byte) : /\ b = <<Len(p.payload), p.crc8Header>> /\ Len(b) = 2
                             /\ b[1] = Len(p.payload) /\ b[2] = p.crc8Header
  <2>1. PICK x \in Byte, y \in Byte : x = Len(p.payload) /\ y = p.crc8Header
    BY <1>1
  <2>2. <<x, y>> \in Seq(Byte) /\ Len(<<x, y>>) = 2 /\ <<x, y>>[1] = x /\ <<x, y>>[2] = y
    BY TwoElements, Zenon
  <2> QED
    BY <2>1, <2>2, Zenon
<1>4. PICK t \in Seq(Byte) : t = p.sysTime /\ Len(t) = 1
  BY <1>1
<1>5. PICK d \in Seq(Byte) : d = a \o t /\ Len(d) = 2 /\ d[1] = a[1] /\ d[2] = t[1]
  <2>1. /\ a \o t \in Seq(Byte) /\ Len(a \o t) = Len(a) + Len(t)
        /\ \A i \in 1 .. Len(a) : (a \o t)[i] = a[i]
        /\ \A j \in 1 .. Len(t) : (a \o t)[Len(a) + j] = t[j]
    BY JoinedElements
  <2>2. 1 \in 1 .. Len(a) /\ 1 \in 1 .. Len(t) /\ Len(a) + 1 = 2 /\ Len(a) + Len(t) = 2
    BY <1>2, <1>4
  <2>3. (a \o t)[1] = a[1] /\ (a \o t)[2] = t[1]
    BY <2>1, <2>2
  <2> QED
    BY <2>1, <2>2, <2>3
<1>6. PICK e \in Seq(Byte) : /\ e = d \o b /\ Len(e) = 4 /\ e[1] = d[1] /\ e[2] = d[2]
                             /\ e[3] = b[1] /\ e[4] = b[2]
  <2>1. /\ d \o b \in Seq(Byte) /\ Len(d \o b) = Len(d) + Len(b)
        /\ \A i \in 1 .. Len(d) : (d \o b)[i] = d[i]
        /\ \A j \in 1 .. Len(b) : (d \o b)[Len(d) + j] = b[j]
    BY JoinedElements
  <2>2. /\ 1 \in 1 .. Len(d) /\ 2 \in 1 .. Len(d) /\ 1 \in 1 .. Len(b) /\ 2 \in 1 .. Len(b)
        /\ Len(d) + 1 = 3 /\ Len(d) + 2 = 4 /\ Len(d) + Len(b) = 4
    BY <1>3, <1>5
  <2>3. (d \o b)[1] = d[1] /\ (d \o b)[2] = d[2] /\ (d \o b)[3] = b[1] /\ (d \o b)[4] = b[2]
    BY <2>1, <2>2
  <2> QED
    BY <2>1, <2>2, <2>3
<1>7. Header(p) = e
  BY <1>2, <1>3, <1>4, <1>5, <1>6 DEF Header
<1> QED
  BY <1>2, <1>3, <1>4, <1>5, <1>6, <1>7

\* The header, the payload, the checksum and two fill bytes.
LEMMA ContentsFacts ==
    ASSUME NEW p \in Packages
    PROVE  /\ Contents(p) \in Seq(Byte)
           /\ Len(Contents(p)) = Len(p.payload) + 8
           /\ \A m \in 1 .. 4 : Contents(p)[m] = Header(p)[m]
           /\ \A m \in 1 .. Len(p.payload) : Contents(p)[4 + m] = p.payload[m]
           /\ Contents(p)[Len(p.payload) + 5] = p.crc16payload[1]
           /\ Contents(p)[Len(p.payload) + 6] = p.crc16payload[2]
           /\ Contents(p)[Len(p.payload) + 7] = PACK_FILL
           /\ Contents(p)[Len(p.payload) + 8] = PACK_FILL
<1>1. PICK h \in Seq(Byte) : h = Header(p) /\ Len(h) = 4
  BY HeaderFacts
<1>2. PICK q \in Seq(Byte) : q = p.payload /\ Len(q) \in Nat
  BY PackageFacts
<1>3. PICK x \in Seq(Byte) : x = p.crc16payload /\ Len(x) = 2
  BY PackageFacts
<1>4. PICK f \in Seq(Byte) : f = <<PACK_FILL, PACK_FILL>> /\ Len(f) = 2 /\ f[1] = 32 /\ f[2] = 32
  <2>1. 32 \in Byte
    BY DEF Byte
  <2>2. <<32, 32>> \in Seq(Byte) /\ Len(<<32, 32>>) = 2 /\ <<32, 32>>[1] = 32 /\ <<32, 32>>[2] = 32
    BY <2>1, TwoElements, Zenon
  <2> QED
    BY <2>2, Zenon
<1>5. PICK a \in Seq(Byte) : /\ a = h \o q /\ Len(a) = Len(q) + 4
                             /\ \A m \in 1 .. 4 : a[m] = h[m]
                             /\ \A m \in 1 .. Len(q) : a[4 + m] = q[m]
  <2>1. /\ h \o q \in Seq(Byte) /\ Len(h \o q) = Len(h) + Len(q)
        /\ \A i \in 1 .. Len(h) + Len(q) :
              (h \o q)[i] = IF i <= Len(h) THEN h[i] ELSE q[i - Len(h)]
    BY ConcatProperties
  <2>2. \A m \in 1 .. Len(q) : (h \o q)[4 + m] = q[m]
    <3> TAKE m \in 1 .. Len(q)
    <3>1. 4 + m \in 1 .. Len(h) + Len(q) /\ ~(4 + m <= Len(h)) /\ (4 + m) - Len(h) = m
      BY <1>1, <1>2
    <3> QED
      BY <2>1, <3>1
  <2>3. \A m \in 1 .. 4 : (h \o q)[m] = h[m]
    <3> TAKE m \in 1 .. 4
    <3>1. m \in 1 .. Len(h) + Len(q) /\ m <= Len(h)
      BY <1>1, <1>2
    <3> QED
      BY <2>1, <3>1
  <2>4. Len(h \o q) = Len(q) + 4
    BY <1>1, <1>2, <2>1
  <2> QED
    BY <2>1, <2>2, <2>3, <2>4
<1>6. PICK b \in Seq(Byte) : /\ b = a \o x /\ Len(b) = Len(q) + 6
                             /\ \A m \in 1 .. Len(q) + 4 : b[m] = a[m]
                             /\ b[Len(q) + 5] = x[1] /\ b[Len(q) + 6] = x[2]
  <2>1. /\ a \o x \in Seq(Byte) /\ Len(a \o x) = Len(a) + Len(x)
        /\ \A i \in 1 .. Len(a) + Len(x) :
              (a \o x)[i] = IF i <= Len(a) THEN a[i] ELSE x[i - Len(a)]
    BY ConcatProperties
  <2>2. /\ Len(q) + 5 \in 1 .. Len(a) + Len(x) /\ ~(Len(q) + 5 <= Len(a))
        /\ (Len(q) + 5) - Len(a) = 1
        /\ Len(q) + 6 \in 1 .. Len(a) + Len(x) /\ ~(Len(q) + 6 <= Len(a))
        /\ (Len(q) + 6) - Len(a) = 2
        /\ Len(a) + Len(x) = Len(q) + 6
    BY <1>2, <1>3, <1>5
  <2>3. \A m \in 1 .. Len(q) + 4 : m \in 1 .. Len(a) + Len(x) /\ m <= Len(a)
    BY <1>2, <1>3, <1>5
  <2>4. \A m \in 1 .. Len(q) + 4 : (a \o x)[m] = a[m]
    BY <2>1, <2>3
  <2> QED
    BY <2>1, <2>2, <2>4
<1>7. PICK c \in Seq(Byte) : /\ c = b \o f /\ Len(c) = Len(q) + 8
                             /\ \A m \in 1 .. Len(q) + 6 : c[m] = b[m]
                             /\ c[Len(q) + 7] = f[1] /\ c[Len(q) + 8] = f[2]
  <2>1. /\ b \o f \in Seq(Byte) /\ Len(b \o f) = Len(b) + Len(f)
        /\ \A i \in 1 .. Len(b) + Len(f) :
              (b \o f)[i] = IF i <= Len(b) THEN b[i] ELSE f[i - Len(b)]
    BY ConcatProperties
  <2>2. /\ Len(q) + 7 \in 1 .. Len(b) + Len(f) /\ ~(Len(q) + 7 <= Len(b))
        /\ (Len(q) + 7) - Len(b) = 1
        /\ Len(q) + 8 \in 1 .. Len(b) + Len(f) /\ ~(Len(q) + 8 <= Len(b))
        /\ (Len(q) + 8) - Len(b) = 2
        /\ Len(b) + Len(f) = Len(q) + 8
    BY <1>2, <1>4, <1>6
  <2>3. \A m \in 1 .. Len(q) + 6 : m \in 1 .. Len(b) + Len(f) /\ m <= Len(b)
    BY <1>2, <1>4, <1>6
  <2>4. \A m \in 1 .. Len(q) + 6 : (b \o f)[m] = b[m]
    BY <2>1, <2>3
  <2> QED
    BY <2>1, <2>2, <2>4
<1>8. Contents(p) = c
  BY <1>1, <1>2, <1>3, <1>4, <1>5, <1>6, <1>7 DEF Contents
<1>9. /\ \A m \in 1 .. 4 : m \in 1 .. Len(q) + 6 /\ m \in 1 .. Len(q) + 4
      /\ \A m \in 1 .. Len(q) : 4 + m \in 1 .. Len(q) + 6 /\ 4 + m \in 1 .. Len(q) + 4
      /\ Len(q) + 5 \in 1 .. Len(q) + 6 /\ Len(q) + 6 \in 1 .. Len(q) + 6
  BY <1>2
<1>10. \A m \in 1 .. 4 : c[m] = h[m]
  BY <1>5, <1>6, <1>7, <1>9
<1>11. \A m \in 1 .. Len(q) : c[4 + m] = q[m]
  BY <1>5, <1>6, <1>7, <1>9
<1>12. c[Len(q) + 5] = x[1] /\ c[Len(q) + 6] = x[2]
  BY <1>6, <1>7, <1>9
<1>13. c[Len(q) + 7] = 32 /\ c[Len(q) + 8] = 32
  BY <1>4, <1>7
<1> QED
  BY <1>1, <1>2, <1>3, <1>7, <1>8, <1>10, <1>11, <1>12, <1>13

\* The receiver's header of four bytes is the header of the package.
LEMMA ContentsBeginWithHeader ==
    ASSUME NEW p \in Packages
    PROVE  SubSeq(Contents(p), 1, HeaderSize) = Header(p)
<1>1. /\ Contents(p) \in Seq(Byte) /\ Len(Contents(p)) = Len(p.payload) + 8
      /\ \A m \in 1 .. 4 : Contents(p)[m] = Header(p)[m]
  BY ContentsFacts
<1>2. Header(p) \in Seq(Byte) /\ Len(Header(p)) = 4
  BY HeaderFacts
<1>3. Len(p.payload) \in 1 .. 254
  BY PackageFacts
<1>4. \A m \in 1 .. 4 : Contents(p)[m] \in Byte
  BY <1>1, <1>3
<1>5. /\ SubSeq(Contents(p), 1, 4) \in Seq(Byte)
      /\ Len(SubSeq(Contents(p), 1, 4)) = 4
      /\ \A m \in 1 .. 4 : SubSeq(Contents(p), 1, 4)[m] = Contents(p)[m]
  BY <1>4, SubSeqProperties
<1> QED
  BY <1>1, <1>2, <1>5, SeqEqual

\* A START and the escaped contents: byte k of what is written, found from the byte of the
\* contents it belongs to.
LEMMA WrittenFacts ==
    ASSUME NEW p \in Packages
    PROVE  /\ Written[p] \in Seq(Byte)
           /\ Len(Written[p]) = 1 + EscapedLen(Contents(p), Len(Contents(p)))
           /\ Len(Written[p]) \in Nat
           /\ Len(Written[p]) >= Len(p.payload) + 9
           /\ Written[p][1] = PACK_START
           /\ \A k \in 2 .. Len(Written[p]) :
                  Written[p][k] = EscapedAll(Contents(p))[k - 1]
<1>1. PICK c \in Seq(Byte) : c = Contents(p) /\ Len(c) = Len(p.payload) + 8
  BY ContentsFacts
<1>2. Len(p.payload) \in 1 .. 254
  BY PackageFacts
<1>3. PICK e \in Seq(Byte) : e = EscapedAll(c) /\ Len(e) = EscapedLen(c, Len(c))
  BY EscapedIsSeq
<1>4. EscapedLen(c, Len(c)) \in Nat /\ EscapedLen(c, Len(c)) >= Len(c)
  <2>1. Len(c) \in 0 .. Len(c)
    OBVIOUS
  <2> QED
    BY <2>1, EscapedLenType
<1>5. PICK a \in Seq(Byte) : a = <<PACK_START>> /\ Len(a) = 1 /\ a[1] = 27
  <2>1. PACK_START \in Byte
    BY DEF Byte
  <2> QED
    BY <2>1, OneElement
<1>6. PICK w \in Seq(Byte) : w = a \o e /\ Len(w) = 1 + Len(e) /\ w[1] = 27
                             /\ \A k \in 2 .. Len(w) : w[k] = e[k - 1]
  <2>1. /\ a \o e \in Seq(Byte) /\ Len(a \o e) = Len(a) + Len(e)
        /\ \A i \in 1 .. Len(a) + Len(e) :
              (a \o e)[i] = IF i <= Len(a) THEN a[i] ELSE e[i - Len(a)]
    BY ConcatProperties
  <2>2. Len(e) \in Nat
    OBVIOUS
  <2>3. 1 \in 1 .. Len(a) + Len(e) /\ 1 <= Len(a) /\ Len(a) + Len(e) = 1 + Len(e)
    BY <1>5, <2>2
  <2>6. (a \o e)[1] = a[1]
    BY <2>1, <2>3
  <2>4. \A k \in 2 .. 1 + Len(e) :
           k \in 1 .. Len(a) + Len(e) /\ ~(k <= Len(a)) /\ k - Len(a) = k - 1
    BY <1>5, <2>2
  <2>5. \A k \in 2 .. 1 + Len(e) : (a \o e)[k] = e[k - 1]
    BY <2>1, <2>4
  <2>7. Len(a \o e) = 1 + Len(e) /\ (a \o e)[1] = 27
    BY <1>5, <2>1, <2>3, <2>6
  <2> QED
    BY <2>1, <2>5, <2>7, Zenon
<1>7. Written[p] = w
  BY <1>1, <1>3, <1>5, <1>6 DEF Written
<1>8. Len(w) \in Nat /\ Len(w) >= Len(p.payload) + 9
  BY <1>1, <1>2, <1>3, <1>4, <1>6
<1> QED
  BY <1>1, <1>3, <1>6, <1>7, <1>8

\* The bytes of a package without START and REP are its contents.
LEMMA PlainWritten ==
    ASSUME NEW p \in Packages, Plain(p)
    PROVE  /\ Len(Written[p]) = Len(p.payload) + 9
           /\ \A k \in 2 .. Len(Written[p]) :
                 /\ Written[p][k] = Contents(p)[k - 1]
                 /\ Written[p][k] \notin {PACK_START, PACK_REP}
           /\ \A j \in 0 .. Len(Contents(p)) : EscapedLen(Contents(p), j) = j
<1>1. PICK c \in Seq(Byte) : c = Contents(p) /\ Len(c) = Len(p.payload) + 8
  BY ContentsFacts
<1>2. Len(p.payload) \in 1 .. 254
  BY PackageFacts
<1>3. \A i \in 1 .. Len(c) : c[i] \in Byte /\ c[i] # 27 /\ c[i] # 34
  BY <1>1 DEF Plain
<1>4. \A j \in 0 .. Len(c) : EscapedLen(c, j) = j
  BY <1>3, PlainLen
<1>5. Len(c) \in 0 .. Len(c)
  OBVIOUS
<1>6. Len(Written[p]) = Len(p.payload) + 9
  BY <1>1, <1>2, <1>4, <1>5, WrittenFacts
<1>7. ASSUME NEW k \in 2 .. Len(Written[p])
      PROVE  Written[p][k] = c[k - 1] /\ k - 1 \in 1 .. Len(c)
  <2>1. /\ k - 2 \in 0 .. Len(c) - 1 /\ k - 2 \in 0 .. Len(c) /\ (k - 2) + 1 = k - 1
        /\ k - 1 \in 1 .. Len(c)
    BY <1>1, <1>2, <1>6, <1>7
  <2>2. Len(Escaped(c[k - 1])) = 1 /\ Escaped(c[k - 1])[1] = c[k - 1]
    BY <1>3, <2>1, EscapedByte
  <2>3. EscapedLen(c, k - 2) = k - 2
    BY <1>4, <2>1
  <2>4. EscapedAll(c)[EscapedLen(c, k - 2) + 0 + 1] = Escaped(c[(k - 2) + 1])[0 + 1]
    <3>1. 0 < Len(Escaped(c[(k - 2) + 1])) /\ 0 \in Nat
      BY <2>1, <2>2
    <3> QED
      BY <2>1, <3>1, EscapedAt
  <2>5. EscapedLen(c, k - 2) + 0 + 1 = k - 1
    BY <2>1, <2>3
  <2>6. EscapedAll(c)[k - 1] = c[k - 1]
    BY <2>1, <2>2, <2>4, <2>5
  <2> QED
    BY <1>1, <1>7, <2>1, <2>6, WrittenFacts
<1> QED
  BY <1>1, <1>3, <1>4, <1>6, <1>7

-----------------------------------------------------------------------------
(* Replacements *)

\* The last three bytes are a mark exactly if each of them is.
LEMMA LastThree ==
    ASSUME NEW e \in Seq(Byte), Len(e) >= 3
    PROVE  SubSeq(e, Len(e) - 2, Len(e)) = <<PACK_REP, PACK_START, PACK_REP>>
              <=> /\ e[Len(e) - 2] = PACK_REP
                  /\ e[Len(e) - 1] = PACK_START
                  /\ e[Len(e)] = PACK_REP
<1>1. PICK n \in Nat : n = Len(e) /\ n >= 3
  OBVIOUS
<1>2. \A i \in n - 2 .. n : e[i] \in Byte
  BY <1>1
<1>3. PICK q \in Seq(Byte) : /\ q = SubSeq(e, n - 2, n) /\ Len(q) = 3
                             /\ \A i \in 1 .. 3 : q[i] = e[(n - 2) + i - 1]
  <2>1. /\ SubSeq(e, n - 2, n) \in Seq(Byte)
        /\ Len(SubSeq(e, n - 2, n)) = IF n - 2 <= n THEN n - (n - 2) + 1 ELSE 0
        /\ \A i \in 1 .. n - (n - 2) + 1 : SubSeq(e, n - 2, n)[i] = e[(n - 2) + i - 1]
    BY <1>1, <1>2, SubSeqProperties
  <2>2. n - (n - 2) + 1 = 3 /\ n - 2 <= n
    BY <1>1
  <2> QED
    BY <2>1, <2>2
<1>4. q[1] = e[n - 2] /\ q[2] = e[n - 1] /\ q[3] = e[n]
  <2>1. /\ 1 \in 1 .. 3 /\ 2 \in 1 .. 3 /\ 3 \in 1 .. 3 /\ (n - 2) + 1 - 1 = n - 2
        /\ (n - 2) + 2 - 1 = n - 1 /\ (n - 2) + 3 - 1 = n
    BY <1>1
  <2> QED
    BY <1>3, <2>1
<1>5. PICK t \in Seq(Byte) : /\ t = <<34, 27, 34>> /\ Len(t) = 3
                             /\ t[1] = 34 /\ t[2] = 27 /\ t[3] = 34
  <2>1. /\ Len(<<34, 27, 34>>) = 3
        /\ <<34, 27, 34>>[1] = 34 /\ <<34, 27, 34>>[2] = 27 /\ <<34, 27, 34>>[3] = 34
    OBVIOUS
  <2>2. 34 \in Byte /\ 27 \in Byte
    BY DEF Byte
  <2>3. <<34, 27, 34>> \in Seq(Byte)
    BY <2>2
  <2> QED
    BY <2>1, <2>3, Zenon
<1>6. q = t <=> q[1] = 34 /\ q[2] = 27 /\ q[3] = 34
  <2>1. q = t => q[1] = 34 /\ q[2] = 27 /\ q[3] = 34
    BY <1>5
  <2>2. ASSUME q[1] = 34, q[2] = 27, q[3] = 34 PROVE q = t
    <3>1. \A i \in 1 .. Len(q) : q[i] = t[i]
      BY <1>3, <1>5, <2>2
    <3>2. Len(q) = Len(t)
      BY <1>3, <1>5
    <3> QED
      BY <3>1, <3>2, SeqEqual
  <2> QED
    BY <2>1, <2>2
<1> QED
  BY <1>1, <1>3, <1>4, <1>5, <1>6

\* A REP that ends a mark with a START that was not put there already.
Marked(data, chr, replaced) ==
    /\ Len(data) >= 2
    /\ data[Len(data) - 1] = PACK_REP
    /\ data[Len(data)] = PACK_START
    /\ chr = PACK_REP
    /\ Len(data) - 1 # replaced

\* Type, length and elements after a byte is appended.
LEMMA AppendedEnd ==
    ASSUME NEW d \in Seq(Byte), NEW chr \in Byte
    PROVE  /\ Append(d, chr) \in Seq(Byte)
           /\ Len(d) \in Nat
           /\ Len(Append(d, chr)) = Len(d) + 1
           /\ \A i \in 1 .. Len(d) : Append(d, chr)[i] = d[i]
           /\ Append(d, chr)[Len(d) + 1] = chr
  BY AppendProperties

\* The appended byte ends a replacement exactly if it makes the data marked.
LEMMA MarkedEnd ==
    ASSUME NEW d \in Seq(Byte), NEW chr \in Byte, NEW replaced
    PROVE  EndsWithReplacement(Append(d, chr), replaced) <=> Marked(d, chr, replaced)
<1>1. PICK e \in Seq(Byte) : /\ e = Append(d, chr) /\ Len(d) \in Nat /\ Len(e) = Len(d) + 1
                             /\ \A i \in 1 .. Len(d) : e[i] = d[i]
                             /\ e[Len(d) + 1] = chr
  BY AppendedEnd
<1>2. CASE Len(e) >= 3
  <2>1. /\ Len(e) - 2 = Len(d) - 1 /\ Len(e) - 1 = Len(d)
        /\ Len(d) - 1 \in 1 .. Len(d) /\ Len(d) \in 1 .. Len(d) /\ Len(d) >= 2
    BY <1>1, <1>2
  <2>2. e[Len(e) - 2] = d[Len(d) - 1] /\ e[Len(e) - 1] = d[Len(d)] /\ e[Len(e)] = chr
    BY <1>1, <2>1
  <2> QED
    BY <1>1, <1>2, <2>1, <2>2, LastThree DEF EndsWithReplacement, Marked
<1>3. CASE ~(Len(e) >= 3)
  <2>1. ~(Len(d) >= 2)
    BY <1>1, <1>3
  <2> QED
    BY <1>1, <1>3, <2>1 DEF EndsWithReplacement, Marked
<1> QED
  BY <1>2, <1>3

\* The appended byte is a START of its own exactly if it is one and no REP comes before it.
LEMMA StartEnd ==
    ASSUME NEW d \in Seq(Byte), NEW chr \in Byte
    PROVE  EndsWithStart(Append(d, chr))
              <=> chr = PACK_START /\ (Len(d) = 0 \/ d[Len(d)] # PACK_REP)
<1>1. PICK e \in Seq(Byte) : /\ e = Append(d, chr) /\ Len(d) \in Nat /\ Len(e) = Len(d) + 1
                             /\ \A i \in 1 .. Len(d) : e[i] = d[i]
                             /\ e[Len(d) + 1] = chr
  BY AppendedEnd
<1>2. Len(e) > 0 /\ e[Len(e)] = chr /\ Len(e) - 1 = Len(d) /\ (Len(e) = 1 <=> Len(d) = 0)
  BY <1>1
<1>3. Len(d) # 0 => e[Len(e) - 1] = d[Len(d)]
  <2>1. Len(d) # 0 => Len(d) \in 1 .. Len(d)
    BY <1>1
  <2> QED
    BY <1>1, <1>2, <2>1
<1> QED
  BY <1>1, <1>2, <1>3 DEF EndsWithStart

\* A byte that ends no mark is appended.
LEMMA CheckedUnmarked ==
    ASSUME NEW d \in Seq(Byte), NEW chr \in Byte, NEW replaced \in Nat,
           ~Marked(d, chr, replaced)
    PROVE  LET c == Checked(Append(d, chr), replaced)
           IN  /\ c.data = Append(d, chr)
               /\ c.replaced = replaced
               /\ c.start = (chr = PACK_START /\ (Len(d) = 0 \/ d[Len(d)] # PACK_REP))
<1>1. ~EndsWithReplacement(Append(d, chr), replaced)
  BY MarkedEnd
<1>2. EndsWithStart(Append(d, chr))
         = (chr = PACK_START /\ (Len(d) = 0 \/ d[Len(d)] # PACK_REP))
  <2>1. EndsWithStart(Append(d, chr)) \in BOOLEAN
    BY DEF EndsWithStart
  <2> QED
    BY <2>1, StartEnd
<1>3. Checked(Append(d, chr), replaced) =
         [data |-> Append(d, chr), replaced |-> replaced,
          start |-> EndsWithStart(Append(d, chr))]
  BY <1>1 DEF Checked
<1> QED
  BY <1>2, <1>3

\* One that does turns the mark into the START it stands for.
LEMMA CheckedMarked ==
    ASSUME NEW d \in Seq(Byte), NEW chr \in Byte, NEW replaced \in Nat,
           Marked(d, chr, replaced)
    PROVE  LET c == Checked(Append(d, chr), replaced)
           IN  /\ c.data \in Seq(Byte)
               /\ Len(c.data) = Len(d) - 1
               /\ \A m \in 1 .. Len(d) - 2 : c.data[m] = d[m]
               /\ c.data[Len(d) - 1] = PACK_START
               /\ c.replaced = Len(d) - 2
               /\ c.start = FALSE
<1>1. PICK e \in Seq(Byte) : /\ e = Append(d, chr) /\ Len(d) \in Nat /\ Len(e) = Len(d) + 1
                             /\ \A i \in 1 .. Len(d) : e[i] = d[i]
  BY AppendedEnd
<1>2. PICK n \in Nat : n = Len(d) /\ n >= 2
  BY <1>1 DEF Marked
<1>3. \A i \in 1 .. n - 2 : i \in 1 .. Len(e) /\ i \in 1 .. Len(d) /\ e[i] \in Byte
  BY <1>1, <1>2
<1>4. PICK q \in Seq(Byte) : /\ q = SubSeq(e, 1, n - 2) /\ Len(q) = n - 2
                             /\ \A i \in 1 .. n - 2 : q[i] = e[i]
  <2>1. /\ SubSeq(e, 1, n - 2) \in Seq(Byte)
        /\ Len(SubSeq(e, 1, n - 2)) = IF 1 <= n - 2 THEN (n - 2) - 1 + 1 ELSE 0
        /\ \A i \in 1 .. (n - 2) - 1 + 1 : SubSeq(e, 1, n - 2)[i] = e[1 + i - 1]
    BY <1>2, <1>3, SubSeqProperties
  <2>2. (n - 2) - 1 + 1 = n - 2 /\ (~(1 <= n - 2) => n - 2 = 0)
    BY <1>2
  <2>3. \A i \in 1 .. n - 2 : 1 + i - 1 = i
    BY <1>2
  <2> QED
    BY <2>1, <2>2, <2>3
<1>5. PICK f \in Seq(Byte) : /\ f = Append(q, PACK_START) /\ Len(f) = Len(q) + 1
                             /\ \A i \in 1 .. Len(q) : f[i] = q[i]
                             /\ f[Len(q) + 1] = 27
  <2>1. 27 \in Byte
    BY DEF Byte
  <2> QED
    BY <2>1, AppendedEnd
<1>6. Len(e) - 3 = n - 2 /\ Len(q) + 1 = n - 1
  BY <1>1, <1>2, <1>4
<1>7. Checked(e, replaced) = [data |-> f, replaced |-> n - 2, start |-> FALSE]
  <2>1. EndsWithReplacement(e, replaced)
    BY <1>1, MarkedEnd
  <2> QED
    BY <2>1, <1>4, <1>5, <1>6 DEF Checked
<1>8. \A m \in 1 .. n - 2 : f[m] = d[m]
  BY <1>1, <1>3, <1>4, <1>5
<1> QED
  BY <1>1, <1>2, <1>4, <1>5, <1>6, <1>7, <1>8

\* What was read ends with a REP only if that was read last.
LEMMA CheckedType ==
    ASSUME NEW d \in Seq(Byte), NEW chr \in Byte, NEW replaced \in Nat
    PROVE  LET c == Checked(Append(d, chr), replaced)
           IN  /\ c.data \in Seq(Byte) /\ c.replaced \in Nat /\ c.start \in BOOLEAN
               /\ Len(c.data) \in 1 .. Len(d) + 1
               /\ c.data[Len(c.data)] = PACK_REP => chr = PACK_REP
               /\ c.start => chr = PACK_START
<1>1. CASE Marked(d, chr, replaced)
  <2>1. Len(d) \in Nat /\ Len(d) >= 2
    BY <1>1 DEF Marked
  <2>2. Len(d) - 2 \in Nat /\ Len(d) - 1 \in 1 .. Len(d) + 1
    BY <2>1
  <2> DEFINE c == Checked(Append(d, chr), replaced)
  <2>3. /\ c.data \in Seq(Byte)
        /\ Len(c.data) = Len(d) - 1
        /\ c.data[Len(d) - 1] = PACK_START
        /\ c.replaced = Len(d) - 2
        /\ c.start = FALSE
    BY <1>1, CheckedMarked
  <2>4. Len(c.data) \in 1 .. Len(d) + 1 /\ c.replaced \in Nat /\ c.start \in BOOLEAN
    BY <2>2, <2>3
  <2>5. c.data[Len(c.data)] # PACK_REP
    BY <2>3
  <2> QED
    BY <2>3, <2>4, <2>5
<1>2. CASE ~Marked(d, chr, replaced)
  <2>1. /\ Append(d, chr) \in Seq(Byte)
        /\ Len(Append(d, chr)) = Len(d) + 1 /\ Len(d) \in Nat
        /\ Append(d, chr)[Len(d) + 1] = chr
    BY AppendedEnd
  <2>2. Len(d) + 1 \in 1 .. Len(d) + 1
    BY <2>1
  <2> QED
    BY <1>2, <2>1, <2>2, CheckedUnmarked
<1> QED
  BY <1>1, <1>2

\* The last two bytes of two or more.
LEMMA LastTwoFacts ==
    ASSUME NEW d \in Seq(Byte), Len(d) >= 2
    PROVE  /\ LastTwo(d) \in Seq(Byte) /\ Len(LastTwo(d)) = 2
           /\ LastTwo(d)[1] = d[Len(d) - 1] /\ LastTwo(d)[2] = d[Len(d)]
<1>1. PICK n \in Nat : n = Len(d) /\ n >= 2
  OBVIOUS
<1>2. \A i \in n - 1 .. n : d[i] \in Byte
  BY <1>1
<1>3. /\ SubSeq(d, n - 1, n) \in Seq(Byte)
      /\ Len(SubSeq(d, n - 1, n)) = IF n - 1 <= n THEN n - (n - 1) + 1 ELSE 0
      /\ \A i \in 1 .. n - (n - 1) + 1 : SubSeq(d, n - 1, n)[i] = d[(n - 1) + i - 1]
  BY <1>1, <1>2, SubSeqProperties
<1>4. /\ n - (n - 1) + 1 = 2 /\ n - 1 <= n /\ 1 \in 1 .. 2 /\ 2 \in 1 .. 2
      /\ (n - 1) + 1 - 1 = n - 1 /\ (n - 1) + 2 - 1 = n
  BY <1>1
<1> QED
  BY <1>1, <1>3, <1>4 DEF LastTwo

-----------------------------------------------------------------------------
(* The invariant *)

\* What a START becomes.
Mark == <<PACK_REP, PACK_START, PACK_REP>>

\* The next byte of w, its package and its place in it; if there is none, what is sent next.
NextPack(w, s) == IF Len(w) = 0 THEN Len(s) + 1 ELSE w[1].pack
NextAt(w) == IF Len(w) = 0 THEN 1 ELSE w[1].at

\* b is a byte of a package of s.
Genuine(s, b) ==
    /\ b.pack \in 1 .. Len(s)
    /\ b.at \in 1 .. Len(Written[s[b.pack]])
    /\ b.byte = Written[s[b.pack]][b.at]

\* The last byte of its package that was written.
Final(s, sp, b) == \/ b.at = Len(Written[s[b.pack]])
                   \/ b.pack \in sp /\ b.at > 1

FollowedBy(s, sp, a, b) == \/ b.pack = a.pack /\ b.at = a.at + 1
                           \/ b.pack = a.pack + 1 /\ b.at = 1 /\ Final(s, sp, a)

\* The bytes w come from the packages s, of which those in sp are spoiled.
From(w, s, sp) ==
    /\ \A m \in 1 .. Len(w) : Genuine(s, w[m])
    /\ \A m \in 1 .. Len(w) - 1 : FollowedBy(s, sp, w[m], w[m + 1])
    /\ Len(w) > 0 => w[Len(w)].pack = Len(s) /\ Final(s, sp, w[Len(w)])

WireInv == From(wire, sent, spoiled)

\* The data hold the contents c behind `base` up to the j-th, and r bytes of a mark.
Holds(data, c, base, j, r) ==
    /\ Len(data) = j - base + r
    /\ \A m \in 1 .. j - base : data[m] = c[base + m]
    /\ \A m \in 1 .. r : data[j - base + m] = Mark[m]

\* The last replacement was made where a START is, at the end if that is one.
Sane(replaced, c, base, j, r) ==
    /\ replaced = 0 \/ (replaced < j - base /\ c[base + replaced + 1] = PACK_START)
    /\ r = 0 /\ j - base >= 2 /\ c[j] = PACK_START => replaced = j - base - 1

\* The receiver x is in the header of contents c.
InHeader(x, c, j, r) ==
    /\ x.state = "STATE_READ_HEADER"
    /\ Holds(x.data, c, 0, j, r)
    /\ j + r <= HeaderSize + 1
    /\ j = HeaderSize + 1 => c[j] # PACK_START

\* It is behind the header.
InPayload(x, c, j, r) ==
    /\ x.state = "STATE_READ_PAYLOAD"
    /\ x.header = SubSeq(c, 1, HeaderSize)
    /\ j >= HeaderSize
    /\ j - HeaderSize + r >= 1
    /\ Holds(x.data, c, HeaderSize, j, r)
    /\ Sane(x.patternReplaced, c, HeaderSize, j, r)

\* The k-th byte of package p is next and x has read all bytes before it.
Midway(x, gentle, p, k) ==
    LET c == Contents(p)
    IN  \E j \in 0 .. Len(c) - 1, r \in 0 .. 2 :
            /\ k = 2 + EscapedLen(c, j) + r
            /\ r < Len(Escaped(c[j + 1]))
            /\ \/ InHeader(x, c, j, r) /\ (gentle => Sane(x.patternReplaced, c, 0, j, r))
               \/ InPayload(x, c, j, r)

Unmarked(data) == \A m \in 1 .. Len(data) : data[m] \notin {PACK_START, PACK_REP}

\* The k-th byte of package p is next, but x has missed bytes behind the header.
Short(x, p, k) ==
    LET c == Contents(p)
    IN  /\ Plain(p)
        /\ x.patternReplaced = 0
        /\ Unmarked(x.data)
        /\ \/ /\ x.state = "STATE_READ_HEADER"
              /\ HeaderSize <= Len(x.data) /\ Len(x.data) < k - 2
              /\ \A m \in 1 .. HeaderSize : x.data[m] = c[m]
           \/ /\ x.state = "STATE_READ_PAYLOAD"
              /\ x.header = SubSeq(c, 1, HeaderSize)
              /\ Len(x.data) < k - 2 - HeaderSize

\* The data of x end with a REP only if chr is one.
EndsAs(x, chr) ==
    x.state # "STATE_START" /\ x.data # <<>> /\ x.data[Len(x.data)] = PACK_REP
       => chr = PACK_REP

\* What TypeOK leaves out.
DataInv ==
    /\ EndsAs(rx, before)
    /\ rx.state = "STATE_READ_PAYLOAD" =>
          /\ rx.header[1] \in {PACK_TYPE_DATA_PACKAGE, PACK_TYPE_REC_ACKNOWLEDGE}
          /\ Len(rx.data) >= 1

FollowInv ==
    LET i == NextPack(wire, sent)
        k == NextAt(wire)
    IN  k > 1 /\ i \notin spoiled /\ (mild \/ NoStartInHeader(sent[i]))
           => Midway(rx, mild, sent[i], k)

MildInv ==
    LET i == NextPack(wire, sent)
        k == NextAt(wire)
    IN  mild =>
            /\ \A s \in spoiled : s \in 1 .. Len(sent) /\ Plain(sent[s])
            /\ k = 1 => before # PACK_REP /\ (rx.state # "STATE_START" => rx.patternReplaced = 0)
            /\ k > 1 /\ Plain(sent[i]) => before # PACK_REP
            /\ k > 1 /\ i \in spoiled => Midway(rx, mild, sent[i], k) \/ Short(rx, sent[i], k)

AssembledInv ==
    /\ mild => \A i \in DOMAIN assembled : \E k \in DOMAIN sent : assembled[i] = Received(sent[k])
    /\ spoiled = {} => /\ mild
                       /\ Len(assembled) = NextPack(wire, sent) - 1
                       /\ \A m \in 1 .. Len(assembled) : assembled[m] = Received(sent[m])

-----------------------------------------------------------------------------
(* One more byte of what the data begin *)

\* Where reading one more byte leads.
NextJ(c, j, r) == IF r + 1 = Len(Escaped(c[j + 1])) THEN j + 1 ELSE j
NextR(c, j, r) == IF r + 1 = Len(Escaped(c[j + 1])) THEN 0 ELSE r + 1

\* A wrong position of the last replacement does no harm as long as there is none.
Harmless(c, base, j, r) == r <= 1 /\ (r = 0 /\ j > base => c[j] # PACK_START)

\* The three bytes of a mark.
LEMMA MarkElements == Mark[1] = PACK_REP /\ Mark[2] = PACK_START /\ Mark[3] = PACK_REP
<1>1. /\ <<34, 27, 34>>[1] = 34 /\ <<34, 27, 34>>[2] = 27 /\ <<34, 27, 34>>[3] = 34
  OBVIOUS
<1> QED
  BY <1>1, Zenon DEF Mark

\* One byte further the place is again one within the contents, or their end.
LEMMA NextPlace ==
    ASSUME NEW c \in Seq(Byte), NEW j \in 0 .. Len(c) - 1, NEW r \in 0 .. 2,
           r < Len(Escaped(c[j + 1]))
    PROVE  /\ NextJ(c, j, r) \in 0 .. Len(c) /\ NextR(c, j, r) \in 0 .. 2
           /\ EscapedLen(c, NextJ(c, j, r)) + NextR(c, j, r) = EscapedLen(c, j) + r + 1
           /\ NextJ(c, j, r) < Len(c) => NextR(c, j, r) < Len(Escaped(c[NextJ(c, j, r) + 1]))
           /\ NextJ(c, j, r) >= j
           /\ NextJ(c, j, r) = Len(c) => NextR(c, j, r) = 0
<1>1. /\ EscapedLen(c, j) \in Nat
      /\ EscapedLen(c, j + 1) = EscapedLen(c, j) + Len(Escaped(c[j + 1]))
  BY EscapedLenGrows
<1>2. Len(c) \in Nat /\ c[j + 1] \in Byte
  OBVIOUS
<1>3. PICK l \in {1, 3} : l = Len(Escaped(c[j + 1])) /\ r < l
  BY <1>2, EscapedByte
<1>4. CASE r + 1 = Len(Escaped(c[j + 1]))
  <2>1. NextJ(c, j, r) = j + 1 /\ NextR(c, j, r) = 0
    BY <1>4 DEF NextJ, NextR
  <2>2. j + 1 < Len(c) => 0 < Len(Escaped(c[(j + 1) + 1]))
    <3>1. j + 1 < Len(c) => c[(j + 1) + 1] \in Byte
      BY <1>2
    <3>2. ASSUME NEW b \in Byte PROVE 0 < Len(Escaped(b))
      <4>1. Len(Escaped(b)) = IF b = PACK_START THEN 3 ELSE 1
        BY EscapedByte
      <4> QED
        BY <4>1
    <3> QED
      BY <3>1, <3>2
  <2>3. EscapedLen(c, j + 1) + 0 = EscapedLen(c, j) + r + 1
    BY <1>1, <1>3, <1>4
  <2>4. j + 1 \in 0 .. Len(c) /\ 0 \in 0 .. 2 /\ j + 1 >= j
    BY <1>2
  <2> QED
    BY <2>1, <2>2, <2>3, <2>4, Zenon
<1>5. CASE r + 1 # Len(Escaped(c[j + 1]))
  <2>1. NextJ(c, j, r) = j /\ NextR(c, j, r) = r + 1
    BY <1>5 DEF NextJ, NextR
  <2>2. r + 1 < Len(Escaped(c[j + 1])) /\ r + 1 \in 0 .. 2
    <3>1. r + 1 # l
      BY <1>3, <1>5
    <3>2. r < l /\ (l = 1 \/ l = 3)
      BY <1>3
    <3>3. r + 1 < l /\ r + 1 \in 0 .. 2
      BY <3>1, <3>2
    <3> QED
      BY <1>3, <3>3, Zenon
  <2>3. EscapedLen(c, j) + (r + 1) = EscapedLen(c, j) + r + 1
    BY <1>1
  <2>4. j \in 0 .. Len(c) /\ j >= j /\ j # Len(c)
    BY <1>2
  <2> QED
    BY <2>1, <2>2, <2>3, <2>4, Zenon
<1> QED
  BY <1>4, <1>5

\* Nothing is replaced behind the last byte.
LEMMA NotMarkedAgain ==
    ASSUME NEW d \in Seq(Byte), NEW c \in Seq(Byte), NEW base \in Nat, NEW j \in Nat,
           base <= j, NEW chr \in Byte, NEW replaced \in Nat,
           Holds(d, c, base, j, 0),
           Sane(replaced, c, base, j, 0) \/ Harmless(c, base, j, 0)
    PROVE  ~Marked(d, chr, replaced)
<1> SUFFICES ASSUME Marked(d, chr, replaced) PROVE FALSE
  OBVIOUS
<1>1. PICK n \in Nat : n = Len(d) /\ n = j - base
  BY DEF Holds
<1>2. n >= 2 /\ d[n] = PACK_START /\ n - 1 # replaced
  BY <1>1 DEF Marked
<1>3. n \in 1 .. j - base /\ base + n = j
  BY <1>1, <1>2
<1>4. c[j] = PACK_START
  BY <1>2, <1>3 DEF Holds
<1> QED
  BY <1>1, <1>2, <1>4 DEF Sane, Harmless

\* A byte that is no START is the next of the contents.
LEMMA PlainByteRead ==
    ASSUME NEW d \in Seq(Byte), NEW c \in Seq(Byte), NEW base \in Nat, NEW j \in Nat,
           base <= j, NEW chr \in Byte, NEW replaced \in Nat,
           chr = c[j + 1], chr # PACK_START,
           Holds(d, c, base, j, 0),
           Sane(replaced, c, base, j, 0) \/ Harmless(c, base, j, 0)
    PROVE  LET cc == Checked(Append(d, chr), replaced)
           IN  /\ ~cc.start /\ cc.data \in Seq(Byte) /\ cc.replaced = replaced
               /\ Holds(cc.data, c, base, j + 1, 0)
<1>1. PICK n \in Nat : n = Len(d) /\ n = j - base
  BY DEF Holds
<1>2. PICK e \in Seq(Byte) : /\ e = Append(d, chr) /\ Len(e) = n + 1
                             /\ \A i \in 1 .. n : e[i] = d[i]
                             /\ e[n + 1] = chr
  <2>1. PICK e \in Seq(Byte) : /\ e = Append(d, chr) /\ Len(e) = Len(d) + 1
                               /\ \A i \in 1 .. Len(d) : e[i] = d[i]
                               /\ e[Len(d) + 1] = chr
    BY AppendedEnd
  <2> QED
    BY <1>1, <2>1
<1>3. ~Marked(d, chr, replaced)
  BY NotMarkedAgain
<1>4. \A m \in 1 .. j - base : d[m] = c[base + m]
  BY DEF Holds
<1>5. Holds(e, c, base, j + 1, 0)
  <2>1. Len(e) = (j + 1) - base + 0
    BY <1>1, <1>2
  <2>2. \A m \in 1 .. (j + 1) - base : e[m] = c[base + m]
    <3> SUFFICES ASSUME NEW m \in 1 .. (j + 1) - base PROVE e[m] = c[base + m]
      OBVIOUS
    <3>1. CASE m = n + 1
      <4>1. base + m = j + 1
        BY <1>1, <3>1
      <4> QED
        BY <1>2, <3>1, <4>1
    <3>2. CASE m # n + 1
      <4>1. m \in 1 .. n /\ m \in 1 .. j - base
        BY <1>1, <3>2
      <4> QED
        BY <1>2, <1>4, <4>1
    <3> QED
      BY <3>1, <3>2
  <2> QED
    BY <2>1, <2>2 DEF Holds
<1> QED
  BY <1>2, <1>3, <1>5, CheckedUnmarked

\* The first and the second byte of a mark are kept as they are.
LEMMA MarkByteRead ==
    ASSUME NEW d \in Seq(Byte), NEW c \in Seq(Byte), NEW base \in Nat, NEW j \in Nat,
           base <= j, NEW r \in 0 .. 1, NEW chr \in Byte, NEW replaced \in Nat,
           chr = Mark[r + 1],
           Holds(d, c, base, j, r),
           Sane(replaced, c, base, j, r) \/ Harmless(c, base, j, r)
    PROVE  LET cc == Checked(Append(d, chr), replaced)
           IN  /\ ~cc.start /\ cc.data \in Seq(Byte) /\ cc.replaced = replaced
               /\ Holds(cc.data, c, base, j, r + 1)
<1>1. PICK n \in Nat : n = Len(d) /\ n = j - base + r
  BY DEF Holds
<1>2. PICK e \in Seq(Byte) : /\ e = Append(d, chr) /\ Len(e) = n + 1
                             /\ \A i \in 1 .. n : e[i] = d[i]
                             /\ e[n + 1] = chr
  <2>1. PICK e \in Seq(Byte) : /\ e = Append(d, chr) /\ Len(e) = Len(d) + 1
                               /\ \A i \in 1 .. Len(d) : e[i] = d[i]
                               /\ e[Len(d) + 1] = chr
    BY AppendedEnd
  <2> QED
    BY <1>1, <2>1
<1>3. /\ \A m \in 1 .. j - base : d[m] = c[base + m]
      /\ \A m \in 1 .. r : d[j - base + m] = Mark[m]
  BY DEF Holds
<1>4. r = 1 => chr = PACK_START /\ d[n] = PACK_REP /\ n # 0
  <2>1. r = 1 => 1 \in 1 .. r /\ j - base + 1 = n /\ n # 0
    BY <1>1
  <2>2. r = 1 => r + 1 = 2
    OBVIOUS
  <2> QED
    BY <1>3, <2>1, <2>2, MarkElements
<1>5. r = 0 => chr = PACK_REP
  BY MarkElements
<1>6. ~Marked(d, chr, replaced)
  <2>1. CASE r = 0
    BY <2>1, NotMarkedAgain
  <2>2. CASE r = 1
    BY <1>4, <2>2 DEF Marked
  <2> QED
    BY <2>1, <2>2
<1>7. Holds(e, c, base, j, r + 1)
  <2>1. Len(e) = j - base + (r + 1)
    BY <1>1, <1>2
  <2>2. \A m \in 1 .. j - base : e[m] = c[base + m]
    <3>1. \A m \in 1 .. j - base : m \in 1 .. n
      BY <1>1
    <3> QED
      BY <1>2, <1>3, <3>1
  <2>3. \A m \in 1 .. r + 1 : e[j - base + m] = Mark[m]
    <3> SUFFICES ASSUME NEW m \in 1 .. r + 1 PROVE e[j - base + m] = Mark[m]
      OBVIOUS
    <3>1. CASE m = r + 1
      <4>1. j - base + m = n + 1
        BY <1>1, <3>1
      <4> QED
        BY <1>2, <3>1, <4>1
    <3>2. CASE m # r + 1
      <4>1. m \in 1 .. r /\ j - base + m \in 1 .. n
        BY <1>1, <3>2
      <4> QED
        BY <1>2, <1>3, <4>1
    <3> QED
      BY <3>1, <3>2
  <2> QED
    BY <2>1, <2>2, <2>3 DEF Holds
<1>8. chr = PACK_START /\ (Len(d) = 0 \/ d[Len(d)] # PACK_REP) <=> FALSE
  BY <1>1, <1>4, <1>5
<1>9. /\ Checked(Append(d, chr), replaced).data = e
      /\ Checked(Append(d, chr), replaced).replaced = replaced
      /\ ~Checked(Append(d, chr), replaced).start
  BY <1>2, <1>6, <1>8, CheckedUnmarked
<1> QED
  BY <1>7, <1>9

\* The third one ends it: the data hold the START again.
LEMMA MarkEndRead ==
    ASSUME NEW d \in Seq(Byte), NEW c \in Seq(Byte), NEW base \in Nat, NEW j \in Nat,
           base <= j, NEW replaced \in Nat,
           c[j + 1] = PACK_START,
           Holds(d, c, base, j, 2),
           replaced = 0 \/ replaced < j - base
    PROVE  LET cc == Checked(Append(d, PACK_REP), replaced)
           IN  /\ ~cc.start /\ cc.data \in Seq(Byte) /\ cc.replaced = j - base
               /\ Holds(cc.data, c, base, j + 1, 0)
<1>1. PICK n \in Nat : n = Len(d) /\ n = j - base + 2
  BY DEF Holds
<1>2. n >= 2 /\ n - 1 = j - base + 1 /\ n - 2 = j - base /\ n - 1 # replaced
  BY <1>1
<1>3. /\ \A m \in 1 .. j - base : d[m] = c[base + m]
      /\ \A m \in 1 .. 2 : d[j - base + m] = Mark[m]
  BY DEF Holds
<1>4. d[n - 1] = PACK_REP /\ d[n] = PACK_START
  <2>1. 1 \in 1 .. 2 /\ 2 \in 1 .. 2 /\ n = j - base + 2
    BY <1>1
  <2> QED
    BY <1>2, <1>3, <2>1, MarkElements
<1>5. Marked(d, PACK_REP, replaced)
  BY <1>1, <1>2, <1>4 DEF Marked
<1>6. PACK_REP \in Byte
  BY DEF Byte
<1> DEFINE cc == Checked(Append(d, PACK_REP), replaced)
<1>7. /\ cc.data \in Seq(Byte)
      /\ Len(cc.data) = n - 1
      /\ \A m \in 1 .. n - 2 : cc.data[m] = d[m]
      /\ cc.data[n - 1] = PACK_START
      /\ cc.replaced = n - 2
      /\ ~cc.start
  <2>1. /\ cc.data \in Seq(Byte)
        /\ Len(cc.data) = Len(d) - 1
        /\ \A m \in 1 .. Len(d) - 2 : cc.data[m] = d[m]
        /\ cc.data[Len(d) - 1] = PACK_START
        /\ cc.replaced = Len(d) - 2
        /\ ~cc.start
    BY <1>5, <1>6, CheckedMarked
  <2> QED
    BY <1>1, <2>1
<1> HIDE DEF cc
<1>8. Holds(cc.data, c, base, j + 1, 0)
  <2>1. Len(cc.data) = (j + 1) - base + 0
    BY <1>1, <1>7
  <2>2. \A m \in 1 .. (j + 1) - base : cc.data[m] = c[base + m]
    <3> SUFFICES ASSUME NEW m \in 1 .. (j + 1) - base PROVE cc.data[m] = c[base + m]
      OBVIOUS
    <3>1. CASE m = n - 1
      <4>1. base + m = j + 1
        BY <1>1, <3>1
      <4> QED
        BY <1>7, <3>1, <4>1
    <3>2. CASE m # n - 1
      <4>1. m \in 1 .. n - 2 /\ m \in 1 .. j - base
        BY <1>1, <3>2
      <4> QED
        BY <1>3, <1>7, <4>1
    <3> QED
      BY <3>1, <3>2
  <2> QED
    BY <2>1, <2>2 DEF Holds
<1>9. cc.replaced = j - base
  BY <1>2, <1>7
<1> QED
  BY <1>7, <1>8, <1>9 DEF cc

\* What the next byte of a package adds to the data.
LEMMA PrefixStep ==
    ASSUME NEW d \in Seq(Byte), NEW c \in Seq(Byte), NEW base \in Nat,
           NEW j \in 0 .. Len(c) - 1, NEW r \in 0 .. 2, NEW replaced \in Nat,
           base <= j, r < Len(Escaped(c[j + 1])),
           Holds(d, c, base, j, r),
           Sane(replaced, c, base, j, r) \/ Harmless(c, base, j, r)
    PROVE  LET cc == Checked(Append(d, Escaped(c[j + 1])[r + 1]), replaced)
           IN  /\ ~cc.start
               /\ cc.data \in Seq(Byte)
               /\ cc.replaced \in Nat
               /\ Holds(cc.data, c, base, NextJ(c, j, r), NextR(c, j, r))
               /\ Sane(replaced, c, base, j, r) =>
                     Sane(cc.replaced, c, base, NextJ(c, j, r), NextR(c, j, r))
<1>1. PICK b \in Byte : b = c[j + 1]
  OBVIOUS
<1>2. /\ Len(Escaped(b)) = IF b = PACK_START THEN 3 ELSE 1
      /\ b # PACK_START => Escaped(b)[1] = b
      /\ b = PACK_START => /\ Escaped(b)[1] = Mark[1]
                           /\ Escaped(b)[2] = Mark[2]
                           /\ Escaped(b)[3] = PACK_REP
  BY EscapedByte, MarkElements
<1>3. j \in Nat
  OBVIOUS
<1>4. CASE b # PACK_START
  <2>1. r = 0 /\ r + 1 = 1
    BY <1>1, <1>2, <1>4
  <2>2. Escaped(c[j + 1])[r + 1] = b
    BY <1>1, <1>2, <1>4, <2>1
  <2>3. NextJ(c, j, r) = j + 1 /\ NextR(c, j, r) = 0
    BY <1>1, <1>2, <1>4, <2>1 DEF NextJ, NextR
  <2> DEFINE cc == Checked(Append(d, b), replaced)
  <2>4. /\ ~cc.start /\ cc.data \in Seq(Byte) /\ cc.replaced = replaced
        /\ Holds(cc.data, c, base, j + 1, 0)
    <3>1. Holds(d, c, base, j, 0) /\ (Sane(replaced, c, base, j, 0) \/ Harmless(c, base, j, 0))
      BY <2>1
    <3> QED
      BY <1>1, <1>3, <1>4, <3>1, PlainByteRead
  <2>5. Sane(replaced, c, base, j, r) => Sane(replaced, c, base, j + 1, 0)
    BY <1>1, <1>3, <1>4 DEF Sane
  <2> HIDE DEF cc
  <2>6. /\ ~cc.start /\ cc.data \in Seq(Byte) /\ cc.replaced \in Nat
        /\ Holds(cc.data, c, base, NextJ(c, j, r), NextR(c, j, r))
        /\ Sane(replaced, c, base, j, r) =>
              Sane(cc.replaced, c, base, NextJ(c, j, r), NextR(c, j, r))
    BY <2>3, <2>4, <2>5
  <2> QED
    BY <2>2, <2>6 DEF cc
<1>5. CASE b = PACK_START /\ r # 2
  <2>1. r \in 0 .. 1 /\ r + 1 # Len(Escaped(b))
    BY <1>2, <1>5
  <2>2. PICK chr \in Byte : chr = Mark[r + 1]
    <3>1. PACK_REP \in Byte /\ PACK_START \in Byte
      BY DEF Byte
    <3> QED
      BY <2>1, <3>1, MarkElements
  <2>3. Escaped(c[j + 1])[r + 1] = chr
    BY <1>1, <1>2, <1>5, <2>1, <2>2
  <2>4. NextJ(c, j, r) = j /\ NextR(c, j, r) = r + 1
    BY <1>1, <2>1 DEF NextJ, NextR
  <2> DEFINE cc == Checked(Append(d, chr), replaced)
  <2>5. /\ ~cc.start /\ cc.data \in Seq(Byte) /\ cc.replaced = replaced
        /\ Holds(cc.data, c, base, j, r + 1)
    <3>1. r \in 0 .. 1 /\ chr = Mark[r + 1]
      BY <2>1, <2>2
    <3> QED
      BY <1>3, <3>1, MarkByteRead
  <2>6. Sane(replaced, c, base, j, r) => Sane(replaced, c, base, j, r + 1)
    BY <1>3, <2>1 DEF Sane
  <2> HIDE DEF cc
  <2>7. /\ ~cc.start /\ cc.data \in Seq(Byte) /\ cc.replaced \in Nat
        /\ Holds(cc.data, c, base, NextJ(c, j, r), NextR(c, j, r))
        /\ Sane(replaced, c, base, j, r) =>
              Sane(cc.replaced, c, base, NextJ(c, j, r), NextR(c, j, r))
    BY <2>4, <2>5, <2>6
  <2> QED
    BY <2>3, <2>7 DEF cc
<1>6. CASE b = PACK_START /\ r = 2
  <2>1. Escaped(c[j + 1])[r + 1] = PACK_REP
    BY <1>1, <1>2, <1>6
  <2>2. NextJ(c, j, r) = j + 1 /\ NextR(c, j, r) = 0
    BY <1>1, <1>2, <1>6 DEF NextJ, NextR
  <2>3. Sane(replaced, c, base, j, r) /\ (replaced = 0 \/ replaced < j - base)
    BY <1>6 DEF Harmless, Sane
  <2> DEFINE cc == Checked(Append(d, PACK_REP), replaced)
  <2>4. /\ ~cc.start /\ cc.data \in Seq(Byte) /\ cc.replaced = j - base
        /\ Holds(cc.data, c, base, j + 1, 0)
    BY <1>1, <1>3, <1>6, <2>3, MarkEndRead
  <2>5. Sane(j - base, c, base, j + 1, 0)
    <3>1. j - base < (j + 1) - base /\ base + (j - base) + 1 = j + 1
          /\ j - base = (j + 1) - base - 1
      BY <1>3
    <3> QED
      BY <1>1, <1>6, <3>1 DEF Sane
  <2>6. j - base \in Nat
    BY <1>3
  <2> HIDE DEF cc
  <2>7. /\ ~cc.start /\ cc.data \in Seq(Byte) /\ cc.replaced \in Nat
        /\ Holds(cc.data, c, base, NextJ(c, j, r), NextR(c, j, r))
        /\ Sane(replaced, c, base, j, r) =>
              Sane(cc.replaced, c, base, NextJ(c, j, r), NextR(c, j, r))
    BY <2>2, <2>4, <2>5, <2>6
  <2> QED
    BY <2>1, <2>7 DEF cc
<1> QED
  BY <1>4, <1>5, <1>6

-----------------------------------------------------------------------------
(* Type correctness of the receiver *)

RxOK(x) ==
    /\ x \in [state : ReceiverStates, data : Seq(Byte), patternReplaced : Nat,
              header : Seq(Byte)]
    /\ x.state = "STATE_START" => Len(x.data) \in {0, 2}
    /\ x.state = "STATE_READ_HEADER" => Len(x.data) < HeaderSize + 2
    /\ x.state = "STATE_READ_PAYLOAD" =>
          /\ Len(x.header) = HeaderSize
          /\ x.header[3] <= MaxPayload
          /\ Len(x.data) < x.header[3] + 4
          /\ x.header[1] \in {PACK_TYPE_DATA_PACKAGE, PACK_TYPE_REC_ACKNOWLEDGE}
          /\ Len(x.data) >= 1

\* What reading chr makes of the receiver.
After(chr) == CASE rx.state = "STATE_START" -> AfterStart(chr)
                [] rx.state = "STATE_READ_HEADER" -> AfterHeader(chr)
                [] rx.state = "STATE_READ_PAYLOAD" -> AfterPayload(chr)

\* A byte is a natural number.
LEMMA ByteIsNat == \A b \in Byte : b \in Nat
  BY DEF Byte

\* The fields of a receiver state put together.
LEMMA InFields ==
    ASSUME NEW s, NEW d, NEW r, NEW h
    PROVE  /\ In(s, d, r, h).state = s /\ In(s, d, r, h).data = d
           /\ In(s, d, r, h).patternReplaced = r /\ In(s, d, r, h).header = h
  BY DEF In

\* In STATE_READ_HEADER it is well-formed with less than six bytes.
LEMMA InHeaderOK ==
    ASSUME NEW d \in Seq(Byte), NEW r \in Nat, NEW h \in Seq(Byte), Len(d) < HeaderSize + 2
    PROVE  RxOK(In("STATE_READ_HEADER", d, r, h))
  BY InFields DEF RxOK, In, ReceiverStates

\* In STATE_START it is well-formed with none or the last two bytes.
LEMMA InStartOK ==
    ASSUME NEW d \in Seq(Byte), NEW r \in Nat, NEW h \in Seq(Byte), Len(d) \in {0, 2}
    PROVE  RxOK(In("STATE_START", d, r, h))
  BY InFields DEF RxOK, In, ReceiverStates

\* In STATE_READ_PAYLOAD it is well-formed with a valid header and less bytes than the
\* package has.
LEMMA InPayloadOK ==
    ASSUME NEW d \in Seq(Byte), NEW r \in Nat, NEW h \in Seq(Byte),
           Len(h) = HeaderSize, h[3] <= MaxPayload, Len(d) < h[3] + 4, Len(d) >= 1,
           h[1] \in {PACK_TYPE_DATA_PACKAGE, PACK_TYPE_REC_ACKNOWLEDGE}
    PROVE  RxOK(In("STATE_READ_PAYLOAD", d, r, h))
  BY InFields DEF RxOK, In, ReceiverStates

\* The types of the receiver's fields.
LEMMA RxFields ==
    ASSUME RxOK(rx)
    PROVE  /\ rx.state \in ReceiverStates /\ rx.data \in Seq(Byte)
           /\ rx.patternReplaced \in Nat /\ rx.header \in Seq(Byte)
  BY DEF RxOK

\* The empty sequence holds no bytes.
LEMMA NoBytes == <<>> \in Seq(Byte) /\ Len(<<>>) = 0
  OBVIOUS

\* Reading a byte in STATE_START leaves the receiver well-formed.
LEMMA AfterStartType ==
    ASSUME RxOK(rx), rx.state = "STATE_START", NEW chr \in Byte
    PROVE  RxOK(AfterStart(chr)) /\ EndsAs(AfterStart(chr), chr)
<1>1. /\ rx.data \in Seq(Byte) /\ Len(rx.data) \in {0, 2} /\ rx.header \in Seq(Byte)
      /\ rx.patternReplaced \in Nat
  BY DEF RxOK
<1>2. ASSUME NEW s \in {"STATE_START", "STATE_READ_HEADER"}, NEW r \in Nat
      PROVE  RxOK(In(s, <<>>, r, rx.header)) /\ EndsAs(In(s, <<>>, r, rx.header), chr)
  <2>1. RxOK(In(s, <<>>, r, rx.header))
    <3>1. Len(<<>>) \in {0, 2} /\ Len(<<>>) < HeaderSize + 2 /\ <<>> \in Seq(Byte)
      BY NoBytes
    <3> QED
      BY <1>1, <1>2, <3>1, InStartOK, InHeaderOK
  <2> QED
    BY <2>1, InFields DEF EndsAs
<1>3. CASE chr = PACK_START
  BY <1>2, <1>3 DEF AfterStart
<1>4. CASE chr # PACK_START /\ ~\E i \in DOMAIN rx.data : rx.data[i] = PACK_START
  BY <1>1, <1>2, <1>4 DEF AfterStart
<1>5. CASE chr # PACK_START /\ \E i \in DOMAIN rx.data : rx.data[i] = PACK_START
  <2>1. rx.data[2] \in Byte
    <3>1. PICK i \in DOMAIN rx.data : rx.data[i] = PACK_START
      BY <1>5
    <3>2. Len(rx.data) = 2
      BY <1>1, <3>1
    <3> QED
      BY <1>1, <3>2
  <2>2. PICK d \in Seq(Byte) : Leftover(chr) = Append(d, chr) /\ Len(d) \in {0, 1}
    <3>1. CASE rx.data[2] = PACK_START
      <4>1. <<chr>> = Append(<<>>, chr)
        OBVIOUS
      <4> QED
        BY <3>1, <4>1, NoBytes DEF Leftover
    <3>2. CASE rx.data[2] # PACK_START
      <4>1. PICK x \in Byte : x = rx.data[2]
        BY <2>1
      <4>2. <<x, chr>> = Append(<<x>>, chr) /\ <<x>> \in Seq(Byte) /\ Len(<<x>>) = 1
        OBVIOUS
      <4> QED
        BY <3>2, <4>1, <4>2 DEF Leftover
    <3> QED
      BY <3>1, <3>2
  <2> DEFINE c == Checked(Leftover(chr), 0)
  <2>3. /\ c.data \in Seq(Byte) /\ c.replaced \in Nat /\ c.start \in BOOLEAN
        /\ Len(c.data) \in 1 .. Len(d) + 1
        /\ c.data[Len(c.data)] = PACK_REP => chr = PACK_REP
    <3>1. 0 \in Nat
      OBVIOUS
    <3>2. LET cc == Checked(Append(d, chr), 0)
          IN  /\ cc.data \in Seq(Byte) /\ cc.replaced \in Nat /\ cc.start \in BOOLEAN
              /\ Len(cc.data) \in 1 .. Len(d) + 1
              /\ cc.data[Len(cc.data)] = PACK_REP => chr = PACK_REP
      BY <3>1, CheckedType
    <3> QED
      BY <2>2, <3>2
  <2>4. AfterStart(chr) = In("STATE_READ_HEADER", Restarted(c), c.replaced, rx.header)
    BY <1>5 DEF AfterStart
  <2> HIDE DEF c
  <2>5. CASE c.start
    <3>1. Restarted(c) = <<>>
      BY <2>5 DEF Restarted
    <3> QED
      BY <1>2, <2>3, <2>4, <3>1
  <2>6. CASE ~c.start
    <3>1. Restarted(c) = c.data
      BY <2>6 DEF Restarted
    <3>2. Len(c.data) < HeaderSize + 2
      BY <2>2, <2>3
    <3>3. RxOK(In("STATE_READ_HEADER", c.data, c.replaced, rx.header))
      BY <1>1, <2>3, <3>2, InHeaderOK
    <3>4. EndsAs(In("STATE_READ_HEADER", c.data, c.replaced, rx.header), chr)
      BY <2>3, InFields DEF EndsAs
    <3> QED
      BY <2>4, <3>1, <3>3, <3>4
  <2> QED
    BY <2>5, <2>6
<1> QED
  BY <1>3, <1>4, <1>5

\* A header and the two bytes behind it.
LEMMA HeaderAndTwo ==
    ASSUME NEW d \in Seq(Byte), Len(d) = 6
    PROVE  /\ SubSeq(d, 1, HeaderSize) \in Seq(Byte)
           /\ Len(SubSeq(d, 1, HeaderSize)) = HeaderSize
           /\ \A i \in 1 .. 4 : SubSeq(d, 1, HeaderSize)[i] = d[i]
           /\ SubSeq(d, 1, HeaderSize)[3] \in Nat
           /\ LastTwo(d) \in Seq(Byte) /\ Len(LastTwo(d)) = 2
           /\ LastTwo(d)[1] = d[5] /\ LastTwo(d)[2] = d[6]
<1>1. \A i \in 1 .. 4 : d[i] \in Byte
  OBVIOUS
<1>2. /\ SubSeq(d, 1, 4) \in Seq(Byte)
      /\ Len(SubSeq(d, 1, 4)) = IF 1 <= 4 THEN 4 - 1 + 1 ELSE 0
      /\ \A i \in 1 .. 4 - 1 + 1 : SubSeq(d, 1, 4)[i] = d[1 + i - 1]
  BY <1>1, SubSeqProperties
<1>3. 4 - 1 + 1 = 4 /\ 1 <= 4 /\ \A i \in 1 .. 4 : 1 + i - 1 = i
  OBVIOUS
<1>4. /\ Len(SubSeq(d, 1, 4)) = 4
      /\ \A i \in 1 .. 4 : SubSeq(d, 1, 4)[i] = d[i]
  BY <1>2, <1>3
<1>5. 3 \in 1 .. 4 /\ d[3] \in Nat
  BY <1>1, ByteIsNat
<1>6. Len(d) - 1 = 5 /\ Len(d) >= 2
  OBVIOUS
<1>7. /\ LastTwo(d) \in Seq(Byte) /\ Len(LastTwo(d)) = 2
      /\ LastTwo(d)[1] = d[5] /\ LastTwo(d)[2] = d[6]
  BY <1>6, LastTwoFacts
<1> QED
  BY <1>2, <1>4, <1>5, <1>7

\* So does reading one in STATE_READ_HEADER.
LEMMA AfterHeaderType ==
    ASSUME RxOK(rx), rx.state = "STATE_READ_HEADER", NEW chr \in Byte
    PROVE  RxOK(AfterHeader(chr)) /\ EndsAs(AfterHeader(chr), chr)
<1>1. /\ rx.data \in Seq(Byte) /\ Len(rx.data) < HeaderSize + 2 /\ rx.header \in Seq(Byte)
      /\ rx.patternReplaced \in Nat
  BY DEF RxOK
<1> DEFINE c == Checked(Append(rx.data, chr), rx.patternReplaced)
<1>2. /\ c.data \in Seq(Byte) /\ c.replaced \in Nat /\ c.start \in BOOLEAN
      /\ Len(c.data) \in 1 .. Len(rx.data) + 1
      /\ c.data[Len(c.data)] = PACK_REP => chr = PACK_REP
  BY <1>1, CheckedType
<1>3. AfterHeader(chr) =
        LET data == Restarted(c)
            header == SubSeq(data, 1, HeaderSize)
        IN  IF Len(data) < HeaderSize + 2
            THEN In("STATE_READ_HEADER", data, c.replaced, rx.header)
            ELSE IF EndsWithStart(LastTwo(data))
            THEN In("STATE_READ_HEADER", <<>>, 0, header)
            ELSE IF ValidHeader(header)
            THEN In("STATE_READ_PAYLOAD", LastTwo(data), 0, header)
            ELSE In("STATE_START", <<>>, 0, header)
  BY DEF AfterHeader
<1> HIDE DEF c
<1>4. PICK d \in Seq(Byte) :
        /\ d = Restarted(c) /\ Len(d) <= HeaderSize + 2
        /\ Len(d) = 0 \/ d[Len(d)] # PACK_REP \/ chr = PACK_REP
  <2>1. CASE c.start
    <3>1. Restarted(c) = <<>>
      BY <2>1 DEF Restarted
    <3>2. Len(<<>>) <= HeaderSize + 2
      BY NoBytes
    <3> QED
      BY <3>1, <3>2, NoBytes
  <2>2. CASE ~c.start
    <3>1. Restarted(c) = c.data
      BY <2>2 DEF Restarted
    <3>2. PICK n \in Nat : n = Len(rx.data) /\ n < 6
      BY <1>1
    <3>3. Len(c.data) <= HeaderSize + 2 /\ Len(c.data) >= 1
      BY <1>2, <3>2
    <3> QED
      BY <1>2, <3>1, <3>3
  <2> QED
    BY <2>1, <2>2
<1>5. CASE Len(d) < HeaderSize + 2
  <2>1. RxOK(In("STATE_READ_HEADER", d, c.replaced, rx.header))
    BY <1>1, <1>2, <1>4, <1>5, InHeaderOK
  <2>2. EndsAs(In("STATE_READ_HEADER", d, c.replaced, rx.header), chr)
    <3>1. d # <<>> => Len(d) # 0
      BY NoBytes
    <3> QED
      BY <1>4, <3>1, InFields DEF EndsAs
  <2> QED
    BY <1>3, <1>4, <1>5, <2>1, <2>2
<1>6. CASE ~(Len(d) < HeaderSize + 2)
  <2>1. Len(d) = 6
    <3>1. PICK n \in Nat : n = Len(d)
      OBVIOUS
    <3> QED
      BY <1>4, <1>6, <3>1
  <2>2. PICK h \in Seq(Byte) : /\ h = SubSeq(d, 1, HeaderSize) /\ Len(h) = HeaderSize
                               /\ h[3] \in Nat
    BY <2>1, HeaderAndTwo
  <2>3. /\ LastTwo(d) \in Seq(Byte) /\ Len(LastTwo(d)) = 2
        /\ LastTwo(d)[2] = d[Len(d)]
    BY <2>1, HeaderAndTwo
  <2>4. CASE EndsWithStart(LastTwo(d))
    <3>1. RxOK(In("STATE_READ_HEADER", <<>>, 0, h))
      <4>1. <<>> \in Seq(Byte) /\ Len(<<>>) < HeaderSize + 2 /\ 0 \in Nat
        BY NoBytes
      <4> QED
        BY <2>2, <4>1, InHeaderOK
    <3>2. EndsAs(In("STATE_READ_HEADER", <<>>, 0, h), chr)
      BY InFields DEF EndsAs
    <3> QED
      BY <1>3, <1>4, <1>6, <2>2, <2>4, <3>1, <3>2
  <2>5. CASE ~EndsWithStart(LastTwo(d)) /\ ValidHeader(h)
    <3>3. 2 < h[3] + 4 /\ 2 >= 1
      BY <2>2
    <3>4. RxOK(In("STATE_READ_PAYLOAD", LastTwo(d), 0, h))
      <4>1. /\ Len(LastTwo(d)) < h[3] + 4 /\ Len(LastTwo(d)) >= 1
            /\ h[1] \in {PACK_TYPE_DATA_PACKAGE, PACK_TYPE_REC_ACKNOWLEDGE}
            /\ h[3] <= MaxPayload /\ LastTwo(d) \in Seq(Byte) /\ 0 \in Nat
        BY <2>3, <2>5, <3>3 DEF ValidHeader
      <4> QED
        BY <2>2, <4>1, InPayloadOK
    <3>5. EndsAs(In("STATE_READ_PAYLOAD", LastTwo(d), 0, h), chr)
      <4>1. PICK e \in Seq(Byte) : e = LastTwo(d) /\ e[Len(e)] = d[Len(d)]
        BY <2>3
      <4>2. e[Len(e)] = PACK_REP => chr = PACK_REP
        BY <1>4, <2>1, <4>1
      <4>3. EndsAs(In("STATE_READ_PAYLOAD", e, 0, h), chr)
        BY <4>2, InFields DEF EndsAs
      <4> QED
        BY <4>1, <4>3
    <3> QED
      BY <1>3, <1>4, <1>6, <2>2, <2>5, <3>4, <3>5
  <2>6. CASE ~EndsWithStart(LastTwo(d)) /\ ~ValidHeader(h)
    <3>1. RxOK(In("STATE_START", <<>>, 0, h))
      BY <2>2, NoBytes, InStartOK
    <3>2. EndsAs(In("STATE_START", <<>>, 0, h), chr)
      BY InFields DEF EndsAs
    <3> QED
      BY <1>3, <1>4, <1>6, <2>2, <2>6, <3>1, <3>2
  <2> QED
    BY <2>4, <2>5, <2>6
<1> QED
  BY <1>5, <1>6

\* What reading a byte of the payload makes of the data.
LEMMA PayloadReadType ==
    ASSUME RxOK(rx), rx.state = "STATE_READ_PAYLOAD", NEW chr \in Byte
    PROVE  LET c == PayloadRead(chr)
           IN  /\ c.data \in Seq(Byte) /\ c.replaced \in Nat /\ c.start \in BOOLEAN
               /\ Len(c.data) \in Nat /\ Len(c.data) >= 1
               /\ c.data[Len(c.data)] = PACK_REP => chr = PACK_REP
<1>1. rx.data \in Seq(Byte) /\ rx.patternReplaced \in Nat
  BY DEF RxOK
<1> DEFINE c == Checked(Append(rx.data, chr), rx.patternReplaced)
<1>2. /\ c.data \in Seq(Byte) /\ c.replaced \in Nat /\ c.start \in BOOLEAN
      /\ Len(c.data) \in 1 .. Len(rx.data) + 1
      /\ c.data[Len(c.data)] = PACK_REP => chr = PACK_REP
  BY <1>1, CheckedType
<1>3. PayloadRead(chr) = c
  BY DEF PayloadRead
<1> HIDE DEF c
<1>4. Len(c.data) \in Nat /\ Len(c.data) >= 1
  BY <1>2
<1> QED
  BY <1>2, <1>3, <1>4

\* Reading a byte in STATE_READ_PAYLOAD leaves the receiver well-formed.
LEMMA AfterPayloadType ==
    ASSUME RxOK(rx), rx.state = "STATE_READ_PAYLOAD", NEW chr \in Byte
    PROVE  RxOK(AfterPayload(chr)) /\ EndsAs(AfterPayload(chr), chr)
<1>1. /\ rx.data \in Seq(Byte) /\ rx.header \in Seq(Byte) /\ rx.patternReplaced \in Nat
      /\ Len(rx.header) = HeaderSize
      /\ rx.header[3] <= MaxPayload
      /\ rx.header[1] \in {PACK_TYPE_DATA_PACKAGE, PACK_TYPE_REC_ACKNOWLEDGE}
  BY DEF RxOK
<1>2. rx.header[3] \in Nat
  <2>1. rx.header[3] \in Byte
    BY <1>1
  <2> QED
    BY <2>1 DEF Byte
<1> DEFINE c == PayloadRead(chr)
<1>3. /\ c.data \in Seq(Byte) /\ c.replaced \in Nat /\ c.start \in BOOLEAN
      /\ Len(c.data) \in Nat /\ Len(c.data) >= 1
      /\ c.data[Len(c.data)] = PACK_REP => chr = PACK_REP
  BY PayloadReadType
<1>4. AfterPayload(chr) =
        IF PackageComplete(c)
        THEN In("STATE_START", LastTwo(c.data), 0, rx.header)
        ELSE IF c.start
        THEN In("STATE_READ_HEADER", <<>>, c.replaced, rx.header)
        ELSE In("STATE_READ_PAYLOAD", c.data, c.replaced, rx.header)
  BY DEF AfterPayload
<1> HIDE DEF c
<1>5. CASE PackageComplete(c)
  <2>1. Len(c.data) >= 2
    BY <1>2, <1>3, <1>5 DEF PackageComplete
  <2>2. LastTwo(c.data) \in Seq(Byte) /\ Len(LastTwo(c.data)) = 2
    BY <1>3, <2>1, LastTwoFacts
  <2>3. RxOK(In("STATE_START", LastTwo(c.data), 0, rx.header))
    BY <1>1, <2>2, InStartOK
  <2>4. EndsAs(In("STATE_START", LastTwo(c.data), 0, rx.header), chr)
    BY InFields DEF EndsAs
  <2> QED
    BY <1>4, <1>5, <2>3, <2>4
<1>6. CASE ~PackageComplete(c) /\ c.start
  <2>1. RxOK(In("STATE_READ_HEADER", <<>>, c.replaced, rx.header))
    <3>1. <<>> \in Seq(Byte) /\ Len(<<>>) < HeaderSize + 2
      BY NoBytes
    <3> QED
      BY <1>1, <1>3, <3>1, InHeaderOK
  <2>2. EndsAs(In("STATE_READ_HEADER", <<>>, c.replaced, rx.header), chr)
    BY InFields DEF EndsAs
  <2> QED
    BY <1>4, <1>6, <2>1, <2>2
<1>7. CASE ~PackageComplete(c) /\ ~c.start
  <2>1. Len(c.data) < rx.header[3] + 4
    BY <1>2, <1>3, <1>7 DEF PackageComplete
  <2>2. RxOK(In("STATE_READ_PAYLOAD", c.data, c.replaced, rx.header))
    BY <1>1, <1>3, <2>1, InPayloadOK
  <2>3. EndsAs(In("STATE_READ_PAYLOAD", c.data, c.replaced, rx.header), chr)
    BY <1>3, InFields DEF EndsAs
  <2> QED
    BY <1>4, <1>7, <2>2, <2>3
<1> QED
  BY <1>5, <1>6, <1>7

\* The state decides what is done with a byte.
LEMMA AfterIs ==
    ASSUME NEW chr
    PROVE  /\ rx.state = "STATE_START" => After(chr) = AfterStart(chr)
           /\ rx.state = "STATE_READ_HEADER" => After(chr) = AfterHeader(chr)
           /\ rx.state = "STATE_READ_PAYLOAD" => After(chr) = AfterPayload(chr)
  BY DEF After

\* Reading a byte leaves the receiver well-formed, in whatever state it is.
LEMMA AfterType ==
    ASSUME RxOK(rx), NEW chr \in Byte
    PROVE  RxOK(After(chr)) /\ EndsAs(After(chr), chr)
<1>1. rx.state \in {"STATE_START", "STATE_READ_HEADER", "STATE_READ_PAYLOAD"}
  BY DEF RxOK, ReceiverStates
<1> QED
  BY <1>1, AfterIs, AfterStartType, AfterHeaderType, AfterPayloadType

\* What is taken from the data of a complete package is a package.
LEMMA TakenType ==
    ASSUME RxOK(rx), rx.state = "STATE_READ_PAYLOAD", NEW chr \in Byte,
           PackageComplete(PayloadRead(chr))
    PROVE  TakenFrom(PayloadRead(chr)) \in Package
<1>1. PICK h \in Seq(Byte) : /\ h = rx.header /\ Len(h) = HeaderSize
                             /\ h[1] \in {PACK_TYPE_DATA_PACKAGE, PACK_TYPE_REC_ACKNOWLEDGE}
  BY DEF RxOK
<1>2. h[2] \in Byte /\ h[4] \in Byte /\ h[3] \in Nat
  <2>1. h[2] \in Byte /\ h[4] \in Byte /\ h[3] \in Byte
    BY <1>1
  <2> QED
    BY <2>1, ByteIsNat
<1>3. PICK e \in Seq(Byte) : e = PayloadRead(chr).data
  BY PayloadReadType
<1>4. Len(e) >= h[3] + 4
  BY <1>1, <1>3 DEF PackageComplete
<1>5. ASSUME NEW s \in Seq(Byte), NEW m \in Nat, NEW n \in Nat, 1 <= m, n <= Len(s)
      PROVE  SubSeq(s, m, n) \in Seq(Byte)
  <2>1. \A i \in m .. n : s[i] \in Byte
    BY <1>5
  <2> QED
    BY <2>1, SubSeqProperties
<1> DEFINE payload == SubSeq(e, 1, h[3])
<1>6. payload \in Seq(Byte)
  BY <1>2, <1>4, <1>5
<1>7. SubSeq(e, h[3] + 1, h[3] + 2) \in Seq(Byte)
  BY <1>2, <1>4, <1>5
<1> HIDE DEF payload
<1>8. Number(h[1], <<h[2]>>, payload) \in Seq(Byte)
  <2>1. <<h[2]>> \in Seq(Byte) /\ <<>> \in Seq(Byte)
    BY <1>2
  <2>2. Len(payload) >= 4 => SubSeq(payload, Len(payload) - 3, Len(payload)) \in Seq(Byte)
    <3>1. PICK n \in Nat : n = Len(payload)
      BY <1>6
    <3>2. n >= 4 => n - 3 \in Nat /\ 1 <= n - 3
      BY <3>1
    <3> QED
      BY <1>5, <1>6, <3>1, <3>2
  <2> QED
    BY <2>1, <2>2 DEF Number
<1>9. TakenFrom(PayloadRead(chr)) =
        [packType |-> h[1], sysTime |-> Number(h[1], <<h[2]>>, payload), payload |-> payload,
         crc8Header |-> h[4], crc16payload |-> SubSeq(e, h[3] + 1, h[3] + 2)]
  BY <1>1, <1>3 DEF TakenFrom, payload
<1> QED
  BY <1>1, <1>2, <1>6, <1>7, <1>8, <1>9 DEF Package

-----------------------------------------------------------------------------
(* Type correctness of the system *)

\* A byte on the wire.
Wired == [byte : Byte, pack : Nat, at : Nat]

\* TypeOK made inductive.
TypeInv == TypeOK /\ DataInv

\* What the bytes of the n-th package are on their way, as far as there is space.
Out(p, n, count) == [i \in 1 .. count |-> [byte |-> Written[p][i], pack |-> n, at |-> i]]

\* The bytes of a package on their way: type, length and elements.
LEMMA OutFacts ==
    ASSUME NEW p \in Packages, NEW n \in Nat, NEW count \in 0 .. Len(Written[p])
    PROVE  /\ Out(p, n, count) \in Seq(Wired) /\ Len(Out(p, n, count)) = count
           /\ \A i \in 1 .. count : /\ Out(p, n, count)[i].byte = Written[p][i]
                                    /\ Out(p, n, count)[i].pack = n
                                    /\ Out(p, n, count)[i].at = i
<1>1. PICK w \in Seq(Byte) : w = Written[p]
  BY WrittenFacts
<1>2. PICK k \in Nat : k = count /\ k <= Len(w)
  BY <1>1
<1>3. \A i \in 1 .. k : [byte |-> w[i], pack |-> n, at |-> i] \in Wired
  <2> SUFFICES ASSUME NEW i \in 1 .. k PROVE [byte |-> w[i], pack |-> n, at |-> i] \in Wired
    OBVIOUS
  <2>1. w[i] \in Byte /\ i \in Nat
    BY <1>2
  <2> QED
    BY <2>1 DEF Wired
<1>4. PICK f : f = [i \in 1 .. k |-> [byte |-> w[i], pack |-> n, at |-> i]]
  OBVIOUS
<1>5. f \in Seq(Wired) /\ Len(f) = k
  BY <1>3, <1>4
<1>6. \A i \in 1 .. k : f[i].byte = w[i] /\ f[i].pack = n /\ f[i].at = i
  BY <1>4
<1> QED
  BY <1>1, <1>2, <1>4, <1>5, <1>6 DEF Out

\* The bytes of a package are appended, more of them than the header has, and all of them
\* unless the package is spoiled.
LEMMA SendFacts ==
    ASSUME TypeOK, NEW p \in Packages, SendPackage(p)
    PROVE  \E count \in 8 .. Len(Written[p]) :
              /\ wire' = wire \o Out(p, Len(sent) + 1, count)
              /\ sent' = Append(sent, p)
              /\ \/ count = Len(Written[p]) /\ spoiled' = spoiled /\ mild' = mild
                 \/ /\ spoiled' = spoiled \cup {Len(sent) + 1}
                    /\ mild' = (mild /\ Plain(p))
              /\ rx' = rx /\ assembled' = assembled /\ before' = before /\ lost' = lost
<1>1. PICK l \in Nat : l = Len(Written[p]) /\ l >= Len(p.payload) + 9
  BY WrittenFacts
<1>2. PICK m \in Nat : m = Len(p.payload)
  BY PackageFacts
<1>3. FreeSpace \in Int
  <2>1. TxLen \in Nat
    BY FramingAssumption
  <2>2. Len(wire) \in Nat
    BY DEF TypeOK
  <2> QED
    BY <2>1, <2>2 DEF FreeSpace
<1>4. FreeSpace > 7 + m
  BY <1>2 DEF SendPackage, TotalSize
<1> DEFINE count == IF l <= FreeSpace THEN l ELSE FreeSpace
<1>5. count \in 8 .. l
  BY <1>1, <1>2, <1>3, <1>4
<1>6. /\ wire' = wire \o Out(p, Len(sent) + 1, count)
      /\ \/ count = l /\ spoiled' = spoiled /\ mild' = mild
         \/ spoiled' = spoiled \cup {Len(sent) + 1} /\ mild' = (mild /\ Plain(p))
  BY <1>1 DEF SendPackage, Out
<1> HIDE DEF count
<1> QED
  BY <1>1, <1>5, <1>6 DEF SendPackage

\* The parts of the type invariant ...
LEMMA TypeFields ==
    ASSUME TypeInv
    PROVE  /\ wire \in Seq(Wired) /\ RxOK(rx) /\ EndsAs(rx, before)
           /\ assembled \in Seq(Package) /\ sent \in Seq(Packages) /\ spoiled \in SUBSET Nat
           /\ mild \in BOOLEAN /\ before \in Byte /\ lost \in 0 .. MaxLost
  BY DEF TypeInv, TypeOK, DataInv, RxOK, Wired

\* ... and that they are all of it.
LEMMA TypeFieldsSuffice ==
    ASSUME wire \in Seq(Wired), RxOK(rx), EndsAs(rx, before),
           assembled \in Seq(Package), sent \in Seq(Packages), spoiled \in SUBSET Nat,
           mild \in BOOLEAN, before \in Byte, lost \in 0 .. MaxLost
    PROVE  TypeInv
  BY DEF TypeInv, TypeOK, DataInv, RxOK, Wired

\* The same of the next state.
LEMMA NextTypeFieldsSuffice ==
    ASSUME wire' \in Seq(Wired), RxOK(rx'), EndsAs(rx', before'),
           assembled' \in Seq(Package), sent' \in Seq(Packages), spoiled' \in SUBSET Nat,
           mild' \in BOOLEAN, before' \in Byte, lost' \in 0 .. MaxLost
    PROVE  TypeInv'
  BY DEF TypeInv, TypeOK, DataInv, RxOK, Wired

\* The byte read or lost next.
LEMMA HeadFacts ==
    ASSUME NEW w \in Seq(Wired), w # <<>>
    PROVE  /\ Len(w) >= 1 /\ Head(w) = w[1] /\ Head(w) \in Wired
           /\ Head(w).byte \in Byte /\ Head(w).pack \in Nat /\ Head(w).at \in Nat
           /\ Tail(w) \in Seq(Wired) /\ Len(Tail(w)) = Len(w) - 1
           /\ \A m \in 1 .. Len(w) - 1 : Tail(w)[m] = w[m + 1]
<1>1. /\ Head(w) \in Wired /\ Tail(w) \in Seq(Wired) /\ Len(Tail(w)) = Len(w) - 1
      /\ \A m \in 1 .. Len(Tail(w)) : Tail(w)[m] = w[m + 1]
  BY HeadTailProperties
<1>2. Len(w) >= 1 /\ Head(w) = w[1]
  <2>1. Len(w) # 0 /\ Len(w) \in Nat
    BY NoBytes
  <2> QED
    BY <2>1
<1>3. Head(w).byte \in Byte /\ Head(w).pack \in Nat /\ Head(w).at \in Nat
  BY <1>1 DEF Wired
<1> QED
  BY <1>1, <1>2, <1>3

\* Reading a byte, with what the receiver does named After.
LEMMA ReceiveFacts ==
    ASSUME ReceiveByte, RxOK(rx)
    PROVE  LET b == Head(wire)
           IN  /\ wire # <<>> /\ wire' = Tail(wire)
               /\ rx' = After(b.byte) /\ Assemble(b.byte) /\ before' = b.byte
               /\ spoiled' = IF Hidden(b) THEN spoiled \cup {b.pack} ELSE spoiled
               /\ sent' = sent /\ mild' = mild /\ lost' = lost
  BY DEF ReceiveByte, After

\* What the loss of a byte changes.
LEMMA LoseFacts ==
    ASSUME LoseByte
    PROVE  LET b == Head(wire)
           IN  /\ wire # <<>> /\ wire' = Tail(wire) /\ lost < MaxLost /\ lost' = lost + 1
               /\ spoiled' = spoiled \cup {b.pack}
               /\ mild' = (mild /\ Plain(sent[b.pack]) /\ b.at > 1 + HeaderSize)
               /\ rx' = rx /\ assembled' = assembled /\ sent' = sent /\ before' = before
  BY DEF LoseByte

\* The first three facts the system needs: what it starts with, what a step keeps.
LEMMA TypeInit == ASSUME Init PROVE TypeInv
<1>1. RxOK(rx) /\ EndsAs(rx, before)
  <2>1. rx = In("STATE_START", <<>>, 0, <<>>)
    BY DEF Init, In
  <2>2. RxOK(In("STATE_START", <<>>, 0, <<>>))
    BY NoBytes, InStartOK
  <2> QED
    BY <2>1, <2>2, InFields DEF EndsAs
<1>2. /\ wire \in Seq(Wired) /\ assembled \in Seq(Package) /\ sent \in Seq(Packages)
      /\ spoiled \in SUBSET Nat /\ mild \in BOOLEAN
  BY DEF Init
<1>3. before \in Byte
  BY DEF Init, Byte
<1>4. lost \in 0 .. MaxLost
  BY FramingAssumption DEF Init
<1> QED
  BY <1>1, <1>2, <1>3, <1>4, TypeFieldsSuffice

\* Writing a package keeps the types.
LEMMA TypeSend ==
    ASSUME TypeInv, NEW p \in Packages, SendPackage(p)
    PROVE  TypeInv'
<1>1. /\ wire \in Seq(Wired) /\ RxOK(rx) /\ EndsAs(rx, before)
      /\ assembled \in Seq(Package) /\ sent \in Seq(Packages) /\ spoiled \in SUBSET Nat
      /\ mild \in BOOLEAN /\ before \in Byte /\ lost \in 0 .. MaxLost
  BY TypeFields
<1>2. TypeOK
  BY DEF TypeInv
<1>3. PICK count \in 8 .. Len(Written[p]) :
              /\ wire' = wire \o Out(p, Len(sent) + 1, count)
              /\ sent' = Append(sent, p)
              /\ \/ count = Len(Written[p]) /\ spoiled' = spoiled /\ mild' = mild
                 \/ /\ spoiled' = spoiled \cup {Len(sent) + 1}
                    /\ mild' = (mild /\ Plain(p))
              /\ rx' = rx /\ assembled' = assembled /\ before' = before /\ lost' = lost
  BY <1>2, SendFacts
<1>4. Len(sent) + 1 \in Nat
  BY <1>1
<1>5. count \in 0 .. Len(Written[p])
  OBVIOUS
<1>6. wire' \in Seq(Wired)
  <2>1. PICK o \in Seq(Wired) : o = Out(p, Len(sent) + 1, count)
    BY <1>4, <1>5, OutFacts
  <2> QED
    BY <1>1, <1>3, <2>1
<1>7. sent' \in Seq(Packages)
  BY <1>1, <1>3
<1>8. spoiled' \in SUBSET Nat /\ mild' \in BOOLEAN
  BY <1>1, <1>3, <1>4
<1>9. RxOK(rx') /\ EndsAs(rx', before')
  BY <1>1, <1>3
<1> QED
  BY <1>1, <1>3, <1>6, <1>7, <1>8, <1>9, NextTypeFieldsSuffice

\* Losing a byte keeps the types.
LEMMA TypeLose ==
    ASSUME TypeInv, LoseByte
    PROVE  TypeInv'
<1>1. /\ wire \in Seq(Wired) /\ RxOK(rx) /\ EndsAs(rx, before)
      /\ assembled \in Seq(Package) /\ sent \in Seq(Packages) /\ spoiled \in SUBSET Nat
      /\ mild \in BOOLEAN /\ before \in Byte /\ lost \in 0 .. MaxLost
  BY TypeFields
<1>2. /\ wire # <<>> /\ wire' = Tail(wire) /\ lost < MaxLost /\ lost' = lost + 1
      /\ spoiled' = spoiled \cup {Head(wire).pack}
      /\ mild' = (mild /\ Plain(sent[Head(wire).pack]) /\ Head(wire).at > 1 + HeaderSize)
      /\ rx' = rx /\ assembled' = assembled /\ sent' = sent /\ before' = before
  BY LoseFacts
<1>3. Head(wire).pack \in Nat /\ wire' \in Seq(Wired)
  BY <1>1, <1>2, HeadFacts
<1>4. mild' \in BOOLEAN
  BY <1>1, <1>2 DEF Plain
<1>5. lost' \in 0 .. MaxLost
  BY <1>1, <1>2, FramingAssumption
<1>6. spoiled' \in SUBSET Nat
  BY <1>1, <1>2, <1>3
<1>7. RxOK(rx') /\ EndsAs(rx', before')
  BY <1>1, <1>2
<1> QED
  BY <1>1, <1>2, <1>3, <1>4, <1>5, <1>6, <1>7, NextTypeFieldsSuffice

\* Reading a byte keeps the types: no state is left with more bytes than it may hold.
LEMMA TypeReceive ==
    ASSUME TypeInv, ReceiveByte
    PROVE  TypeInv'
<1>1. /\ wire \in Seq(Wired) /\ RxOK(rx) /\ EndsAs(rx, before)
      /\ assembled \in Seq(Package) /\ sent \in Seq(Packages) /\ spoiled \in SUBSET Nat
      /\ mild \in BOOLEAN /\ before \in Byte /\ lost \in 0 .. MaxLost
  BY TypeFields
<1> DEFINE b == Head(wire)
<1>2. /\ wire # <<>> /\ wire' = Tail(wire)
      /\ rx' = After(b.byte) /\ Assemble(b.byte) /\ before' = b.byte
      /\ spoiled' = IF Hidden(b) THEN spoiled \cup {b.pack} ELSE spoiled
      /\ sent' = sent /\ mild' = mild /\ lost' = lost
  BY <1>1, ReceiveFacts
<1>3. b.byte \in Byte /\ b.pack \in Nat /\ wire' \in Seq(Wired)
  BY <1>1, <1>2, HeadFacts
<1> HIDE DEF b
<1>4. RxOK(After(b.byte)) /\ EndsAs(After(b.byte), b.byte)
  BY <1>1, <1>3, AfterType
<1>5. RxOK(rx') /\ EndsAs(rx', before')
  BY <1>2, <1>4
<1>6. assembled' \in Seq(Package)
  <2>1. CASE rx.state = "STATE_READ_PAYLOAD" /\ PackageComplete(PayloadRead(b.byte))
    <3>1. PICK t \in Package : t = TakenFrom(PayloadRead(b.byte))
      BY <1>1, <1>3, <2>1, TakenType
    <3>2. assembled' = Append(assembled, t) \/ assembled' = assembled
      BY <1>2, <2>1, <3>1 DEF Assemble
    <3> QED
      BY <1>1, <3>2
  <2>2. CASE ~(rx.state = "STATE_READ_PAYLOAD" /\ PackageComplete(PayloadRead(b.byte)))
    BY <1>1, <1>2, <2>2 DEF Assemble
  <2> QED
    BY <2>1, <2>2
<1>7. spoiled' \in SUBSET Nat
  BY <1>1, <1>2, <1>3
<1> QED
  BY <1>1, <1>2, <1>3, <1>5, <1>6, <1>7, NextTypeFieldsSuffice

\* Every step keeps the types.
LEMMA TypeStep == TypeInv /\ [Next]_vars => TypeInv'
<1> SUFFICES ASSUME TypeInv, [Next]_vars PROVE TypeInv'
  OBVIOUS
<1>1. ASSUME NEW p \in Packages, SendPackage(p) PROVE TypeInv'
  BY <1>1, TypeSend
<1>2. CASE LoseByte
  BY <1>2, TypeLose
<1>3. CASE ReceiveByte
  BY <1>3, TypeReceive
<1>4. CASE UNCHANGED vars
  <2>1. /\ wire \in Seq(Wired) /\ RxOK(rx) /\ EndsAs(rx, before)
        /\ assembled \in Seq(Package) /\ sent \in Seq(Packages) /\ spoiled \in SUBSET Nat
        /\ mild \in BOOLEAN /\ before \in Byte /\ lost \in 0 .. MaxLost
    BY TypeFields
  <2>2. /\ wire' = wire /\ rx' = rx /\ assembled' = assembled /\ sent' = sent
        /\ spoiled' = spoiled /\ mild' = mild /\ before' = before /\ lost' = lost
    BY <1>4 DEF vars
  <2> QED
    BY <2>1, <2>2, NextTypeFieldsSuffice
<1> QED
  BY <1>1, <1>2, <1>3, <1>4 DEF Next

\* The receiver never holds more bytes than its state allows: less than a header and two
\* bytes, or less than the payload size of a header that was found valid, four more.
THEOREM TypeCorrect == Spec => []TypeOK
<1>1. Init => TypeInv
  BY TypeInit
<1>2. TypeInv => TypeOK
  BY DEF TypeInv
<1> QED
  BY <1>1, <1>2, TypeStep, PTL DEF Spec

-----------------------------------------------------------------------------
(* The bytes on their way *)

\* Neither a new package nor a newly spoiled one changes what is known of a byte.
LEMMA ByteKept ==
    ASSUME NEW s \in Seq(Packages), NEW p \in Packages, NEW sp, NEW sp2,
           sp \subseteq sp2, NEW a, Genuine(s, a)
    PROVE  /\ Genuine(Append(s, p), a)
           /\ Final(s, sp, a) => Final(Append(s, p), sp2, a) /\ Final(s, sp2, a)
<1>1. a.pack \in 1 .. Len(s)
  BY DEF Genuine
<1>2. PICK k \in 1 .. Len(s) : k = a.pack
  BY <1>1
<1>3. Append(s, p)[k] = s[k] /\ k \in 1 .. Len(Append(s, p))
  BY AppendProperties
<1> QED
  BY <1>2, <1>3 DEF Genuine, Final

\* One byte follows another still when a package more is sent or spoiled.
LEMMA FollowKept ==
    ASSUME NEW s \in Seq(Packages), NEW p \in Packages, NEW sp, NEW sp2,
           sp \subseteq sp2, NEW a, NEW b, Genuine(s, a), FollowedBy(s, sp, a, b)
    PROVE  FollowedBy(Append(s, p), sp2, a, b) /\ FollowedBy(s, sp2, a, b)
  BY ByteKept DEF FollowedBy

\* When a byte is read or lost.
LEMMA TailKept ==
    ASSUME NEW w \in Seq(Wired), w # <<>>, NEW s \in Seq(Packages), NEW sp, NEW sp2,
           sp \subseteq sp2, From(w, s, sp)
    PROVE  From(Tail(w), s, sp2)
<1>1. PICK t \in Seq(Wired), n \in Nat :
         t = Tail(w) /\ Len(w) = n + 1 /\ Len(t) = n /\ \A m \in 1 .. n : t[m] = w[m + 1]
  <2>1. /\ Tail(w) \in Seq(Wired) /\ Len(w) >= 1 /\ Len(Tail(w)) = Len(w) - 1
        /\ \A m \in 1 .. Len(w) - 1 : Tail(w)[m] = w[m + 1]
    BY HeadFacts
  <2>2. Len(w) - 1 \in Nat /\ Len(w) = (Len(w) - 1) + 1
    BY <2>1
  <2> QED
    BY <2>1, <2>2
<1>2. /\ \A m \in 1 .. n + 1 : Genuine(s, w[m])
      /\ \A m \in 1 .. n : FollowedBy(s, sp, w[m], w[m + 1])
      /\ w[n + 1].pack = Len(s) /\ Final(s, sp, w[n + 1])
  <2>1. (n + 1) - 1 = n /\ n + 1 > 0
    OBVIOUS
  <2> QED
    BY <1>1, <2>1 DEF From
<1>3. \A m \in 1 .. n : Genuine(s, t[m])
  <2>1. \A m \in 1 .. n : m + 1 \in 1 .. n + 1
    OBVIOUS
  <2> QED
    BY <1>1, <1>2, <2>1
<1>4. \A m \in 1 .. n - 1 : FollowedBy(s, sp2, t[m], t[m + 1])
  <2> SUFFICES ASSUME NEW m \in 1 .. n - 1 PROVE FollowedBy(s, sp2, t[m], t[m + 1])
    OBVIOUS
  <2>1. m \in 1 .. n /\ m + 1 \in 1 .. n /\ m + 1 \in 1 .. n + 1
    OBVIOUS
  <2>2. PICK a, b : a = w[m + 1] /\ b = w[(m + 1) + 1] /\ a = t[m] /\ b = t[m + 1]
    BY <1>1, <2>1
  <2>3. Genuine(s, a) /\ FollowedBy(s, sp, a, b)
    BY <1>2, <2>1, <2>2
  <2>4. FollowedBy(s, sp2, a, b)
    BY <2>3, FollowKept DEF FollowedBy, Final
  <2> QED
    BY <2>2, <2>4
<1>5. n > 0 => t[n].pack = Len(s) /\ Final(s, sp2, t[n])
  <2> SUFFICES ASSUME n > 0 PROVE t[n].pack = Len(s) /\ Final(s, sp2, t[n])
    OBVIOUS
  <2>1. t[n] = w[n + 1]
    BY <1>1
  <2> QED
    BY <1>2, <2>1 DEF Final
<1> QED
  BY <1>1, <1>3, <1>4, <1>5 DEF From

\* What comes next then.
LEMMA NextAfter ==
    ASSUME NEW w \in Seq(Wired), w # <<>>, NEW s \in Seq(Packages), NEW sp, From(w, s, sp)
    PROVE  /\ Genuine(s, Head(w))
           /\ NextPack(w, s) = Head(w).pack /\ NextAt(w) = Head(w).at
           /\ \/ /\ NextPack(Tail(w), s) = Head(w).pack
                 /\ NextAt(Tail(w)) = Head(w).at + 1
                 /\ NextAt(Tail(w)) \in 1 .. Len(Written[s[Head(w).pack]])
              \/ /\ NextPack(Tail(w), s) = Head(w).pack + 1
                 /\ NextAt(Tail(w)) = 1
                 /\ Final(s, sp, Head(w))
<1>1. PICK t \in Seq(Wired), n \in Nat :
         t = Tail(w) /\ Len(w) = n + 1 /\ Len(t) = n /\ \A m \in 1 .. n : t[m] = w[m + 1]
  <2>1. /\ Tail(w) \in Seq(Wired) /\ Len(w) >= 1 /\ Len(Tail(w)) = Len(w) - 1
        /\ \A m \in 1 .. Len(w) - 1 : Tail(w)[m] = w[m + 1]
    BY HeadFacts
  <2>2. Len(w) - 1 \in Nat /\ Len(w) = (Len(w) - 1) + 1
    BY <2>1
  <2> QED
    BY <2>1, <2>2
<1>2. PICK b \in Wired : b = Head(w) /\ b = w[1]
  BY HeadFacts
<1>3. /\ \A m \in 1 .. n + 1 : Genuine(s, w[m])
      /\ \A m \in 1 .. n : FollowedBy(s, sp, w[m], w[m + 1])
      /\ w[n + 1].pack = Len(s) /\ Final(s, sp, w[n + 1])
  <2>1. (n + 1) - 1 = n /\ n + 1 > 0
    OBVIOUS
  <2> QED
    BY <1>1, <2>1 DEF From
<1>4. Genuine(s, b)
  <2>1. 1 \in 1 .. n + 1
    OBVIOUS
  <2> QED
    BY <1>2, <1>3, <2>1
<1>5. NextPack(w, s) = b.pack /\ NextAt(w) = b.at
  BY <1>1, <1>2 DEF NextPack, NextAt
<1>6. CASE n = 0
  <2>1. b.pack = Len(s) /\ Final(s, sp, b)
    <3>1. n + 1 = 1
      BY <1>6
    <3> QED
      BY <1>2, <1>3, <3>1
  <2>2. NextPack(t, s) = b.pack + 1 /\ NextAt(t) = 1
    BY <1>1, <1>6, <2>1 DEF NextPack, NextAt
  <2> QED
    BY <1>1, <1>2, <1>4, <1>5, <2>1, <2>2
<1>7. CASE n # 0
  <2>1. 1 \in 1 .. n /\ 2 \in 1 .. n + 1 /\ 1 + 1 = 2
    BY <1>7
  <2>2. PICK c : c = t[1] /\ c = w[2]
    BY <1>1, <2>1
  <2>3. FollowedBy(s, sp, b, c) /\ Genuine(s, c)
    BY <1>2, <1>3, <2>1, <2>2
  <2>4. NextPack(t, s) = c.pack /\ NextAt(t) = c.at
    BY <1>1, <1>7, <2>2 DEF NextPack, NextAt
  <2>5. \/ c.pack = b.pack /\ c.at = b.at + 1 /\ c.at \in 1 .. Len(Written[s[b.pack]])
        \/ c.pack = b.pack + 1 /\ c.at = 1 /\ Final(s, sp, b)
    BY <2>3 DEF FollowedBy, Genuine
  <2> QED
    BY <1>1, <1>2, <1>4, <1>5, <2>4, <2>5
<1> QED
  BY <1>6, <1>7

\* The bytes w with those of p behind them.
Grown(w, s, p, count) == w \o Out(p, Len(s) + 1, count)

\* The next byte stays the next, or the first of the new ones is it.
LEMMA NextKept ==
    ASSUME NEW w \in Seq(Wired), NEW s \in Seq(Packages),
           NEW p \in Packages, NEW count \in 8 .. Len(Written[p])
    PROVE  /\ NextPack(Grown(w, s, p, count), Append(s, p)) = NextPack(w, s)
           /\ NextAt(Grown(w, s, p, count)) = NextAt(w)
<1>1. PICK n \in Nat : n = Len(s)
  OBVIOUS
<1>2. PICK q \in Seq(Packages) : q = Append(s, p) /\ Len(q) = n + 1 /\ q[n + 1] = p
  BY <1>1, AppendProperties
<1>3. PICK l \in Nat : l = Len(w)
  OBVIOUS
<1>4. PICK o \in Seq(Wired) : /\ o = Out(p, n + 1, count) /\ Len(o) = count
                              /\ \A i \in 1 .. count : /\ o[i].byte = Written[p][i]
                                                       /\ o[i].pack = n + 1
                                                       /\ o[i].at = i
  <2>1. n + 1 \in Nat /\ count \in 0 .. Len(Written[p])
    OBVIOUS
  <2> QED
    BY <2>1, OutFacts
<1>5. PICK v \in Seq(Wired) : /\ v = w \o o /\ Len(v) = l + count
                              /\ \A m \in 1 .. l : v[m] = w[m]
                              /\ \A i \in 1 .. count : v[l + i] = o[i]
  <2>1. /\ w \o o \in Seq(Wired) /\ Len(w \o o) = Len(w) + Len(o)
        /\ \A m \in 1 .. Len(w) : (w \o o)[m] = w[m]
        /\ \A i \in 1 .. Len(o) : (w \o o)[Len(w) + i] = o[i]
    BY JoinedElements
  <2>2. PICK v \in Seq(Wired) : v = w \o o
    BY <2>1
  <2>3. Len(v) = l + count /\ (\A m \in 1 .. l : v[m] = w[m])
    BY <1>3, <1>4, <2>1, <2>2
  <2>4. \A i \in 1 .. count : v[l + i] = o[i]
    BY <1>3, <1>4, <2>1, <2>2
  <2> QED
    BY <2>2, <2>3, <2>4
<1>6. Grown(w, s, p, count) = v
  BY <1>1, <1>4, <1>5 DEF Grown
<1>7. count \in Nat /\ count >= 8
  OBVIOUS
<1>8. NextPack(v, q) = NextPack(w, s) /\ NextAt(v) = NextAt(w)
  <2>1. CASE l = 0
    <3>1. 1 \in 1 .. count /\ l + 1 = 1 /\ l + count # 0
      BY <1>7, <2>1
    <3>2. v[1] = o[1] /\ o[1].pack = n + 1 /\ o[1].at = 1
      BY <1>4, <1>5, <3>1
    <3> QED
      BY <1>1, <1>3, <1>5, <2>1, <3>1, <3>2 DEF NextPack, NextAt
  <2>2. CASE l # 0
    <3>1. 1 \in 1 .. l /\ l + count # 0
      BY <1>7, <2>2
    <3>2. v[1] = w[1]
      BY <1>5, <3>1
    <3> QED
      BY <1>3, <1>5, <2>2, <3>1, <3>2 DEF NextPack, NextAt
  <2> QED
    BY <2>1, <2>2
<1> QED
  BY <1>2, <1>6, <1>8, Zenon

\* When a package is sent.
LEMMA SentKept ==
    ASSUME NEW w \in Seq(Wired), NEW s \in Seq(Packages), NEW sp, NEW sp2, sp \subseteq sp2,
           NEW p \in Packages, NEW count \in 8 .. Len(Written[p]),
           count = Len(Written[p]) \/ Len(s) + 1 \in sp2,
           From(w, s, sp)
    PROVE  From(Grown(w, s, p, count), Append(s, p), sp2)
<1>1. PICK n \in Nat : n = Len(s)
  OBVIOUS
<1>2. PICK q \in Seq(Packages) : q = Append(s, p) /\ Len(q) = n + 1 /\ q[n + 1] = p
  BY <1>1, AppendProperties
<1>3. PICK l \in Nat : l = Len(w)
  OBVIOUS
<1>4. PICK o \in Seq(Wired) : /\ o = Out(p, n + 1, count) /\ Len(o) = count
                              /\ \A i \in 1 .. count : /\ o[i].byte = Written[p][i]
                                                       /\ o[i].pack = n + 1
                                                       /\ o[i].at = i
  <2>1. n + 1 \in Nat /\ count \in 0 .. Len(Written[p])
    OBVIOUS
  <2> QED
    BY <2>1, OutFacts
<1>5. PICK v \in Seq(Wired) : /\ v = w \o o /\ Len(v) = l + count
                              /\ \A m \in 1 .. l : v[m] = w[m]
                              /\ \A i \in 1 .. count : v[l + i] = o[i]
  <2>1. /\ w \o o \in Seq(Wired) /\ Len(w \o o) = Len(w) + Len(o)
        /\ \A m \in 1 .. Len(w) : (w \o o)[m] = w[m]
        /\ \A i \in 1 .. Len(o) : (w \o o)[Len(w) + i] = o[i]
    BY JoinedElements
  <2>2. PICK v \in Seq(Wired) : v = w \o o
    BY <2>1
  <2>3. Len(v) = l + count /\ (\A m \in 1 .. l : v[m] = w[m])
    BY <1>3, <1>4, <2>1, <2>2
  <2>4. \A i \in 1 .. count : v[l + i] = o[i]
    BY <1>3, <1>4, <2>1, <2>2
  <2> QED
    BY <2>2, <2>3, <2>4
<1> DEFINE g == Grown(w, s, p, count)
<1>14. g = v
  BY <1>1, <1>4, <1>5 DEF Grown
<1> HIDE DEF g
<1>6. /\ \A m \in 1 .. l : Genuine(s, w[m])
      /\ \A m \in 1 .. l - 1 : FollowedBy(s, sp, w[m], w[m + 1])
      /\ l > 0 => w[l].pack = n /\ Final(s, sp, w[l])
  BY <1>1, <1>3 DEF From
<1>7. count \in Nat /\ count >= 8 /\ \A i \in 1 .. count : i \in 1 .. Len(Written[p])
  OBVIOUS
<1>8. \A i \in 1 .. count : Genuine(q, o[i])
  <2>1. n + 1 \in 1 .. Len(q)
    BY <1>2
  <2> QED
    BY <1>2, <1>4, <1>7, <2>1 DEF Genuine
<1>9. \A m \in 1 .. l + count : Genuine(q, v[m])
  <2> SUFFICES ASSUME NEW m \in 1 .. l + count PROVE Genuine(q, v[m])
    OBVIOUS
  <2>1. CASE m <= l
    <3>1. m \in 1 .. l
      BY <2>1
    <3> QED
      BY <1>2, <1>5, <1>6, <3>1, ByteKept
  <2>2. CASE ~(m <= l)
    <3>1. m - l \in 1 .. count /\ l + (m - l) = m
      BY <2>2
    <3> QED
      BY <1>5, <1>8, <3>1
  <2> QED
    BY <2>1, <2>2
<1>10. \A m \in 1 .. (l + count) - 1 : FollowedBy(q, sp2, v[m], v[m + 1])
  <2> SUFFICES ASSUME NEW m \in 1 .. (l + count) - 1 PROVE FollowedBy(q, sp2, v[m], v[m + 1])
    OBVIOUS
  <2>1. CASE m < l
    <3>1. m \in 1 .. l /\ m + 1 \in 1 .. l /\ m \in 1 .. l - 1
      BY <2>1
    <3>2. FollowedBy(q, sp2, w[m], w[m + 1])
      BY <1>2, <1>6, <3>1, FollowKept
    <3> QED
      BY <1>5, <3>1, <3>2
  <2>2. CASE m = l
    <3>1. l \in 1 .. l /\ 1 \in 1 .. count /\ l > 0
      BY <1>7, <2>2
    <3>2. v[l] = w[l] /\ v[l + 1] = o[1]
      BY <1>5, <3>1
    <3>3. w[l].pack = n /\ Final(q, sp2, w[l])
      BY <1>2, <1>6, <3>1, ByteKept
    <3>4. o[1].pack = n + 1 /\ o[1].at = 1
      BY <1>4, <3>1
    <3> QED
      BY <2>2, <3>2, <3>3, <3>4 DEF FollowedBy
  <2>3. CASE m > l
    <3>1. PICK i \in 1 .. count : m = l + i /\ i + 1 \in 1 .. count /\ m + 1 = l + (i + 1)
      <4>1. m - l \in 1 .. count /\ m = l + (m - l) /\ (m - l) + 1 \in 1 .. count
            /\ m + 1 = l + ((m - l) + 1)
        BY <1>7, <2>3
      <4> QED
        BY <4>1
    <3>2. v[m] = o[i] /\ v[m + 1] = o[i + 1]
      BY <1>5, <3>1
    <3>3. o[i].pack = n + 1 /\ o[i].at = i /\ o[i + 1].pack = n + 1 /\ o[i + 1].at = i + 1
      BY <1>4, <3>1
    <3>4. v[m + 1].pack = v[m].pack /\ v[m + 1].at = v[m].at + 1
      BY <3>2, <3>3
    <3> QED
      BY <3>4 DEF FollowedBy
  <2> QED
    BY <2>1, <2>2, <2>3
<1>11. v[l + count].pack = n + 1 /\ Final(q, sp2, v[l + count])
  <2>1. count \in 1 .. count /\ count > 1
    BY <1>7
  <2>2. v[l + count] = o[count]
    BY <1>5, <2>1
  <2>3. o[count].pack = n + 1 /\ o[count].at = count
    BY <1>4, <2>1
  <2>4. count = Len(Written[q[n + 1]]) \/ n + 1 \in sp2
    BY <1>1, <1>2
  <2> QED
    BY <2>1, <2>2, <2>3, <2>4 DEF Final
<1>12. From(v, q, sp2)
  BY <1>2, <1>5, <1>9, <1>10, <1>11 DEF From
<1> QED
  BY <1>2, <1>14, <1>12, Zenon DEF g

-----------------------------------------------------------------------------
(* The receiver within a package *)

\* Reading chr ends a package.
Assembles(chr) ==
    /\ rx.state = "STATE_READ_PAYLOAD"
    /\ PackageComplete(PayloadRead(chr))
    /\ rx.header[3] > 0

\* A START that no REP comes before begins a header, in whatever state it is read.
LEMMA StartRead ==
    ASSUME RxOK(rx), EndsAs(rx, before), before # PACK_REP
    PROVE  /\ After(PACK_START).state = "STATE_READ_HEADER" /\ After(PACK_START).data = <<>>
           /\ After(PACK_START).patternReplaced =
                 IF rx.state = "STATE_START" THEN 0 ELSE rx.patternReplaced
           /\ ~Assembles(PACK_START)
<1>1. /\ rx.state \in {"STATE_START", "STATE_READ_HEADER", "STATE_READ_PAYLOAD"}
      /\ rx.data \in Seq(Byte) /\ rx.patternReplaced \in Nat /\ rx.header \in Seq(Byte)
  BY DEF RxOK, ReceiverStates
<1>2. CASE rx.state = "STATE_START"
  <2>1. After(PACK_START) = In("STATE_READ_HEADER", <<>>, 0, rx.header)
    BY <1>2, AfterIs DEF AfterStart
  <2> QED
    BY <1>2, <2>1, InFields DEF Assembles
<1>3. CASE rx.state # "STATE_START"
  <2>1. PICK d \in Seq(Byte), rep \in Nat : d = rx.data /\ rep = rx.patternReplaced
    BY <1>1
  <2>2. Len(d) = 0 \/ d[Len(d)] # PACK_REP
    <3>1. d # <<>> => d[Len(d)] # PACK_REP
      BY <1>3, <2>1 DEF EndsAs
    <3>2. d = <<>> => Len(d) = 0
      BY NoBytes
    <3> QED
      BY <3>1, <3>2
  <2>3. PACK_START \in Byte /\ ~Marked(d, PACK_START, rep)
    BY DEF Byte, Marked
  <2> DEFINE c == Checked(Append(d, PACK_START), rep)
  <2>4. c.replaced = rep /\ c.start
    BY <2>2, <2>3, CheckedUnmarked
  <2> HIDE DEF c
  <2>5. Restarted(c) = <<>>
    BY <2>4 DEF Restarted
  <2>6. CASE rx.state = "STATE_READ_HEADER"
    <3>1. Len(<<>>) < HeaderSize + 2
      BY NoBytes
    <3>2. AfterHeader(PACK_START) = In("STATE_READ_HEADER", <<>>, rep, rx.header)
      BY <2>1, <2>4, <2>5, <3>1 DEF AfterHeader, c
    <3> QED
      BY <2>1, <2>6, <3>2, AfterIs, InFields DEF Assembles
  <2>7. CASE rx.state = "STATE_READ_PAYLOAD"
    <3>1. PayloadRead(PACK_START) = c
      BY <2>1 DEF PayloadRead, c
    <3>2. ~PackageComplete(c)
      BY <2>4 DEF PackageComplete
    <3>3. AfterPayload(PACK_START) = In("STATE_READ_HEADER", <<>>, rep, rx.header)
      BY <2>4, <3>1, <3>2 DEF AfterPayload
    <3> QED
      BY <2>1, <2>7, <3>1, <3>2, <3>3, AfterIs, InFields DEF Assembles
  <2> QED
    BY <1>1, <1>3, <2>6, <2>7
<1> QED
  BY <1>2, <1>3

\* The receiver is where the package begins then.
LEMMA StartMidway ==
    ASSUME RxOK(rx), EndsAs(rx, before), before # PACK_REP, NEW p \in Packages,
           NEW gentle \in BOOLEAN,
           gentle /\ rx.state # "STATE_START" => rx.patternReplaced = 0
    PROVE  Midway(After(PACK_START), gentle, p, 2)
<1> DEFINE x == After(PACK_START)
<1>1. x.state = "STATE_READ_HEADER" /\ x.data = <<>> /\ (gentle => x.patternReplaced = 0)
  BY StartRead
<1>2. PICK c \in Seq(Byte) : c = Contents(p) /\ Len(c) = Len(p.payload) + 8
  BY ContentsFacts
<1>3. PICK l \in Nat : l = Len(p.payload)
  BY PackageFacts
<1> HIDE DEF x
<1>4. 0 \in 0 .. Len(c) - 1 /\ 0 \in 0 .. 2 /\ 2 = 2 + EscapedLen(c, 0) + 0
  BY <1>2, <1>3, NothingEscaped
<1>5. 0 < Len(Escaped(c[0 + 1]))
  <2>1. c[1] \in Byte /\ 0 + 1 = 1
    BY <1>2, <1>3
  <2>2. Len(Escaped(c[1])) = IF c[1] = PACK_START THEN 3 ELSE 1
    BY <2>1, EscapedByte
  <2> QED
    BY <2>1, <2>2
<1>6. Holds(<<>>, c, 0, 0, 0)
  <2>1. Len(<<>>) = 0 - 0 + 0 /\ 1 .. 0 - 0 = {} /\ 1 .. 0 = {}
    BY NoBytes
  <2> QED
    BY <2>1 DEF Holds
<1>7. InHeader(x, c, 0, 0)
  BY <1>1, <1>6 DEF InHeader
<1>8. gentle => Sane(x.patternReplaced, c, 0, 0, 0)
  BY <1>1 DEF Sane
<1> QED
  BY <1>2, <1>4, <1>5, <1>7, <1>8 DEF Midway, x

\* The byte that comes next in a package.
LEMMA NextByte ==
    ASSUME NEW p \in Packages, NEW c \in Seq(Byte), c = Contents(p),
           NEW j \in 0 .. Len(c) - 1, NEW r \in 0 .. 2, r < Len(Escaped(c[j + 1]))
    PROVE  LET k == 2 + EscapedLen(c, j) + r
           IN  /\ k \in 2 .. Len(Written[p])
               /\ Written[p][k] = Escaped(c[j + 1])[r + 1]
               /\ k + 1 = 2 + EscapedLen(c, NextJ(c, j, r)) + NextR(c, j, r)
               /\ k = Len(Written[p]) <=> NextJ(c, j, r) = Len(c)
<1> DEFINE k == 2 + EscapedLen(c, j) + r
<1>1. /\ EscapedLen(c, j) + r + 1 \in 1 .. EscapedLen(c, Len(c))
      /\ EscapedAll(c)[EscapedLen(c, j) + r + 1] = Escaped(c[j + 1])[r + 1]
  <2>1. r \in Nat
    OBVIOUS
  <2> QED
    BY <2>1, EscapedAt
<1>2. /\ NextJ(c, j, r) \in 0 .. Len(c) /\ NextR(c, j, r) \in 0 .. 2
      /\ EscapedLen(c, NextJ(c, j, r)) + NextR(c, j, r) = EscapedLen(c, j) + r + 1
      /\ NextJ(c, j, r) < Len(c) => NextR(c, j, r) < Len(Escaped(c[NextJ(c, j, r) + 1]))
      /\ NextJ(c, j, r) = Len(c) => NextR(c, j, r) = 0
  BY NextPlace
<1>3. PICK j2 \in 0 .. Len(c), r2 \in 0 .. 2 : j2 = NextJ(c, j, r) /\ r2 = NextR(c, j, r)
  BY <1>2
<1>4. Len(c) \in Nat /\ j \in 0 .. Len(c) /\ Len(c) \in 0 .. Len(c)
  OBVIOUS
<1>5. PICK e \in Nat, e2 \in Nat, f \in Nat :
         e = EscapedLen(c, j) /\ e2 = EscapedLen(c, j2) /\ f = EscapedLen(c, Len(c))
  BY <1>4, EscapedLenType
<1>6. e + r + 1 \in 1 .. f /\ e2 + r2 = e + r + 1 /\ k = 2 + e + r
  BY <1>1, <1>2, <1>3, <1>5
<1>7. /\ Len(Written[p]) = 1 + f
      /\ \A i \in 2 .. Len(Written[p]) : Written[p][i] = EscapedAll(c)[i - 1]
  BY <1>5, WrittenFacts
<1>8. k \in 2 .. 1 + f /\ k - 1 = e + r + 1 /\ k + 1 = 2 + e2 + r2
  BY <1>6
<1>9. Written[p][k] = Escaped(c[j + 1])[r + 1]
  BY <1>1, <1>5, <1>7, <1>8
<1>10. k = 1 + f <=> j2 = Len(c)
  <2>1. CASE j2 = Len(c)
    <3>1. r2 = 0 /\ e2 = f
      BY <1>2, <1>3, <1>5, <2>1
    <3> QED
      BY <1>6, <2>1, <3>1
  <2>2. CASE j2 # Len(c)
    <3>1. j2 \in 0 .. Len(c) - 1 /\ r2 \in Nat
      BY <1>4, <2>2
    <3>2. r2 < Len(Escaped(c[j2 + 1]))
      BY <1>2, <1>3, <3>1
    <3>3. EscapedLen(c, j2) + r2 + 1 \in 1 .. EscapedLen(c, Len(c))
      BY <3>1, <3>2, EscapedAt
    <3>4. e2 + r2 + 1 \in 1 .. f
      BY <1>5, <3>3
    <3> QED
      BY <1>6, <2>2, <3>4
  <2> QED
    BY <2>1, <2>2
<1> QED
  BY <1>3, <1>5, <1>7, <1>8, <1>9, <1>10

\* In the header.
LEMMA HeaderStep ==
    ASSUME RxOK(rx), NEW p \in Packages, NEW c \in Seq(Byte), c = Contents(p),
           NEW j \in 0 .. Len(c) - 1, NEW r \in 0 .. 2, r < Len(Escaped(c[j + 1])),
           InHeader(rx, c, j, r),
           \/ Sane(rx.patternReplaced, c, 0, j, r)
           \/ Harmless(c, 0, j, r),
           NEW chr, chr = Escaped(c[j + 1])[r + 1]
    PROVE  LET x == After(chr)
               j2 == NextJ(c, j, r)
               r2 == NextR(c, j, r)
           IN  /\ ~Assembles(chr)
               /\ j2 < Len(c)
               /\ \/ /\ InHeader(x, c, j2, r2)
                     /\ Sane(rx.patternReplaced, c, 0, j, r)
                           => Sane(x.patternReplaced, c, 0, j2, r2)
                  \/ InPayload(x, c, j2, r2)
<1>1. PICK d \in Seq(Byte), rep \in Nat : d = rx.data /\ rep = rx.patternReplaced
  BY RxFields
<1>2. /\ rx.state = "STATE_READ_HEADER" /\ Holds(d, c, 0, j, r) /\ j + r <= 5
      /\ j = 5 => c[j] # PACK_START
  BY <1>1 DEF InHeader
<1>3. /\ Contents(p) \in Seq(Byte)
      /\ Len(Contents(p)) = Len(p.payload) + 8
      /\ \A m \in 1 .. 4 : Contents(p)[m] = Header(p)[m]
      /\ SubSeq(c, 1, HeaderSize) = Header(p)
  BY ContentsFacts, ContentsBeginWithHeader
<1>4. Len(c) >= 9
  <2>1. PICK l \in Nat : l = Len(p.payload) /\ l >= 1
    BY PackageFacts
  <2> QED
    BY <1>3, <2>1
<1>5. PICK b \in Byte : b = c[j + 1]
  OBVIOUS
<1>6. Len(Escaped(b)) = IF b = PACK_START THEN 3 ELSE 1
  BY EscapedByte
<1>7. PICK j2 \in 0 .. Len(c), r2 \in 0 .. 2 : j2 = NextJ(c, j, r) /\ r2 = NextR(c, j, r)
  BY NextPlace
<1>8. \/ b # PACK_START /\ r = 0 /\ j2 = j + 1 /\ r2 = 0
      \/ b = PACK_START /\ r < 2 /\ j2 = j /\ r2 = r + 1
      \/ b = PACK_START /\ r = 2 /\ j2 = j + 1 /\ r2 = 0
  BY <1>5, <1>6, <1>7 DEF NextJ, NextR
<1> DEFINE cc == Checked(Append(d, chr), rep)
<1>9. /\ ~cc.start
      /\ cc.data \in Seq(Byte)
      /\ cc.replaced \in Nat
      /\ Holds(cc.data, c, 0, j2, r2)
      /\ Sane(rep, c, 0, j, r) => Sane(cc.replaced, c, 0, j2, r2)
  <2>1. 0 \in Nat /\ 0 <= j /\ (Sane(rep, c, 0, j, r) \/ Harmless(c, 0, j, r))
    BY <1>1
  <2>2. LET c2 == Checked(Append(d, Escaped(c[j + 1])[r + 1]), rep)
        IN  /\ ~c2.start
            /\ c2.data \in Seq(Byte)
            /\ c2.replaced \in Nat
            /\ Holds(c2.data, c, 0, NextJ(c, j, r), NextR(c, j, r))
            /\ Sane(rep, c, 0, j, r) => Sane(c2.replaced, c, 0, NextJ(c, j, r), NextR(c, j, r))
    BY <1>2, <2>1, PrefixStep
  <2> QED
    BY <1>7, <2>2
<1> HIDE DEF cc
<1>10. Restarted(cc) = cc.data
  BY <1>9 DEF Restarted
<1>11. PICK e \in Seq(Byte) : e = cc.data /\ Len(e) = j2 + r2
  <2>1. Len(cc.data) = j2 - 0 + r2 /\ j2 - 0 + r2 = j2 + r2
    BY <1>9 DEF Holds
  <2> QED
    BY <1>9, <2>1
<1>12. j2 < Len(c) /\ j2 + r2 <= 6
  BY <1>2, <1>4, <1>8
<1>13. ~Assembles(chr)
  BY <1>2 DEF Assembles
<1>14. AfterHeader(chr) =
        IF Len(e) < HeaderSize + 2
        THEN In("STATE_READ_HEADER", e, cc.replaced, rx.header)
        ELSE IF EndsWithStart(LastTwo(e))
        THEN In("STATE_READ_HEADER", <<>>, 0, SubSeq(e, 1, HeaderSize))
        ELSE IF ValidHeader(SubSeq(e, 1, HeaderSize))
        THEN In("STATE_READ_PAYLOAD", LastTwo(e), 0, SubSeq(e, 1, HeaderSize))
        ELSE In("STATE_START", <<>>, 0, SubSeq(e, 1, HeaderSize))
  BY <1>1, <1>10, <1>11 DEF AfterHeader, cc
<1>15. After(chr) = AfterHeader(chr)
  BY <1>2, AfterIs
<1>16. CASE j2 + r2 < 6
  <2>1. After(chr) = In("STATE_READ_HEADER", e, cc.replaced, rx.header)
    BY <1>11, <1>14, <1>15, <1>16
  <2>2. j2 + r2 <= HeaderSize + 1 /\ (j2 = HeaderSize + 1 => c[j2] # PACK_START)
    BY <1>2, <1>5, <1>8, <1>16
  <2>3. InHeader(After(chr), c, j2, r2)
    BY <1>9, <1>11, <2>1, <2>2, InFields DEF InHeader
  <2>4. Sane(rep, c, 0, j, r) => Sane(After(chr).patternReplaced, c, 0, j2, r2)
    BY <1>9, <2>1, InFields
  <2> QED
    BY <1>1, <1>7, <1>12, <1>13, <2>3, <2>4
<1>17. CASE j2 + r2 = 6
  <2>1. \/ j2 = 6 /\ r2 = 0 /\ c[6] # PACK_START
        \/ j2 = 5 /\ r2 = 1
        \/ j2 = 4 /\ r2 = 2
    BY <1>2, <1>5, <1>8, <1>17
  <2>2. Len(e) = 6
    BY <1>11, <1>17
  <2>3. PICK h \in Seq(Byte), t \in Seq(Byte) :
           /\ h = SubSeq(e, 1, HeaderSize) /\ Len(h) = HeaderSize
           /\ \A i \in 1 .. 4 : h[i] = e[i]
           /\ t = LastTwo(e) /\ Len(t) = 2
           /\ t[1] = e[5] /\ t[2] = e[6]
    BY <2>2, HeaderAndTwo
  <2>4. /\ \A m \in 1 .. j2 : e[m] = c[m]
        /\ \A m \in 1 .. r2 : e[j2 + m] = Mark[m]
    <3>1. /\ \A m \in 1 .. j2 - 0 : e[m] = c[0 + m]
          /\ \A m \in 1 .. r2 : e[j2 - 0 + m] = Mark[m]
      BY <1>9, <1>11 DEF Holds
    <3>2. j2 - 0 = j2 /\ \A m \in 1 .. j2 : 0 + m = m
      OBVIOUS
    <3> QED
      BY <3>1, <3>2
  <2>5. h = SubSeq(c, 1, HeaderSize)
    <3>1. \A i \in 1 .. 4 : h[i] = Header(p)[i]
      <4>1. \A i \in 1 .. 4 : i \in 1 .. j2
        BY <2>1
      <4> QED
        BY <1>3, <2>3, <2>4, <4>1
    <3>2. Header(p) \in Seq(Byte) /\ Len(Header(p)) = HeaderSize
      BY HeaderFacts
    <3>3. h = Header(p)
      BY <2>3, <3>1, <3>2, SeqEqual
    <3> QED
      BY <1>3, <3>3
  <2>6. Holds(t, c, 4, j2, r2) /\ (t[2] = PACK_START => t[1] = PACK_REP)
    <3>1. CASE j2 = 6 /\ r2 = 0 /\ c[6] # PACK_START
      <4>1. t[1] = c[5] /\ t[2] = c[6]
        BY <2>3, <2>4, <3>1
      <4>2. Len(t) = 6 - 4 + 0 /\ \A m \in 1 .. 6 - 4 : t[m] = c[4 + m]
        BY <2>3, <4>1
      <4>3. \A m \in 1 .. 0 : t[6 - 4 + m] = Mark[m]
        OBVIOUS
      <4> QED
        BY <3>1, <4>1, <4>2, <4>3 DEF Holds
    <3>2. CASE j2 = 5 /\ r2 = 1
      <4>1. t[1] = c[5] /\ t[2] = Mark[1]
        <5>1. 1 \in 1 .. r2 /\ j2 + 1 = 6 /\ 5 \in 1 .. j2
          BY <3>2
        <5> QED
          BY <2>3, <2>4, <5>1
      <4>2. Len(t) = 5 - 4 + 1 /\ \A m \in 1 .. 5 - 4 : t[m] = c[4 + m]
        BY <2>3, <4>1
      <4>3. \A m \in 1 .. 1 : t[5 - 4 + m] = Mark[m]
        BY <4>1
      <4> QED
        BY <3>2, <4>1, <4>2, <4>3, MarkElements DEF Holds
    <3>3. CASE j2 = 4 /\ r2 = 2
      <4>1. t[1] = Mark[1] /\ t[2] = Mark[2]
        <5>1. 1 \in 1 .. r2 /\ 2 \in 1 .. r2 /\ j2 + 1 = 5 /\ j2 + 2 = 6
          BY <3>3
        <5> QED
          BY <2>3, <2>4, <5>1
      <4>2. Len(t) = 4 - 4 + 2 /\ \A m \in 1 .. 4 - 4 : t[m] = c[4 + m]
        BY <2>3
      <4>3. \A m \in 1 .. 2 : t[4 - 4 + m] = Mark[m]
        BY <4>1
      <4> QED
        BY <3>3, <4>1, <4>2, <4>3, MarkElements DEF Holds
    <3> QED
      BY <2>1, <3>1, <3>2, <3>3
  <2>7. ~EndsWithStart(t)
    BY <2>3, <2>6 DEF EndsWithStart
  <2>8. ValidHeader(h)
    <3>1. /\ Header(p)[1] = p.packType /\ Header(p)[3] = Len(p.payload)
          /\ p.packType \in {PACK_TYPE_DATA_PACKAGE, PACK_TYPE_REC_ACKNOWLEDGE}
      BY HeaderFacts, PackageFacts
    <3>2. Len(p.payload) <= MaxPayload
      BY PackageFacts, FramingAssumption
    <3> QED
      BY <1>3, <2>5, <3>1, <3>2 DEF ValidHeader
  <2>9. After(chr) = In("STATE_READ_PAYLOAD", t, 0, h)
    <3>1. ~(Len(e) < HeaderSize + 2)
      BY <2>2
    <3> QED
      BY <1>14, <1>15, <2>3, <2>7, <2>8, <3>1
  <2>10. Sane(0, c, 4, j2, r2)
    BY <2>1 DEF Sane
  <2>11. j2 >= HeaderSize /\ j2 - HeaderSize + r2 >= 1
    BY <2>1
  <2>12. InPayload(After(chr), c, j2, r2)
    <3>1. /\ After(chr).state = "STATE_READ_PAYLOAD" /\ After(chr).data = t
          /\ After(chr).patternReplaced = 0 /\ After(chr).header = h
      BY <2>9, InFields
    <3>2. Holds(After(chr).data, c, 4, j2, r2) /\ Sane(After(chr).patternReplaced, c, 4, j2, r2)
      BY <2>6, <2>10, <3>1
    <3> QED
      BY <2>5, <2>11, <3>1, <3>2, Zenon DEF InPayload
  <2> QED
    BY <1>7, <1>12, <1>13, <2>12
<1> QED
  BY <1>12, <1>16, <1>17

-----------------------------------------------------------------------------
(* The end of a package *)

\* The data hold the payload and its checksum when the contents are complete.
LEMMA CompleteData ==
    ASSUME NEW p \in Packages, NEW e \in Seq(Byte), NEW l \in Nat, l = Len(p.payload),
           Holds(e, Contents(p), 4, l + 8, 0)
    PROVE  /\ SubSeq(e, 1, l) = p.payload
           /\ SubSeq(e, l + 1, l + 2) = p.crc16payload
<1>1. /\ \A m \in 1 .. l : Contents(p)[4 + m] = p.payload[m]
      /\ Contents(p)[l + 5] = p.crc16payload[1]
      /\ Contents(p)[l + 6] = p.crc16payload[2]
  BY ContentsFacts
<1>2. PICK y \in Seq(Byte), z \in Seq(Byte) :
         y = p.payload /\ Len(y) = l /\ z = p.crc16payload /\ Len(z) = 2
  BY PackageFacts
<1>3. Len(e) = l + 4 /\ \A m \in 1 .. l + 4 : e[m] = Contents(p)[4 + m]
  <2>1. /\ Len(e) = (l + 8) - 4 + 0
        /\ \A m \in 1 .. (l + 8) - 4 : e[m] = Contents(p)[4 + m]
    BY DEF Holds
  <2>2. (l + 8) - 4 + 0 = l + 4 /\ (l + 8) - 4 = l + 4
    OBVIOUS
  <2> QED
    BY <2>1, <2>2
<1>4. \A m \in 1 .. l : e[m] = y[m]
  <2>1. \A m \in 1 .. l : m \in 1 .. l + 4
    OBVIOUS
  <2> QED
    BY <1>1, <1>2, <1>3, <2>1
<1>5. e[l + 1] = z[1] /\ e[l + 2] = z[2]
  <2>1. /\ l + 1 \in 1 .. l + 4 /\ l + 2 \in 1 .. l + 4
        /\ 4 + (l + 1) = l + 5 /\ 4 + (l + 2) = l + 6
    OBVIOUS
  <2>2. e[l + 1] = Contents(p)[4 + (l + 1)] /\ e[l + 2] = Contents(p)[4 + (l + 2)]
    BY <1>3, <2>1
  <2> QED
    BY <1>1, <1>2, <2>1, <2>2
<1>6. SubSeq(e, 1, l) = y
  <2>1. \A i \in 1 .. l : e[i] \in Byte
    BY <1>3
  <2>2. /\ SubSeq(e, 1, l) \in Seq(Byte)
        /\ Len(SubSeq(e, 1, l)) = IF 1 <= l THEN l - 1 + 1 ELSE 0
        /\ \A i \in 1 .. l - 1 + 1 : SubSeq(e, 1, l)[i] = e[1 + i - 1]
    BY <2>1, SubSeqProperties
  <2>3. l - 1 + 1 = l /\ (~(1 <= l) => l = 0) /\ \A i \in 1 .. l : 1 + i - 1 = i
    OBVIOUS
  <2>4. PICK q \in Seq(Byte) : q = SubSeq(e, 1, l) /\ Len(q) = l /\ \A i \in 1 .. l : q[i] = y[i]
    <3>1. Len(SubSeq(e, 1, l)) = l
      BY <2>2, <2>3
    <3>2. \A i \in 1 .. l : SubSeq(e, 1, l)[i] = e[i]
      BY <2>2, <2>3
    <3> QED
      BY <1>4, <2>2, <3>1, <3>2
  <2>5. q = y
    BY <1>2, <2>4, SeqEqual
  <2> QED
    BY <2>4, <2>5
<1>7. SubSeq(e, l + 1, l + 2) = z
  <2>1. \A i \in l + 1 .. l + 2 : e[i] \in Byte
    BY <1>3
  <2>2. /\ SubSeq(e, l + 1, l + 2) \in Seq(Byte)
        /\ Len(SubSeq(e, l + 1, l + 2)) = IF l + 1 <= l + 2 THEN (l + 2) - (l + 1) + 1 ELSE 0
        /\ \A i \in 1 .. (l + 2) - (l + 1) + 1 :
               SubSeq(e, l + 1, l + 2)[i] = e[(l + 1) + i - 1]
    BY <2>1, SubSeqProperties
  <2>3. /\ (l + 2) - (l + 1) + 1 = 2 /\ l + 1 <= l + 2 /\ 1 \in 1 .. 2 /\ 2 \in 1 .. 2
        /\ (l + 1) + 1 - 1 = l + 1 /\ (l + 1) + 2 - 1 = l + 2
    OBVIOUS
  <2>4. PICK q \in Seq(Byte) : q = SubSeq(e, l + 1, l + 2) /\ Len(q) = 2
                               /\ q[1] = z[1] /\ q[2] = z[2]
    BY <1>5, <2>2, <2>3
  <2>5. \A i \in 1 .. 2 : q[i] = z[i]
    BY <2>4
  <2>6. q = z
    BY <1>2, <2>4, <2>5, SeqEqual
  <2> QED
    BY <2>4, <2>6
<1> QED
  BY <1>2, <1>6, <1>7

\* So what is taken from them is the package.
LEMMA TakenIsReceived ==
    ASSUME NEW p \in Packages, rx.header = Header(p), NEW cc,
           SubSeq(cc.data, 1, Len(p.payload)) = p.payload,
           SubSeq(cc.data, Len(p.payload) + 1, Len(p.payload) + 2) = p.crc16payload
    PROVE  TakenFrom(cc) = Received(p)
<1>1. /\ Header(p)[1] = p.packType /\ Header(p)[2] = p.sysTime[1]
      /\ Header(p)[3] = Len(p.payload) /\ Header(p)[4] = p.crc8Header
  BY HeaderFacts
<1>2. /\ p \in Package
      /\ p.packType \in {PACK_TYPE_DATA_PACKAGE, PACK_TYPE_REC_ACKNOWLEDGE}
      /\ p.packType = PACK_TYPE_REC_ACKNOWLEDGE => Len(p.payload) = 4
  BY PackageFacts
<1>3. <<p.sysTime[1]>> = p.sysTime
  <2>1. PICK s \in Seq(Byte) : s = p.sysTime /\ Len(s) = 1
    BY PackageFacts
  <2>2. PICK b \in Byte : b = s[1]
    BY <2>1
  <2>3. <<b>> \in Seq(Byte) /\ Len(<<b>>) = 1 /\ <<b>>[1] = b
    BY OneElement
  <2>4. \A i \in 1 .. Len(<<b>>) : <<b>>[i] = s[i]
    BY <2>2, <2>3
  <2>5. <<b>> = s
    BY <2>1, <2>3, <2>4, SeqEqual
  <2> QED
    BY <2>1, <2>2, <2>5
<1>4. p.packType = PACK_TYPE_REC_ACKNOWLEDGE =>
         SubSeq(p.payload, Len(p.payload) - 3, Len(p.payload)) = p.payload
  <2> SUFFICES ASSUME p.packType = PACK_TYPE_REC_ACKNOWLEDGE
               PROVE  SubSeq(p.payload, Len(p.payload) - 3, Len(p.payload)) = p.payload
    OBVIOUS
  <2>1. PICK s \in Seq(Byte) : s = p.payload /\ Len(s) = 4
    BY <1>2, PackageFacts
  <2>2. \A i \in 1 .. 4 : s[i] \in Byte
    BY <2>1
  <2>3. /\ SubSeq(s, 1, 4) \in Seq(Byte)
        /\ Len(SubSeq(s, 1, 4)) = IF 1 <= 4 THEN 4 - 1 + 1 ELSE 0
        /\ \A i \in 1 .. 4 - 1 + 1 : SubSeq(s, 1, 4)[i] = s[1 + i - 1]
    BY <2>2, SubSeqProperties
  <2>4. 4 - 1 + 1 = 4 /\ 1 <= 4 /\ \A i \in 1 .. 4 : 1 + i - 1 = i
    OBVIOUS
  <2>5. PICK q \in Seq(Byte) : q = SubSeq(s, 1, 4) /\ Len(q) = 4 /\ \A i \in 1 .. 4 : q[i] = s[i]
    BY <2>3, <2>4
  <2>6. q = s
    BY <2>1, <2>5, SeqEqual
  <2>7. Len(s) - 3 = 1
    BY <2>1
  <2> QED
    BY <2>1, <2>5, <2>6, <2>7
<1>5. Number(p.packType, p.sysTime, p.payload) =
         IF p.packType = PACK_TYPE_REC_ACKNOWLEDGE THEN p.payload ELSE p.sysTime
  <2>1. p.packType = PACK_TYPE_REC_ACKNOWLEDGE => Len(p.payload) >= 4
    <3>1. p.packType = PACK_TYPE_REC_ACKNOWLEDGE => Len(p.payload) = 4
      BY <1>2
    <3>2. 4 >= 4
      OBVIOUS
    <3> QED
      BY <3>1, <3>2
  <2> QED
    BY <1>4, <2>1 DEF Number
<1>6. TakenFrom(cc) =
        [packType |-> p.packType, sysTime |-> Number(p.packType, p.sysTime, p.payload),
         payload |-> p.payload, crc8Header |-> p.crc8Header, crc16payload |-> p.crc16payload]
  BY <1>1, <1>3 DEF TakenFrom
<1>7. CASE p.packType = PACK_TYPE_REC_ACKNOWLEDGE
  <2>1. [p EXCEPT !.sysTime = p.payload] =
        [packType |-> p.packType, sysTime |-> p.payload,
         payload |-> p.payload, crc8Header |-> p.crc8Header, crc16payload |-> p.crc16payload]
    BY <1>2 DEF Package
  <2> QED
    BY <1>5, <1>6, <1>7, <2>1 DEF Received
<1>8. CASE p.packType # PACK_TYPE_REC_ACKNOWLEDGE
  <2>1. p =
        [packType |-> p.packType, sysTime |-> p.sysTime,
         payload |-> p.payload, crc8Header |-> p.crc8Header, crc16payload |-> p.crc16payload]
    BY <1>2 DEF Package
  <2> QED
    BY <1>5, <1>6, <1>8, <2>1 DEF Received
<1> QED
  BY <1>7, <1>8

\* In the payload: the package is complete when its contents are.
LEMMA PayloadStep ==
    ASSUME RxOK(rx), NEW p \in Packages, NEW c \in Seq(Byte), c = Contents(p),
           NEW j \in 0 .. Len(c) - 1, NEW r \in 0 .. 2, r < Len(Escaped(c[j + 1])),
           InPayload(rx, c, j, r),
           NEW chr, chr = Escaped(c[j + 1])[r + 1]
    PROVE  /\ NextJ(c, j, r) < Len(c) => /\ ~Assembles(chr)
                                         /\ InPayload(After(chr), c, NextJ(c, j, r), NextR(c, j, r))
           /\ NextJ(c, j, r) = Len(c) => /\ Assembles(chr)
                                         /\ TakenFrom(PayloadRead(chr)) = Received(p)
                                         /\ After(chr).state = "STATE_START"
<1>1. PICK d \in Seq(Byte), rep \in Nat : d = rx.data /\ rep = rx.patternReplaced
  BY RxFields
<1>2. /\ rx.state = "STATE_READ_PAYLOAD" /\ Holds(d, c, 4, j, r) /\ j >= 4
      /\ Sane(rep, c, 4, j, r)
      /\ rx.header = SubSeq(c, 1, HeaderSize)
  BY <1>1 DEF InPayload
<1>3. PICK l \in Nat : l = Len(p.payload) /\ l >= 1
  BY PackageFacts
<1>4. /\ Len(c) = l + 8 /\ c[l + 7] = PACK_FILL /\ c[l + 8] = PACK_FILL
      /\ rx.header = Header(p) /\ rx.header[3] = l
  <2>1. rx.header = Header(p) /\ Header(p)[3] = Len(p.payload)
    BY <1>2, ContentsBeginWithHeader, HeaderFacts
  <2> QED
    BY <1>3, <2>1, ContentsFacts
<1>5. PICK b \in Byte : b = c[j + 1]
  OBVIOUS
<1>6. Len(Escaped(b)) = IF b = PACK_START THEN 3 ELSE 1
  BY EscapedByte
<1>7. PICK j2 \in 0 .. Len(c), r2 \in 0 .. 2 :
         /\ j2 = NextJ(c, j, r) /\ r2 = NextR(c, j, r)
         /\ j2 < Len(c) => r2 < Len(Escaped(c[j2 + 1]))
         /\ j2 = Len(c) => r2 = 0
  BY NextPlace
<1>8. \/ b # PACK_START /\ r = 0 /\ j2 = j + 1 /\ r2 = 0
      \/ b = PACK_START /\ r < 2 /\ j2 = j /\ r2 = r + 1
      \/ b = PACK_START /\ r = 2 /\ j2 = j + 1 /\ r2 = 0
  BY <1>5, <1>6, <1>7 DEF NextJ, NextR
<1> DEFINE cc == Checked(Append(d, chr), rep)
<1>9. /\ ~cc.start
      /\ cc.data \in Seq(Byte)
      /\ cc.replaced \in Nat
      /\ Holds(cc.data, c, 4, j2, r2)
      /\ Sane(cc.replaced, c, 4, j2, r2)
  <2>1. 4 \in Nat /\ 4 <= j
    BY <1>2
  <2>2. LET c2 == Checked(Append(d, Escaped(c[j + 1])[r + 1]), rep)
        IN  /\ ~c2.start
            /\ c2.data \in Seq(Byte)
            /\ c2.replaced \in Nat
            /\ Holds(c2.data, c, 4, NextJ(c, j, r), NextR(c, j, r))
            /\ Sane(rep, c, 4, j, r) => Sane(c2.replaced, c, 4, NextJ(c, j, r), NextR(c, j, r))
    BY <1>2, <2>1, PrefixStep
  <2> QED
    BY <1>2, <1>7, <2>2
<1>10. PayloadRead(chr) = cc
  BY <1>1 DEF PayloadRead
<1> HIDE DEF cc
<1>11. PICK e \in Seq(Byte) : e = cc.data /\ Len(e) = j2 - 4 + r2
  BY <1>9 DEF Holds
<1>12. PackageComplete(cc) <=> j2 - 4 + r2 >= l + 4
  BY <1>4, <1>9, <1>11 DEF PackageComplete
<1>13. After(chr) = AfterPayload(chr)
  BY <1>2, AfterIs
<1>14. CASE j2 < Len(c)
  <2>1. ~(j2 - 4 + r2 >= l + 4)
    <3> SUFFICES ASSUME j2 - 4 + r2 >= l + 4 PROVE FALSE
      OBVIOUS
    <3>0. j2 \in Nat /\ j2 < l + 8 /\ r2 \in 0 .. 2
      BY <1>4, <1>14
    <3>1. (j2 + 1 = l + 7 \/ j2 + 1 = l + 8) /\ r2 >= 1
      BY <3>0
    <3>2. PICK f \in Byte : f = PACK_FILL
      BY DEF Byte
    <3>3. c[j2 + 1] = f
      BY <1>4, <3>1, <3>2
    <3>4. Len(Escaped(f)) = 1
      BY <3>2, EscapedByte
    <3> QED
      BY <1>7, <1>14, <3>1, <3>3, <3>4
  <2>2. ~PackageComplete(cc)
    BY <1>12, <2>1
  <2>3. After(chr) = In("STATE_READ_PAYLOAD", e, cc.replaced, rx.header)
    BY <1>9, <1>10, <1>11, <1>13, <2>2 DEF AfterPayload
  <2>4. j2 >= HeaderSize /\ j2 - HeaderSize + r2 >= 1
    BY <1>2, <1>8
  <2>5. InPayload(After(chr), c, j2, r2)
    <3>1. /\ After(chr).state = "STATE_READ_PAYLOAD" /\ After(chr).data = e
          /\ After(chr).patternReplaced = cc.replaced /\ After(chr).header = rx.header
      BY <2>3, InFields
    <3>2. Holds(After(chr).data, c, 4, j2, r2) /\ Sane(After(chr).patternReplaced, c, 4, j2, r2)
      BY <1>9, <1>11, <3>1
    <3> QED
      BY <1>2, <2>4, <3>1, <3>2, Zenon DEF InPayload
  <2>6. ~Assembles(chr)
    BY <1>10, <2>2 DEF Assembles
  <2> QED
    BY <1>7, <1>14, <2>5, <2>6
<1>15. CASE j2 = Len(c)
  <2>1. r2 = 0 /\ j2 = l + 8 /\ j2 - 4 + r2 >= l + 4
    BY <1>4, <1>7, <1>15
  <2>2. PackageComplete(cc)
    BY <1>12, <2>1
  <2>3. After(chr).state = "STATE_START"
    BY <1>10, <1>13, <2>2, InFields DEF AfterPayload
  <2>4. Assembles(chr)
    BY <1>2, <1>3, <1>4, <1>10, <2>2 DEF Assembles
  <2>5. Holds(e, Contents(p), 4, l + 8, 0)
    BY <1>9, <1>11, <2>1
  <2>6. SubSeq(e, 1, l) = p.payload /\ SubSeq(e, l + 1, l + 2) = p.crc16payload
    BY <1>3, <2>5, CompleteData
  <2>7. TakenFrom(cc) = Received(p)
    BY <1>3, <1>4, <1>11, <2>6, TakenIsReceived
  <2> QED
    BY <1>7, <1>10, <1>15, <2>3, <2>4, <2>7
<1> QED
  BY <1>7, <1>14, <1>15

-----------------------------------------------------------------------------
(* A whole package *)

\* Without START in the header an old position of a replacement does no harm there.
LEMMA HeaderHarmless ==
    ASSUME NEW p \in Packages, NoStartInHeader(p), NEW c \in Seq(Byte), c = Contents(p),
           NEW j \in 0 .. Len(c) - 1, NEW r \in 0 .. 2, r < Len(Escaped(c[j + 1])),
           NEW x, InHeader(x, c, j, r)
    PROVE  Harmless(c, 0, j, r)
<1>1. j + r <= 5 /\ (j = 5 => c[j] # PACK_START)
  BY DEF InHeader
<1>2. \A m \in 1 .. 4 : c[m] # PACK_START
  <2>1. Header(p) \in Seq(Byte) /\ Len(Header(p)) = 4
    BY HeaderFacts
  <2>2. \A m \in 1 .. 4 : Header(p)[m] # PACK_START
    BY <2>1 DEF NoStartInHeader
  <2> QED
    BY <2>2, ContentsFacts
<1>3. j <= 3 => r = 0
  <2> SUFFICES ASSUME j <= 3 PROVE r = 0
    OBVIOUS
  <2>1. PICK b \in Byte : b = c[j + 1]
    OBVIOUS
  <2>2. b # PACK_START
    <3>1. j + 1 \in 1 .. 4
      OBVIOUS
    <3> QED
      BY <1>2, <2>1, <3>1
  <2>3. Len(Escaped(b)) = 1
    BY <2>2, EscapedByte
  <2> QED
    BY <2>1, <2>3
<1>4. r <= 1
  BY <1>1, <1>3
<1>5. r = 0 /\ j > 0 => c[j] # PACK_START
  <2>1. j <= 4 /\ j > 0 => j \in 1 .. 4
    OBVIOUS
  <2>2. j <= 4 \/ j = 5
    BY <1>1
  <2> QED
    BY <1>1, <1>2, <2>1, <2>2
<1> QED
  BY <1>4, <1>5 DEF Harmless

\* A receiver that has read all of a package so far reads on in it, and assembles it with its
\* last byte and not before.
LEMMA MidwayStep ==
    ASSUME RxOK(rx), NEW p \in Packages, NEW k, NEW gentle \in BOOLEAN,
           Midway(rx, gentle, p, k), gentle \/ NoStartInHeader(p),
           NEW chr, chr = Written[p][k]
    PROVE  /\ k \in 2 .. Len(Written[p])
           /\ k # Len(Written[p]) => /\ ~Assembles(chr)
                                     /\ Midway(After(chr), gentle, p, k + 1)
           /\ k = Len(Written[p]) => /\ Assembles(chr)
                                     /\ TakenFrom(PayloadRead(chr)) = Received(p)
                                     /\ After(chr).state = "STATE_START"
<1>1. PICK c \in Seq(Byte) : c = Contents(p)
  BY ContentsFacts
<1>2. PICK j \in 0 .. Len(c) - 1, r \in 0 .. 2 :
         /\ k = 2 + EscapedLen(c, j) + r
         /\ r < Len(Escaped(c[j + 1]))
         /\ \/ InHeader(rx, c, j, r) /\ (gentle => Sane(rx.patternReplaced, c, 0, j, r))
            \/ InPayload(rx, c, j, r)
  BY <1>1 DEF Midway
<1>3. /\ k \in 2 .. Len(Written[p])
      /\ chr = Escaped(c[j + 1])[r + 1]
      /\ k + 1 = 2 + EscapedLen(c, NextJ(c, j, r)) + NextR(c, j, r)
      /\ k = Len(Written[p]) <=> NextJ(c, j, r) = Len(c)
  <2>1. /\ k \in 2 .. Len(Written[p])
        /\ Written[p][k] = Escaped(c[j + 1])[r + 1]
        /\ k + 1 = 2 + EscapedLen(c, NextJ(c, j, r)) + NextR(c, j, r)
        /\ k = Len(Written[p]) <=> NextJ(c, j, r) = Len(c)
    BY <1>1, <1>2, NextByte
  <2> QED
    BY <2>1
<1>4. PICK j2 \in 0 .. Len(c), r2 \in 0 .. 2 :
         /\ j2 = NextJ(c, j, r) /\ r2 = NextR(c, j, r)
         /\ j2 < Len(c) => r2 < Len(Escaped(c[j2 + 1]))
  BY <1>2, NextPlace
<1>5. ASSUME j2 # Len(c),
             \/ InHeader(After(chr), c, j2, r2)
                  /\ (gentle => Sane(After(chr).patternReplaced, c, 0, j2, r2))
             \/ InPayload(After(chr), c, j2, r2)
      PROVE  Midway(After(chr), gentle, p, k + 1)
  <2>1. j2 \in 0 .. Len(c) - 1 /\ j2 < Len(c)
    BY <1>5
  <2>2. k + 1 = 2 + EscapedLen(c, j2) + r2 /\ r2 < Len(Escaped(c[j2 + 1]))
    BY <1>3, <1>4, <2>1
  <2> QED
    BY <1>1, <1>5, <2>1, <2>2 DEF Midway
<1>6. CASE InHeader(rx, c, j, r) /\ (gentle => Sane(rx.patternReplaced, c, 0, j, r))
  <2>1. Sane(rx.patternReplaced, c, 0, j, r) \/ Harmless(c, 0, j, r)
    BY <1>1, <1>2, <1>6, HeaderHarmless
  <2>2. /\ ~Assembles(chr)
        /\ j2 < Len(c)
        /\ \/ /\ InHeader(After(chr), c, j2, r2)
              /\ Sane(rx.patternReplaced, c, 0, j, r)
                    => Sane(After(chr).patternReplaced, c, 0, j2, r2)
           \/ InPayload(After(chr), c, j2, r2)
    BY <1>1, <1>2, <1>3, <1>4, <1>6, <2>1, HeaderStep
  <2>3. j2 # Len(c)
    BY <2>2
  <2>4. Midway(After(chr), gentle, p, k + 1)
    BY <1>5, <1>6, <2>2, <2>3
  <2> QED
    BY <1>3, <1>4, <2>2, <2>3, <2>4
<1>7. CASE InPayload(rx, c, j, r)
  <2>1. /\ j2 < Len(c) => ~Assembles(chr) /\ InPayload(After(chr), c, j2, r2)
        /\ j2 = Len(c) => /\ Assembles(chr)
                          /\ TakenFrom(PayloadRead(chr)) = Received(p)
                          /\ After(chr).state = "STATE_START"
    BY <1>1, <1>2, <1>3, <1>4, <1>7, PayloadStep
  <2>2. j2 # Len(c) => j2 < Len(c)
    OBVIOUS
  <2>3. j2 # Len(c) => ~Assembles(chr) /\ Midway(After(chr), gentle, p, k + 1)
    BY <1>5, <2>1, <2>2
  <2> QED
    BY <1>3, <1>4, <2>1, <2>3
<1> QED
  BY <1>2, <1>6, <1>7

-----------------------------------------------------------------------------
(* A plain package of which bytes are missing *)

\* The contents of a plain package are written as they are.
LEMMA PlainContents ==
    ASSUME NEW p \in Packages, Plain(p), NEW c \in Seq(Byte), c = Contents(p)
    PROVE  /\ \A i \in 1 .. Len(c) : c[i] \notin {PACK_START, PACK_REP}
           /\ \A j \in 0 .. Len(c) : EscapedLen(c, j) = j
           /\ \A j \in 0 .. Len(c) - 1 : Len(Escaped(c[j + 1])) = 1
<1>1. \A i \in 1 .. Len(c) : c[i] \notin {PACK_START, PACK_REP}
  BY DEF Plain
<1>2. \A j \in 0 .. Len(c) : EscapedLen(c, j) = j
  BY PlainWritten
<1>3. ASSUME NEW j \in 0 .. Len(c) - 1 PROVE Len(Escaped(c[j + 1])) = 1
  <2>1. PICK b \in Byte : b = c[j + 1] /\ b # PACK_START
    <3>1. j + 1 \in 1 .. Len(c)
      OBVIOUS
    <3> QED
      BY <1>1, <3>1
  <2> QED
    BY <2>1, EscapedByte
<1> QED
  BY <1>1, <1>2, <1>3

\* Where the receiver is in a plain package.
LEMMA PlainMidway ==
    ASSUME NEW x, RxOK(x), NEW p \in Packages, Plain(p), NEW k, Midway(x, TRUE, p, k),
           NEW c \in Seq(Byte), c = Contents(p)
    PROVE  /\ x.patternReplaced = 0
           /\ \E j \in 0 .. Len(c) - 1 :
                 /\ k = 2 + j
                 /\ \/ InHeader(x, c, j, 0)
                    \/ InPayload(x, c, j, 0)
<1>1. PICK j \in 0 .. Len(c) - 1, r \in 0 .. 2 :
         /\ k = 2 + EscapedLen(c, j) + r
         /\ r < Len(Escaped(c[j + 1]))
         /\ \/ InHeader(x, c, j, r) /\ Sane(x.patternReplaced, c, 0, j, r)
            \/ InPayload(x, c, j, r)
  BY DEF Midway
<1>2. \A i \in 1 .. Len(c) : c[i] # PACK_START
  BY PlainContents
<1>3. r = 0 /\ k = 2 + j
  <2>1. Len(Escaped(c[j + 1])) = 1 /\ EscapedLen(c, j) = j
    <3>1. j \in 0 .. Len(c)
      OBVIOUS
    <3> QED
      BY <3>1, PlainContents
  <2>2. r = 0
    BY <1>1, <2>1
  <2> QED
    BY <1>1, <2>1, <2>2
<1>4. PICK rep \in Nat : rep = x.patternReplaced
  BY DEF RxOK
<1>5. ASSUME NEW base \in 0 .. 4, base <= j, Sane(rep, c, base, j, r) PROVE rep = 0
  <2>1. rep = 0 \/ (rep < j - base /\ c[base + rep + 1] = PACK_START)
    BY <1>5 DEF Sane
  <2>2. rep < j - base => base + rep + 1 \in 1 .. Len(c)
    BY <1>4, <1>5
  <2> QED
    BY <1>2, <2>1, <2>2
<1>6. rep = 0
  <2>1. CASE Sane(x.patternReplaced, c, 0, j, r)
    <3>1. 0 \in 0 .. 4 /\ 0 <= j
      OBVIOUS
    <3> QED
      BY <1>4, <1>5, <2>1, <3>1
  <2>2. CASE InPayload(x, c, j, r)
    <3>1. 4 \in 0 .. 4 /\ 4 <= j /\ Sane(rep, c, 4, j, r)
      BY <1>4, <2>2 DEF InPayload
    <3> QED
      BY <1>5, <3>1
  <2> QED
    BY <1>1, <2>1, <2>2
<1>7. InHeader(x, c, j, 0) \/ InPayload(x, c, j, 0)
  BY <1>1, <1>3
<1> QED
  BY <1>3, <1>4, <1>6, <1>7

\* One byte behind the header goes missing.
LEMMA MissedMidway ==
    ASSUME NEW x, RxOK(x), NEW p \in Packages, Plain(p), NEW k \in Nat, k > 1 + HeaderSize,
           Midway(x, TRUE, p, k)
    PROVE  Short(x, p, k + 1)
<1>1. PICK c \in Seq(Byte) : c = Contents(p)
  BY ContentsFacts
<1>2. /\ x.patternReplaced = 0
      /\ \E j \in 0 .. Len(c) - 1 :
            /\ k = 2 + j
            /\ \/ InHeader(x, c, j, 0)
               \/ InPayload(x, c, j, 0)
  BY <1>1, PlainMidway
<1>3. PICK j \in 0 .. Len(c) - 1 :
            /\ k = 2 + j
            /\ \/ InHeader(x, c, j, 0)
               \/ InPayload(x, c, j, 0)
  BY <1>2
<1>4. \A i \in 1 .. Len(c) : c[i] \notin {PACK_START, PACK_REP}
  BY <1>1, PlainContents
<1>5. PICK d \in Seq(Byte) : d = x.data
  BY DEF RxOK
<1>6. j >= 4
  BY <1>3
<1>7. ASSUME NEW base \in {0, 4}, Holds(d, c, base, j, 0)
      PROVE  /\ Len(d) = j - base
             /\ Unmarked(d)
             /\ \A m \in 1 .. j - base : d[m] = c[base + m]
  <2>1. Len(d) = j - base + 0 /\ \A m \in 1 .. j - base : d[m] = c[base + m]
    BY <1>7 DEF Holds
  <2>2. Len(d) = j - base
    BY <2>1
  <2>3. \A m \in 1 .. j - base : base + m \in 1 .. Len(c)
    BY <1>6
  <2> QED
    BY <1>4, <2>1, <2>2, <2>3 DEF Unmarked
<1>8. CASE InHeader(x, c, j, 0)
  <2>1. Holds(d, c, 0, j, 0) /\ x.state = "STATE_READ_HEADER" /\ 0 \in {0, 4}
    BY <1>5, <1>8 DEF InHeader
  <2>2. Len(d) = j - 0 /\ Unmarked(d) /\ \A m \in 1 .. j - 0 : d[m] = c[0 + m]
    BY <1>7, <2>1
  <2>3. Len(d) = j /\ 4 <= Len(d) /\ Len(d) < (k + 1) - 2
    BY <1>3, <1>6, <2>2
  <2>4. \A m \in 1 .. 4 : d[m] = c[m]
    <3>1. \A m \in 1 .. 4 : m \in 1 .. j - 0 /\ 0 + m = m
      BY <1>6
    <3> QED
      BY <2>2, <3>1
  <2> QED
    BY <1>1, <1>2, <1>5, <2>1, <2>2, <2>3, <2>4 DEF Short
<1>9. CASE InPayload(x, c, j, 0)
  <2>1. /\ Holds(d, c, 4, j, 0) /\ x.state = "STATE_READ_PAYLOAD" /\ 4 \in {0, 4}
        /\ x.header = SubSeq(c, 1, HeaderSize)
    BY <1>5, <1>9 DEF InPayload
  <2>2. Len(d) = j - 4 /\ Unmarked(d)
    BY <1>7, <2>1
  <2>3. Len(d) < (k + 1) - 2 - HeaderSize
    BY <1>3, <1>6, <2>2
  <2> QED
    BY <1>1, <1>2, <1>5, <2>1, <2>2, <2>3 DEF Short
<1> QED
  BY <1>3, <1>8, <1>9

\* Another one.
LEMMA MissedShort ==
    ASSUME NEW x, RxOK(x), NEW p \in Packages, NEW k \in Nat, Short(x, p, k)
    PROVE  Short(x, p, k + 1)
<1>1. PICK n \in Nat : n = Len(x.data)
  BY DEF RxOK
<1>2. /\ n < k - 2 => n < (k + 1) - 2
      /\ n < k - 2 - HeaderSize => n < (k + 1) - 2 - HeaderSize
  OBVIOUS
<1> QED
  BY <1>1, <1>2 DEF Short

\* A receiver that has missed bytes of a plain package reads on without assembling it.
LEMMA ShortStep ==
    ASSUME RxOK(rx), NEW p \in Packages, NEW k \in 2 .. Len(Written[p]), Short(rx, p, k),
           NEW chr, chr = Written[p][k]
    PROVE  ~Assembles(chr) /\ Short(After(chr), p, k + 1)
<1>1. PICK c \in Seq(Byte) : c = Contents(p)
  BY ContentsFacts
<1>2. PICK d \in Seq(Byte), n \in Nat : d = rx.data /\ n = Len(d)
  BY RxFields
<1>3. /\ Plain(p) /\ rx.patternReplaced = 0 /\ Unmarked(d)
      /\ \/ /\ rx.state = "STATE_READ_HEADER"
            /\ 4 <= n /\ n < k - 2
            /\ \A m \in 1 .. 4 : d[m] = c[m]
         \/ /\ rx.state = "STATE_READ_PAYLOAD"
            /\ rx.header = SubSeq(c, 1, HeaderSize)
            /\ n < k - 2 - 4
  BY <1>1, <1>2 DEF Short
<1>4. PICK l \in Nat : l = Len(p.payload) /\ l >= 1
  BY PackageFacts
<1>5. PICK w \in Seq(Byte) : w = Written[p] /\ Len(w) = l + 9
  BY <1>3, <1>4, PlainWritten, WrittenFacts
<1>6. chr \in Byte /\ chr # PACK_START /\ chr # PACK_REP
  <2>1. chr \in Byte
    BY <1>5
  <2> QED
    BY <1>3, <2>1, PlainWritten
<1>7. k \in Nat /\ k <= l + 9
  BY <1>5
<1>8. PICK e \in Seq(Byte) : /\ e = Append(d, chr) /\ Len(e) = n + 1
                             /\ \A m \in 1 .. n : e[m] = d[m]
                             /\ e[n + 1] = chr
  <2>1. PICK e \in Seq(Byte) : /\ e = Append(d, chr) /\ Len(e) = Len(d) + 1
                               /\ \A i \in 1 .. Len(d) : e[i] = d[i]
                               /\ e[Len(d) + 1] = chr
    BY <1>6, AppendedEnd
  <2> QED
    BY <1>2, <2>1
<1> DEFINE cc == Checked(Append(d, chr), 0)
<1>9. cc.data = e /\ cc.replaced = 0 /\ ~cc.start
  <2>1. 0 \in Nat /\ ~Marked(d, chr, 0)
    BY <1>6 DEF Marked
  <2>2. LET q == Checked(Append(d, chr), 0)
        IN  /\ q.data = Append(d, chr) /\ q.replaced = 0
            /\ q.start = (chr = PACK_START /\ (Len(d) > 0 => d[Len(d)] # PACK_REP))
    BY <1>6, <2>1, CheckedUnmarked
  <2> QED
    BY <1>6, <1>8, <2>2
<1>10. Unmarked(e)
  <2> SUFFICES ASSUME NEW m \in 1 .. n + 1 PROVE e[m] \notin {PACK_START, PACK_REP}
    BY <1>8 DEF Unmarked
  <2>1. CASE m = n + 1
    BY <1>6, <1>8, <2>1
  <2>2. CASE m # n + 1
    <3>1. m \in 1 .. n
      BY <2>2
    <3> QED
      BY <1>2, <1>3, <1>8, <3>1 DEF Unmarked
  <2> QED
    BY <2>1, <2>2
<1>11. CASE rx.state = "STATE_READ_HEADER"
  <2>1. 4 <= n /\ n < k - 2 /\ \A m \in 1 .. 4 : d[m] = c[m]
    BY <1>3, <1>11
  <2>2. n < 6
    BY <1>2, <1>11 DEF RxOK
  <2>3. ~Assembles(chr)
    BY <1>11 DEF Assembles
  <2>4. \A m \in 1 .. 4 : e[m] = c[m]
    <3>1. \A m \in 1 .. 4 : m \in 1 .. n
      BY <2>1
    <3> QED
      BY <1>8, <2>1, <3>1
  <2>5. Restarted(cc) = e
    BY <1>9 DEF Restarted
  <2>6. After(chr) =
          IF Len(e) < HeaderSize + 2
          THEN In("STATE_READ_HEADER", e, 0, rx.header)
          ELSE IF EndsWithStart(LastTwo(e))
          THEN In("STATE_READ_HEADER", <<>>, 0, SubSeq(e, 1, HeaderSize))
          ELSE IF ValidHeader(SubSeq(e, 1, HeaderSize))
          THEN In("STATE_READ_PAYLOAD", LastTwo(e), 0, SubSeq(e, 1, HeaderSize))
          ELSE In("STATE_START", <<>>, 0, SubSeq(e, 1, HeaderSize))
    <3> HIDE DEF cc
    <3> QED
      BY <1>2, <1>3, <1>9, <1>11, <2>5, AfterIs DEF AfterHeader, cc
  <2>7. CASE n + 1 < 6
    <3>1. After(chr) = In("STATE_READ_HEADER", e, 0, rx.header)
      BY <1>8, <2>6, <2>7
    <3>2. 4 <= Len(e) /\ Len(e) < (k + 1) - 2
      BY <1>7, <1>8, <2>1
    <3>3. /\ After(chr).state = "STATE_READ_HEADER" /\ After(chr).data = e
          /\ After(chr).patternReplaced = 0
      BY <3>1, InFields
    <3> QED
      BY <1>1, <1>3, <1>10, <2>3, <2>4, <3>2, <3>3 DEF Short
  <2>8. CASE ~(n + 1 < 6)
    <3>1. Len(e) = 6 /\ n = 5
      BY <1>8, <2>2, <2>8
    <3>2. PICK h \in Seq(Byte), t \in Seq(Byte) :
             /\ h = SubSeq(e, 1, HeaderSize) /\ Len(h) = HeaderSize
             /\ \A i \in 1 .. 4 : h[i] = e[i]
             /\ t = LastTwo(e) /\ Len(t) = 2
             /\ t[1] = e[5] /\ t[2] = e[6]
      BY <3>1, HeaderAndTwo
    <3>3. Unmarked(t)
      <4>1. 5 \in 1 .. Len(e) /\ 6 \in 1 .. Len(e)
        BY <3>1
      <4>2. t[1] \notin {PACK_START, PACK_REP} /\ t[2] \notin {PACK_START, PACK_REP}
        BY <1>10, <3>2, <4>1 DEF Unmarked
      <4> QED
        BY <3>2, <4>2 DEF Unmarked
    <3>4. ~EndsWithStart(t)
      BY <3>2, <3>3 DEF EndsWithStart, Unmarked
    <3>5. h = Header(p) /\ h = SubSeq(c, 1, HeaderSize)
      <4>1. Header(p) \in Seq(Byte) /\ Len(Header(p)) = HeaderSize
        BY HeaderFacts
      <4>2. \A i \in 1 .. 4 : h[i] = Header(p)[i]
        BY <1>1, <2>4, <3>2, ContentsFacts
      <4>3. h = Header(p)
        BY <3>2, <4>1, <4>2, SeqEqual
      <4> QED
        BY <1>1, <4>3, ContentsBeginWithHeader
    <3>6. ValidHeader(h)
      <4>1. /\ Header(p)[1] = p.packType /\ Header(p)[3] = Len(p.payload)
            /\ p.packType \in {PACK_TYPE_DATA_PACKAGE, PACK_TYPE_REC_ACKNOWLEDGE}
        BY HeaderFacts, PackageFacts
      <4>2. Len(p.payload) <= MaxPayload
        BY PackageFacts, FramingAssumption
      <4> QED
        BY <3>5, <4>1, <4>2 DEF ValidHeader
    <3>7. After(chr) = In("STATE_READ_PAYLOAD", t, 0, h)
      <4>1. ~(Len(e) < HeaderSize + 2)
        BY <3>1
      <4> QED
        BY <2>6, <3>2, <3>4, <3>6, <4>1
    <3>8. /\ After(chr).state = "STATE_READ_PAYLOAD" /\ After(chr).data = t
          /\ After(chr).patternReplaced = 0 /\ After(chr).header = h
      BY <3>7, InFields
    <3>9. Len(t) < (k + 1) - 2 - 4
      BY <1>7, <2>1, <3>1, <3>2
    <3> QED
      BY <1>1, <1>3, <2>3, <3>3, <3>5, <3>8, <3>9 DEF Short
  <2> QED
    BY <2>7, <2>8
<1>12. CASE rx.state = "STATE_READ_PAYLOAD"
  <2>1. rx.header = SubSeq(c, 1, HeaderSize) /\ n < k - 2 - 4
    BY <1>3, <1>12
  <2>2. rx.header[3] = l
    BY <1>1, <1>4, <2>1, ContentsBeginWithHeader, HeaderFacts
  <2>3. PayloadRead(chr) = cc
    BY <1>2, <1>3 DEF PayloadRead
  <2> HIDE DEF cc
  <2>4. Len(e) < (k + 1) - 2 - 4 /\ ~(Len(e) >= l + 4)
    BY <1>7, <1>8, <2>1
  <2>5. ~PackageComplete(cc)
    BY <1>9, <2>2, <2>4 DEF PackageComplete
  <2>6. ~Assembles(chr)
    BY <2>3, <2>5 DEF Assembles
  <2>7. After(chr) = In("STATE_READ_PAYLOAD", e, 0, rx.header)
    BY <1>9, <1>12, <2>3, <2>5, AfterIs DEF AfterPayload
  <2>8. /\ After(chr).state = "STATE_READ_PAYLOAD" /\ After(chr).data = e
        /\ After(chr).patternReplaced = 0 /\ After(chr).header = rx.header
    BY <2>7, InFields
  <2> QED
    BY <1>1, <1>3, <1>10, <2>1, <2>4, <2>6, <2>8 DEF Short
<1> QED
  BY <1>3, <1>11, <1>12

-----------------------------------------------------------------------------
(* The invariant of the system *)

\* The inductive invariant.
IInv == TypeInv /\ WireInv /\ FollowInv /\ MildInv /\ AssembledInv

\* The package that comes next was sent, unless it is the next one to be sent.
LEMMA NextKnown ==
    ASSUME TypeInv, WireInv
    PROVE  /\ NextPack(wire, sent) \in 1 .. Len(sent) + 1
           /\ NextAt(wire) # 1 => /\ NextPack(wire, sent) \in 1 .. Len(sent)
                                  /\ NextAt(wire) \in 1 .. Len(Written[sent[NextPack(wire, sent)]])
           /\ Len(wire) = 0 => NextPack(wire, sent) = Len(sent) + 1
<1>1. PICK w \in Seq(Wired), s \in Seq(Packages) : w = wire /\ s = sent /\ From(w, s, spoiled)
  BY TypeFields DEF WireInv
<1>2. PICK n \in Nat : n = Len(s)
  BY <1>1
<1>3. CASE Len(w) = 0
  BY <1>1, <1>2, <1>3 DEF NextPack, NextAt
<1>4. CASE Len(w) # 0
  <2>1. 1 \in 1 .. Len(w)
    BY <1>4
  <2>2. PICK b : b = w[1] /\ Genuine(s, b)
    BY <1>1, <2>1 DEF From
  <2>3. NextPack(w, s) = b.pack /\ NextAt(w) = b.at
    BY <1>4, <2>2 DEF NextPack, NextAt
  <2>4. PICK i \in 1 .. n : i = b.pack
    BY <1>2, <2>2 DEF Genuine
  <2>5. i \in 1 .. n + 1
    OBVIOUS
  <2> QED
    BY <1>1, <1>2, <1>4, <2>2, <2>3, <2>4, <2>5 DEF Genuine
<1> QED
  BY <1>3, <1>4

\* Less is asked of the receiver where not only mild losses happened.
LEMMA MidwayWeaker ==
    ASSUME NEW x, NEW g, NEW g2, g2 => g, NEW p, NEW k, Midway(x, g, p, k)
    PROVE  Midway(x, g2, p, k)
  BY DEF Midway

\* A package ends with a fill byte.
LEMMA LastIsFill ==
    ASSUME NEW p \in Packages
    PROVE  Written[p][Len(Written[p])] = PACK_FILL
<1>1. PICK c \in Seq(Byte), l \in Nat : c = Contents(p) /\ l = Len(p.payload) /\ Len(c) = l + 8
  BY ContentsFacts, PackageFacts
<1>2. c[l + 8] = PACK_FILL
  BY <1>1, ContentsFacts
<1>3. l + 7 \in 0 .. Len(c) - 1 /\ (l + 7) + 1 = l + 8 /\ 0 \in Nat /\ 0 + 1 = 1
  BY <1>1
<1>4. Len(Escaped(PACK_FILL)) = 1 /\ Escaped(PACK_FILL)[1] = PACK_FILL
  BY EscapedByte DEF Byte
<1>5. /\ EscapedLen(c, l + 7) \in Nat
      /\ EscapedLen(c, l + 8) = EscapedLen(c, l + 7) + 1
  <2>1. /\ EscapedLen(c, l + 7) \in Nat
        /\ EscapedLen(c, (l + 7) + 1) = EscapedLen(c, l + 7) + Len(Escaped(c[(l + 7) + 1]))
    BY <1>3, EscapedLenGrows
  <2> QED
    BY <1>2, <1>3, <1>4, <2>1
<1>6. EscapedAll(c)[EscapedLen(c, l + 8)] = PACK_FILL
  <2>1. 0 < Len(Escaped(c[(l + 7) + 1]))
    BY <1>2, <1>3, <1>4
  <2>2. EscapedAll(c)[EscapedLen(c, l + 7) + 0 + 1] = Escaped(c[(l + 7) + 1])[0 + 1]
    BY <1>3, <2>1, EscapedAt
  <2> QED
    BY <1>2, <1>3, <1>4, <1>5, <2>2
<1>7. PICK n \in Nat : n = Len(Written[p]) /\ n = 1 + EscapedLen(c, l + 8) /\ n >= l + 9
  BY <1>1, WrittenFacts
<1>8. n \in 2 .. Len(Written[p])
  BY <1>7
<1>9. Written[p][n] = EscapedAll(c)[n - 1]
  BY <1>1, <1>8, WrittenFacts
<1>10. n - 1 = EscapedLen(c, l + 8)
  BY <1>5, <1>7
<1> QED
  BY <1>6, <1>7, <1>9, <1>10

\* What a byte read does to the packages assembled.
LEMMA AssembleIs ==
    ASSUME NEW chr, Assemble(chr)
    PROVE  /\ Assembles(chr) => assembled' = Append(assembled, TakenFrom(PayloadRead(chr)))
           /\ ~Assembles(chr) => assembled' = assembled
  BY DEF Assemble, Assembles

-----------------------------------------------------------------------------
(* The invariant holds at the start and when a package is written *)

\* The invariant holds at the start: the wire is empty and nothing was sent.
LEMMA InvInit == ASSUME Init PROVE IInv
<1>1. TypeInv
  BY TypeInit
<1>2. /\ Len(wire) = 0 /\ Len(sent) = 0 /\ Len(assembled) = 0 /\ spoiled = {}
      /\ rx.state = "STATE_START" /\ before = PACK_FILL
  BY DEF Init
<1>3. mild
  BY DEF Init
<1>4. NextPack(wire, sent) = 1 /\ NextAt(wire) = 1
  BY <1>2 DEF NextPack, NextAt
<1>5. WireInv
  BY <1>2 DEF WireInv, From
<1>6. FollowInv
  BY <1>4 DEF FollowInv
<1>7. MildInv
  BY <1>2, <1>4 DEF MildInv
<1>8. AssembledInv
  <2>1. DOMAIN assembled = {}
    BY DEF Init
  <2> QED
    BY <1>2, <1>3, <1>4, <2>1 DEF AssembledInv
<1> QED
  BY <1>1, <1>5, <1>6, <1>7, <1>8 DEF IInv

\* Writing a package puts its bytes behind those on the wire, all of them unless the package
\* counts as spoiled; the receiver does not notice.
LEMMA InvSend ==
    ASSUME IInv, NEW p \in Packages, SendPackage(p)
    PROVE  WireInv' /\ FollowInv' /\ MildInv' /\ AssembledInv'
<1>1. /\ wire \in Seq(Wired) /\ RxOK(rx) /\ sent \in Seq(Packages) /\ spoiled \in SUBSET Nat
      /\ mild \in BOOLEAN /\ assembled \in Seq(Package)
  BY TypeFields DEF IInv
<1>2. TypeOK
  BY DEF IInv, TypeInv
<1>3. PICK count \in 8 .. Len(Written[p]) :
              /\ wire' = wire \o Out(p, Len(sent) + 1, count)
              /\ sent' = Append(sent, p)
              /\ \/ count = Len(Written[p]) /\ spoiled' = spoiled /\ mild' = mild
                 \/ /\ spoiled' = spoiled \cup {Len(sent) + 1}
                    /\ mild' = (mild /\ Plain(p))
              /\ rx' = rx /\ assembled' = assembled /\ before' = before /\ lost' = lost
  BY <1>2, SendFacts
<1>4. PICK s \in Seq(Packages), n \in Nat : s = sent /\ n = Len(s)
  BY <1>1
<1>5. /\ spoiled \subseteq spoiled'
      /\ count = Len(Written[p]) \/ Len(s) + 1 \in spoiled'
  BY <1>3, <1>4
<1>6. From(wire, s, spoiled)
  BY <1>4 DEF IInv, WireInv
<1>7. /\ From(wire \o Out(p, Len(s) + 1, count), Append(s, p), spoiled')
      /\ NextPack(wire \o Out(p, Len(s) + 1, count), Append(s, p)) = NextPack(wire, s)
      /\ NextAt(wire \o Out(p, Len(s) + 1, count)) = NextAt(wire)
  <2>0. PICK sp, sp2 : sp = spoiled /\ sp2 = spoiled'
    OBVIOUS
  <2>1. PICK w \in Seq(Wired) : w = wire
    BY <1>1
  <2>2. From(w, s, sp) /\ sp \subseteq sp2 /\ (count = Len(Written[p]) \/ Len(s) + 1 \in sp2)
    BY <1>5, <1>6, <2>0, <2>1
  <2>3. From(Grown(w, s, p, count), Append(s, p), sp2)
    BY <2>2, SentKept
  <2>4. /\ NextPack(Grown(w, s, p, count), Append(s, p)) = NextPack(w, s)
        /\ NextAt(Grown(w, s, p, count)) = NextAt(w)
    BY NextKept
  <2> QED
    BY <2>0, <2>1, <2>3, <2>4, Zenon DEF Grown
<1>8. WireInv'
  BY <1>3, <1>4, <1>7 DEF WireInv
<1>9. PICK i, k : /\ i = NextPack(wire, sent) /\ k = NextAt(wire)
                  /\ NextPack(wire', sent') = i /\ NextAt(wire') = k
  BY <1>3, <1>4, <1>7
<1>10. i \in 1 .. n + 1 /\ (k # 1 => i \in 1 .. n)
  BY <1>4, <1>9, NextKnown DEF IInv
<1>11. \A m \in 1 .. n : sent'[m] = sent[m]
  BY <1>3, <1>4
<1>12. Len(sent') = n + 1 /\ sent'[n + 1] = p /\ DOMAIN sent = 1 .. n /\ DOMAIN sent' = 1 .. n + 1
  BY <1>3, <1>4
<1>13. mild' => mild
  BY <1>3
<1>14. \A m \in 1 .. n : m \in spoiled' <=> m \in spoiled
  <2>1. \A m \in 1 .. n : m # n + 1
    OBVIOUS
  <2> QED
    BY <1>3, <1>4, <2>1
<1>15. FollowInv'
  <2> SUFFICES ASSUME k > 1, i \notin spoiled', mild' \/ NoStartInHeader(sent'[i])
               PROVE  Midway(rx', mild', sent'[i], k)
    BY <1>9 DEF FollowInv
  <2>1. i \in 1 .. n
    <3>1. k # 1
      OBVIOUS
    <3> QED
      BY <1>10, <3>1
  <2>2. sent'[i] = sent[i] /\ i \notin spoiled
    BY <1>11, <1>14, <2>1
  <2>3. mild \/ NoStartInHeader(sent[i])
    BY <1>13, <2>2
  <2>4. Midway(rx, mild, sent[i], k)
    BY <1>9, <2>2, <2>3 DEF IInv, FollowInv
  <2>5. Midway(rx, mild', sent[i], k)
    BY <1>13, <2>4, MidwayWeaker
  <2> QED
    BY <1>3, <2>2, <2>5
<1>16. MildInv'
  <2> SUFFICES ASSUME mild'
               PROVE  /\ \A m \in spoiled' : m \in 1 .. n + 1 /\ Plain(sent'[m])
                      /\ k = 1 => /\ before # PACK_REP
                                  /\ rx.state # "STATE_START" => rx.patternReplaced = 0
                      /\ k > 1 /\ Plain(sent'[i]) => before # PACK_REP
                      /\ k > 1 /\ i \in spoiled' =>
                            Midway(rx, mild', sent'[i], k) \/ Short(rx, sent'[i], k)
    BY <1>3, <1>9, <1>12 DEF MildInv
  <2>1. /\ \A m \in spoiled : m \in 1 .. n /\ Plain(sent[m])
        /\ k = 1 => before # PACK_REP /\ (rx.state # "STATE_START" => rx.patternReplaced = 0)
        /\ k > 1 /\ Plain(sent[i]) => before # PACK_REP
        /\ k > 1 /\ i \in spoiled => Midway(rx, mild, sent[i], k) \/ Short(rx, sent[i], k)
    BY <1>4, <1>9, <1>13 DEF IInv, MildInv
  <2>2. ASSUME NEW m \in spoiled' PROVE m \in 1 .. n + 1 /\ Plain(sent'[m])
    <3>1. CASE m \in spoiled
      <4>1. m \in 1 .. n /\ Plain(sent[m])
        BY <2>1, <3>1
      <4> QED
        BY <1>11, <4>1
    <3>2. CASE m \notin spoiled
      <4>1. m = n + 1 /\ Plain(p)
        BY <1>3, <1>4, <2>2, <3>2
      <4> QED
        BY <1>12, <4>1
    <3> QED
      BY <3>1, <3>2
  <2>3. k > 1 => i \in 1 .. n /\ sent'[i] = sent[i] /\ (i \in spoiled' <=> i \in spoiled)
    <3>1. k > 1 => k # 1
      OBVIOUS
    <3> QED
      BY <1>10, <1>11, <1>14, <3>1
  <2>4. Midway(rx, mild, sent[i], k) => Midway(rx, mild', sent[i], k)
    BY <1>13, MidwayWeaker
  <2> QED
    BY <2>1, <2>2, <2>3, <2>4
<1>17. AssembledInv'
  <2>1. mild => \A m \in DOMAIN assembled : \E q \in DOMAIN sent : assembled[m] = Received(sent[q])
    BY DEF IInv, AssembledInv
  <2>2. ASSUME mild', NEW m \in DOMAIN assembled
        PROVE  \E q \in DOMAIN sent' : assembled[m] = Received(sent'[q])
    <3>1. PICK q \in 1 .. n : assembled[m] = Received(sent[q])
      BY <1>12, <1>13, <2>1, <2>2
    <3>2. q \in DOMAIN sent' /\ sent'[q] = sent[q]
      BY <1>11, <1>12
    <3> QED
      BY <3>1, <3>2
  <2>3. ASSUME spoiled' = {}
        PROVE  /\ mild' /\ Len(assembled) = i - 1
               /\ \A m \in 1 .. Len(assembled) : assembled[m] = Received(sent'[m])
    <3>1. spoiled = {} /\ (mild' <=> mild)
      BY <1>3, <2>3
    <3>2. /\ mild /\ Len(assembled) = i - 1
          /\ \A m \in 1 .. Len(assembled) : assembled[m] = Received(sent[m])
      BY <1>9, <3>1 DEF IInv, AssembledInv
    <3>3. \A m \in 1 .. Len(assembled) : m \in 1 .. n
      BY <1>10, <3>2
    <3> QED
      BY <1>11, <3>1, <3>2, <3>3
  <2> QED
    BY <1>3, <1>9, <2>2, <2>3 DEF AssembledInv
<1> QED
  BY <1>8, <1>15, <1>16, <1>17

-----------------------------------------------------------------------------
(* The invariant holds when a byte is lost or read *)

\* The byte at the head of the wire and what comes behind it.
LEMMA HeadOfWire ==
    ASSUME IInv, wire # <<>>
    PROVE  LET b == Head(wire)
               p == sent[b.pack]
           IN  /\ b.pack \in 1 .. Len(sent) /\ p \in Packages
               /\ b.at \in 1 .. Len(Written[p]) /\ b.byte = Written[p][b.at] /\ b.byte \in Byte
               /\ Len(Written[p]) \in Nat /\ Len(Written[p]) >= 10
               /\ b.at = 1 => b.byte = PACK_START
               /\ NextPack(wire, sent) = b.pack /\ NextAt(wire) = b.at
               /\ \/ /\ NextPack(Tail(wire), sent) = b.pack
                     /\ NextAt(Tail(wire)) = b.at + 1
                     /\ b.at < Len(Written[p])
                  \/ /\ NextPack(Tail(wire), sent) = b.pack + 1
                     /\ NextAt(Tail(wire)) = 1
                     /\ b.at > 1
                     /\ b.at = Len(Written[p]) \/ b.pack \in spoiled
<1>1. PICK w \in Seq(Wired), s \in Seq(Packages), b \in Wired :
         w = wire /\ s = sent /\ b = Head(w) /\ w # <<>>
  BY TypeFields, HeadFacts DEF IInv
<1>2. From(w, s, spoiled)
  BY <1>1 DEF IInv, WireInv
<1>3. /\ Genuine(s, b)
      /\ NextPack(w, s) = b.pack /\ NextAt(w) = b.at
      /\ \/ /\ NextPack(Tail(w), s) = b.pack
            /\ NextAt(Tail(w)) = b.at + 1
            /\ NextAt(Tail(w)) \in 1 .. Len(Written[s[b.pack]])
         \/ /\ NextPack(Tail(w), s) = b.pack + 1
            /\ NextAt(Tail(w)) = 1
            /\ Final(s, spoiled, b)
  BY <1>1, <1>2, NextAfter
<1>4. b.byte \in Byte /\ b.pack \in Nat /\ b.at \in Nat
  BY DEF Wired
<1>5. b.pack \in 1 .. Len(s) /\ b.byte = Written[s[b.pack]][b.at]
      /\ b.at \in 1 .. Len(Written[s[b.pack]])
  BY <1>3 DEF Genuine
<1>6. PICK p \in Packages : p = s[b.pack]
  BY <1>5
<1>7. PICK n \in Nat : n = Len(Written[p]) /\ n >= 10
  <2>1. PICK l \in 1 .. 254 : l = Len(p.payload)
    BY PackageFacts
  <2>2. PICK n \in Nat : n = Len(Written[p]) /\ n >= l + 9
    BY <2>1, WrittenFacts
  <2>3. n >= 10
    BY <2>2
  <2> QED
    BY <2>2, <2>3
<1>8. b.at = 1 => b.byte = PACK_START
  BY <1>5, <1>6, WrittenFacts
<1>9. b.at + 1 \in 1 .. n => b.at < n
  BY <1>4, <1>7
<1>10. Final(s, spoiled, b) => b.at > 1 /\ (b.at = n \/ b.pack \in spoiled)
  BY <1>4, <1>6, <1>7 DEF Final
<1> QED
  BY <1>1, <1>3, <1>4, <1>5, <1>6, <1>7, <1>8, <1>9, <1>10

\* Where the receiver is when a byte behind the first is next, as long as nothing but
\* payload, crc16 or fill bytes of plain packages is missing.
LEMMA MildlyWithin ==
    ASSUME IInv, mild, NEW i, NEW k, i = NextPack(wire, sent), k = NextAt(wire), k > 1
    PROVE  Midway(rx, TRUE, sent[i], k) \/ (i \in spoiled /\ Short(rx, sent[i], k))
<1>1. CASE i \notin spoiled
  <2>1. Midway(rx, mild, sent[i], k)
    BY <1>1 DEF IInv, FollowInv
  <2> QED
    BY <2>1, MidwayWeaker
<1>2. CASE i \in spoiled
  <2>1. Midway(rx, mild, sent[i], k) \/ Short(rx, sent[i], k)
    BY <1>2 DEF IInv, MildInv
  <2>2. Midway(rx, mild, sent[i], k) => Midway(rx, TRUE, sent[i], k)
    BY MidwayWeaker
  <2> QED
    BY <1>2, <2>1, <2>2
<1> QED
  BY <1>1, <1>2

\* A lost byte spoils its package; in a mild state the receiver has then missed bytes behind
\* the header.
LEMMA InvLose ==
    ASSUME IInv, LoseByte
    PROVE  WireInv' /\ FollowInv' /\ MildInv' /\ AssembledInv'
<1> DEFINE b == Head(wire)
<1>1. /\ wire # <<>> /\ wire' = Tail(wire)
      /\ spoiled' = spoiled \cup {b.pack}
      /\ mild' = (mild /\ Plain(sent[b.pack]) /\ b.at > 1 + HeaderSize)
      /\ rx' = rx /\ assembled' = assembled /\ sent' = sent /\ before' = before
  BY LoseFacts
<1>2. PICK i \in Nat, k \in Nat, p \in Packages :
         /\ i = b.pack /\ k = b.at /\ p = sent[i] /\ i \in 1 .. Len(sent)
         /\ i = NextPack(wire, sent) /\ k = NextAt(wire)
         /\ \/ NextPack(wire', sent) = i /\ NextAt(wire') = k + 1
            \/ NextPack(wire', sent) = i + 1 /\ NextAt(wire') = 1 /\ k > 1
  BY <1>1, HeadOfWire
<1>3. RxOK(rx) /\ wire \in Seq(Wired) /\ sent \in Seq(Packages)
  BY TypeFields DEF IInv
<1>4. k \in Nat /\ i \in Nat
  OBVIOUS
<1>5. WireInv'
  <2>1. From(wire, sent, spoiled) /\ spoiled \subseteq spoiled'
    BY <1>1 DEF IInv, WireInv
  <2>2. PICK w \in Seq(Wired), s \in Seq(Packages) : w = wire /\ s = sent
    BY <1>3
  <2>3. PICK sp, sp2 : sp = spoiled /\ sp2 = spoiled'
    OBVIOUS
  <2>4. From(Tail(w), s, sp2)
    BY <1>1, <2>1, <2>2, <2>3, TailKept
  <2> QED
    BY <1>1, <2>2, <2>3, <2>4 DEF WireInv
<1> HIDE DEF b
<1>6. FollowInv'
  <2>1. i \in spoiled'
    BY <1>1, <1>2
  <2>2. (NextPack(wire', sent) = i) \/ ~(NextAt(wire') > 1)
    BY <1>2
  <2> QED
    BY <1>1, <2>1, <2>2 DEF FollowInv
<1>7. MildInv'
  <2> SUFFICES ASSUME mild'
               PROVE  /\ \A m \in spoiled' : m \in 1 .. Len(sent) /\ Plain(sent[m])
                      /\ NextAt(wire') = 1 =>
                            /\ before # PACK_REP
                            /\ rx.state # "STATE_START" => rx.patternReplaced = 0
                      /\ NextAt(wire') > 1 /\ Plain(sent[NextPack(wire', sent)])
                            => before # PACK_REP
                      /\ NextAt(wire') > 1 /\ NextPack(wire', sent) \in spoiled'
                            => Short(rx, sent[NextPack(wire', sent)], NextAt(wire'))
    BY <1>1 DEF MildInv
  <2>0. mild /\ Plain(p) /\ k > 1 + HeaderSize
    BY <1>1, <1>2
  <2>1. mild /\ Plain(p) /\ k > 1 + HeaderSize /\ k > 1
    BY <2>0
  <2>2. \A m \in spoiled : m \in 1 .. Len(sent) /\ Plain(sent[m])
    BY <2>1 DEF IInv, MildInv
  <2>3. before # PACK_REP
    BY <1>2, <2>1 DEF IInv, MildInv
  <2>4. Midway(rx, TRUE, p, k) \/ Short(rx, p, k)
    BY <1>2, <2>1, MildlyWithin
  <2>5. Short(rx, p, k + 1)
    BY <1>3, <2>1, <2>4, MissedMidway, MissedShort
  <2>6. rx.patternReplaced = 0
    BY <2>5 DEF Short
  <2> QED
    BY <1>1, <1>2, <1>4, <2>1, <2>2, <2>3, <2>5, <2>6
<1>8. AssembledInv'
  <2>1. mild' => mild
    BY <1>1
  <2>2. spoiled' # {}
    BY <1>1
  <2> QED
    BY <1>1, <2>1, <2>2 DEF IInv, AssembledInv
<1> QED
  BY <1>5, <1>6, <1>7, <1>8

\* The step reads chr, the k-th of the n bytes of p, which is the i-th package sent; the next
\* byte is that behind it, or the first of the next package.
Reads(i, p, k, chr, n) ==
    /\ p = sent[i] /\ n = Len(Written[p]) /\ n >= 10 /\ k \in 1 .. n
    /\ chr = Written[p][k] /\ (k = 1 => chr = PACK_START)
    /\ i = NextPack(wire, sent) /\ k = NextAt(wire)
    /\ \/ NextPack(wire', sent) = i /\ NextAt(wire') = k + 1 /\ k < n
       \/ /\ NextPack(wire', sent) = i + 1 /\ NextAt(wire') = 1 /\ k > 1
          /\ k = n \/ i \in spoiled
    /\ rx' = After(chr) /\ Assemble(chr) /\ before' = chr
    /\ spoiled' = IF k = 1 /\ before = PACK_REP THEN spoiled \cup {i} ELSE spoiled
    /\ sent' = sent /\ mild' = mild /\ wire' = Tail(wire) /\ wire # <<>>

\* What is read, where, and what comes next.
LEMMA ReadFacts ==
    ASSUME IInv, ReceiveByte
    PROVE  \E i \in 1 .. Len(sent), p \in Packages, k \in Nat, chr \in Byte, n \in Nat :
              Reads(i, p, k, chr, n)
<1> DEFINE b == Head(wire)
<1>1. /\ wire # <<>> /\ wire' = Tail(wire)
      /\ rx' = After(b.byte) /\ Assemble(b.byte) /\ before' = b.byte
      /\ spoiled' = IF b.at = 1 /\ before = PACK_REP THEN spoiled \cup {b.pack} ELSE spoiled
      /\ sent' = sent /\ mild' = mild
  BY TypeFields, ReceiveFacts DEF IInv, Hidden
<1>2. /\ b.pack \in 1 .. Len(sent) /\ sent[b.pack] \in Packages
      /\ b.at \in 1 .. Len(Written[sent[b.pack]]) /\ b.byte = Written[sent[b.pack]][b.at]
      /\ b.byte \in Byte
      /\ Len(Written[sent[b.pack]]) \in Nat /\ Len(Written[sent[b.pack]]) >= 10
      /\ b.at = 1 => b.byte = PACK_START
      /\ NextPack(wire, sent) = b.pack /\ NextAt(wire) = b.at
      /\ \/ /\ NextPack(Tail(wire), sent) = b.pack
            /\ NextAt(Tail(wire)) = b.at + 1
            /\ b.at < Len(Written[sent[b.pack]])
         \/ /\ NextPack(Tail(wire), sent) = b.pack + 1
            /\ NextAt(Tail(wire)) = 1
            /\ b.at > 1
            /\ b.at = Len(Written[sent[b.pack]]) \/ b.pack \in spoiled
  BY <1>1, HeadOfWire
<1> HIDE DEF b
<1>3. PICK p \in Packages, n \in Nat : p = sent[b.pack] /\ n = Len(Written[p]) /\ n >= 10
  BY <1>2
<1>4. PICK i \in 1 .. Len(sent) : i = b.pack
  BY <1>2
<1>5. b.at \in 1 .. n
  BY <1>2, <1>3
<1>6. PICK k \in Nat : k = b.at /\ k \in 1 .. n
  BY <1>5
<1>7. PICK chr \in Byte : chr = b.byte
  BY <1>2
<1>8. /\ p = sent[i] /\ n = Len(Written[p]) /\ n >= 10 /\ k \in 1 .. n
      /\ chr = Written[p][k] /\ (k = 1 => chr = PACK_START)
      /\ i = NextPack(wire, sent) /\ k = NextAt(wire)
  BY <1>2, <1>3, <1>4, <1>6, <1>7
<1>9. \/ NextPack(wire', sent) = i /\ NextAt(wire') = k + 1 /\ k < n
      \/ /\ NextPack(wire', sent) = i + 1 /\ NextAt(wire') = 1 /\ k > 1
         /\ k = n \/ i \in spoiled
  BY <1>1, <1>2, <1>3, <1>4, <1>6
<1>10. /\ rx' = After(chr) /\ Assemble(chr) /\ before' = chr
       /\ spoiled' = IF k = 1 /\ before = PACK_REP THEN spoiled \cup {i} ELSE spoiled
       /\ sent' = sent /\ mild' = mild /\ wire' = Tail(wire) /\ wire # <<>>
  BY <1>1, <1>4, <1>6, <1>7
<1> QED
  BY <1>8, <1>9, <1>10 DEF Reads

\* The bytes left on the wire come from the same packages.
LEMMA ReceiveWire ==
    ASSUME IInv, ReceiveByte
    PROVE  WireInv'
<1>1. wire # <<>> /\ wire' = Tail(wire) /\ sent' = sent /\ spoiled \subseteq spoiled'
  BY TypeFields, ReceiveFacts DEF IInv
<1>2. PICK w \in Seq(Wired), s \in Seq(Packages) : w = wire /\ s = sent
  BY TypeFields DEF IInv
<1>3. PICK sp, sp2 : sp = spoiled /\ sp2 = spoiled'
  OBVIOUS
<1>4. From(w, s, sp)
  BY <1>2, <1>3 DEF IInv, WireInv
<1>5. From(Tail(w), s, sp2)
  BY <1>1, <1>2, <1>3, <1>4, TailKept
<1> QED
  BY <1>1, <1>2, <1>3, <1>5 DEF WireInv

\* Reading a byte of a package that is whole leaves the receiver midway in it.
LEMMA ReceiveFollow ==
    ASSUME IInv, ReceiveByte
    PROVE  FollowInv'
<1> USE DEF Reads
<1>1. PICK i \in 1 .. Len(sent), p \in Packages, k \in Nat, chr \in Byte, n \in Nat :
         Reads(i, p, k, chr, n)
  BY ReadFacts
<1>2. RxOK(rx) /\ EndsAs(rx, before) /\ mild \in BOOLEAN
  BY TypeFields DEF IInv
<1> SUFFICES ASSUME NextAt(wire') > 1, NextPack(wire', sent) \notin spoiled',
                    mild \/ NoStartInHeader(sent[NextPack(wire', sent)])
             PROVE  Midway(After(chr), mild, sent[NextPack(wire', sent)], NextAt(wire'))
  BY <1>1 DEF FollowInv
<1>3. NextPack(wire', sent) = i /\ NextAt(wire') = k + 1 /\ k < n
  <2>1. NextAt(wire') # 1
    OBVIOUS
  <2> QED
    BY <1>1, <2>1
<1>4. i \notin spoiled /\ ~(k = 1 /\ before = PACK_REP) /\ (mild \/ NoStartInHeader(p))
  BY <1>1, <1>3
<1>5. CASE k = 1
  <2>1. mild /\ rx.state # "STATE_START" => rx.patternReplaced = 0
    BY <1>1, <1>5 DEF IInv, MildInv
  <2>2. Midway(After(PACK_START), mild, p, 2)
    BY <1>2, <1>4, <1>5, <2>1, StartMidway
  <2>3. chr = PACK_START /\ k + 1 = 2
    BY <1>1, <1>5
  <2> QED
    BY <1>1, <1>3, <2>2, <2>3
<1>6. CASE k # 1
  <2>1. k > 1
    BY <1>1, <1>6
  <2>2. Midway(rx, mild, p, k)
    BY <1>1, <1>4, <2>1 DEF IInv, FollowInv
  <2>3. k # Len(Written[p])
    BY <1>1, <1>3
  <2>4. Midway(After(chr), mild, p, k + 1)
    BY <1>1, <1>2, <1>4, <2>2, <2>3, MidwayStep
  <2> QED
    BY <1>1, <1>3, <2>4
<1> QED
  BY <1>5, <1>6

\* As long as nothing but payload, crc16 or fill bytes of plain packages is missing, a byte
\* behind the first leads on in its package, or ends it.
LEMMA MildStep ==
    ASSUME RxOK(rx), NEW p \in Packages, NEW k \in Nat, k > 1,
           NEW n \in Nat, n = Len(Written[p]), k <= n,
           NEW chr, chr = Written[p][k],
           Midway(rx, TRUE, p, k) \/ Short(rx, p, k)
    PROVE  /\ Midway(rx, TRUE, p, k) /\ k = n
                 => /\ Assembles(chr) /\ TakenFrom(PayloadRead(chr)) = Received(p)
                    /\ After(chr).state = "STATE_START"
           /\ Midway(rx, TRUE, p, k) /\ k # n
                 => ~Assembles(chr) /\ Midway(After(chr), TRUE, p, k + 1)
           /\ Short(rx, p, k) => ~Assembles(chr) /\ Short(After(chr), p, k + 1)
<1>1. ASSUME Midway(rx, TRUE, p, k)
      PROVE  /\ k = n => /\ Assembles(chr) /\ TakenFrom(PayloadRead(chr)) = Received(p)
                         /\ After(chr).state = "STATE_START"
             /\ k # n => ~Assembles(chr) /\ Midway(After(chr), TRUE, p, k + 1)
  BY <1>1, MidwayStep
<1>2. ASSUME Short(rx, p, k)
      PROVE  ~Assembles(chr) /\ Short(After(chr), p, k + 1)
  <2>1. k \in 2 .. Len(Written[p])
    OBVIOUS
  <2> QED
    BY <1>2, <2>1, ShortStep
<1> QED
  BY <1>1, <1>2

\* In a mild state the receiver stays midway or short, and is ready for a START where one is
\* next.
LEMMA ReceiveMild ==
    ASSUME IInv, ReceiveByte
    PROVE  MildInv'
<1> USE DEF Reads
<1>1. PICK i \in 1 .. Len(sent), p \in Packages, k \in Nat, chr \in Byte, n \in Nat :
         Reads(i, p, k, chr, n)
  BY ReadFacts
<1>2. RxOK(rx) /\ EndsAs(rx, before) /\ RxOK(After(chr))
  BY TypeFields, AfterType DEF IInv
<1> DEFINE i2 == NextPack(wire', sent)
           k2 == NextAt(wire')
<1> SUFFICES ASSUME mild
             PROVE  /\ \A m \in spoiled' : m \in 1 .. Len(sent) /\ Plain(sent[m])
                    /\ k2 = 1 => /\ chr # PACK_REP
                                 /\ After(chr).state # "STATE_START"
                                       => After(chr).patternReplaced = 0
                    /\ k2 > 1 /\ Plain(sent[i2]) => chr # PACK_REP
                    /\ k2 > 1 /\ i2 \in spoiled'
                          => \/ Midway(After(chr), TRUE, sent[i2], k2)
                             \/ Short(After(chr), sent[i2], k2)
  <2>1. Midway(After(chr), TRUE, sent[i2], k2) => Midway(After(chr), mild, sent[i2], k2)
    BY MidwayWeaker
  <2> QED
    BY <1>1, <2>1 DEF MildInv
<1>3. /\ \A m \in spoiled : m \in 1 .. Len(sent) /\ Plain(sent[m])
      /\ k = 1 => before # PACK_REP /\ (rx.state # "STATE_START" => rx.patternReplaced = 0)
  BY <1>1 DEF IInv, MildInv
<1>4. spoiled' = spoiled
  BY <1>1, <1>3
<1> HIDE DEF i2, k2
<1>5. CASE k = 1
  <2>1. i2 = i /\ k2 = 2 /\ chr = PACK_START
    BY <1>1, <1>5 DEF i2, k2
  <2>2. Midway(After(PACK_START), TRUE, p, 2)
    BY <1>2, <1>3, <1>5, StartMidway
  <2>3. chr # PACK_REP /\ k2 # 1
    BY <2>1
  <2>4. Midway(After(chr), TRUE, sent[i2], k2)
    BY <1>1, <2>1, <2>2
  <2> QED
    BY <1>3, <1>4, <2>3, <2>4
<1>6. CASE k # 1
  <2>1. k > 1 /\ k <= n /\ k \in 2 .. n
    BY <1>1, <1>6
  <2>2. Midway(rx, TRUE, p, k) \/ (i \in spoiled /\ Short(rx, p, k))
    BY <1>1, <2>1, MildlyWithin
  <2>3. /\ Midway(rx, TRUE, p, k) /\ k = n => After(chr).state = "STATE_START"
        /\ Midway(rx, TRUE, p, k) /\ k # n => Midway(After(chr), TRUE, p, k + 1)
        /\ Short(rx, p, k) => Short(After(chr), p, k + 1)
    BY <1>1, <1>2, <2>1, <2>2, MildStep
  <2>4. Plain(p) => chr # PACK_REP
    BY <1>1, <2>1, PlainWritten
  <2>5. CASE i2 = i /\ k2 = k + 1 /\ k < n
    <3>1. k # n /\ k2 # 1
      BY <1>1, <1>6, <2>1, <2>5
    <3> QED
      BY <1>1, <1>3, <1>4, <2>2, <2>3, <2>4, <2>5, <3>1, Zenon
  <2>6. CASE i2 = i + 1 /\ k2 = 1 /\ (k = n \/ i \in spoiled)
    <3>1. chr # PACK_REP
      <4>1. CASE i \in spoiled
        BY <1>1, <1>3, <2>4, <4>1
      <4>2. CASE k = n
        BY <1>1, <4>2, LastIsFill
      <4> QED
        BY <2>6, <4>1, <4>2
    <3>2. After(chr).state # "STATE_START" => After(chr).patternReplaced = 0
      <4>1. CASE Short(rx, p, k)
        BY <2>3, <4>1 DEF Short
      <4>2. CASE Midway(rx, TRUE, p, k) /\ k = n
        BY <2>3, <4>2
      <4>3. CASE Midway(rx, TRUE, p, k) /\ k # n
        <5>1. Plain(p)
          BY <1>1, <1>3, <2>6, <4>3
        <5>2. PICK c \in Seq(Byte) : c = Contents(p)
          BY ContentsFacts
        <5>3. PICK x : x = After(chr)
          OBVIOUS
        <5>4. Midway(x, TRUE, p, k + 1) /\ RxOK(x)
          BY <1>2, <2>3, <4>3, <5>3
        <5>5. x.patternReplaced = 0
          BY <5>1, <5>2, <5>4, PlainMidway
        <5> QED
          BY <5>3, <5>5
      <4> QED
        BY <2>2, <4>1, <4>2, <4>3
    <3>3. ~(k2 > 1)
      BY <2>6
    <3> QED
      BY <1>3, <1>4, <3>1, <3>2, <3>3
  <2> QED
    BY <1>1, <2>5, <2>6 DEF i2, k2
<1> QED
  BY <1>5, <1>6

\* In a mild state reading a byte assembles nothing but the package whose last byte it is.
LEMMA ReceiveAssembled ==
    ASSUME IInv, ReceiveByte
    PROVE  AssembledInv'
<1> USE DEF Reads
<1>1. PICK i \in 1 .. Len(sent), p \in Packages, k \in Nat, chr \in Byte, n \in Nat :
         Reads(i, p, k, chr, n)
  BY ReadFacts
<1>2. RxOK(rx) /\ EndsAs(rx, before) /\ assembled \in Seq(Package) /\ sent \in Seq(Packages)
  BY TypeFields DEF IInv
<1>3. DOMAIN sent = 1 .. Len(sent)
  BY <1>2
<1>4. /\ Assembles(chr) => assembled' = Append(assembled, TakenFrom(PayloadRead(chr)))
      /\ ~Assembles(chr) => assembled' = assembled
  BY <1>1, AssembleIs
<1>5. Assembles(chr) => TakenFrom(PayloadRead(chr)) \in Package
  BY <1>2, TakenType DEF Assembles
\* In a mild state a package is assembled only at its last byte, and it is the one sent.
<1>6. ASSUME mild
      PROVE  /\ Assembles(chr) => TakenFrom(PayloadRead(chr)) = Received(p) /\ k = n
             /\ k = n /\ i \notin spoiled => Assembles(chr)
  <2>1. CASE k = 1
    <3>1. before # PACK_REP
      BY <1>1, <1>6, <2>1 DEF IInv, MildInv
    <3>2. ~Assembles(PACK_START)
      BY <1>2, <3>1, StartRead
    <3>3. n >= 10 /\ chr = PACK_START
      BY <1>1, <2>1
    <3>4. k # n
      BY <2>1, <3>3
    <3> QED
      BY <3>2, <3>3, <3>4
  <2>2. CASE k # 1
    <3>1. k > 1 /\ k <= n
      BY <1>1, <2>2
    <3>2. Midway(rx, TRUE, p, k) \/ (i \in spoiled /\ Short(rx, p, k))
      BY <1>1, <1>6, <3>1, MildlyWithin
    <3>3. /\ Midway(rx, TRUE, p, k) /\ k = n
                 => Assembles(chr) /\ TakenFrom(PayloadRead(chr)) = Received(p)
          /\ Midway(rx, TRUE, p, k) /\ k # n => ~Assembles(chr)
          /\ Short(rx, p, k) => ~Assembles(chr)
      BY <1>1, <1>2, <3>1, <3>2, MildStep
    <3> QED
      BY <3>2, <3>3
  <2> QED
    BY <2>1, <2>2
<1>7. ASSUME mild', NEW m \in DOMAIN assembled'
      PROVE  \E q \in DOMAIN sent' : assembled'[m] = Received(sent'[q])
  <2>1. mild
    BY <1>1, <1>7
  <2>2. \A x \in DOMAIN assembled : \E q \in DOMAIN sent : assembled[x] = Received(sent[q])
    BY <2>1 DEF IInv, AssembledInv
  <2>3. CASE ~Assembles(chr)
    BY <1>1, <1>4, <1>7, <2>2, <2>3
  <2>4. CASE Assembles(chr)
    <3>1. PICK t \in Package : t = TakenFrom(PayloadRead(chr)) /\ t = Received(p)
      BY <1>5, <1>6, <2>1, <2>4
    <3>2. PICK a \in Seq(Package) : a = assembled
      BY <1>2
    <3>3. assembled' = Append(a, t)
      BY <1>4, <2>4, <3>1, <3>2
    <3>4. m \in 1 .. Len(a) + 1
      BY <1>7, <3>3
    <3>5. CASE m = Len(a) + 1
      <4>1. assembled'[m] = t
        BY <3>3, <3>5
      <4> QED
        BY <1>1, <1>3, <3>1, <4>1
    <3>6. CASE m # Len(a) + 1
      <4>1. m \in DOMAIN a /\ assembled'[m] = a[m]
        BY <3>3, <3>4, <3>6
      <4> QED
        BY <1>1, <2>2, <3>2, <4>1
    <3> QED
      BY <3>5, <3>6
  <2> QED
    BY <2>3, <2>4
<1>8. ASSUME spoiled' = {}
      PROVE  /\ mild'
             /\ Len(assembled') = NextPack(wire', sent') - 1
             /\ \A m \in 1 .. Len(assembled') : assembled'[m] = Received(sent'[m])
  <2>1. spoiled = {} /\ i \notin spoiled
    BY <1>1, <1>8
  <2>2. /\ mild /\ Len(assembled) = i - 1
        /\ \A m \in 1 .. Len(assembled) : assembled[m] = Received(sent[m])
    BY <1>1, <2>1 DEF IInv, AssembledInv
  <2>3. Assembles(chr) <=> k = n
    BY <1>6, <2>1, <2>2
  <2>4. CASE k # n
    <3>1. NextPack(wire', sent') = i
      BY <1>1, <2>1, <2>4
    <3>2. assembled' = assembled
      BY <1>4, <2>3, <2>4
    <3> QED
      BY <1>1, <2>2, <3>1, <3>2
  <2>5. CASE k = n
    <3>1. NextPack(wire', sent') = i + 1
      BY <1>1, <2>5
    <3>2. PICK t \in Package : t = TakenFrom(PayloadRead(chr)) /\ t = Received(p)
      BY <1>5, <1>6, <2>2, <2>3, <2>5
    <3>3. PICK a \in Seq(Package) : a = assembled /\ Len(a) = i - 1
      BY <1>2, <2>2
    <3>4. assembled' = Append(a, t)
      BY <1>4, <2>3, <2>5, <3>2, <3>3
    <3>5. Len(assembled') = i
      BY <3>3, <3>4
    <3>6. ASSUME NEW m \in 1 .. i PROVE assembled'[m] = Received(sent[m])
      <4>1. CASE m = i
        <5>1. assembled'[m] = t
          BY <3>3, <3>4, <4>1
        <5> QED
          BY <1>1, <3>2, <4>1, <5>1
      <4>2. CASE m # i
        <5>1. m \in 1 .. Len(a) /\ assembled'[m] = a[m]
          BY <3>3, <3>4, <4>2
        <5> QED
          BY <2>2, <3>3, <5>1
      <4> QED
        BY <4>1, <4>2
    <3>7. i = (i + 1) - 1
      OBVIOUS
    <3> QED
      BY <1>1, <2>2, <3>1, <3>5, <3>6, <3>7
  <2> QED
    BY <2>4, <2>5
<1> QED
  BY <1>7, <1>8 DEF AssembledInv

\* Every step keeps the invariant.
LEMMA InvStep == IInv /\ [Next]_vars => IInv'
<1> SUFFICES ASSUME IInv, [Next]_vars PROVE IInv'
  OBVIOUS
<1>1. TypeInv'
  BY TypeStep DEF IInv
<1>2. ASSUME NEW p \in Packages, SendPackage(p)
      PROVE  WireInv' /\ FollowInv' /\ MildInv' /\ AssembledInv'
  BY <1>2, InvSend
<1>3. CASE LoseByte
  <2>1. WireInv' /\ FollowInv' /\ MildInv' /\ AssembledInv'
    BY <1>3, InvLose
  <2> QED
    BY <1>1, <2>1 DEF IInv
<1>4. CASE ReceiveByte
  <2>1. WireInv' /\ FollowInv' /\ MildInv' /\ AssembledInv'
    BY <1>4, ReceiveWire, ReceiveFollow, ReceiveMild, ReceiveAssembled
  <2> QED
    BY <1>1, <2>1 DEF IInv
<1>5. CASE UNCHANGED vars
  <2>1. WireInv' /\ FollowInv' /\ MildInv' /\ AssembledInv'
    BY <1>5 DEF IInv, WireInv, FollowInv, MildInv, AssembledInv, vars
  <2> QED
    BY <1>1, <2>1 DEF IInv
<1> QED
  BY <1>1, <1>2, <1>3, <1>4, <1>5 DEF IInv, Next

-----------------------------------------------------------------------------
(* The theorems *)

\* The inductive invariant holds in every state.
LEMMA InvCorrect == Spec => []IInv
<1>1. Init => IInv
  BY InvInit
<1> QED
  BY <1>1, InvStep, PTL DEF Spec

\* As long as nothing is lost, what is assembled is a prefix of what was sent, with the same
\* bytes whatever they are, and all of it once the wire is empty (PackageHandler.c:189, 212).
THEOREM UndamagedStreamArrives == Spec => []UndamagedStream
<1>1. IInv => UndamagedStream
  <2> SUFFICES ASSUME IInv, spoiled = {}
               PROVE  /\ Len(assembled) <= Len(sent)
                      /\ \A i \in DOMAIN assembled : assembled[i] = Received(sent[i])
                      /\ wire = <<>> => Len(assembled) = Len(sent)
    BY DEF UndamagedStream
  <2>1. PICK a \in Seq(Package), n \in Nat : a = assembled /\ n = Len(sent)
    BY TypeFields DEF IInv
  <2>2. /\ Len(a) = NextPack(wire, sent) - 1
        /\ \A m \in 1 .. Len(a) : a[m] = Received(sent[m])
    BY <2>1 DEF IInv, AssembledInv
  <2>3. PICK i \in 1 .. n + 1 : /\ i = NextPack(wire, sent)
                                /\ Len(wire) = 0 => i = n + 1
    BY <2>1, NextKnown DEF IInv
  <2>4. Len(a) <= n /\ (Len(wire) = 0 => Len(a) = n)
    BY <2>2, <2>3
  <2>5. wire = <<>> => Len(wire) = 0
    BY NoBytes
  <2>6. DOMAIN a = 1 .. Len(a)
    OBVIOUS
  <2> QED
    BY <2>1, <2>2, <2>4, <2>5, <2>6
<1> QED
  BY <1>1, InvCorrect, PTL

\* Where only payload, crc16 or fill bytes of plain packages are missing, nothing is assembled
\* that was not sent, although no checksum is compared (PackageHandler.c:372, 436).
THEOREM ShortOnesDropped == Spec => []ShortPackagesDropped
<1>1. IInv => ShortPackagesDropped
  BY DEF IInv, AssembledInv, ShortPackagesDropped
<1> QED
  BY <1>1, InvCorrect, PTL

\* Whatever was lost before, a package that arrives whole and has no START in its header is
\* assembled in the step that reads its last byte (PackageHandler.c:321-447).
THEOREM Resynchronises == Spec => PlainHeaderResynchronises
<1>1. ASSUME IInv, [Next]_vars, ArrivesWhole, NoStartInHeader(sent[Head(wire).pack])
      PROVE  assembled' = Append(assembled, Received(sent[Head(wire).pack]))
  <2>1. RxOK(rx) /\ mild \in BOOLEAN /\ wire \in Seq(Wired) /\ lost \in 0 .. MaxLost
    BY <1>1, TypeFields DEF IInv
  <2>2. /\ wire # <<>> /\ lost' = lost /\ wire' = Tail(wire)
        /\ Head(wire).pack \notin spoiled
        /\ Head(wire).at = Len(Written[sent[Head(wire).pack]])
    BY <1>1 DEF ArrivesWhole
  <2>3. PICK l \in Nat : l = Len(wire) /\ Len(wire') = l - 1
    <3>1. Len(Tail(wire)) = Len(wire) - 1 /\ Len(wire) \in Nat
      BY <2>1, <2>2, HeadFacts
    <3> QED
      BY <2>2, <3>1
  \* No other action takes a byte from the wire and loses none.
  <2>4. ReceiveByte
    <3>1. ASSUME NEW p \in Packages, SendPackage(p) PROVE FALSE
      <4>1. PICK count \in 8 .. Len(Written[p]) : wire' = wire \o Out(p, Len(sent) + 1, count)
        BY <1>1, <3>1, SendFacts DEF IInv, TypeInv
      <4>2. Len(sent) + 1 \in Nat /\ count \in 0 .. Len(Written[p]) /\ count >= 8 /\ count \in Nat
        BY <1>1, TypeFields DEF IInv
      <4>3. PICK o \in Seq(Wired) : o = Out(p, Len(sent) + 1, count) /\ Len(o) = count
        BY <4>2, OutFacts
      <4>4. Len(wire') = l + count
        BY <2>1, <2>3, <4>1, <4>3
      <4> QED
        BY <2>3, <4>2, <4>4
    <3>2. ~LoseByte
      <4>1. LoseByte => lost' = lost + 1
        BY DEF LoseByte
      <4>2. lost \in Int
        BY <2>1
      <4> QED
        BY <2>2, <4>1, <4>2
    <3>3. ~UNCHANGED vars
      BY <2>3 DEF vars
    <3> QED
      BY <1>1, <3>1, <3>2, <3>3 DEF Next
  <2>5. PICK i \in 1 .. Len(sent), p \in Packages, k \in Nat, chr \in Byte, n \in Nat :
              /\ p = sent[i] /\ n = Len(Written[p]) /\ n >= 10
              /\ chr = Written[p][k]
              /\ i = NextPack(wire, sent) /\ k = NextAt(wire) /\ Assemble(chr)
    BY <1>1, <2>4, ReadFacts DEF Reads
  <2>6. NextPack(wire, sent) = Head(wire).pack /\ NextAt(wire) = Head(wire).at
    BY <1>1, <2>2, HeadOfWire
  <2>7. i \notin spoiled /\ k = n /\ k > 1 /\ NoStartInHeader(p)
    <3>1. i \notin spoiled /\ k = n /\ NoStartInHeader(p)
      BY <1>1, <2>2, <2>5, <2>6
    <3> QED
      BY <2>5, <3>1
  <2>8. Midway(rx, mild, p, k)
    BY <1>1, <2>5, <2>7 DEF IInv, FollowInv
  <2>9. Assembles(chr) /\ TakenFrom(PayloadRead(chr)) = Received(p)
    BY <2>1, <2>5, <2>7, <2>8, MidwayStep
  <2>10. assembled' = Append(assembled, TakenFrom(PayloadRead(chr)))
    BY <2>5, <2>9, AssembleIs
  <2> QED
    BY <2>5, <2>6, <2>9, <2>10
<1>2. IInv /\ [Next]_vars =>
         [ArrivesWhole /\ NoStartInHeader(sent[Head(wire).pack])
            => assembled' = Append(assembled, Received(sent[Head(wire).pack]))]_vars
  BY <1>1
<1> QED
  BY <1>2, InvCorrect, PTL DEF Spec, PlainHeaderResynchronises

=============================================================================
