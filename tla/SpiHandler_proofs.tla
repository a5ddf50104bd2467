------------------------- MODULE SpiHandler_proofs -------------------------
(***************************************************************************)
(* The SPI task, for every size of buffers and queues, with or without     *)
(* Golay code, delays, limits and flow control: no queue and no chip holds *)
(* more than its size, what is written to a chip fits and is written while *)
(* the chip does not transmit, and the bytes stay in order and none is     *)
(* lost that is not counted.                                               *)
(*                                                                         *)
(* The writing half needs nothing of the reading half (WriteInv), which    *)
(* needs it for what it reads (TypeInv).  That the bytes are accounted for *)
(* (PathsKept) is about the bytes on the way between two tasks as one row: *)
(* a step moves them on, takes some away or adds some, and the lemmas      *)
(* about joined rows say what that does to their order and number.         *)
(***************************************************************************)
EXTENDS SpiHandler, TLAPS, SequenceTheorems, FiniteSetTheorems

-----------------------------------------------------------------------------
(* Paths: sequences of numbered bytes and fill characters *)

\* The byte numbers of a path.
NumbersOf(bytes) == {bytes[i] : i \in Real(bytes)}

\* Two sequences joined: type, length and elements.
LEMMA JoinedElements ==
    ASSUME NEW S, NEW x \in Seq(S), NEW y \in Seq(S)
    PROVE  /\ x \o y \in Seq(S)
           /\ Len(x) \in Nat /\ Len(y) \in Nat
           /\ Len(x \o y) = Len(x) + Len(y)
           /\ \A i \in 1 .. Len(x) : (x \o y)[i] = x[i]
           /\ \A j \in 1 .. Len(y) : (x \o y)[Len(x) + j] = y[j]
<1>1. /\ x \o y \in Seq(S)
      /\ Len(x \o y) = Len(x) + Len(y)
      /\ \A i \in 1 .. Len(x) + Len(y) :
            (x \o y)[i] = IF i <= Len(x) THEN x[i] ELSE y[i - Len(x)]
  BY ConcatProperties
<1>2. Len(x) \in Nat /\ Len(y) \in Nat
  OBVIOUS
<1>3. ASSUME NEW i \in 1 .. Len(x) PROVE (x \o y)[i] = x[i]
  <2>1. i \in 1 .. Len(x) + Len(y) /\ i <= Len(x)
    BY <1>2
  <2> QED
    BY <1>1, <2>1
<1>4. ASSUME NEW j \in 1 .. Len(y) PROVE (x \o y)[Len(x) + j] = y[j]
  <2>1. Len(x) + j \in 1 .. Len(x) + Len(y) /\ ~(Len(x) + j <= Len(x))
        /\ (Len(x) + j) - Len(x) = j
    BY <1>2
  <2> QED
    BY <1>1, <2>1
<1> QED
  BY <1>1, <1>2, <1>3, <1>4

\* The real bytes of two paths joined are those of the first, and those of the second moved.
LEMMA RealOfJoined ==
    ASSUME NEW x \in Seq(Int), NEW y \in Seq(Int)
    PROVE  /\ Real(x \o y) = Real(x) \cup {Len(x) + j : j \in Real(y)}
           /\ Real(x) \cap {Len(x) + j : j \in Real(y)} = {}
<1>1. PICK z \in Seq(Int) : z = x \o y
  BY JoinedElements
<1>2. /\ Len(x) \in Nat /\ Len(y) \in Nat /\ Len(z) = Len(x) + Len(y)
      /\ \A i \in 1 .. Len(x) : z[i] = x[i]
      /\ \A j \in 1 .. Len(y) : z[Len(x) + j] = y[j]
  BY <1>1, JoinedElements
<1>3. ASSUME NEW i \in Real(z) PROVE i \in Real(x) \/ \E j \in Real(y) : i = Len(x) + j
  <2>1. i \in 1 .. Len(x) + Len(y) /\ z[i] # PACK_FILL
    BY <1>2 DEF Real
  <2>2. CASE i <= Len(x)
    BY <1>2, <2>1, <2>2 DEF Real
  <2>3. CASE ~(i <= Len(x))
    <3>1. i - Len(x) \in 1 .. Len(y) /\ i = Len(x) + (i - Len(x))
      BY <1>2, <2>1, <2>3
    <3>2. y[i - Len(x)] = z[i]
      BY <1>2, <3>1
    <3>3. i - Len(x) \in Real(y)
      BY <2>1, <3>1, <3>2 DEF Real
    <3> QED
      BY <3>1, <3>3
  <2> QED
    BY <2>2, <2>3
<1>4. ASSUME NEW i \in Real(x) PROVE i \in Real(z)
  <2>1. i \in 1 .. Len(x) /\ x[i] # PACK_FILL
    BY DEF Real
  <2>2. z[i] # PACK_FILL /\ i \in 1 .. Len(z)
    BY <1>2, <2>1
  <2> QED
    BY <2>2 DEF Real
<1>5. ASSUME NEW j \in Real(y) PROVE Len(x) + j \in Real(z) /\ Len(x) + j \notin Real(x)
  <2>1. j \in 1 .. Len(y) /\ y[j] # PACK_FILL
    BY DEF Real
  <2>2. z[Len(x) + j] # PACK_FILL /\ Len(x) + j \in 1 .. Len(z) /\ Len(x) + j \notin 1 .. Len(x)
    BY <1>2, <2>1
  <2> QED
    BY <2>2 DEF Real
<1>6. Real(z) = Real(x) \cup {Len(x) + j : j \in Real(y)}
  BY <1>3, <1>4, <1>5
<1>7. Real(x) \cap {Len(x) + j : j \in Real(y)} = {}
  BY <1>5
<1> QED
  BY <1>1, <1>6, <1>7

\* The real bytes of a path can be counted; there are no more than it has bytes.
LEMMA RealIsFinite ==
    ASSUME NEW x \in Seq(Int)
    PROVE  /\ IsFiniteSet(Real(x))
           /\ Cardinality(Real(x)) \in Nat
           /\ Cardinality(Real(x)) <= Len(x)
           /\ (\A i \in 1 .. Len(x) : x[i] # PACK_FILL) => Cardinality(Real(x)) = Len(x)
           /\ (\A i \in 1 .. Len(x) : x[i] = PACK_FILL) => Cardinality(Real(x)) = 0
<1>1. Len(x) \in Nat /\ 1 \in Int /\ Len(x) \in Int
  OBVIOUS
<1>2. IsFiniteSet(1 .. Len(x)) /\ Cardinality(1 .. Len(x)) = Len(x)
  BY <1>1, FS_Interval
<1>3. Real(x) \in SUBSET (1 .. Len(x))
  BY DEF Real
<1>4. IsFiniteSet(Real(x)) /\ Cardinality(Real(x)) <= Len(x)
  BY <1>2, <1>3, FS_Subset
<1>5. Cardinality(Real(x)) \in Nat
  BY <1>4, FS_CardinalityType
<1>6. ASSUME \A i \in 1 .. Len(x) : x[i] # PACK_FILL PROVE Cardinality(Real(x)) = Len(x)
  <2>1. Real(x) = 1 .. Len(x)
    BY <1>6 DEF Real
  <2> QED
    BY <1>2, <2>1
<1>7. ASSUME \A i \in 1 .. Len(x) : x[i] = PACK_FILL PROVE Cardinality(Real(x)) = 0
  <2>1. Real(x) = {}
    BY <1>7 DEF Real
  <2> QED
    BY <2>1, FS_EmptySet
<1> QED
  BY <1>4, <1>5, <1>6, <1>7

\* Joining adds the numbers of real bytes.
LEMMA RealBytesAdd ==
    ASSUME NEW x \in Seq(Int), NEW y \in Seq(Int)
    PROVE  Cardinality(Real(x \o y)) = Cardinality(Real(x)) + Cardinality(Real(y))
<1> DEFINE moved == {Len(x) + j : j \in Real(y)}
           f == [j \in Real(y) |-> Len(x) + j]
<1>1. IsFiniteSet(Real(x)) /\ Cardinality(Real(x)) \in Nat
  BY RealIsFinite
<1>2. IsFiniteSet(Real(y)) /\ Cardinality(Real(y)) \in Nat
  BY RealIsFinite
<1>3. Len(x) \in Nat /\ Real(y) \subseteq Int
  BY DEF Real
<1>4. f \in Bijection(Real(y), moved)
  <2>1. f \in [Real(y) -> moved]
    OBVIOUS
  <2>2. \A a, b \in DOMAIN f : f[a] = f[b] => a = b
    BY <1>3
  <2>3. \A t \in moved : \E j \in Real(y) : f[j] = t
    OBVIOUS
  <2> HIDE DEF f, moved
  <2> QED
    BY <2>1, <2>2, <2>3 DEF Bijection, Injection, Surjection, IsInjective
<1>5. ExistsBijection(Real(y), moved)
  BY <1>4, Zenon DEF ExistsBijection
<1> HIDE DEF f, moved
<1>6. IsFiniteSet(moved) /\ Cardinality(moved) = Cardinality(Real(y))
  BY <1>2, <1>5, FS_Bijection
<1>7. Real(x \o y) = Real(x) \cup moved /\ Real(x) \cap moved = {}
  BY RealOfJoined DEF moved
<1>8. Cardinality(Real(x) \cup moved) =
          Cardinality(Real(x)) + Cardinality(moved) - Cardinality(Real(x) \cap moved)
  BY <1>1, <1>6, FS_Union
<1>9. Cardinality(Real(x) \cap moved) = 0
  BY <1>7, FS_EmptySet
<1> QED
  BY <1>1, <1>2, <1>6, <1>7, <1>8, <1>9

\* Two paths joined are in order if both are and nothing in the second is older.
LEMMA OrderOfJoined ==
    ASSUME NEW x \in Seq(Int), NEW y \in Seq(Int), NEW last \in Nat
    PROVE  /\ NumbersOf(x \o y) = NumbersOf(x) \cup NumbersOf(y)
           /\ InOrder(x \o y, last) <=>
                 /\ InOrder(x, last)
                 /\ InOrder(y, last)
                 /\ \A a \in NumbersOf(x), b \in NumbersOf(y) : a < b
<1>1. PICK z \in Seq(Int) : z = x \o y
  BY JoinedElements
<1>2. /\ Len(x) \in Nat /\ Len(y) \in Nat
      /\ \A i \in 1 .. Len(x) : z[i] = x[i]
      /\ \A j \in 1 .. Len(y) : z[Len(x) + j] = y[j]
  BY <1>1, JoinedElements
<1>3. Real(z) = Real(x) \cup {Len(x) + j : j \in Real(y)}
  BY <1>1, RealOfJoined
<1>4. /\ \A i \in Real(x) : i \in 1 .. Len(x) /\ z[i] = x[i] /\ i \in Real(z)
      /\ \A j \in Real(y) : j \in 1 .. Len(y) /\ z[Len(x) + j] = y[j] /\ Len(x) + j \in Real(z)
  BY <1>2, <1>3 DEF Real
<1>5. NumbersOf(z) = NumbersOf(x) \cup NumbersOf(y)
  <2>1. ASSUME NEW i \in Real(z) PROVE z[i] \in NumbersOf(x) \cup NumbersOf(y)
    <3>1. CASE i \in Real(x)
      BY <1>4, <3>1 DEF NumbersOf
    <3>2. ASSUME NEW j \in Real(y), i = Len(x) + j PROVE z[i] \in NumbersOf(y)
      BY <1>4, <3>2 DEF NumbersOf
    <3> QED
      BY <1>3, <3>1, <3>2
  <2>2. ASSUME NEW n \in NumbersOf(x) PROVE n \in NumbersOf(z)
    BY <1>4 DEF NumbersOf
  <2>3. ASSUME NEW n \in NumbersOf(y) PROVE n \in NumbersOf(z)
    BY <1>4 DEF NumbersOf
  <2> QED
    BY <2>1, <2>2, <2>3 DEF NumbersOf
<1>6. ASSUME InOrder(z, last)
      PROVE  /\ InOrder(x, last)
             /\ InOrder(y, last)
             /\ \A a \in NumbersOf(x), b \in NumbersOf(y) : a < b
  <2>1. InOrder(x, last)
    BY <1>4, <1>6 DEF InOrder
  <2>2. InOrder(y, last)
    <3>1. \A j \in Real(y) : y[j] \in 1 .. last
      BY <1>4, <1>6 DEF InOrder
    <3>2. ASSUME NEW i \in Real(y), NEW j \in Real(y), i < j PROVE y[i] < y[j]
      <4>1. Len(x) + i \in Real(z) /\ Len(x) + j \in Real(z) /\ Len(x) + i < Len(x) + j
        BY <1>2, <1>4, <3>2
      <4>2. z[Len(x) + i] < z[Len(x) + j]
        BY <1>6, <4>1 DEF InOrder
      <4> QED
        BY <1>4, <4>2
    <3> QED
      BY <3>1, <3>2 DEF InOrder
  <2>3. ASSUME NEW i \in Real(x), NEW j \in Real(y) PROVE x[i] < y[j]
    <3>1. i \in Real(z) /\ Len(x) + j \in Real(z) /\ i < Len(x) + j
      BY <1>2, <1>4
    <3>2. z[i] < z[Len(x) + j]
      BY <1>6, <3>1 DEF InOrder
    <3> QED
      BY <1>4, <3>2
  <2> QED
    BY <2>1, <2>2, <2>3 DEF NumbersOf
<1>7. ASSUME InOrder(x, last), InOrder(y, last),
             \A a \in NumbersOf(x), b \in NumbersOf(y) : a < b
      PROVE  InOrder(z, last)
  <2>1. \A i \in Real(x), j \in Real(y) : x[i] < y[j]
    BY <1>7 DEF NumbersOf
  <2>2. \A i \in Real(z) : z[i] \in 1 .. last
    BY <1>3, <1>4, <1>7 DEF InOrder
  <2>3. ASSUME NEW i \in Real(z), NEW j \in Real(z), i < j PROVE z[i] < z[j]
    <3>1. CASE i \in Real(x) /\ j \in Real(x)
      BY <1>4, <1>7, <2>3, <3>1 DEF InOrder
    <3>2. CASE i \in Real(x) /\ j \notin Real(x)
      <4>1. PICK m \in Real(y) : j = Len(x) + m
        BY <1>3, <3>2
      <4> QED
        BY <1>4, <2>1, <3>2, <4>1
    <3>3. CASE i \notin Real(x)
      <4>1. PICK k \in Real(y) : i = Len(x) + k
        BY <1>3, <3>3
      <4>2. ASSUME j \in Real(x) PROVE FALSE
        BY <1>2, <1>4, <2>3, <4>1, <4>2
      <4>3. PICK m \in Real(y) : j = Len(x) + m
        BY <1>3, <4>2
      <4>4. k < m
        BY <1>2, <1>4, <2>3, <4>1, <4>3
      <4> QED
        BY <1>4, <1>7, <4>1, <4>3, <4>4 DEF InOrder
    <3> QED
      BY <3>1, <3>2, <3>3
  <2> QED
    BY <2>2, <2>3 DEF InOrder
<1> QED
  BY <1>1, <1>5, <1>6, <1>7

\* What BytesAccountedFor says of one path, and that only coding makes fill characters.
PathKept(s, path, last, lost) ==
    /\ InOrder(path, last)
    /\ Cardinality(Real(path)) + lost >= last
    /\ ~Coded(s) => /\ Cardinality(Real(path)) + lost = last
                    /\ \A i \in 1 .. Len(path) : path[i] # PACK_FILL

\* Two paths joined have no fill character if neither has one.
LEMMA CleanJoined ==
    ASSUME NEW x \in Seq(Int), NEW y \in Seq(Int)
    PROVE  (\A i \in 1 .. Len(x \o y) : (x \o y)[i] # PACK_FILL) <=>
              /\ \A i \in 1 .. Len(x) : x[i] # PACK_FILL
              /\ \A i \in 1 .. Len(y) : y[i] # PACK_FILL
<1>1. PICK z \in Seq(Int) : z = x \o y
  BY JoinedElements
<1>2. /\ Len(x) \in Nat /\ Len(y) \in Nat /\ Len(z) = Len(x) + Len(y)
      /\ \A i \in 1 .. Len(x) : z[i] = x[i]
      /\ \A j \in 1 .. Len(y) : z[Len(x) + j] = y[j]
  BY <1>1, JoinedElements
<1>3. ASSUME \A i \in 1 .. Len(z) : z[i] # PACK_FILL
      PROVE  /\ \A i \in 1 .. Len(x) : x[i] # PACK_FILL
             /\ \A i \in 1 .. Len(y) : y[i] # PACK_FILL
  <2>1. \A i \in 1 .. Len(x) : i \in 1 .. Len(z)
    BY <1>2
  <2>2. \A j \in 1 .. Len(y) : Len(x) + j \in 1 .. Len(z)
    BY <1>2
  <2> QED
    BY <1>2, <1>3, <2>1, <2>2
<1>4. ASSUME \A i \in 1 .. Len(x) : x[i] # PACK_FILL, \A i \in 1 .. Len(y) : y[i] # PACK_FILL,
             NEW i \in 1 .. Len(z)
      PROVE  z[i] # PACK_FILL
  <2>1. CASE i <= Len(x)
    <3>1. i \in 1 .. Len(x)
      BY <1>2, <2>1
    <3> QED
      BY <1>2, <1>4, <3>1
  <2>2. CASE ~(i <= Len(x))
    <3>1. i - Len(x) \in 1 .. Len(y) /\ Len(x) + (i - Len(x)) = i
      BY <1>2, <2>2
    <3>2. z[i] = y[i - Len(x)]
      BY <1>2, <3>1
    <3> QED
      BY <1>4, <3>1, <3>2
  <2> QED
    BY <2>1, <2>2
<1> QED
  BY <1>1, <1>3, <1>4

\* A path that loses a part is short of no more than the part's length.
LEMMA CutKeeps ==
    ASSUME NEW s, NEW a \in Seq(Int), NEW c \in Seq(Int), NEW b \in Seq(Int),
           NEW last \in Nat, NEW lost \in Nat, PathKept(s, a \o (c \o b), last, lost)
    PROVE  PathKept(s, a \o b, last, lost + Len(c))
<1> DEFINE R(x) == Cardinality(Real(x))
<1>1. c \o b \in Seq(Int) /\ a \o b \in Seq(Int) /\ Len(c) \in Nat
  BY JoinedElements
<1>2. /\ R(a) \in Nat /\ R(b) \in Nat /\ R(c) \in Nat /\ R(c) <= Len(c)
      /\ (\A i \in 1 .. Len(c) : c[i] # PACK_FILL) => R(c) = Len(c)
  BY RealIsFinite
<1>3. R(a \o b) = R(a) + R(b)
  BY RealBytesAdd
<1>4. R(a \o (c \o b)) = R(a) + (R(c) + R(b))
  <2>1. R(c \o b) = R(c) + R(b)
    BY RealBytesAdd
  <2>2. R(a \o (c \o b)) = R(a) + R(c \o b)
    BY <1>1, RealBytesAdd
  <2> QED
    BY <2>1, <2>2
<1> HIDE DEF R
<1>5. InOrder(a \o b, last)
  <2>1. /\ InOrder(a, last) /\ InOrder(c \o b, last)
        /\ \A m \in NumbersOf(a), n \in NumbersOf(c \o b) : m < n
    BY <1>1, OrderOfJoined DEF PathKept
  <2>2. NumbersOf(c \o b) = NumbersOf(c) \cup NumbersOf(b) /\ InOrder(b, last)
    BY <2>1, OrderOfJoined
  <2>3. \A m \in NumbersOf(a), n \in NumbersOf(b) : m < n
    BY <2>1, <2>2
  <2> QED
    BY <2>1, <2>2, <2>3, OrderOfJoined
<1>6. R(a \o (c \o b)) + lost >= last
  BY DEF PathKept, R
<1>7. R(a \o b) + (lost + Len(c)) >= last
  BY <1>1, <1>2, <1>3, <1>4, <1>6
<1>8. ASSUME ~Coded(s)
      PROVE  /\ R(a \o b) + (lost + Len(c)) = last
             /\ \A i \in 1 .. Len(a \o b) : (a \o b)[i] # PACK_FILL
  <2>1. R(a \o (c \o b)) + lost = last
    BY <1>8 DEF PathKept, R
  <2>2. /\ \A i \in 1 .. Len(a) : a[i] # PACK_FILL
        /\ \A i \in 1 .. Len(c \o b) : (c \o b)[i] # PACK_FILL
    BY <1>1, <1>8, CleanJoined DEF PathKept
  <2>3. /\ \A i \in 1 .. Len(c) : c[i] # PACK_FILL
        /\ \A i \in 1 .. Len(b) : b[i] # PACK_FILL
    BY <2>2, CleanJoined
  <2>4. \A i \in 1 .. Len(a \o b) : (a \o b)[i] # PACK_FILL
    BY <2>2, <2>3, CleanJoined
  <2>5. R(a \o b) + (lost + Len(c)) = last
    <3>1. R(c) = Len(c)
      BY <1>2, <2>3
    <3> QED
      BY <1>1, <1>2, <1>3, <1>4, <2>1, <3>1
  <2> QED
    BY <2>4, <2>5
<1> QED
  BY <1>5, <1>7, <1>8 DEF PathKept, R

\* Fill characters change nothing on a path with Golay code.
LEMMA FillKeeps ==
    ASSUME NEW s, Coded(s), NEW a \in Seq(Int), NEW f \in Seq(Int), NEW b \in Seq(Int),
           \A i \in 1 .. Len(f) : f[i] = PACK_FILL,
           NEW last \in Nat, NEW lost \in Nat, PathKept(s, a \o b, last, lost)
    PROVE  PathKept(s, a \o (f \o b), last, lost)
<1> DEFINE R(x) == Cardinality(Real(x))
<1>1. f \o b \in Seq(Int)
  BY JoinedElements
<1>2. R(a) \in Nat /\ R(b) \in Nat /\ R(f) = 0
  BY RealIsFinite
<1>3. R(a \o (f \o b)) = R(a \o b)
  <2>1. R(a \o b) = R(a) + R(b) /\ R(f \o b) = R(f) + R(b)
    BY RealBytesAdd
  <2>2. R(a \o (f \o b)) = R(a) + R(f \o b)
    BY <1>1, RealBytesAdd
  <2> HIDE DEF R
  <2> QED
    BY <1>2, <2>1, <2>2
<1>4. Real(f) = {} /\ NumbersOf(f) = {}
  BY DEF Real, NumbersOf
<1>5. InOrder(f, last)
  BY <1>4 DEF InOrder
<1>6. /\ InOrder(a, last) /\ InOrder(b, last)
      /\ \A m \in NumbersOf(a), n \in NumbersOf(b) : m < n
  BY OrderOfJoined DEF PathKept
<1>7. InOrder(f \o b, last) /\ NumbersOf(f \o b) = NumbersOf(f) \cup NumbersOf(b)
  BY <1>4, <1>5, <1>6, OrderOfJoined
<1>8. InOrder(a \o (f \o b), last)
  BY <1>1, <1>4, <1>6, <1>7, OrderOfJoined
<1> QED
  BY <1>3, <1>8 DEF PathKept

\* A new byte is the newest.
LEMMA NewKeeps ==
    ASSUME NEW s, NEW a \in Seq(Int), NEW last \in Nat, NEW lost \in Nat,
           PathKept(s, a, last, lost)
    PROVE  PathKept(s, a \o <<last + 1>>, last + 1, lost)
<1>1. PICK n \in Seq(Int) : n = <<last + 1>>
  <2>1. last + 1 \in Int
    OBVIOUS
  <2>2. <<last + 1>> \in Seq(Int)
    BY <2>1
  <2> QED
    BY <2>2
<1>2. Len(n) = 1 /\ n[1] = last + 1
  BY <1>1
<1>3. Real(n) = {1} /\ NumbersOf(n) = {last + 1}
  <2>1. Real(n) = {1}
    BY <1>2 DEF Real, PACK_FILL
  <2> QED
    BY <1>2, <2>1 DEF NumbersOf
<1>4. Cardinality(Real(n)) = 1
  BY <1>3, FS_Singleton
<1>5. Cardinality(Real(a)) \in Nat /\ Cardinality(Real(a \o n)) = Cardinality(Real(a)) + 1
  BY <1>4, RealIsFinite, RealBytesAdd
<1>6. \A m \in NumbersOf(a) : m \in 1 .. last
  BY DEF PathKept, InOrder, NumbersOf
<1>7. InOrder(a, last + 1) /\ InOrder(n, last + 1)
  <2>1. InOrder(a, last + 1)
    BY DEF PathKept, InOrder
  <2>2. InOrder(n, last + 1)
    BY <1>2, <1>3 DEF InOrder
  <2> QED
    BY <2>1, <2>2
<1>8. \A m \in NumbersOf(a), k \in NumbersOf(n) : m < k
  BY <1>3, <1>6
<1>9. InOrder(a \o n, last + 1)
  BY <1>7, <1>8, OrderOfJoined
<1>10. Cardinality(Real(a \o n)) + lost >= last + 1
  BY <1>5 DEF PathKept
<1>11. ASSUME ~Coded(s)
       PROVE  /\ Cardinality(Real(a \o n)) + lost = last + 1
              /\ \A i \in 1 .. Len(a \o n) : (a \o n)[i] # PACK_FILL
  <2>1. \A i \in 1 .. Len(n) : n[i] # PACK_FILL
    BY <1>2 DEF PACK_FILL
  <2>2. \A i \in 1 .. Len(a) : a[i] # PACK_FILL
    BY <1>11 DEF PathKept
  <2>3. \A i \in 1 .. Len(a \o n) : (a \o n)[i] # PACK_FILL
    BY <2>1, <2>2, CleanJoined
  <2>4. Cardinality(Real(a)) + lost = last
    BY <1>11 DEF PathKept
  <2> QED
    BY <1>5, <2>3, <2>4
<1>12. PathKept(s, a \o n, last + 1, lost)
  BY <1>9, <1>10, <1>11 DEF PathKept
<1> QED
  BY <1>1, <1>12

-----------------------------------------------------------------------------
(* Parts of queues *)

\* A queue cut in two.
LEMMA CutInTwo ==
    ASSUME NEW S, NEW q \in Seq(S), NEW m \in Nat, m <= Len(q)
    PROVE  /\ SubSeq(q, 1, m) \in Seq(S) /\ Len(SubSeq(q, 1, m)) = m
           /\ SubSeq(q, m + 1, Len(q)) \in Seq(S) /\ Len(SubSeq(q, m + 1, Len(q))) = Len(q) - m
           /\ q = SubSeq(q, 1, m) \o SubSeq(q, m + 1, Len(q))
<1>1. Len(q) \in Nat /\ 1 \in Int /\ m \in Int /\ m + 1 \in Int /\ Len(q) \in Int
  OBVIOUS
<1>2. \A i \in 1 .. Len(q) : q[i] \in S
  OBVIOUS
<1>3. (\A i \in 1 .. m : q[i] \in S) /\ (\A i \in m + 1 .. Len(q) : q[i] \in S)
  BY <1>1, <1>2
<1>4. /\ SubSeq(q, 1, m) \in Seq(S)
      /\ Len(SubSeq(q, 1, m)) = IF 1 <= m THEN m - 1 + 1 ELSE 0
      /\ \A i \in 1 .. m - 1 + 1 : SubSeq(q, 1, m)[i] = q[1 + i - 1]
  BY <1>1, <1>3, SubSeqProperties
<1>5. /\ SubSeq(q, m + 1, Len(q)) \in Seq(S)
      /\ Len(SubSeq(q, m + 1, Len(q))) = IF m + 1 <= Len(q) THEN Len(q) - (m + 1) + 1 ELSE 0
      /\ \A i \in 1 .. Len(q) - (m + 1) + 1 : SubSeq(q, m + 1, Len(q))[i] = q[m + 1 + i - 1]
  BY <1>1, <1>3, SubSeqProperties
<1>6. PICK a \in Seq(S), b \in Seq(S) : a = SubSeq(q, 1, m) /\ b = SubSeq(q, m + 1, Len(q))
  BY <1>4, <1>5
<1>7. Len(a) = m /\ Len(b) = Len(q) - m
  BY <1>1, <1>4, <1>5, <1>6
<1>8. (\A i \in 1 .. m : a[i] = q[i]) /\ (\A i \in 1 .. Len(b) : b[i] = q[m + i])
  <2>1. ASSUME NEW i \in 1 .. m PROVE a[i] = q[i]
    <3>1. i \in 1 .. m - 1 + 1 /\ 1 + i - 1 = i
      BY <1>1
    <3>2. a[i] = q[1 + i - 1]
      BY <1>4, <1>6, <3>1
    <3> QED
      BY <3>1, <3>2
  <2>2. ASSUME NEW i \in 1 .. Len(b) PROVE b[i] = q[m + i]
    <3>1. i \in 1 .. Len(q) - (m + 1) + 1 /\ m + 1 + i - 1 = m + i
      BY <1>1, <1>7
    <3>2. b[i] = q[m + 1 + i - 1]
      BY <1>5, <1>6, <3>1
    <3> QED
      BY <3>1, <3>2
  <2> QED
    BY <2>1, <2>2
<1>9. PICK c \in Seq(S) : c = a \o b
  BY JoinedElements
<1>10. /\ Len(c) = m + Len(b)
       /\ \A i \in 1 .. m : c[i] = a[i]
       /\ \A j \in 1 .. Len(b) : c[m + j] = b[j]
  BY <1>7, <1>9, JoinedElements
<1>11. ASSUME NEW i \in 1 .. Len(q) PROVE q[i] = c[i]
  <2>1. CASE i <= m
    <3>1. i \in 1 .. m
      BY <1>1, <2>1
    <3> QED
      BY <1>8, <1>10, <3>1
  <2>2. CASE ~(i <= m)
    <3>1. i - m \in 1 .. Len(b) /\ m + (i - m) = i
      BY <1>1, <1>7, <2>2
    <3>2. c[m + (i - m)] = b[i - m] /\ b[i - m] = q[m + (i - m)]
      BY <1>8, <1>10, <3>1
    <3> QED
      BY <3>1, <3>2
  <2> QED
    BY <2>1, <2>2
<1>12. q = c
  <2>1. Len(q) = Len(c)
    BY <1>1, <1>7, <1>10
  <2> QED
    BY <1>11, <2>1, SeqEqual
<1> QED
  BY <1>6, <1>7, <1>9, <1>12

\* A sequence of one element.
LEMMA Single ==
    ASSUME NEW S, NEW e \in S
    PROVE  <<e>> \in Seq(S) /\ Len(<<e>>) = 1 /\ <<e>>[1] = e
OBVIOUS

\* Adding and taking a single element.
LEMMA FirstTaken ==
    ASSUME NEW S, NEW q \in Seq(S), q # <<>>
    PROVE  /\ Head(q) \in S /\ <<Head(q)>> \in Seq(S) /\ Len(<<Head(q)>>) = 1
           /\ Tail(q) \in Seq(S) /\ Len(Tail(q)) = Len(q) - 1
           /\ q = <<Head(q)>> \o Tail(q)
<1>1. /\ Head(q) \in S /\ Tail(q) \in Seq(S) /\ Len(Tail(q)) = Len(q) - 1
      /\ \A i \in 1 .. Len(Tail(q)) : Tail(q)[i] = q[i + 1]
  BY HeadTailProperties
<1>2. PICK h \in S, t \in Seq(S) : h = Head(q) /\ t = Tail(q)
  BY <1>1
<1>3. PICK f \in Seq(S) : f = <<h>> /\ Len(f) = 1 /\ f[1] = h
  BY Single
<1>4. Len(f) = 1 /\ f[1] = h /\ h = q[1] /\ Len(q) \in Nat \ {0} /\ Len(t) = Len(q) - 1
      /\ \A i \in 1 .. Len(t) : t[i] = q[i + 1]
  <2>1. Len(q) \in Nat \ {0}
    BY EmptySeq
  <2>2. Len(f) = 1 /\ f[1] = h
    BY <1>3
  <2>3. h = q[1]
    BY <1>2
  <2> QED
    BY <1>1, <1>2, <2>1, <2>2, <2>3
<1>5. PICK c \in Seq(S) : c = f \o t
  BY JoinedElements
<1>6. /\ Len(c) = 1 + Len(t) /\ c[1] = f[1]
      /\ \A j \in 1 .. Len(t) : c[1 + j] = t[j]
  <2>1. /\ Len(c) = Len(f) + Len(t)
        /\ \A i \in 1 .. Len(f) : c[i] = f[i]
        /\ \A j \in 1 .. Len(t) : c[Len(f) + j] = t[j]
    BY <1>5, JoinedElements
  <2>2. 1 \in 1 .. Len(f)
    BY <1>4
  <2>3. Len(c) = 1 + Len(t) /\ c[1] = f[1]
    BY <1>4, <2>1, <2>2
  <2>4. \A j \in 1 .. Len(t) : c[1 + j] = t[j]
    BY <1>4, <2>1
  <2> QED
    BY <2>3, <2>4
<1>7. ASSUME NEW i \in 1 .. Len(q) PROVE q[i] = c[i]
  <2>1. CASE i = 1
    BY <1>4, <1>6, <2>1
  <2>2. CASE i # 1
    <3>1. i - 1 \in 1 .. Len(t) /\ 1 + (i - 1) = i /\ (i - 1) + 1 = i
      BY <1>4, <2>2
    <3>2. c[1 + (i - 1)] = t[i - 1] /\ t[i - 1] = q[(i - 1) + 1]
      BY <1>4, <1>6, <3>1
    <3> QED
      BY <3>1, <3>2
  <2> QED
    BY <2>1, <2>2
<1>8. q = c
  <2>1. Len(q) = Len(c)
    BY <1>4, <1>6
  <2> QED
    BY <1>7, <2>1, SeqEqual
<1> QED
  BY <1>1, <1>2, <1>3, <1>4, <1>5, <1>8

\* Appending is joining a sequence of one element.
LEMMA AppendIsJoin ==
    ASSUME NEW S, NEW q \in Seq(S), NEW e \in S
    PROVE  /\ <<e>> \in Seq(S)
           /\ Append(q, e) \in Seq(S) /\ Len(Append(q, e)) = Len(q) + 1
           /\ Append(q, e) = q \o <<e>>
<1>1. PICK f \in Seq(S) : f = <<e>> /\ Len(f) = 1 /\ f[1] = e
  BY Single
<1>2. PICK a \in Seq(S) : a = Append(q, e)
  <2>1. Append(q, e) \in Seq(S)
    OBVIOUS
  <2> QED
    BY <2>1
<1>3. /\ Len(q) \in Nat /\ Len(a) = Len(q) + 1 /\ a[Len(q) + 1] = e
      /\ \A i \in 1 .. Len(q) : a[i] = q[i]
  BY <1>2
<1>4. Len(f) = 1 /\ f[1] = e
  BY <1>1
<1>5. PICK c \in Seq(S) : c = q \o f
  BY JoinedElements
<1>6. /\ Len(c) = Len(q) + 1
      /\ \A i \in 1 .. Len(q) : c[i] = q[i]
      /\ c[Len(q) + 1] = e
  <2>1. /\ Len(c) = Len(q) + Len(f)
        /\ \A i \in 1 .. Len(q) : c[i] = q[i]
        /\ \A j \in 1 .. Len(f) : c[Len(q) + j] = f[j]
    BY <1>5, JoinedElements
  <2>2. 1 \in 1 .. Len(f)
    BY <1>4
  <2> QED
    BY <1>4, <2>1, <2>2
<1>7. ASSUME NEW i \in 1 .. Len(a) PROVE a[i] = c[i]
  <2>1. CASE i = Len(q) + 1
    BY <1>3, <1>6, <2>1
  <2>2. CASE i # Len(q) + 1
    <3>1. i \in 1 .. Len(q)
      BY <1>3, <2>2
    <3> QED
      BY <1>3, <1>6, <3>1
  <2> QED
    BY <2>1, <2>2
<1>8. a = c
  BY <1>3, <1>6, <1>7, SeqEqual
<1> QED
  BY <1>1, <1>2, <1>3, <1>5, <1>8

-----------------------------------------------------------------------------
(* Golay code *)

Symbol(S) == [block : [1 .. 3 -> S], part : 1 .. 6]

\* Filling appends fill characters up to a multiple of three; the last one is one if any was
\* needed.
LEMMA FilledIsSeq ==
    ASSUME NEW S, PACK_FILL \in S, NEW bytes \in Seq(S)
    PROVE  /\ Filled(bytes) \in Seq(S)
           /\ Len(Filled(bytes)) % 3 = 0
           /\ Len(bytes) % 3 = 0 => Len(Filled(bytes)) = Len(bytes)
           /\ Len(bytes) % 3 # 0 => /\ Filled(bytes)[Len(Filled(bytes))] = PACK_FILL
                                    /\ Len(Filled(bytes)) > 0
           /\ \E fill \in Seq(S) : /\ Filled(bytes) = bytes \o fill
                                   /\ \A i \in 1 .. Len(fill) : fill[i] = PACK_FILL
<1> DEFINE m == (3 - (Len(bytes) % 3)) % 3
           f == [i \in 1 .. m |-> PACK_FILL]
<1>1. Len(bytes) \in Nat /\ m \in Nat /\ (Len(bytes) + m) % 3 = 0
      /\ (Len(bytes) % 3 = 0 <=> m = 0)
  OBVIOUS
<1>2. f \in Seq(S) /\ Len(f) = m /\ \A i \in 1 .. m : f[i] = PACK_FILL
  BY <1>1
<1>3. Filled(bytes) = bytes \o f
  BY DEF Filled
<1> HIDE DEF f, m
<1>4. PICK g \in Seq(S) : g = f
  BY <1>2
<1>5. PICK c \in Seq(S) : c = bytes \o g
  BY JoinedElements
<1>6. Len(c) = Len(bytes) + m /\ \A j \in 1 .. m : c[Len(bytes) + j] = PACK_FILL
  <2>1. /\ Len(c) = Len(bytes) + Len(g)
        /\ \A j \in 1 .. Len(g) : c[Len(bytes) + j] = g[j]
    BY <1>5, JoinedElements
  <2> QED
    BY <1>2, <1>4, <2>1
<1>7. Len(bytes) % 3 # 0 => c[Len(c)] = PACK_FILL /\ Len(c) > 0
  BY <1>1, <1>6
<1>8. Len(c) % 3 = 0 /\ (Len(bytes) % 3 = 0 => Len(c) = Len(bytes))
  BY <1>1, <1>6
<1> QED
  BY <1>2, <1>3, <1>4, <1>5, <1>7, <1>8

\* A function on 1 .. n into S is a sequence.
LEMMA FunctionIsSeq ==
    ASSUME NEW S, NEW n \in Nat, NEW f \in [1 .. n -> S]
    PROVE  f \in Seq(S) /\ Len(f) = n
OBVIOUS

\* Three bytes of a row.
LEMMA BlockOf ==
    ASSUME NEW S, NEW bytes \in Seq(S), NEW q \in Nat, 3 * q + 3 <= Len(bytes)
    PROVE  /\ SubSeq(bytes, 3 * q + 1, 3 * q + 3) \in [1 .. 3 -> S]
           /\ \A j \in 1 .. 3 : SubSeq(bytes, 3 * q + 1, 3 * q + 3)[j] = bytes[3 * q + j]
<1> DEFINE lo == 3 * q + 1
           hi == 3 * q + 3
<1>1. /\ lo \in Int /\ hi \in Int /\ hi - lo + 1 = 3 /\ lo <= hi
      /\ \A j \in 1 .. 3 : lo + j - 1 = 3 * q + j
      /\ \A j \in lo .. hi : j \in 1 .. Len(bytes)
  OBVIOUS
<1>2. \A j \in lo .. hi : bytes[j] \in S
  BY <1>1
<1> HIDE DEF lo, hi
<1>3. /\ SubSeq(bytes, lo, hi) \in Seq(S)
      /\ Len(SubSeq(bytes, lo, hi)) = IF lo <= hi THEN hi - lo + 1 ELSE 0
      /\ \A i \in 1 .. hi - lo + 1 : SubSeq(bytes, lo, hi)[i] = bytes[lo + i - 1]
  BY <1>1, <1>2, SubSeqProperties
<1>4. PICK b \in Seq(S) : b = SubSeq(bytes, lo, hi)
  BY <1>3
<1>5. Len(b) = 3 /\ \A i \in 1 .. 3 : b[i] = bytes[3 * q + i]
  BY <1>1, <1>3, <1>4
<1>6. b \in [1 .. 3 -> S]
  BY <1>5
<1> QED
  BY <1>4, <1>5, <1>6 DEF lo, hi

\* Encoding doubles the length: a byte of the code tells its block and its place in it, and a
\* fill character at the end shows in the last block.
LEMMA EncodedBlocks ==
    ASSUME NEW S, NEW bytes \in Seq(S), Len(bytes) % 3 = 0
    PROVE  /\ Encoded(bytes) \in Seq(Symbol(S))
           /\ Len(Encoded(bytes)) = 2 * Len(bytes)
           /\ Len(bytes) > 0 /\ bytes[Len(bytes)] = PACK_FILL => Made(Encoded(bytes))
<1> DEFINE n == Len(bytes)
           k(i) == (i - 1) \div 6
           symbol(i) == [block |-> SubSeq(bytes, 3 * k(i) + 1, 3 * k(i) + 3),
                         part |-> ((i - 1) % 6) + 1]
<1>1. n \in Nat /\ n = 3 * (n \div 3)
  OBVIOUS
<1>2. Encoded(bytes) = [i \in 1 .. 2 * n |-> symbol(i)]
  BY DEF Encoded
<1>3. ASSUME NEW i \in 1 .. 2 * n
      PROVE  /\ k(i) \in Nat
             /\ 3 * k(i) + 3 <= n
             /\ ((i - 1) % 6) + 1 \in 1 .. 6
  BY <1>1
<1>4. ASSUME NEW i \in 1 .. 2 * n PROVE symbol(i) \in Symbol(S)
  <2> HIDE DEF k
  <2>1. SubSeq(bytes, 3 * k(i) + 1, 3 * k(i) + 3) \in [1 .. 3 -> S]
    BY <1>3, BlockOf
  <2> QED
    BY <1>3, <2>1 DEF Symbol
<1>5. Encoded(bytes) \in Seq(Symbol(S)) /\ Len(Encoded(bytes)) = 2 * n
  <2> HIDE DEF symbol
  <2>1. Encoded(bytes) \in [1 .. 2 * n -> Symbol(S)] /\ 2 * n \in Nat
    BY <1>1, <1>2, <1>4
  <2> QED
    BY <2>1, FunctionIsSeq
<1>6. ASSUME n > 0, bytes[n] = PACK_FILL PROVE Made(Encoded(bytes))
  <2>1. 2 * n \in 1 .. 2 * n /\ 3 * k(2 * n) + 3 = n /\ k(2 * n) \in Nat
    BY <1>1, <1>6
  <2>2. Encoded(bytes)[2 * n].block = SubSeq(bytes, 3 * k(2 * n) + 1, 3 * k(2 * n) + 3)
    <3> HIDE DEF k
    <3> QED
      BY <1>2, <2>1
  <2> HIDE DEF k
  <2>3. SubSeq(bytes, 3 * k(2 * n) + 1, 3 * k(2 * n) + 3)[3] = bytes[3 * k(2 * n) + 3]
    <3>1. PICK q \in Nat : q = k(2 * n) /\ 3 * q + 3 <= Len(bytes)
      BY <2>1
    <3>2. 3 * q + 3 <= Len(bytes) /\ 3 \in 1 .. 3
      BY <3>1
    <3>3. SubSeq(bytes, 3 * q + 1, 3 * q + 3)[3] = bytes[3 * q + 3]
      BY <3>2, BlockOf
    <3> QED
      BY <3>1, <3>3
  <2>4. Encoded(bytes)[2 * n].block[3] = PACK_FILL
    BY <1>6, <2>1, <2>2, <2>3
  <2>5. 2 * n \in DOMAIN Encoded(bytes)
    BY <1>2, <2>1
  <2> QED
    BY <2>4, <2>5 DEF Made
<1> QED
  BY <1>5, <1>6

\* Decoding halves the length; it makes bytes of a block or junk.
LEMMA DecodedIsSeq ==
    ASSUME NEW S, Junk \in S, NEW symbols \in Seq(Symbol(S))
    PROVE  /\ Decoded(symbols) \in Seq(S)
           /\ Len(Decoded(symbols)) = 3 * (Len(symbols) \div 6)
           /\ Len(Decoded(symbols)) <= Len(symbols)
<1> DEFINE n == Len(symbols)
           at(i) == 6 * ((i - 1) \div 3) + 1
           byte(i) == BlockAt(symbols, at(i))[((i - 1) % 3) + 1]
<1>1. n \in Nat /\ 3 * (n \div 6) \in Nat /\ 3 * (n \div 6) <= n
  OBVIOUS
<1>2. Decoded(symbols) = [i \in 1 .. 3 * (n \div 6) |-> byte(i)]
  BY DEF Decoded
<1>3. ASSUME NEW i \in 1 .. 3 * (n \div 6) PROVE byte(i) \in S
  <2>1. at(i) \in 1 .. n /\ ((i - 1) % 3) + 1 \in 1 .. 3
    BY <1>1
  <2> HIDE DEF at
  <2>2. symbols[at(i)] \in Symbol(S)
    BY <2>1
  <2>3. symbols[at(i)].block \in [1 .. 3 -> S]
    BY <2>2 DEF Symbol
  <2>4. <<Junk, Junk, Junk>> \in [1 .. 3 -> S]
    OBVIOUS
  <2>5. BlockAt(symbols, at(i)) \in [1 .. 3 -> S]
    BY <2>3, <2>4 DEF BlockAt
  <2> QED
    BY <2>1, <2>5
<1> HIDE DEF byte
<1>4. Decoded(symbols) \in [1 .. 3 * (n \div 6) -> S]
  BY <1>2, <1>3
<1>5. Decoded(symbols) \in Seq(S) /\ Len(Decoded(symbols)) = 3 * (n \div 6)
  BY <1>1, <1>4, FunctionIsSeq
<1> QED
  BY <1>1, <1>5

\* Where the bytes of the blocks behind the first q blocks are.
LEMMA PlaceBehind ==
    ASSUME NEW q \in Nat, NEW j \in Nat, j >= 1
    PROVE  /\ 6 * ((3 * q + j - 1) \div 3) + 1 = 6 * q + (6 * ((j - 1) \div 3) + 1)
           /\ (3 * q + j - 1) % 3 = (j - 1) % 3
<1>1. PICK m \in Nat, r \in 0 .. 2 : j - 1 = 3 * m + r
  <2>1. /\ j - 1 = 3 * ((j - 1) \div 3) + ((j - 1) % 3)
        /\ (j - 1) \div 3 \in Nat /\ (j - 1) % 3 \in 0 .. 2
    OBVIOUS
  <2> QED
    BY <2>1
<1>2. 3 * q + j - 1 = 3 * (q + m) + r
  BY <1>1
<1>3. (j - 1) \div 3 = m /\ (j - 1) % 3 = r
  BY <1>1
<1>4. (3 * q + j - 1) \div 3 = q + m /\ (3 * q + j - 1) % 3 = r
  BY <1>2
<1> QED
  BY <1>3, <1>4

\* Nothing but whole blocks.
Whole(symbols) == Len(symbols) % 6 = 0

\* A row that begins with whole blocks is decoded piece by piece.
LEMMA DecodedJoined ==
    ASSUME NEW S, Junk \in S, NEW x \in Seq(Symbol(S)), NEW y \in Seq(Symbol(S)), Whole(x)
    PROVE  Decoded(x \o y) = Decoded(x) \o Decoded(y)
<1>0. PICK q \in Nat : Len(x) = 6 * q
  <2>1. Len(x) \in Nat
    OBVIOUS
  <2>2. Len(x) = 6 * (Len(x) \div 6) /\ Len(x) \div 6 \in Nat
    BY <2>1 DEF Whole
  <2> QED
    BY <2>2
<1>1. PICK z \in Seq(Symbol(S)) : z = x \o y
  BY JoinedElements
<1>2. /\ Len(x) \in Nat /\ Len(y) \in Nat /\ Len(z) = Len(x) + Len(y)
      /\ \A i \in 1 .. Len(x) : z[i] = x[i]
      /\ \A j \in 1 .. Len(y) : z[Len(x) + j] = y[j]
  <2>1. /\ Len(x) \in Nat /\ Len(y) \in Nat
        /\ Len(x \o y) = Len(x) + Len(y)
        /\ \A i \in 1 .. Len(x) : (x \o y)[i] = x[i]
        /\ \A j \in 1 .. Len(y) : (x \o y)[Len(x) + j] = y[j]
    <3>1. Len(x) \in Nat /\ Len(y) \in Nat
      OBVIOUS
    <3>2. Len(x \o y) = Len(x) + Len(y)
      BY JoinedElements
    <3>3. \A i \in 1 .. Len(x) : (x \o y)[i] = x[i]
      BY JoinedElements
    <3>4. \A j \in 1 .. Len(y) : (x \o y)[Len(x) + j] = y[j]
      BY JoinedElements
    <3> QED
      BY <3>1, <3>2, <3>3, <3>4
  <2> QED
    BY <1>1, <2>1, Zenon
<1>3. PICK dx \in Seq(S), dy \in Seq(S), dz \in Seq(S) :
         dx = Decoded(x) /\ dy = Decoded(y) /\ dz = Decoded(z)
  BY DecodedIsSeq
<1>4. /\ Len(dx) = 3 * (Len(x) \div 6) /\ Len(dy) = 3 * (Len(y) \div 6)
      /\ Len(dz) = 3 * (Len(z) \div 6)
  BY <1>3, DecodedIsSeq
<1>5. PICK n \in Nat, r \in 0 .. 5 : (n = Len(y) \div 6) /\ Len(y) = 6 * n + r
  <2>1. /\ Len(y) = 6 * (Len(y) \div 6) + (Len(y) % 6)
        /\ Len(y) \div 6 \in Nat /\ Len(y) % 6 \in 0 .. 5
    BY <1>2
  <2> QED
    BY <2>1
<1>6. Len(dx) = 3 * q /\ Len(dy) = 3 * n /\ Len(dz) = 3 * q + 3 * n
  <2>1. (6 * q) \div 6 = q
    OBVIOUS
  <2>2. (6 * q + Len(y)) \div 6 = q + n
    <3>1. 6 * q + Len(y) = 6 * (q + n) + r
      <4>1. Len(y) = 6 * n + r
        BY <1>5
      <4>2. 6 * q + (6 * n + r) = 6 * (q + n) + r
        OBVIOUS
      <4> QED
        BY <4>1, <4>2
    <3>2. (6 * (q + n) + r) \div 6 = q + n
      OBVIOUS
    <3> QED
      BY <3>1, <3>2
  <2>3. Len(z) = 6 * q + Len(y)
    BY <1>0, <1>2
  <2> QED
    <3>1. Len(dx) = 3 * q
      BY <1>0, <1>4, <2>1
    <3>2. Len(dy) = 3 * n
      BY <1>4, <1>5
    <3>3. Len(dz) = 3 * (q + n)
      BY <1>4, <2>2, <2>3
    <3> QED
      BY <3>1, <3>2, <3>3
<1>7. /\ \A i \in 1 .. Len(dx) : dx[i] = BlockAt(x, 6 * ((i - 1) \div 3) + 1)[((i - 1) % 3) + 1]
      /\ \A i \in 1 .. Len(dy) : dy[i] = BlockAt(y, 6 * ((i - 1) \div 3) + 1)[((i - 1) % 3) + 1]
      /\ \A i \in 1 .. Len(dz) : dz[i] = BlockAt(z, 6 * ((i - 1) \div 3) + 1)[((i - 1) % 3) + 1]
  BY <1>3, <1>4 DEF Decoded
<1>8. ASSUME NEW p \in Nat, p >= 1, p + 5 <= Len(x) PROVE BlockAt(z, p) = BlockAt(x, p)
  <2>1. \A k \in 1 .. 6 : p + k - 1 \in 1 .. Len(x)
    BY <1>2, <1>8
  <2>2. p \in 1 .. Len(x)
    BY <1>2, <1>8
  <2>3. z[p] = x[p] /\ \A k \in 1 .. 6 : z[p + k - 1] = x[p + k - 1]
    BY <1>2, <2>1, <2>2
  <2> QED
    BY <2>3 DEF BlockAt
<1>9. ASSUME NEW p \in Nat, p >= 1, p + 5 <= Len(y)
      PROVE  BlockAt(z, Len(x) + p) = BlockAt(y, p)
  <2>1. \A k \in 1 .. 6 : p + k - 1 \in 1 .. Len(y) /\ Len(x) + p + k - 1 = Len(x) + (p + k - 1)
    BY <1>2, <1>9
  <2>2. p \in 1 .. Len(y)
    BY <1>2, <1>9
  <2>3. z[Len(x) + p] = y[p] /\ \A k \in 1 .. 6 : z[Len(x) + p + k - 1] = y[p + k - 1]
    BY <1>2, <2>1, <2>2
  <2> QED
    BY <2>3 DEF BlockAt
<1>10. PICK c \in Seq(S) : c = dx \o dy
  BY JoinedElements
<1>11. /\ Len(c) = Len(dx) + Len(dy)
       /\ \A i \in 1 .. Len(dx) : c[i] = dx[i]
       /\ \A j \in 1 .. Len(dy) : c[Len(dx) + j] = dy[j]
  BY <1>10, JoinedElements
<1>12. ASSUME NEW i \in 1 .. Len(dz) PROVE dz[i] = c[i]
  <2>1. CASE i <= 3 * q
    <3>1. i \in 1 .. Len(dx)
      BY <1>6, <2>1
    <3>2. PICK p \in Nat : p = 6 * ((i - 1) \div 3) + 1 /\ p >= 1 /\ p + 5 <= 6 * q
      BY <2>1
    <3>3. BlockAt(z, p) = BlockAt(x, p)
      BY <1>0, <1>8, <3>2
    <3> QED
      BY <1>7, <1>11, <3>1, <3>2, <3>3
  <2>2. CASE ~(i <= 3 * q)
    <3>1. PICK j \in 1 .. Len(dy) : i = 3 * q + j
      <4>1. i - 3 * q \in 1 .. Len(dy) /\ i = 3 * q + (i - 3 * q)
        BY <1>6, <2>2
      <4> QED
        BY <4>1
    <3>2. PICK p \in Nat : p = 6 * ((j - 1) \div 3) + 1 /\ p >= 1 /\ p + 5 <= 6 * n
      BY <1>6, <3>1
    <3>3. 6 * ((i - 1) \div 3) + 1 = Len(x) + p /\ (i - 1) % 3 = (j - 1) % 3
      <4>1. j \in Nat /\ j >= 1
        BY <1>6, <3>1
      <4>2. /\ 6 * ((3 * q + j - 1) \div 3) + 1 = 6 * q + (6 * ((j - 1) \div 3) + 1)
            /\ (3 * q + j - 1) % 3 = (j - 1) % 3
        BY <4>1, PlaceBehind
      <4> QED
        BY <1>0, <3>1, <3>2, <4>2
    <3>4. p + 5 <= Len(y)
      BY <1>2, <1>5, <3>2
    <3>5. BlockAt(z, Len(x) + p) = BlockAt(y, p)
      BY <1>9, <3>2, <3>4
    <3>6. dz[i] = dy[j]
      <4>1. dz[i] = BlockAt(z, 6 * ((i - 1) \div 3) + 1)[((i - 1) % 3) + 1]
        BY <1>7
      <4>2. dy[j] = BlockAt(y, 6 * ((j - 1) \div 3) + 1)[((j - 1) % 3) + 1]
        BY <1>7
      <4> QED
        BY <3>2, <3>3, <3>5, <4>1, <4>2
    <3> QED
      BY <1>6, <1>11, <3>1, <3>6
  <2> QED
    BY <2>1, <2>2
<1>13. dz = c
  BY <1>6, <1>11, <1>12, SeqEqual
<1> QED
  BY <1>1, <1>3, <1>10, <1>13

\* What was encoded is decoded.
LEMMA DecodedEncoded ==
    ASSUME NEW S, Junk \in S, NEW bytes \in Seq(S), Len(bytes) % 3 = 0
    PROVE  Decoded(Encoded(bytes)) = bytes
<1>1. PICK e \in Seq(Symbol(S)) : e = Encoded(bytes) /\ Len(e) = 2 * Len(bytes)
  BY EncodedBlocks
<1>2. PICK d \in Seq(S) : d = Decoded(e) /\ Len(d) = 3 * (Len(e) \div 6)
  BY DecodedIsSeq
<1>3. Len(bytes) \in Nat /\ Len(d) = Len(bytes)
  BY <1>1, <1>2
<1>4. \A i \in 1 .. Len(d) : d[i] = BlockAt(e, 6 * ((i - 1) \div 3) + 1)[((i - 1) % 3) + 1]
  BY <1>2 DEF Decoded
<1>5. \A i \in 1 .. Len(e) :
         e[i] = [block |-> SubSeq(bytes, 3 * ((i - 1) \div 6) + 1, 3 * ((i - 1) \div 6) + 3),
                 part |-> ((i - 1) % 6) + 1]
  BY <1>1 DEF Encoded
<1>6. ASSUME NEW q \in Nat, 3 * q + 3 <= Len(bytes)
      PROVE  BlockAt(e, 6 * q + 1) = SubSeq(bytes, 3 * q + 1, 3 * q + 3)
  <2> DEFINE block == SubSeq(bytes, 3 * q + 1, 3 * q + 3)
  <2>1. ASSUME NEW k \in 1 .. 6 PROVE e[6 * q + 1 + k - 1] = [block |-> block, part |-> k]
    <3>1. /\ 6 * q + 1 + k - 1 \in 1 .. Len(e)
          /\ (6 * q + 1 + k - 1 - 1) \div 6 = q
          /\ ((6 * q + 1 + k - 1 - 1) % 6) + 1 = k
      BY <1>1, <1>3, <1>6
    <3> HIDE DEF block
    <3>2. e[6 * q + 1 + k - 1] =
             [block |-> SubSeq(bytes, 3 * ((6 * q + 1 + k - 1 - 1) \div 6) + 1,
                               3 * ((6 * q + 1 + k - 1 - 1) \div 6) + 3),
              part |-> ((6 * q + 1 + k - 1 - 1) % 6) + 1]
      BY <1>5, <3>1
    <3> QED
      BY <3>1, <3>2 DEF block
  <2> HIDE DEF block
  <2>2. e[6 * q + 1].block = block
    <3>1. 1 \in 1 .. 6 /\ 6 * q + 1 + 1 - 1 = 6 * q + 1
      BY <1>6
    <3>2. e[6 * q + 1 + 1 - 1] = [block |-> block, part |-> 1]
      BY <2>1, <3>1
    <3> QED
      BY <3>1, <3>2
  <2>3. BlockAt(e, 6 * q + 1) = block
    BY <2>1, <2>2 DEF BlockAt
  <2> QED
    BY <2>3 DEF block
<1>7. ASSUME NEW i \in 1 .. Len(d) PROVE d[i] = bytes[i]
  <2> DEFINE q == (i - 1) \div 3
             r == ((i - 1) % 3) + 1
  <2>1. q \in Nat /\ 3 * q + 3 <= Len(bytes) /\ r \in 1 .. 3 /\ 3 * q + r = i
    BY <1>3
  <2>2. d[i] = BlockAt(e, 6 * q + 1)[r]
    BY <1>4
  <2> HIDE DEF q, r
  <2>3. BlockAt(e, 6 * q + 1) = SubSeq(bytes, 3 * q + 1, 3 * q + 3)
    BY <1>6, <2>1
  <2>4. SubSeq(bytes, 3 * q + 1, 3 * q + 3)[r] = bytes[3 * q + r]
    BY <2>1, BlockOf
  <2> QED
    BY <2>1, <2>2, <2>3, <2>4
<1>8. d = bytes
  BY <1>3, <1>7, SeqEqual
<1> QED
  BY <1>1, <1>2, <1>8

-----------------------------------------------------------------------------
(* The writing half *)

TaskShape ==
    /\ task = [step |-> task.step, slave |-> task.slave, loop |-> task.loop, n |-> task.n,
               bytes |-> task.bytes]
    /\ task.step \in Steps
    /\ task.slave \in Slaves

\* One value for each slave.
Slavewise(f) == f = [s \in Slaves |-> f[s]]

TxTypes ==
    /\ Slavewise(chipTx) /\ Slavewise(txQueue)
    /\ \A s \in Slaves : /\ chipTx[s] \in Seq(OnChip(s))
                         /\ txQueue[s] \in Seq(Bytes(s))
                         /\ Len(txQueue[s]) <= QueueSize[s]
    /\ written \in [Slaves -> Nat]
    /\ txDisabled \in [Slaves -> BOOLEAN]
    /\ throughput \in Nat
    /\ task.step \in {"tx_off", "tx_burst"} => task.bytes \in Seq(OnChip(task.slave))

ChipsHold == \A s \in Slaves : Len(chipTx[s]) <= FifoSize[s]

\* The transmitter is off from its disabling to its enabling, unless flow control decides.
OffForBurst == task.step = "tx_burst" => txDisabled[task.slave] \/ Controlled(task.slave)

\* Inductive.
WriteInv ==
    /\ TaskShape
    /\ TxTypes
    /\ ChipsHold
    /\ OffForBurst
    /\ WritesFit

\* The byte numbers are integers; with Golay code a chip holds symbols, otherwise bytes.
LEMMA ByteSets ==
    ASSUME NEW s \in Slaves
    PROVE  /\ Junk \in Bytes(s) /\ PACK_FILL \in Bytes(s) /\ Bytes(s) \subseteq Int
           /\ Coded(s) => OnChip(s) = Symbol(Bytes(s))
           /\ ~Coded(s) => OnChip(s) = Bytes(s)
<1>1. Junk \in Bytes(s) /\ PACK_FILL \in Bytes(s)
  BY DEF Bytes
<1>2. Bytes(s) \subseteq Int
  BY DEF Bytes, Junk, PACK_FILL
<1>3. Coded(s) => OnChip(s) = Symbol(Bytes(s))
  BY DEF OnChip, Symbols, Symbol, Coded
<1>4. ~Coded(s) => OnChip(s) = Bytes(s)
  BY DEF OnChip
<1> QED
  BY <1>1, <1>2, <1>3, <1>4

\* Twice what is no more than the half fits.
LEMMA TwiceFits ==
    ASSUME NEW level \in Nat, NEW n \in Nat, NEW space \in Nat, NEW size \in Nat,
           n <= space, level + 2 * space <= size
    PROVE  level + 2 * n <= size
OBVIOUS

\* What is free, or twice its half, fits.
LEMMA HalfFits ==
    ASSUME NEW level \in Nat, NEW size \in Nat, level <= size
    PROVE  /\ size - level \in Nat
           /\ level + (size - level) <= size
           /\ (size - level) \div 2 \in Nat
           /\ level + 2 * ((size - level) \div 2) <= size
OBVIOUS

\* What is free in a chip is a number, and so is its half.
LEMMA Levels ==
    ASSUME TxTypes, ChipsHold, NEW s \in Slaves
    PROVE  /\ Len(chipTx[s]) \in Nat /\ Len(txQueue[s]) \in Nat
           /\ FifoSize[s] \in Nat /\ Len(chipTx[s]) <= FifoSize[s]
           /\ SpaceLeft(s) \in Nat
           /\ ~Coded(s) => Len(chipTx[s]) + SpaceLeft(s) <= FifoSize[s]
           /\ Coded(s) => Len(chipTx[s]) + 2 * SpaceLeft(s) <= FifoSize[s]
           /\ ToWrite(s) \in Nat /\ ToWrite(s) <= SpaceLeft(s) /\ ToWrite(s) <= Len(txQueue[s])
<1>1. chipTx[s] \in Seq(OnChip(s)) /\ txQueue[s] \in Seq(Bytes(s))
  BY DEF TxTypes
<1>2. /\ Len(chipTx[s]) \in Nat /\ Len(txQueue[s]) \in Nat
      /\ FifoSize[s] \in Nat /\ Len(chipTx[s]) <= FifoSize[s]
  BY <1>1, SpiAssumption DEF ChipsHold
<1>3. /\ SpaceLeft(s) \in Nat
      /\ ~Coded(s) => Len(chipTx[s]) + SpaceLeft(s) <= FifoSize[s]
      /\ Coded(s) => Len(chipTx[s]) + 2 * SpaceLeft(s) <= FifoSize[s]
  BY <1>2, HalfFits DEF SpaceLeft
<1>4. ToWrite(s) \in Nat /\ ToWrite(s) <= SpaceLeft(s) /\ ToWrite(s) <= Len(txQueue[s])
  BY <1>2, <1>3 DEF ToWrite, Smaller
<1> QED
  BY <1>2, <1>3, <1>4

\* What is popped is the beginning of the queue, for which there is space.
LEMMA PoppedIsSeq ==
    ASSUME TxTypes, ChipsHold, NEW s \in Slaves
    PROVE  \E m \in Nat : /\ m <= SpaceLeft(s) /\ m <= Len(txQueue[s])
                          /\ Popped(s) = SubSeq(txQueue[s], 1, m)
                          /\ Popped(s) \in Seq(Bytes(s)) /\ Len(Popped(s)) = m
<1> DEFINE left == IF Counted(s) < MaxThroughput THEN MaxThroughput - Counted(s) ELSE 0
           most == IF s = Wireless THEN Smaller(ToWrite(s), left) ELSE ToWrite(s)
<1>1. left \in Nat
  BY SpiAssumption DEF TxTypes, Counted
<1>2. /\ SpaceLeft(s) \in Nat /\ Len(txQueue[s]) \in Nat
      /\ ToWrite(s) \in Nat /\ ToWrite(s) <= SpaceLeft(s) /\ ToWrite(s) <= Len(txQueue[s])
  BY Levels
<1> HIDE DEF left
<1>3. most \in Nat /\ most <= SpaceLeft(s) /\ most <= Len(txQueue[s])
  BY <1>1, <1>2 DEF Smaller
<1>4. Popped(s) = SubSeq(txQueue[s], 1, most)
  BY DEF Popped, left
<1> HIDE DEF most
<1>5. txQueue[s] \in Seq(Bytes(s))
  BY DEF TxTypes
<1>6. SubSeq(txQueue[s], 1, most) \in Seq(Bytes(s)) /\ Len(SubSeq(txQueue[s], 1, most)) = most
  BY <1>3, <1>5, CutInTwo
<1> QED
  BY <1>3, <1>4, <1>6

\* What is written for bytes popped.
Burst(s, popped) == IF Coded(s) THEN Encoded(Filled(popped)) ELSE popped

\* The bytes taken for a burst: no more than fit, as they are or encoded, unless a block had
\* to be filled up.
LEMMA PoppedFits ==
    ASSUME TxTypes, ChipsHold, NEW s \in Slaves
    PROVE  /\ Burst(s, Popped(s)) \in Seq(OnChip(s))
           /\ \/ Coded(s) /\ Made(Burst(s, Popped(s)))
              \/ Len(chipTx[s]) + Len(Burst(s, Popped(s))) <= FifoSize[s]
<1>1. PICK popped \in Seq(Bytes(s)) : popped = Popped(s) /\ Len(popped) <= SpaceLeft(s)
  BY PoppedIsSeq
<1>2. /\ Len(chipTx[s]) \in Nat /\ FifoSize[s] \in Nat /\ SpaceLeft(s) \in Nat
      /\ ~Coded(s) => Len(chipTx[s]) + SpaceLeft(s) <= FifoSize[s]
      /\ Coded(s) => Len(chipTx[s]) + 2 * SpaceLeft(s) <= FifoSize[s]
  BY Levels
<1>3. Len(popped) \in Nat
  OBVIOUS
<1>4. CASE ~Coded(s)
  <2>1. Burst(s, popped) = popped /\ popped \in Seq(OnChip(s))
    BY <1>4, ByteSets DEF Burst
  <2> QED
    BY <1>1, <1>2, <1>3, <1>4, <2>1
<1>5. CASE Coded(s)
  <2>1. PICK filled \in Seq(Bytes(s)) :
           /\ filled = Filled(popped)
           /\ Len(filled) % 3 = 0
           /\ Len(popped) % 3 = 0 => Len(filled) = Len(popped)
           /\ Len(popped) % 3 # 0 => filled[Len(filled)] = PACK_FILL /\ Len(filled) > 0
    BY ByteSets, FilledIsSeq
  <2>2. /\ Encoded(filled) \in Seq(Symbol(Bytes(s)))
        /\ Len(Encoded(filled)) = 2 * Len(filled)
        /\ Len(popped) % 3 # 0 => Made(Encoded(filled))
    BY <2>1, EncodedBlocks
  <2>3. Burst(s, popped) = Encoded(filled) /\ Encoded(filled) \in Seq(OnChip(s))
    BY <1>5, <2>1, <2>2, ByteSets DEF Burst
  <2>4. CASE Len(popped) % 3 = 0
    <3>1. Len(Encoded(filled)) = 2 * Len(popped)
      BY <2>1, <2>2, <2>4
    <3>2. Len(chipTx[s]) + 2 * Len(popped) <= FifoSize[s]
      BY <1>1, <1>2, <1>3, <1>5, TwiceFits
    <3> QED
      BY <1>1, <2>3, <3>1, <3>2
  <2>5. CASE Len(popped) % 3 # 0
    BY <1>1, <1>5, <2>2, <2>3, <2>5
  <2> QED
    BY <2>4, <2>5
<1> QED
  BY <1>4, <1>5

-----------------------------------------------------------------------------

\* Nothing is written yet.
LEMMA InitWriteInv == Init => WriteInv
  <1> SUFFICES ASSUME Init PROVE WriteInv
    OBVIOUS
  <1>1. TaskShape
    BY DEF Init, TaskShape, At, Steps, Slaves
  <1>2. /\ chipTx = [s \in Slaves |-> <<>>]
        /\ txQueue = [s \in Slaves |-> <<>>]
        /\ written = [s \in Slaves |-> 0]
        /\ txDisabled = [s \in Slaves |-> TRUE]
        /\ throughput = 0
        /\ task.step = "sleep"
    BY DEF Init, Each, At
  <1>3. \A s \in Slaves : FifoSize[s] \in Nat /\ QueueSize[s] \in Nat
    BY SpiAssumption
  <1>4. TxTypes
    BY <1>2, <1>3 DEF TxTypes, Slavewise
  <1>5. ChipsHold
    BY <1>2, <1>3 DEF ChipsHold
  <1> QED
    BY <1>1, <1>2, <1>4, <1>5 DEF WriteInv, OffForBurst, WritesFit

\* A step that leaves the writing half alone, and does not begin to write.
LEMMA ReadingKeeps ==
    ASSUME WriteInv, TaskShape', UNCHANGED <<chipTx, txQueue, written, txDisabled>>,
           throughput' = throughput,
           task' = task \/ task'.step \notin {"tx_off", "tx_burst"}
    PROVE  WriteInv'
  <1>1. TxTypes'
    <2>1. TxTypes
      BY DEF WriteInv
    <2>2. task'.step \in {"tx_off", "tx_burst"} => task'.bytes \in Seq(OnChip(task'.slave))
      BY <2>1 DEF TxTypes
    <2> QED
      BY <2>1, <2>2 DEF TxTypes, Slavewise, OnChip, Coded
  <1>2. ChipsHold'
    BY DEF WriteInv, ChipsHold
  <1>3. OffForBurst'
    BY DEF WriteInv, OffForBurst, Controlled
  <1>4. WritesFit'
    BY DEF WriteInv, WritesFit, Coded
  <1> QED
    BY <1>1, <1>2, <1>3, <1>4 DEF WriteInv

\* Another task's byte waits in the queue.
LEMMA PushKeeps == ASSUME WriteInv, NEW s \in Slaves, Push(s) PROVE WriteInv'
  <1>1. /\ UNCHANGED <<chipTx, task, txDisabled, throughput>>
        /\ written' = [written EXCEPT ![s] = @ + 1]
        /\ \E l \in Loads : \A t \in Slaves : written'[t] <= l[t]
        /\ txQueue' = [txQueue EXCEPT ![s] = Append(@, written'[s])]
        /\ Len(txQueue[s]) < QueueSize[s]
    BY DEF Push
  <1>2. written' \in [Slaves -> Nat] /\ written'[s] \in Nat \ {0}
    BY <1>1 DEF WriteInv, TxTypes
  <1>3. written'[s] \in Bytes(s)
    <2>1. PICK l \in Loads : written'[s] <= l[s]
      BY <1>1
    <2>2. l \in [Slaves -> Nat]
      BY SpiAssumption
    <2>3. l[s] \in Nat /\ written'[s] \in 1 .. l[s]
      BY <1>2, <2>1, <2>2
    <2> QED
      BY <2>3 DEF Bytes
  <1>4. PICK q \in Seq(Bytes(s)), e \in Bytes(s) : q = txQueue[s] /\ e = written'[s]
    BY <1>3 DEF WriteInv, TxTypes
  <1>5. Append(q, e) \in Seq(Bytes(s)) /\ Len(Append(q, e)) = Len(q) + 1
    BY AppendIsJoin
  <1>6. /\ Slavewise(txQueue') /\ txQueue'[s] = Append(q, e)
        /\ \A t \in Slaves : t # s => txQueue'[t] = txQueue[t]
    <2>1. Slavewise(txQueue) /\ txQueue' = [txQueue EXCEPT ![s] = Append(q, e)]
      BY <1>1, <1>4 DEF WriteInv, TxTypes
    <2> QED
      BY <2>1 DEF Slavewise
  <1>7. \A t \in Slaves : txQueue'[t] \in Seq(Bytes(t)) /\ Len(txQueue'[t]) <= QueueSize[t]
    <2>1. Len(q) \in Nat /\ QueueSize[s] \in Nat /\ Len(q) < QueueSize[s]
      BY <1>1, <1>4, SpiAssumption
    <2>2. Len(txQueue'[s]) <= QueueSize[s]
      BY <1>5, <1>6, <2>1
    <2> QED
      BY <1>5, <1>6, <2>2 DEF WriteInv, TxTypes
  <1>8. TxTypes'
    BY <1>1, <1>2, <1>6, <1>7 DEF WriteInv, TxTypes, Slavewise, OnChip, Coded
  <1>9. TaskShape' /\ ChipsHold'
    BY <1>1 DEF WriteInv, TaskShape, ChipsHold
  <1>10. OffForBurst' /\ WritesFit'
    BY <1>1 DEF WriteInv, OffForBurst, WritesFit, Controlled, Coded
  <1> QED
    BY <1>8, <1>9, <1>10 DEF WriteInv

\* What fitted a level fits a lower one.
LEMMA EmptierFits ==
    ASSUME NEW after \in Nat, NEW level \in Nat, NEW n \in Nat, NEW size \in Nat,
           after <= level, level + n <= size
    PROVE  after + n <= size
OBVIOUS

\* A chip that transmits only gets emptier.
LEMMA TransmitKeeps == ASSUME WriteInv, NEW s \in Slaves, Transmit(s) PROVE WriteInv'
  <1>1. /\ UNCHANGED <<txQueue, written, txDisabled, throughput, task>>
        /\ chipTx[s] # <<>>
        /\ chipTx' = [chipTx EXCEPT ![s] = Tail(chipTx[s])]
    BY DEF Transmit
  <1>2. PICK q \in Seq(OnChip(s)) : q = chipTx[s]
    BY DEF WriteInv, TxTypes
  <1>3. Tail(q) \in Seq(OnChip(s)) /\ Len(Tail(q)) = Len(q) - 1
    BY <1>1, <1>2, FirstTaken
  <1>4. /\ Slavewise(chipTx') /\ chipTx'[s] = Tail(q)
        /\ \A t \in Slaves : t # s => chipTx'[t] = chipTx[t]
    <2>1. Slavewise(chipTx) /\ chipTx' = [chipTx EXCEPT ![s] = Tail(q)]
      BY <1>1, <1>2 DEF WriteInv, TxTypes
    <2> QED
      BY <2>1 DEF Slavewise
  <1>5. ASSUME NEW t \in Slaves
        PROVE  /\ chipTx'[t] \in Seq(OnChip(t))
               /\ Len(chipTx'[t]) \in Nat /\ Len(chipTx[t]) \in Nat
               /\ Len(chipTx'[t]) <= Len(chipTx[t])
    <2>1. chipTx[t] \in Seq(OnChip(t))
      BY DEF WriteInv, TxTypes
    <2>2. chipTx'[t] \in Seq(OnChip(t))
      BY <1>3, <1>4, <2>1
    <2>3. Len(chipTx'[t]) \in Nat /\ Len(chipTx[t]) \in Nat
      BY <2>1, <2>2
    <2>4. Len(chipTx'[t]) <= Len(chipTx[t])
      <3>1. CASE t = s
        <4>1. chipTx'[t] = Tail(q) /\ chipTx[t] = q
          BY <1>2, <1>4, <3>1
        <4>2. Len(chipTx'[t]) = Len(chipTx[t]) - 1
          BY <1>3, <4>1
        <4> QED
          BY <2>3, <4>2
      <3>2. CASE t # s
        BY <1>4, <2>3, <3>2
      <3> QED
        BY <3>1, <3>2
    <2> QED
      BY <2>2, <2>3, <2>4
  <1>6. TxTypes'
    BY <1>1, <1>4, <1>5 DEF WriteInv, TxTypes, OnChip, Coded
  <1>7. TaskShape' /\ OffForBurst'
    BY <1>1 DEF WriteInv, TaskShape, OffForBurst, Controlled
  <1>8. ChipsHold'
    <2> SUFFICES ASSUME NEW t \in Slaves PROVE Len(chipTx'[t]) <= FifoSize[t]
      BY DEF ChipsHold
    <2>1. Len(chipTx[t]) <= FifoSize[t] /\ FifoSize[t] \in Nat
      BY SpiAssumption DEF WriteInv, ChipsHold
    <2>2. /\ Len(chipTx'[t]) \in Nat /\ Len(chipTx[t]) \in Nat
          /\ Len(chipTx'[t]) <= Len(chipTx[t])
      BY <1>5
    <2> QED
      BY <2>1, <2>2
  <1>9. WritesFit'
    <2> SUFFICES ASSUME task.step \in {"tx_off", "tx_burst"},
                        ~(Coded(task.slave) /\ Made(task.bytes))
                 PROVE  Len(chipTx'[task.slave]) + Len(task.bytes) <= FifoSize[task.slave]
      BY <1>1 DEF WritesFit, Coded
    <2>1. Len(chipTx[task.slave]) + Len(task.bytes) <= FifoSize[task.slave]
      BY DEF WriteInv, WritesFit
    <2>2. Len(task.bytes) \in Nat /\ FifoSize[task.slave] \in Nat /\ task.slave \in Slaves
      BY SpiAssumption DEF WriteInv, TxTypes, TaskShape
    <2>3. /\ Len(chipTx'[task.slave]) \in Nat /\ Len(chipTx[task.slave]) \in Nat
          /\ Len(chipTx'[task.slave]) <= Len(chipTx[task.slave])
      BY <1>5, <2>2
    <2> QED
      BY <2>1, <2>2, <2>3, EmptierFits
  <1> QED
    BY <1>6, <1>7, <1>8, <1>9 DEF WriteInv

\* The level was read, and no more is taken from the queue than fits.
LEMMA WriteLevelKeeps == ASSUME WriteInv, WriteLevel PROVE WriteInv'
  <1> DEFINE s == task.slave
             n == ToWrite(s)
             popped == IF n > 0 THEN Popped(s) ELSE <<>>
  <1>1. s \in Slaves /\ TxTypes /\ ChipsHold
    BY DEF WriteInv, TaskShape
  <1>2. /\ UNCHANGED <<chipTx, written, txDisabled>>
        /\ task' = IF n = 0 THEN NextSlave(s)
                   ELSE [At("tx_off", s) EXCEPT !.bytes = Burst(s, popped)]
        /\ txQueue' = [txQueue EXCEPT ![s] = SubSeq(@, Len(popped) + 1, Len(@))]
        /\ throughput' = IF txQueue[s] # <<>> THEN Counted(s) + Len(popped) ELSE throughput
    BY DEF WriteLevel, Burst
  <1>3. n \in Nat
    BY <1>1, Levels
  <1>4. PICK m \in Nat : m = Len(popped) /\ m <= Len(txQueue[s])
    <2>1. CASE n = 0
      BY <1>1, <2>1, Levels
    <2>2. CASE n > 0
      BY <1>1, <2>2, PoppedIsSeq
    <2> QED
      BY <1>3, <2>1, <2>2
  <1>5. n # 0 => /\ Burst(s, popped) \in Seq(OnChip(s))
                 /\ \/ Coded(s) /\ Made(Burst(s, popped))
                    \/ Len(chipTx[s]) + Len(Burst(s, popped)) <= FifoSize[s]
    <2> SUFFICES ASSUME n # 0
                 PROVE  /\ Burst(s, popped) \in Seq(OnChip(s))
                        /\ \/ Coded(s) /\ Made(Burst(s, popped))
                           \/ Len(chipTx[s]) + Len(Burst(s, popped)) <= FifoSize[s]
      OBVIOUS
    <2>1. popped = Popped(s)
      BY <1>3
    <2> HIDE DEF popped, n
    <2> QED
      BY <1>1, <2>1, PoppedFits
  <1> HIDE DEF popped, n
  <1>6. TaskShape' /\ (task'.step \notin {"tx_off", "tx_burst"}
                      \/ /\ n # 0 /\ task'.step = "tx_off" /\ task'.slave = s
                         /\ task'.bytes = Burst(s, popped))
    <2>1. CASE n = 0
      BY <1>2, <2>1 DEF NextSlave, At, TaskShape, Steps, Slaves
    <2>2. CASE n # 0
      BY <1>1, <1>2, <2>2 DEF At, TaskShape, Steps
    <2> QED
      BY <2>1, <2>2
  <1>7. /\ Slavewise(txQueue')
        /\ \A t \in Slaves : txQueue'[t] \in Seq(Bytes(t)) /\ Len(txQueue'[t]) <= QueueSize[t]
    <2>1. PICK q \in Seq(Bytes(s)) : q = txQueue[s] /\ Len(q) <= QueueSize[s]
      BY <1>1 DEF TxTypes
    <2>2. PICK r \in Seq(Bytes(s)) : r = SubSeq(q, m + 1, Len(q)) /\ Len(r) = Len(q) - m
      BY <1>4, <2>1, CutInTwo
    <2>3. /\ Slavewise(txQueue') /\ txQueue'[s] = r
          /\ \A t \in Slaves : t # s => txQueue'[t] = txQueue[t]
      <3>1. Slavewise(txQueue) /\ txQueue' = [txQueue EXCEPT ![s] = r]
        BY <1>1, <1>2, <1>4, <2>1, <2>2 DEF TxTypes
      <3> QED
        BY <1>1, <3>1 DEF Slavewise
    <2>4. Len(r) <= QueueSize[s]
      BY <1>1, <2>1, <2>2, SpiAssumption
    <2> QED
      BY <1>1, <2>3, <2>4 DEF TxTypes
  <1>8. throughput' \in Nat
    <2>1. Counted(s) \in Nat
      BY <1>1 DEF TxTypes, Counted
    <2> QED
      BY <1>1, <1>2, <1>4, <2>1 DEF TxTypes
  <1>9. TxTypes'
    BY <1>1, <1>2, <1>5, <1>6, <1>7, <1>8 DEF TxTypes, OnChip, Coded
  <1>10. ChipsHold'
    BY <1>1, <1>2 DEF ChipsHold
  <1>11. OffForBurst'
    BY <1>6 DEF OffForBurst
  <1>12. WritesFit'
    BY <1>2, <1>5, <1>6 DEF WritesFit, Coded
  <1> QED
    BY <1>6, <1>9, <1>10, <1>11, <1>12 DEF WriteInv

\* The burst begins with the transmitter off.
LEMMA DisableTransmitterKeeps == ASSUME WriteInv, DisableTransmitter PROVE WriteInv'
  <1>1. /\ UNCHANGED <<chipTx, txQueue, written, throughput>>
        /\ task.step = "tx_off"
        /\ task' = [task EXCEPT !.step = "tx_burst"]
        /\ txDisabled' = [txDisabled EXCEPT ![task.slave] = @ \/ ~Controlled(task.slave)]
    BY DEF DisableTransmitter
  <1>2. /\ TaskShape'
        /\ task'.step = "tx_burst" /\ task'.slave = task.slave /\ task'.bytes = task.bytes
    BY <1>1 DEF WriteInv, TaskShape, Steps
  <1>3. txDisabled' \in [Slaves -> BOOLEAN]
    BY <1>1, Zenon DEF WriteInv, TxTypes, TaskShape
  <1>4. TxTypes'
    BY <1>1, <1>2, <1>3 DEF WriteInv, TxTypes, Slavewise, OnChip, Coded
  <1>5. OffForBurst'
    BY <1>1, <1>2 DEF WriteInv, TxTypes, TaskShape, OffForBurst, Controlled
  <1>6. ChipsHold' /\ WritesFit'
    BY <1>1, <1>2 DEF WriteInv, ChipsHold, WritesFit, Coded
  <1> QED
    BY <1>2, <1>4, <1>5, <1>6 DEF WriteInv

\* What a burst does to the chip of its slave.
LEMMA BurstFillsChip ==
    ASSUME WriteInv, WriteBurst
    PROVE  LET s == task.slave
               all == chipTx[s] \o task.bytes
           IN  /\ s \in Slaves /\ all \in Seq(OnChip(s))
               /\ Slavewise(chipTx')
               /\ chipTx'[s] = SubSeq(all, 1, Smaller(FifoSize[s], Len(all)))
               /\ chipTx'[s] \in Seq(OnChip(s)) /\ Len(chipTx'[s]) <= FifoSize[s]
               /\ Len(all) <= FifoSize[s] => chipTx'[s] = all
               /\ \A t \in Slaves : t # s => chipTx'[t] = chipTx[t]
  <1> DEFINE s == task.slave
  <1>1. /\ task.step = "tx_burst"
        /\ chipTx' = [chipTx EXCEPT ![s] = SubSeq(chipTx[s] \o task.bytes, 1,
                                             Smaller(FifoSize[s], Len(chipTx[s] \o task.bytes)))]
    BY DEF WriteBurst
  <1>2. /\ s \in Slaves /\ chipTx[s] \in Seq(OnChip(s)) /\ task.bytes \in Seq(OnChip(s))
        /\ FifoSize[s] \in Nat /\ Slavewise(chipTx)
    BY <1>1, SpiAssumption DEF WriteInv, TaskShape, TxTypes
  <1>3. PICK all \in Seq(OnChip(s)) : all = chipTx[s] \o task.bytes
    BY <1>2, JoinedElements
  <1>4. PICK size \in Nat : /\ size = Smaller(FifoSize[s], Len(all))
                            /\ size <= FifoSize[s] /\ size <= Len(all)
                            /\ Len(all) <= FifoSize[s] => size = Len(all)
    <2>1. Len(all) \in Nat
      OBVIOUS
    <2> QED
      BY <1>2, <2>1 DEF Smaller
  <1>5. PICK kept \in Seq(OnChip(s)) : kept = SubSeq(all, 1, size) /\ Len(kept) = size
    <2>1. SubSeq(all, 1, size) \in Seq(OnChip(s)) /\ Len(SubSeq(all, 1, size)) = size
      BY <1>4, CutInTwo
    <2> QED
      BY <2>1
  <1>6. Len(all) <= FifoSize[s] => kept = all
    BY <1>4, <1>5, SubSeqFull
  <1>7. /\ Slavewise(chipTx') /\ chipTx'[s] = kept
        /\ \A t \in Slaves : t # s => chipTx'[t] = chipTx[t]
    <2>1. chipTx' = [chipTx EXCEPT ![s] = kept]
      BY <1>1, <1>3, <1>4, <1>5
    <2> QED
      BY <1>2, <2>1 DEF Slavewise
  <1> QED
    BY <1>2, <1>3, <1>4, <1>5, <1>6, <1>7

\* The chip takes what fits.
LEMMA WriteBurstKeeps == ASSUME WriteInv, WriteBurst PROVE WriteInv'
  <1> DEFINE s == task.slave
  <1>1. /\ UNCHANGED <<txQueue, written, throughput, txDisabled>>
        /\ task' = [task EXCEPT !.step = "tx_on", !.bytes = <<>>]
    BY DEF WriteBurst
  <1>2. /\ s \in Slaves /\ Slavewise(chipTx')
        /\ chipTx'[s] \in Seq(OnChip(s)) /\ Len(chipTx'[s]) <= FifoSize[s]
        /\ \A t \in Slaves : t # s => chipTx'[t] = chipTx[t]
    BY BurstFillsChip
  <1>3. TaskShape' /\ task'.step = "tx_on"
    BY <1>1 DEF WriteInv, TaskShape, Steps
  <1>4. \A t \in Slaves : chipTx'[t] \in Seq(OnChip(t)) /\ Len(chipTx'[t]) <= FifoSize[t]
    BY <1>2 DEF WriteInv, TxTypes, ChipsHold
  <1>5. ChipsHold'
    BY <1>4 DEF ChipsHold
  <1>6. TxTypes'
    BY <1>1, <1>2, <1>3, <1>4 DEF WriteInv, TxTypes, Slavewise, OnChip, Coded
  <1>7. OffForBurst' /\ WritesFit'
    BY <1>3 DEF OffForBurst, WritesFit
  <1> QED
    BY <1>3, <1>5, <1>6, <1>7 DEF WriteInv

\* The burst is over.
LEMMA EnableTransmitterKeeps == ASSUME WriteInv, EnableTransmitter PROVE WriteInv'
  <1>1. /\ UNCHANGED <<chipTx, txQueue, written, throughput>>
        /\ task' = NextSlave(task.slave)
        /\ txDisabled' = [txDisabled EXCEPT ![task.slave] = @ /\ Controlled(task.slave)]
    BY DEF EnableTransmitter
  <1>2. TaskShape' /\ task'.step \notin {"tx_off", "tx_burst"}
    BY <1>1 DEF NextSlave, At, TaskShape, Steps, Slaves
  <1>3. txDisabled' \in [Slaves -> BOOLEAN]
    BY <1>1, Zenon DEF WriteInv, TxTypes, TaskShape
  <1>4. TxTypes'
    BY <1>1, <1>2, <1>3 DEF WriteInv, TxTypes, Slavewise, OnChip, Coded
  <1>5. ChipsHold' /\ OffForBurst' /\ WritesFit'
    BY <1>1, <1>2 DEF WriteInv, ChipsHold, OffForBurst, WritesFit
  <1> QED
    BY <1>2, <1>4, <1>5 DEF WriteInv

\* One step per action.
LEMMA StepWriteInv == WriteInv /\ [Next]_vars => WriteInv'
  <1> SUFFICES ASSUME WriteInv, [Next]_vars PROVE WriteInv'
    OBVIOUS
  <1> USE DEF WriteInv
  <1>1. ASSUME NEW s \in Slaves, Push(s) PROVE WriteInv'
    BY <1>1, PushKeeps
  <1>2. ASSUME NEW s \in Slaves, Transmit(s) PROVE WriteInv'
    BY <1>2, TransmitKeeps
  <1>3. ASSUME NEW s \in Slaves, Pop(s) PROVE WriteInv'
    BY <1>3, ReadingKeeps DEF Pop, TaskShape
  <1>4. ASSUME NEW i \in Intervals, Pass(i) PROVE WriteInv'
    BY <1>4, ReadingKeeps DEF Pass, TaskShape
  <1>5. CASE Wake
    BY <1>5, ReadingKeeps DEF Wake, At, TaskShape, Steps, Slaves
  <1>6. AfterReading = [step |-> AfterReading.step, slave |-> AfterReading.slave,
                        loop |-> AfterReading.loop, n |-> AfterReading.n,
                        bytes |-> AfterReading.bytes]
        /\ AfterReading.step \in {"rx_level", "tx_level"} /\ AfterReading.slave \in Slaves
    BY DEF AfterReading, At, TaskShape
  <1>7. CASE ReadLevel
    <2>1. TaskShape' /\ task'.step \in {"tx_level", "rx_burst"}
      BY <1>7 DEF ReadLevel, At, TaskShape, Steps
    <2> QED
      BY <1>7, <2>1, ReadingKeeps DEF ReadLevel
  <1>8. CASE ReadBurst
    <2>1. TaskShape' /\ task'.step \in {"rx_store", "rx_level", "tx_level"}
      BY <1>6, <1>8 DEF ReadBurst, TaskShape, Steps
    <2> QED
      BY <1>8, <2>1, ReadingKeeps DEF ReadBurst
  <1>9. CASE StoreRead
    <2>1. TaskShape' /\ task'.step \in {"rx_level", "tx_level"}
      BY <1>6, <1>9 DEF StoreRead, TaskShape, Steps
    <2> QED
      BY <1>9, <2>1, ReadingKeeps DEF StoreRead
  <1>10. CASE WriteLevel
    BY <1>10, WriteLevelKeeps
  <1>11. CASE DisableTransmitter
    BY <1>11, DisableTransmitterKeeps
  <1>12. CASE WriteBurst
    BY <1>12, WriteBurstKeeps
  <1>13. CASE EnableTransmitter
    BY <1>13, EnableTransmitterKeeps
  <1>14. CASE UNCHANGED vars
    BY <1>14, ReadingKeeps DEF vars, TaskShape
  <1> QED
    BY <1>1, <1>2, <1>3, <1>4, <1>5, <1>7, <1>8, <1>9, <1>10, <1>11, <1>12, <1>13, <1>14
       DEF Next, TaskStep

-----------------------------------------------------------------------------
(* The reading half *)

\* What is to be read is on the chip, and what waits to be stored fits the queue.
ReadInv ==
    /\ Slavewise(chipRx) /\ Slavewise(rxQueue) /\ Slavewise(got)
    /\ \A s \in Slaves : /\ chipRx[s] \in Seq(OnChip(s)) /\ Len(chipRx[s]) <= FifoSize[s]
                         /\ rxQueue[s] \in Seq(Bytes(s)) /\ Len(rxQueue[s]) <= QueueSize[s]
                         /\ got[s] \in Seq(Bytes(s))
    /\ task.loop \in 0 .. 1
    /\ task.n \in 0 .. FifoSize[task.slave]
    /\ task.step = "rx_burst" => task.n <= Len(chipRx[task.slave])
    /\ task.step = "rx_store" => /\ task.bytes \in Seq(Bytes(task.slave))
                                 /\ Len(rxQueue[task.slave]) + Len(task.bytes)
                                       <= QueueSize[task.slave]
    /\ over \subseteq Intervals
    /\ dropped \in [Slaves -> Nat]
    /\ overrun \in [Slaves -> Nat]
    /\ misaligned \in BOOLEAN

\* Inductive.
TypeInv == WriteInv /\ ReadInv

\* The two halves together are the types.
LEMMA TypesHold == TypeInv => TypeOK
  <1> SUFFICES ASSUME TypeInv PROVE TypeOK
    OBVIOUS
  <1>1. ASSUME NEW s \in Slaves
        PROVE  /\ chipTx[s] \in Seq(OnChip(s)) /\ Len(chipTx[s]) <= FifoSize[s]
               /\ txQueue[s] \in Seq(Bytes(s)) /\ Len(txQueue[s]) <= QueueSize[s]
               /\ written[s] \in Nat
    BY DEF TypeInv, WriteInv, TxTypes, ChipsHold
  <1>2. /\ txDisabled \in [Slaves -> BOOLEAN]
        /\ task.slave \in Slaves /\ task.step \in Steps
        /\ throughput \in Nat
        /\ task.step \in {"tx_off", "tx_burst"} => task.bytes \in Seq(OnChip(task.slave))
    BY DEF TypeInv, WriteInv, TxTypes, TaskShape
  <1> QED
    BY <1>1, <1>2 DEF TypeInv, ReadInv, TypeOK

\* A queue is longer than its chip.
LEMMA Sizes ==
    ASSUME NEW s \in Slaves
    PROVE  FifoSize[s] \in Nat /\ QueueSize[s] \in Nat /\ FifoSize[s] < QueueSize[s]
BY SpiAssumption

\* Nothing is read yet.
LEMMA InitReadInv == Init => ReadInv
  <1> SUFFICES ASSUME Init PROVE ReadInv
    OBVIOUS
  <1>1. /\ chipRx = [s \in Slaves |-> <<>>] /\ rxQueue = [s \in Slaves |-> <<>>]
        /\ got = [s \in Slaves |-> <<>>]
        /\ dropped = [s \in Slaves |-> 0] /\ overrun = [s \in Slaves |-> 0]
        /\ over = Intervals /\ misaligned = FALSE
        /\ task.step = "sleep" /\ task.loop = 0 /\ task.n = 0 /\ task.slave \in Slaves
    BY DEF Init, Each, At, Slaves
  <1>2. ASSUME NEW s \in Slaves
        PROVE  /\ chipRx[s] \in Seq(OnChip(s)) /\ Len(chipRx[s]) <= FifoSize[s]
               /\ rxQueue[s] \in Seq(Bytes(s)) /\ Len(rxQueue[s]) <= QueueSize[s]
               /\ got[s] \in Seq(Bytes(s))
    BY <1>1, Sizes
  <1>3. Slavewise(chipRx) /\ Slavewise(rxQueue) /\ Slavewise(got)
    BY <1>1 DEF Slavewise
  <1>4. task.loop \in 0 .. 1 /\ task.n \in 0 .. FifoSize[task.slave]
    BY <1>1, Sizes
  <1>5. /\ over \subseteq Intervals /\ dropped \in [Slaves -> Nat]
        /\ overrun \in [Slaves -> Nat] /\ misaligned \in BOOLEAN
    BY <1>1
  <1> QED
    BY <1>1, <1>2, <1>3, <1>4, <1>5 DEF ReadInv

\* A step that leaves the reading half alone, and does not begin to read.
LEMMA WritingKeeps ==
    ASSUME ReadInv, UNCHANGED <<chipRx, rxQueue, got, dropped, overrun>>,
           over' \subseteq Intervals, misaligned' \in BOOLEAN, task'.slave \in Slaves,
           \/ task' = task
           \/ /\ task'.step \notin {"rx_burst", "rx_store"}
              /\ task'.loop \in 0 .. 1
              /\ task'.n \in 0 .. FifoSize[task'.slave]
    PROVE  ReadInv'
  <1>1. CASE task' = task
    BY <1>1 DEF ReadInv, Slavewise, OnChip, Coded
  <1>2. CASE /\ task'.step \notin {"rx_burst", "rx_store"}
             /\ task'.loop \in 0 .. 1
             /\ task'.n \in 0 .. FifoSize[task'.slave]
    BY <1>2 DEF ReadInv, Slavewise, OnChip, Coded
  <1> QED
    BY <1>1, <1>2

\* Another task takes a byte.
LEMMA PopReads == ASSUME TypeInv, NEW s \in Slaves, Pop(s) PROVE ReadInv'
  <1>1. /\ rxQueue[s] # <<>>
        /\ got' = [got EXCEPT ![s] = Append(@, Head(rxQueue[s]))]
        /\ rxQueue' = [rxQueue EXCEPT ![s] = Tail(@)]
        /\ UNCHANGED <<chipRx, task, over, dropped, overrun, misaligned>>
        /\ task.step # "rx_burst"
    BY DEF Pop, OthersRun
  <1>2. PICK q \in Seq(Bytes(s)), g \in Seq(Bytes(s)) : q = rxQueue[s] /\ g = got[s]
    BY DEF TypeInv, ReadInv
  <1>3. PICK h \in Bytes(s), r \in Seq(Bytes(s)) : h = Head(q) /\ r = Tail(q) /\ Len(r) = Len(q) - 1
    BY <1>1, <1>2, FirstTaken
  <1>4. Append(g, h) \in Seq(Bytes(s))
    BY AppendIsJoin
  <1>5. /\ Slavewise(got') /\ got'[s] = Append(g, h)
        /\ \A t \in Slaves : t # s => got'[t] = got[t]
    BY <1>1, <1>2, <1>3 DEF TypeInv, ReadInv, Slavewise
  <1>6. /\ Slavewise(rxQueue') /\ rxQueue'[s] = r
        /\ \A t \in Slaves : t # s => rxQueue'[t] = rxQueue[t]
    BY <1>1, <1>2, <1>3 DEF TypeInv, ReadInv, Slavewise
  <1>7. ASSUME NEW t \in Slaves
        PROVE  /\ got'[t] \in Seq(Bytes(t)) /\ rxQueue'[t] \in Seq(Bytes(t))
               /\ Len(rxQueue'[t]) \in Nat /\ Len(rxQueue[t]) \in Nat
               /\ Len(rxQueue'[t]) <= Len(rxQueue[t])
    <2>1. rxQueue[t] \in Seq(Bytes(t)) /\ got[t] \in Seq(Bytes(t))
      BY DEF TypeInv, ReadInv
    <2>2. rxQueue'[t] \in Seq(Bytes(t)) /\ got'[t] \in Seq(Bytes(t))
      BY <1>4, <1>5, <1>6, <2>1
    <2>3. Len(rxQueue'[t]) \in Nat /\ Len(rxQueue[t]) \in Nat
      BY <2>1, <2>2
    <2>4. CASE t = s
      <3>1. rxQueue'[t] = r /\ rxQueue[t] = q
        BY <1>2, <1>6, <2>4
      <3>2. Len(rxQueue'[t]) = Len(rxQueue[t]) - 1
        BY <1>3, <3>1
      <3> QED
        BY <2>2, <2>3, <3>2
    <2>5. CASE t # s
      BY <1>6, <2>2, <2>3, <2>5
    <2> QED
      BY <2>4, <2>5
  <1>8. \A t \in Slaves : Len(rxQueue'[t]) <= QueueSize[t]
    <2> SUFFICES ASSUME NEW t \in Slaves PROVE Len(rxQueue'[t]) <= QueueSize[t]
      OBVIOUS
    <2>1. Len(rxQueue[t]) <= QueueSize[t] /\ QueueSize[t] \in Nat
      BY Sizes DEF TypeInv, ReadInv
    <2>2. Len(rxQueue'[t]) \in Nat /\ Len(rxQueue[t]) \in Nat /\ Len(rxQueue'[t]) <= Len(rxQueue[t])
      BY <1>7
    <2> QED
      BY <2>1, <2>2
  <1>9. task.step = "rx_store"
           => Len(rxQueue'[task.slave]) + Len(task.bytes) <= QueueSize[task.slave]
    <2> SUFFICES ASSUME task.step = "rx_store"
                 PROVE  Len(rxQueue'[task.slave]) + Len(task.bytes) <= QueueSize[task.slave]
      OBVIOUS
    <2>1. /\ task.slave \in Slaves /\ task.bytes \in Seq(Bytes(task.slave))
          /\ Len(rxQueue[task.slave]) + Len(task.bytes) <= QueueSize[task.slave]
      BY DEF TypeInv, ReadInv, WriteInv, TaskShape
    <2>2. Len(task.bytes) \in Nat /\ QueueSize[task.slave] \in Nat
      BY <2>1, Sizes
    <2>3. /\ Len(rxQueue'[task.slave]) \in Nat /\ Len(rxQueue[task.slave]) \in Nat
          /\ Len(rxQueue'[task.slave]) <= Len(rxQueue[task.slave])
      BY <1>7, <2>1
    <2> QED
      BY <2>1, <2>2, <2>3, EmptierFits
  <1> QED
    BY <1>1, <1>5, <1>6, <1>7, <1>8, <1>9 DEF TypeInv, ReadInv, Slavewise, OnChip, Coded

\* A chip receives a byte if it has room for it.
LEMMA TransmitReads == ASSUME TypeInv, NEW s \in Slaves, Transmit(s) PROVE ReadInv'
  <1>1. /\ chipTx[s] # <<>>
        /\ UNCHANGED <<rxQueue, got, task, over, dropped>>
    BY DEF Transmit
  <1>2. PICK h \in OnChip(s) : h = Head(chipTx[s])
    <2>1. chipTx[s] \in Seq(OnChip(s))
      BY DEF TypeInv, WriteInv, TxTypes
    <2>2. Head(chipTx[s]) \in OnChip(s)
      BY <1>1, <2>1, FirstTaken
    <2> QED
      BY <2>2
  <1>3. CASE /\ Len(chipRx[s]) < FifoSize[s]
             /\ chipRx' = [chipRx EXCEPT ![s] = Append(@, Head(chipTx[s]))]
             /\ UNCHANGED <<overrun, misaligned>>
    <2>1. PICK q \in Seq(OnChip(s)) : q = chipRx[s]
      BY DEF TypeInv, ReadInv
    <2>2. Append(q, h) \in Seq(OnChip(s)) /\ Len(Append(q, h)) = Len(q) + 1
      BY AppendIsJoin
    <2>3. /\ Slavewise(chipRx') /\ chipRx'[s] = Append(q, h)
          /\ \A t \in Slaves : t # s => chipRx'[t] = chipRx[t]
      BY <1>2, <1>3, <2>1 DEF TypeInv, ReadInv, Slavewise
    <2>4. Len(Append(q, h)) <= FifoSize[s] /\ Len(q) <= Len(Append(q, h))
      BY <1>3, <2>1, <2>2, Sizes
    <2>5. \A t \in Slaves : chipRx'[t] \in Seq(OnChip(t)) /\ Len(chipRx'[t]) <= FifoSize[t]
      BY <2>2, <2>3, <2>4 DEF TypeInv, ReadInv
    <2>6. task.step = "rx_burst" => task.n <= Len(chipRx'[task.slave])
      <3> SUFFICES ASSUME task.step = "rx_burst" PROVE task.n <= Len(chipRx'[task.slave])
        OBVIOUS
      <3>1. /\ task.slave \in Slaves /\ task.n <= Len(chipRx[task.slave])
            /\ task.n \in 0 .. FifoSize[task.slave] /\ FifoSize[task.slave] \in Nat
        BY Sizes DEF TypeInv, ReadInv, WriteInv, TaskShape
      <3>2. CASE task.slave = s
        <4>1. Len(q) \in Nat /\ chipRx'[task.slave] = Append(q, h) /\ chipRx[task.slave] = q
          BY <2>1, <2>3, <3>2
        <4> QED
          BY <2>2, <3>1, <4>1
      <3>3. CASE task.slave # s
        BY <2>3, <3>1, <3>3
      <3> QED
        BY <3>2, <3>3
    <2> QED
      BY <1>1, <1>3, <2>3, <2>5, <2>6 DEF TypeInv, ReadInv, Slavewise, OnChip, Coded
  <1>4. CASE /\ overrun' = [overrun EXCEPT ![s] = @ + 1]
             /\ misaligned' = (misaligned \/ Coded(s))
             /\ UNCHANGED chipRx
    <2>1. overrun' \in [Slaves -> Nat]
      BY <1>4 DEF TypeInv, ReadInv
    <2>2. misaligned' \in BOOLEAN
      BY <1>4
    <2> QED
      BY <1>1, <1>4, <2>1, <2>2 DEF TypeInv, ReadInv, Slavewise, OnChip, Coded
  <1> QED
    BY <1>3, <1>4 DEF Transmit

\* No more is read than is there.
LEMMA ReadLevelReads == ASSUME TypeInv, ReadLevel PROVE ReadInv'
  <1> DEFINE s == task.slave
             level == Len(chipRx[s])
  <1>1. s \in Slaves /\ chipRx[s] \in Seq(OnChip(s)) /\ level <= FifoSize[s]
        /\ FifoSize[s] \in Nat /\ task.loop \in 0 .. 1
        /\ task = [step |-> task.step, slave |-> task.slave, loop |-> task.loop, n |-> task.n,
                   bytes |-> task.bytes]
    BY Sizes DEF TypeInv, ReadInv, WriteInv, TaskShape
  <1>2. level \in Nat
    BY <1>1
  <1>3. ToRead(s, level) \in 0 .. level
    <2> HIDE DEF level
    <2> QED
      BY <1>2 DEF ToRead
  <1>4. /\ task' = IF ToRead(s, level) = 0 THEN At("tx_level", s)
                   ELSE [task EXCEPT !.step = "rx_burst", !.n = ToRead(s, level)]
        /\ over' \subseteq over
        /\ UNCHANGED <<chipRx, rxQueue, got, dropped, overrun, misaligned>>
    BY DEF ReadLevel
  <1> HIDE DEF level
  <1>5. /\ task'.slave = s /\ task'.loop \in 0 .. 1 /\ task'.n \in 0 .. level
        /\ task'.step \in {"tx_level", "rx_burst"}
    BY <1>1, <1>2, <1>3, <1>4 DEF At
  <1>6. task'.n \in 0 .. FifoSize[task'.slave] /\ task'.n <= level
    BY <1>1, <1>2, <1>5 DEF level
  <1> QED
    BY <1>4, <1>5, <1>6 DEF TypeInv, ReadInv, Slavewise, OnChip, Coded, level

\* The task behind a reading.
LEMMA ReadingDone ==
    ASSUME TypeInv
    PROVE  /\ AfterReading.slave = task.slave /\ task.slave \in Slaves
           /\ AfterReading.loop \in 0 .. 1
           /\ AfterReading.n \in 0 .. FifoSize[task.slave]
           /\ AfterReading.step \in {"rx_level", "tx_level"}
           /\ AfterReading.bytes = <<>>
  <1>1. task.slave \in Slaves /\ FifoSize[task.slave] \in Nat
    BY Sizes DEF TypeInv, WriteInv, TaskShape
  <1> QED
    BY <1>1 DEF AfterReading, At

\* The bytes read, decoded if need be.
BytesRead ==
    LET symbols == SubSeq(chipRx[task.slave], 1, task.n)
    IN  IF Coded(task.slave) THEN Decoded(symbols) ELSE symbols

\* What a reading makes of the symbols taken from a chip is bytes.
LEMMA ReadAreBytes ==
    ASSUME TypeInv, task.step = "rx_burst"
    PROVE  /\ BytesRead \in Seq(Bytes(task.slave))
           /\ Len(BytesRead) <= FifoSize[task.slave]
           /\ task.n \in Nat /\ task.n <= Len(chipRx[task.slave])
           /\ SubSeq(chipRx[task.slave], 1, task.n) \in Seq(OnChip(task.slave))
           /\ Len(SubSeq(chipRx[task.slave], 1, task.n)) = task.n
  <1>1. PICK s \in Slaves : s = task.slave
    BY DEF TypeInv, WriteInv, TaskShape
  <1>2. PICK n \in Nat : n = task.n /\ n <= Len(chipRx[s]) /\ n <= FifoSize[s]
    BY <1>1, Sizes DEF TypeInv, ReadInv
  <1>3. PICK q \in Seq(OnChip(s)) : q = chipRx[s]
    BY <1>1 DEF TypeInv, ReadInv
  <1>4. PICK symbols \in Seq(OnChip(s)) : symbols = SubSeq(q, 1, n) /\ Len(symbols) = n
    <2>1. SubSeq(q, 1, n) \in Seq(OnChip(s)) /\ Len(SubSeq(q, 1, n)) = n
      BY <1>2, <1>3, CutInTwo
    <2> QED
      BY <2>1
  <1>5. CASE Coded(s)
    <2>1. symbols \in Seq(Symbol(Bytes(s))) /\ Junk \in Bytes(s)
      BY <1>5, ByteSets
    <2>2. Decoded(symbols) \in Seq(Bytes(s)) /\ Len(Decoded(symbols)) <= Len(symbols)
      BY <2>1, DecodedIsSeq
    <2>3. PICK bytes \in Seq(Bytes(s)) : bytes = Decoded(symbols) /\ Len(bytes) <= n
      BY <1>4, <2>2
    <2>4. Len(bytes) <= FifoSize[s]
      BY <1>2, <2>3, Sizes
    <2> QED
      BY <1>1, <1>2, <1>3, <1>4, <1>5, <2>3, <2>4 DEF BytesRead
  <1>6. CASE ~Coded(s)
    <2>1. symbols \in Seq(Bytes(s))
      BY <1>6, ByteSets
    <2> QED
      BY <1>1, <1>2, <1>3, <1>4, <1>6, <2>1 DEF BytesRead
  <1> QED
    BY <1>5, <1>6

\* The bytes too many.
Surplus == Len(BytesRead) - (QueueSize[task.slave] - Len(rxQueue[task.slave]))

\* What is read leaves the chip, and the oldest bytes make room for it: since a chip holds
\* less than a queue, there are always enough of them.
LEMMA ReadBurstEffect ==
    ASSUME TypeInv, ReadBurst
    PROVE  LET s == task.slave
           IN  /\ s \in Slaves /\ task.step = "rx_burst"
               /\ Slavewise(chipRx')
               /\ chipRx'[s] = SubSeq(chipRx[s], task.n + 1, Len(chipRx[s]))
               /\ chipRx'[s] \in Seq(OnChip(s)) /\ Len(chipRx'[s]) <= FifoSize[s]
               /\ \A t \in Slaves : t # s => chipRx'[t] = chipRx[t]
               /\ misaligned' = (misaligned \/ (Coded(s) /\ task.n % 6 # 0))
               /\ UNCHANGED <<chipTx, txQueue, got, over, overrun, written>>
               /\ \/ /\ Surplus \in Nat \ {0} /\ Surplus <= Len(rxQueue[s])
                     /\ rxQueue' = [rxQueue EXCEPT ![s] =
                                       SubSeq(rxQueue[s], Surplus + 1, Len(rxQueue[s]))]
                     /\ dropped' = [dropped EXCEPT ![s] = @ + Surplus]
                     /\ task' = [task EXCEPT !.step = "rx_store", !.bytes = BytesRead]
                  \/ /\ Len(rxQueue[s]) + Len(BytesRead) <= QueueSize[s]
                     /\ rxQueue' = [rxQueue EXCEPT ![s] = rxQueue[s] \o BytesRead]
                     /\ task' = AfterReading
                     /\ dropped' = dropped
  <1> DEFINE s == task.slave
  <1>1. /\ s \in Slaves /\ task.step = "rx_burst"
    BY DEF TypeInv, WriteInv, TaskShape, ReadBurst
  <1>2. /\ chipRx' = [chipRx EXCEPT ![s] = SubSeq(chipRx[s], task.n + 1, Len(chipRx[s]))]
        /\ misaligned' = (misaligned \/ (Coded(s) /\ task.n % 6 # 0))
        /\ UNCHANGED <<chipTx, txQueue, got, over, overrun, written>>
    BY DEF ReadBurst
  <1>3. PICK n \in Nat : n = task.n /\ n <= Len(chipRx[s])
    BY <1>1, ReadAreBytes
  <1>4. PICK q \in Seq(OnChip(s)) : q = chipRx[s] /\ Len(q) <= FifoSize[s]
    BY <1>1 DEF TypeInv, ReadInv
  <1>5. PICK r \in Seq(OnChip(s)) : r = SubSeq(q, n + 1, Len(q)) /\ Len(r) = Len(q) - n
    <2>1. SubSeq(q, n + 1, Len(q)) \in Seq(OnChip(s)) /\ Len(SubSeq(q, n + 1, Len(q))) = Len(q) - n
      BY <1>3, <1>4, CutInTwo
    <2> QED
      BY <2>1
  <1>6. /\ Slavewise(chipRx') /\ chipRx'[s] = r
        /\ \A t \in Slaves : t # s => chipRx'[t] = chipRx[t]
    BY <1>1, <1>2, <1>3, <1>4, <1>5 DEF TypeInv, ReadInv, Slavewise
  <1>7. Len(r) <= FifoSize[s]
    BY <1>1, <1>3, <1>4, <1>5, Sizes
  <1>8. PICK bytes \in Seq(Bytes(s)) : bytes = BytesRead /\ Len(bytes) <= FifoSize[s]
    BY <1>1, ReadAreBytes
  <1>9. PICK w \in Seq(Bytes(s)) : w = rxQueue[s] /\ Len(w) <= QueueSize[s]
    BY <1>1 DEF TypeInv, ReadInv
  <1>10. Surplus = Len(bytes) - (QueueSize[s] - Len(w))
    BY <1>8, <1>9 DEF Surplus
  <1>11. /\ Surplus \in Int /\ Surplus <= Len(w)
         /\ ~(Surplus > 0) => Len(w) + Len(bytes) <= QueueSize[s]
    BY <1>1, <1>8, <1>9, <1>10, Sizes
  <1>12. CASE Surplus > 0
    <2>1. /\ rxQueue' = [rxQueue EXCEPT ![s] = SubSeq(rxQueue[s], Surplus + 1, Len(rxQueue[s]))]
          /\ dropped' = [dropped EXCEPT ![s] = @ + Surplus]
          /\ task' = [task EXCEPT !.step = "rx_store", !.bytes = BytesRead]
      BY <1>12 DEF ReadBurst, OldestDropped, Surplus, BytesRead
    <2>2. Surplus \in Nat \ {0} /\ Surplus <= Len(rxQueue[s])
      BY <1>9, <1>11, <1>12
    <2> QED
      BY <1>1, <1>2, <1>3, <1>4, <1>5, <1>6, <1>7, <2>1, <2>2
  <1>13. CASE ~(Surplus > 0)
    <2>1. /\ rxQueue' = [rxQueue EXCEPT ![s] = rxQueue[s] \o BytesRead]
          /\ task' = AfterReading
          /\ dropped' = dropped
      BY <1>13 DEF ReadBurst, Surplus, BytesRead
    <2>2. Len(rxQueue[s]) + Len(BytesRead) <= QueueSize[s]
      BY <1>8, <1>9, <1>11, <1>13
    <2> QED
      BY <1>1, <1>2, <1>3, <1>4, <1>5, <1>6, <1>7, <2>1, <2>2
  <1> QED
    BY <1>12, <1>13

\* What is read is stored, or waits for it behind the bytes that were kept.
LEMMA ReadBurstReads == ASSUME TypeInv, ReadBurst PROVE ReadInv'
  <1> DEFINE s == task.slave
  <1>1. /\ s \in Slaves /\ task.step = "rx_burst"
        /\ Slavewise(chipRx')
        /\ chipRx'[s] \in Seq(OnChip(s)) /\ Len(chipRx'[s]) <= FifoSize[s]
        /\ \A t \in Slaves : t # s => chipRx'[t] = chipRx[t]
        /\ misaligned' = (misaligned \/ (Coded(s) /\ task.n % 6 # 0))
        /\ UNCHANGED <<got, over, overrun>>
    BY ReadBurstEffect
  <1>2. misaligned' \in BOOLEAN
    <2>1. misaligned \in BOOLEAN
      BY DEF TypeInv, ReadInv
    <2> QED
      BY <1>1, <2>1, Zenon
  <1>3. \A t \in Slaves : /\ chipRx'[t] \in Seq(OnChip(t)) /\ Len(chipRx'[t]) <= FifoSize[t]
                          /\ got'[t] \in Seq(Bytes(t))
    BY <1>1 DEF TypeInv, ReadInv
  <1>4. over' \subseteq Intervals /\ overrun' \in [Slaves -> Nat] /\ Slavewise(got')
    BY <1>1 DEF TypeInv, ReadInv, Slavewise
  <1>5. PICK w \in Seq(Bytes(s)) : w = rxQueue[s] /\ Len(w) <= QueueSize[s]
    BY <1>1 DEF TypeInv, ReadInv
  <1>6. PICK bytes \in Seq(Bytes(s)) : bytes = BytesRead
    BY <1>1, ReadAreBytes
  <1>7. Len(w) \in Nat /\ Len(bytes) \in Nat /\ QueueSize[s] \in Nat
    BY <1>1, Sizes
  <1>8. CASE /\ Surplus \in Nat \ {0} /\ Surplus <= Len(rxQueue[s])
             /\ rxQueue' = [rxQueue EXCEPT ![s] =
                               SubSeq(rxQueue[s], Surplus + 1, Len(rxQueue[s]))]
             /\ dropped' = [dropped EXCEPT ![s] = @ + Surplus]
             /\ task' = [task EXCEPT !.step = "rx_store", !.bytes = BytesRead]
    <2>1. PICK m \in Nat : m = Surplus /\ m <= Len(w) /\ m = Len(bytes) - (QueueSize[s] - Len(w))
      BY <1>5, <1>6, <1>8 DEF Surplus
    <2>2. PICK r \in Seq(Bytes(s)) : r = SubSeq(w, m + 1, Len(w)) /\ Len(r) = Len(w) - m
      <3>1. SubSeq(w, m + 1, Len(w)) \in Seq(Bytes(s)) /\ Len(SubSeq(w, m + 1, Len(w))) = Len(w) - m
        BY <2>1, CutInTwo
      <3> QED
        BY <3>1
    <2>3. Len(r) + Len(bytes) = QueueSize[s] /\ Len(r) <= QueueSize[s]
      <3>1. (Len(w) - m) + Len(bytes) = QueueSize[s] /\ Len(w) - m <= QueueSize[s]
        <4>1. Len(w) \in Nat /\ Len(bytes) \in Nat /\ QueueSize[s] \in Nat
          BY <1>7
        <4>2. m = Len(bytes) - (QueueSize[s] - Len(w)) /\ m <= Len(w)
          BY <2>1
        <4> QED
          BY <4>1, <4>2
      <3> QED
        BY <2>2, <3>1
    <2>4. /\ Slavewise(rxQueue') /\ rxQueue'[s] = r
          /\ \A t \in Slaves : t # s => rxQueue'[t] = rxQueue[t]
      <3>1. Slavewise(rxQueue) /\ rxQueue' = [rxQueue EXCEPT ![s] = r]
        BY <1>5, <1>8, <2>1, <2>2 DEF TypeInv, ReadInv
      <3> QED
        BY <1>1, <3>1 DEF Slavewise
    <2>5. \A t \in Slaves : rxQueue'[t] \in Seq(Bytes(t)) /\ Len(rxQueue'[t]) <= QueueSize[t]
      BY <1>1, <2>3, <2>4 DEF TypeInv, ReadInv
    <2>6. dropped' \in [Slaves -> Nat]
      BY <1>1, <1>8 DEF TypeInv, ReadInv
    <2>7. /\ task'.slave = s /\ task'.loop = task.loop /\ task'.n = task.n
          /\ task'.step = "rx_store" /\ task'.bytes = bytes
      BY <1>6, <1>8 DEF TypeInv, WriteInv, TaskShape
    <2>8. task'.loop \in 0 .. 1 /\ task'.n \in 0 .. FifoSize[task'.slave]
      BY <2>7 DEF TypeInv, ReadInv
    <2>9. task'.step = "rx_store" => /\ task'.bytes \in Seq(Bytes(task'.slave))
                                     /\ Len(rxQueue'[task'.slave]) + Len(task'.bytes)
                                           <= QueueSize[task'.slave]
      BY <1>7, <2>3, <2>4, <2>7
    <2>10. task'.step # "rx_burst"
      BY <2>7
    <2> QED
      BY <1>1, <1>2, <1>3, <1>4, <2>4, <2>5, <2>6, <2>8, <2>9, <2>10 DEF ReadInv, OnChip, Coded
  <1>9. CASE /\ Len(rxQueue[s]) + Len(BytesRead) <= QueueSize[s]
             /\ rxQueue' = [rxQueue EXCEPT ![s] = rxQueue[s] \o BytesRead]
             /\ task' = AfterReading
             /\ dropped' = dropped
    <2>1. PICK r \in Seq(Bytes(s)) : r = w \o bytes /\ Len(r) = Len(w) + Len(bytes)
      <3>1. w \o bytes \in Seq(Bytes(s)) /\ Len(w \o bytes) = Len(w) + Len(bytes)
        BY JoinedElements
      <3> QED
        BY <3>1
    <2>2. Len(r) <= QueueSize[s]
      BY <1>5, <1>6, <1>9, <2>1
    <2>3. /\ Slavewise(rxQueue') /\ rxQueue'[s] = r
          /\ \A t \in Slaves : t # s => rxQueue'[t] = rxQueue[t]
      <3>1. Slavewise(rxQueue) /\ rxQueue' = [rxQueue EXCEPT ![s] = r]
        BY <1>5, <1>6, <1>9, <2>1 DEF TypeInv, ReadInv
      <3> QED
        BY <1>1, <3>1 DEF Slavewise
    <2>4. \A t \in Slaves : rxQueue'[t] \in Seq(Bytes(t)) /\ Len(rxQueue'[t]) <= QueueSize[t]
      BY <1>1, <2>2, <2>3 DEF TypeInv, ReadInv
    <2>5. /\ task'.slave = s /\ task'.loop \in 0 .. 1 /\ task'.n \in 0 .. FifoSize[task'.slave]
          /\ task'.step \notin {"rx_burst", "rx_store"}
      BY <1>9, ReadingDone
    <2>6. dropped' \in [Slaves -> Nat]
      BY <1>9 DEF TypeInv, ReadInv
    <2> QED
      BY <1>1, <1>2, <1>3, <1>4, <2>3, <2>4, <2>5, <2>6 DEF ReadInv, OnChip, Coded
  <1> QED
    BY <1>8, <1>9, ReadBurstEffect

\* There is still room for what waits.
LEMMA StoreReadReads == ASSUME TypeInv, StoreRead PROVE ReadInv'
  <1> DEFINE s == task.slave
  <1>1. /\ task.step = "rx_store"
        /\ rxQueue' = [rxQueue EXCEPT ![s] = rxQueue[s] \o task.bytes]
        /\ task' = AfterReading
        /\ UNCHANGED <<chipRx, over, dropped, got, overrun, misaligned>>
    BY DEF StoreRead
  <1>2. /\ s \in Slaves /\ task.bytes \in Seq(Bytes(s)) /\ rxQueue[s] \in Seq(Bytes(s))
        /\ Len(rxQueue[s]) + Len(task.bytes) <= QueueSize[s]
    BY <1>1 DEF TypeInv, ReadInv, WriteInv, TaskShape
  <1>3. PICK r \in Seq(Bytes(s)) : r = rxQueue[s] \o task.bytes /\ Len(r) <= QueueSize[s]
    <2>1. rxQueue[s] \o task.bytes \in Seq(Bytes(s))
      BY <1>2, JoinedElements
    <2>2. Len(rxQueue[s] \o task.bytes) = Len(rxQueue[s]) + Len(task.bytes)
      BY <1>2, JoinedElements
    <2> QED
      BY <1>2, <2>1, <2>2
  <1>4. /\ Slavewise(rxQueue') /\ rxQueue'[s] = r
        /\ \A t \in Slaves : t # s => rxQueue'[t] = rxQueue[t]
    <2>1. Slavewise(rxQueue) /\ rxQueue' = [rxQueue EXCEPT ![s] = r]
      BY <1>1, <1>3 DEF TypeInv, ReadInv
    <2> QED
      BY <1>2, <2>1 DEF Slavewise
  <1>5. \A t \in Slaves : rxQueue'[t] \in Seq(Bytes(t)) /\ Len(rxQueue'[t]) <= QueueSize[t]
    BY <1>2, <1>3, <1>4 DEF TypeInv, ReadInv
  <1>6. /\ task'.slave = s /\ task'.loop \in 0 .. 1 /\ task'.n \in 0 .. FifoSize[task'.slave]
        /\ task'.step \notin {"rx_burst", "rx_store"}
    BY <1>1, ReadingDone
  <1> QED
    BY <1>1, <1>4, <1>5, <1>6 DEF TypeInv, ReadInv, Slavewise, OnChip, Coded

\* A task that begins something new.
LEMMA NextStepKeeps ==
    ASSUME NEW s \in Slaves, NEW step
    PROVE  /\ At(step, s).slave \in Slaves /\ At(step, s).step = step
           /\ At(step, s).loop \in 0 .. 1
           /\ At(step, s).n \in 0 .. FifoSize[At(step, s).slave]
  <1>1. FifoSize[s] \in Nat
    BY Sizes
  <1> QED
    BY <1>1 DEF At

\* The task goes to the other slave or to sleep.
LEMMA NextSlaveKeeps ==
    ASSUME NEW s \in Slaves
    PROVE  /\ NextSlave(s).slave \in Slaves /\ NextSlave(s).step \notin {"rx_burst", "rx_store"}
           /\ NextSlave(s).loop \in 0 .. 1
           /\ NextSlave(s).n \in 0 .. FifoSize[NextSlave(s).slave]
  <1>1. Device \in Slaves /\ Wireless \in Slaves
    BY DEF Slaves
  <1>2. CASE s = Device
    BY <1>1, <1>2, NextStepKeeps DEF NextSlave
  <1>3. CASE s # Device
    BY <1>1, <1>3, NextStepKeeps DEF NextSlave
  <1> QED
    BY <1>2, <1>3

\* One step per action.
LEMMA StepReadInv == TypeInv /\ [Next]_vars => ReadInv'
  <1> SUFFICES ASSUME TypeInv, [Next]_vars PROVE ReadInv'
    OBVIOUS
  <1>0. /\ ReadInv /\ over \subseteq Intervals /\ misaligned \in BOOLEAN /\ task.slave \in Slaves
        /\ task.loop \in 0 .. 1 /\ task.n \in 0 .. FifoSize[task.slave]
        /\ task = [step |-> task.step, slave |-> task.slave, loop |-> task.loop, n |-> task.n,
                   bytes |-> task.bytes]
    BY DEF TypeInv, ReadInv, WriteInv, TaskShape
  <1>1. ASSUME NEW s \in Slaves, Push(s) PROVE ReadInv'
    BY <1>0, <1>1, WritingKeeps DEF Push
  <1>2. ASSUME NEW s \in Slaves, Pop(s) PROVE ReadInv'
    BY <1>2, PopReads
  <1>3. ASSUME NEW s \in Slaves, Transmit(s) PROVE ReadInv'
    BY <1>3, TransmitReads
  <1>4. ASSUME NEW i \in Intervals, Pass(i) PROVE ReadInv'
    <2>1. over' \subseteq Intervals
      BY <1>0, <1>4 DEF Pass
    <2> QED
      BY <1>0, <1>4, <2>1, WritingKeeps DEF Pass
  <1>5. CASE Wake
    <2>1. Device \in Slaves
      BY DEF Slaves
    <2> QED
      BY <1>0, <1>5, <2>1, NextStepKeeps, WritingKeeps DEF Wake
  <1>6. CASE ReadLevel
    BY <1>6, ReadLevelReads
  <1>7. CASE ReadBurst
    BY <1>7, ReadBurstReads
  <1>8. CASE StoreRead
    BY <1>8, StoreReadReads
  <1>9. CASE WriteLevel
    <2>1. /\ UNCHANGED <<chipRx, rxQueue, dropped, got, overrun, misaligned>>
          /\ over' \subseteq over
          /\ \/ task' = NextSlave(task.slave)
             \/ \E bytes : task' = [At("tx_off", task.slave) EXCEPT !.bytes = bytes]
      BY <1>9 DEF WriteLevel
    <2>2. CASE task' = NextSlave(task.slave)
      BY <1>0, <2>1, <2>2, NextSlaveKeeps, WritingKeeps
    <2>3. CASE \E bytes : task' = [At("tx_off", task.slave) EXCEPT !.bytes = bytes]
      <3>1. /\ task'.slave \in Slaves /\ task'.step \notin {"rx_burst", "rx_store"}
            /\ task'.loop \in 0 .. 1 /\ task'.n = 0 /\ task'.slave = task.slave
        BY <1>0, <2>3 DEF At
      <3>2. task'.n \in 0 .. FifoSize[task'.slave]
        BY <3>1, Sizes
      <3> QED
        BY <1>0, <2>1, <3>1, <3>2, WritingKeeps
    <2> QED
      BY <2>1, <2>2, <2>3
  <1>10. CASE DisableTransmitter
    <2>1. /\ task'.slave = task.slave /\ task'.step = "tx_burst"
          /\ task'.loop = task.loop /\ task'.n = task.n
      BY <1>0, <1>10 DEF DisableTransmitter
    <2> QED
      BY <1>0, <1>10, <2>1, WritingKeeps DEF DisableTransmitter
  <1>11. CASE WriteBurst
    <2>1. /\ task'.slave = task.slave /\ task'.step = "tx_on"
          /\ task'.loop = task.loop /\ task'.n = task.n
          /\ UNCHANGED <<chipRx, rxQueue, over, dropped, got, overrun>>
      BY <1>0, <1>11 DEF WriteBurst
    <2>2. misaligned' \in BOOLEAN
      BY <1>0, <1>11, Zenon DEF WriteBurst
    <2> QED
      BY <1>0, <2>1, <2>2, WritingKeeps
  <1>12. CASE EnableTransmitter
    BY <1>0, <1>12, NextSlaveKeeps, WritingKeeps DEF EnableTransmitter
  <1>13. CASE UNCHANGED vars
    BY <1>0, <1>13, WritingKeeps DEF vars
  <1> QED
    BY <1>1, <1>2, <1>3, <1>4, <1>5, <1>6, <1>7, <1>8, <1>9, <1>10, <1>11, <1>12, <1>13
       DEF Next, TaskStep

\* Both halves are kept together.
LEMMA StepTypeInv == TypeInv /\ [Next]_vars => TypeInv'
  BY StepWriteInv, StepReadInv DEF TypeInv

\* Both halves hold at first.
LEMMA InitTypeInv == Init => TypeInv
  BY InitWriteInv, InitReadInv DEF TypeInv

\* What the two theorems about types and all that follow rest on.
LEMMA Invariance == Spec => []TypeInv
  BY InitTypeInv, StepTypeInv, PTL DEF Spec

\* The types of the variables, whatever the sizes and options: no queue and no chip ever holds
\* more than its size, also not while bytes that had to wait for room are stored
\* (SpiHandler.c:544-566).
THEOREM TypeCorrect == Spec => []TypeOK
  BY Invariance, TypesHold, PTL

-----------------------------------------------------------------------------
(* Joining *)

\* The joining of rows as a symbol of its own, so that a fact about it is not lost among what
\* the provers know of sequences.
Join(a, b) == a \o b

\* Rows joined are a row.
LEMMA JoinIsSeq ==
    ASSUME NEW S, NEW a \in Seq(S), NEW b \in Seq(S)
    PROVE  Join(a, b) \in Seq(S)
BY DEF Join

\* It does not matter which rows are joined first.
LEMMA Regrouped ==
    ASSUME NEW S, NEW a \in Seq(S), NEW b \in Seq(S), NEW c \in Seq(S)
    PROVE  Join(Join(a, b), c) = Join(a, Join(b, c))
BY ConcatAssociative DEF Join

\* The empty row changes nothing.
LEMMA WithEmpty ==
    ASSUME NEW S, NEW a \in Seq(S)
    PROVE  Join(a, <<>>) = a /\ Join(<<>>, a) = a
BY ConcatEmptySeq DEF Join

\* The first element moved from one row to the one before.
LEMMA FirstMoved ==
    ASSUME NEW S, NEW a \in Seq(S), NEW b \in Seq(S), b # <<>>
    PROVE  Join(Append(a, Head(b)), Tail(b)) = Join(a, b)
<1>1. PICK e \in S, r \in Seq(S) : e = Head(b) /\ r = Tail(b) /\ b = Join(<<e>>, r)
  BY FirstTaken DEF Join
<1>2. PICK x \in Seq(S) : x = <<e>> /\ Append(a, e) = Join(a, x)
  BY AppendIsJoin DEF Join
<1>3. Join(Join(a, x), r) = Join(a, Join(x, r))
  BY Regrouped
<1> QED
  BY <1>1, <1>2, <1>3

-----------------------------------------------------------------------------
(* Paths *)

\* A path that ends at the other tasks, and one that begins there, and the chip between.
Front(g, w, b) == Join(Join(g, w), b)

Row(c, t, h) == Join(Join(c, t), h)

Through(s, row) == IF Coded(s) THEN Decoded(row) ELSE row

\* The path of slave s is kept unless a block was cut.
KeptOn(s, cut, front, row, q, last, lost) ==
    ~(Coded(s) /\ cut) => /\ Coded(s) => Whole(row)
                          /\ PathKept(s, Join(Join(front, Through(s, row)), q), last, lost)

Kept(s) ==
    KeptOn(s, misaligned, Front(got[s], rxQueue[s], Held(s, {"rx_store"})),
           Row(chipRx[s], chipTx[s], Held(s, {"tx_off", "tx_burst"})),
           txQueue[s], written[s], overrun[s] + dropped[s])

\* Inductive, with TypeInv.
PathsKept == \A s \in Slaves : Kept(s)

\* A row of bytes is a row of integers.
LEMMA BytesAreInts ==
    ASSUME NEW s \in Slaves, NEW x \in Seq(Bytes(s))
    PROVE  x \in Seq(Int)
  <1>1. Bytes(s) \subseteq Int
    BY ByteSets
  <1> QED
    BY <1>1

\* What is before the chips is a row of bytes.
LEMMA FrontIsSeq ==
    ASSUME NEW s \in Slaves, NEW g \in Seq(Bytes(s)), NEW w \in Seq(Bytes(s)),
           NEW b \in Seq(Bytes(s))
    PROVE  Front(g, w, b) \in Seq(Bytes(s))
  <1>1. PICK p \in Seq(Bytes(s)) : p = Join(g, w)
    BY JoinIsSeq
  <1>2. Join(p, b) \in Seq(Bytes(s))
    BY JoinIsSeq
  <1> QED
    BY <1>1, <1>2 DEF Front

\* What is in the chips and behind them is a row of what chips hold.
LEMMA RowIsSeq ==
    ASSUME NEW s \in Slaves, NEW c \in Seq(OnChip(s)), NEW t \in Seq(OnChip(s)),
           NEW h \in Seq(OnChip(s))
    PROVE  Row(c, t, h) \in Seq(OnChip(s))
  <1>1. PICK p \in Seq(OnChip(s)) : p = Join(c, t)
    BY JoinIsSeq
  <1>2. Join(p, h) \in Seq(OnChip(s))
    BY JoinIsSeq
  <1> QED
    BY <1>1, <1>2 DEF Row

\* What comes through a row of a chip is bytes, and piece by piece if the pieces are whole.
LEMMA ThroughIsSeq ==
    ASSUME NEW s \in Slaves, NEW x \in Seq(OnChip(s))
    PROVE  Through(s, x) \in Seq(Bytes(s))
  <1>1. CASE Coded(s)
    <2>1. x \in Seq(Symbol(Bytes(s))) /\ Junk \in Bytes(s)
      BY <1>1, ByteSets
    <2>2. Decoded(x) \in Seq(Bytes(s))
      BY <2>1, DecodedIsSeq
    <2> QED
      BY <1>1, <2>2 DEF Through
  <1>2. CASE ~Coded(s)
    BY <1>2, ByteSets DEF Through
  <1> QED
    BY <1>1, <1>2

\* What comes through a row comes through its pieces, if the first is whole.
LEMMA ThroughJoined ==
    ASSUME NEW s \in Slaves, NEW x \in Seq(OnChip(s)), NEW y \in Seq(OnChip(s)),
           Coded(s) => Whole(x)
    PROVE  Through(s, Join(x, y)) = Join(Through(s, x), Through(s, y))
  <1>1. CASE Coded(s)
    <2>1. x \in Seq(Symbol(Bytes(s))) /\ y \in Seq(Symbol(Bytes(s))) /\ Junk \in Bytes(s)
      BY <1>1, ByteSets
    <2>2. Decoded(Join(x, y)) = Join(Decoded(x), Decoded(y))
      BY <1>1, <2>1, DecodedJoined DEF Join
    <2> QED
      BY <1>1, <2>2 DEF Through
  <1>2. CASE ~Coded(s)
    BY <1>2 DEF Through
  <1> QED
    BY <1>1, <1>2

\* Whole blocks joined with a row are whole blocks if that row is.
LEMMA WholeJoined ==
    ASSUME NEW S, NEW x \in Seq(S), NEW y \in Seq(S), Whole(x)
    PROVE  Whole(Join(x, y)) <=> Whole(y)
  <1>1. Len(Join(x, y)) = Len(x) + Len(y) /\ Len(x) \in Nat /\ Len(y) \in Nat
    BY JoinedElements DEF Join
  <1>2. \A m, n \in Nat : m % 6 = 0 => ((m + n) % 6 = 0 <=> n % 6 = 0)
    OBVIOUS
  <1>3. Len(x) % 6 = 0 => ((Len(x) + Len(y)) % 6 = 0 <=> Len(y) % 6 = 0)
    BY <1>1, <1>2
  <1> QED
    BY <1>1, <1>3 DEF Whole

-----------------------------------------------------------------------------
(* What the steps do to a path *)

\* A byte is taken.
LEMMA FrontPopped ==
    ASSUME NEW S, NEW g \in Seq(S), NEW w \in Seq(S), NEW b, w # <<>>
    PROVE  Front(Append(g, Head(w)), Tail(w), b) = Front(g, w, b)
BY FirstMoved DEF Front

\* The bytes that waited are stored.
LEMMA FrontStored ==
    ASSUME NEW S, NEW g \in Seq(S), NEW w \in Seq(S), NEW b \in Seq(S)
    PROVE  Front(g, Join(w, b), <<>>) = Front(g, w, b)
  <1>1. PICK p \in Seq(S) : p = Join(w, b)
    BY JoinIsSeq
  <1>2. PICK k \in Seq(S) : k = Join(g, p)
    BY JoinIsSeq
  <1>3. Join(k, <<>>) = k
    BY WithEmpty
  <1>4. Join(Join(g, w), b) = Join(g, Join(w, b))
    BY Regrouped
  <1> QED
    BY <1>1, <1>2, <1>3, <1>4 DEF Front

\* A byte is transmitted and received.
LEMMA RowTransmitted ==
    ASSUME NEW S, NEW c \in Seq(S), NEW t \in Seq(S), NEW h, t # <<>>
    PROVE  Row(Append(c, Head(t)), Tail(t), h) = Row(c, t, h)
BY FirstMoved DEF Row

\* A burst is written to the chip.
LEMMA RowWritten ==
    ASSUME NEW S, NEW c \in Seq(S), NEW t \in Seq(S), NEW h \in Seq(S)
    PROVE  Row(c, Join(t, h), <<>>) = Row(c, t, h)
  <1>1. Front(c, Join(t, h), <<>>) = Front(c, t, h)
    BY FrontStored
  <1> QED
    BY <1>1 DEF Front, Row

\* A new byte at the end.
LEMMA PushedKept ==
    ASSUME NEW s \in Slaves, NEW cut, NEW front \in Seq(Bytes(s)), NEW row \in Seq(OnChip(s)),
           NEW q \in Seq(Bytes(s)), NEW last \in Nat, NEW lost \in Nat, last + 1 \in Bytes(s),
           KeptOn(s, cut, front, row, q, last, lost)
    PROVE  KeptOn(s, cut, front, row, Append(q, last + 1), last + 1, lost)
  <1> SUFFICES ASSUME ~(Coded(s) /\ cut)
               PROVE  PathKept(s, Join(Join(front, Through(s, row)), Append(q, last + 1)),
                               last + 1, lost)
    BY DEF KeptOn
  <1>1. PICK m \in Seq(Bytes(s)) : m = Through(s, row)
    BY ThroughIsSeq
  <1>2. PICK x \in Seq(Bytes(s)) : x = Join(front, m)
    BY JoinIsSeq
  <1>3. PICK e \in Seq(Bytes(s)) : e = <<last + 1>> /\ Append(q, last + 1) = Join(q, e)
    BY AppendIsJoin DEF Join
  <1>4. Join(x, q) \in Seq(Int)
    BY JoinIsSeq, BytesAreInts
  <1>5. Join(Join(x, q), e) = Join(x, Join(q, e))
    BY Regrouped
  <1>6. PathKept(s, Join(x, q), last, lost)
    BY <1>1, <1>2 DEF KeptOn
  <1>7. PathKept(s, Join(Join(x, q), <<last + 1>>), last + 1, lost)
    BY <1>4, <1>6, NewKeeps DEF Join
  <1> QED
    BY <1>1, <1>2, <1>3, <1>5, <1>7

\* Several rows: which of them a step is about is said where it is needed.
Rows(S, rows) == rows \subseteq Seq(S)

\* A byte is transmitted to a full chip.
LEMMA CutKept ==
    ASSUME NEW s \in Slaves, NEW cut, NEW front, NEW c, NEW x, NEW r, NEW q,
           Rows(Bytes(s), {front, q}), Rows(OnChip(s), {c, x, r}),
           NEW last \in Nat, NEW lost \in Nat, Len(x) = 1,
           KeptOn(s, cut, front, Join(c, Join(x, r)), q, last, lost)
    PROVE  KeptOn(s, cut \/ Coded(s), front, Join(c, r), q, last, lost + 1)
  <1> SUFFICES ASSUME ~Coded(s)
               PROVE  PathKept(s, Join(Join(front, Join(c, r)), q), last, lost + 1)
    BY DEF KeptOn, Through
  <1>c. c \in Seq(Bytes(s))
    BY ByteSets DEF Rows
  <1>x. x \in Seq(Bytes(s))
    BY ByteSets DEF Rows
  <1>r. r \in Seq(Bytes(s))
    BY ByteSets DEF Rows
  <1>f. front \in Seq(Bytes(s))
    BY DEF Rows
  <1>q. q \in Seq(Bytes(s))
    BY DEF Rows
  <1>k. PICK k \in Seq(Bytes(s)) : k = Join(x, r)
    BY <1>x, <1>r, JoinIsSeq
  <1>a. PICK a \in Seq(Bytes(s)) : a = Join(front, c)
    BY <1>f, <1>c, JoinIsSeq
  <1>z. PICK z \in Seq(Bytes(s)) : z = Join(r, q)
    BY <1>r, <1>q, JoinIsSeq
  <1>5. Join(Join(front, Join(c, k)), q) = Join(a, Join(x, z))
    <2>1. Join(Join(front, c), k) = Join(front, Join(c, k))
      BY <1>f, <1>c, <1>k, Regrouped
    <2>2. Join(Join(a, k), q) = Join(a, Join(k, q))
      BY <1>a, <1>k, <1>q, Regrouped
    <2>3. Join(Join(x, r), q) = Join(x, Join(r, q))
      BY <1>x, <1>r, <1>q, Regrouped
    <2> QED
      BY <1>k, <1>a, <1>z, <2>1, <2>2, <2>3
  <1>6. Join(Join(front, Join(c, r)), q) = Join(a, z)
    <2>1. Join(Join(front, c), r) = Join(front, Join(c, r))
      BY <1>f, <1>c, <1>r, Regrouped
    <2>2. Join(Join(a, r), q) = Join(a, Join(r, q))
      BY <1>a, <1>r, <1>q, Regrouped
    <2> QED
      BY <1>a, <1>z, <2>1, <2>2
  <1>7. PathKept(s, Join(a, Join(x, z)), last, lost)
    BY <1>k, <1>5 DEF KeptOn, Through
  <1>8. a \in Seq(Int) /\ x \in Seq(Int) /\ z \in Seq(Int)
    BY <1>a, <1>x, <1>z, BytesAreInts
  <1>9. PathKept(s, Join(a, z), last, lost + Len(x))
    BY <1>7, <1>8, CutKeeps DEF Join
  <1> QED
    BY <1>6, <1>9

\* Bytes are read from the chip; a cut block is no longer accounted for.
LEMMA ReadKept ==
    ASSUME NEW s \in Slaves, NEW cut, NEW front \in Seq(Bytes(s)), NEW c \in Seq(OnChip(s)),
           NEW r \in Seq(OnChip(s)), NEW q, NEW last, NEW lost,
           KeptOn(s, cut, front, Join(c, r), q, last, lost)
    PROVE  KeptOn(s, cut \/ (Coded(s) /\ Len(c) % 6 # 0), Join(front, Through(s, c)), r, q,
                  last, lost)
  <1> SUFFICES ASSUME ~(Coded(s) /\ cut), Coded(s) => Len(c) % 6 = 0
               PROVE  /\ Coded(s) => Whole(r)
                      /\ PathKept(s, Join(Join(Join(front, Through(s, c)), Through(s, r)), q),
                                  last, lost)
    BY DEF KeptOn
  <1>1. Coded(s) => Whole(c)
    BY DEF Whole
  <1>2. Coded(s) => Whole(r)
    <2> SUFFICES ASSUME Coded(s) PROVE Whole(r)
      OBVIOUS
    <2>1. Whole(Join(c, r))
      BY DEF KeptOn
    <2> QED
      BY <1>1, <2>1, WholeJoined
  <1>3. PICK b \in Seq(Bytes(s)), m \in Seq(Bytes(s)) : b = Through(s, c) /\ m = Through(s, r)
    BY ThroughIsSeq
  <1>4. Through(s, Join(c, r)) = Join(b, m)
    BY <1>1, <1>3, ThroughJoined
  <1>5. Join(Join(front, b), m) = Join(front, Join(b, m))
    BY Regrouped
  <1> QED
    BY <1>2, <1>3, <1>4, <1>5 DEF KeptOn

\* The oldest bytes are dropped.
LEMMA DroppedKept ==
    ASSUME NEW s \in Slaves, NEW cut, NEW g, NEW d, NEW r, NEW row \in Seq(OnChip(s)), NEW q,
           Rows(Bytes(s), {g, d, r, q}), NEW last \in Nat, NEW lost \in Nat,
           KeptOn(s, cut, Join(g, Join(d, r)), row, q, last, lost)
    PROVE  KeptOn(s, cut, Join(g, r), row, q, last, lost + Len(d))
  <1> SUFFICES ASSUME ~(Coded(s) /\ cut)
               PROVE  PathKept(s, Join(Join(Join(g, r), Through(s, row)), q), last, lost + Len(d))
    BY DEF KeptOn
  <1>g. g \in Seq(Bytes(s))
    BY DEF Rows
  <1>d. d \in Seq(Bytes(s))
    BY DEF Rows
  <1>r. r \in Seq(Bytes(s))
    BY DEF Rows
  <1>q. q \in Seq(Bytes(s))
    BY DEF Rows
  <1>m. PICK m \in Seq(Bytes(s)) : m = Through(s, row)
    BY ThroughIsSeq
  <1>k. PICK k \in Seq(Bytes(s)) : k = Join(m, q)
    BY <1>m, <1>q, JoinIsSeq
  <1>z. PICK z \in Seq(Bytes(s)) : z = Join(r, k)
    BY <1>r, <1>k, JoinIsSeq
  <1>1. ASSUME NEW p \in Seq(Bytes(s))
        PROVE  Join(Join(Join(g, p), m), q) = Join(g, Join(p, k))
    <2>1. PICK f \in Seq(Bytes(s)) : f = Join(g, p)
      BY <1>g, JoinIsSeq
    <2>2. Join(Join(f, m), q) = Join(f, Join(m, q))
      BY <1>m, <1>q, <2>1, Regrouped
    <2>3. Join(Join(g, p), k) = Join(g, Join(p, k))
      BY <1>g, <1>k, Regrouped
    <2> QED
      BY <1>k, <2>1, <2>2, <2>3
  <1>2. Join(d, r) \in Seq(Bytes(s)) /\ Join(Join(d, r), k) = Join(d, Join(r, k))
    BY <1>d, <1>r, <1>k, JoinIsSeq, Regrouped
  <1>3. PathKept(s, Join(g, Join(d, z)), last, lost)
    BY <1>m, <1>z, <1>1, <1>2 DEF KeptOn
  <1>4. g \in Seq(Int) /\ d \in Seq(Int) /\ z \in Seq(Int)
    BY <1>g, <1>d, <1>z, BytesAreInts
  <1>5. PathKept(s, Join(g, z), last, lost + Len(d))
    BY <1>3, <1>4, CutKeeps DEF Join
  <1>6. Join(Join(Join(g, r), m), q) = Join(g, z)
    BY <1>r, <1>z, <1>1
  <1> QED
    BY <1>m, <1>5, <1>6

\* Bytes are taken from the queue to be written, encoded and filled up if need be.
LEMMA TakenKept ==
    ASSUME NEW s \in Slaves, NEW cut, NEW front, NEW p, NEW r, Rows(Bytes(s), {front, p, r}),
           NEW row \in Seq(OnChip(s)), NEW last \in Nat, NEW lost \in Nat,
           KeptOn(s, cut, front, row, Join(p, r), last, lost)
    PROVE  KeptOn(s, cut, front, Join(row, Burst(s, p)), r, last, lost)
  <1> SUFFICES ASSUME ~(Coded(s) /\ cut)
               PROVE  /\ Coded(s) => Whole(Join(row, Burst(s, p)))
                      /\ PathKept(s, Join(Join(front, Through(s, Join(row, Burst(s, p)))), r),
                                  last, lost)
    BY DEF KeptOn
  <1>f. front \in Seq(Bytes(s))
    BY DEF Rows
  <1>p. p \in Seq(Bytes(s))
    BY DEF Rows
  <1>r. r \in Seq(Bytes(s))
    BY DEF Rows
  <1>m. PICK m \in Seq(Bytes(s)) : m = Through(s, row)
    BY ThroughIsSeq
  <1>x. PICK x \in Seq(Bytes(s)) : x = Join(front, m)
    BY <1>f, <1>m, JoinIsSeq
  <1>a. PICK a \in Seq(Bytes(s)) : a = Join(x, p)
    BY <1>x, <1>p, JoinIsSeq
  <1>4. PathKept(s, Join(a, r), last, lost)
    <2>1. Join(Join(x, p), r) = Join(x, Join(p, r))
      BY <1>x, <1>p, <1>r, Regrouped
    <2> QED
      BY <1>m, <1>x, <1>a, <2>1 DEF KeptOn
  <1>5. CASE ~Coded(s)
    <2>1. Through(s, Join(row, Burst(s, p))) = Join(m, p)
      BY <1>m, <1>5 DEF Through, Burst
    <2>2. Join(Join(front, m), p) = Join(front, Join(m, p))
      BY <1>f, <1>m, <1>p, Regrouped
    <2> QED
      BY <1>x, <1>a, <1>4, <1>5, <2>1, <2>2
  <1>6. CASE Coded(s)
    <2>1. PICK fill \in Seq(Bytes(s)) : /\ Filled(p) = Join(p, fill)
                                        /\ \A i \in 1 .. Len(fill) : fill[i] = PACK_FILL
      BY <1>p, ByteSets, FilledIsSeq DEF Join
    <2>2. PICK f \in Seq(Bytes(s)) : f = Filled(p) /\ Len(f) % 3 = 0
      BY <1>p, ByteSets, FilledIsSeq
    <2>3. PICK e \in Seq(OnChip(s)) : e = Encoded(f) /\ Len(e) = 2 * Len(f)
      <3>1. Encoded(f) \in Seq(Symbol(Bytes(s))) /\ Len(Encoded(f)) = 2 * Len(f)
        BY <2>2, EncodedBlocks
      <3>2. Encoded(f) \in Seq(OnChip(s))
        BY <1>6, <3>1, ByteSets
      <3> QED
        BY <3>1, <3>2
    <2>4. Whole(e)
      <3>1. \A n \in Nat : n % 3 = 0 => (2 * n) % 6 = 0
        OBVIOUS
      <3>2. Len(f) \in Nat
        BY <2>2
      <3>3. (2 * Len(f)) % 6 = 0
        BY <2>2, <3>1, <3>2
      <3> QED
        BY <2>3, <3>3 DEF Whole
    <2>5. Whole(row)
      BY <1>6 DEF KeptOn
    <2>6. Whole(Join(row, e))
      BY <2>3, <2>4, <2>5, WholeJoined
    <2>7. Through(s, Join(row, e)) = Join(m, f)
      <3>1. Through(s, Join(row, e)) = Join(Through(s, row), Through(s, e))
        BY <2>3, <2>5, ThroughJoined
      <3>2. Junk \in Bytes(s)
        BY ByteSets
      <3>3. Decoded(Encoded(f)) = f
        BY <2>2, <3>2, DecodedEncoded
      <3>4. Through(s, e) = f
        BY <1>6, <2>3, <3>3 DEF Through
      <3> QED
        BY <1>m, <3>1, <3>4
    <2>8. PICK y \in Seq(Bytes(s)) : y = Join(fill, r)
      BY <1>r, <2>1, JoinIsSeq
    <2>9. Join(Join(front, Join(m, f)), r) = Join(a, y)
      <3>1. Join(Join(front, m), f) = Join(front, Join(m, f))
        BY <1>f, <1>m, <2>2, Regrouped
      <3>2. Join(Join(x, p), fill) = Join(x, Join(p, fill))
        BY <1>x, <1>p, <2>1, Regrouped
      <3>3. Join(Join(a, fill), r) = Join(a, Join(fill, r))
        BY <1>a, <1>r, <2>1, Regrouped
      <3> QED
        BY <1>x, <1>a, <2>1, <2>2, <2>8, <3>1, <3>2, <3>3
    <2>10. PathKept(s, Join(a, Join(fill, r)), last, lost)
      <3>1. a \in Seq(Int) /\ fill \in Seq(Int) /\ r \in Seq(Int)
        BY <1>a, <1>r, <2>1, BytesAreInts
      <3> QED
        BY <1>4, <1>6, <2>1, <3>1, FillKeeps DEF Join
    <2>11. Burst(s, p) = e
      BY <1>6, <2>2, <2>3 DEF Burst
    <2> QED
      BY <2>6, <2>7, <2>8, <2>9, <2>10, <2>11
  <1> QED
    BY <1>5, <1>6

\* A path when its beginning in the chip is read.
LEMMA ReadPath ==
    ASSUME NEW s \in Slaves, NEW cut, NEW g, NEW w, NEW q, NEW c, NEW r, NEW t,
           Rows(Bytes(s), {g, w, q}), Rows(OnChip(s), {c, r, t}), NEW last, NEW lost,
           KeptOn(s, cut, Front(g, w, <<>>), Row(Join(c, r), t, <<>>), q, last, lost)
    PROVE  KeptOn(s, cut \/ (Coded(s) /\ Len(c) % 6 # 0), Front(g, w, Through(s, c)),
                  Row(r, t, <<>>), q, last, lost)
  <1>1. PICK x \in Seq(Bytes(s)) : x = Join(g, w)
    BY JoinIsSeq DEF Rows
  <1>2. Front(g, w, <<>>) = x /\ Front(g, w, Through(s, c)) = Join(x, Through(s, c))
    BY <1>1, WithEmpty DEF Front
  <1>c. c \in Seq(OnChip(s))
    BY DEF Rows
  <1>r. r \in Seq(OnChip(s))
    BY DEF Rows
  <1>t. t \in Seq(OnChip(s))
    BY DEF Rows
  <1>y. PICK y \in Seq(OnChip(s)) : y = Join(r, t)
    BY <1>r, <1>t, JoinIsSeq
  <1>3. Row(r, t, <<>>) = y
    BY <1>y, WithEmpty DEF Row
  <1>4. Row(Join(c, r), t, <<>>) = Join(c, y)
    <2>1. Join(Join(c, r), t) = Join(c, Join(r, t))
      BY <1>c, <1>r, <1>t, Regrouped
    <2>2. PICK z \in Seq(OnChip(s)) : z = Join(c, y)
      BY <1>c, <1>y, JoinIsSeq
    <2>3. Join(z, <<>>) = z
      BY <2>2, WithEmpty
    <2> QED
      BY <1>y, <2>1, <2>2, <2>3 DEF Row
  <1>q. q \in Seq(Bytes(s))
    BY DEF Rows
  <1>5. KeptOn(s, cut, x, Join(c, y), q, last, lost)
    BY <1>2, <1>4
  <1>6. KeptOn(s, cut \/ (Coded(s) /\ Len(c) % 6 # 0), Join(x, Through(s, c)), y, q, last, lost)
    BY <1>1, <1>c, <1>y, <1>q, <1>5, ReadKept
  <1> QED
    BY <1>2, <1>3, <1>6

\* A path when the beginning of the received queue is dropped.
LEMMA DroppedPath ==
    ASSUME NEW s \in Slaves, NEW cut, NEW g, NEW d, NEW k, NEW b, NEW q,
           Rows(Bytes(s), {g, d, k, b, q}), NEW row \in Seq(OnChip(s)),
           NEW last \in Nat, NEW lost \in Nat,
           KeptOn(s, cut, Front(g, Join(d, k), b), row, q, last, lost)
    PROVE  KeptOn(s, cut, Front(g, k, b), row, q, last, lost + Len(d))
  <1>g. g \in Seq(Bytes(s))
    BY DEF Rows
  <1>d. d \in Seq(Bytes(s))
    BY DEF Rows
  <1>k. k \in Seq(Bytes(s))
    BY DEF Rows
  <1>b. b \in Seq(Bytes(s))
    BY DEF Rows
  <1>q. q \in Seq(Bytes(s))
    BY DEF Rows
  <1>r. PICK r \in Seq(Bytes(s)) : r = Join(k, b)
    BY <1>k, <1>b, JoinIsSeq
  <1>p. PICK p \in Seq(Bytes(s)) : p = Join(d, k)
    BY <1>d, <1>k, JoinIsSeq
  <1>1. Join(Join(g, p), b) = Join(g, Join(p, b))
    BY <1>g, <1>p, <1>b, Regrouped
  <1>2. Join(Join(d, k), b) = Join(d, Join(k, b))
    BY <1>d, <1>k, <1>b, Regrouped
  <1>3. Join(Join(g, k), b) = Join(g, Join(k, b))
    BY <1>g, <1>k, <1>b, Regrouped
  <1>4. KeptOn(s, cut, Join(g, Join(d, r)), row, q, last, lost)
    BY <1>r, <1>p, <1>1, <1>2 DEF Front
  <1>5. Rows(Bytes(s), {g, d, r, q})
    BY <1>g, <1>d, <1>r, <1>q DEF Rows
  <1>6. KeptOn(s, cut, Join(g, r), row, q, last, lost + Len(d))
    BY <1>4, <1>5, DroppedKept
  <1> QED
    BY <1>r, <1>3, <1>6 DEF Front

\* A path when a byte finds the receiving chip full.
LEMMA LostPath ==
    ASSUME NEW s \in Slaves, NEW cut, NEW front, NEW q, NEW c, NEW t, NEW h, t # <<>>,
           Rows(Bytes(s), {front, q}), Rows(OnChip(s), {c, t, h}),
           NEW last \in Nat, NEW lost \in Nat,
           KeptOn(s, cut, front, Row(c, t, h), q, last, lost)
    PROVE  KeptOn(s, cut \/ Coded(s), front, Row(c, Tail(t), h), q, last, lost + 1)
  <1>c. c \in Seq(OnChip(s))
    BY DEF Rows
  <1>t. t \in Seq(OnChip(s))
    BY DEF Rows
  <1>h. h \in Seq(OnChip(s))
    BY DEF Rows
  <1>1. PICK x \in Seq(OnChip(s)), r \in Seq(OnChip(s)) :
           x = <<Head(t)>> /\ Len(x) = 1 /\ r = Tail(t) /\ t = Join(x, r)
    BY <1>t, FirstTaken DEF Join
  <1>x. x \in Seq(OnChip(s))
    BY <1>1
  <1>r. r \in Seq(OnChip(s))
    BY <1>1
  <1>y. PICK y \in Seq(OnChip(s)) : y = Join(r, h)
    BY <1>r, <1>h, JoinIsSeq
  <1>2. Row(c, Tail(t), h) = Join(c, y)
    <2>1. Join(Join(c, r), h) = Join(c, Join(r, h))
      BY <1>c, <1>r, <1>h, Regrouped
    <2> QED
      BY <1>1, <1>y, <2>1 DEF Row
  <1>3. Row(c, t, h) = Join(c, Join(x, y))
    <2>1. Join(Join(c, t), h) = Join(c, Join(t, h))
      BY <1>c, <1>t, <1>h, Regrouped
    <2>2. Join(Join(x, r), h) = Join(x, Join(r, h))
      BY <1>x, <1>r, <1>h, Regrouped
    <2> QED
      BY <1>1, <1>y, <2>1, <2>2 DEF Row
  <1>4. Rows(OnChip(s), {c, x, y})
    BY <1>c, <1>1, <1>y DEF Rows
  <1>5. KeptOn(s, cut, front, Join(c, Join(x, y)), q, last, lost)
    BY <1>3
  <1>6. KeptOn(s, cut \/ Coded(s), front, Join(c, y), q, last, lost + 1)
    BY <1>1, <1>4, <1>5, CutKept
  <1> QED
    BY <1>2, <1>6

\* A path when the beginning of the queue to the chip is taken for a burst.
LEMMA TakenPath ==
    ASSUME NEW s \in Slaves, NEW cut, NEW front, NEW p, NEW r, Rows(Bytes(s), {front, p, r}),
           NEW c \in Seq(OnChip(s)), NEW t \in Seq(OnChip(s)), NEW last \in Nat, NEW lost \in Nat,
           KeptOn(s, cut, front, Row(c, t, <<>>), Join(p, r), last, lost)
    PROVE  KeptOn(s, cut, front, Row(c, t, Burst(s, p)), r, last, lost)
  <1>1. PICK x \in Seq(OnChip(s)) : x = Join(c, t)
    BY JoinIsSeq
  <1>2. Row(c, t, <<>>) = x /\ Row(c, t, Burst(s, p)) = Join(x, Burst(s, p))
    BY <1>1, WithEmpty DEF Row
  <1> QED
    BY <1>1, <1>2, TakenKept

-----------------------------------------------------------------------------
(* The paths in the steps of the specification *)

ToStore(s) == Held(s, {"rx_store"})

ToWriteOut(s) == Held(s, {"tx_off", "tx_burst"})

\* The types of the parts of a path.
LEMMA PartsTyped ==
    ASSUME TypeInv, NEW s \in Slaves
    PROVE  /\ got[s] \in Seq(Bytes(s)) /\ rxQueue[s] \in Seq(Bytes(s))
           /\ ToStore(s) \in Seq(Bytes(s)) /\ txQueue[s] \in Seq(Bytes(s))
           /\ chipRx[s] \in Seq(OnChip(s)) /\ chipTx[s] \in Seq(OnChip(s))
           /\ ToWriteOut(s) \in Seq(OnChip(s))
           /\ Front(got[s], rxQueue[s], ToStore(s)) \in Seq(Bytes(s))
           /\ Row(chipRx[s], chipTx[s], ToWriteOut(s)) \in Seq(OnChip(s))
           /\ written[s] \in Nat /\ overrun[s] \in Nat /\ dropped[s] \in Nat
           /\ overrun[s] + dropped[s] \in Nat
           /\ misaligned \in BOOLEAN
  <1>1. /\ got[s] \in Seq(Bytes(s)) /\ rxQueue[s] \in Seq(Bytes(s))
        /\ txQueue[s] \in Seq(Bytes(s))
        /\ chipRx[s] \in Seq(OnChip(s)) /\ chipTx[s] \in Seq(OnChip(s))
        /\ written[s] \in Nat /\ overrun[s] \in Nat /\ dropped[s] \in Nat
        /\ misaligned \in BOOLEAN
    BY DEF TypeInv, WriteInv, TxTypes, ReadInv
  <1>2. ToStore(s) \in Seq(Bytes(s))
    <2>1. CASE task.slave = s /\ task.step = "rx_store"
      <3>1. task.bytes \in Seq(Bytes(task.slave))
        BY <2>1 DEF TypeInv, ReadInv
      <3> QED
        BY <2>1, <3>1 DEF ToStore, Held
    <2>2. CASE ~(task.slave = s /\ task.step = "rx_store")
      <3>1. ToStore(s) = <<>>
        BY <2>2 DEF ToStore, Held
      <3> QED
        BY <3>1
    <2> QED
      BY <2>1, <2>2
  <1>3. ToWriteOut(s) \in Seq(OnChip(s))
    BY DEF ToWriteOut, Held, TypeInv, WriteInv, TxTypes
  <1>4. Front(got[s], rxQueue[s], ToStore(s)) \in Seq(Bytes(s))
    BY <1>1, <1>2, FrontIsSeq
  <1>5. Row(chipRx[s], chipTx[s], ToWriteOut(s)) \in Seq(OnChip(s))
    BY <1>1, <1>3, RowIsSeq
  <1>6. overrun[s] + dropped[s] \in Nat
    BY <1>1
  <1> QED
    BY <1>1, <1>2, <1>3, <1>4, <1>5, <1>6

\* A path with its parts as they are.
LEMMA KeptInParts ==
    ASSUME NEW s \in Slaves
    PROVE  Kept(s) <=> KeptOn(s, misaligned, Front(got[s], rxQueue[s], ToStore(s)),
                              Row(chipRx[s], chipTx[s], ToWriteOut(s)), txQueue[s], written[s],
                              overrun[s] + dropped[s])
BY DEF Kept, ToStore, ToWriteOut

\* The same after a step.
LEMMA KeptInPartsAfter ==
    ASSUME NEW s \in Slaves
    PROVE  Kept(s)' <=> KeptOn(s, misaligned', Front(got'[s], rxQueue'[s], ToStore(s)'),
                               Row(chipRx'[s], chipTx'[s], ToWriteOut(s)'), txQueue'[s],
                               written'[s], overrun'[s] + dropped'[s])
BY DEF Kept, ToStore, ToWriteOut

\* A path that a step does not touch.
LEMMA PathUntouched ==
    ASSUME NEW s \in Slaves, Kept(s), misaligned => misaligned',
           got'[s] = got[s], rxQueue'[s] = rxQueue[s], ToStore(s)' = ToStore(s),
           chipRx'[s] = chipRx[s], chipTx'[s] = chipTx[s], ToWriteOut(s)' = ToWriteOut(s),
           txQueue'[s] = txQueue[s], written'[s] = written[s], overrun'[s] = overrun[s],
           dropped'[s] = dropped[s]
    PROVE  Kept(s)'
  <1>1. KeptOn(s, misaligned', Front(got[s], rxQueue[s], ToStore(s)),
               Row(chipRx[s], chipTx[s], ToWriteOut(s)), txQueue[s], written[s],
               overrun[s] + dropped[s])
    BY KeptInParts DEF KeptOn
  <1> QED
    BY <1>1, KeptInPartsAfter

\* The task holds nothing of a slave it does not serve, and nothing between its bursts.
LEMMA NothingHeld ==
    ASSUME NEW s \in Slaves
    PROVE  /\ task.slave # s \/ task.step # "rx_store" => ToStore(s) = <<>>
           /\ task.slave # s \/ task.step \notin {"tx_off", "tx_burst"} => ToWriteOut(s) = <<>>
BY DEF ToStore, ToWriteOut, Held

\* The same after a step.
LEMMA NothingHeldAfter ==
    ASSUME NEW s \in Slaves
    PROVE  /\ task'.slave # s \/ task'.step # "rx_store" => ToStore(s)' = <<>>
           /\ task'.slave # s \/ task'.step \notin {"tx_off", "tx_burst"} => ToWriteOut(s)' = <<>>
BY DEF ToStore, ToWriteOut, Held

\* A step that leaves the task alone leaves what it holds.
LEMMA HeldOn ==
    ASSUME NEW s \in Slaves, task' = task
    PROVE  ToStore(s)' = ToStore(s) /\ ToWriteOut(s)' = ToWriteOut(s)
BY DEF ToStore, ToWriteOut, Held

\* The path of another slave in a step of the task.
LEMMA OtherPath ==
    ASSUME PathsKept, NEW t \in Slaves, t # task.slave, misaligned => misaligned',
           task'.slave = task.slave \/ task'.step \notin {"rx_store", "tx_off", "tx_burst"},
           got'[t] = got[t], rxQueue'[t] = rxQueue[t], chipRx'[t] = chipRx[t],
           chipTx'[t] = chipTx[t], txQueue'[t] = txQueue[t], written'[t] = written[t],
           overrun'[t] = overrun[t], dropped'[t] = dropped[t]
    PROVE  Kept(t)'
  <1>1. ToStore(t)' = ToStore(t) /\ ToWriteOut(t)' = ToWriteOut(t)
    BY NothingHeld, NothingHeldAfter
  <1> QED
    BY <1>1, PathUntouched DEF PathsKept

\* A step that moves nothing.
LEMMA AllUntouched ==
    ASSUME PathsKept, UNCHANGED <<chipRx, chipTx, rxQueue, txQueue, dropped, written, got,
                                  overrun, misaligned>>,
           \A s \in Slaves : ToStore(s)' = ToStore(s) /\ ToWriteOut(s)' = ToWriteOut(s)
    PROVE  PathsKept'
  <1> SUFFICES ASSUME NEW s \in Slaves PROVE Kept(s)'
    BY DEF PathsKept
  <1> QED
    BY PathUntouched DEF PathsKept

\* Another task's byte is the newest.
LEMMA PushPath == ASSUME TypeInv, PathsKept, NEW s \in Slaves, Push(s) PROVE PathsKept'
  <1> SUFFICES ASSUME NEW t \in Slaves PROVE Kept(t)'
    BY DEF PathsKept
  <1>1. /\ UNCHANGED <<chipRx, chipTx, rxQueue, task, dropped, got, overrun, misaligned>>
        /\ written' = [written EXCEPT ![s] = @ + 1]
        /\ \E l \in Loads : \A u \in Slaves : written'[u] <= l[u]
        /\ txQueue' = [txQueue EXCEPT ![s] = Append(@, written'[s])]
    BY DEF Push
  <1>2. written'[s] = written[s] + 1 /\ written[s] \in Nat
    BY <1>1 DEF TypeInv, WriteInv, TxTypes
  <1>3. written[s] + 1 \in Bytes(s)
    <2>1. PICK l \in Loads : written'[s] <= l[s]
      BY <1>1
    <2>2. l \in [Slaves -> Nat]
      BY SpiAssumption
    <2>3. l[s] \in Nat /\ written[s] + 1 \in 1 .. l[s]
      BY <1>2, <2>1, <2>2
    <2> QED
      BY <2>3 DEF Bytes
  <1>4. ToStore(t)' = ToStore(t) /\ ToWriteOut(t)' = ToWriteOut(t)
    BY <1>1, HeldOn
  <1>5. CASE t = s
    <2>1. txQueue'[s] = Append(txQueue[s], written[s] + 1)
      BY <1>1, <1>2 DEF TypeInv, WriteInv, TxTypes, Slavewise
    <2>2. KeptOn(s, misaligned, Front(got[s], rxQueue[s], ToStore(s)),
                 Row(chipRx[s], chipTx[s], ToWriteOut(s)), Append(txQueue[s], written[s] + 1),
                 written[s] + 1, overrun[s] + dropped[s])
      BY <1>3, PartsTyped, KeptInParts, PushedKept DEF PathsKept
    <2>3. KeptOn(s, misaligned', Front(got'[s], rxQueue'[s], ToStore(s)'),
                 Row(chipRx'[s], chipTx'[s], ToWriteOut(s)'), txQueue'[s],
                 written'[s], overrun'[s] + dropped'[s])
      BY <1>1, <1>2, <1>4, <1>5, <2>1, <2>2
    <2> QED
      BY <1>5, <2>3, KeptInPartsAfter
  <1>6. CASE t # s
    <2>1. txQueue'[t] = txQueue[t] /\ written'[t] = written[t]
      BY <1>1, <1>6 DEF TypeInv, WriteInv, TxTypes, Slavewise
    <2> QED
      BY <1>1, <1>4, <2>1, PathUntouched DEF PathsKept
  <1> QED
    BY <1>5, <1>6

\* A byte taken stays in its place of the path.
LEMMA PopPath == ASSUME TypeInv, PathsKept, NEW s \in Slaves, Pop(s) PROVE PathsKept'
  <1> SUFFICES ASSUME NEW t \in Slaves PROVE Kept(t)'
    BY DEF PathsKept
  <1>1. /\ UNCHANGED <<chipRx, chipTx, txQueue, task, dropped, written, overrun, misaligned>>
        /\ rxQueue[s] # <<>>
        /\ got' = [got EXCEPT ![s] = Append(@, Head(rxQueue[s]))]
        /\ rxQueue' = [rxQueue EXCEPT ![s] = Tail(@)]
    BY DEF Pop
  <1>2. ToStore(t)' = ToStore(t) /\ ToWriteOut(t)' = ToWriteOut(t)
    BY <1>1, HeldOn
  <1>3. CASE t = s
    <2>1. got'[s] = Append(got[s], Head(rxQueue[s])) /\ rxQueue'[s] = Tail(rxQueue[s])
      BY <1>1 DEF TypeInv, ReadInv, Slavewise
    <2>2. Front(Append(got[s], Head(rxQueue[s])), Tail(rxQueue[s]), ToStore(s))
             = Front(got[s], rxQueue[s], ToStore(s))
      <3>1. got[s] \in Seq(Bytes(s)) /\ rxQueue[s] \in Seq(Bytes(s))
        BY PartsTyped
      <3> QED
        BY <1>1, <3>1, FrontPopped
    <2>3. KeptOn(s, misaligned', Front(got'[s], rxQueue'[s], ToStore(s)'),
                 Row(chipRx'[s], chipTx'[s], ToWriteOut(s)'), txQueue'[s],
                 written'[s], overrun'[s] + dropped'[s])
      BY <1>1, <1>2, <1>3, <2>1, <2>2, KeptInParts DEF PathsKept
    <2> QED
      BY <1>3, <2>3, KeptInPartsAfter
  <1>4. CASE t # s
    <2>1. got'[t] = got[t] /\ rxQueue'[t] = rxQueue[t]
      BY <1>1, <1>4 DEF TypeInv, ReadInv, Slavewise
    <2> QED
      BY <1>1, <1>2, <2>1, PathUntouched DEF PathsKept
  <1> QED
    BY <1>3, <1>4

\* A byte transmitted stays in its place, or is lost in front of a full chip.
LEMMA TransmitPath == ASSUME TypeInv, PathsKept, NEW s \in Slaves, Transmit(s) PROVE PathsKept'
  <1> SUFFICES ASSUME NEW t \in Slaves PROVE Kept(t)'
    BY DEF PathsKept
  <1>1. /\ UNCHANGED <<rxQueue, txQueue, task, dropped, written, got>>
        /\ chipTx[s] # <<>>
        /\ chipTx' = [chipTx EXCEPT ![s] = Tail(@)]
        /\ \/ /\ chipRx' = [chipRx EXCEPT ![s] = Append(@, Head(chipTx[s]))]
              /\ UNCHANGED <<overrun, misaligned>>
           \/ /\ overrun' = [overrun EXCEPT ![s] = @ + 1]
              /\ misaligned' = (misaligned \/ Coded(s))
              /\ UNCHANGED chipRx
    BY DEF Transmit
  <1>2. ToStore(t)' = ToStore(t) /\ ToWriteOut(t)' = ToWriteOut(t)
    BY <1>1, HeldOn
  <1>3. CASE t = s
    <2>1. chipTx'[s] = Tail(chipTx[s])
      BY <1>1 DEF TypeInv, WriteInv, TxTypes, Slavewise
    <2>2. CASE /\ chipRx' = [chipRx EXCEPT ![s] = Append(@, Head(chipTx[s]))]
               /\ UNCHANGED <<overrun, misaligned>>
      <3>1. chipRx'[s] = Append(chipRx[s], Head(chipTx[s]))
        BY <2>2 DEF TypeInv, ReadInv, Slavewise
      <3>2. Row(Append(chipRx[s], Head(chipTx[s])), Tail(chipTx[s]), ToWriteOut(s))
               = Row(chipRx[s], chipTx[s], ToWriteOut(s))
        <4>1. chipRx[s] \in Seq(OnChip(s)) /\ chipTx[s] \in Seq(OnChip(s))
          BY PartsTyped
        <4> QED
          BY <1>1, <4>1, RowTransmitted
      <3>3. KeptOn(s, misaligned', Front(got'[s], rxQueue'[s], ToStore(s)'),
                   Row(chipRx'[s], chipTx'[s], ToWriteOut(s)'), txQueue'[s],
                   written'[s], overrun'[s] + dropped'[s])
        BY <1>1, <1>2, <1>3, <2>1, <2>2, <3>1, <3>2, KeptInParts DEF PathsKept
      <3> QED
        BY <1>3, <3>3, KeptInPartsAfter
    <2>3. CASE /\ overrun' = [overrun EXCEPT ![s] = @ + 1]
               /\ misaligned' = (misaligned \/ Coded(s))
               /\ UNCHANGED chipRx
      <3>1. overrun'[s] = overrun[s] + 1
        BY <2>3 DEF TypeInv, ReadInv
      <3>2. overrun'[s] + dropped'[s] = (overrun[s] + dropped[s]) + 1
        BY <1>1, <3>1, PartsTyped
      <3>3. /\ Rows(Bytes(s), {Front(got[s], rxQueue[s], ToStore(s)), txQueue[s]})
            /\ Rows(OnChip(s), {chipRx[s], chipTx[s], ToWriteOut(s)})
        BY PartsTyped DEF Rows
      <3>4. KeptOn(s, misaligned \/ Coded(s), Front(got[s], rxQueue[s], ToStore(s)),
                   Row(chipRx[s], Tail(chipTx[s]), ToWriteOut(s)), txQueue[s], written[s],
                   (overrun[s] + dropped[s]) + 1)
        BY <1>1, <3>3, PartsTyped, KeptInParts, LostPath DEF PathsKept
      <3>5. KeptOn(s, misaligned', Front(got'[s], rxQueue'[s], ToStore(s)'),
                   Row(chipRx'[s], chipTx'[s], ToWriteOut(s)'), txQueue'[s],
                   written'[s], overrun'[s] + dropped'[s])
        BY <1>1, <1>2, <1>3, <2>1, <2>3, <3>2, <3>4
      <3> QED
        BY <1>3, <3>5, KeptInPartsAfter
    <2> QED
      BY <1>1, <2>2, <2>3
  <1>4. CASE t # s
    <2>1. chipTx'[t] = chipTx[t]
      BY <1>1, <1>4 DEF TypeInv, WriteInv, TxTypes, Slavewise
    <2>2. chipRx'[t] = chipRx[t] /\ overrun'[t] = overrun[t] /\ (misaligned => misaligned')
      BY <1>1, <1>4 DEF TypeInv, ReadInv, Slavewise
    <2> QED
      BY <1>1, <1>2, <2>1, <2>2, PathUntouched DEF PathsKept
  <1> QED
    BY <1>3, <1>4

\* Bytes read stay in their places, and the oldest may be dropped.
LEMMA ReadBurstPath == ASSUME TypeInv, PathsKept, ReadBurst PROVE PathsKept'
  <1>0. PICK s \in Slaves : s = task.slave
    BY DEF TypeInv, WriteInv, TaskShape
  <1> SUFFICES ASSUME NEW t \in Slaves PROVE Kept(t)'
    BY DEF PathsKept
  <1>1. /\ s \in Slaves /\ task.step = "rx_burst"
        /\ chipRx'[s] = SubSeq(chipRx[s], task.n + 1, Len(chipRx[s]))
        /\ \A u \in Slaves : u # s => chipRx'[u] = chipRx[u]
        /\ misaligned' = (misaligned \/ (Coded(s) /\ task.n % 6 # 0))
        /\ UNCHANGED <<chipTx, txQueue, got, overrun, written>>
    BY <1>0, ReadBurstEffect
  <1>2. \/ /\ Surplus \in Nat \ {0} /\ Surplus <= Len(rxQueue[s])
           /\ rxQueue' = [rxQueue EXCEPT ![s] =
                             SubSeq(rxQueue[s], Surplus + 1, Len(rxQueue[s]))]
           /\ dropped' = [dropped EXCEPT ![s] = @ + Surplus]
           /\ task' = [task EXCEPT !.step = "rx_store", !.bytes = BytesRead]
        \/ /\ rxQueue' = [rxQueue EXCEPT ![s] = rxQueue[s] \o BytesRead]
           /\ task' = AfterReading
           /\ dropped' = dropped
    BY <1>0, ReadBurstEffect
  <1>3. /\ task'.slave = s /\ task'.step \notin {"tx_off", "tx_burst"}
        /\ \A u \in Slaves : u # s => rxQueue'[u] = rxQueue[u] /\ dropped'[u] = dropped[u]
    <2>1. TaskShape /\ Slavewise(rxQueue) /\ dropped \in [Slaves -> Nat]
      BY DEF TypeInv, WriteInv, ReadInv
    <2>2. task'.slave = s /\ task'.step \notin {"tx_off", "tx_burst"}
      BY <1>0, <1>2, <2>1, ReadingDone DEF TaskShape
    <2>3. ASSUME NEW u \in Slaves, u # s PROVE rxQueue'[u] = rxQueue[u] /\ dropped'[u] = dropped[u]
      BY <1>2, <2>1, <2>3 DEF Slavewise
    <2> QED
      BY <2>2, <2>3
  <1>4. CASE t # s
    BY <1>0, <1>1, <1>3, <1>4, OtherPath
  <1>5. CASE t = s
    <2>1. ToStore(s) = <<>> /\ ToWriteOut(s) = <<>> /\ ToWriteOut(s)' = <<>>
      BY <1>0, <1>1, <1>3, NothingHeld, NothingHeldAfter
    <2>2. PICK g \in Seq(Bytes(s)), w \in Seq(Bytes(s)), q \in Seq(Bytes(s)) :
             g = got[s] /\ w = rxQueue[s] /\ q = txQueue[s]
      BY <1>1, PartsTyped
    <2>3. PICK n \in Nat : n = task.n /\ n <= Len(chipRx[s])
      BY <1>0, <1>1, ReadAreBytes
    <2>4. PICK c \in Seq(OnChip(s)), r \in Seq(OnChip(s)), x \in Seq(OnChip(s)) :
             /\ c = SubSeq(chipRx[s], 1, n) /\ Len(c) = n
             /\ r = chipRx'[s] /\ chipRx[s] = Join(c, r)
             /\ x = chipTx[s]
      <3>1. chipRx[s] \in Seq(OnChip(s)) /\ chipTx[s] \in Seq(OnChip(s))
        BY <1>1, PartsTyped
      <3>2. /\ SubSeq(chipRx[s], 1, n) \in Seq(OnChip(s)) /\ Len(SubSeq(chipRx[s], 1, n)) = n
            /\ SubSeq(chipRx[s], n + 1, Len(chipRx[s])) \in Seq(OnChip(s))
            /\ chipRx[s] = SubSeq(chipRx[s], 1, n) \o SubSeq(chipRx[s], n + 1, Len(chipRx[s]))
        BY <2>3, <3>1, CutInTwo
      <3>3. chipRx'[s] = SubSeq(chipRx[s], n + 1, Len(chipRx[s]))
        BY <1>1, <2>3
      <3> QED
        BY <3>1, <3>2, <3>3 DEF Join
    <2>5. PICK b \in Seq(Bytes(s)) : b = BytesRead /\ b = Through(s, c)
      BY <1>0, <1>1, <2>3, <2>4, ReadAreBytes DEF BytesRead, Through
    <2>6. KeptOn(s, misaligned, Front(g, w, <<>>), Row(Join(c, r), x, <<>>), q, written[s],
                 overrun[s] + dropped[s])
      BY <1>1, <2>1, <2>2, <2>4, KeptInParts DEF PathsKept
    <2>7. Rows(Bytes(s), {g, w, q}) /\ Rows(OnChip(s), {c, r, x})
      BY <2>2, <2>4 DEF Rows
    <2>8. KeptOn(s, misaligned \/ (Coded(s) /\ Len(c) % 6 # 0), Front(g, w, b),
                 Row(r, x, <<>>), q, written[s], overrun[s] + dropped[s])
      <3>1. KeptOn(s, misaligned \/ (Coded(s) /\ Len(c) % 6 # 0), Front(g, w, Through(s, c)),
                   Row(r, x, <<>>), q, written[s], overrun[s] + dropped[s])
        BY <2>6, <2>7, ReadPath
      <3> QED
        BY <2>5, <3>1
    <2>9. misaligned' = (misaligned \/ (Coded(s) /\ Len(c) % 6 # 0))
      BY <1>1, <2>3, <2>4
    <2>10. KeptOn(s, misaligned', Front(g, w, b), Row(r, x, <<>>), q, written[s],
                  overrun[s] + dropped[s])
      BY <2>8, <2>9
    <2>11. got'[s] = g /\ chipTx'[s] = x /\ txQueue'[s] = q /\ written'[s] = written[s]
           /\ overrun'[s] = overrun[s]
      BY <1>1, <2>2, <2>4
    <2>12. CASE /\ Surplus \in Nat \ {0} /\ Surplus <= Len(rxQueue[s])
                /\ rxQueue' = [rxQueue EXCEPT ![s] =
                                  SubSeq(rxQueue[s], Surplus + 1, Len(rxQueue[s]))]
                /\ dropped' = [dropped EXCEPT ![s] = @ + Surplus]
                /\ task' = [task EXCEPT !.step = "rx_store", !.bytes = BytesRead]
      <3>1. PICK d \in Seq(Bytes(s)), k \in Seq(Bytes(s)) :
               /\ k = SubSeq(w, Surplus + 1, Len(w)) /\ Len(d) = Surplus /\ w = Join(d, k)
        <4>1. PICK m \in Nat : m = Surplus /\ m <= Len(w)
          BY <2>2, <2>12
        <4>2. /\ SubSeq(w, 1, m) \in Seq(Bytes(s)) /\ Len(SubSeq(w, 1, m)) = m
              /\ SubSeq(w, m + 1, Len(w)) \in Seq(Bytes(s))
              /\ w = SubSeq(w, 1, m) \o SubSeq(w, m + 1, Len(w))
          BY <4>1, CutInTwo
        <4> QED
          BY <4>1, <4>2 DEF Join
      <3>2. rxQueue'[s] = k /\ dropped'[s] = dropped[s] + Surplus
        BY <1>1, <2>2, <2>12, <3>1 DEF TypeInv, ReadInv, Slavewise
      <3>3. ToStore(s)' = b
        <4>1. task'.slave = s /\ task'.step = "rx_store" /\ task'.bytes = b
          BY <1>0, <2>5, <2>12 DEF TypeInv, WriteInv, TaskShape
        <4> QED
          BY <4>1 DEF ToStore, Held
      <3>4. overrun'[s] + dropped'[s] = (overrun[s] + dropped[s]) + Len(d)
        <4>1. overrun[s] \in Nat /\ dropped[s] \in Nat /\ Surplus \in Nat
          BY <1>1, <2>12, PartsTyped
        <4> QED
          BY <2>11, <3>1, <3>2, <4>1
      <3>5. Rows(Bytes(s), {g, d, k, b, q}) /\ Row(r, x, <<>>) \in Seq(OnChip(s))
        <4>1. <<>> \in Seq(OnChip(s))
          OBVIOUS
        <4>2. Row(r, x, <<>>) \in Seq(OnChip(s))
          BY <1>1, <4>1, RowIsSeq
        <4> QED
          BY <2>2, <2>5, <3>1, <4>2 DEF Rows
      <3>6. KeptOn(s, misaligned', Front(g, Join(d, k), b), Row(r, x, <<>>), q, written[s],
                   overrun[s] + dropped[s])
        BY <2>10, <3>1
      <3>7. written[s] \in Nat /\ overrun[s] + dropped[s] \in Nat
        BY <1>1, PartsTyped
      <3>8. KeptOn(s, misaligned', Front(g, k, b), Row(r, x, <<>>), q, written[s],
                   (overrun[s] + dropped[s]) + Len(d))
        BY <1>1, <3>5, <3>6, <3>7, DroppedPath
      <3>9. KeptOn(s, misaligned', Front(got'[s], rxQueue'[s], ToStore(s)'),
                   Row(chipRx'[s], chipTx'[s], ToWriteOut(s)'), txQueue'[s],
                   written'[s], overrun'[s] + dropped'[s])
        BY <2>1, <2>4, <2>11, <3>2, <3>3, <3>4, <3>8
      <3> QED
        BY <1>1, <1>5, <3>9, KeptInPartsAfter
    <2>13. CASE /\ rxQueue' = [rxQueue EXCEPT ![s] = rxQueue[s] \o BytesRead]
                /\ task' = AfterReading
                /\ dropped' = dropped
      <3>1. rxQueue'[s] = Join(w, b)
        BY <1>1, <2>2, <2>5, <2>13 DEF TypeInv, ReadInv, Slavewise, Join
      <3>2. ToStore(s)' = <<>>
        BY <1>0, <1>1, <2>13, ReadingDone, NothingHeldAfter
      <3>3. Front(g, Join(w, b), <<>>) = Front(g, w, b)
        BY <2>2, <2>5, FrontStored
      <3>4. KeptOn(s, misaligned', Front(got'[s], rxQueue'[s], ToStore(s)'),
                   Row(chipRx'[s], chipTx'[s], ToWriteOut(s)'), txQueue'[s],
                   written'[s], overrun'[s] + dropped'[s])
        BY <2>1, <2>4, <2>10, <2>11, <2>13, <3>1, <3>2, <3>3
      <3> QED
        BY <1>1, <1>5, <3>4, KeptInPartsAfter
    <2> QED
      BY <1>2, <2>12, <2>13
  <1> QED
    BY <1>4, <1>5

\* Bytes that waited for room stay in their places.
LEMMA StoreReadPath == ASSUME TypeInv, PathsKept, StoreRead PROVE PathsKept'
  <1>0. PICK s \in Slaves : s = task.slave
    BY DEF TypeInv, WriteInv, TaskShape
  <1> SUFFICES ASSUME NEW t \in Slaves PROVE Kept(t)'
    BY DEF PathsKept
  <1>1. /\ task.step = "rx_store"
        /\ rxQueue' = [rxQueue EXCEPT ![s] = rxQueue[s] \o task.bytes]
        /\ task' = AfterReading
        /\ UNCHANGED <<chipRx, chipTx, txQueue, dropped, written, got, overrun, misaligned>>
    BY <1>0 DEF StoreRead
  <1>2. s \in Slaves /\ task'.slave = s /\ task'.step \in {"rx_level", "tx_level"}
    BY <1>0, <1>1, ReadingDone
  <1>3. CASE t # s
    <2>1. rxQueue'[t] = rxQueue[t]
      BY <1>1, <1>3 DEF TypeInv, ReadInv, Slavewise
    <2> QED
      BY <1>0, <1>1, <1>2, <1>3, <2>1, OtherPath
  <1>4. CASE t = s
    <2>1. ToStore(s) = task.bytes
      BY <1>0, <1>1 DEF ToStore, Held
    <2>2. ToStore(s)' = <<>> /\ ToWriteOut(s)' = ToWriteOut(s)
      BY <1>0, <1>1, <1>2, NothingHeld, NothingHeldAfter
    <2>3. rxQueue'[s] = Join(rxQueue[s], ToStore(s))
      BY <1>1, <1>2, <2>1 DEF TypeInv, ReadInv, Slavewise, Join
    <2>4. Front(got[s], Join(rxQueue[s], ToStore(s)), <<>>)
             = Front(got[s], rxQueue[s], ToStore(s))
      <3>1. /\ got[s] \in Seq(Bytes(s)) /\ rxQueue[s] \in Seq(Bytes(s))
            /\ ToStore(s) \in Seq(Bytes(s))
        BY <1>2, PartsTyped
      <3> QED
        BY <3>1, FrontStored
    <2>5. KeptOn(s, misaligned', Front(got'[s], rxQueue'[s], ToStore(s)'),
                 Row(chipRx'[s], chipTx'[s], ToWriteOut(s)'), txQueue'[s],
                 written'[s], overrun'[s] + dropped'[s])
      BY <1>1, <1>2, <2>2, <2>3, <2>4, KeptInParts DEF PathsKept
    <2> QED
      BY <1>2, <1>4, <2>5, KeptInPartsAfter
  <1> QED
    BY <1>3, <1>4

\* Bytes taken from the queue, made up with fill characters, stay in their places.
LEMMA WriteLevelPath == ASSUME TypeInv, PathsKept, WriteLevel PROVE PathsKept'
  <1>0. PICK s \in Slaves : s = task.slave
    BY DEF TypeInv, WriteInv, TaskShape
  <1> DEFINE n == ToWrite(s)
             popped == IF n > 0 THEN Popped(s) ELSE <<>>
             rest == SubSeq(txQueue[s], Len(popped) + 1, Len(txQueue[s]))
  <1> SUFFICES ASSUME NEW t \in Slaves PROVE Kept(t)'
    BY DEF PathsKept
  <1>1. /\ task.step = "tx_level"
        /\ UNCHANGED <<chipRx, chipTx, rxQueue, dropped, written, got, overrun, misaligned>>
        /\ task' = IF n = 0 THEN NextSlave(s)
                   ELSE [At("tx_off", s) EXCEPT !.bytes = Burst(s, popped)]
        /\ txQueue' = [txQueue EXCEPT ![s] = SubSeq(@, Len(popped) + 1, Len(@))]
    BY <1>0 DEF WriteLevel, Burst
  <1>2. TxTypes /\ ChipsHold /\ txQueue[s] \in Seq(Bytes(s)) /\ n \in Nat
    BY Levels DEF TypeInv, WriteInv, TxTypes
  <1>a. /\ popped \in Seq(Bytes(s)) /\ rest \in Seq(Bytes(s))
        /\ txQueue[s] = Join(popped, rest)
        /\ n = 0 => popped = <<>>
    <2>1. CASE n = 0
      <3>1. popped = <<>>
        BY <2>1
      <3>2. PICK q \in Seq(Bytes(s)) : q = txQueue[s]
        BY <1>2
      <3>3. Len(<<>>) = 0 /\ SubSeq(q, 0 + 1, Len(q)) = q
        BY <3>2, SubSeqFull
      <3>4. Join(<<>>, q) = q
        BY <3>2, WithEmpty
      <3> HIDE DEF popped
      <3>5. <<>> \in Seq(Bytes(s)) /\ q = SubSeq(q, Len(<<>>) + 1, Len(q))
        BY <3>3
      <3> QED
        BY <2>1, <3>1, <3>2, <3>4, <3>5
    <2>2. CASE n > 0
      <3>1. PICK m \in Nat : /\ m <= Len(txQueue[s]) /\ Popped(s) = SubSeq(txQueue[s], 1, m)
                             /\ Popped(s) \in Seq(Bytes(s)) /\ Len(Popped(s)) = m
        BY <1>2, PoppedIsSeq
      <3>2. PICK q \in Seq(Bytes(s)) : q = txQueue[s]
        BY <1>2
      <3>3. /\ SubSeq(q, m + 1, Len(q)) \in Seq(Bytes(s))
            /\ q = SubSeq(q, 1, m) \o SubSeq(q, m + 1, Len(q))
        BY <3>1, <3>2, CutInTwo
      <3>4. popped = Popped(s) /\ n # 0
        BY <2>2
      <3> HIDE DEF popped, n
      <3>5. /\ popped \in Seq(Bytes(s))
            /\ SubSeq(txQueue[s], Len(popped) + 1, Len(txQueue[s])) \in Seq(Bytes(s))
        BY <3>1, <3>2, <3>3, <3>4
      <3>6. txQueue[s] = Join(popped, SubSeq(txQueue[s], Len(popped) + 1, Len(txQueue[s])))
        BY <3>1, <3>2, <3>3, <3>4 DEF Join
      <3> QED
        BY <3>4, <3>5, <3>6
    <2> QED
      BY <1>2, <2>1, <2>2
  <1>b. txQueue' = [txQueue EXCEPT ![s] = rest]
    BY <1>1
  <1> HIDE DEF rest, popped, n
  <1>3. PICK p \in Seq(Bytes(s)), r \in Seq(Bytes(s)) :
           p = popped /\ r = rest /\ txQueue[s] = Join(p, r) /\ (n = 0 => p = <<>>)
    BY <1>a
  <1>4. /\ txQueue'[s] = r
        /\ \A u \in Slaves : u # s => txQueue'[u] = txQueue[u]
    BY <1>2, <1>3, <1>b DEF TxTypes, Slavewise
  <1>5. \/ n = 0 /\ task'.step \notin {"rx_store", "tx_off", "tx_burst"}
        \/ n # 0 /\ task'.step = "tx_off" /\ task'.slave = s /\ task'.bytes = Burst(s, p)
    <2>1. CASE n = 0
      BY <1>1, <2>1 DEF NextSlave, At
    <2>2. CASE n # 0
      BY <1>1, <1>3, <2>2 DEF At
    <2> QED
      BY <2>1, <2>2
  <1>6. CASE t # s
    BY <1>0, <1>1, <1>4, <1>5, <1>6, OtherPath
  <1>7. CASE t = s
    <2>1. ToStore(s) = <<>> /\ ToWriteOut(s) = <<>> /\ ToStore(s)' = <<>>
      BY <1>0, <1>1, <1>5, NothingHeld, NothingHeldAfter
    <2>2. KeptOn(s, misaligned, Front(got[s], rxQueue[s], <<>>),
                 Row(chipRx[s], chipTx[s], <<>>), Join(p, r), written[s], overrun[s] + dropped[s])
      BY <1>3, <2>1, KeptInParts DEF PathsKept
    <2>3. KeptOn(s, misaligned, Front(got[s], rxQueue[s], <<>>),
                 Row(chipRx[s], chipTx[s], ToWriteOut(s)'), r, written[s], overrun[s] + dropped[s])
      <3>1. CASE n = 0
        <4>1. ToWriteOut(s)' = <<>>
          BY <1>5, <3>1, NothingHeldAfter
        <4>2. Join(p, r) = r
          BY <1>3, <3>1, WithEmpty
        <4> QED
          BY <2>2, <4>1, <4>2
      <3>2. CASE n # 0
        <4>1. ToWriteOut(s)' = Burst(s, p)
          BY <1>5, <3>2 DEF ToWriteOut, Held
        <4>2. Front(got[s], rxQueue[s], <<>>) \in Seq(Bytes(s))
          BY <2>1, PartsTyped
        <4>3. Rows(Bytes(s), {Front(got[s], rxQueue[s], <<>>), p, r})
          BY <1>3, <4>2 DEF Rows
        <4>4. /\ chipRx[s] \in Seq(OnChip(s)) /\ chipTx[s] \in Seq(OnChip(s))
              /\ written[s] \in Nat /\ overrun[s] + dropped[s] \in Nat
          BY PartsTyped
        <4>5. KeptOn(s, misaligned, Front(got[s], rxQueue[s], <<>>),
                     Row(chipRx[s], chipTx[s], Burst(s, p)), r, written[s],
                     overrun[s] + dropped[s])
          BY <2>2, <4>3, <4>4, TakenPath
        <4> QED
          BY <4>1, <4>5
      <3> QED
        BY <3>1, <3>2
    <2>4. KeptOn(s, misaligned', Front(got'[s], rxQueue'[s], ToStore(s)'),
                 Row(chipRx'[s], chipTx'[s], ToWriteOut(s)'), txQueue'[s],
                 written'[s], overrun'[s] + dropped'[s])
      BY <1>1, <1>4, <2>1, <2>3
    <2> QED
      BY <1>7, <2>4, KeptInPartsAfter
  <1> QED
    BY <1>6, <1>7

\* What does not fit is a cut block: other bytes fit.
LEMMA WriteBurstPath == ASSUME TypeInv, PathsKept, WriteBurst PROVE PathsKept'
  <1>0. PICK s \in Slaves : s = task.slave
    BY DEF TypeInv, WriteInv, TaskShape
  <1> SUFFICES ASSUME NEW t \in Slaves PROVE Kept(t)'
    BY DEF PathsKept
  <1>1. /\ task.step = "tx_burst"
        /\ misaligned' = (misaligned \/ (Coded(s) /\ Len(chipTx[s] \o task.bytes) > FifoSize[s]))
        /\ task' = [task EXCEPT !.step = "tx_on", !.bytes = <<>>]
        /\ UNCHANGED <<chipRx, rxQueue, txQueue, dropped, written, got, overrun>>
    BY <1>0 DEF WriteBurst
  <1>2. task'.slave = s /\ task'.step = "tx_on"
    BY <1>0, <1>1 DEF TypeInv, WriteInv, TaskShape
  <1>3. /\ Len(chipTx[s] \o task.bytes) <= FifoSize[s] => chipTx'[s] = chipTx[s] \o task.bytes
        /\ \A u \in Slaves : u # s => chipTx'[u] = chipTx[u]
    BY <1>0, BurstFillsChip DEF TypeInv
  <1>4. CASE t # s
    BY <1>0, <1>1, <1>2, <1>3, <1>4, OtherPath
  <1>5. CASE t = s
    <2>1. ToWriteOut(s) = task.bytes /\ task.bytes \in Seq(OnChip(s))
      <3>1. ToWriteOut(s) = task.bytes
        BY <1>0, <1>1 DEF ToWriteOut, Held
      <3> QED
        BY <3>1, PartsTyped
    <2>2. ToStore(s)' = ToStore(s) /\ ToWriteOut(s)' = <<>>
      BY <1>0, <1>1, <1>2, NothingHeld, NothingHeldAfter
    <2>3. CASE Coded(s) /\ misaligned'
      BY <1>5, <2>3, KeptInPartsAfter DEF KeptOn
    <2>4. CASE ~(Coded(s) /\ misaligned')
      <3>1. Len(chipTx[s] \o task.bytes) <= FifoSize[s]
        <4>1. chipTx[s] \in Seq(OnChip(s))
          BY PartsTyped
        <4>2. PICK k \in Nat : /\ k = Len(chipTx[s] \o task.bytes)
                               /\ k = Len(chipTx[s]) + Len(task.bytes)
          <5>1. /\ Len(chipTx[s] \o task.bytes) = Len(chipTx[s]) + Len(task.bytes)
                /\ Len(chipTx[s]) \in Nat /\ Len(task.bytes) \in Nat
            BY <2>1, <4>1, JoinedElements
          <5>2. Len(chipTx[s]) + Len(task.bytes) \in Nat
            <6>1. \A i, j \in Nat : i + j \in Nat
              OBVIOUS
            <6> QED
              BY <5>1, <6>1, Zenon
          <5> QED
            BY <5>1, <5>2, Zenon
        <4>3. FifoSize[s] \in Nat
          BY Sizes
        <4>4. CASE Coded(s)
          <5>1. ~(Len(chipTx[s] \o task.bytes) > FifoSize[s])
            BY <1>1, <2>4, <4>4, Zenon
          <5>2. ~(k > FifoSize[s])
            BY <4>2, <5>1, Zenon
          <5>3. k <= FifoSize[s]
            BY <4>3, <5>2
          <5> QED
            BY <4>2, <5>3, Zenon
        <4>5. CASE ~Coded(s)
          <5>1. Len(chipTx[s]) + Len(task.bytes) <= FifoSize[s]
            BY <1>0, <1>1, <4>5 DEF TypeInv, WriteInv, WritesFit
          <5> QED
            BY <4>2, <5>1
        <4> QED
          BY <4>4, <4>5
      <3>2. chipTx'[s] = Join(chipTx[s], ToWriteOut(s))
        BY <1>3, <2>1, <3>1 DEF Join
      <3>3. Row(chipRx[s], Join(chipTx[s], ToWriteOut(s)), <<>>)
               = Row(chipRx[s], chipTx[s], ToWriteOut(s))
        <4>1. /\ chipRx[s] \in Seq(OnChip(s)) /\ chipTx[s] \in Seq(OnChip(s))
              /\ ToWriteOut(s) \in Seq(OnChip(s))
          BY PartsTyped
        <4> QED
          BY <4>1, RowWritten
      <3>4. KeptOn(s, misaligned, Front(got[s], rxQueue[s], ToStore(s)),
                   Row(chipRx'[s], chipTx'[s], ToWriteOut(s)'), txQueue[s], written[s],
                   overrun[s] + dropped[s])
        BY <1>1, <2>2, <3>2, <3>3, KeptInParts DEF PathsKept
      <3>5. KeptOn(s, misaligned', Front(got[s], rxQueue[s], ToStore(s)),
                   Row(chipRx'[s], chipTx'[s], ToWriteOut(s)'), txQueue[s], written[s],
                   overrun[s] + dropped[s])
        BY <1>1, <2>4, <3>4 DEF KeptOn
      <3>6. KeptOn(s, misaligned', Front(got'[s], rxQueue'[s], ToStore(s)'),
                   Row(chipRx'[s], chipTx'[s], ToWriteOut(s)'), txQueue'[s],
                   written'[s], overrun'[s] + dropped'[s])
        BY <1>1, <2>2, <3>5
      <3> QED
        BY <1>5, <3>6, KeptInPartsAfter
    <2> QED
      BY <2>3, <2>4
  <1> QED
    BY <1>4, <1>5

\* The task goes on without holding bytes before or behind.
LEMMA NothingMoved ==
    ASSUME PathsKept, UNCHANGED <<chipRx, chipTx, rxQueue, txQueue, dropped, written, got,
                                  overrun, misaligned>>,
           task.step \notin {"rx_store", "tx_off", "tx_burst"},
           task'.step \notin {"rx_store", "tx_off", "tx_burst"}
    PROVE  PathsKept'
  <1>1. \A s \in Slaves : ToStore(s)' = ToStore(s) /\ ToWriteOut(s)' = ToWriteOut(s)
    BY NothingHeld, NothingHeldAfter
  <1> QED
    BY <1>1, AllUntouched

\* The task holds the same bytes before and after.
LEMMA DisableTransmitterPath ==
    ASSUME TypeInv, PathsKept, DisableTransmitter
    PROVE  PathsKept'
  <1>1. /\ task.step = "tx_off"
        /\ task' = [task EXCEPT !.step = "tx_burst"]
        /\ UNCHANGED <<chipRx, chipTx, rxQueue, txQueue, dropped, written, got, overrun,
                       misaligned>>
    BY DEF DisableTransmitter
  <1>2. task'.step = "tx_burst" /\ task'.slave = task.slave /\ task'.bytes = task.bytes
    BY <1>1 DEF TypeInv, WriteInv, TaskShape
  <1>3. \A s \in Slaves : ToStore(s)' = ToStore(s) /\ ToWriteOut(s)' = ToWriteOut(s)
    BY <1>1, <1>2 DEF ToStore, ToWriteOut, Held
  <1> QED
    BY <1>1, <1>3, AllUntouched

\* One step per action.
LEMMA StepPathsKept == TypeInv /\ PathsKept /\ [Next]_vars => PathsKept'
  <1> SUFFICES ASSUME TypeInv, PathsKept, [Next]_vars PROVE PathsKept'
    OBVIOUS
  <1>1. ASSUME NEW s \in Slaves, Push(s) PROVE PathsKept'
    BY <1>1, PushPath
  <1>2. ASSUME NEW s \in Slaves, Pop(s) PROVE PathsKept'
    BY <1>2, PopPath
  <1>3. ASSUME NEW s \in Slaves, Transmit(s) PROVE PathsKept'
    BY <1>3, TransmitPath
  <1>4. ASSUME NEW i \in Intervals, Pass(i) PROVE PathsKept'
    BY <1>4, HeldOn, AllUntouched DEF Pass
  <1>5. CASE Wake
    BY <1>5, NothingMoved DEF Wake, At
  <1>6. CASE ReadLevel
    <2>1. task'.step \in {"tx_level", "rx_burst"} /\ task.step = "rx_level"
      BY <1>6 DEF ReadLevel, At, TypeInv, WriteInv, TaskShape
    <2> QED
      BY <1>6, <2>1, NothingMoved DEF ReadLevel
  <1>7. CASE ReadBurst
    BY <1>7, ReadBurstPath
  <1>8. CASE StoreRead
    BY <1>8, StoreReadPath
  <1>9. CASE WriteLevel
    BY <1>9, WriteLevelPath
  <1>10. CASE DisableTransmitter
    BY <1>10, DisableTransmitterPath
  <1>11. CASE WriteBurst
    BY <1>11, WriteBurstPath
  <1>12. CASE EnableTransmitter
    <2>1. task'.step \in {"rx_level", "sleep"} /\ task.step = "tx_on"
      BY <1>12 DEF EnableTransmitter, NextSlave, At
    <2> QED
      BY <1>12, <2>1, NothingMoved DEF EnableTransmitter
  <1>13. CASE UNCHANGED vars
    BY <1>13, HeldOn, AllUntouched DEF vars
  <1> QED
    BY <1>1, <1>2, <1>3, <1>4, <1>5, <1>6, <1>7, <1>8, <1>9, <1>10, <1>11, <1>12, <1>13
       DEF Next, TaskStep

\* Every path is empty.
LEMMA InitPathsKept == Init => PathsKept
  <1> SUFFICES ASSUME Init, NEW s \in Slaves PROVE Kept(s)
    BY DEF PathsKept
  <1>1. /\ got[s] = <<>> /\ rxQueue[s] = <<>> /\ chipRx[s] = <<>> /\ chipTx[s] = <<>>
        /\ txQueue[s] = <<>> /\ written[s] = 0 /\ overrun[s] = 0 /\ dropped[s] = 0
        /\ task.step = "sleep"
    BY DEF Init, Each, At
  <1>2. ToStore(s) = <<>> /\ ToWriteOut(s) = <<>>
    BY <1>1, NothingHeld
  <1>3. PICK e \in Seq(Bytes(s)) : e = <<>> /\ e \in Seq(OnChip(s)) /\ Len(e) = 0
    <2>1. <<>> \in Seq(Bytes(s))
      OBVIOUS
    <2>2. <<>> \in Seq(OnChip(s))
      OBVIOUS
    <2>3. Len(<<>>) = 0
      OBVIOUS
    <2> QED
      BY <2>1, <2>2, <2>3
  <1>4. Join(e, e) = e
    BY <1>3, WithEmpty
  <1>5. Front(<<>>, <<>>, <<>>) = e /\ Row(<<>>, <<>>, <<>>) = e
    BY <1>3, <1>4 DEF Front, Row
  <1>6. Through(s, e) = e
    <2>1. CASE Coded(s)
      <3>1. e \in Seq(Symbol(Bytes(s))) /\ Junk \in Bytes(s)
        BY <1>3, <2>1, ByteSets
      <3>2. PICK d \in Seq(Bytes(s)) : d = Decoded(e) /\ Len(d) <= 0
        BY <1>3, <3>1, DecodedIsSeq
      <3>3. d = <<>>
        BY <3>2
      <3> QED
        BY <1>3, <2>1, <3>2, <3>3 DEF Through
    <2>2. CASE ~Coded(s)
      BY <2>2 DEF Through
    <2> QED
      BY <2>1, <2>2
  <1>7. Whole(e)
    BY <1>3 DEF Whole
  <1>8. PathKept(s, e, 0, 0)
    <2>1. Real(e) = {}
      BY <1>3 DEF Real
    <2>2. Cardinality(Real(e)) = 0
      BY <2>1, FS_EmptySet
    <2> QED
      BY <1>3, <2>1, <2>2 DEF PathKept, InOrder
  <1>9. KeptOn(s, misaligned, e, e, e, 0, 0)
    BY <1>4, <1>6, <1>7, <1>8 DEF KeptOn
  <1>10. overrun[s] + dropped[s] = 0
    BY <1>1
  <1> QED
    BY <1>1, <1>2, <1>3, <1>5, <1>9, <1>10, KeptInParts

\* What is said of the parts of the paths is what is said of the paths.
LEMMA PathsAreAccountedFor == TypeInv /\ PathsKept => BytesAccountedFor
  <1> SUFFICES ASSUME TypeInv, PathsKept, NEW s \in Slaves, ~(Coded(s) /\ misaligned)
               PROVE  LET there == Cardinality(Real(OnTheWay(s)))
                      IN  /\ InOrder(OnTheWay(s), written[s])
                          /\ there + overrun[s] + dropped[s] >= written[s]
                          /\ ~Coded(s) => there + overrun[s] + dropped[s] = written[s]
    BY DEF BytesAccountedFor
  <1>1. PathKept(s, OnTheWay(s), written[s], overrun[s] + dropped[s])
    <2>1. OnTheWay(s) = Join(Join(Front(got[s], rxQueue[s], ToStore(s)),
                                  Through(s, Row(chipRx[s], chipTx[s], ToWriteOut(s)))),
                             txQueue[s])
      BY DEF OnTheWay, Line, Join, Front, Row, Through, ToStore, ToWriteOut
    <2> QED
      BY <2>1, KeptInParts DEF PathsKept, KeptOn
  <1>2. OnTheWay(s) \in Seq(Int)
    <2>1. PICK f \in Seq(Bytes(s)), m \in Seq(Bytes(s)), q \in Seq(Bytes(s)) :
             /\ f = Front(got[s], rxQueue[s], ToStore(s))
             /\ m = Through(s, Row(chipRx[s], chipTx[s], ToWriteOut(s)))
             /\ q = txQueue[s]
      BY PartsTyped, ThroughIsSeq
    <2>2. PICK x \in Seq(Bytes(s)) : x = Join(f, m)
      BY <2>1, JoinIsSeq
    <2>3. Join(x, q) \in Seq(Bytes(s))
      BY <2>1, <2>2, JoinIsSeq
    <2>4. OnTheWay(s) = Join(x, q)
      BY <2>1, <2>2 DEF OnTheWay, Line, Join, Front, Row, Through, ToStore, ToWriteOut
    <2> QED
      BY <2>3, <2>4, BytesAreInts
  <1>3. Cardinality(Real(OnTheWay(s))) \in Nat
    BY <1>2, RealIsFinite
  <1>4. written[s] \in Nat /\ overrun[s] \in Nat /\ dropped[s] \in Nat
    BY PartsTyped
  <1> QED
    BY <1>1, <1>3, <1>4 DEF PathKept

\* Every byte a task wrote is, in its place in the order, in a queue, in a chip, with the task
\* or was taken, or it is counted as dropped or was lost in front of a full chip, for all sizes
\* of queues and chips, with and without Golay code and flow control, until a Golay block is
\* cut (SpiHandler.c:485-712).
THEOREM EveryByteAccountedFor == Spec => []BytesAccountedFor
  <1>1. Spec => []PathsKept
    <2>1. Init => PathsKept
      BY InitPathsKept
    <2>2. TypeInv /\ PathsKept /\ [Next]_vars => PathsKept'
      BY StepPathsKept
    <2> QED
      BY Invariance, <2>1, <2>2, PTL DEF Spec
  <1> QED
    BY Invariance, <1>1, PathsAreAccountedFor, PTL

-----------------------------------------------------------------------------

\* Whatever the sizes, limits and delays, what is taken from a queue fits into the chip when
\* it is written, Golay blocks made up with fill characters aside (SpiHandler.c:631).
THEOREM BurstsFit == Spec => []WritesFit
  <1>1. TypeInv => WritesFit
    BY DEF TypeInv, WriteInv
  <1> QED
    BY <1>1, Invariance, PTL

\* Whatever the sizes, limits and delays, a chip's buffer only grows while its transmitter
\* is off, or flow control decides (SpiHandler.c:686-711).
THEOREM NothingWrittenWhileTransmitting == Spec => WrittenWhileDisabled
  <1> DEFINE Quiet == \A s \in Slaves :
                         Len(chipTx'[s]) > Len(chipTx[s]) => txDisabled[s] \/ Controlled(s)
  <1>1. TypeInv /\ [Next]_vars => [Quiet]_vars
    <2> SUFFICES ASSUME TypeInv, Next PROVE Quiet
      OBVIOUS
    <2>1. \A s \in Slaves : Len(chipTx[s]) \in Nat
      BY PartsTyped
    <2>2. CASE UNCHANGED chipTx
      BY <2>1, <2>2
    <2>3. ASSUME NEW s \in Slaves, Transmit(s) PROVE Quiet
      <3>1. PICK q \in Seq(OnChip(s)) : q = chipTx[s] /\ q # <<>>
        BY <2>3, PartsTyped DEF Transmit
      <3>2. Len(Tail(q)) = Len(q) - 1
        BY <3>1, FirstTaken
      <3>3. chipTx' = [chipTx EXCEPT ![s] = Tail(q)] /\ Slavewise(chipTx)
        BY <2>3, <3>1 DEF Transmit, TypeInv, WriteInv, TxTypes
      <3>4. chipTx'[s] = Tail(q) /\ \A t \in Slaves : t # s => chipTx'[t] = chipTx[t]
        BY <3>3 DEF Slavewise
      <3>5. Len(q) \in Nat /\ Len(chipTx'[s]) = Len(q) - 1
        BY <3>1, <3>2, <3>4
      <3>6. ~(Len(chipTx'[s]) > Len(chipTx[s]))
        BY <3>1, <3>5
      <3>7. ASSUME NEW t \in Slaves, t # s PROVE ~(Len(chipTx'[t]) > Len(chipTx[t]))
        BY <2>1, <3>4, <3>7
      <3>8. ASSUME NEW t \in Slaves PROVE ~(Len(chipTx'[t]) > Len(chipTx[t]))
        BY <3>6, <3>7, Zenon
      <3> QED
        BY <3>8, Zenon
    <2>4. CASE WriteBurst
      <3>1. txDisabled[task.slave] \/ Controlled(task.slave)
        BY <2>4 DEF WriteBurst, TypeInv, WriteInv, OffForBurst
      <3>2. \A s \in Slaves : s # task.slave => chipTx'[s] = chipTx[s]
        BY <2>4, BurstFillsChip DEF TypeInv
      <3>3. ASSUME NEW s \in Slaves, s # task.slave PROVE ~(Len(chipTx'[s]) > Len(chipTx[s]))
        BY <2>1, <3>2, <3>3
      <3> SUFFICES ASSUME NEW s \in Slaves, Len(chipTx'[s]) > Len(chipTx[s])
                   PROVE  txDisabled[s] \/ Controlled(s)
        OBVIOUS
      <3>4. s = task.slave
        BY <3>3, Zenon
      <3> QED
        BY <3>1, <3>4, Zenon
    <2> QED
      BY <2>2, <2>3, <2>4
         DEF Next, TaskStep, Push, Pop, Pass, Wake, ReadLevel, ReadBurst, StoreRead, WriteLevel,
             DisableTransmitter, EnableTransmitter
  <1> QED
    BY <1>1, Invariance, PTL DEF Spec, WrittenWhileDisabled

=============================================================================
