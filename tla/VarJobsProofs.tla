---------------------------- MODULE VarJobsProofs ----------------------------
(***************************************************************************)
(* Lemmas about the operators of VarJobs, for every memory, item and       *)
(* request: what resolve lets through, what an item reads, that writing    *)
(* and registering keep the areas, and what the recursive definitions      *)
(* (dbRead, ReadAnswerSize, AfterWrites) compute.                          *)
(*                                                                         *)
(* A recursive function is a CHOOSE to the provers: that a function with   *)
(* its equation exists, and what it does, is shown by induction, from the  *)
(* library's theorem that a well-founded set has minimal elements.         *)
(***************************************************************************)
EXTENDS VarJobs, WellFoundedInduction, TLAPS

-----------------------------------------------------------------------------
(* Sequences *)

\* The length and the domain of a sequence.
LEMMA SeqLength ==
  ASSUME NEW T, NEW q \in Seq(T)
  PROVE  Len(q) \in Nat /\ DOMAIN q = 1..Len(q) /\ q \in [1..Len(q) -> T]
OBVIOUS

\* The elements of a sequence.
LEMMA SeqElement ==
  ASSUME NEW T, NEW q \in Seq(T), NEW i \in 1..Len(q)
  PROVE  q[i] \in T
OBVIOUS

\* The empty sequence is one over every set, and the only one of length 0.
LEMMA SeqEmpty ==
  ASSUME NEW T
  PROVE  <<>> \in Seq(T) /\ Len(<<>>) = 0 /\ \A q \in Seq(T) : q # <<>> => Len(q) \in Nat \ {0}
OBVIOUS

\* A sequence with an element more.
LEMMA SeqAppend ==
  ASSUME NEW T, NEW q \in Seq(T), NEW e \in T
  PROVE  Append(q, e) \in Seq(T)
OBVIOUS

\* The first element and the others.
LEMMA SeqHeadTail ==
  ASSUME NEW T, NEW q \in Seq(T), q # <<>>
  PROVE  Head(q) \in T /\ Tail(q) \in Seq(T)
OBVIOUS

\* One sequence after another.
LEMMA SeqConcat ==
  ASSUME NEW T, NEW q \in Seq(T), NEW r \in Seq(T)
  PROVE  /\ q \o r \in Seq(T) /\ Len(q \o r) = Len(q) + Len(r)
         /\ \A i \in 1..Len(q) + Len(r) : (q \o r)[i] = IF i <= Len(q) THEN q[i] ELSE r[i - Len(q)]
OBVIOUS

\* A part of a sequence.
LEMMA SeqPart ==
  ASSUME NEW T, NEW q, NEW m \in Int, NEW n \in Int, \A i \in m..n : q[i] \in T
  PROVE  /\ SubSeq(q, m, n) \in Seq(T)
         /\ Len(SubSeq(q, m, n)) = IF m <= n THEN n - m + 1 ELSE 0
         /\ \A i \in 1..n - m + 1 : SubSeq(q, m, n)[i] = q[m + i - 1]
OBVIOUS

\* Sequences with the same elements are equal.
LEMMA SeqSame ==
  ASSUME NEW T, NEW q \in Seq(T), NEW r \in Seq(T), Len(q) = Len(r), \A i \in 1..Len(q) : q[i] = r[i]
  PROVE  q = r
OBVIOUS

-----------------------------------------------------------------------------
(* Induction *)

\* A non-empty set of natural numbers has a least element.
LEMMA LeastNumber ==
  ASSUME NEW T \in SUBSET Nat, T # {}
  PROVE  \E m \in T : \A n \in T : m <= n
<1> DEFINE R == OpToRel(<, Nat)
<1>1. IsWellFoundedOn(R, Nat)
  BY NatLessThanWellFounded
<1>2. \A x, y \in Nat : <<x, y>> \in R <=> x < y
  BY DEF OpToRel
<1> HIDE DEF R
<1>3. PICK x \in T : \A y \in T : ~ (<<y, x>> \in R)
  BY <1>1, WFMin, ZenonT(60)
<1>4. x \in Nat /\ \A y \in T : y \in Nat /\ ~(y < x)
  BY <1>2, <1>3, ZenonT(60)
<1> QED  BY <1>3, <1>4

\* A set of natural numbers with 0 and with n + 1 for each n of it is Nat.
LEMMA Induction ==
  ASSUME NEW T \in SUBSET Nat, 0 \in T, \A n \in T : n + 1 \in T
  PROVE  T = Nat
<1> SUFFICES ASSUME Nat \ T # {} PROVE FALSE
  BY ZenonT(60)
<1> DEFINE U == Nat \ T
<1>1. U \in SUBSET Nat /\ U # {}
  OBVIOUS
<1> HIDE DEF U
<1>2. PICK m \in U : \A n \in U : m <= n
  BY <1>1, LeastNumber
<1>3. m \in Nat /\ m \notin T /\ m # 0
  BY <1>2 DEF U
<1>4. m - 1 \in Nat /\ m - 1 \notin U
  BY <1>3, <1>2
<1>5. m - 1 \in T
  BY <1>4 DEF U
<1>6. (m - 1) + 1 \in T
  BY <1>5, ZenonT(60)
<1> QED  BY <1>6, <1>3

-----------------------------------------------------------------------------
(* Items *)

\* The bytes of a span inside an area are that many bytes of it.
LEMMA BytesInside ==
  ASSUME NEW regs, IsMemory(regs), NEW k \in DOMAIN regs, NEW start \in Nat, NEW n \in Nat,
         start + n <= Len(regs[k].data)
  PROVE  /\ Bytes(regs, k, start, n) \in Seq(Octet)
         /\ Len(Bytes(regs, k, start, n)) = n
         /\ \A i \in 1..n : Bytes(regs, k, start, n)[i] = regs[k].data[start + i]
<1> DEFINE d == regs[k].data
<1>1. d \in Seq(Octet)
  BY DEF IsMemory, Region
<1> HIDE DEF d
<1> DEFINE a == start + 1
           b == start + n
<1>2. a \in Int /\ b \in Int /\ \A i \in a..b : d[i] \in Octet
  BY <1>1, SeqElement DEF d
<1> HIDE DEF a, b
<1>3. /\ SubSeq(d, a, b) \in Seq(Octet)
      /\ Len(SubSeq(d, a, b)) = IF a <= b THEN b - a + 1 ELSE 0
      /\ \A i \in 1..b - a + 1 : SubSeq(d, a, b)[i] = d[a + i - 1]
  BY <1>2, SeqPart
<1> QED  BY <1>3 DEF Bytes, a, b, d

\* What resolve lets through: an item of one byte or more inside a registered area.
LEMMA Resolved ==
  ASSUME NEW regs, IsMemory(regs), NEW spec \in VarSpec, resolve(regs, spec) = "Success"
  PROVE  /\ spec.syntax = "S7ANY"
         /\ spec.area \in Areas
         /\ keyOf(spec.area, spec.db) \in DOMAIN regs
         /\ keyOf(spec.area, spec.db)[1] = spec.area
         /\ target(spec).start \in Nat /\ target(spec).size \in Nat \ {0} /\ target(spec).bit \in 0..7
         /\ target(spec).isBit => target(spec).size = 1
         /\ target(spec).start + target(spec).size <= Len(regs[keyOf(spec.area, spec.db)].data)
<1> DEFINE key == keyOf(spec.area, spec.db)
           t == target(spec)
           tc == spec.transport \in {"TIMER", "COUNTER"}
<1>1. /\ spec.syntax = "S7ANY" /\ key \in DOMAIN regs
      /\ t.size # 0 /\ ~(t.isBit /\ t.size > 1)
      /\ ~(t.start + t.size > Len(regs[key].data))
  BY DEF resolve
<1>2. spec.count \in Nat /\ spec.startBit \in Nat /\ spec.db \in Nat
  BY <1>1 DEF VarSpec
<1>3. elementSize(spec.transport) \in 0..4
  BY DEF elementSize
<1>4. t.start \in Nat /\ t.bit \in 0..7 /\ t.size \in Nat
  BY <1>2, <1>3 DEF target
<1>5. key \in Areas \X Nat
  BY <1>1 DEF IsMemory
<1>6. spec.area \in Areas /\ key[1] = spec.area
  BY <1>5, <1>2 DEF keyOf, Areas
<1>7. regs[key].data \in Seq(Octet) /\ Len(regs[key].data) \in Nat
  BY <1>1 DEF IsMemory, Region
<1> HIDE DEF key, t
<1> QED  BY <1>1, <1>4, <1>6, <1>7 DEF key, t

\* f[i] is what the first i ranges of a DBREAD item read: the recursion of
\* dbRead.
IsDBRead(f, regs, ranges, n) ==
  f = [i \in 0..n |->
         IF i = 0 THEN <<>>
         ELSE f[i - 1] \o <<0..7>> \o Bytes(regs, <<"DB", ranges[i].db>>, ranges[i].start, ranges[i].n)]

\* dbRead's recursion defines a function, for any number of ranges.
LEMMA DBReadExists ==
  ASSUME NEW regs, NEW ranges
  PROVE  \A n \in Nat : \E f : IsDBRead(f, regs, ranges, n)
<1> DEFINE E(f, i) == f \o <<0..7>> \o Bytes(regs, <<"DB", ranges[i].db>>, ranges[i].start, ranges[i].n)
           T == {n \in Nat : \E f : IsDBRead(f, regs, ranges, n)}
<1>0. ASSUME NEW f, NEW n
      PROVE  IsDBRead(f, regs, ranges, n) <=> f = [i \in 0..n |-> IF i = 0 THEN <<>> ELSE E(f[i - 1], i)]
  BY DEF IsDBRead
<1> HIDE DEF E
<1>1. 0 \in T
  <2> DEFINE f == [i \in 0..0 |-> <<>>]
  <2>1. f = [i \in 0..0 |-> IF i = 0 THEN <<>> ELSE E(f[i - 1], i)]
    OBVIOUS
  <2> HIDE DEF f
  <2> QED  BY <1>0, <2>1, ZenonT(60)
<1>2. ASSUME NEW n \in T  PROVE n + 1 \in T
  <2>1. n \in Nat /\ \E f : IsDBRead(f, regs, ranges, n)
    OBVIOUS
  <2>2. PICK f : f = [i \in 0..n |-> IF i = 0 THEN <<>> ELSE E(f[i - 1], i)]
    BY <2>1, <1>0
  <2> DEFINE g == [i \in 0..n + 1 |-> IF i = n + 1 THEN E(f[n], n + 1) ELSE f[i]]
  <2>3. ASSUME NEW i \in 0..n + 1
        PROVE  g[i] = IF i = 0 THEN <<>> ELSE E(g[i - 1], i)
    <3>1. CASE i = n + 1
      BY <3>1, <2>1
    <3>2. CASE i # n + 1
      <4>1. i \in 0..n /\ g[i] = f[i] /\ (i # 0 => g[i - 1] = f[i - 1])
        BY <3>2, <2>1
      <4>2. f[i] = IF i = 0 THEN <<>> ELSE E(f[i - 1], i)
        BY <2>2, <4>1
      <4> QED  BY <4>1, <4>2
    <3> QED  BY <3>1, <3>2
  <2>4. g = [i \in 0..n + 1 |-> g[i]]
    OBVIOUS
  <2> HIDE DEF g
  <2>5. g = [i \in 0..n + 1 |-> IF i = 0 THEN <<>> ELSE E(g[i - 1], i)]
    BY <2>3, <2>4
  <2>6. IsDBRead(g, regs, ranges, n + 1)
    BY <2>5, <1>0, SMTT(30)
  <2> QED  BY <2>1, <2>6
<1> HIDE DEF T
<1>3. T = Nat
  <2>1. T \in SUBSET Nat  BY DEF T
  <2> QED  BY <1>1, <1>2, <2>1, Induction
<1> QED  BY <1>3 DEF T

\* dbRead reads bytes: ranges that are not refused lie inside a registered area.
LEMMA DBReadBytes ==
  ASSUME NEW regs, IsMemory(regs), NEW ranges \in Seq(DBReadArea)
  PROVE  /\ dbRead(regs, ranges).data \in Seq(Octet)
         /\ dbRead(regs, ranges).code # "Success" => dbRead(regs, ranges).data = <<>>
<1> DEFINE faults == {i \in 1..Len(ranges) : RangeFault(regs, ranges[i]) # "Success"}
           read == CHOOSE f : IsDBRead(f, regs, ranges, Len(ranges))
           c == RangeFault(regs, ranges[CHOOSE i \in faults : \A j \in faults : i <= j])
<1>1. dbRead(regs, ranges) =
        IF faults = {} THEN [code |-> "Success", data |-> read[Len(ranges)]]
        ELSE [code |-> c, data |-> <<>>]
  BY DEF dbRead, IsDBRead
<1>2. Len(ranges) \in Nat
  BY SeqLength
<1>3. IsDBRead(read, regs, ranges, Len(ranges))
  BY <1>2, DBReadExists
<1> HIDE DEF read, c
<1>4. CASE faults # {}
  <2>1. dbRead(regs, ranges) = [code |-> c, data |-> <<>>]
    BY <1>1, <1>4
  <2>2. <<>> \in Seq(Octet)
    BY SeqEmpty
  <2> QED  BY <2>1, <2>2
<1>5. CASE faults = {}
  <2>1. ASSUME NEW i \in 1..Len(ranges)
        PROVE  Bytes(regs, <<"DB", ranges[i].db>>, ranges[i].start, ranges[i].n) \in Seq(Octet)
    <3>1. RangeFault(regs, ranges[i]) = "Success"
      BY <1>5
    <3>2. ranges[i] \in DBReadArea
      BY SeqElement
    <3>3. /\ <<"DB", ranges[i].db>> \in DOMAIN regs
          /\ ~(ranges[i].start + ranges[i].n > Len(regs[<<"DB", ranges[i].db>>].data))
      BY <3>1 DEF RangeFault
    <3>4. Len(regs[<<"DB", ranges[i].db>>].data) \in Nat
      BY <3>3 DEF IsMemory, Region
    <3>5. ranges[i].start \in Nat /\ ranges[i].n \in Nat
      BY <3>2, SMTT(30) DEF DBReadArea
    <3>6. ranges[i].start + ranges[i].n <= Len(regs[<<"DB", ranges[i].db>>].data)
      BY <3>3, <3>4, <3>5
    <3> QED  BY <3>3, <3>5, <3>6, BytesInside, Zenon
  <2> DEFINE T == {i \in Nat : i <= Len(ranges) => read[i] \in Seq(Octet)}
  <2>2. 0 \in T
    <3>1. read[0] = <<>>
      BY <1>2, <1>3 DEF IsDBRead
    <3> QED  BY <3>1, SeqEmpty, ZenonT(60)
  <2>3. ASSUME NEW i \in T  PROVE i + 1 \in T
    <3> SUFFICES ASSUME i + 1 <= Len(ranges)  PROVE read[i + 1] \in Seq(Octet)
      OBVIOUS
    <3>1. i \in Nat /\ read[i] \in Seq(Octet)
      BY <1>2
    <3> DEFINE b == Bytes(regs, <<"DB", ranges[i + 1].db>>, ranges[i + 1].start, ranges[i + 1].n)
    <3>2. read[i + 1] = read[i] \o <<0..7>> \o b
      <4>1. i + 1 \in 0..Len(ranges) /\ i + 1 # 0 /\ (i + 1) - 1 = i
        BY <3>1, <1>2
      <4>2. read[i + 1] = read[(i + 1) - 1] \o <<0..7>> \o b
        BY <4>1, <1>3, Zenon DEF IsDBRead
      <4> QED  BY <4>1, <4>2, ZenonT(60)
    <3>3. b \in Seq(Octet)
      BY <3>1, <1>2, <2>1
    <3> HIDE DEF b
    <3>4. <<0..7>> \in Seq(Octet)
      BY DEF Octet
    <3> HIDE DEF T
    <3>5. read[i] \o <<0..7>> \in Seq(Octet)
      BY <3>1, <3>4, SeqConcat
    <3> QED  BY <3>2, <3>3, <3>5, SeqConcat
  <2> HIDE DEF T
  <2>4. T = Nat
    <3>1. T \in SUBSET Nat  BY DEF T
    <3> QED  BY <2>2, <2>3, <3>1, Induction
  <2>5. read[Len(ranges)] \in Seq(Octet)
    BY <2>4, <1>2 DEF T
  <2> QED  BY <1>1, <1>5, <2>5
<1> QED  BY <1>4, <1>5

\* What ReadItem returns: bytes, and none with a refusal.
LEMMA ReadItemShape ==
  ASSUME NEW regs, IsMemory(regs), NEW spec \in VarSpec
  PROVE  /\ ReadItem(regs, spec).data \in Seq(Octet)
         /\ ReadItem(regs, spec).code # "Success" => ReadItem(regs, spec).data = <<>>
         /\ spec.syntax # "DBREAD" /\ ReadItem(regs, spec).code = "Success" =>
              Len(ReadItem(regs, spec).data) = IF target(spec).isBit THEN 1 ELSE target(spec).size
<1>0. <<>> \in Seq(Octet)
  BY SeqEmpty
<1>1. CASE spec.syntax = "DBREAD"
  <2>1. spec.ranges \in Seq(DBReadArea)
    BY <1>1 DEF VarSpec
  <2> QED  BY <1>1, <2>1, DBReadBytes DEF ReadItem
<1>2. CASE spec.syntax # "DBREAD" /\ resolve(regs, spec) # "Success"
  <2>1. ReadItem(regs, spec) = [code |-> resolve(regs, spec), data |-> <<>>]
    BY <1>2 DEF ReadItem
  <2> QED  BY <1>0, <1>2, <2>1
<1>3. CASE spec.syntax # "DBREAD" /\ resolve(regs, spec) = "Success"
  <2> DEFINE t == target(spec)
             key == keyOf(spec.area, spec.db)
             src == Bytes(regs, key, t.start, t.size)
  <2>1. ReadItem(regs, spec) =
          [code |-> "Success", data |-> IF t.isBit THEN <<IF t.bit \in src[1] THEN {0} ELSE {}>> ELSE src]
    BY <1>3 DEF ReadItem, readResult
  <2>2. src \in Seq(Octet) /\ Len(src) = t.size
    BY <1>3, Resolved, BytesInside
  <2> HIDE DEF src, t
  <2>3. {0} \in Octet /\ {} \in Octet
    BY DEF Octet
  <2>4. CASE t.isBit
    <3> DEFINE b == IF t.bit \in src[1] THEN {0} ELSE {}
    <3>1. b \in Octet
      BY <2>3
    <3> HIDE DEF b
    <3>2. <<b>> \in Seq(Octet) /\ Len(<<b>>) = 1
      BY <3>1
    <3>3. ReadItem(regs, spec) = [code |-> "Success", data |-> <<b>>]
      BY <2>1, <2>4 DEF b
    <3> QED  BY <3>2, <3>3, <2>4, <1>3 DEF t
  <2>5. CASE ~t.isBit
    <3>1. ReadItem(regs, spec) = [code |-> "Success", data |-> src]
      BY <2>1, <2>5
    <3> QED  BY <2>2, <3>1, <2>5, <1>3 DEF t
  <2> QED  BY <2>4, <2>5
<1> QED  BY <1>1, <1>2, <1>3

-----------------------------------------------------------------------------
(* The size of an answer *)

\* The size of an answer of n items up to each of the first k: the recursion
\* of ReadAnswerSize.
IsSize(size, items, n, k) ==
  size = [i \in 0..k |-> IF i = 0 THEN AckDataHeaderSize + 2
                         ELSE size[i - 1] + ReadVarResultSize(items[i], i = n)]

SizeUpTo(items) == CHOOSE size : IsSize(size, items, Len(items), Len(items))

\* ReadAnswerSize's recursion defines a function, for any number of items.
LEMMA SizeExists ==
  ASSUME NEW items, NEW n
  PROVE  \A k \in Nat : \E size : IsSize(size, items, n, k)
<1> DEFINE E(v, i) == v + ReadVarResultSize(items[i], i = n)
           h == AckDataHeaderSize + 2
           T == {k \in Nat : \E f : IsSize(f, items, n, k)}
<1>0. ASSUME NEW f, NEW k
      PROVE  IsSize(f, items, n, k) <=> f = [i \in 0..k |-> IF i = 0 THEN h ELSE E(f[i - 1], i)]
  BY DEF IsSize
<1> HIDE DEF E, h
<1>1. 0 \in T
  <2> DEFINE f == [i \in 0..0 |-> h]
  <2>1. f = [i \in 0..0 |-> IF i = 0 THEN h ELSE E(f[i - 1], i)]
    OBVIOUS
  <2> HIDE DEF f
  <2> QED  BY <1>0, <2>1
<1>2. ASSUME NEW k \in T  PROVE k + 1 \in T
  <2>1. k \in Nat /\ \E f : IsSize(f, items, n, k)
    OBVIOUS
  <2>2. PICK f : f = [i \in 0..k |-> IF i = 0 THEN h ELSE E(f[i - 1], i)]
    BY <2>1, <1>0
  <2> DEFINE g == [i \in 0..k + 1 |-> IF i = k + 1 THEN E(f[k], k + 1) ELSE f[i]]
  <2>3. ASSUME NEW i \in 0..k + 1
        PROVE  g[i] = IF i = 0 THEN h ELSE E(g[i - 1], i)
    <3>1. CASE i = k + 1
      BY <3>1, <2>1
    <3>2. CASE i # k + 1
      <4>1. i \in 0..k /\ g[i] = f[i] /\ (i # 0 => g[i - 1] = f[i - 1])
        BY <3>2, <2>1
      <4>2. f[i] = IF i = 0 THEN h ELSE E(f[i - 1], i)
        BY <2>2, <4>1
      <4> QED  BY <4>1, <4>2
    <3> QED  BY <3>1, <3>2
  <2>4. g = [i \in 0..k + 1 |-> g[i]]
    OBVIOUS
  <2> HIDE DEF g
  <2>5. g = [i \in 0..k + 1 |-> IF i = 0 THEN h ELSE E(g[i - 1], i)]
    BY <2>3, <2>4, ZenonT(60)
  <2>6. IsSize(g, items, n, k + 1)
    BY <2>5, <1>0, SMTT(30)
  <2> QED  BY <2>1, <2>6
<1> HIDE DEF T
<1>3. T = Nat
  <2>1. T \in SUBSET Nat  BY DEF T
  <2> QED  BY <1>1, <1>2, <2>1, Induction
<1> QED  BY <1>3 DEF T

\* An item of an answer has a size.
LEMMA ResultSizeNat ==
  ASSUME NEW r, NEW last, Len(r.data) \in Nat
  PROVE  ReadVarResultSize(r, last) \in Nat
<1> DEFINE fill == IF ~last /\ Len(r.data) % 2 # 0 THEN 1 ELSE 0
<1>1. fill \in Nat
  OBVIOUS
<1>2. ReadVarResultSize(r, last) = 4 + Len(r.data) + fill
  BY DEF ReadVarResultSize
<1> HIDE DEF fill
<1> QED  BY <1>1, <1>2

\* SizeUpTo counts the header, then item after item; it never shrinks, and
\* what it ends with is the size of the answer.
LEMMA Sizes ==
  ASSUME NEW items, Len(items) \in Nat, \A i \in 1..Len(items) : items[i].data \in Seq(Octet)
  PROVE  /\ SizeUpTo(items)[0] = AckDataHeaderSize + 2
         /\ \A i \in 1..Len(items) :
              SizeUpTo(items)[i] = SizeUpTo(items)[i - 1] + ReadVarResultSize(items[i], i = Len(items))
         /\ \A i \in 0..Len(items) :
              SizeUpTo(items)[i] \in Nat /\ SizeUpTo(items)[i] <= SizeUpTo(items)[Len(items)]
         /\ ReadAnswerSize(items) = SizeUpTo(items)[Len(items)]
<1> DEFINE n == Len(items)
           size == SizeUpTo(items)
           need(i) == ReadVarResultSize(items[i], i = n)
<1>1. IsSize(size, items, n, n)
  BY SizeExists, SMTT(30) DEF SizeUpTo
<1>2. ReadAnswerSize(items) = size[n]
  BY DEF ReadAnswerSize, SizeUpTo, IsSize
<1>3. size[0] = AckDataHeaderSize + 2
  BY <1>1 DEF IsSize
<1>4. ASSUME NEW i \in 1..n  PROVE size[i] = size[i - 1] + need(i)
  <2>1. i \in 0..n /\ i # 0
    OBVIOUS
  <2> QED  BY <1>1, <2>1, Zenon DEF IsSize
<1>5. ASSUME NEW i \in 1..n  PROVE need(i) \in Nat
  <2>1. Len(items[i].data) \in Nat
    BY SeqLength
  <2> QED  BY <2>1, ResultSizeNat
<1> HIDE DEF size, n, need
<1>n. n \in Nat
  BY DEF n
<1> DEFINE T == {i \in Nat : i <= n => size[i] \in Nat}
<1>6. T = Nat
  <2>1. 0 \in T
    BY <1>3 DEF AckDataHeaderSize
  <2>2. ASSUME NEW i \in T  PROVE i + 1 \in T
    <3> SUFFICES ASSUME i + 1 <= n  PROVE size[i + 1] \in Nat
      OBVIOUS
    <3>1. i \in Nat /\ size[i] \in Nat
      BY <1>n
    <3>2. i + 1 \in 1..n /\ (i + 1) - 1 = i
      BY <3>1, <1>n
    <3>3. size[i + 1] = size[i] + need(i + 1) /\ need(i + 1) \in Nat
      BY <3>2, <1>4, <1>5
    <3> QED  BY <3>1, <3>3
  <2>3. T \in SUBSET Nat
    OBVIOUS
  <2> HIDE DEF T
  <2> QED  BY <2>1, <2>2, <2>3, Induction
<1>7. \A i \in 0..n : size[i] \in Nat
  BY <1>6, <1>n
<1> HIDE DEF T
<1> DEFINE U == {j \in Nat : j <= n => size[n - j] <= size[n]}
<1>8. U = Nat
  <2>1. 0 \in U
    BY <1>7, <1>n
  <2>2. ASSUME NEW j \in U  PROVE j + 1 \in U
    <3> SUFFICES ASSUME j + 1 <= n  PROVE size[n - (j + 1)] <= size[n]
      OBVIOUS
    <3>1. j \in Nat /\ size[n - j] <= size[n]
      BY <1>n
    <3>2. n - j \in 1..n /\ (n - j) - 1 = n - (j + 1) /\ n - (j + 1) \in 0..n /\ n - j \in 0..n /\ n \in 0..n
      BY <3>1, <1>n
    <3>3. size[n - j] = size[n - (j + 1)] + need(n - j) /\ need(n - j) \in Nat
      BY <3>2, <1>4, <1>5, SMTT(30)
    <3>4. size[n - j] \in Nat /\ size[n - (j + 1)] \in Nat /\ size[n] \in Nat
      BY <3>2, <1>7, SMTT(30)
    <3> HIDE DEF U
    <3> QED  BY <3>1, <3>3, <3>4
  <2>3. U \in SUBSET Nat
    OBVIOUS
  <2> HIDE DEF U
  <2> QED  BY <2>1, <2>2, <2>3, Induction
<1>9. ASSUME NEW i \in 0..n  PROVE size[i] <= size[n]
  <2>1. n - i \in Nat /\ n - i <= n /\ n - (n - i) = i
    BY <1>n
  <2>2. n - i \in U
    BY <1>8, <2>1
  <2> QED  BY <2>1, <2>2
<1> QED  BY <1>2, <1>3, <1>4, <1>7, <1>9 DEF size, n, need

-----------------------------------------------------------------------------
(* Writing *)

\* mem has the areas of regs, of the same sizes and options.
SameAreas(regs, mem) ==
  /\ DOMAIN mem = DOMAIN regs
  /\ \A k \in DOMAIN regs : mem[k].readOnly = regs[k].readOnly /\ Len(mem[k].data) = Len(regs[k].data)

\* Overwrite gives bytes, as many as there were.
LEMMA Overwritten ==
  ASSUME NEW bytes \in Seq(Octet), NEW start \in Int, NEW data \in Seq(Octet)
  PROVE  /\ Overwrite(bytes, start, data) \in Seq(Octet)
         /\ Len(Overwrite(bytes, start, data)) = Len(bytes)
<1> DEFINE n == Len(bytes)
           f == Overwrite(bytes, start, data)
<1>1. n \in Nat /\ Len(data) \in Nat
  BY SeqLength
<1>2. f = [i \in 1..n |-> IF i \in start + 1..start + Len(data) THEN data[i - start] ELSE bytes[i]]
  BY DEF Overwrite
<1>3. ASSUME NEW i \in 1..n  PROVE f[i] \in Octet
  <2>1. CASE i \in start + 1..start + Len(data)
    <3>1. i - start \in 1..Len(data)
      BY <2>1, <1>1
    <3> QED  BY <2>1, <3>1, <1>2, SeqElement
  <2>2. CASE i \notin start + 1..start + Len(data)
    BY <2>2, <1>2, SeqElement
  <2> QED  BY <2>1, <2>2
<1> HIDE DEF f
<1>4. f \in [1..n -> Octet]
  BY <1>2, <1>3
<1> HIDE DEF n
<1>5. f \in Seq(Octet) /\ Len(f) = n
  BY <1>1, <1>4
<1> QED  BY <1>5 DEF f, n

\* Overwriting bytes of one area changes no other, and no size or option.
LEMMA OneAreaChanged ==
  ASSUME NEW regs, IsMemory(regs), NEW key \in DOMAIN regs, NEW start \in Int,
         NEW data \in Seq(Octet), NEW mem,
         mem = [regs EXCEPT ![key].data = Overwrite(@, start, data)]
  PROVE  /\ IsMemory(mem) /\ SameAreas(regs, mem)
         /\ \A k \in DOMAIN regs : k # key => mem[k] = regs[k]
<1> DEFINE d == Overwrite(regs[key].data, start, data)
<1>1. regs[key] \in Region /\ regs[key].data \in Seq(Octet) /\ regs[key].readOnly \in BOOLEAN
  BY DEF IsMemory, Region
<1>2. d \in Seq(Octet) /\ Len(d) = Len(regs[key].data)
  BY <1>1, Overwritten
<1>3. mem = [regs EXCEPT ![key] = [regs[key] EXCEPT !.data = d]]
  OBVIOUS
<1> HIDE DEF d
<1>4. DOMAIN mem = DOMAIN regs /\ \A k \in DOMAIN regs : k # key => mem[k] = regs[k]
  BY <1>3
<1>5. mem[key] = [regs[key] EXCEPT !.data = d]
  BY <1>3
<1>6. mem[key] \in Region /\ mem[key].data = d /\ mem[key].readOnly = regs[key].readOnly
  BY <1>1, <1>2, <1>5, ZenonT(60) DEF Region
<1>7. IsMemory(mem)
  BY <1>4, <1>6 DEF IsMemory
<1>8. SameAreas(regs, mem)
  BY <1>2, <1>4, <1>6, ZenonT(60) DEF SameAreas
<1> QED  BY <1>4, <1>7, <1>8

\* writeItem keeps the memory a memory, every area's size and options, and
\* the contents of read-only areas, timers and counters.
LEMMA WriteItemKeeps ==
  ASSUME NEW regs, IsMemory(regs), NEW spec \in VarSpec, NEW data \in Seq(Octet)
  PROVE  /\ IsMemory(WriteItem(regs, spec, data)) /\ SameAreas(regs, WriteItem(regs, spec, data))
         /\ \A k \in DOMAIN regs : regs[k].readOnly \/ timerOrCounter(k[1]) =>
              WriteItem(regs, spec, data)[k] = regs[k]
<1>1. CASE WriteCode(regs, spec, data) # "Success"
  <2>1. WriteItem(regs, spec, data) = regs
    BY <1>1 DEF WriteItem
  <2> QED  BY <2>1 DEF SameAreas
<1>2. CASE WriteCode(regs, spec, data) = "Success"
  <2> DEFINE key == keyOf(spec.area, spec.db)
             t == target(spec)
             byte == regs[key].data[t.start + 1]
             new == IF ~t.isBit THEN data
                    ELSE IF 0 \in data[1] THEN <<byte \cup {t.bit}>>
                    ELSE <<byte \ {t.bit}>>
             mem == WriteItem(regs, spec, data)
  <2>1. resolve(regs, spec) = "Success" /\ ~regs[key].readOnly /\ ~timerOrCounter(spec.area)
    BY <1>2 DEF WriteCode
  <2>2. /\ key \in DOMAIN regs /\ key[1] = spec.area /\ t.start \in Nat /\ t.bit \in 0..7
        /\ t.size \in Nat \ {0} /\ t.start + t.size <= Len(regs[key].data)
    BY <2>1, Resolved
  <2>3. mem = [regs EXCEPT ![key].data = Overwrite(@, t.start, new)]
    BY <1>2 DEF WriteItem
  <2>4. byte \in Octet
    <3>1. regs[key].data \in Seq(Octet)
      BY <2>2 DEF IsMemory, Region
    <3>2. Len(regs[key].data) \in Nat
      BY <3>1, SeqLength
    <3>3. t.start + 1 \in 1..Len(regs[key].data)
      BY <2>2, <3>2
    <3> QED  BY <3>1, <3>3, SeqElement
  <2>5. new \in Seq(Octet)
    <3> HIDE DEF byte, t
    <3>1. byte \cup {t.bit} \in Octet /\ byte \ {t.bit} \in Octet
      BY <2>2, <2>4, ZenonT(60) DEF Octet
    <3>2. <<byte \cup {t.bit}>> \in Seq(Octet) /\ <<byte \ {t.bit}>> \in Seq(Octet)
      BY <3>1
    <3> QED  BY <3>2
  <2> HIDE DEF mem, new, t, key
  <2>6. /\ IsMemory(mem) /\ SameAreas(regs, mem)
        /\ \A k \in DOMAIN regs : k # key => mem[k] = regs[k]
    <3>1. t.start \in Int
      BY <2>2
    <3> QED  BY <2>2, <2>3, <2>5, <3>1, OneAreaChanged, Zenon
  <2> QED  BY <2>1, <2>2, <2>6 DEF mem
<1> QED  BY <1>1, <1>2


\* The host's Write keeps the areas, their sizes and options.
LEMMA WriteKeeps ==
  ASSUME NEW regs, IsMemory(regs), NEW w \in WriteCall
  PROVE  IsMemory(write(regs, w)) /\ SameAreas(regs, write(regs, w))
<1> DEFINE key == keyOf(w.area, w.db)
           mem == write(regs, w)
<1>1. w.start \in Int /\ w.data \in Seq(Octet)
  BY DEF WriteCall
<1>2. CASE ~span(regs, w.area, w.db, w.start, Len(w.data))
  BY <1>2 DEF write, SameAreas
<1>3. CASE span(regs, w.area, w.db, w.start, Len(w.data))
  <2>1. key \in DOMAIN regs
    BY <1>3 DEF span
  <2>2. mem = [regs EXCEPT ![key].data = Overwrite(@, w.start, w.data)]
    BY <1>3 DEF write
  <2> HIDE DEF key, mem
  <2>3. IsMemory(mem) /\ SameAreas(regs, mem)
    BY <1>1, <2>1, <2>2, OneAreaChanged, Zenon
  <2> QED  BY <2>3 DEF mem
<1> QED  BY <1>2, <1>3

\* register adds at most one area and changes none.
LEMMA RegisterKeeps ==
  ASSUME NEW regs, IsMemory(regs), NEW r \in RegisterCall
  PROVE  /\ IsMemory(register(regs, r))
         /\ \A k \in DOMAIN regs : k \in DOMAIN register(regs, r) /\ register(regs, r)[k] = regs[k]
<1> DEFINE key == keyOf(r.area, r.db)
           new == [data |-> r.data, readOnly |-> r.readOnly]
           mem == [k \in DOMAIN regs \cup {key} |-> IF k = key THEN new ELSE regs[k]]
<1>1. CASE key[1] = "none" \/ r.data = <<>> \/ key \in DOMAIN regs
  BY <1>1 DEF register
<1>2. CASE ~(key[1] = "none" \/ r.data = <<>> \/ key \in DOMAIN regs)
  <2>1. register(regs, r) = mem
    BY <1>2 DEF register
  <2>2. new \in Region
    BY DEF RegisterCall, Region
  <2>3. key \in Areas \X Nat
    BY <1>2 DEF keyOf, Areas, RegisterCall
  <2> HIDE DEF key, new
  <2>4. IsMemory(mem)
    BY <2>2, <2>3 DEF IsMemory
  <2>5. \A k \in DOMAIN regs : k \in DOMAIN mem /\ mem[k] = regs[k]
    BY <1>2
  <2> HIDE DEF mem
  <2> QED  BY <2>1, <2>4, <2>5
<1> QED  BY <1>1, <1>2

-----------------------------------------------------------------------------
(* A whole Write Var job *)

\* mem[i] is the memory after i items: the recursion of AfterWrites.
IsRun(mem, regs, specs, data, n) ==
  mem = [i \in 0..n |-> IF i = 0 THEN regs ELSE WriteItem(mem[i - 1], specs[i], data[i])]

\* AfterWrites's recursion defines a function, for any number of items.
LEMMA RunExists ==
  ASSUME NEW regs, NEW specs, NEW data
  PROVE  \A n \in Nat : \E mem : IsRun(mem, regs, specs, data, n)
<1> DEFINE T == {n \in Nat : \E mem : IsRun(mem, regs, specs, data, n)}
<1>1. 0 \in T
  <2> DEFINE mem == [i \in 0..0 |-> regs]
  <2>1. IsRun(mem, regs, specs, data, 0)
    BY DEF IsRun
  <2> QED  BY <2>1
<1>2. ASSUME NEW n \in T PROVE n + 1 \in T
  <2>1. PICK mem : IsRun(mem, regs, specs, data, n)
    BY <1>2
  <2> DEFINE next == [i \in 0..n + 1 |->
                        IF i = n + 1 THEN WriteItem(mem[n], specs[n + 1], data[n + 1]) ELSE mem[i]]
  <2>2. IsRun(next, regs, specs, data, n + 1)
    <3>1. n \in Nat OBVIOUS
    <3>2. ASSUME NEW i \in 0..n + 1
          PROVE  next[i] = IF i = 0 THEN regs ELSE WriteItem(next[i - 1], specs[i], data[i])
      <4>1. CASE i = n + 1
        BY <4>1, <3>1
      <4>2. CASE i # n + 1
        <5>1. i \in 0..n /\ next[i] = mem[i] /\ (i # 0 => next[i - 1] = mem[i - 1])
           BY <4>2, <3>1
        <5>2. mem[i] = IF i = 0 THEN regs ELSE WriteItem(mem[i - 1], specs[i], data[i])
          BY <2>1, <5>1 DEF IsRun
        <5> QED  BY <5>1, <5>2
      <4> QED  BY <4>1, <4>2
    <3>3. next = [i \in 0..n + 1 |-> next[i]] OBVIOUS
    <3> HIDE DEF next
    <3>4. next = [i \in 0..n + 1 |-> IF i = 0 THEN regs ELSE WriteItem(next[i - 1], specs[i], data[i])]
       BY <3>2, <3>3, ZenonT(60)
    <3> QED  BY <3>4 DEF IsRun
  <2> HIDE DEF next
  <2> QED  BY <2>2
<1> HIDE DEF T
<1>3. T = Nat
  <2>1. T \in SUBSET Nat BY DEF T
  <2> QED  BY <1>1, <1>2, <2>1, Induction
<1> QED  BY <1>3 DEF T

\* A run is determined by its memory and its items.
LEMMA RunsAgree ==
  ASSUME NEW regs, NEW specs, NEW data, NEW m \in Nat, NEW n \in Nat, m <= n, NEW f, NEW g,
         IsRun(f, regs, specs, data, m), IsRun(g, regs, specs, data, n)
  PROVE  f[m] = g[m]
<1> DEFINE T == {i \in Nat : i <= m => f[i] = g[i]}
<1>1. 0 \in T
  <2>1. f[0] = regs BY DEF IsRun
  <2>2. g[0] = regs BY DEF IsRun
  <2> QED  BY <2>1, <2>2
<1>2. ASSUME NEW i \in T PROVE i + 1 \in T
  <2> SUFFICES ASSUME i + 1 <= m PROVE f[i + 1] = g[i + 1]
    OBVIOUS
  <2>1. f[i] = g[i] /\ i \in Nat OBVIOUS
  <2>2. i + 1 \in 0..m /\ i + 1 \in 0..n /\ i + 1 # 0 /\ (i + 1) - 1 = i BY <2>1
  <2>3. f[i + 1] = WriteItem(f[i], specs[i + 1], data[i + 1]) BY <2>2 DEF IsRun
  <2>4. g[i + 1] = WriteItem(g[i], specs[i + 1], data[i + 1]) BY <2>2 DEF IsRun
  <2> QED  BY <2>1, <2>3, <2>4
<1> HIDE DEF T
<1>3. T = Nat
  <2>1. T \in SUBSET Nat BY DEF T
  <2> QED  BY <1>1, <1>2, <2>1, Induction
<1> QED  BY <1>3 DEF T

\* AfterWrites is the last memory of a run.
LEMMA AfterWritesRun ==
  ASSUME NEW regs, NEW specs, NEW data, NEW n \in Nat
  PROVE  \E mem : IsRun(mem, regs, specs, data, n) /\ AfterWrites(regs, specs, data, n) = mem[n]
<1> DEFINE mem == CHOOSE mem : IsRun(mem, regs, specs, data, n)
<1>1. IsRun(mem, regs, specs, data, n)
  BY RunExists
<1>2. AfterWrites(regs, specs, data, n) = mem[n]
  BY DEF AfterWrites, IsRun
<1> QED  BY <1>1, <1>2, ZenonT(60)

\* AfterWrites takes the items one by one: one more is written to what those
\* before it left.
LEMMA AfterWritesNext ==
  \A regs, specs, data : \A n \in Nat :
    AfterWrites(regs, specs, data, n + 1) =
      WriteItem(AfterWrites(regs, specs, data, n), specs[n + 1], data[n + 1])
<1> TAKE regs, specs, data
<1> TAKE n \in Nat
<1>1. PICK f : IsRun(f, regs, specs, data, n) /\ AfterWrites(regs, specs, data, n) = f[n]
  BY AfterWritesRun
<1>2. PICK g : IsRun(g, regs, specs, data, n + 1) /\ AfterWrites(regs, specs, data, n + 1) = g[n + 1]
  BY AfterWritesRun
<1>3. f[n] = g[n]
  BY <1>1, <1>2, RunsAgree
<1>4. g[n + 1] = WriteItem(g[n], specs[n + 1], data[n + 1])
  BY <1>2 DEF IsRun
<1> QED  BY <1>1, <1>2, <1>3, <1>4

\* No item leaves the memory as it is.
LEMMA AfterNoWrites ==
  ASSUME NEW regs, NEW specs, NEW data
  PROVE  AfterWrites(regs, specs, data, 0) = regs
<1>1. PICK mem : IsRun(mem, regs, specs, data, 0) /\ AfterWrites(regs, specs, data, 0) = mem[0]
  BY AfterWritesRun
<1> QED  BY <1>1 DEF IsRun

=============================================================================
