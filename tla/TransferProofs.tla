--------------------------- MODULE TransferProofs ----------------------------
(***************************************************************************)
(* Proofs about VarWire and AreaTransfer: the messages of a transfer, and  *)
(* the transfer.                                                           *)
(*                                                                         *)
(* Of the messages: what one side of a connection encodes, the other       *)
(* side's parser gives back, for every value of the fields.                *)
(*                                                                         *)
(* Of the transfers: what holds for every set of calls, every payload,     *)
(* area and PDU size, and every number of connections and of other writes. *)
(* The invariant says of every request on its way, of this call or of an   *)
(* earlier one, which bytes it asks for or brings; of the requests of this *)
(* call that they are for the chunk under way or for a part already done;  *)
(* of the answer that waits, that its bytes stood at the chunk's addresses *)
(* during the call; and of what the call has gathered, that it is what     *)
(* stood there as long as no chunk came back short.                        *)
(***************************************************************************)
EXTENDS AreaTransfer, VarJobsProofs

WireByte == 0..255
Word == 0..MaxUint16

-----------------------------------------------------------------------------
(* Fields *)

\* A number is the high part and the low byte of itself.
LEMMA LowByte ==
  ASSUME NEW n \in Nat
  PROVE  n \div 256 \in Nat /\ n % 256 \in WireByte /\ n = 256 * (n \div 256) + (n % 256)
  <1>1. n % 256 \in 0..255
    BY SMT
  <1>2. n = 256 * (n \div 256) + (n % 256)
    BY SMT
  <1>3. n \div 256 \in Nat
    BY SMT
  <1> QED
    BY <1>1, <1>2, <1>3 DEF WireByte

\* A 16-bit field is two bytes.
LEMMA WordBytes ==
  ASSUME NEW n \in Word
  PROVE  /\ n \in Nat
         /\ n \div 256 \in WireByte /\ n % 256 \in WireByte
         /\ 256 * (n \div 256) + (n % 256) = n
  <1>1. MaxUint16 \in Nat /\ MaxUint16 < 65536
    BY DEF MaxUint16
  <1>2. n \in Nat /\ n <= MaxUint16
    BY <1>1 DEF Word
  <1>3. ASSUME NEW q \in Nat, NEW r \in WireByte, n = 256 * q + r
        PROVE  q \in WireByte
    BY <1>1, <1>2, <1>3 DEF WireByte
  <1> QED
    BY <1>2, <1>3, LowByte

\* A 24-bit address is three bytes.
LEMMA AddressBytes ==
  ASSUME NEW a \in Nat, a <= 16777215
  PROVE  /\ (a \div 65536) % 256 \in WireByte /\ (a \div 256) % 256 \in WireByte /\ a % 256 \in WireByte
         /\ 65536 * ((a \div 65536) % 256) + 256 * ((a \div 256) % 256) + (a % 256) = a
  <1>1. a \div 65536 \in Nat /\ a \div 65536 <= 255 /\ a \div 65536 = (a \div 256) \div 256
    BY SMT
  <1>2. \A m \in Nat : m <= 255 => m % 256 = m
    BY SMT
  <1> HIDE DEF WireByte
  <1>3. a \div 256 \in Nat /\ a % 256 \in WireByte /\ a = 256 * (a \div 256) + (a % 256)
    BY LowByte
  <1>4. (a \div 256) % 256 \in WireByte /\ a \div 256 = 256 * (a \div 65536) + ((a \div 256) % 256)
    BY <1>1, <1>3, LowByte
  <1>5. (a \div 65536) % 256 = a \div 65536
    BY <1>1, <1>2
  <1>6. ASSUME NEW h \in Nat, NEW q \in Nat, NEW m \in Nat, NEW l \in Nat,
               q = 256 * h + m, a = 256 * q + l
        PROVE  65536 * h + 256 * m + l = a
    BY <1>6
  <1>7. 65536 * (a \div 65536) + 256 * ((a \div 256) % 256) + (a % 256) = a
    BY <1>1, <1>3, <1>4, <1>6 DEF WireByte
  <1> QED
    BY <1>1, <1>3, <1>4, <1>5, <1>7 DEF WireByte

-----------------------------------------------------------------------------
(* Sections *)

\* A concatenation holds its two parts.
LEMMA Joined ==
  ASSUME NEW S, NEW a \in Seq(S), NEW b \in Seq(S)
  PROVE  /\ a \o b \in Seq(S) /\ Len(a \o b) = Len(a) + Len(b)
         /\ \A i \in 1..Len(a) : (a \o b)[i] = a[i]
         /\ \A i \in 1..Len(b) : (a \o b)[Len(a) + i] = b[i]
  OBVIOUS

\* What stands between two other sections is found at its offsets, and what
\* stands first keeps its place.
LEMMA SectionFound ==
  ASSUME NEW S, NEW a \in Seq(S), NEW b \in Seq(S), NEW c \in Seq(S)
  PROVE  /\ a \o b \o c \in Seq(S)
         /\ Len(a \o b \o c) = Len(a) + Len(b) + Len(c)
         /\ \A i \in 1..Len(a) : (a \o b \o c)[i] = a[i]
         /\ Slice(a \o b \o c, Len(a), Len(a) + Len(b)) = b
         /\ Slice(a \o b \o c, Len(a) + Len(b), Len(a) + Len(b) + Len(c)) = c
  <1> DEFINE s == a \o b \o c
  <1>1. /\ Len(a) \in Nat /\ Len(b) \in Nat /\ Len(c) \in Nat
        /\ a \o b \in Seq(S) /\ Len(a \o b) = Len(a) + Len(b)
        /\ s \in Seq(S) /\ Len(s) = Len(a) + Len(b) + Len(c)
    BY SeqConcat, SeqLength
  <1>2. \A i \in 1..Len(a) + Len(b) : s[i] = (a \o b)[i]
    BY <1>1, SeqConcat
  <1>3. \A i \in 1..Len(a) : s[i] = a[i]
    BY <1>1, <1>2, SeqConcat
  <1>4. \A i \in 1..Len(b) : s[Len(a) + i] = b[i]
    BY <1>1, <1>2, SeqConcat
  <1>5. \A i \in 1..Len(c) : s[Len(a) + Len(b) + i] = c[i]
    BY <1>1, SeqConcat
  <1>6. \A i \in 1..Len(s) : s[i] \in S
    BY <1>1, SeqElement
  <1> HIDE DEF s
  <1>7. Slice(s, Len(a), Len(a) + Len(b)) = b
    <2> DEFINE t == SubSeq(s, Len(a) + 1, Len(a) + Len(b))
    <2>1. \A i \in Len(a) + 1..Len(a) + Len(b) : s[i] \in S
      BY <1>1, <1>6
    <2>2. t \in Seq(S) /\ Len(t) = Len(b)
      BY <1>1, <2>1, SeqPart
    <2>3. \A i \in 1..Len(b) : t[i] = s[Len(a) + i]
      BY <1>1, <2>1, SeqPart
    <2> QED
      BY <1>4, <2>2, <2>3, SeqSame DEF Slice
  <1>8. Slice(s, Len(a) + Len(b), Len(a) + Len(b) + Len(c)) = c
    <2> DEFINE k == Len(a) + Len(b)
    <2> DEFINE t == SubSeq(s, k + 1, k + Len(c))
    <2>0. k \in Nat
      BY <1>1
    <2> HIDE DEF k
    <2>1. \A i \in k + 1..k + Len(c) : s[i] \in S
      BY <1>1, <1>6, <2>0 DEF k
    <2>2. t \in Seq(S) /\ Len(t) = Len(c)
      BY <1>1, <2>0, <2>1, SeqPart
    <2>3. \A i \in 1..Len(c) : t[i] = s[k + i]
      BY <1>1, <2>0, <2>1, SeqPart
    <2> QED
      BY <1>5, <2>2, <2>3, SeqSame DEF Slice, k
  <1> QED
    BY <1>1, <1>3, <1>7, <1>8 DEF s

\* A 16-bit field put at the end is read back at its offset, and what stands
\* before it stays.
LEMMA PutWord ==
  ASSUME NEW s \in Seq(WireByte), NEW n \in Word
  PROVE  /\ s \o U16(n) \in Seq(WireByte) /\ Len(s \o U16(n)) = Len(s) + 2
         /\ \A i \in 1..Len(s) : (s \o U16(n))[i] = s[i]
         /\ Be16(s \o U16(n), Len(s)) = n
  <1> DEFINE w == U16(n)
             t == s \o w
  <1>1. /\ n \div 256 \in WireByte /\ n % 256 \in WireByte
        /\ 256 * (n \div 256) + (n % 256) = n
    BY WordBytes
  <1>w. w \in Seq(WireByte)
    BY <1>1 DEF U16
  <1>2. Len(w) = 2 /\ w[1] = n \div 256 /\ w[2] = n % 256
    BY <1>1 DEF U16
  <1>3. 1 \in 1..Len(w) /\ 2 \in 1..Len(w)
    BY <1>2
  <1> HIDE DEF w
  <1>4. /\ t \in Seq(WireByte) /\ Len(t) = Len(s) + Len(w)
        /\ \A i \in 1..Len(s) : t[i] = s[i]
        /\ \A i \in 1..Len(w) : t[Len(s) + i] = w[i]
    BY <1>w, Joined
  <1> HIDE DEF t
  <1>5. t[Len(s) + 1] = n \div 256 /\ t[Len(s) + 2] = n % 256
    BY <1>2, <1>3, <1>4, ZenonT(60)
  <1>6. Be16(t, Len(s)) = n
    BY <1>1, <1>5, ZenonT(60) DEF Be16
  <1>7. Len(t) = Len(s) + 2
    BY <1>2, <1>4, Zenon
  <1> QED
    BY <1>4, <1>6, <1>7 DEF t, w

\* The ten bytes of a header, and the fields they hold.
IsHeader(h, rosctr, ref, m, n) ==
  /\ Len(h) = 10
  /\ h[1] = 50 /\ h[2] = rosctr
  /\ Be16(h, 4) = ref /\ Be16(h, 6) = m /\ Be16(h, 8) = n

LEMMA HeaderBytes ==
  ASSUME NEW rosctr \in WireByte, NEW ref \in Word, NEW m \in Word, NEW n \in Word
  PROVE  /\ s7Header(rosctr, ref, m, n) \in Seq(WireByte)
         /\ IsHeader(s7Header(rosctr, ref, m, n), rosctr, ref, m, n)
  <1> DEFINE p == <<50, rosctr, 0, 0>>
             q == p \o U16(ref)
             r == q \o U16(m)
             h == r \o U16(n)
  <1>1. p \in Seq(WireByte) /\ Len(p) = 4 /\ p[1] = 50 /\ p[2] = rosctr
    BY DEF WireByte
  <1>h. h = s7Header(rosctr, ref, m, n)
    BY DEF s7Header
  <1> HIDE DEF p
  <1>2. /\ q \in Seq(WireByte) /\ Len(q) = 6 /\ Be16(q, 4) = ref
        /\ \A i \in 1..4 : q[i] = p[i]
    <2>1. /\ q \in Seq(WireByte) /\ Len(q) = Len(p) + 2 /\ Be16(q, Len(p)) = ref
          /\ \A i \in 1..Len(p) : q[i] = p[i]
      BY <1>1, PutWord, ZenonT(60)
    <2> HIDE DEF q
    <2> QED
      BY <1>1, <2>1
  <1> HIDE DEF q
  <1>3. /\ r \in Seq(WireByte) /\ Len(r) = 8 /\ Be16(r, 6) = m
        /\ \A i \in 1..6 : r[i] = q[i]
    <2>1. /\ r \in Seq(WireByte) /\ Len(r) = Len(q) + 2 /\ Be16(r, Len(q)) = m
          /\ \A i \in 1..Len(q) : r[i] = q[i]
      BY <1>2, PutWord, Zenon
    <2> HIDE DEF r
    <2> QED
      BY <1>2, <2>1
  <1> HIDE DEF r
  <1>4. /\ h \in Seq(WireByte) /\ Len(h) = 10 /\ Be16(h, 8) = n
        /\ \A i \in 1..8 : h[i] = r[i]
    <2>1. /\ h \in Seq(WireByte) /\ Len(h) = Len(r) + 2 /\ Be16(h, Len(r)) = n
          /\ \A i \in 1..Len(r) : h[i] = r[i]
      BY <1>3, PutWord, Zenon
    <2> HIDE DEF h
    <2> QED
      BY <1>3, <2>1
  <1> HIDE DEF h
  <1>5. h[1] = 50 /\ h[2] = rosctr /\ Be16(h, 4) = ref /\ Be16(h, 6) = m
    BY <1>1, <1>2, <1>3, <1>4 DEF Be16
  <1> QED
    BY <1>h, <1>4, <1>5 DEF IsHeader

\* Three sections one after the other: what b holds of them.
Holds(b, h, p, d) ==
  /\ Len(b) = Len(h) + Len(p) + Len(d)
  /\ \A i \in 1..Len(h) : b[i] = h[i]
  /\ Slice(b, Len(h), Len(h) + Len(p)) = p
  /\ Slice(b, Len(h) + Len(p), Len(h) + Len(p) + Len(d)) = d

LEMMA SectionsHeld ==
  ASSUME NEW S, NEW h \in Seq(S), NEW p \in Seq(S), NEW d \in Seq(S)
  PROVE  h \o p \o d \in Seq(S) /\ Holds(h \o p \o d, h, p, d)
  BY SectionFound DEF Holds

\* A message keeps the fields of the header it begins with.
LEMMA HeaderKept ==
  ASSUME NEW h \in Seq(WireByte), NEW p \in Seq(WireByte), NEW d \in Seq(WireByte), NEW b,
         Holds(b, h, p, d), Len(h) >= 10
  PROVE  /\ \A i \in 1..10 : b[i] = h[i]
         /\ Be16(b, 4) = Be16(h, 4) /\ Be16(b, 6) = Be16(h, 6) /\ Be16(b, 8) = Be16(h, 8)
  <1>2. Len(h) \in Nat
    BY SeqLength
  <1>3. \A i \in 1..10 : i \in 1..Len(h)
    BY <1>2
  <1>4. \A i \in 1..10 : b[i] = h[i]
    BY <1>3, Zenon DEF Holds
  <1>5. /\ b[5] = h[5] /\ b[6] = h[6] /\ b[7] = h[7]
        /\ b[8] = h[8] /\ b[9] = h[9] /\ b[10] = h[10]
    BY <1>4
  <1>6. Be16(b, 4) = Be16(h, 4) /\ Be16(b, 6) = Be16(h, 6) /\ Be16(b, 8) = Be16(h, 8)
    BY <1>5 DEF Be16
  <1> QED
    BY <1>4, <1>6

\* The k bytes of b after the first m.
IsSlice(t, b, m, k) == Len(t) = k /\ \A i \in 1..k : t[i] = b[m + i]

LEMMA SliceFacts ==
  ASSUME NEW S, NEW b \in Seq(S), NEW m \in Nat, NEW n \in Nat, m <= n, n <= Len(b)
  PROVE  Slice(b, m, n) \in Seq(S) /\ IsSlice(Slice(b, m, n), b, m, n - m)
  <1>1. Len(b) \in Nat /\ \A i \in 1..Len(b) : b[i] \in S
    BY SeqLength, SeqElement
  <1>2. \A i \in m + 1..n : b[i] \in S
    BY <1>1
  <1>3. /\ SubSeq(b, m + 1, n) \in Seq(S)
        /\ Len(SubSeq(b, m + 1, n)) = IF m + 1 <= n THEN n - (m + 1) + 1 ELSE 0
        /\ \A i \in 1..n - (m + 1) + 1 : SubSeq(b, m + 1, n)[i] = b[m + 1 + i - 1]
    <2>1. m + 1 \in Int /\ n \in Int
      OBVIOUS
    <2> QED
      BY <1>2, <2>1, SeqPart
  <1> DEFINE t == SubSeq(b, m + 1, n)
  <1> HIDE DEF t
  <1>4. t \in Seq(S) /\ Len(t) = n - m /\ \A i \in 1..n - m : t[i] = b[m + i]
    <2>1. /\ t \in Seq(S) /\ Len(t) = IF m + 1 <= n THEN n - (m + 1) + 1 ELSE 0
          /\ \A i \in 1..n - (m + 1) + 1 : t[i] = b[m + 1 + i - 1]
      BY <1>3 DEF t
    <2>2. Len(t) = n - m
      BY <2>1
    <2>3. ASSUME NEW i \in 1..n - m PROVE t[i] = b[m + i]
      <3>1. i \in 1..n - (m + 1) + 1 /\ m + 1 + i - 1 = m + i
        OBVIOUS
      <3>2. t[i] = b[m + 1 + i - 1]
        BY <2>1, <3>1, Zenon
      <3> QED
        BY <3>1, <3>2, Zenon
    <2> QED
      BY <2>1, <2>2, <2>3, Zenon
  <1> QED
    BY <1>4 DEF t, Slice, IsSlice

\* A slice of a slice is a slice.
LEMMA SliceOfSlice ==
  ASSUME NEW S, NEW b \in Seq(S), NEW k \in Nat, NEW m \in Nat, NEW n \in Nat,
         m <= n, k + n <= Len(b)
  PROVE  Slice(Slice(b, k, Len(b)), m, n) = Slice(b, k + m, k + n)
  <1> DEFINE r == Slice(b, k, Len(b))
             x == Slice(r, m, n)
             y == Slice(b, k + m, k + n)
  <1>0. Len(b) \in Nat
    BY SeqLength
  <1>1. r \in Seq(S) /\ IsSlice(r, b, k, Len(b) - k)
    <2>1. k <= Len(b) /\ Len(b) <= Len(b)
      BY <1>0
    <2> QED
      BY <1>0, <2>1, SliceFacts
  <1> HIDE DEF r
  <1>2. x \in Seq(S) /\ IsSlice(x, r, m, n - m)
    <2>1. n <= Len(r)
      BY <1>0, <1>1 DEF IsSlice
    <2> QED
      BY <1>1, <2>1, SliceFacts
  <1> HIDE DEF x
  <1>3. y \in Seq(S) /\ IsSlice(y, b, k + m, n - m)
    <2>1. k + m \in Nat /\ k + n \in Nat /\ k + m <= k + n /\ (k + n) - (k + m) = n - m
      OBVIOUS
    <2>2. y \in Seq(S) /\ IsSlice(y, b, k + m, (k + n) - (k + m))
      BY <2>1, SliceFacts
    <2> HIDE DEF y
    <2> QED
      BY <2>1, <2>2
  <1> HIDE DEF y
  <1>4. \A i \in 1..n - m : x[i] = y[i]
    <2> SUFFICES ASSUME NEW i \in 1..n - m
                 PROVE  x[i] = y[i]
      OBVIOUS
    <2>1. m + i \in 1..Len(b) - k /\ k + (m + i) = k + m + i
      BY <1>0
    <2>2. x[i] = r[m + i] /\ y[i] = b[k + m + i]
      BY <1>2, <1>3, Zenon DEF IsSlice
    <2>3. r[m + i] = b[k + (m + i)]
      BY <1>1, <2>1, Zenon DEF IsSlice
    <2> QED
      BY <2>1, <2>2, <2>3
  <1>5. x = y
    BY <1>2, <1>3, <1>4, SeqSame DEF IsSlice
  <1> QED
    BY <1>5 DEF x, y, r

-----------------------------------------------------------------------------
(* What one side writes the other side reads *)

\* session.handle finds in every request of the client, and in every other
\* message encodeMessage writes, its kind, its reference and its two sections.
THEOREM RequestRoundTrip ==
  ASSUME NEW rosctr \in WireByte, NEW ref \in Word, NEW param \in Seq(WireByte), NEW data \in Seq(WireByte),
         Len(param) \in Word, Len(data) \in Word
  PROVE  HandleHeader(encodeMessage(rosctr, ref, param, data)) =
           [ok |-> TRUE, rosctr |-> rosctr, ref |-> ref, param |-> param, data |-> data]
  <1> DEFINE h == s7Header(rosctr, ref, Len(param), Len(data))
             b == encodeMessage(rosctr, ref, param, data)
  <1>1. h \in Seq(WireByte)
    BY HeaderBytes
  <1>2. IsHeader(h, rosctr, ref, Len(param), Len(data))
    BY HeaderBytes
  <1>3. Holds(b, h, param, data)
    <2> HIDE DEF h
    <2>1. Holds(h \o param \o data, h, param, data)
      BY <1>1, SectionsHeld
    <2> QED
      BY <2>1 DEF encodeMessage, h
  <1> HIDE DEF h, b
  <1>4. /\ \A i \in 1..10 : b[i] = h[i]
        /\ Be16(b, 4) = Be16(h, 4) /\ Be16(b, 6) = Be16(h, 6) /\ Be16(b, 8) = Be16(h, 8)
    <2>1. Len(h) >= 10
      BY <1>2 DEF IsHeader
    <2> QED
      BY ONLY <1>1, <1>3, <2>1, param \in Seq(WireByte), data \in Seq(WireByte), HeaderKept
  <1>5. Len(param) \in Nat /\ Len(data) \in Nat
    BY SeqLength
  <1>6. /\ ~(Len(b) < 10) /\ 10 + Len(param) + Len(data) = Len(b)
        /\ b[1] = 50 /\ b[2] = rosctr
        /\ Be16(b, 4) = ref /\ Be16(b, 6) = Len(param) /\ Be16(b, 8) = Len(data)
        /\ Slice(b, 10, 10 + Len(param)) = param
        /\ Slice(b, 10 + Len(param), Len(b)) = data
    BY <1>2, <1>3, <1>4, <1>5 DEF Holds, IsHeader
  <1>7. HandleHeader(b) = [ok |-> TRUE, rosctr |-> rosctr, ref |-> ref, param |-> param, data |-> data]
    BY <1>6, Zenon DEF HandleHeader, S7HeaderSize
  <1> QED
    BY <1>7 DEF b

\* sendReceive finds in every answer of the server its reference, its error
\* and its two sections.
THEOREM AnswerRoundTrip ==
  ASSUME NEW ref \in Word, NEW errClass \in WireByte, NEW errCode \in WireByte,
         NEW param \in Seq(WireByte), NEW data \in Seq(WireByte),
         Len(param) \in Word, Len(data) \in Word
  PROVE  SectionsOf(EncodeAckData(ref, errClass, errCode, param, data)) =
           [ok |-> TRUE, ref |-> ref, error |-> <<errClass, errCode>>, param |-> param, data |-> data]
  <1> DEFINE h == s7Header(ROSCTRAckData, ref, Len(param), Len(data))
             e == <<errClass, errCode>>
             a == h \o e
             b == EncodeAckData(ref, errClass, errCode, param, data)
  <1>0. ROSCTRAckData \in WireByte
    BY DEF ROSCTRAckData, WireByte
  <1>1. h \in Seq(WireByte)
    BY <1>0, HeaderBytes
  <1>2. IsHeader(h, ROSCTRAckData, ref, Len(param), Len(data))
    BY <1>0, HeaderBytes
  <1>3. e \in Seq(WireByte)
    OBVIOUS
  <1>4. Len(e) = 2 /\ e[1] = errClass /\ e[2] = errCode /\ 1 \in 1..Len(e) /\ 2 \in 1..Len(e)
    OBVIOUS
  <1>b. b = a \o param \o data
    BY DEF EncodeAckData
  <1> HIDE DEF h, e, b
  <1>5. /\ a \in Seq(WireByte) /\ Len(a) = Len(h) + Len(e)
        /\ \A i \in 1..Len(h) : a[i] = h[i]
        /\ \A i \in 1..Len(e) : a[Len(h) + i] = e[i]
    BY <1>1, <1>3, Joined
  <1> HIDE DEF a
  <1>6. Len(a) = 12 /\ \A i \in 1..10 : a[i] = h[i]
    BY <1>2, <1>4, <1>5 DEF IsHeader
  <1>7. a[11] = errClass /\ a[12] = errCode
    <2>1. a[Len(h) + 1] = errClass /\ a[Len(h) + 2] = errCode
      BY <1>4, <1>5, Zenon
    <2> QED
      BY <1>2, <2>1 DEF IsHeader
  <1>8. b \in Seq(WireByte) /\ Holds(b, a, param, data)
    BY <1>5, <1>b, SectionsHeld
  <1>9. Len(param) \in Nat /\ Len(data) \in Nat
    BY SeqLength
  <1>10. /\ b[1] = 50 /\ b[2] = 3 /\ b[11] = errClass /\ b[12] = errCode
         /\ Be16(b, 4) = ref /\ Be16(b, 6) = Len(param) /\ Be16(b, 8) = Len(data)
         /\ Len(b) = 12 + Len(param) + Len(data)
    <2>1. \A i \in 1..12 : b[i] = a[i]
      BY <1>6, <1>8, ZenonT(60) DEF Holds
    <2>2. Len(b) = 12 + Len(param) + Len(data)
      BY <1>6, <1>8 DEF Holds
    <2>3. \A i \in 1..10 : b[i] = h[i]
      BY <1>6, <2>1, SMTT(30)
    <2>4. /\ b[5] = h[5] /\ b[6] = h[6] /\ b[7] = h[7]
          /\ b[8] = h[8] /\ b[9] = h[9] /\ b[10] = h[10]
      BY <2>3
    <2>5. Be16(b, 4) = Be16(h, 4) /\ Be16(b, 6) = Be16(h, 6) /\ Be16(b, 8) = Be16(h, 8)
      BY <2>4 DEF Be16
    <2>6. b[1] = 50 /\ b[2] = 3 /\ b[11] = errClass /\ b[12] = errCode
      BY <1>2, <1>7, <2>1, <2>3, SMTT(30) DEF ROSCTRAckData, IsHeader
    <2> QED
      BY <1>2, <2>2, <2>5, <2>6 DEF IsHeader
  <1> DEFINE rest == Slice(b, 12, Len(b))
  <1>11. Slice(rest, 0, Len(param)) = param /\ Slice(rest, Len(param), Len(param) + Len(data)) = data
    <2>1. Slice(b, 12, 12 + Len(param)) = param /\ Slice(b, 12 + Len(param), 12 + Len(param) + Len(data)) = data
      BY <1>6, <1>8, Zenon DEF Holds
    <2>2. /\ 12 + Len(param) <= Len(b) /\ 0 <= Len(param) /\ 12 + 0 = 12
          /\ 12 + (Len(param) + Len(data)) <= Len(b)
          /\ Len(param) <= Len(param) + Len(data) /\ Len(param) + Len(data) \in Nat
          /\ 12 + (Len(param) + Len(data)) = 12 + Len(param) + Len(data)
      BY <1>9, <1>10, SMTT(30)
    <2>3. Slice(rest, 0, Len(param)) = Slice(b, 12 + 0, 12 + Len(param))
      <3>1. 12 \in Nat /\ 0 \in Nat
        OBVIOUS
      <3> QED
        BY <1>8, <1>9, <2>2, <3>1, SliceOfSlice
    <2>4. Slice(rest, Len(param), Len(param) + Len(data)) = Slice(b, 12 + Len(param), 12 + (Len(param) + Len(data)))
      <3>1. 12 \in Nat
        OBVIOUS
      <3> QED
        BY <1>8, <1>9, <2>2, <3>1, SliceOfSlice
    <2> QED
      BY <2>1, <2>2, <2>3, <2>4
  <1>12. ParseS7Header(b) = [ok |-> TRUE, rosctr |-> 3, ref |-> ref,
                             paramLen |-> Len(param), dataLen |-> Len(data),
                             errClass |-> errClass, errCode |-> errCode, rest |-> rest]
    <2>1. ~(Len(b) < 10) /\ ~(Len(b) < 12) /\ ~(Len(b) - 12 < Len(param) + Len(data))
      BY <1>9, <1>10
    <2> HIDE DEF rest
    <2>2. rest = Slice(b, 12, Len(b))
      BY DEF rest
    <2> QED
      BY <1>10, <2>1, <2>2, Zenon DEF ParseS7Header, S7HeaderSize, ROSCTRAck, ROSCTRAckData
  <1> HIDE DEF rest
  <1>13. SectionsOf(b) =
           [ok |-> TRUE, ref |-> ref, error |-> <<errClass, errCode>>, param |-> param, data |-> data]
    <2> DEFINE p == ParseS7Header(b)
    <2>1. /\ p.ok /\ p.ref = ref /\ p.paramLen = Len(param) /\ p.dataLen = Len(data)
          /\ p.errClass = errClass /\ p.errCode = errCode /\ p.rest = rest
      BY <1>12
    <2>2. SectionsOf(b) = IF ~p.ok THEN NoPDU
                          ELSE [ok |-> TRUE, ref |-> p.ref, error |-> <<p.errClass, p.errCode>>,
                                param |-> Slice(p.rest, 0, p.paramLen),
                                data |-> Slice(p.rest, p.paramLen, p.paramLen + p.dataLen)]
      BY DEF SectionsOf
    <2> HIDE DEF p
    <2> QED
      BY <1>11, <2>1, <2>2, Zenon
  <1> QED
    BY <1>13 DEF b

\* The largest byte address has 24 bits as a bit address.
LEMMA LargestAddress ==
  /\ MaxS7AnyByteOffset \in Nat /\ 8 * MaxS7AnyByteOffset + 7 <= 16777215
  /\ MaxS7AnyDBNumber = MaxUint16 /\ MaxS7AnyCount = MaxUint16
  BY DEF MaxS7AnyByteOffset, MaxS7AnyDBNumber, MaxS7AnyCount, MaxUint16

\* The item the client writes for an area, a DB number, a byte address and a
\* size is the one the server reads: the three bytes of the address hold every
\* start that EncodeS7Any accepts.
THEOREM ItemRoundTrip ==
  ASSUME NEW area \in WireByte, NEW db, NEW start, NEW size, FitsS7Any(db, start, size)
  PROVE  S7AnySpec(EncodeS7Any(area, db, start, size)) =
           [syntax |-> SyntaxIDS7Any, transport |-> TransportSizeByte, count |-> size, db |-> db,
            area |-> area, startBit |-> 8 * start]
  <1>1. 8 * start \in Nat /\ 8 * start <= 16777215
    <2>1. start \in Nat /\ start <= MaxS7AnyByteOffset
      BY LargestAddress DEF FitsS7Any
    <2> QED
      BY <2>1, LargestAddress
  <1>2. db \in Word /\ size \in Word
    BY LargestAddress DEF FitsS7Any, Word
  <1> DEFINE a == 8 * start
             b == EncodeS7Any(area, db, start, size)
  <1>3. /\ b[3] = SyntaxIDS7Any /\ b[4] = TransportSizeByte /\ b[5] = size \div 256 /\ b[6] = size % 256
        /\ b[7] = db \div 256 /\ b[8] = db % 256 /\ b[9] = area
        /\ b[10] = (a \div 65536) % 256 /\ b[11] = (a \div 256) % 256 /\ b[12] = a % 256
    BY DEF EncodeS7Any, putS7Any
  <1> HIDE DEF a, b
  <1>b. Be16(b, 4) = 256 * b[5] + b[6] /\ Be16(b, 6) = 256 * b[7] + b[8]
    BY DEF Be16
  <1>w. 256 * (size \div 256) + (size % 256) = size /\ 256 * (db \div 256) + (db % 256) = db
    BY <1>2, WordBytes
  <1>4. Be16(b, 4) = size
    BY <1>3, <1>b, <1>w
  <1>5. Be16(b, 6) = db
    BY <1>3, <1>b, <1>w
  <1>6. 65536 * b[10] + 256 * b[11] + b[12] = a
    BY <1>1, <1>3, AddressBytes DEF a
  <1>7. S7AnySpec(b) =
           [syntax |-> SyntaxIDS7Any, transport |-> TransportSizeByte, count |-> size, db |-> db,
            area |-> area, startBit |-> a]
    BY <1>3, <1>4, <1>5, <1>6 DEF S7AnySpec
  <1> QED
    BY <1>7 DEF a, b

\* So is the item the client writes for a bit.
THEOREM BitItemRoundTrip ==
  ASSUME NEW area \in WireByte, NEW db, NEW byte, NEW bit, FitsS7AnyBit(db, byte, bit)
  PROVE  S7AnySpec(EncodeS7AnyBit(area, db, byte, bit)) =
           [syntax |-> SyntaxIDS7Any, transport |-> TransportSizeBit, count |-> 1, db |-> db,
            area |-> area, startBit |-> 8 * byte + bit]
  <1>1. 8 * byte + bit \in Nat /\ 8 * byte + bit <= 16777215
    <2>1. byte \in Nat /\ byte <= MaxS7AnyByteOffset /\ bit \in 0..7
      BY LargestAddress DEF FitsS7AnyBit
    <2> QED
      BY <2>1, LargestAddress
  <1>2. db \in Word /\ 1 \in Word
    <2>1. db \in Word
      BY LargestAddress DEF FitsS7AnyBit, Word
    <2>2. MaxUint16 \in Nat /\ 1 <= MaxUint16
      BY DEF MaxUint16
    <2> QED
      BY <2>1, <2>2 DEF Word
  <1> DEFINE a == 8 * byte + bit
             b == EncodeS7AnyBit(area, db, byte, bit)
  <1>3. /\ b[3] = SyntaxIDS7Any /\ b[4] = TransportSizeBit /\ b[5] = 1 \div 256 /\ b[6] = 1 % 256
        /\ b[7] = db \div 256 /\ b[8] = db % 256 /\ b[9] = area
        /\ b[10] = (a \div 65536) % 256 /\ b[11] = (a \div 256) % 256 /\ b[12] = a % 256
    BY DEF EncodeS7AnyBit, putS7Any
  <1> HIDE DEF a, b
  <1>b. Be16(b, 4) = 256 * b[5] + b[6] /\ Be16(b, 6) = 256 * b[7] + b[8]
    BY DEF Be16
  <1>w. 256 * (1 \div 256) + (1 % 256) = 1 /\ 256 * (db \div 256) + (db % 256) = db
    BY <1>2, WordBytes
  <1>4. Be16(b, 4) = 1
    BY <1>3, <1>b, <1>w
  <1>5. Be16(b, 6) = db
    BY <1>3, <1>b, <1>w
  <1>6. 65536 * b[10] + 256 * b[11] + b[12] = a
    BY <1>1, <1>3, AddressBytes DEF a
  <1>7. S7AnySpec(b) =
           [syntax |-> SyntaxIDS7Any, transport |-> TransportSizeBit, count |-> 1, db |-> db,
            area |-> area, startBit |-> a]
    BY <1>3, <1>4, <1>5, <1>6 DEF S7AnySpec
  <1> QED
    BY <1>7 DEF a, b

\* Both sides of Setup Communication read the AmQ values and the PDU size that
\* the other side wrote.
THEOREM SetupRoundTrip ==
  ASSUME NEW calling \in Word, NEW called \in Word, NEW size \in Word
  PROVE  ParseSetup(SetupParam(calling, called, size)) =
           [ok |-> TRUE, amqCalling |-> calling, amqCalled |-> called, pduSize |-> size]
  <1> DEFINE p == <<FuncSetupComm, 0>>
             q == p \o U16(calling)
             r == q \o U16(called)
             h == r \o U16(size)
  <1>1. p \in Seq(WireByte) /\ Len(p) = 2 /\ p[1] = FuncSetupComm
    BY DEF WireByte, FuncSetupComm
  <1>h. h = SetupParam(calling, called, size)
    BY DEF SetupParam
  <1> HIDE DEF p
  <1>2. /\ q \in Seq(WireByte) /\ Len(q) = 4 /\ Be16(q, 2) = calling
        /\ \A i \in 1..2 : q[i] = p[i]
    <2>1. /\ q \in Seq(WireByte) /\ Len(q) = Len(p) + 2 /\ Be16(q, Len(p)) = calling
          /\ \A i \in 1..Len(p) : q[i] = p[i]
      BY <1>1, PutWord, Zenon
    <2> HIDE DEF q
    <2> QED
      BY <1>1, <2>1
  <1> HIDE DEF q
  <1>3. /\ r \in Seq(WireByte) /\ Len(r) = 6 /\ Be16(r, 4) = called
        /\ \A i \in 1..4 : r[i] = q[i]
    <2>1. /\ r \in Seq(WireByte) /\ Len(r) = Len(q) + 2 /\ Be16(r, Len(q)) = called
          /\ \A i \in 1..Len(q) : r[i] = q[i]
      BY <1>2, PutWord, Zenon
    <2> HIDE DEF r
    <2> QED
      BY <1>2, <2>1
  <1> HIDE DEF r
  <1>4. /\ h \in Seq(WireByte) /\ Len(h) = 8 /\ Be16(h, 6) = size
        /\ \A i \in 1..6 : h[i] = r[i]
    <2>1. /\ h \in Seq(WireByte) /\ Len(h) = Len(r) + 2 /\ Be16(h, Len(r)) = size
          /\ \A i \in 1..Len(r) : h[i] = r[i]
      BY <1>3, PutWord, Zenon
    <2> HIDE DEF h
    <2> QED
      BY <1>3, <2>1
  <1> HIDE DEF h
  <1>5. h[1] = FuncSetupComm /\ Be16(h, 2) = calling /\ Be16(h, 4) = called
    BY <1>1, <1>2, <1>3, <1>4 DEF Be16
  <1>6. ~(Len(h) < 8)
    BY <1>4
  <1>7. ParseSetup(h) = [ok |-> TRUE, amqCalling |-> calling, amqCalled |-> called, pduSize |-> size]
    BY <1>4, <1>5, <1>6, Zenon DEF ParseSetup
  <1> QED
    BY <1>h, <1>7

\* An item of a Read Var answer is decoded wherever it stands: after any items
\* and before any others, its four bytes of header and its data are read back,
\* and the next item is looked for behind the fill byte of odd data.  The
\* length field is one that the transport size counts to the length of the data.
THEOREM AnswerItemRoundTrip ==
  ASSUME NEW pre \in Seq(WireByte), NEW transport \in WireByte, NEW length \in Word,
         NEW data \in Seq(WireByte), NEW tail \in Seq(WireByte), NEW last \in BOOLEAN,
         NormalizeResponseDataLength(transport, length) = Len(data),
         Len(data) % 2 # 0 => Len(tail) # 0 \/ last
  PROVE  decodeReadResponseItem(
             pre \o <<RetCodeSuccess, transport>> \o U16(length) \o data \o tail, Len(pre), last) =
           [ok |-> TRUE,
            next |-> IF Len(data) % 2 # 0 /\ Len(tail) # 0 THEN Len(pre) + 4 + Len(data) + 1
                     ELSE Len(pre) + 4 + Len(data),
            item |-> [code |-> RetCodeSuccess, transport |-> transport, length |-> length, data |-> data]]
  <1> DEFINE e == <<RetCodeSuccess, transport>>
             s == pre \o e
             a == s \o U16(length)
             b == a \o data \o tail
             o == Len(pre)
  <1>1. e \in Seq(WireByte)
    BY DEF RetCodeSuccess, WireByte
  <1>2. Len(e) = 2 /\ e[1] = RetCodeSuccess /\ e[2] = transport /\ 1 \in 1..Len(e) /\ 2 \in 1..Len(e)
    OBVIOUS
  <1> HIDE DEF e
  <1>3. /\ s \in Seq(WireByte) /\ Len(s) = Len(pre) + Len(e)
        /\ \A i \in 1..Len(e) : s[Len(pre) + i] = e[i]
    BY <1>1, Joined, SMTT(30)
  <1> HIDE DEF s
  <1>4. /\ a \in Seq(WireByte) /\ Len(a) = Len(s) + 2 /\ Be16(a, Len(s)) = length
        /\ \A i \in 1..Len(s) : a[i] = s[i]
    BY <1>3, PutWord, Zenon
  <1> HIDE DEF a
  <1>5. b \in Seq(WireByte) /\ Holds(b, a, data, tail)
    BY <1>4, SectionsHeld
  <1> HIDE DEF b
  <1>6. o \in Nat /\ Len(data) \in Nat /\ Len(tail) \in Nat
    BY SeqLength
  <1> HIDE DEF o
  <1>7. Len(s) = o + 2 /\ Len(a) = o + 4 /\ s[o + 1] = RetCodeSuccess /\ s[o + 2] = transport
    <2>1. s[Len(pre) + 1] = e[1] /\ s[Len(pre) + 2] = e[2]
      BY <1>2, <1>3, Zenon
    <2>2. Len(s) = o + 2
      BY <1>2, <1>3, <1>6 DEF o
    <2> QED
      BY <1>2, <1>4, <1>6, <2>1, <2>2 DEF o
  <1>8. a[o + 1] = RetCodeSuccess /\ a[o + 2] = transport /\ Be16(a, o + 2) = length
    <2>1. o + 1 \in 1..Len(s) /\ o + 2 \in 1..Len(s)
      BY <1>6, <1>7
    <2> QED
      BY <1>4, <1>7, <2>1, Zenon
  <1>9. b[o + 1] = RetCodeSuccess /\ b[o + 2] = transport /\ Be16(b, o + 2) = length
    <2>1. /\ o + 1 \in 1..Len(a) /\ o + 2 \in 1..Len(a)
          /\ (o + 2) + 1 \in 1..Len(a) /\ (o + 2) + 2 \in 1..Len(a)
      BY <1>6, <1>7
    <2>2. /\ b[o + 1] = a[o + 1] /\ b[o + 2] = a[o + 2]
          /\ b[(o + 2) + 1] = a[(o + 2) + 1] /\ b[(o + 2) + 2] = a[(o + 2) + 2]
      BY <1>5, <2>1, Zenon DEF Holds
    <2> QED
      BY <1>8, <2>2 DEF Be16
  <1>10. Len(b) = o + 4 + Len(data) + Len(tail) /\ Slice(b, o + 4, o + 4 + Len(data)) = data
    BY <1>5, <1>7 DEF Holds
  <1> DEFINE n == Len(data)
             next == o + 4 + n
  <1>11. /\ ~(o + 4 > Len(b)) /\ ~(n < 0) /\ ~(next > Len(b))
         /\ (next = Len(b) <=> Len(tail) = 0) /\ (next < Len(b) <=> Len(tail) # 0)
    BY <1>6, <1>10, SMTT(30)
  <1>12. ~((n % 2 # 0) /\ next = Len(b) /\ ~last)
    BY <1>11
  <1>13. decodeReadResponseItem(b, o, last) =
           [ok |-> TRUE, next |-> IF n % 2 # 0 /\ next < Len(b) THEN next + 1 ELSE next,
            item |-> [code |-> RetCodeSuccess, transport |-> transport, length |-> length,
                      data |-> Slice(b, o + 4, next)]]
    BY <1>9, <1>11, <1>12, Zenon DEF decodeReadResponseItem
  <1>14. decodeReadResponseItem(b, o, last) =
           [ok |-> TRUE, next |-> IF n % 2 # 0 /\ Len(tail) # 0 THEN next + 1 ELSE next,
            item |-> [code |-> RetCodeSuccess, transport |-> transport, length |-> length, data |-> data]]
    BY <1>10, <1>11, <1>13, Zenon
  <1> QED
    BY <1>14 DEF b, a, s, e, o

-----------------------------------------------------------------------------
(* The transfer: its invariant *)

Item ==
  [syntax : {"S7ANY"}, transport : {"BYTE", "BIT"}, count : Nat, area : {"DB"}, db : {1}, startBit : Nat]
Request ==
  [kind : {"read", "write"}, callNo : Nat, off : Nat, n : Nat \ {0}, spec : Item, data : Seq(Octet)]

\* A request of any call: what it brings is what its call writes there.
Sent(f) ==
  /\ f.callNo \in 1..callNo
  /\ f.spec.count = f.n
  /\ f.spec.transport = "BYTE" =>
       /\ f.spec.startBit % 8 = 0
       /\ Len(f.data) = f.n
       /\ \A i \in 1..f.n : f.data[i] = Byte(f.spec.startBit \div 8 + i - 1, f.callNo)
  /\ f.spec.transport = "BIT" =>
       /\ f.n = 1
       /\ f.kind = "write" => f.spec.startBit % 8 \in BitsWritten

\* A request of the present call: it is for the chunk under way, or for one
\* that is done.
Own(f) ==
  f.callNo = callNo =>
    /\ f.kind = (IF Reads(call) THEN "read" ELSE "write")
    /\ f.spec.transport = (IF IsBit(call) THEN "BIT" ELSE "BYTE")
    /\ f.spec.startBit \div 8 = call.start + f.off
    /\ IsBit(call) => f.spec.startBit % 8 = call.bit
    /\ f.off + f.n <= call.size
    /\ f.off + f.n <= off \/ (pc # "chunk" /\ f.off = off /\ f.n = chunk)

Sound == {f \in Request : Sent(f) /\ Own(f)}

\* The connections and the requests on them.
SessionOK ==
  /\ link \in {"none", "up", "stale", "dead"}
  /\ connNo \in 0..MaxConns /\ (connNo = 0 => link = "none") /\ (pc = "wait" => link # "none")
  /\ pduSize \in [1..MaxConns -> PDUSizes \cup {0}]
  /\ flight \in [1..MaxConns -> Seq(Sound)]

\* m is a memory with the peer's area.
IsArea(m) ==
  IsMemory(m) /\ DOMAIN m = {Area} /\ ~m[Area].readOnly /\ Len(m[Area].data) = AreaSize

\* The peer's memory and its history.
MemOK ==
  /\ IsArea(mem)
  /\ others \in 0..MaxOthers
  /\ written \in [Addresses -> 0..MaxCalls + MaxOthers]
  /\ NoLostUpdate
  /\ DOMAIN held = Addresses
  /\ \A a \in Addresses :
       /\ \A b \in held[a] : WrittenFor(b, a)
       /\ pc # "idle" => ByteAt(a) \in held[a]

\* The call's own state.
CallOK ==
  /\ pc \in {"idle", "chunk", "wait"}
  /\ call \in Calls \cup {NoCall} /\ callNo \in 0..MaxCalls
  /\ off \in 0..(IF call.size > 0 THEN call.size ELSE 0) /\ chunk \in Nat
  /\ res \in Outcomes /\ ctxDone \in BOOLEAN
  /\ pc # "idle" => call \in Calls /\ Valid(call) /\ callNo # 0
  /\ pc = "wait" => chunk >= 1 /\ off + chunk <= call.size
  /\ IsBit(call) => off = 0

\* The address a had the byte b since the call began.
HeldAt(a, b) == a \in Addresses /\ b \in held[a]

\* An answer r to the present chunk whose item ReadArea keeps: when it has all
\* the bytes, they stood at the chunk's addresses.
GoodRead(r) ==
  /\ r.header = "ok" /\ r.items # <<>>
  /\ r.items[1].code = "Success" /\ ~(Len(r.items[1].data) > chunk)
  => /\ r.items[1].data \in Seq(Octet)
     /\ Len(r.items[1].data) = chunk =>
          \A i \in 1..chunk : HeldAt(call.start + off + i - 1, r.items[1].data[i])

\* An answer that ReadBit takes has a bit the byte had.
GoodBit(r) ==
  /\ r.header = "ok" /\ Len(r.items) = 1
  /\ r.items[1].code = "Success" /\ Len(r.items[1].data) = 1
  => /\ call.start \in Addresses
     /\ \E b \in held[call.start] : call.bit \in b <=> 0 \in r.items[1].data[1]

ReplyOK ==
  /\ pc # "wait" => reply = NoReply
  /\ pc = "wait" /\ call.kind = "read" => GoodRead(reply)
  /\ pc = "wait" /\ call.kind = "readBit" => GoodBit(reply)
  /\ pc = "wait" /\ ~Reads(call) /\ Written(reply) => applied = 0..off + chunk - 1

\* What ReadArea has gathered.
GotOK ==
  pc # "idle" /\ call.kind = "read" =>
    /\ got \in Seq(Octet) /\ Len(got) <= off
    /\ Len(got) = off => \A i \in 1..off : HeldAt(call.start + i - 1, got[i])

\* What the peer has written for the call.
AppliedOK ==
  ~Reads(call) =>
    /\ applied \in {0..off - 1, 0..off + chunk - 1}
    /\ pc = "chunk" => applied = 0..off - 1
    /\ pc = "idle" /\ res = "success" => applied = 0..call.size - 1

\* What a read that succeeded has returned.
ResultOK ==
  pc = "idle" /\ res = "success" =>
    /\ call.kind = "readBit" =>
         /\ call.start \in Addresses
         /\ \E b \in held[call.start] : call.bit \in b <=> got = <<{0}>>
    /\ call.kind = "read" =>
         Len(got) = call.size /\ \A i \in 1..Len(got) : HeldAt(call.start + i - 1, got[i])

\* The inductive invariant.
IInv ==
  /\ SessionOK /\ MemOK /\ CallOK
  /\ ReplyOK /\ GotOK /\ AppliedOK /\ ResultOK

-----------------------------------------------------------------------------
(* Numbers, sequences and calls *)

\* The bounds are numbers.
LEMMA Bounds ==
  /\ AreaSize \in Nat /\ MaxConns \in Nat /\ MaxCalls \in Nat /\ MaxOthers \in Nat
  /\ PDUSizes \subseteq Nat
BY TransferAssumption

\* A bit address is eight times its byte and the bit.
LEMMA BitAddress ==
  ASSUME NEW s \in Nat, NEW b \in 0..7
  PROVE  8 * s + b \in Nat /\ (8 * s + b) \div 8 = s /\ (8 * s + b) % 8 = b
OBVIOUS

\* A sequence over a set is one over a larger set.
LEMMA WiderFlight ==
  ASSUME NEW F, NEW S, NEW T, S \subseteq T, F \in [1..MaxConns -> Seq(S)]
  PROVE  F \in [1..MaxConns -> Seq(T)]
<1>1. ASSUME NEW q \in Seq(S) PROVE q \in Seq(T)
  <2>1. q \in [1..Len(q) -> S] /\ Len(q) \in Nat
    BY SeqLength
  <2>2. q \in [1..Len(q) -> T]
    BY <2>1, Zenon
  <2> QED  BY <2>1, <2>2
<1> QED  BY <1>1, Zenon

\* What the calls are made of.
LEMMA CallTypes ==
  ASSUME NEW c \in Calls
  PROVE  /\ c.kind \in {"read", "write", "readBit", "writeBit"} /\ c.start \in Int /\ c.size \in Int
         /\ IsBit(c) => c.size = 1 /\ c.bit \in Int /\ c.value \in BOOLEAN
<1>1. \/ c \in [kind : {"read", "write"}, start : Int, size : Int]
      \/ c \in [kind : {"readBit", "writeBit"}, start : Int, size : {1}, bit : Int, value : BOOLEAN]
  BY CallsAssumption, Zenon
<1> QED  BY <1>1 DEF IsBit

\* What a valid call adds to that.
LEMMA ValidCall ==
  ASSUME NEW c \in Calls, Valid(c)
  PROVE  /\ c.start \in Nat /\ c.size \in Nat
         /\ IsBit(c) => c.bit \in 0..7
BY CallTypes DEF Valid

\* Every chunk is of one byte at least.
LEMMA ChunkBounds ==
  ASSUME SessionOK, CallOK, pc = "chunk", off < call.size
  PROVE  ChunkSize \in Nat \ {0} /\ off + ChunkSize <= call.size /\ (IsBit(call) => ChunkSize = 1)
<1>1. call.size \in Int /\ off \in Nat /\ (IsBit(call) => call.size = 1 /\ off = 0)
  BY CallTypes DEF CallOK
<1>2. PDUSize \in Int
  <2>1. CASE link = "none"
    BY <2>1 DEF PDUSize
  <2>2. CASE link # "none"
    <3>1. connNo \in 1..MaxConns
      <4>1. connNo \in 0..MaxConns /\ connNo # 0
        BY <2>2, Zenon DEF SessionOK
      <4> QED  BY <4>1, Bounds
    <3>2. pduSize[connNo] \in PDUSizes \cup {0}
      BY <3>1, Zenon DEF SessionOK
    <3>3. pduSize[connNo] \in Nat
      <4>1. 0 \in Nat
        OBVIOUS
      <4> QED  BY <3>2, <4>1, Bounds, Zenon
    <3> QED  BY <2>2, <3>3 DEF PDUSize
  <2> QED  BY <2>1, <2>2
<1> DEFINE m == MaxChunk(call.kind, PDUSize)
<1>3. m \in Nat \ {0}
  BY <1>2 DEF MaxChunk, ReadVarRequestOverhead, WriteVarRequestOverhead
<1> HIDE DEF m
<1>4. ChunkSize = IF call.size - off < m THEN call.size - off ELSE m
  BY DEF ChunkSize, Min2, m
<1> QED  BY <1>1, <1>3, <1>4

-----------------------------------------------------------------------------
(* The peer's memory *)

\* The area has a byte at each of its addresses.
LEMMA AreaBytes ==
  ASSUME MemOK
  PROVE  /\ mem[Area].data \in Seq(Octet) /\ Area \in DOMAIN mem
         /\ \A a \in Addresses : a + 1 \in 1..AreaSize /\ ByteAt(a) \in Octet
<1>1. Area \in DOMAIN mem /\ mem[Area] \in Region
  BY Zenon DEF MemOK, IsArea, IsMemory
<1>2. mem[Area].data \in Seq(Octet)
  BY <1>1, Zenon DEF Region
<1>3. Len(mem[Area].data) = AreaSize /\ AreaSize \in Nat
  BY Bounds, Zenon DEF MemOK, IsArea
<1>4. ASSUME NEW a \in Addresses PROVE a + 1 \in 1..AreaSize /\ ByteAt(a) \in Octet
  <2>1. a + 1 \in 1..AreaSize
    BY <1>3 DEF Addresses
  <2> QED  BY <1>2, <1>3, <2>1, SeqElement DEF ByteAt
<1> QED  BY <1>1, <1>2, <1>4

\* The items of requests are of the peer's area.
LEMMA ItemTarget ==
  ASSUME NEW s \in Item
  PROVE  /\ s.syntax = "S7ANY" /\ keyOf(s.area, s.db) = Area /\ ~timerOrCounter(s.area)
         /\ target(s).start = s.startBit \div 8 /\ target(s).bit = s.startBit % 8
         /\ target(s).size = s.count /\ (target(s).isBit <=> s.transport = "BIT")
         /\ s.startBit \div 8 \in Nat /\ s.startBit % 8 \in 0..7
<1>1. /\ s.syntax = "S7ANY" /\ s.transport \in {"BYTE", "BIT"} /\ s.count \in Nat
      /\ s.area = "DB" /\ s.db = 1 /\ s.db \in Nat /\ s.startBit \in Nat
  BY DEF Item
<1>3. keyOf(s.area, s.db) = Area
  BY <1>1 DEF keyOf, Areas, Area, MaxS7AnyDBNumber
<1>4. ~timerOrCounter(s.area)
  BY <1>1 DEF timerOrCounter
<1>5. elementSize(s.transport) = 1
  BY <1>1 DEF elementSize
<1>6. s.startBit \div 8 \in Nat /\ s.startBit % 8 \in 0..7
  BY <1>1
<1>7. s.transport \notin {"TIMER", "COUNTER"}
  BY <1>1
<1>8. /\ target(s).start = s.startBit \div 8 /\ target(s).bit = s.startBit % 8
      /\ target(s).size = 1 * s.count /\ (target(s).isBit <=> s.transport = "BIT")
  BY <1>5, <1>7, Zenon DEF target
<1> QED  BY <1>1, <1>3, <1>4, <1>6, <1>8

\* An item that resolve lets through lies inside the area.
LEMMA ItemInside ==
  ASSUME MemOK, NEW s \in Item, resolve(mem, s) = "Success"
  PROVE  s.count # 0 /\ s.startBit \div 8 + s.count <= AreaSize
<1> DEFINE key == keyOf(s.area, s.db)
           tc == s.transport \in {"TIMER", "COUNTER"}
           t == target(s)
<1>1. key = Area /\ t.size = s.count /\ t.start = s.startBit \div 8
  BY ItemTarget
<1>2. Len(mem[Area].data) = AreaSize
  BY Zenon DEF MemOK, IsArea
<1> HIDE DEF t, key, tc
<1>3. resolve(mem, s) =
        IF s.syntax # "S7ANY" THEN "AddressFault"
        ELSE IF key \notin DOMAIN mem THEN "NotAvailable"
        ELSE IF elementSize(s.transport) = 0 THEN "DataTypeFault"
        ELSE IF \/ timerOrCounter(s.area) # tc
                \/ tc /\ s.transport # TransportOf(s.area) THEN "AddressFault"
        ELSE IF t.size = 0 \/ (t.isBit /\ t.size > 1) THEN "AddressFault"
        ELSE IF ~tc /\ ~t.isBit /\ s.startBit % 8 # 0 THEN "AddressFault"
        ELSE IF t.start + t.size > Len(mem[key].data) THEN "AddressFault"
        ELSE "Success"
  BY Zenon DEF resolve, t, key, tc
<1>4. t.size # 0 /\ ~(t.start + t.size > Len(mem[key].data))
  BY <1>3
<1>5. s.startBit \div 8 \in Nat /\ s.count \in Nat /\ AreaSize \in Nat
  BY ItemTarget, Bounds DEF Item
<1> QED  BY <1>1, <1>2, <1>4, <1>5

\* The memory after bytes d were copied over the area from offset start on,
\* and what it then holds.
AreaWith(start, d) == [mem EXCEPT ![Area].data = Overwrite(@, start, d)]
HasCopy(m, start, d) ==
  \A a \in Addresses :
    m[Area].data[a + 1] = IF a - start \in 0..Len(d) - 1 THEN d[a - start + 1] ELSE ByteAt(a)

\* Copying bytes over the area does that.
LEMMA AreaOverwritten ==
  ASSUME MemOK, NEW start \in Nat, NEW d \in Seq(Octet)
  PROVE  IsArea(AreaWith(start, d)) /\ HasCopy(AreaWith(start, d), start, d)
<1> DEFINE m == AreaWith(start, d)
<1>0. m = [mem EXCEPT ![Area].data = Overwrite(@, start, d)]
  BY Zenon DEF AreaWith
<1> HIDE DEF m
<1>1. IsMemory(mem) /\ Area \in DOMAIN mem
  BY Zenon, AreaBytes DEF MemOK, IsArea
<1>2. IsMemory(m) /\ SameAreas(mem, m)
  <2>1. start \in Int
    OBVIOUS
  <2> QED  BY <1>0, <1>1, <2>1, OneAreaChanged, Zenon
<1>3. DOMAIN m = {Area} /\ ~m[Area].readOnly /\ Len(m[Area].data) = AreaSize
  BY <1>1, <1>2, Zenon DEF SameAreas, MemOK, IsArea
<1>4. m[Area].data = Overwrite(mem[Area].data, start, d)
  <2>1. mem[Area] \in Region
    BY <1>1, Zenon DEF IsMemory
  <2>2. m[Area] = [mem[Area] EXCEPT !.data = Overwrite(mem[Area].data, start, d)]
    BY <1>0, <1>1
  <2> QED  BY <2>1, <2>2, Zenon DEF Region
<1>5. Len(mem[Area].data) = AreaSize /\ AreaSize \in Nat /\ Len(d) \in Nat
  BY Bounds, SeqLength DEF MemOK, IsArea
<1>6. ASSUME NEW a \in Addresses
      PROVE  m[Area].data[a + 1] = IF a - start \in 0..Len(d) - 1 THEN d[a - start + 1] ELSE ByteAt(a)
  <2>1. a + 1 \in 1..AreaSize /\ a \in Nat
    BY <1>5 DEF Addresses
  <2>2. m[Area].data[a + 1] = IF a + 1 \in start + 1..start + Len(d) THEN d[(a + 1) - start] ELSE ByteAt(a)
    BY <1>4, <1>5, <2>1, Zenon DEF Overwrite, ByteAt
  <2>3. a + 1 \in start + 1..start + Len(d) <=> a - start \in 0..Len(d) - 1
    BY <1>5, <2>1
  <2>4. (a + 1) - start = a - start + 1
    BY <2>1
  <2> QED  BY <2>2, <2>3, <2>4, Zenon
<1> QED  BY <1>2, <1>3, <1>6, Zenon DEF IsArea, HasCopy, m

\* Writing or clearing a bit of a bit call leaves the rest of a byte.
LEMMA RestKept ==
  ASSUME NEW b, NEW k \in BitsWritten
  PROVE  Rest(b \cup {k}) = Rest(b) /\ Rest(b \ {k}) = Rest(b)
BY Zenon DEF Rest

\* What ServeWrite puts into written, after f was written.
Versions(f) ==
  IF f.spec.transport = "BIT" THEN written
  ELSE [a \in Addresses |-> IF a - f.spec.startBit \div 8 \in 0..f.n - 1 THEN f.callNo ELSE written[a]]

\* A write that is served: the area stays an area, every address has the rest
\* of its last whole byte, and nothing else changes when it is refused.
LEMMA ServedWrite ==
  ASSUME MemOK, CallOK, NEW f \in Request, Sent(f), f.kind = "write",
         WriteCode(mem, f.spec, f.data) = "Success", NEW m, m = WriteItem(mem, f.spec, f.data)
  PROVE  /\ IsArea(m)
         /\ \A a \in Addresses : Rest(m[Area].data[a + 1]) = Rest(Byte(a, Versions(f)[a]))
<1> DEFINE t == target(f.spec)
           s == f.spec.startBit \div 8
           byte == mem[Area].data[s + 1]
           new == IF ~t.isBit THEN f.data
                  ELSE IF 0 \in f.data[1] THEN <<byte \cup {t.bit}>>
                  ELSE <<byte \ {t.bit}>>
<1>1. f.spec \in Item /\ f.data \in Seq(Octet) /\ f.n \in Nat \ {0} /\ f.callNo \in Nat
  BY ZenonT(60) DEF Request
<1>2. /\ keyOf(f.spec.area, f.spec.db) = Area
      /\ t.start = s /\ t.bit = f.spec.startBit % 8 /\ t.size = f.spec.count
      /\ (t.isBit <=> f.spec.transport = "BIT") /\ s \in Nat /\ t.bit \in 0..7
  BY <1>1, ItemTarget
<1>3. resolve(mem, f.spec) = "Success" /\ Len(f.data) = t.size
  BY Zenon DEF WriteCode
<1>4. s + f.n <= AreaSize /\ f.spec.count = f.n
  BY <1>1, <1>3, ItemInside DEF Sent
<1>5. m = AreaWith(s, new)
  BY <1>2, Zenon DEF WriteItem, AreaWith
<1>6. \A a \in Addresses : Rest(ByteAt(a)) = Rest(Byte(a, written[a]))
  BY Zenon DEF MemOK, NoLostUpdate
<1> HIDE DEF t, s
<1>7. CASE f.spec.transport = "BYTE"
  <2>1. new = f.data
    BY <1>2, <1>7
  <2>2. m = AreaWith(s, f.data)
    BY <1>5, <2>1, Zenon
  <2>3. IsArea(m) /\ HasCopy(m, s, f.data)
    BY <1>1, <1>2, <2>2, AreaOverwritten, Zenon
  <2>4. Len(f.data) = f.n /\ \A i \in 1..f.n : f.data[i] = Byte(s + i - 1, f.callNo)
    BY <1>7, Zenon DEF Sent, s
  <2>5. ASSUME NEW a \in Addresses  PROVE Rest(m[Area].data[a + 1]) = Rest(Byte(a, Versions(f)[a]))
    <3>1. Versions(f)[a] = IF a - s \in 0..f.n - 1 THEN f.callNo ELSE written[a]
      BY <1>7 DEF Versions, s
    <3>2. CASE a - s \in 0..f.n - 1
      <4>1. a \in Int
        BY Bounds DEF Addresses
      <4>2. a - s + 1 \in 1..f.n /\ s + (a - s + 1) - 1 = a
        BY <1>1, <1>2, <3>2, <4>1
      <4>3. f.data[a - s + 1] = Byte(s + (a - s + 1) - 1, f.callNo)
        BY <2>4, <4>2, Zenon
      <4>4. m[Area].data[a + 1] = f.data[a - s + 1]
        BY <2>3, <2>4, <3>2, Zenon DEF HasCopy
      <4> QED  BY <3>1, <3>2, <4>2, <4>3, <4>4, Zenon
    <3>3. CASE a - s \notin 0..f.n - 1
      BY <1>6, <2>3, <2>4, <3>1, <3>3, Zenon DEF HasCopy
    <3> QED  BY <3>2, <3>3, Zenon
  <2> QED  BY <2>3, <2>5, Zenon
<1>8. CASE f.spec.transport = "BIT"
  <2>1. f.n = 1 /\ t.bit \in BitsWritten
    BY <1>2, <1>8, Zenon DEF Sent
  <2>2. s \in Addresses
    BY <1>2, <1>4, <2>1, Bounds DEF Addresses
  <2>3. byte = ByteAt(s) /\ byte \in Octet
    BY <2>2, AreaBytes, Zenon DEF ByteAt
  <2>4. PICK c : new = <<c>> /\ c \in {byte \cup {t.bit}, byte \ {t.bit}}
    BY <1>2, <1>8, Zenon
  <2>5. c \in Octet /\ Rest(c) = Rest(byte)
    <3>1. Rest(byte \cup {t.bit}) = Rest(byte) /\ Rest(byte \ {t.bit}) = Rest(byte)
      BY <2>1, RestKept, ZenonT(60)
    <3>2. byte \cup {t.bit} \in Octet /\ byte \ {t.bit} \in Octet
      BY <1>2, <2>3, Zenon DEF Octet
    <3> HIDE DEF byte
    <3> QED  BY <2>4, <3>1, <3>2, Zenon
  <2>6. <<c>> \in Seq(Octet) /\ Len(<<c>>) = 1 /\ <<c>>[1] = c
    BY <2>5
  <2>7. m = AreaWith(s, <<c>>)
    BY <1>5, <2>4, Zenon
  <2>8. IsArea(m) /\ HasCopy(m, s, <<c>>)
    BY <1>2, <2>6, <2>7, AreaOverwritten, Zenon
  <2>9. ASSUME NEW a \in Addresses  PROVE Rest(m[Area].data[a + 1]) = Rest(Byte(a, Versions(f)[a]))
    <3>1. Versions(f)[a] = written[a]
      BY <1>8, Zenon DEF Versions
    <3>2. CASE a = s
      <4>1. a - s \in 0..Len(<<c>>) - 1 /\ a - s + 1 = 1
        BY <1>2, <2>6, <3>2
      <4>2. m[Area].data[a + 1] = c
        BY <2>6, <2>8, <4>1, Zenon DEF HasCopy
      <4> QED  BY <1>6, <2>3, <2>5, <3>1, <3>2, <4>2, Zenon
    <3>3. CASE a # s
      <4>1. a - s \notin 0..Len(<<c>>) - 1
        BY <1>2, <2>6, <3>3, Bounds, SMTT(30) DEF Addresses
      <4> QED  BY <1>6, <2>8, <3>1, <4>1, Zenon DEF HasCopy
    <3> QED  BY <3>2, <3>3, Zenon
  <2> QED  BY <2>8, <2>9, Zenon
<1> QED  BY <1>1, <1>7, <1>8 DEF Item

-----------------------------------------------------------------------------
(* The peer's answers *)

\* The bytes of a span of the area.
LEMMA SpanBytes ==
  ASSUME MemOK, NEW x \in Nat, NEW n \in Nat, x + n <= AreaSize
  PROVE  /\ Bytes(mem, Area, x, n) \in Seq(Octet) /\ Len(Bytes(mem, Area, x, n)) = n
         /\ \A i \in 1..n : Bytes(mem, Area, x, n)[i] = mem[Area].data[x + i]
<1>1. IsMemory(mem) /\ Area \in DOMAIN mem /\ x + n <= Len(mem[Area].data)
  BY AreaBytes, Zenon DEF MemOK, IsArea
<1> QED  BY ONLY x \in Nat, n \in Nat, <1>1, BytesInside

\* What an item of a request reads: the bytes of its span, or its bit.
LEMMA ItemRead ==
  ASSUME MemOK, NEW s \in Item, s.transport = "BIT" => s.count = 1, NEW it, it = ReadItem(mem, s)
  PROVE  /\ it.data \in Seq(Octet)
         /\ it.code # "Success" => it.data = <<>>
         /\ it.code = "Success" =>
              /\ Len(it.data) = s.count
              /\ s.transport = "BYTE" =>
                   \A i \in 1..s.count :
                     /\ s.startBit \div 8 + i - 1 \in Addresses
                     /\ it.data[i] = ByteAt(s.startBit \div 8 + i - 1)
              /\ s.transport = "BIT" =>
                   /\ s.startBit \div 8 \in Addresses
                   /\ 0 \in it.data[1] <=> s.startBit % 8 \in ByteAt(s.startBit \div 8)
<1> DEFINE t == target(s)
           x == s.startBit \div 8
           src == Bytes(mem, Area, x, s.count)
<1>1. /\ s.syntax = "S7ANY" /\ keyOf(s.area, s.db) = Area
      /\ t.start = x /\ t.bit = s.startBit % 8 /\ t.size = s.count
      /\ (t.isBit <=> s.transport = "BIT") /\ x \in Nat /\ t.bit \in 0..7
  BY ItemTarget
<1>2. s.transport \in {"BYTE", "BIT"} /\ s.count \in Nat
  BY DEF Item
<1>3. it = IF resolve(mem, s) = "Success" THEN readResult(mem, s)
           ELSE [code |-> resolve(mem, s), data |-> <<>>]
  BY <1>1, Zenon DEF ReadItem
<1>4. CASE resolve(mem, s) # "Success"
  <2>1. it.code = resolve(mem, s) /\ it.data = <<>>
    BY <1>3, <1>4
  <2>2. <<>> \in Seq(Octet)
    BY SeqEmpty, ZenonT(60)
  <2> QED  BY <1>4, <2>1, <2>2, Zenon
<1>5. CASE resolve(mem, s) = "Success"
  <2>1. s.count # 0 /\ x + s.count <= AreaSize
    BY <1>5, ItemInside
  <2>2. Len(mem[Area].data) = AreaSize /\ IsMemory(mem) /\ Area \in DOMAIN mem
    BY AreaBytes, Zenon DEF MemOK, IsArea
  <2> HIDE DEF t, x
  <2>3. /\ src \in Seq(Octet) /\ Len(src) = s.count
        /\ \A i \in 1..s.count : src[i] = mem[Area].data[x + i]
    BY <1>1, <1>2, <2>1, SpanBytes, Zenon
  <2> HIDE DEF src
  <2>4. ASSUME NEW i \in 1..s.count
        PROVE  x + i - 1 \in Addresses /\ src[i] = ByteAt(x + i - 1)
    <3>1. x + i - 1 \in Addresses /\ (x + i - 1) + 1 = x + i
      BY <1>1, <1>2, <2>1, Bounds DEF Addresses
    <3> QED  BY <2>3, <3>1, Zenon DEF ByteAt
  <2>5. it.code = "Success" /\ it.data = IF t.isBit THEN <<IF t.bit \in src[1] THEN {0} ELSE {}>> ELSE src
    <3> DEFINE d == IF t.isBit THEN <<IF t.bit \in src[1] THEN {0} ELSE {}>> ELSE src
    <3>1. it = readResult(mem, s)
      BY <1>3, <1>5, Zenon
    <3>2. readResult(mem, s) = [code |-> "Success", data |-> d]
      BY <1>1, Zenon DEF readResult, t, src
    <3> HIDE DEF d
    <3>3. it.code = "Success" /\ it.data = d
      BY <3>1, <3>2
    <3> QED  BY <3>3, Zenon DEF d
  <2>6. CASE s.transport = "BYTE"
    <3>1. it.data = src
      BY <1>1, <2>5, <2>6, ZenonT(60)
    <3> QED  BY <2>3, <2>4, <2>5, <2>6, <3>1, Zenon DEF x
  <2>7. CASE s.transport = "BIT"
    <3>1. s.count = 1 /\ 1 \in 1..s.count /\ x + 1 - 1 = x
      BY <1>1, <2>7
    <3>2. x \in Addresses /\ src[1] = ByteAt(x)
      BY <2>4, <3>1, Zenon
    <3>3. it.data = <<IF t.bit \in src[1] THEN {0} ELSE {}>>
      BY <1>1, <2>5, <2>7, Zenon
    <3> DEFINE v == IF t.bit \in src[1] THEN {0} ELSE {}
    <3>4. v \in Octet /\ (0 \in v <=> t.bit \in src[1])
      <4>1. 0 \in 0..7
        OBVIOUS
      <4>2. {0} \in Octet /\ {} \in Octet
        BY <4>1, Zenon DEF Octet
      <4>3. CASE t.bit \in src[1]
        BY <4>2, <4>3, Zenon
      <4>4. CASE t.bit \notin src[1]
        BY <4>2, <4>4, Zenon
      <4> QED  BY <4>3, <4>4, Zenon
    <3> HIDE DEF v
    <3>5. <<v>> \in Seq(Octet) /\ Len(<<v>>) = 1 /\ <<v>>[1] = v
      BY <3>4
    <3>6. it.data = <<v>>
      BY <3>3, Zenon DEF v
    <3> QED  BY <1>1, <2>5, <2>7, <3>1, <3>2, <3>4, <3>5, <3>6, Zenon DEF x
  <2> QED  BY <1>2, <2>6, <2>7, ZenonT(60)
<1> QED  BY <1>4, <1>5, Zenon

\* The item of an answer to the read f: the server's, or one whose length is
\* not the one asked for.
IsAnswerTo(f, item) ==
  \/ item = ReadItem(mem, f.spec)
  \/ item.data \in Seq(Octet) /\ Len(item.data) # f.n

\* Every answer that has an item has one such.
LEMMA AnswerItems ==
  ASSUME MemOK, NEW f \in Request, Sent(f), NEW k, NEW a \in ReadAnswers(f, k), a.header = "ok", a.items # <<>>
  PROVE  Len(a.items) = 1 /\ IsAnswerTo(f, a.items[1])
<1> DEFINE it == ReadItem(mem, f.spec)
           results == [i \in 1..Len(<<f.spec>>) |-> ReadItem(mem, <<f.spec>>[i])]
           job == ReadJob(mem, <<f.spec>>, pduSize[k])
           Answer(data) == Ok(<<[code |-> "Success", data |-> data]>>)
<1>1. Len(results) = 1 /\ results[1] = it
  OBVIOUS
<1>2. job = Refused("8500") \/ job = Ok(results)
  BY Zenon DEF ReadJob
<1>3. ASSUME NEW y PROVE Ok(y).header = "ok" /\ Ok(y).items = y
  BY Zenon DEF Ok
<1>4. ASSUME NEW y PROVE Refused(y).header = y /\ Refused(y).items = <<>>
  BY Zenon DEF Refused
<1>5. f.spec \in Item /\ f.spec.count = f.n /\ f.n \in Nat \ {0}
  BY DEF Request, Sent
<1>6. f.spec.transport = "BIT" => f.spec.count = 1
  BY Zenon DEF Sent
<1> HIDE DEF it, results, job
<1>7. /\ it.data \in Seq(Octet) /\ (it.code # "Success" => it.data = <<>>)
      /\ it.code = "Success" => Len(it.data) = f.n
  BY <1>5, <1>6, ItemRead, Zenon DEF it
<1>8. job.header = "ok" => job = Ok(results) /\ job.items = results
  BY <1>2, <1>3, <1>4
<1>9. \/ a = job
      \/ a \in {Ok(<<>>), Refused("unreadable")}
      \/ /\ job.header = "ok" /\ job.items[1].data # <<>>
         /\ \/ \E n \in 0..Len(job.items[1].data) - 1 : a = Answer(SubSeq(job.items[1].data, 1, n))
            \/ a = Answer(job.items[1].data \o job.items[1].data)
  BY Zenon DEF ReadAnswers, job
<1>10. CASE a = job
  BY <1>1, <1>8, <1>10, Zenon DEF IsAnswerTo, it
<1>11. CASE a \in {Ok(<<>>), Refused("unreadable")}
  BY <1>3, <1>4, <1>11
<1>12. ASSUME NEW d \in Seq(Octet), Len(d) # f.n, a = Answer(d)
       PROVE  Len(a.items) = 1 /\ IsAnswerTo(f, a.items[1])
  <2>1. a.items = <<[code |-> "Success", data |-> d]>>
    BY <1>3, <1>12, Zenon
  <2>2. Len(a.items) = 1 /\ a.items[1].data = d
    BY <2>1
  <2> QED  BY <1>12, <2>2, Zenon DEF IsAnswerTo
<1>13. CASE /\ job.header = "ok" /\ job.items[1].data # <<>>
            /\ \/ \E n \in 0..Len(job.items[1].data) - 1 : a = Answer(SubSeq(job.items[1].data, 1, n))
               \/ a = Answer(job.items[1].data \o job.items[1].data)
  <2> DEFINE d == it.data
  <2>1. job.items[1].data = d
    BY <1>1, <1>8, <1>13, Zenon
  <2>2. d \in Seq(Octet) /\ Len(d) = f.n
    BY <1>7, <1>13, <2>1, Zenon
  <2> HIDE DEF d
  <2>3. CASE \E n \in 0..Len(d) - 1 : a = Answer(SubSeq(d, 1, n))
    <3>1. PICK n \in 0..Len(d) - 1 : a = Answer(SubSeq(d, 1, n))
      BY <2>3
    <3>2. SubSeq(d, 1, n) \in Seq(Octet) /\ Len(SubSeq(d, 1, n)) # f.n
      BY <1>5, <2>2
    <3> QED  BY <1>12, <3>1, <3>2, Zenon
  <2>4. CASE a = Answer(d \o d)
    <3>1. d \o d \in Seq(Octet) /\ Len(d \o d) # f.n
      BY <1>5, <2>2
    <3> QED  BY <1>12, <2>4, <3>1, Zenon
  <2> QED  BY <1>13, <2>1, <2>3, <2>4, Zenon
<1> QED  BY <1>9, <1>10, <1>11, <1>13, Zenon

\* The answer to the present chunk, or to the bit call.
LEMMA ReadAnswered ==
  ASSUME MemOK, CallOK, pc = "wait", NEW f \in Sound, NEW k, NEW a \in ReadAnswers(f, k),
         f.kind = "read", f.callNo = callNo, f.off = off
  PROVE  (call.kind = "read" => GoodRead(a)) /\ (call.kind = "readBit" => GoodBit(a))
<1>1. f \in Request /\ Sent(f) /\ Own(f)
  BY Zenon DEF Sound
<1>2. f.spec \in Item /\ f.spec.count = f.n /\ f.n \in Nat \ {0} /\ f.off \in Nat
  BY <1>1, ZenonT(60) DEF Request, Sent
<1>3. f.n = chunk
  BY <1>1, <1>2 DEF Own
<1>4. f.spec.transport = "BIT" => f.spec.count = 1
  BY <1>1, Zenon DEF Sent
<1> DEFINE it == ReadItem(mem, f.spec)
           x == f.spec.startBit \div 8
<1>5. x = call.start + off /\ f.spec.transport = (IF IsBit(call) THEN "BIT" ELSE "BYTE")
  BY <1>1, Zenon DEF Own
<1>6. \A y \in Addresses : ByteAt(y) \in held[y]
  BY Zenon DEF MemOK
<1>7. /\ it.data \in Seq(Octet)
      /\ it.code = "Success" =>
           /\ f.spec.transport = "BYTE" =>
                \A i \in 1..f.n : x + i - 1 \in Addresses /\ it.data[i] = ByteAt(x + i - 1)
           /\ f.spec.transport = "BIT" =>
                x \in Addresses /\ (0 \in it.data[1] <=> f.spec.startBit % 8 \in ByteAt(x))
  BY <1>2, <1>4, ItemRead, Zenon
<1> HIDE DEF it, x
<1>8. CASE call.kind = "read"
  <2> SUFFICES ASSUME a.header = "ok", a.items # <<>>, a.items[1].code = "Success",
                      ~(Len(a.items[1].data) > chunk)
               PROVE  /\ a.items[1].data \in Seq(Octet)
                      /\ Len(a.items[1].data) = chunk =>
                           \A i \in 1..chunk : HeldAt(call.start + off + i - 1, a.items[1].data[i])
    BY <1>8, Zenon DEF GoodRead
  <2>1. IsAnswerTo(f, a.items[1])
    BY <1>1, AnswerItems, Zenon
  <2>2. f.spec.transport = "BYTE"
    BY <1>5, <1>8 DEF IsBit
  <2>3. CASE a.items[1] = it
    <3>1. \A i \in 1..chunk : x + i - 1 \in Addresses /\ it.data[i] \in held[x + i - 1]
      BY <1>3, <1>6, <1>7, <2>2, <2>3, Zenon
    <3> QED  BY <1>5, <1>7, <2>3, <3>1, Zenon DEF HeldAt
  <2>4. CASE a.items[1].data \in Seq(Octet) /\ Len(a.items[1].data) # f.n
    BY <1>3, <2>4, Zenon
  <2> QED  BY <2>1, <2>3, <2>4, Zenon DEF IsAnswerTo, it
<1>9. CASE call.kind = "readBit"
  <2> SUFFICES ASSUME a.header = "ok", Len(a.items) = 1, a.items[1].code = "Success",
                      Len(a.items[1].data) = 1
               PROVE  /\ call.start \in Addresses
                      /\ \E b \in held[call.start] : call.bit \in b <=> 0 \in a.items[1].data[1]
    BY <1>9, Zenon DEF GoodBit
  <2>0. a.items # <<>>
    OBVIOUS
  <2>1. IsAnswerTo(f, a.items[1])
    BY <1>1, <2>0, AnswerItems, Zenon
  <2>2. IsBit(call)
    BY <1>9, Zenon DEF IsBit
  <2>3. f.spec.transport = "BIT" /\ f.n = 1 /\ f.spec.startBit % 8 = call.bit
    BY <1>1, <1>5, <2>2, Zenon DEF Sent, Own
  <2>4. a.items[1] = it
    BY <2>1, <2>3, Zenon DEF IsAnswerTo, it
  <2>5. x = call.start
    <3>1. off = 0 /\ call \in Calls
      BY <2>2, Zenon DEF CallOK
    <3>2. call.start \in Int
      BY <3>1, CallTypes
    <3> QED  BY <1>5, <3>1, <3>2
  <2>6. x \in Addresses /\ (0 \in it.data[1] <=> call.bit \in ByteAt(x))
    BY <1>7, <2>3, <2>4, Zenon
  <2> QED  BY <1>6, <2>4, <2>5, <2>6, Zenon
<1> QED  BY <1>8, <1>9, Zenon

\* What the peer does with the write f: it writes all of it or nothing, and
\* says so only when it did.
LEMMA WriteAnswered ==
  ASSUME NEW f, NEW w \in WriteAnswers(f)
  PROVE  /\ w.wrote => WriteCode(mem, f.spec, f.data) = "Success" /\ w.mem = WriteItem(mem, f.spec, f.data)
         /\ ~w.wrote => w.mem = mem
         /\ Written(w.answer) => w.wrote
<1> DEFINE m == AfterWrites(mem, <<f.spec>>, <<f.data>>, 1)
           code == WriteCode(mem, f.spec, f.data)
           job == WriteJob(mem, <<f.spec>>, <<f.data>>)
<1>1. AfterWrites(mem, <<f.spec>>, <<f.data>>, 0) = mem
  BY AfterNoWrites
<1>2. m = WriteItem(mem, f.spec, f.data)
  <2>1. 0 \in Nat /\ 0 + 1 = 1 /\ <<f.spec>>[1] = f.spec /\ <<f.data>>[1] = f.data
    OBVIOUS
  <2>2. AfterWrites(mem, <<f.spec>>, <<f.data>>, 0 + 1) =
          WriteItem(AfterWrites(mem, <<f.spec>>, <<f.data>>, 0), <<f.spec>>[0 + 1], <<f.data>>[0 + 1])
    BY <2>1, AfterWritesNext, Zenon
  <2> QED  BY <1>1, <2>1, <2>2, Zenon
<1>3. code # "Success" => m = mem
  BY <1>2, Zenon DEF WriteItem
<1>4. Written(job) => code = "Success"
  <2> DEFINE items == [i \in 1..Len(<<f.spec>>) |->
                 [code |-> WriteCode(AfterWrites(mem, <<f.spec>>, <<f.data>>, i - 1), <<f.spec>>[i], <<f.data>>[i]),
                  data |-> <<>>]]
  <2>1. job = [header |-> "ok", items |-> items]
    BY Zenon DEF WriteJob, Ok
  <2>2. 1 \in 1..Len(<<f.spec>>) /\ 1 - 1 = 0 /\ <<f.spec>>[1] = f.spec /\ <<f.data>>[1] = f.data
    OBVIOUS
  <2>3. items[1].code = code
    BY <1>1, <2>2, Zenon
  <2> HIDE DEF items
  <2>4. job.items = items
    BY <2>1
  <2> HIDE DEF job, code
  <2> QED  BY <2>3, <2>4, Zenon DEF Written
<1>5. ASSUME NEW e, e # "ok" PROVE ~Written(Refused(e))
  <2>1. Refused(e).header = e
    BY Zenon DEF Refused
  <2> QED  BY <1>5, <2>1, Zenon DEF Written
<1> HIDE DEF m, code, job
<1>6. \/ w = [mem |-> m, wrote |-> code = "Success", answer |-> job]
      \/ w = [mem |-> mem, wrote |-> FALSE, answer |-> Refused("8104")]
      \/ w = [mem |-> m, wrote |-> code = "Success", answer |-> Refused("unreadable")]
  BY Zenon DEF WriteAnswers, m, code, job
<1>7. ~Written(Refused("8104")) /\ ~Written(Refused("unreadable"))
  BY <1>5
<1> DEFINE wrote == code = "Success"
<1>8. wrote <=> code = "Success"
  OBVIOUS
<1> HIDE DEF wrote
<1>9. CASE w = [mem |-> m, wrote |-> wrote, answer |-> job]
  <2>1. w.mem = m /\ w.wrote = wrote /\ w.answer = job
    BY <1>9, Zenon
  <2> QED  BY <1>2, <1>3, <1>4, <1>8, <2>1, Zenon DEF code
<1>10. CASE w = [mem |-> mem, wrote |-> FALSE, answer |-> Refused("8104")]
  <2>1. w.mem = mem /\ w.wrote = FALSE /\ w.answer = Refused("8104")
    BY <1>10, Zenon
  <2> QED  BY <1>7, <2>1, Zenon
<1>11. CASE w = [mem |-> m, wrote |-> wrote, answer |-> Refused("unreadable")]
  <2>1. w.mem = m /\ w.wrote = wrote /\ w.answer = Refused("unreadable")
    BY <1>11, Zenon
  <2> QED  BY <1>2, <1>3, <1>7, <1>8, <2>1, Zenon DEF code
<1> QED  BY <1>6, <1>9, <1>10, <1>11, Zenon DEF wrote

-----------------------------------------------------------------------------
(* What steps of one kind have in common *)

\* A step of the connection or the peer that leaves the call alone.
CallStays == UNCHANGED <<pc, call, callNo, off, chunk, got, res>>

\* Requests stay sound while the call stays where it is.
LEMMA SoundStays ==
  ASSUME CallStays
  PROVE  Sound' = Sound
BY Zenon DEF CallStays, Sound, Sent, Own

\* What the addresses held is not forgotten.
HeldGrows == \A a \in Addresses : held[a] \subseteq held'[a]

\* More that was held makes no answer and no result wrong.
LEMMA GrowthKeeps ==
  ASSUME CallStays, HeldGrows
  PROVE  /\ \A r : GoodRead(r) => GoodRead(r)'
         /\ \A r : GoodBit(r) => GoodBit(r)'
         /\ GotOK => GotOK'
         /\ ResultOK => ResultOK'
<1>1. \A a, b : HeldAt(a, b) => HeldAt(a, b)'
  BY Zenon DEF HeldAt, HeldGrows
<1>2. UNCHANGED <<pc, call, off, chunk, got, res>>
  BY Zenon DEF CallStays
<1>3. ASSUME NEW r, GoodRead(r) PROVE GoodRead(r)'
  BY <1>1, <1>2, <1>3, Zenon DEF GoodRead
<1>4. ASSUME NEW r, GoodBit(r) PROVE GoodBit(r)'
  BY <1>2, <1>4, Zenon DEF GoodBit, HeldGrows
<1>5. ASSUME GotOK PROVE GotOK'
  BY <1>1, <1>2, <1>5, Zenon DEF GotOK
<1>6. ASSUME ResultOK PROVE ResultOK'
  BY <1>1, <1>2, <1>6, Zenon DEF ResultOK, HeldGrows
<1> QED  BY <1>3, <1>4, <1>5, <1>6, Zenon

\* The call returns with an outcome other than success, or with one its result
\* justifies.
Justified ==
  /\ call.kind = "readBit" =>
       /\ call.start \in Addresses
       /\ \E b \in held[call.start] : call.bit \in b <=> got' = <<{0}>>
  /\ call.kind = "read" =>
       Len(got') = call.size /\ \A i \in 1..Len(got') : HeldAt(call.start + i - 1, got'[i])
  /\ ~Reads(call) => applied = 0..call.size - 1

\* The call returns.
LEMMA EndKeeps ==
  ASSUME IInv, UNCHANGED <<call, callNo, off, chunk, connNo, pduSize, flight, memVars, ctxDone>>,
         pc' = "idle", res' \in Outcomes, reply' = NoReply,
         link' \in {"none", "up", "stale", "dead"}, connNo = 0 => link' = "none",
         res' = "success" => Justified
  PROVE  IInv'
<1>0. UNCHANGED <<mem, others, held, applied, written>>
  BY Zenon DEF memVars
<1>1. Sound \subseteq Sound'
  BY Zenon DEF Sound, Sent, Own
<1>2. SessionOK'
  <2>1. flight \in [1..MaxConns -> Seq(Sound')]
    BY <1>1, WiderFlight, Zenon DEF IInv, SessionOK
  <2> QED  BY <2>1, Zenon DEF IInv, SessionOK
<1>3. MemOK'
  BY <1>0, Zenon DEF IInv, MemOK, NoLostUpdate, ByteAt
<1>4. CallOK'
  <2>1. pc' \in {"idle", "chunk", "wait"} /\ pc' # "wait"
    BY Zenon
  <2> QED  BY <2>1, Zenon DEF IInv, CallOK
<1>5. ReplyOK' /\ GotOK'
  BY Zenon DEF ReplyOK, GotOK
<1>6. AppliedOK'
  BY <1>0, Zenon DEF IInv, AppliedOK, Justified
<1>7. ResultOK'
  BY <1>0, Zenon DEF ResultOK, Justified, HeldAt
<1> QED  BY <1>2, <1>3, <1>4, <1>5, <1>6, <1>7, Zenon DEF IInv

-----------------------------------------------------------------------------
(* The steps *)

\* The new client, not connected, and an area that others filled.
LEMMA InitIInv == Init => IInv
<1> SUFFICES ASSUME Init PROVE IInv
  OBVIOUS
<1> DEFINE d == [i \in 1..AreaSize |-> Byte(i - 1, 0)]
<1>1. d \in Seq(Octet) /\ Len(d) = AreaSize
  <2>1. ASSUME NEW i \in 1..AreaSize PROVE Byte(i - 1, 0) \in Octet
    <3>1. i - 1 \in 0..AreaSize - 1 /\ 0 \in 0..MaxCalls + MaxOthers
      BY Bounds
    <3> QED  BY <3>1, ByteAssumption, Zenon
  <2>2. d \in [1..AreaSize -> Octet]
    BY <2>1, Zenon
  <2> HIDE DEF d
  <2> QED  BY <2>2, Bounds
<1>2. IsArea(mem) /\ \A a \in Addresses : ByteAt(a) = Byte(a, 0)
  <2> DEFINE r == [data |-> d, readOnly |-> FALSE]
  <2>1. mem = [k \in {Area} |-> r]
    BY Zenon DEF Init
  <2>2. ASSUME NEW a \in Addresses PROVE d[a + 1] = Byte(a, 0)
    <3>1. a + 1 \in 1..AreaSize /\ (a + 1) - 1 = a
      BY Bounds DEF Addresses
    <3> QED  BY <3>1, Zenon
  <2> HIDE DEF d
  <2>3. r \in Region /\ r.data = d /\ r.readOnly = FALSE
    BY <1>1 DEF Region
  <2> HIDE DEF r
  <2>4. Area \in Areas \X Nat
    BY DEF Area, Areas
  <2>5. DOMAIN mem = {Area} /\ mem[Area] = r
    BY <2>1, Zenon
  <2>6. IsMemory(mem)
    BY <2>3, <2>4, <2>5, Zenon DEF IsMemory
  <2> QED  BY <1>1, <2>2, <2>3, <2>5, <2>6, Zenon DEF IsArea, ByteAt
<1>3. SessionOK
  <2>1. <<>> \in Seq(Sound) /\ connNo \in 0..MaxConns
    BY SeqEmpty, Bounds DEF Init
  <2>2. flight \in [1..MaxConns -> Seq(Sound)] /\ pduSize \in [1..MaxConns -> PDUSizes \cup {0}]
    BY <2>1, Zenon DEF Init
  <2> QED  BY <2>1, <2>2, Zenon DEF Init, SessionOK
<1>4. MemOK
  <2>1. 0 \in 0..MaxCalls + MaxOthers /\ 0 \in 0..MaxOthers
    BY Bounds
  <2>2. written \in [Addresses -> 0..MaxCalls + MaxOthers] /\ \A a \in Addresses : written[a] = 0
    BY <2>1, Zenon DEF Init
  <2>3. DOMAIN held = Addresses /\ \A a \in Addresses : held[a] = {}
    BY Zenon DEF Init
  <2> QED  BY <1>2, <2>1, <2>2, <2>3, Zenon DEF Init, MemOK, NoLostUpdate
<1>5. NoCall.kind = "none" /\ NoCall.size = 0
  BY DEF NoCall
<1>6. CallOK
  <2>1. 0 \in 0..MaxCalls /\ 0 \in 0..0 /\ 0 \in Nat
    BY Bounds
  <2>2. /\ call = NoCall /\ callNo = 0 /\ off = 0 /\ chunk = 0 /\ pc = "idle" /\ res = "none" /\ ctxDone = FALSE
    BY Zenon DEF Init
  <2>3. off \in 0..(IF call.size > 0 THEN call.size ELSE 0)
    BY <1>5, <2>2
  <2> QED  BY <1>5, <2>1, <2>2, <2>3, Zenon DEF CallOK, IsBit, Outcomes
<1>7. ReplyOK /\ GotOK /\ ResultOK
  BY Zenon DEF Init, ReplyOK, GotOK, ResultOK
<1>8. AppliedOK
  <2>1. 0..0 - 1 = {}
    OBVIOUS
  <2> QED  BY <2>1, Zenon DEF Init, AppliedOK
<1> QED  BY <1>3, <1>4, <1>6, <1>7, <1>8, Zenon DEF IInv

\* Steps of the connection alone, and stuttering.
LEMMA ConnectionKeeps ==
  ASSUME IInv, UNCHANGED <<reply, memVars, callVars>>, SessionOK', ctxDone' \in BOOLEAN
  PROVE  IInv'
<1>1. UNCHANGED <<reply, mem, others, held, applied, written, pc, call, callNo, off, chunk, got, res>>
  BY Zenon DEF memVars, callVars
<1>2. MemOK'
  BY <1>1, Zenon DEF IInv, MemOK, NoLostUpdate, ByteAt
<1>3. CallOK'
  BY <1>1, Zenon DEF IInv, CallOK
<1>4. CallStays /\ HeldGrows
  BY <1>1, Zenon DEF CallStays, HeldGrows
<1>5. GotOK' /\ ResultOK'
  BY <1>4, GrowthKeeps, Zenon DEF IInv
<1>6. ReplyOK'
  BY <1>1, Zenon DEF IInv, ReplyOK, GoodRead, GoodBit, HeldAt
<1>7. AppliedOK'
  BY <1>1, Zenon DEF IInv, AppliedOK
<1> QED  BY <1>2, <1>3, <1>5, <1>6, <1>7, Zenon DEF IInv

\* Connect, Close, a connection that breaks, a context that ends.
LEMMA ConnectionSteps ==
  ASSUME IInv,
         \/ Connect \/ Close \/ CtxEnds \/ UNCHANGED vars
         \/ \E k \in 1..MaxConns : ConnectionLost(k)
  PROVE  IInv'
<1>1. UNCHANGED <<reply, memVars, callVars>> /\ ctxDone' \in {ctxDone, TRUE}
  BY Zenon DEF Connect, Close, CtxEnds, ConnectionLost, vars, netVars
<1>2. CallStays
  BY <1>1, Zenon DEF callVars, CallStays
<1>3. Sound' = Sound
  BY <1>2, SoundStays
<1>4. ctxDone' \in BOOLEAN
  BY <1>1, Zenon DEF IInv, CallOK
<1>5. SessionOK
  BY Zenon DEF IInv
<1>6. CASE CtxEnds \/ UNCHANGED vars
  <2>1. UNCHANGED <<link, connNo, pduSize, flight, pc>>
    BY <1>2, <1>6, Zenon DEF CtxEnds, vars, netVars, CallStays
  <2>2. SessionOK'
    BY <1>3, <1>5, <2>1, Zenon DEF SessionOK
  <2> QED  BY <1>1, <1>4, <2>2, ConnectionKeeps, Zenon
<1>7. CASE Close
  <2>1. SessionOK'
    BY <1>2, <1>3, <1>5, <1>7, Zenon DEF Close, SessionOK, CallStays
  <2> QED  BY <1>1, <1>4, <2>1, ConnectionKeeps, Zenon
<1>8. CASE Connect
  <2>1. connNo < MaxConns /\ connNo' = connNo + 1 /\ link' = "up" /\ flight' = flight
    BY <1>8, Zenon DEF Connect
  <2>2. PICK size \in PDUSizes : pduSize' = [pduSize EXCEPT ![connNo + 1] = size]
    BY <1>8, Zenon DEF Connect
  <2>3. connNo' \in 0..MaxConns /\ connNo' # 0
    BY <1>5, <2>1, Bounds DEF SessionOK
  <2>4. pduSize' \in [1..MaxConns -> PDUSizes \cup {0}]
    BY <1>5, <2>2, Zenon DEF SessionOK
  <2>5. SessionOK'
    BY <1>3, <1>5, <2>1, <2>3, <2>4, Zenon DEF SessionOK
  <2> QED  BY <1>1, <1>4, <2>5, ConnectionKeeps, Zenon
<1>9. CASE \E k \in 1..MaxConns : ConnectionLost(k)
  <2>1. PICK k \in 1..MaxConns : ConnectionLost(k)
    BY <1>9
  <2>2. /\ k \in 1..connNo /\ flight' = [flight EXCEPT ![k] = <<>>]
        /\ link' = (IF k = connNo /\ link # "none" THEN "dead" ELSE link)
        /\ UNCHANGED <<connNo, pduSize, pc>>
    BY <1>2, <2>1, Zenon DEF ConnectionLost, CallStays
  <2>3. flight' \in [1..MaxConns -> Seq(Sound)]
    <3>1. <<>> \in Seq(Sound)
      BY SeqEmpty
    <3> QED  BY <1>5, <2>2, <3>1, Zenon DEF SessionOK
  <2>4. connNo # 0
    BY <1>5, <2>2 DEF SessionOK
  <2>5. SessionOK'
    BY <1>3, <1>5, <2>2, <2>3, <2>4, Zenon DEF SessionOK
  <2> QED  BY <1>1, <1>4, <2>5, ConnectionKeeps, Zenon
<1> QED  BY <1>6, <1>7, <1>8, <1>9, Zenon

\* The memory becomes m while the call waits or rests.
LEMMA MemoryStep ==
  ASSUME IInv, CallStays, NEW m, SetMemory(m), IsArea(m), others' \in 0..MaxOthers,
         written' \in [Addresses -> 0..MaxCalls + MaxOthers],
         \A a \in Addresses : Rest(m[Area].data[a + 1]) = Rest(Byte(a, written'[a]))
  PROVE  MemOK' /\ GotOK' /\ ResultOK' /\ HeldGrows
<1>1. mem' = m /\ held' = [a \in Addresses |-> held[a] \cup {m[Area].data[a + 1]}]
  BY Zenon DEF SetMemory
<1>2. HeldGrows
  BY <1>1, Zenon DEF HeldGrows
<1>3. \A a \in Addresses : ByteAt(a)' = m[Area].data[a + 1]
  BY <1>1, Zenon DEF ByteAt
<1>4. NoLostUpdate'
  BY <1>3, Zenon DEF NoLostUpdate
<1>5. ASSUME NEW a \in Addresses, NEW b \in held'[a] PROVE WrittenFor(b, a)
  <2>1. CASE b \in held[a]
    BY <2>1, Zenon DEF IInv, MemOK
  <2>2. CASE b = m[Area].data[a + 1]
    BY <2>2, Zenon DEF WrittenFor
  <2> QED  BY <1>1, <1>5, <2>1, <2>2, Zenon
<1>6. MemOK'
  BY <1>1, <1>3, <1>4, <1>5, Zenon DEF MemOK
<1> QED  BY <1>2, <1>6, GrowthKeeps, Zenon DEF IInv

\* Others write the area.
LEMMA OtherWritesKeeps == ASSUME IInv, OtherWrites PROVE IInv'
<1> DEFINE v == MaxCalls + others + 1
           d == [i \in 1..AreaSize |-> Byte(i - 1, v)]
           m == [mem EXCEPT ![Area].data = d]
<1>1. v \in 0..MaxCalls + MaxOthers /\ others' \in 0..MaxOthers
  BY Bounds DEF OtherWrites, IInv, MemOK
<1>2. /\ SetMemory(m) /\ written' = [a \in Addresses |-> v]
      /\ UNCHANGED <<applied, netVars, callVars, ctxDone>>
  BY Zenon DEF OtherWrites
<1>3. UNCHANGED <<applied, link, connNo, pduSize, flight, reply, pc, call, callNo, off, chunk, got, res, ctxDone>>
  BY <1>2, Zenon DEF netVars, callVars
<1> HIDE DEF v
<1>4. d \in Seq(Octet) /\ Len(d) = AreaSize
  <2>1. ASSUME NEW i \in 1..AreaSize PROVE Byte(i - 1, v) \in Octet
    <3>1. i - 1 \in 0..AreaSize - 1
      BY Bounds
    <3> QED  BY <1>1, <3>1, ByteAssumption, Zenon
  <2>2. d \in [1..AreaSize -> Octet]
    BY <2>1, Zenon
  <2> HIDE DEF d
  <2> QED  BY <2>2, Bounds
<1>5. \A a \in Addresses : d[a + 1] = Byte(a, v)
  <2> TAKE a \in Addresses
  <2>1. a + 1 \in 1..AreaSize /\ (a + 1) - 1 = a
    BY Bounds DEF Addresses
  <2> QED  BY <2>1, Zenon
<1> HIDE DEF d
<1>6. IsArea(m) /\ m[Area].data = d
  <2>1. IsMemory(mem) /\ DOMAIN mem = {Area} /\ Area \in DOMAIN mem /\ ~mem[Area].readOnly
    BY AreaBytes, Zenon DEF IInv, MemOK, IsArea
  <2>2. mem[Area] \in Region
    BY <2>1, Zenon DEF IsMemory
  <2>3. m = [mem EXCEPT ![Area] = [mem[Area] EXCEPT !.data = d]]
    OBVIOUS
  <2> HIDE DEF m
  <2>4. DOMAIN m = {Area} /\ m[Area] = [mem[Area] EXCEPT !.data = d]
    BY <2>1, <2>3, Zenon
  <2>5. m[Area] \in Region /\ m[Area].data = d /\ m[Area].readOnly = mem[Area].readOnly
    BY <1>4, <2>2, <2>4, Zenon DEF Region
  <2>6. IsMemory(m)
    BY <2>1, <2>4, <2>5, Zenon DEF IsMemory
  <2> QED  BY <1>4, <2>1, <2>4, <2>5, <2>6, Zenon DEF IsArea
<1> HIDE DEF m
<1>7. written' \in [Addresses -> 0..MaxCalls + MaxOthers] /\ \A a \in Addresses : written'[a] = v
  BY <1>1, <1>2, Zenon
<1>8. \A a \in Addresses : Rest(m[Area].data[a + 1]) = Rest(Byte(a, written'[a]))
  BY <1>5, <1>6, <1>7, Zenon
<1>9. CallStays
  BY <1>3, Zenon DEF CallStays
<1>10. MemOK' /\ GotOK' /\ ResultOK' /\ HeldGrows
  BY <1>1, <1>2, <1>6, <1>7, <1>8, <1>9, MemoryStep, Zenon
<1>11. SessionOK'
  BY <1>3, <1>9, SoundStays, Zenon DEF IInv, SessionOK
<1>12. CallOK'
  BY <1>3, Zenon DEF IInv, CallOK
<1>13. ReplyOK'
  <2>1. \A r : (GoodRead(r) => GoodRead(r)') /\ (GoodBit(r) => GoodBit(r)')
    BY <1>9, <1>10, GrowthKeeps, Zenon
  <2>2. pc = "wait" /\ call.kind = "read" => GoodRead(reply)'
    BY <1>3, <2>1, Zenon DEF IInv, ReplyOK, GoodRead
  <2>3. pc = "wait" /\ call.kind = "readBit" => GoodBit(reply)'
    BY <1>3, <2>1, Zenon DEF IInv, ReplyOK, GoodBit
  <2> QED  BY <1>3, <2>2, <2>3, Zenon DEF IInv, ReplyOK
<1>14. AppliedOK'
  BY <1>3, Zenon DEF IInv, AppliedOK
<1> QED  BY <1>10, <1>11, <1>12, <1>13, <1>14, Zenon DEF IInv

\* A call is made.
LEMMA BeginKeeps == ASSUME IInv, NEW c \in Calls, Begin(c) PROVE IInv'
<1>1. /\ pc = "idle" /\ callNo < MaxCalls /\ call' = c /\ callNo' = callNo + 1
      /\ off' = 0 /\ chunk' = 0 /\ got' = <<>> /\ ctxDone' \in BOOLEAN /\ reply' = NoReply
      /\ held' = [a \in Addresses |-> {ByteAt(a)}] /\ applied' = {}
      /\ UNCHANGED <<link, connNo, pduSize, flight, mem, others, written>>
  BY Zenon DEF Begin
<1>2. /\ pc' \in {"idle", "chunk"} /\ (pc' # "idle" => Valid(c))
      /\ res' \in Outcomes /\ (pc' = "idle" => res' # "success")
  BY DEF Begin, CtxOutcomes, Outcomes
<1>3. callNo \in 0..MaxCalls /\ callNo' \in 0..MaxCalls /\ callNo \in Nat /\ callNo' # 0
  BY <1>1, Bounds DEF IInv, CallOK
<1>4. SessionOK'
  <2>1. ASSUME NEW f \in Sound PROVE f \in Sound'
    <3>1. f \in Request /\ Sent(f)
      BY Zenon DEF Sound
    <3>2. f.callNo \in 1..callNo' /\ f.callNo # callNo'
      BY <1>1, <1>3, <3>1 DEF Sent, Request
    <3> QED  BY <3>1, <3>2, Zenon DEF Sound, Sent, Own
  <2>2. Sound \subseteq Sound'
    BY <2>1, Zenon
  <2>3. flight \in [1..MaxConns -> Seq(Sound')]
    BY <2>2, WiderFlight, Zenon DEF IInv, SessionOK
  <2>4. pc' # "wait"
    BY <1>2
  <2> QED  BY <1>1, <2>3, <2>4, Zenon DEF IInv, SessionOK
<1>5. MemOK'
  <2>1. \A a \in Addresses : ByteAt(a)' = ByteAt(a) /\ held'[a] = {ByteAt(a)}
    BY <1>1, Zenon DEF ByteAt
  <2>2. \A a \in Addresses : WrittenFor(ByteAt(a), a)
    BY Zenon DEF IInv, MemOK, NoLostUpdate, WrittenFor
  <2> QED  BY <1>1, <2>1, <2>2, Zenon DEF IInv, MemOK, NoLostUpdate
<1>6. CallOK'
  <2>1. c.size \in Int
    BY CallTypes
  <2>2. 0 \in 0..(IF c.size > 0 THEN c.size ELSE 0) /\ 0 \in Nat
    BY <2>1
  <2>3. pc' \in {"idle", "chunk", "wait"} /\ pc' # "wait"
    BY <1>2
  <2> QED  BY <1>1, <1>2, <1>3, <2>2, <2>3, Zenon DEF CallOK
<1>7. pc' # "wait"
  BY <1>2
<1>8. ReplyOK' /\ ResultOK'
  BY <1>1, <1>2, <1>7, Zenon DEF ReplyOK, ResultOK
<1>9. GotOK'
  <2>1. <<>> \in Seq(Octet) /\ Len(<<>>) = 0 /\ 1..0 = {} /\ 0 <= 0
    BY SeqEmpty
  <2> QED  BY <1>1, <2>1, Zenon DEF GotOK
<1>10. AppliedOK'
  <2>1. 0..0 - 1 = {}
    OBVIOUS
  <2> QED  BY <1>1, <1>2, <2>1, Zenon DEF AppliedOK
<1> QED  BY <1>4, <1>5, <1>6, <1>8, <1>9, <1>10, Zenon DEF IInv

\* The loop ends: what it has gathered, or written, is all.
LEMMA FinishKeeps == ASSUME IInv, Finish PROVE IInv'
<1>1. /\ pc = "chunk" /\ ~IsBit(call) /\ off = call.size /\ pc' = "idle" /\ got' = got
      /\ res' = (IF call.kind = "read" THEN ClassifyReadOutcome(call.size, Len(got)) ELSE "success")
      /\ UNCHANGED <<call, callNo, off, chunk, connNo, pduSize, flight, memVars, ctxDone, link, reply>>
  BY Zenon DEF Finish, End, netVars
<1>2. /\ call \in Calls /\ Valid(call) /\ reply' = NoReply
      /\ link' \in {"none", "up", "stale", "dead"} /\ (connNo = 0 => link' = "none")
  BY <1>1 DEF IInv, CallOK, ReplyOK, SessionOK
<1>3. res' \in Outcomes
  BY <1>1 DEF Outcomes, ClassifyReadOutcome
<1>4. call.kind # "readBit" /\ (call.kind = "read" <=> Reads(call))
  BY <1>1 DEF IsBit, Reads
<1>5. ~Reads(call) => applied = 0..call.size - 1
  BY <1>1, Zenon DEF IInv, AppliedOK
<1>6. ASSUME call.kind = "read", res' = "success"
      PROVE  Len(got') = call.size /\ \A i \in 1..Len(got') : HeldAt(call.start + i - 1, got'[i])
  <2>1. /\ got \in Seq(Octet) /\ Len(got) <= off
        /\ Len(got) = off => \A i \in 1..off : HeldAt(call.start + i - 1, got[i])
    BY <1>1, <1>6, Zenon DEF IInv, GotOK
  <2>2. Len(got) \in Nat /\ call.size \in Nat
    BY <1>2, <2>1, ValidCall, SeqLength, ZenonT(60)
  <2>3. ClassifyReadOutcome(call.size, Len(got)) = "success"
    BY <1>1, <1>6, Zenon
  <2>4. ~(Len(got) < call.size)
    <3>1. CASE call.size <= 0
      BY <2>2, <3>1
    <3>2. CASE ~(call.size <= 0)
      BY <2>3, <3>2 DEF ClassifyReadOutcome
    <3> QED  BY <3>1, <3>2
  <2>5. Len(got) = off
    <3>1. Len(got) <= call.size
      BY <1>1, <2>1, Zenon
    <3>2. Len(got) = call.size
      BY <2>2, <2>4, <3>1
    <3> QED  BY <1>1, <3>2, Zenon
  <2> QED  BY <1>1, <2>1, <2>5, Zenon
<1>7. res' = "success" => Justified
  BY <1>4, <1>5, <1>6, Zenon DEF Justified
<1> QED  BY <1>1, <1>2, <1>3, <1>7, EndKeeps, Zenon

\* The call returns without success.
LEMMA FailureKeeps ==
  ASSUME IInv, UNCHANGED <<call, callNo, off, chunk, connNo, pduSize, flight, memVars, ctxDone>>,
         pc' = "idle", res' \in Outcomes \ {"success"}, reply' = NoReply,
         link' \in {"none", "up", "stale", "dead"}, connNo = 0 => link' = "none"
  PROVE  IInv'
<1>1. res' \in Outcomes /\ (res' = "success" => Justified)
  BY Zenon
<1> QED  BY <1>1, EndKeeps, Zenon

\* The context has ended, or an exchange has failed.
LEMMA CancelledKeeps == ASSUME IInv, Cancelled PROVE IInv'
<1>1. /\ pc = "chunk" /\ pc' = "idle" /\ res' \in CtxOutcomes
      /\ UNCHANGED <<call, callNo, off, chunk, connNo, pduSize, flight, memVars, ctxDone, link, reply>>
  BY Zenon DEF Cancelled, End, netVars
<1>2. /\ reply' = NoReply /\ link' \in {"none", "up", "stale", "dead"} /\ (connNo = 0 => link' = "none")
  BY <1>1 DEF IInv, ReplyOK, SessionOK
<1>3. res' \in Outcomes \ {"success"}
  BY <1>1 DEF CtxOutcomes, Outcomes
<1> QED  BY <1>1, <1>2, <1>3, FailureKeeps, Zenon

LEMMA ExchangeFailsKeeps == ASSUME IInv, ExchangeFails PROVE IInv'
<1>1. /\ pc = "wait" /\ pc' = "idle" /\ reply' = NoReply
      /\ res' \in CtxOutcomes \cup {"protocol-error"}
      /\ link' \in {"dead", "stale"}
      /\ UNCHANGED <<call, callNo, off, chunk, connNo, pduSize, flight, memVars, ctxDone>>
  BY Zenon DEF ExchangeFails, End
<1>2. res' \in Outcomes \ {"success"}
  BY <1>1 DEF CtxOutcomes, Outcomes
<1>3. connNo # 0
  BY <1>1, Zenon DEF IInv, SessionOK
<1> QED  BY <1>1, <1>2, <1>3, FailureKeeps, Zenon

\* The request of a chunk is sound once it is sent.
LEMMA ChunkRequestSound ==
  ASSUME IInv, pc = "chunk", off < call.size, ~IsBit(call),
         UNCHANGED <<call, callNo, off>>, pc' = "wait", chunk' = ChunkSize
  PROVE  ChunkRequest \in Sound'
<1> SUFFICES ASSUME NEW f, f = ChunkRequest PROVE f \in Sound'
  BY Zenon
<1> DEFINE s == call.start + off
           n == ChunkSize
           spec == [syntax |-> "S7ANY", transport |-> "BYTE", count |-> n, area |-> "DB",
                    db |-> 1, startBit |-> 8 * s]
           d == [i \in 1..n |-> Byte(call.start + off + i - 1, callNo)]
<1>1. call \in Calls /\ Valid(call) /\ callNo \in 0..MaxCalls /\ callNo # 0
  BY Zenon DEF IInv, CallOK
<1>2. call.start \in Nat /\ call.size \in Nat /\ off \in Nat /\ callNo \in Nat /\ callNo \in 1..callNo
  BY <1>1, ValidCall, Bounds, SMTT(30) DEF IInv, CallOK
<1>3. n \in Nat \ {0} /\ off + n <= call.size
  BY ChunkBounds DEF IInv
<1>4. s \in Nat /\ 8 * s \in Nat /\ (8 * s) \div 8 = s /\ (8 * s) % 8 = 0
  <2>1. s \in Nat /\ 0 \in 0..7
    BY <1>2
  <2>2. 8 * s + 0 \in Nat /\ (8 * s + 0) \div 8 = s /\ (8 * s + 0) % 8 = 0
    BY <2>1, BitAddress, Zenon
  <2> HIDE DEF s
  <2>3. 8 * s + 0 = 8 * s
    BY <2>1
  <2> QED  BY <2>1, <2>2, <2>3, Zenon
<1>5. call.kind \in {"read", "write"} /\ call.kind = (IF Reads(call) THEN "read" ELSE "write")
  BY <1>1, CallTypes DEF IsBit, Reads
<1>6. f = [kind |-> call.kind, callNo |-> callNo, off |-> off, n |-> n, spec |-> spec, data |-> d]
  BY Zenon DEF ChunkRequest
<1>7. d \in Seq(Octet) /\ Len(d) = n /\ \A i \in 1..n : d[i] = Byte(s + i - 1, callNo)
  <2>1. ASSUME NEW i \in 1..n PROVE Byte(call.start + off + i - 1, callNo) \in Octet
    <3>1. off + i - 1 \in 0..call.size - 1 /\ call.start + (off + i - 1) = call.start + off + i - 1
      BY <1>2, <1>3
    <3>2. callNo \in 0..MaxCalls + MaxOthers
      BY <1>1, Bounds
    <3>3. Byte(call.start + (off + i - 1), callNo) \in Octet
      BY <1>1, <3>1, <3>2, ByteAssumption, Zenon
    <3> QED  BY <3>1, <3>3, Zenon
  <2>2. d \in [1..n -> Octet] /\ \A i \in 1..n : d[i] = Byte(s + i - 1, callNo)
    BY <2>1, Zenon
  <2> HIDE DEF d, n
  <2> QED  BY <1>3, <2>2
<1> HIDE DEF s, n, d
<1>8. /\ spec.transport = "BYTE" /\ spec.count = n /\ spec.startBit = 8 * s /\ spec \in Item
  BY <1>3, <1>4, ZenonT(60) DEF Item
<1> HIDE DEF spec
<1>9. /\ f.kind = call.kind /\ f.callNo = callNo /\ f.off = off /\ f.n = n /\ f.spec = spec /\ f.data = d
  BY <1>6, SMTT(30)
<1>10. f \in Request
  BY <1>2, <1>3, <1>5, <1>6, <1>7, <1>8, SMTT(30) DEF Request
<1>11. Sent(f)'
  BY <1>2, <1>4, <1>7, <1>8, <1>9, ZenonT(60) DEF Sent
<1>12. Own(f)'
  BY <1>3, <1>4, <1>5, <1>8, <1>9, Zenon DEF Own, IsBit, Reads, s, n
<1> QED  BY <1>10, <1>11, <1>12, Zenon DEF Sound

\* And so is the request of a bit.
LEMMA BitRequestSound ==
  ASSUME IInv, pc = "chunk", off < call.size, IsBit(call),
         UNCHANGED <<call, callNo, off>>, pc' = "wait", chunk' = ChunkSize
  PROVE  BitRequest \in Sound'
<1> SUFFICES ASSUME NEW f, f = BitRequest PROVE f \in Sound'
  BY Zenon
<1> DEFINE x == 8 * call.start + call.bit
           spec == [syntax |-> "S7ANY", transport |-> "BIT", count |-> 1, area |-> "DB",
                    db |-> 1, startBit |-> x]
           d == IF Reads(call) THEN <<>> ELSE <<IF call.value THEN {0} ELSE {}>>
           kind == IF Reads(call) THEN "read" ELSE "write"
<1>1. call \in Calls /\ Valid(call) /\ callNo \in 0..MaxCalls /\ callNo # 0 /\ off = 0
  BY Zenon DEF IInv, CallOK
<1>2. call.start \in Nat /\ call.bit \in 0..7 /\ call.size = 1 /\ callNo \in Nat /\ callNo \in 1..callNo
  BY <1>1, ValidCall, CallTypes, Bounds, SMTT(30)
<1>3. ChunkSize = 1
  BY ChunkBounds DEF IInv
<1>4. x \in Nat /\ x \div 8 = call.start /\ x % 8 = call.bit
  BY <1>2, BitAddress, ZenonT(60)
<1>5. kind \in {"read", "write"} /\ (kind = "write" => call.kind = "writeBit")
  BY DEF Reads, IsBit
<1>6. f = [kind |-> kind, callNo |-> callNo, off |-> 0, n |-> 1, spec |-> spec, data |-> d]
  BY Zenon DEF BitRequest
<1>7. d \in Seq(Octet)
  <2>1. {0} \in Octet /\ {} \in Octet
    BY DEF Octet
  <2>2. <<{0}>> \in Seq(Octet) /\ <<{}>> \in Seq(Octet) /\ <<>> \in Seq(Octet)
    BY <2>1
  <2> QED  BY <2>2, Zenon
<1> HIDE DEF x, d, kind
<1>8. spec.transport = "BIT" /\ spec.count = 1 /\ spec.startBit = x /\ spec \in Item
  BY <1>4, ZenonT(60) DEF Item
<1> HIDE DEF spec
<1>9. /\ f.kind = kind /\ f.callNo = callNo /\ f.off = 0 /\ f.n = 1 /\ f.spec = spec /\ f.data = d
  BY <1>6, SMTT(30)
<1>10. f \in Request
  BY <1>2, <1>5, <1>6, <1>7, <1>8, SMTT(30) DEF Request
<1>11. kind = "write" => x % 8 \in BitsWritten
  BY <1>1, <1>4, <1>5, Zenon DEF BitsWritten
<1>12. Sent(f)'
  BY <1>2, <1>8, <1>9, <1>11, ZenonT(60) DEF Sent
<1>13. x \div 8 = call.start + 0 /\ 0 + 1 <= call.size
  BY <1>2, <1>4
<1>14. Own(f)'
  BY <1>1, <1>3, <1>4, <1>8, <1>9, <1>13, Zenon DEF Own, IsBit, Reads, kind
<1> QED  BY <1>10, <1>12, <1>14, Zenon DEF Sound

\* One turn of the loop up to the answer.
LEMMA SendChunkKeeps == ASSUME IInv, SendChunk PROVE IInv'
<1>1. /\ pc = "chunk" /\ off < call.size
      /\ UNCHANGED <<call, callNo, off, link, connNo, pduSize, reply, memVars, ctxDone>>
  BY Zenon DEF SendChunk, End
<1>2. reply = NoReply /\ link \in {"none", "up", "stale", "dead"} /\ (connNo = 0 => link = "none")
  BY <1>1, Zenon DEF IInv, ReplyOK, SessionOK
<1>3. CASE SendOutcome # "sent"
  <2>1. pc' = "idle" /\ res' = SendOutcome /\ UNCHANGED <<chunk, flight>>
    BY <1>3, Zenon DEF SendChunk, End
  <2>2. SendOutcome \in Outcomes \ {"success"}
    BY <1>3 DEF SendOutcome, Outcomes
  <2> QED  BY <1>1, <1>2, <2>1, <2>2, FailureKeeps, Zenon
<1>4. CASE SendOutcome = "sent"
  <2> DEFINE f == IF IsBit(call) THEN BitRequest ELSE ChunkRequest
  <2>1. /\ flight' = [flight EXCEPT ![connNo] = Append(@, f)]
        /\ pc' = "wait" /\ chunk' = ChunkSize /\ UNCHANGED <<got, res>>
    BY <1>4, Zenon DEF SendChunk
  <2>2. f \in Sound'
    BY <1>1, <2>1, ChunkRequestSound, BitRequestSound, Zenon
  <2>3. Sound \subseteq Sound'
    BY <1>1, <2>1, Zenon DEF Sound, Sent, Own
  <2>4. link # "none"
    BY <1>4 DEF SendOutcome
  <2>5. ChunkSize \in Nat \ {0} /\ off + ChunkSize <= call.size
    BY <1>1, ChunkBounds DEF IInv
  <2> HIDE DEF f
  <2>6. SessionOK'
    <3>1. flight \in [1..MaxConns -> Seq(Sound')] /\ connNo \in 0..MaxConns
      BY <2>3, WiderFlight, Zenon DEF IInv, SessionOK
    <3>2. connNo \in 1..MaxConns
      BY <1>2, <2>4, <3>1, Bounds
    <3>3. Append(flight[connNo], f) \in Seq(Sound')
      BY <2>2, <3>1, <3>2, SeqAppend, ZenonT(60)
    <3>4. flight' \in [1..MaxConns -> Seq(Sound')]
      BY <2>1, <3>1, <3>3, Zenon
    <3> QED  BY <1>1, <2>1, <2>4, <3>4, Zenon DEF IInv, SessionOK
  <2>7. UNCHANGED <<mem, others, held, applied, written>>
    BY <1>1, Zenon DEF memVars
  <2>8. MemOK'
    BY <1>1, <2>7, Zenon DEF IInv, MemOK, NoLostUpdate, ByteAt
  <2>9. CallOK'
    <3>1. chunk' \in Nat /\ chunk' >= 1 /\ off' + chunk' <= call'.size
      BY <1>1, <2>1, <2>5
    <3> QED  BY <1>1, <2>1, <3>1, Zenon DEF IInv, CallOK
  <2>10. ReplyOK'
    <3>1. NoReply.header = "none"
      BY DEF NoReply, Refused
    <3>2. reply'.header # "ok" /\ pc' = "wait"
      BY <1>1, <1>2, <2>1, <3>1, ZenonT(60)
    <3> QED  BY <3>2, Zenon DEF ReplyOK, GoodRead, GoodBit, Written
  <2>11. GotOK'
    BY <1>1, <2>1, <2>7, Zenon DEF IInv, GotOK, HeldAt
  <2>12. AppliedOK'
    BY <1>1, <2>1, <2>7, Zenon DEF IInv, AppliedOK
  <2>13. ResultOK'
    BY <2>1, Zenon DEF ResultOK
  <2> QED  BY <2>6, <2>8, <2>9, <2>10, <2>11, <2>12, <2>13, Zenon DEF IInv
<1> QED  BY <1>3, <1>4

\* The chunk is done and the loop goes on.
LEMMA AdvanceKeeps ==
  ASSUME IInv, pc = "wait", ~IsBit(call), off' = off + chunk, pc' = "chunk", reply' = NoReply,
         UNCHANGED <<call, callNo, chunk, res, link, connNo, pduSize, flight, memVars, ctxDone>>,
         GotOK', ~Reads(call) => applied = 0..off + chunk - 1
  PROVE  IInv'
<1>1. UNCHANGED <<mem, others, held, applied, written>>
  BY Zenon DEF memVars
<1>2. call \in Calls /\ Valid(call) /\ chunk \in Nat /\ chunk >= 1 /\ off + chunk <= call.size
  BY Zenon DEF IInv, CallOK
<1>3. off \in Nat /\ call.size \in Nat
  BY <1>2, ValidCall, Bounds DEF IInv, CallOK
<1>4. Sound \subseteq Sound'
  <2> SUFFICES ASSUME NEW f \in Request, Sent(f), Own(f) PROVE Sent(f)' /\ Own(f)'
    BY Zenon DEF Sound
  <2>1. f.off \in Nat /\ f.n \in Nat
    BY DEF Request
  <2>2. (f.off + f.n <= off \/ (f.off = off /\ f.n = chunk)) => f.off + f.n <= off'
    BY <1>2, <1>3, <2>1
  <2> QED  BY <2>2, Zenon DEF Sent, Own
<1>5. SessionOK'
  <2>1. flight \in [1..MaxConns -> Seq(Sound')]
    BY <1>4, WiderFlight, Zenon DEF IInv, SessionOK
  <2> QED  BY <2>1, Zenon DEF IInv, SessionOK
<1>6. MemOK'
  BY <1>1, Zenon DEF IInv, MemOK, NoLostUpdate, ByteAt
<1>7. CallOK'
  <2>1. off' \in 0..(IF call.size > 0 THEN call.size ELSE 0)
    BY <1>2, <1>3
  <2> QED  BY <2>1, Zenon DEF IInv, CallOK
<1>8. ReplyOK' /\ ResultOK'
  BY Zenon DEF ReplyOK, ResultOK
<1>9. AppliedOK'
  <2>1. 0..off' - 1 = 0..off + chunk - 1
    BY <1>2, <1>3
  <2>2. pc' # "idle"
    OBVIOUS
  <2> QED  BY <1>1, <2>1, <2>2, ZenonT(60) DEF AppliedOK, Reads
<1> QED  BY <1>5, <1>6, <1>7, <1>8, <1>9, Zenon DEF IInv

\* ReadArea takes an answer.
LEMMA TakeReadKeeps == ASSUME IInv, TakeRead PROVE IInv'
<1> DEFINE d == reply.items[1].data
           kept == /\ reply.header = "ok" /\ reply.items # <<>>
                   /\ reply.items[1].code = "Success" /\ ~(Len(d) > chunk)
<1>1. /\ pc = "wait" /\ call.kind = "read" /\ reply' = NoReply
      /\ UNCHANGED <<call, callNo, chunk, link, connNo, pduSize, flight, memVars, ctxDone>>
  BY Zenon DEF TakeRead, End
<1>2. link' \in {"none", "up", "stale", "dead"} /\ (connNo = 0 => link' = "none")
  BY <1>1, Zenon DEF IInv, SessionOK
<1>3. CASE pc' = "idle"
  <2>1. UNCHANGED off /\ res' \in {"rejected", "protocol-error", "empty-read"}
    BY <1>3, Zenon DEF TakeRead, End
  <2>2. res' \in Outcomes \ {"success"}
    BY <2>1 DEF Outcomes
  <2> QED  BY <1>1, <1>2, <1>3, <2>1, <2>2, FailureKeeps, Zenon
<1>4. CASE pc' # "idle"
  <2>1. kept /\ pc' = "chunk" /\ off' = off + chunk /\ got' = got \o d /\ UNCHANGED res
    BY <1>4, Zenon DEF TakeRead, End
  <2>2. ~IsBit(call) /\ Reads(call)
    BY <1>1, ZenonT(60) DEF IsBit, Reads
  <2>3. call \in Calls /\ Valid(call) /\ chunk \in Nat /\ off \in Nat /\ call.start \in Nat
    BY <1>1, ValidCall, Bounds DEF IInv, CallOK
  <2>4. GoodRead(reply) /\ GotOK
    BY <1>1, Zenon DEF IInv, ReplyOK
  <2>5. got \in Seq(Octet) /\ Len(got) <= off /\ Len(got) \in Nat
        /\ (Len(got) = off => \A i \in 1..off : HeldAt(call.start + i - 1, got[i]))
    BY <1>1, <2>4 DEF GotOK
  <2> HIDE DEF d
  <2>6. /\ d \in Seq(Octet) /\ Len(d) <= chunk /\ Len(d) \in Nat
        /\ Len(d) = chunk => \A i \in 1..chunk : HeldAt(call.start + off + i - 1, d[i])
    <3>1. /\ d \in Seq(Octet)
          /\ Len(d) = chunk => \A i \in 1..chunk : HeldAt(call.start + off + i - 1, d[i])
      BY <2>1, <2>4, Zenon DEF GoodRead, d
    <3>2. Len(d) <= chunk /\ Len(d) \in Nat
      BY <2>1, <2>3, <3>1, SMTT(30)
    <3> QED  BY <3>1, <3>2, Zenon
  <2>7. got' \in Seq(Octet) /\ Len(got') = Len(got) + Len(d) /\ Len(got') <= off'
    BY <2>1, <2>3, <2>5, <2>6, SMTT(30)
  <2>8. \A j \in 1..Len(got) + Len(d) : got'[j] = IF j <= Len(got) THEN got[j] ELSE d[j - Len(got)]
    BY <2>1, <2>5, <2>6, SeqConcat, ZenonT(60)
  <2>9. ASSUME Len(got') = off', NEW i \in 1..off' PROVE HeldAt(call.start + i - 1, got'[i])
    <3>1. Len(got) = off /\ Len(d) = chunk
      BY <2>1, <2>3, <2>5, <2>6, <2>7, <2>9, SMTT(30)
    <3>2. CASE i <= off
      <4>1. i \in 1..off /\ got'[i] = got[i]
        BY <2>3, <2>8, <3>1, <3>2
      <4> QED  BY <2>5, <3>1, <4>1, Zenon
    <3>3. CASE ~(i <= off)
      <4>1. i - off \in 1..chunk /\ got'[i] = d[i - off]
        BY <2>1, <2>3, <2>8, <3>1, <3>3
      <4>2. call.start + off + (i - off) - 1 = call.start + i - 1
        BY <2>3, <2>1
      <4>3. HeldAt(call.start + off + (i - off) - 1, d[i - off])
        BY <2>6, <3>1, <4>1, Zenon
      <4> QED  BY <4>1, <4>2, <4>3, Zenon
    <3> QED  BY <3>2, <3>3, Zenon
  <2>10. \A a, b : HeldAt(a, b) => HeldAt(a, b)'
    BY <1>1, Zenon DEF HeldAt, memVars
  <2>11. GotOK'
    BY <1>1, <2>7, <2>9, <2>10, Zenon DEF GotOK
  <2> QED  BY <1>1, <2>1, <2>2, <2>11, AdvanceKeeps, Zenon
<1> QED  BY <1>3, <1>4, Zenon

\* ReadBit takes an answer.
LEMMA TakeBitKeeps == ASSUME IInv, TakeBit PROVE IInv'
<1> DEFINE d == reply.items[1].data
<1>1. /\ pc = "wait" /\ call.kind = "readBit" /\ reply' = NoReply /\ pc' = "idle"
      /\ UNCHANGED <<call, callNo, off, chunk, link, connNo, pduSize, flight, memVars, ctxDone>>
  BY Zenon DEF TakeBit, End
<1>2. link' \in {"none", "up", "stale", "dead"} /\ (connNo = 0 => link' = "none")
  BY <1>1, Zenon DEF IInv, SessionOK
<1>3. CASE res' # "success"
  <2>1. res' \in {"rejected", "protocol-error"}
    BY <1>3, Zenon DEF TakeBit, End
  <2>2. res' \in Outcomes \ {"success"}
    BY <2>1 DEF Outcomes
  <2> QED  BY <1>1, <1>2, <2>2, FailureKeeps, Zenon
<1>4. CASE res' = "success"
  <2>1. /\ reply.header = "ok" /\ Len(reply.items) = 1 /\ reply.items[1].code = "Success"
        /\ Len(d) = 1 /\ got' = <<d[1] \cap {0}>>
    <3>1. "success" # "rejected" /\ "success" # "protocol-error"
      OBVIOUS
    <3> QED  BY <1>4, <3>1, Zenon DEF TakeBit, End
  <2>2. GoodBit(reply)
    BY <1>1, Zenon DEF IInv, ReplyOK
  <2>3. call.start \in Addresses /\ \E b \in held[call.start] : call.bit \in b <=> 0 \in d[1]
    BY <2>1, <2>2, Zenon DEF GoodBit
  <2> HIDE DEF d
  <2>4. 0 \in d[1] <=> got' = <<{0}>>
    <3>1. CASE 0 \in d[1]
      <4>1. d[1] \cap {0} = {0}
        BY <3>1, Zenon
      <4> QED  BY <2>1, <3>1, <4>1, Zenon
    <3>2. CASE 0 \notin d[1]
      <4>1. got'[1] # {0}
        BY <2>1, <3>2
      <4>2. <<{0}>>[1] = {0}
        OBVIOUS
      <4> QED  BY <3>2, <4>1, <4>2, Zenon
    <3> QED  BY <3>1, <3>2, Zenon
  <2>5. Justified
    <3>1. "readBit" # "read" /\ Reads(call)
      BY <1>1 DEF Reads
    <3> QED  BY <1>1, <2>3, <2>4, <3>1, Zenon DEF Justified
  <2>6. res' \in Outcomes
    BY <1>4 DEF Outcomes
  <2> QED  BY <1>1, <1>2, <2>5, <2>6, EndKeeps, Zenon
<1> QED  BY <1>3, <1>4, Zenon

\* WriteArea or WriteBit takes an answer.
LEMMA TakeWriteKeeps == ASSUME IInv, TakeWrite PROVE IInv'
<1>1. /\ pc = "wait" /\ ~Reads(call) /\ reply' = NoReply
      /\ UNCHANGED <<call, callNo, chunk, link, connNo, pduSize, flight, memVars, ctxDone>>
  BY Zenon DEF TakeWrite, End
<1>2. link' \in {"none", "up", "stale", "dead"} /\ (connNo = 0 => link' = "none")
  BY <1>1, Zenon DEF IInv, SessionOK
<1>3. Written(reply) => applied = 0..off + chunk - 1
  BY <1>1, Zenon DEF IInv, ReplyOK
<1>4. CASE ~Written(reply)
  <2>1. UNCHANGED off /\ pc' = "idle" /\ res' = "rejected"
    BY <1>4, Zenon DEF TakeWrite, End
  <2>2. res' \in Outcomes \ {"success"}
    BY <2>1 DEF Outcomes
  <2> QED  BY <1>1, <1>2, <2>1, <2>2, FailureKeeps, Zenon
<1>5. CASE Written(reply) /\ IsBit(call)
  <2>1. UNCHANGED off /\ pc' = "idle" /\ res' = "success"
    BY <1>5, Zenon DEF TakeWrite, End
  <2>2. call \in Calls /\ off = 0 /\ chunk \in Nat /\ chunk >= 1 /\ off + chunk <= call.size
    BY <1>1, <1>5, Zenon DEF IInv, CallOK
  <2>3. call.size = 1
    BY <1>5, <2>2, CallTypes, ZenonT(60)
  <2>4. off + chunk = call.size
    BY <2>2, <2>3
  <2>5. applied = 0..call.size - 1
    <3>1. applied = 0..off + chunk - 1
      BY <1>3, <1>5, Zenon
    <3> QED  BY <2>2, <2>3, <2>4, <3>1, SMTT(30)
  <2>6. call.kind # "read" /\ call.kind # "readBit"
    BY <1>1 DEF Reads
  <2>7. Justified
    BY <2>5, <2>6, Zenon DEF Justified
  <2>8. res' \in Outcomes
    BY <2>1 DEF Outcomes
  <2> QED  BY <1>1, <1>2, <2>1, <2>7, <2>8, EndKeeps, Zenon
<1>6. CASE Written(reply) /\ ~IsBit(call)
  <2>1. off' = off + chunk /\ pc' = "chunk" /\ UNCHANGED res
    BY <1>6, Zenon DEF TakeWrite, End
  <2>2. call.kind # "read"
    BY <1>1 DEF Reads
  <2>3. GotOK'
    BY <1>1, <2>2, Zenon DEF GotOK
  <2> QED  BY <1>1, <1>3, <1>6, <2>1, <2>3, AdvanceKeeps, Zenon
<1> QED  BY <1>4, <1>5, <1>6, Zenon

\* The oldest request of a connection is sound, and those behind it stay so
\* when it is served.
LEMMA ServedFlight ==
  ASSUME IInv, NEW k \in 1..MaxConns, flight[k] # <<>>, CallStays,
         flight' = [flight EXCEPT ![k] = Tail(@)], UNCHANGED <<link, connNo, pduSize>>
  PROVE  Head(flight[k]) \in Sound /\ SessionOK'
<1>1. flight \in [1..MaxConns -> Seq(Sound)] /\ SessionOK
  BY Zenon DEF IInv, SessionOK
<1>2. flight[k] \in Seq(Sound)
  BY <1>1, Zenon
<1>3. Head(flight[k]) \in Sound /\ Tail(flight[k]) \in Seq(Sound)
  BY <1>2, SeqHeadTail
<1>4. flight' \in [1..MaxConns -> Seq(Sound)]
  BY <1>1, <1>3, Zenon
<1>5. Sound' = Sound
  BY SoundStays
<1>6. SessionOK'
  BY <1>1, <1>4, <1>5, Zenon DEF SessionOK, CallStays
<1> QED  BY <1>3, <1>6

\* The call's numbers.
LEMMA CallNumbers ==
  ASSUME CallOK
  PROVE  off \in Nat /\ chunk \in Nat /\ call.size \in Int
<1>1. call.size \in Int
  <2>1. CASE call \in Calls
    BY <2>1, CallTypes, ZenonT(60)
  <2>2. CASE call = NoCall
    BY <2>2 DEF NoCall
  <2> QED  BY <2>1, <2>2, Zenon DEF CallOK
<1> QED  BY <1>1 DEF CallOK

\* The area's bytes by their numbers.
LEMMA AreaData == MemOK => mem[Area].data \in [1..AreaSize -> SUBSET (0..7)]
<1> SUFFICES ASSUME MemOK PROVE mem[Area].data \in [1..AreaSize -> SUBSET (0..7)]
  OBVIOUS
<1>1. mem[Area].data \in Seq(Octet) /\ Len(mem[Area].data) = AreaSize
  BY AreaBytes, Zenon DEF MemOK, IsArea
<1> QED  BY <1>1, SeqLength, ZenonT(60) DEF Octet

\* The peer serves a read.
LEMMA ServeReadKeeps == ASSUME IInv, NEW k \in 1..MaxConns, ServeRead(k) PROVE IInv'
<1> DEFINE f == Head(flight[k])
<1>1. /\ flight[k] # <<>> /\ f.kind = "read"
      /\ \E a \in ReadAnswers(f, k) : Deliver(f, k, a)
      /\ flight' = [flight EXCEPT ![k] = Tail(@)]
      /\ UNCHANGED <<link, connNo, pduSize, memVars, callVars, ctxDone>>
  BY Zenon DEF ServeRead
<1>2. UNCHANGED <<mem, others, held, applied, written, pc, call, callNo, off, chunk, got, res>> /\ CallStays
  BY <1>1, Zenon DEF memVars, callVars, CallStays
<1>3. f \in Sound /\ SessionOK'
  BY <1>1, <1>2, ServedFlight, Zenon
<1> HIDE DEF f
<1>4. PICK a \in ReadAnswers(f, k) : Deliver(f, k, a)
  BY <1>1, Zenon
<1>5. HeldGrows
  BY <1>2, Zenon DEF HeldGrows
<1>6. \A r : (GoodRead(r) => GoodRead(r)') /\ (GoodBit(r) => GoodBit(r)')
  BY <1>2, <1>5, GrowthKeeps, Zenon
<1>7. ReplyOK'
  <2>1. CASE reply' = reply
    BY <1>2, <1>6, <2>1, Zenon DEF IInv, ReplyOK
  <2>2. CASE pc = "wait" /\ f.callNo = callNo /\ f.off = off /\ reply' = a
    <3>1. (call.kind = "read" => GoodRead(a)) /\ (call.kind = "readBit" => GoodBit(a))
      BY <1>1, <1>3, <1>4, <2>2, ReadAnswered, Zenon DEF IInv
    <3>2. Reads(call)
      <4>1. f.kind = (IF Reads(call) THEN "read" ELSE "write")
        BY <1>3, <2>2, Zenon DEF Sound, Own
      <4>2. "write" # "read"
        OBVIOUS
      <4> QED  BY <1>1, <4>1, <4>2, Zenon
    <3>3. call.kind = "read" => GoodRead(reply)'
      BY <1>6, <2>2, <3>1, Zenon
    <3>4. call.kind = "readBit" => GoodBit(reply)'
      BY <1>6, <2>2, <3>1, Zenon
    <3>5. Reads(call)'
      BY <1>2, <3>2, Zenon DEF Reads
    <3> QED  BY <1>2, <2>2, <3>3, <3>4, <3>5, Zenon DEF ReplyOK
  <2> QED  BY <1>4, <2>1, <2>2, Zenon DEF Deliver
<1>8. MemOK'
  BY <1>2, Zenon DEF IInv, MemOK, NoLostUpdate, ByteAt
<1>9. CallOK'
  BY <1>1, <1>2, Zenon DEF IInv, CallOK
<1>10. GotOK' /\ AppliedOK' /\ ResultOK'
  BY <1>2, Zenon DEF IInv, GotOK, AppliedOK, ResultOK, HeldAt
<1> QED  BY <1>3, <1>7, <1>8, <1>9, <1>10, Zenon DEF IInv

\* What a write that was served adds to the call's history.
LEMMA AppliedGrows ==
  ASSUME IInv, NEW f \in Sound, f.callNo = callNo, ~Reads(call),
         NEW p, p = applied \cup f.off..f.off + f.n - 1
  PROVE  /\ p \in {applied, 0..off + chunk - 1}
         /\ applied = 0..off + chunk - 1 => p = applied
         /\ pc = "wait" /\ f.off = off => p = 0..off + chunk - 1
         /\ pc = "chunk" \/ (pc = "idle" /\ res = "success") => p = applied
<1>1. f.off \in Nat /\ f.n \in Nat \ {0} /\ f.off + f.n <= call.size
      /\ (f.off + f.n <= off \/ (pc # "chunk" /\ f.off = off /\ f.n = chunk))
  BY DEF Sound, Request, Own
<1>2. off \in Nat /\ chunk \in Nat /\ call.size \in Int
  BY CallNumbers, Zenon DEF IInv
<1>3. /\ applied \in {0..off - 1, 0..off + chunk - 1}
      /\ pc = "idle" /\ res = "success" => applied = 0..call.size - 1
  BY Zenon DEF IInv, AppliedOK
<1>4. CASE f.off + f.n <= off
  <2>1. p = applied
    <3>1. CASE applied = 0..off - 1
      BY <1>1, <1>2, <1>4, <3>1, SMTT(30)
    <3>2. CASE applied = 0..off + chunk - 1
      BY <1>1, <1>2, <1>4, <3>2, SMTT(30)
    <3> QED  BY <1>3, <3>1, <3>2, Zenon
  <2>2. f.off # off
    BY <1>1, <1>2, <1>4
  <2> QED  BY <2>1, <2>2, Zenon
<1>5. CASE pc # "chunk" /\ f.off = off /\ f.n = chunk
  <2>1. p = 0..off + chunk - 1
    <3>1. CASE applied = 0..off - 1
      BY <1>1, <1>2, <1>5, <3>1, SMTT(30)
    <3>2. CASE applied = 0..off + chunk - 1
      BY <1>1, <1>2, <1>5, <3>2
    <3> QED  BY <1>3, <3>1, <3>2, Zenon
  <2>2. ASSUME pc = "idle", res = "success" PROVE p = applied
    <3>1. applied = 0..call.size - 1
      BY <1>3, <2>2, Zenon
    <3> QED  BY <1>1, <1>2, <3>1, SMTT(30)
  <2> QED  BY <1>5, <2>1, <2>2, Zenon
<1> QED  BY <1>1, <1>4, <1>5, Zenon

\* The peer serves a write.
LEMMA ServeWriteKeeps == ASSUME IInv, NEW k \in 1..MaxConns, ServeWrite(k) PROVE IInv'
<1> DEFINE f == Head(flight[k])
<1>1. /\ flight[k] # <<>> /\ f.kind = "write"
      /\ \E w \in WriteAnswers(f) :
           /\ Deliver(f, k, w.answer)
           /\ SetMemory(w.mem)
           /\ applied' = IF f.callNo = callNo /\ w.wrote
                         THEN applied \cup f.off..f.off + f.n - 1 ELSE applied
           /\ written' = IF w.wrote THEN Versions(f) ELSE written
      /\ flight' = [flight EXCEPT ![k] = Tail(@)]
      /\ UNCHANGED <<link, connNo, pduSize, others, callVars, ctxDone>>
  BY Zenon DEF ServeWrite, Versions
<1>2. UNCHANGED <<others, pc, call, callNo, off, chunk, got, res>> /\ CallStays
  BY <1>1, Zenon DEF callVars, CallStays
<1>3. f \in Sound /\ SessionOK'
  BY <1>1, <1>2, ServedFlight, Zenon
<1> HIDE DEF f
<1>4. PICK w \in WriteAnswers(f) :
           /\ Deliver(f, k, w.answer)
           /\ SetMemory(w.mem)
           /\ applied' = IF f.callNo = callNo /\ w.wrote
                         THEN applied \cup f.off..f.off + f.n - 1 ELSE applied
           /\ written' = IF w.wrote THEN Versions(f) ELSE written
  BY <1>1, Zenon
<1>5. /\ w.wrote => WriteCode(mem, f.spec, f.data) = "Success" /\ w.mem = WriteItem(mem, f.spec, f.data)
      /\ ~w.wrote => w.mem = mem
      /\ Written(w.answer) => w.wrote
  BY <1>4, WriteAnswered, Zenon
<1>6. f \in Request /\ Sent(f) /\ Own(f)
  BY <1>3, Zenon DEF Sound
<1>7. /\ IsArea(w.mem) /\ written' \in [Addresses -> 0..MaxCalls + MaxOthers]
      /\ \A a \in Addresses : Rest(w.mem[Area].data[a + 1]) = Rest(Byte(a, written'[a]))
  <2>1. CASE ~w.wrote
    BY <1>4, <1>5, <2>1, Zenon DEF IInv, MemOK, NoLostUpdate, ByteAt
  <2>2. CASE w.wrote
    <3>1. written' = Versions(f)
      BY <1>4, <2>2, Zenon
    <3>2. /\ IsArea(w.mem)
          /\ \A a \in Addresses : Rest(w.mem[Area].data[a + 1]) = Rest(Byte(a, Versions(f)[a]))
      BY <1>1, <1>5, <1>6, <2>2, ServedWrite, Zenon DEF IInv
    <3>3. f.callNo \in 0..MaxCalls + MaxOthers
      BY <1>6, Bounds DEF Sent, IInv, CallOK
    <3>4. Versions(f) \in [Addresses -> 0..MaxCalls + MaxOthers]
      BY <3>3, Zenon DEF Versions, IInv, MemOK
    <3> QED  BY <3>1, <3>2, <3>4, Zenon
  <2> QED  BY <2>1, <2>2, Zenon
<1>8. others' \in 0..MaxOthers
  BY <1>2, Zenon DEF IInv, MemOK
<1>9. MemOK' /\ GotOK' /\ ResultOK' /\ HeldGrows
  BY <1>2, <1>4, <1>7, <1>8, MemoryStep, Zenon
<1>10. \A r : (GoodRead(r) => GoodRead(r)') /\ (GoodBit(r) => GoodBit(r)')
  BY <1>2, <1>9, GrowthKeeps, Zenon
<1>11. ~Reads(call) =>
         /\ applied' \in {applied, 0..off + chunk - 1}
         /\ applied = 0..off + chunk - 1 => applied' = applied
         /\ pc = "wait" /\ f.callNo = callNo /\ f.off = off /\ w.wrote => applied' = 0..off + chunk - 1
         /\ pc = "chunk" \/ (pc = "idle" /\ res = "success") => applied' = applied
  <2>1. CASE f.callNo = callNo /\ w.wrote
    BY <1>3, <1>4, <2>1, AppliedGrows, Zenon
  <2>2. CASE ~(f.callNo = callNo /\ w.wrote)
    BY <1>4, <2>2, Zenon
  <2> QED  BY <2>1, <2>2, Zenon
<1>12. Reads(call)' = Reads(call)
  BY <1>2, Zenon DEF Reads
<1>13. AppliedOK'
  BY <1>2, <1>11, <1>12, Zenon DEF IInv, AppliedOK
<1>14. ReplyOK'
  <2>1. CASE reply' = reply
    <3>1. Written(reply)' = Written(reply)
      BY <2>1, Zenon DEF Written
    <3>2. pc = "wait" /\ ~Reads(call) /\ Written(reply) => applied' = 0..off + chunk - 1
      BY <1>11, Zenon DEF IInv, ReplyOK
    <3>3. /\ pc = "wait" /\ call.kind = "read" => GoodRead(reply)'
          /\ pc = "wait" /\ call.kind = "readBit" => GoodBit(reply)'
      BY <1>10, <2>1, Zenon DEF IInv, ReplyOK
    <3> QED  BY <1>2, <1>12, <2>1, <3>1, <3>2, <3>3, Zenon DEF IInv, ReplyOK
  <2>2. CASE pc = "wait" /\ f.callNo = callNo /\ f.off = off /\ reply' = w.answer
    <3>1. ~Reads(call)
      <4>1. f.kind = (IF Reads(call) THEN "read" ELSE "write")
        BY <1>6, <2>2, Zenon DEF Own
      <4>2. "write" # "read"
        OBVIOUS
      <4> QED  BY <1>1, <4>1, <4>2, Zenon
    <3>2. call.kind # "read" /\ call.kind # "readBit"
      BY <3>1 DEF Reads
    <3>3. Written(reply)' => w.wrote
      BY <1>5, <2>2, Zenon DEF Written
    <3>4. Written(reply)' => applied' = 0..off + chunk - 1
      BY <1>11, <2>2, <3>1, <3>3, Zenon
    <3> QED  BY <1>2, <2>2, <3>2, <3>4, Zenon DEF ReplyOK
  <2> QED  BY <1>4, <2>1, <2>2, Zenon DEF Deliver
<1>15. CallOK'
  BY <1>1, <1>2, Zenon DEF IInv, CallOK
<1> QED  BY <1>3, <1>9, <1>13, <1>14, <1>15, Zenon DEF IInv

-----------------------------------------------------------------------------
(* The theorems *)

\* Every step keeps the invariant.
LEMMA NextIInv == IInv /\ [Next]_vars => IInv'
<1> SUFFICES ASSUME IInv, [Next]_vars PROVE IInv'
  OBVIOUS
<1>1. CASE Connect \/ Close \/ CtxEnds \/ UNCHANGED vars \/ \E k \in 1..MaxConns : ConnectionLost(k)
  BY <1>1, ConnectionSteps, Zenon
<1>2. CASE OtherWrites
  BY <1>2, OtherWritesKeeps
<1>3. CASE \E c \in Calls : Begin(c)
  BY <1>3, BeginKeeps, Zenon
<1>4. CASE Finish
  BY <1>4, FinishKeeps
<1>5. CASE Cancelled
  BY <1>5, CancelledKeeps
<1>6. CASE SendChunk
  BY <1>6, SendChunkKeeps
<1>7. CASE ExchangeFails
  BY <1>7, ExchangeFailsKeeps
<1>8. CASE TakeRead
  BY <1>8, TakeReadKeeps
<1>9. CASE TakeBit
  BY <1>9, TakeBitKeeps
<1>10. CASE TakeWrite
  BY <1>10, TakeWriteKeeps
<1>11. CASE \E k \in 1..MaxConns : ServeRead(k)
  BY <1>11, ServeReadKeeps, Zenon
<1>12. CASE \E k \in 1..MaxConns : ServeWrite(k)
  BY <1>12, ServeWriteKeeps, Zenon
<1> QED  BY <1>1, <1>2, <1>3, <1>4, <1>5, <1>6, <1>7, <1>8, <1>9, <1>10, <1>11, <1>12, Zenon DEF Next

\* The invariant holds in every state.
LEMMA Invariance == Spec => []IInv
BY InitIInv, NextIInv, PTL DEF Spec

\* Every variable keeps its type, and the offset stays within the call.
THEOREM TransferTypes == Spec => []TypeOK
<1>1. IInv => TypeOK
  <2> SUFFICES ASSUME IInv PROVE TypeOK
    OBVIOUS
  <2>1. mem[Area].data \in [1..AreaSize -> SUBSET (0..7)]
    BY AreaData DEF IInv
  <2>2. DOMAIN flight = 1..MaxConns
    BY Zenon DEF IInv, SessionOK
  <2> QED  BY <2>1, <2>2, Zenon DEF IInv, SessionOK, MemOK, CallOK, TypeOK
<1> QED  BY <1>1, Invariance, PTL

\* A read reported as success has every byte asked for, each one that its own
\* address had since the call began, whatever the peer answers, others write
\* and earlier calls left behind.
THEOREM SuccessfulReadsAreExact == Spec => []SuccessIsExact
<1>1. IInv => SuccessIsExact
  <2> SUFFICES ASSUME IInv PROVE SuccessIsExact
    OBVIOUS
  <2>1. \A a, b : HeldAt(a, b) => WrittenFor(b, a) /\ b \in held[a]
    BY Zenon DEF IInv, MemOK, HeldAt
  <2>2. ASSUME pc = "idle", call.kind = "readBit", res = "success"
        PROVE  \E b \in held[call.start] : (call.bit \in b) = (got = <<{0}>>)
    <3>1. PICK b \in held[call.start] : call.bit \in b <=> got = <<{0}>>
      BY <2>2, Zenon DEF IInv, ResultOK
    <3>2. (call.bit \in b) = (got = <<{0}>>)
      BY <3>1
    <3> QED  BY <3>2, Zenon
  <2>3. ASSUME pc = "idle", call.kind = "read", res = "success"
        PROVE  Len(got) = call.size /\ \A i \in 1..Len(got) : HeldAt(call.start + i - 1, got[i])
    BY <2>3, Zenon DEF IInv, ResultOK
  <2> QED  BY <2>1, <2>2, <2>3, Zenon DEF SuccessIsExact
<1> QED  BY <1>1, Invariance, PTL

\* The peer has written a prefix of what a write call brings: all of it when
\* the call returned nil, else the chunks acknowledged and at most one more;
\* and every byte of the area is one that was meant for its address.
THEOREM WritesArePrefixes == Spec => []WriteIsPrefix
<1>1. IInv => WriteIsPrefix
  <2> SUFFICES ASSUME IInv PROVE WriteIsPrefix
    OBVIOUS
  <2>1. \A a \in Addresses : WrittenFor(ByteAt(a), a)
    BY Zenon DEF IInv, MemOK, NoLostUpdate, WrittenFor
  <2>2. call.kind \in {"write", "writeBit"} => ~Reads(call)
    BY DEF Reads
  <2> QED  BY <2>1, <2>2, Zenon DEF IInv, AppliedOK, WriteIsPrefix
<1> QED  BY <1>1, Invariance, PTL

\* Whenever a bit write is served, the rest of its byte stays as it was last
\* written.
THEOREM BitWritesLoseNothing == Spec => []NoLostUpdate
<1>1. IInv => NoLostUpdate
  BY Zenon DEF IInv, MemOK
<1> QED  BY <1>1, Invariance, PTL

=============================================================================
