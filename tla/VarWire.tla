------------------------------- MODULE VarWire -------------------------------
(***************************************************************************)
(* The S7 PDUs of package wire, byte by byte: the header (s7.go), Read Var *)
(* and Write Var as the client writes requests and reads answers           *)
(* (pdu_rw.go), as the server reads requests and writes answers            *)
(* (pdu_server.go), and Setup Communication (pdu_setup.go).  Pure          *)
(* operators on sequences of numbers 0..255.                               *)
(*                                                                         *)
(* A parser returns NoPDU where the code returns an error.  Offsets are    *)
(* 0-based as in the code, sequences 1-based.                              *)
(***************************************************************************)
EXTENDS S7AnyLimits, Integers, Sequences

\* Big-endian 16-bit fields.
U16(n) == <<n \div 256, n % 256>>
Be16(b, off) == 256 * b[off + 1] + b[off + 2]
MaxUint16 == 65535

\* b[from:to].
Slice(b, from, to) == SubSeq(b, from + 1, to)

NoPDU == [ok |-> FALSE]

ROSCTRJob == 1
ROSCTRAck == 2
ROSCTRAckData == 3
FuncReadVar == 4
FuncWriteVar == 5
FuncSetupComm == 240
RetCodeSuccess == 255
SyntaxIDS7Any == 16
SyntaxIDDBRead == 176
TransportSizeBit == 1
TransportSizeByte == 2
DataTransportSizeBit == 3
DataTransportSizeByte == 4
DataTransportSizeInt == 5
DataTransportSizeDInt == 6
DataTransportSizeReal == 7
DataTransportSizeOctet == 9

-----------------------------------------------------------------------------
(* The header *)

S7HeaderSize == 10

\* EncodeS7Header for lengths that fit 16 bits (a longer section is refused).
s7Header(rosctr, ref, paramLen, dataLen) ==
  <<50, rosctr, 0, 0>> \o U16(ref) \o U16(paramLen) \o U16(dataLen)

encodeMessage(rosctr, ref, param, data) ==
  s7Header(rosctr, ref, Len(param), Len(data)) \o param \o data

EncodeAckData(ref, errClass, errCode, param, data) ==
  s7Header(ROSCTRAckData, ref, Len(param), Len(data)) \o <<errClass, errCode>> \o param \o data

\* ParseS7Header: an Ack or Ack-Data header has two bytes more; what follows
\* must hold both sections.
ParseS7Header(b) ==
  IF Len(b) < S7HeaderSize THEN NoPDU
  ELSE LET ack == b[2] \in {ROSCTRAck, ROSCTRAckData}
           start == IF ack THEN 12 ELSE 10
       IN IF b[1] # 50 \/ Len(b) < start \/ Len(b) - start < Be16(b, 6) + Be16(b, 8) THEN NoPDU
          ELSE [ok |-> TRUE, rosctr |-> b[2], ref |-> Be16(b, 4),
                paramLen |-> Be16(b, 6), dataLen |-> Be16(b, 8),
                errClass |-> IF ack THEN b[11] ELSE 0, errCode |-> IF ack THEN b[12] ELSE 0,
                rest |-> Slice(b, start, Len(b))]

\* session.handle's own reading: the lengths must be exact.
HandleHeader(b) ==
  IF Len(b) < S7HeaderSize THEN NoPDU
  ELSE LET end == S7HeaderSize + Be16(b, 6) IN
       IF b[1] # 50 \/ end + Be16(b, 8) # Len(b) THEN NoPDU
       ELSE [ok |-> TRUE, rosctr |-> b[2], ref |-> Be16(b, 4),
             param |-> Slice(b, S7HeaderSize, end), data |-> Slice(b, end, Len(b))]

\* What sendReceive makes of an answer: its sections, or the header's error.
SectionsOf(b) ==
  LET h == ParseS7Header(b) IN
  IF ~h.ok THEN NoPDU
  ELSE [ok |-> TRUE, ref |-> h.ref, error |-> <<h.errClass, h.errCode>>,
        param |-> Slice(h.rest, 0, h.paramLen),
        data |-> Slice(h.rest, h.paramLen, h.paramLen + h.dataLen)]

-----------------------------------------------------------------------------
(* Item addresses *)

\* putS7Any: the 12 bytes of an S7ANY item; the address has 24 bits.
putS7Any(transport, count, db, area, startBit) ==
  <<18, 10, SyntaxIDS7Any, transport, count \div 256, count % 256, db \div 256, db % 256, area,
    (startBit \div 65536) % 256, (startBit \div 256) % 256, startBit % 256>>

\* What EncodeS7Any and EncodeS7AnyBit refuse.
FitsS7Any(db, start, size) ==
  db \in 0..MaxS7AnyDBNumber /\ start \in 0..MaxS7AnyByteOffset /\ size \in 0..MaxS7AnyCount
FitsS7AnyBit(db, byte, bit) ==
  db \in 0..MaxS7AnyDBNumber /\ byte \in 0..MaxS7AnyByteOffset /\ bit \in 0..7

EncodeS7Any(area, db, start, size) == putS7Any(TransportSizeByte, size, db, area, 8 * start)
EncodeS7AnyBit(area, db, byte, bit) == putS7Any(TransportSizeBit, 1, db, area, 8 * byte + bit)

\* The S7ANY part of parseVarSpecs: the item b from its type byte on.
S7AnySpec(b) ==
  [syntax |-> b[3], transport |-> b[4], count |-> Be16(b, 4), db |-> Be16(b, 6), area |-> b[9],
   startBit |-> 65536 * b[10] + 256 * b[11] + b[12]]

\* parseDBRead: the ranges of a DBREAD item.
DBReadFits(b) == Len(b) >= 4 /\ b[4] # 0 /\ Len(b) = 4 + 5 * b[4]
parseDBRead(b) ==
  [i \in 1..b[4] |->
     LET off == 4 + 5 * (i - 1) IN
     [n |-> b[off + 1], db |-> Be16(b, off + 1), start |-> Be16(b, off + 3)]]

\* Why parseVarSpecs refuses the item at offset off, of length end - off.
ItemFits(param, off) ==
  /\ off + 2 <= Len(param)
  /\ param[off + 1] = 18
  /\ off + 2 + param[off + 2] <= Len(param)
  /\ LET item == Slice(param, off, off + 2 + param[off + 2]) IN
       Len(item) > 2 => /\ item[3] = SyntaxIDS7Any => Len(item) = 12
                        /\ item[3] = SyntaxIDDBRead => DBReadFits(item)

\* The specification of an item that fits; another syntax keeps its ID only.
SpecOf(item) ==
  IF Len(item) = 2 THEN [syntax |-> 0]
  ELSE IF item[3] = SyntaxIDS7Any THEN S7AnySpec(item)
  ELSE IF item[3] = SyntaxIDDBRead THEN [syntax |-> item[3], ranges |-> parseDBRead(item)]
  ELSE [syntax |-> item[3]]

\* parseVarSpecs with ParseReadVarDBRead: every item, and nothing after them.
parseVarSpecs(param, fn) ==
  LET scan[i \in Nat] ==
        IF i = 0 THEN [ok |-> TRUE, off |-> 2, specs |-> <<>>]
        ELSE LET s == scan[i - 1] IN
             IF ~s.ok \/ ~ItemFits(param, s.off) THEN [s EXCEPT !.ok = FALSE]
             ELSE LET end == s.off + 2 + param[s.off + 2] IN
                  [ok |-> TRUE, off |-> end,
                   specs |-> Append(s.specs, SpecOf(Slice(param, s.off, end)))]
  IN IF Len(param) < 2 THEN NoPDU
     ELSE IF param[1] # fn \/ param[2] = 0 THEN NoPDU
     ELSE LET all == scan[param[2]] IN
          IF ~all.ok \/ all.off # Len(param) THEN NoPDU ELSE [ok |-> TRUE, specs |-> all.specs]

-----------------------------------------------------------------------------
(* Requests *)

\* The parameter section of a request: EncodeReadVarRequest,
\* EncodeReadVarBitRequest and the Write Var ones.
VarParam(fn, items) ==
  LET all[i \in 0..Len(items)] == IF i = 0 THEN <<fn, Len(items)>> ELSE all[i - 1] \o items[i]
  IN all[Len(items)]

EncodeReadVarRequest(ref, items) == encodeMessage(ROSCTRJob, ref, VarParam(FuncReadVar, items), <<>>)

\* EncodeWriteVarRequest: the length counts bits, the data is filled to an
\* even length.
WriteData(value) ==
  <<RetCodeSuccess, DataTransportSizeByte>> \o U16(8 * Len(value)) \o value \o
  (IF Len(value) % 2 # 0 THEN <<0>> ELSE <<>>)
EncodeWriteVarRequest(ref, item, value) ==
  encodeMessage(ROSCTRJob, ref, VarParam(FuncWriteVar, <<item>>), WriteData(value))

\* EncodeWriteVarBitRequest: one bit in one byte, and a fill byte.
EncodeWriteVarBitRequest(ref, item, bit) ==
  encodeMessage(ROSCTRJob, ref, VarParam(FuncWriteVar, <<item>>), <<0, DataTransportSizeBit, 0, 1, bit, 0>>)

\* The bytes of a Write Var data item, -1 for a length or transport that is
\* refused.
writeDataBytes(transport, raw) ==
  IF transport \in {DataTransportSizeBit, DataTransportSizeDInt, DataTransportSizeReal,
                    DataTransportSizeOctet} THEN raw
  ELSE IF transport \in {DataTransportSizeByte, DataTransportSizeInt} /\ raw % 8 = 0 THEN raw \div 8
  ELSE -1

\* ParseWriteVarRequest: one data item per specification, a fill byte after an
\* odd one that is not the last, at most one byte after them.
ParseWriteVarRequest(param, data) ==
  LET p == parseVarSpecs(param, FuncWriteVar)
      Item(off) ==
        IF off + 4 > Len(data) THEN -1
        ELSE LET n == writeDataBytes(data[off + 2], Be16(data, off + 2))
             IN IF off + 4 + n > Len(data) THEN -1 ELSE n
      scan[i \in Nat] ==
        IF i = 0 THEN [ok |-> TRUE, off |-> 0, items |-> <<>>]
        ELSE LET s == scan[i - 1]
                 n == Item(s.off)
                 fill == IF n % 2 # 0 /\ i < Len(p.specs) THEN 1 ELSE 0
             IN IF ~s.ok \/ n < 0 THEN [s EXCEPT !.ok = FALSE]
                ELSE [ok |-> TRUE, off |-> s.off + 4 + n + fill,
                      items |-> Append(s.items, Slice(data, s.off + 4, s.off + 4 + n))]
  IN IF ~p.ok THEN NoPDU
     ELSE LET all == scan[Len(p.specs)] IN
          IF ~all.ok \/ Len(data) - all.off \notin {0, 1} THEN NoPDU
          ELSE [ok |-> TRUE, specs |-> p.specs, items |-> all.items]

-----------------------------------------------------------------------------
(* Answers *)

\* The data section of EncodeReadVarResponse: a fill byte after odd data that
\* is not the last.
ReadItems(items) ==
  LET n == Len(items)
      all[i \in 0..n] ==
        IF i = 0 THEN <<>>
        ELSE all[i - 1] \o <<items[i].code, items[i].transport>> \o U16(items[i].length) \o items[i].data
             \o (IF i < n /\ Len(items[i].data) % 2 # 0 THEN <<0>> ELSE <<>>)
  IN all[n]

EncodeReadVarResponse(ref, items) ==
  EncodeAckData(ref, 0, 0, <<FuncReadVar, Len(items)>>, ReadItems(items))
EncodeWriteVarResponse(ref, codes) ==
  EncodeAckData(ref, 0, 0, <<FuncWriteVar, Len(codes)>>, codes)

\* Mutant: the length of integers counts bytes.
NormalizeResponseDataLengthInt(transport, raw) ==
  IF transport \in {DataTransportSizeBit, DataTransportSizeByte} THEN (raw + 7) \div 8
  ELSE IF transport \in {DataTransportSizeInt, DataTransportSizeDInt, DataTransportSizeReal, DataTransportSizeOctet} THEN raw
  ELSE -1

\* NormalizeResponseDataLength: -1 for an unknown transport size.
NormalizeResponseDataLength(transport, raw) ==
  IF transport \in {DataTransportSizeBit, DataTransportSizeByte, DataTransportSizeInt} THEN (raw + 7) \div 8
  ELSE IF transport \in {DataTransportSizeDInt, DataTransportSizeReal, DataTransportSizeOctet} THEN raw
  ELSE -1

\* decodeReadResponseItem at offset off: the item and the next offset, with
\* the fill byte after odd data.  A refused item may have no payload; what it
\* has is skipped.
decodeReadResponseItem(data, off, last) ==
  IF off + 4 > Len(data) THEN NoPDU
  ELSE LET code == data[off + 1]
           transport == data[off + 2]
           raw == Be16(data, off + 2)
           refused == code # RetCodeSuccess
           n == IF refused /\ (transport = 0 \/ raw = 0) THEN 0
                ELSE NormalizeResponseDataLength(transport, raw)
           next == off + 4 + n
           odd == n % 2 # 0
       IN IF n < 0 \/ next > Len(data) \/ (odd /\ next = Len(data) /\ ~last) THEN NoPDU
          ELSE [ok |-> TRUE, next |-> IF odd /\ next < Len(data) THEN next + 1 ELSE next,
                item |-> [code |-> code, transport |-> transport, length |-> raw,
                          data |-> IF refused THEN <<>> ELSE Slice(data, off + 4, next)]]

\* ParseReadVarResponse: as many items as the parameter counts.
ParseReadVarResponse(param, data) ==
  LET scan[i \in Nat] ==
        IF i = 0 THEN [ok |-> TRUE, off |-> 0, items |-> <<>>]
        ELSE LET s == scan[i - 1] IN
             IF ~s.ok THEN s
             ELSE LET d == decodeReadResponseItem(data, s.off, i = param[2]) IN
                  IF ~d.ok THEN [s EXCEPT !.ok = FALSE]
                  ELSE [ok |-> TRUE, off |-> d.next, items |-> Append(s.items, d.item)]
  IN IF Len(param) < 2 THEN NoPDU
     ELSE IF param[1] # FuncReadVar \/ ~scan[param[2]].ok THEN NoPDU
     ELSE [ok |-> TRUE, items |-> scan[param[2]].items]

\* ParseWriteVarResponseCodes: one code per item counted, at least one.
ParseWriteVarResponseCodes(param, data) ==
  IF Len(param) < 2 THEN NoPDU
  ELSE IF param[1] # FuncWriteVar \/ param[2] = 0 \/ Len(data) < param[2] THEN NoPDU
  ELSE [ok |-> TRUE, codes |-> Slice(data, 0, param[2])]

\* DecodeAsBit: the value of a one-bit item, -1 when it is none.
DecodeAsBit(item) ==
  IF \/ item.code # RetCodeSuccess \/ item.transport # DataTransportSizeBit
     \/ (item.length + 7) \div 8 # 1 \/ item.data = <<>> THEN -1
  ELSE item.data[1] % 2

-----------------------------------------------------------------------------
(* Setup Communication *)

SetupParam(calling, called, size) == <<FuncSetupComm, 0>> \o U16(calling) \o U16(called) \o U16(size)
EncodeSetupCommRequest(ref, calling, called, size) ==
  encodeMessage(ROSCTRJob, ref, SetupParam(calling, called, size), <<>>)
EncodeSetupCommResponse(ref, calling, called, size) ==
  EncodeAckData(ref, 0, 0, SetupParam(calling, called, size), <<>>)

\* ParseSetupCommRequest and ParseSetupCommResponse.
ParseSetup(param) ==
  IF Len(param) < 8 THEN NoPDU
  ELSE IF param[1] # FuncSetupComm THEN NoPDU
  ELSE [ok |-> TRUE, amqCalling |-> Be16(param, 2), amqCalled |-> Be16(param, 4), pduSize |-> Be16(param, 6)]

=============================================================================
