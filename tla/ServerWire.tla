----------------------------- MODULE ServerWire ------------------------------
(***************************************************************************)
(* The jobs of ServerMemory as PDUs on the wire: the bytes in which a      *)
(* client's request reaches session.handle, and the bytes of the answer as *)
(* the client's parsers read them (VarWire).  ServerMemory's transports,   *)
(* areas and return codes are names, its bytes sets of bits; here they get *)
(* their wire values.                                                      *)
(***************************************************************************)
EXTENDS ServerMemory, FiniteSetsExt

Wire == INSTANCE VarWire

TransportCode ==
  [BIT |-> 1, BYTE |-> 2, CHAR |-> 3, WORD |-> 4, INT |-> 5, DWORD |-> 6, DINT |-> 7, REAL |-> 8,
   TIME |-> 11, COUNTER |-> 28, TIMER |-> 29]
AreaCode == [I |-> 129, Q |-> 130, M |-> 131, DB |-> 132, C |-> 28, T |-> 29]
ReturnCode ==
  [Success |-> 255, AccessFault |-> 3, AddressFault |-> 5, DataTypeFault |-> 6,
   DataSizeFault |-> 7, NotAvailable |-> 10]

NameOf(table, code) == CHOOSE name \in DOMAIN table : table[name] = code

Value(byte) == MapThenSumSet(LAMBDA k : 2^k, byte)
Bits(value) == {k \in 0..7 : (value \div 2^k) % 2 = 1}
Values(bytes) == [i \in DOMAIN bytes |-> Value(bytes[i])]
BitSets(values) == [i \in DOMAIN values |-> Bits(values[i])]

-----------------------------------------------------------------------------
(* Requests, as any client writes them *)

DBReadItem(ranges) ==
  LET all[i \in 0..Len(ranges)] ==
        IF i = 0 THEN <<18, 2 + 5 * Len(ranges), Wire!SyntaxIDDBRead, Len(ranges)>>
        ELSE all[i - 1] \o <<ranges[i].n>> \o Wire!U16(ranges[i].db) \o Wire!U16(ranges[i].start)
  IN all[Len(ranges)]

ItemBytes(spec) ==
  IF spec.syntax = "DBREAD" THEN DBReadItem(spec.ranges)
  ELSE Wire!putS7Any(TransportCode[spec.transport], spec.count, spec.db, AreaCode[spec.area], spec.startBit)

\* The data transport and the length field of n bytes for a request transport:
\* the table of readResult.
DataTransport(transport) ==
  CASE transport = "BIT" -> Wire!DataTransportSizeBit
    [] transport = "INT" -> Wire!DataTransportSizeInt
    [] transport = "DINT" -> Wire!DataTransportSizeDInt
    [] transport = "REAL" -> Wire!DataTransportSizeReal
    [] transport \in {"CHAR", "TIMER", "COUNTER", "DBREAD"} -> Wire!DataTransportSizeOctet
    [] OTHER -> Wire!DataTransportSizeByte

LengthField(transport, n) ==
  IF transport = "BIT" THEN 1
  ELSE IF DataTransport(transport) \in {Wire!DataTransportSizeByte, Wire!DataTransportSizeInt} THEN 8 * n
  ELSE n

DataItem(code, transport, bytes) ==
  [code |-> code, transport |-> DataTransport(transport),
   length |-> LengthField(transport, Len(bytes)), data |-> Values(bytes)]

RequestBytes(ref, r) ==
  LET items == [i \in DOMAIN r.specs |-> ItemBytes(r.specs[i])] IN
  CASE r.kind = "read" -> Wire!EncodeReadVarRequest(ref, items)
    [] r.kind = "write" ->
         Wire!encodeMessage(Wire!ROSCTRJob, ref, Wire!VarParam(Wire!FuncWriteVar, items),
           Wire!ReadItems([i \in DOMAIN r.specs |-> DataItem(0, r.specs[i].transport, r.data[i])]))
    [] r.kind = "setup" -> Wire!EncodeSetupCommRequest(ref, r.amqCalling, r.amqCalled, r.pduSize)

\* The request the server reads from bytes, in ServerMemory's terms.
SpecRead(w) ==
  IF w.syntax = Wire!SyntaxIDDBRead THEN [syntax |-> "DBREAD", ranges |-> w.ranges]
  ELSE [syntax |-> "S7ANY", transport |-> NameOf(TransportCode, w.transport), count |-> w.count,
        area |-> NameOf(AreaCode, w.area), db |-> w.db, startBit |-> w.startBit]

ParseRequest(kind, param, data) ==
  CASE kind = "read" -> Wire!parseVarSpecs(param, Wire!FuncReadVar)
    [] kind = "write" -> Wire!ParseWriteVarRequest(param, data)
    [] kind = "setup" -> Wire!ParseSetup(param)

RequestRead(kind, p) ==
  LET specs == [i \in DOMAIN p.specs |-> SpecRead(p.specs[i])] IN
  CASE kind = "read" -> [kind |-> kind, specs |-> specs]
    [] kind = "write" -> [kind |-> kind, specs |-> specs, data |-> [i \in DOMAIN p.items |-> BitSets(p.items[i])]]
    [] kind = "setup" ->
         [kind |-> kind, pduSize |-> p.pduSize, amqCalling |-> p.amqCalling, amqCalled |-> p.amqCalled]

-----------------------------------------------------------------------------
(* Answers *)

\* The answer item of readResult or dbRead; a refused item has no data.
AnswerItem(spec, r) ==
  IF r.code # "Success" THEN [code |-> ReturnCode[r.code], transport |-> 0, length |-> 0, data |-> <<>>]
  ELSE DataItem(ReturnCode[r.code], IF spec.syntax = "DBREAD" THEN "DBREAD" ELSE spec.transport, r.data)

\* What handle returns for request r answered with a: header error 0x8500 with
\* the function code, or the answer.
AnswerBytes(ref, r, a) ==
  LET fn == IF r.kind = "read" THEN Wire!FuncReadVar ELSE Wire!FuncWriteVar IN
  CASE a.header = "8500" -> Wire!EncodeAckData(ref, 133, 0, <<fn>>, <<>>)
    [] a.header = "ok" /\ r.kind = "read" ->
         Wire!EncodeReadVarResponse(ref, [i \in DOMAIN a.items |-> AnswerItem(r.specs[i], a.items[i])])
    [] a.header = "ok" /\ r.kind = "write" ->
         Wire!EncodeWriteVarResponse(ref, [i \in DOMAIN a.items |-> ReturnCode[a.items[i].code]])
    [] a.header = "ok" /\ r.kind = "setup" ->
         Wire!EncodeSetupCommResponse(ref, a.items[1].amqCalling, a.items[1].amqCalled, a.items[1].pduSize)

\* The items the client reads from the sections of an answer.
ParseAnswer(kind, param, data) ==
  CASE kind = "read" -> Wire!ParseReadVarResponse(param, data)
    [] kind = "write" -> Wire!ParseWriteVarResponseCodes(param, data)
    [] kind = "setup" -> Wire!ParseSetup(param)

ItemsRead(kind, p) ==
  CASE kind = "read" -> [i \in DOMAIN p.items |-> [code |-> NameOf(ReturnCode, p.items[i].code),
                                                  data |-> BitSets(p.items[i].data)]]
    [] kind = "write" -> [i \in DOMAIN p.codes |-> [code |-> NameOf(ReturnCode, p.codes[i]), data |-> <<>>]]
    [] kind = "setup" -> <<[pduSize |-> p.pduSize, amqCalling |-> p.amqCalling, amqCalled |-> p.amqCalled]>>

-----------------------------------------------------------------------------
(* Properties *)

Ref == 4660
OnWire(r) == r.kind \in {"read", "write", "setup"}

\* What a client asks is what the server reads, whatever mix of items: lengths
\* in bits or bytes by transport, the fill bytes between odd items, two address
\* syntaxes.  A request cut short anywhere drops the connection or is refused;
\* it is never taken for another one.
RequestArrives(r) ==
  LET b == RequestBytes(Ref, r)
      h == Wire!HandleHeader(b)
      p == ParseRequest(r.kind, h.param, h.data)
  IN /\ h.ok /\ h.ref = Ref /\ p.ok
     /\ RequestRead(r.kind, p) = r
     /\ \A n \in 0..Len(b) - 1 : ~Wire!HandleHeader(Wire!Slice(b, 0, n)).ok
     /\ \A n \in 0..Len(h.param) - 1 : ~ParseRequest(r.kind, Wire!Slice(h.param, 0, n), h.data).ok
     /\ r.kind = "write" =>
          \A n \in 0..Len(h.data) - 1 : ~ParseRequest(r.kind, h.param, Wire!Slice(h.data, 0, n)).ok

IsBitRead(spec) == IF spec.syntax = "DBREAD" THEN FALSE ELSE spec.transport = "BIT"

\* What the server answers is what the client reads, item by item: the code
\* and the bytes, or the bit, of each.  The PDU has the size the server counted and fits
\* the negotiated one.  An answer cut short is an error, never a shorter one.
AnswerArrives(r, a, size) ==
  LET b == AnswerBytes(Ref, r, a)
      h == Wire!SectionsOf(b)
      p == ParseAnswer(r.kind, h.param, h.data)
  IN /\ h.ok /\ h.ref = Ref
     /\ a.header = "8500" => h.error = <<133, 0>>
     /\ a.header = "ok" =>
          /\ h.error = <<0, 0>> /\ p.ok
          /\ ItemsRead(r.kind, p) = a.items
          /\ \A n \in 0..Len(h.data) - 1 : ~ParseAnswer(r.kind, h.param, Wire!Slice(h.data, 0, n)).ok
          /\ r.kind = "read" =>
               /\ Len(b) = ReadAnswerSize(a.items) /\ Len(b) <= size
               /\ \A i \in DOMAIN a.items : IsBitRead(r.specs[i]) /\ a.items[i].code = "Success" =>
                    Wire!DecodeAsBit(p.items[i]) = Value(a.items[i].data[1])
     /\ \A n \in 0..Len(b) - 1 : ~Wire!SectionsOf(Wire!Slice(b, 0, n)).ok

RequestsArrive == \A r \in Requests : OnWire(r) => RequestArrives(r)

\* Over the wire a job keeps its meaning, there and back (wire/pdu_rw.go,
\* wire/pdu_server.go): see RequestArrives and AnswerArrives.  An answer is of
\* one session only; that its peers are idle spares TLC the other states.
WireFaithful ==
  /\ RequestsArrive
  /\ \A s \in Sessions :
       /\ st[s] = "reply" /\ OnWire(req[s])
       /\ \A t \in Sessions \ {s} : st[t] = "idle"
       => AnswerArrives(req[s], answer[s], pduSize[s])

=============================================================================
