---------------------------- MODULE AreaTransfer -----------------------------
(***************************************************************************)
(* ReadArea and WriteArea of the client (client/readwrite.go), ReadBit and *)
(* WriteBit (client/bit.go) against the memory of a peer: a transfer is    *)
(* cut into chunks that fit the negotiated PDU size, one Read Var or Write *)
(* Var job each; a bit is a BIT item of its own, one job.  The peer is     *)
(* this repository's server (the jobs of VarJobs) or, with Peer =          *)
(* "foreign", a PLC whose answers may also be short, long, empty or        *)
(* unreadable.  Other clients and the host change the memory between the   *)
(* chunks.                                                                 *)
(*                                                                         *)
(* Byte(a, v) is the byte that the writer of version v writes at address   *)
(* a: a call writes its number, others the numbers after MaxCalls.  Where  *)
(* Byte tells addresses and versions apart, a byte that moves off its      *)
(* address shows.                                                          *)
(*                                                                         *)
(* How a call and its connection interleave with the client's other calls  *)
(* is ClientSession's subject: here one call runs at a time, as reqMu has  *)
(* it, and ClientSession's result, that a connection on which an answer    *)
(* was abandoned gives no answer to any later call, is the link "stale".   *)
(***************************************************************************)
EXTENDS VarJobs, VarWire

CONSTANTS
  Calls,        \* the calls made: [kind, start, size], bit calls also bit and value
  PDUSizes,     \* the PDU sizes a handshake may end with
  AreaSize,     \* bytes of the peer's area, DB 1
  Peer,         \* "server" or "foreign"
  MaxCalls,     \* bound on the number of calls
  MaxConns,     \* bound on the number of connections
  MaxOthers,    \* bound on the writes of others
  Byte(_, _)    \* address, version -> the byte written

ASSUME TransferAssumption ==
  /\ AreaSize \in Nat /\ MaxConns \in Nat /\ MaxCalls \in Nat /\ MaxOthers \in Nat
  /\ PDUSizes \subseteq 0..MaxUint16 /\ Peer \in {"server", "foreign"}

ASSUME CallsAssumption ==
  \A c \in Calls :
     \/ c \in [kind : {"read", "write"}, start : Int, size : Int]
     \/ c \in [kind : {"readBit", "writeBit"}, start : Int, size : {1}, bit : Int, value : BOOLEAN]

\* The area's bytes and those the calls write are bytes.
ASSUME ByteAssumption ==
  \A v \in 0..MaxCalls + MaxOthers :
     /\ \A a \in 0..AreaSize - 1 : Byte(a, v) \in Octet
     /\ \A c \in Calls : \A i \in 0..c.size - 1 : Byte(c.start + i, v) \in Octet

VARIABLES
  link,         \* "none": conn is nil; "up", "stale", "dead": the connection
  connNo,       \* the number of the connection, 0 before the first
  pduSize,      \* connection -> the PDU size negotiated for it
  flight,       \* connection -> the requests sent and not yet served
  reply,        \* the answer to the request the call waits for, or NoReply
  mem,          \* the peer's memory
  others,       \* the number of writes of others so far
  pc,           \* where the call is: "idle", "chunk", "wait"
  call,         \* the call, the last one when idle
  callNo,       \* the number of calls so far
  off,          \* bytes of the call done: offset - start
  chunk,        \* the size of the chunk sent last, 0 before the first
  got,          \* ReadArea's local result
  res,          \* outcome of the last call
  ctxDone,      \* has the call's context ended?
  held,         \* history: address -> the bytes it held since the call began
  applied,      \* history: the offsets the peer wrote for this call
  written       \* history: address -> the version last written to the whole byte

netVars == <<link, connNo, pduSize, flight, reply>>
memVars == <<mem, others, held, applied, written>>
callVars == <<pc, call, callNo, off, chunk, got, res>>
vars == <<netVars, memVars, callVars, ctxDone>>

Area == <<"DB", 1>>
Addresses == 0..AreaSize - 1
ByteAt(a) == mem[Area].data[a + 1]
NoCall == [kind |-> "none", start |-> 0, size |-> 0]
NoReply == Refused("none")

\* The PDU size the client's session has: 0 without a connection.
PDUSize == IF link = "none" THEN 0 ELSE pduSize[connNo]

-----------------------------------------------------------------------------
(* Chunks and sizes *)

MaxWriteVarBytes == 8191
ReadVarRequestOverhead == 24
WriteVarRequestOverhead == 28

\* maxData and maxPayload.
MaxChunk(kind, size) ==
  LET n == size - (IF kind = "read" THEN ReadVarRequestOverhead ELSE WriteVarRequestOverhead)
  IN IF n < 1 THEN 200 ELSE n

IsBit(c) == c.kind \in {"readBit", "writeBit"}
Reads(c) == c.kind \in {"read", "readBit"}

\* The size of the request the call's encoder builds for n bytes.
RequestSize(kind, n) ==
  LET item == EncodeS7Any(132, 1, 0, n)
      bit == EncodeS7AnyBit(132, 1, 0, 7)
  IN Len(CASE kind = "read" -> EncodeReadVarRequest(1, <<item>>)
           [] kind = "write" -> EncodeWriteVarRequest(1, item, [i \in 1..n |-> 0])
           [] kind = "readBit" -> EncodeReadVarRequest(1, <<bit>>)
           [] kind = "writeBit" -> EncodeWriteVarBitRequest(1, bit, 1))

\* validateAddress and validateRangeEnd, validateBitAddress.
Valid(c) ==
  /\ c.start >= 0 /\ c.size >= 0
  /\ c.start <= MaxS7AnyByteOffset
  /\ c.start + c.size <= MaxS7AnyByteOffset + 1
  /\ IsBit(c) => c.bit \in 0..7

ClassifyReadOutcome(requested, returned) ==
  IF requested <= 0 THEN "success"
  ELSE IF returned = 0 THEN "empty-read"
  ELSE IF returned < requested THEN "short-read"
  ELSE "success"

Init ==
  /\ link = "none" /\ connNo = 0
  /\ pduSize = [k \in 1..MaxConns |-> 0]
  /\ flight = [k \in 1..MaxConns |-> <<>>]
  /\ reply = NoReply
  /\ mem = [k \in {Area} |->
              [data |-> [i \in 1..AreaSize |-> Byte(i - 1, 0)], readOnly |-> FALSE]]
  /\ others = 0
  /\ pc = "idle" /\ call = NoCall /\ callNo = 0 /\ off = 0 /\ chunk = 0 /\ got = <<>> /\ res = "none"
  /\ ctxDone = FALSE
  /\ held = [a \in Addresses |-> {}] /\ applied = {} /\ written = [a \in Addresses |-> 0]

-----------------------------------------------------------------------------
(* The connection *)

\* Connect ends a handshake; the requests on older connections stay behind.
Connect ==
  /\ pc = "idle" /\ connNo < MaxConns
  /\ connNo' = connNo + 1 /\ link' = "up"
  /\ \E size \in PDUSizes : pduSize' = [pduSize EXCEPT ![connNo + 1] = size]
  /\ UNCHANGED <<flight, reply, memVars, callVars, ctxDone>>

\* Close between two calls.
Close ==
  /\ pc = "idle" /\ link # "none"
  /\ link' = "none"
  /\ UNCHANGED <<connNo, pduSize, flight, reply, memVars, callVars, ctxDone>>

\* A connection breaks: what is in flight on it is lost.
ConnectionLost(k) ==
  /\ k \in 1..connNo
  /\ flight' = [flight EXCEPT ![k] = <<>>]
  /\ link' = IF k = connNo /\ link # "none" THEN "dead" ELSE link
  /\ UNCHANGED <<connNo, pduSize, reply, memVars, callVars, ctxDone>>

CtxEnds ==
  /\ pc # "idle" /\ ~ctxDone
  /\ ctxDone' = TRUE
  /\ UNCHANGED <<netVars, memVars, callVars>>

-----------------------------------------------------------------------------
(* The client's call *)

\* The outcomes of a cancelled or expired context.
CtxOutcomes == {"timeout", "transport-error"}

\* A call is made: an invalid address is refused, and WriteArea looks at the
\* context even when there is nothing to write.
Begin(c) ==
  /\ pc = "idle" /\ callNo < MaxCalls
  /\ call' = c /\ callNo' = callNo + 1
  /\ off' = 0 /\ chunk' = 0 /\ got' = <<>>
  /\ ctxDone' \in BOOLEAN
  /\ \/ ~Valid(c) /\ pc' = "idle" /\ res' = "invalid"
     \/ Valid(c) /\ c.kind = "write" /\ ctxDone' /\ pc' = "idle" /\ res' \in CtxOutcomes
     \/ Valid(c) /\ ~(c.kind = "write" /\ ctxDone') /\ pc' = "chunk" /\ res' = "none"
  /\ reply' = NoReply
  /\ held' = [a \in Addresses |-> {ByteAt(a)}] /\ applied' = {}
  /\ UNCHANGED <<link, connNo, pduSize, flight, mem, others, written>>

\* The call returns with outcome r.  A failed read keeps what it gathered only
\* where the answer, not the exchange, was bad: data tells which.
End(r, data) ==
  /\ pc' = "idle" /\ res' = r /\ got' = data
  /\ UNCHANGED <<call, callNo, off, chunk>>

\* The loop is over.
Finish ==
  /\ pc = "chunk" /\ ~IsBit(call) /\ off = call.size
  /\ End(IF call.kind = "read" THEN ClassifyReadOutcome(call.size, Len(got)) ELSE "success", got)
  /\ UNCHANGED <<netVars, memVars, ctxDone>>

\* The context has ended at the top of the loop or in the rate limit's wait; a
\* bit call looks at the connection first.
Cancelled ==
  /\ pc = "chunk" /\ off < call.size /\ ctxDone
  /\ IsBit(call) => link # "none"
  /\ \E r \in CtxOutcomes : End(r, <<>>)
  /\ UNCHANGED <<netVars, memVars, ctxDone>>

\* Mutant: the last chunk is not cut to what remains.
ChunkSizeUncut == MaxChunk(call.kind, PDUSize)

\* The bytes of the next chunk: planReadChunks cuts the transfer into full
\* chunks and a rest.
ChunkSize == Min2(call.size - off, MaxChunk(call.kind, PDUSize))

\* Mutant: every chunk is written from the call's start on.
ChunkRequestUnmoved ==
  [kind |-> call.kind, callNo |-> callNo, off |-> off, n |-> ChunkSize,
   spec |-> [syntax |-> "S7ANY", transport |-> "BYTE", count |-> ChunkSize, area |-> "DB",
             db |-> 1, startBit |-> 8 * call.start],
   data |-> [i \in 1..ChunkSize |-> Byte(call.start + off + i - 1, callNo)]]

\* The request for the next chunk.
ChunkRequest ==
  [kind |-> call.kind, callNo |-> callNo, off |-> off, n |-> ChunkSize,
   spec |-> [syntax |-> "S7ANY", transport |-> "BYTE", count |-> ChunkSize, area |-> "DB",
             db |-> 1, startBit |-> 8 * (call.start + off)],
   data |-> [i \in 1..ChunkSize |-> Byte(call.start + off + i - 1, callNo)]]

\* Mutant: WriteBit writes back the byte it has seen, with the bit changed.
BitRequestByte ==
  [kind |-> IF Reads(call) THEN "read" ELSE "write", callNo |-> callNo, off |-> 0, n |-> 1,
   spec |-> [syntax |-> "S7ANY", transport |-> IF Reads(call) THEN "BIT" ELSE "BYTE", count |-> 1, area |-> "DB",
             db |-> 1, startBit |-> 8 * call.start + IF Reads(call) THEN call.bit ELSE 0],
   data |-> IF Reads(call) THEN <<>>
            ELSE <<(IF call.start \in Addresses THEN ByteAt(call.start) ELSE {}) \cup {call.bit}>>]

\* The request of a bit call: one BIT item, and its value in a byte.
BitRequest ==
  [kind |-> IF Reads(call) THEN "read" ELSE "write", callNo |-> callNo, off |-> 0, n |-> 1,
   spec |-> [syntax |-> "S7ANY", transport |-> "BIT", count |-> 1, area |-> "DB",
             db |-> 1, startBit |-> 8 * call.start + call.bit],
   data |-> IF Reads(call) THEN <<>> ELSE <<IF call.value THEN {0} ELSE {}>>]

\* Why the request is not sent, or "sent".
SendOutcome ==
  IF call.kind = "write" /\ ChunkSize > MaxWriteVarBytes THEN "invalid"
  ELSE IF link = "none" THEN "transport-error"
  ELSE IF PDUSize > 0 /\ RequestSize(call.kind, ChunkSize) > PDUSize THEN "protocol-error"
  ELSE IF link = "dead" THEN "transport-error"
  ELSE "sent"

\* One turn of the loop up to the answer: encode the chunk, or the bit, and
\* send it.
SendChunk ==
  /\ pc = "chunk" /\ off < call.size
  /\ ctxDone => IsBit(call) /\ link = "none"
  /\ \/ /\ SendOutcome = "sent"
        /\ flight' = [flight EXCEPT ![connNo] = Append(@, IF IsBit(call) THEN BitRequest ELSE ChunkRequest)]
        /\ pc' = "wait" /\ chunk' = ChunkSize
        /\ UNCHANGED <<call, callNo, off, got, res>>
     \/ /\ SendOutcome # "sent"
        /\ End(SendOutcome, <<>>)
        /\ UNCHANGED flight
  /\ UNCHANGED <<link, connNo, pduSize, reply, memVars, ctxDone>>

\* sendReceive fails after the request is written: the context ends, the
\* connection breaks, or the answer is not this request's.  The connection
\* is then dead, or out of step.
ExchangeFails ==
  /\ pc = "wait"
  /\ ctxDone \/ link # "up"
  /\ \E r \in CtxOutcomes \cup (IF link = "stale" THEN {"protocol-error"} ELSE {}) : End(r, <<>>)
  /\ link' \in (IF link = "dead" THEN {"dead"} ELSE {"dead", "stale"})
  /\ reply' = NoReply
  /\ UNCHANGED <<connNo, pduSize, flight, memVars, ctxDone>>

\* Mutant: ReadArea does not look at the length of an item.
TakeReadUnchecked ==
  /\ pc = "wait" /\ call.kind = "read" /\ reply # NoReply
  /\ LET item == reply.items[1] IN
        \/ /\ reply.header = "8500"
           /\ End("rejected", <<>>)
        \/ /\ reply.header = "unreadable"
           /\ End("protocol-error", got)
        \/ /\ reply.header = "ok" /\ reply.items = <<>>
           /\ End("empty-read", got)
        \/ /\ reply.header = "ok" /\ reply.items # <<>> /\ item.code # "Success"
           /\ End("rejected", got)
        \/ /\ reply.header = "ok" /\ reply.items # <<>> /\ item.code = "Success"
           /\ got' = got \o item.data /\ off' = off + chunk
           /\ pc' = "chunk"
           /\ UNCHANGED <<call, callNo, chunk, res>>
  /\ reply' = NoReply
  /\ UNCHANGED <<link, connNo, pduSize, flight, memVars, ctxDone>>

\* ReadArea takes an answer: it keeps an item that is not longer than the
\* chunk and goes on.
TakeRead ==
  /\ pc = "wait" /\ call.kind = "read" /\ reply # NoReply
  /\ LET item == reply.items[1] IN
        \/ /\ reply.header = "8500"
           /\ End("rejected", <<>>)
        \/ /\ reply.header = "unreadable"
           /\ End("protocol-error", got)
        \/ /\ reply.header = "ok" /\ reply.items = <<>>
           /\ End("empty-read", got)
        \/ /\ reply.header = "ok" /\ reply.items # <<>> /\ item.code # "Success"
           /\ End("rejected", got)
        \/ /\ reply.header = "ok" /\ reply.items # <<>> /\ item.code = "Success"
           /\ IF Len(item.data) > chunk THEN End("protocol-error", got)
              ELSE /\ got' = got \o item.data /\ off' = off + chunk
                   /\ pc' = "chunk"
                   /\ UNCHANGED <<call, callNo, chunk, res>>
  /\ reply' = NoReply
  /\ UNCHANGED <<link, connNo, pduSize, flight, memVars, ctxDone>>

\* ReadBit takes an answer: exactly one item, of one byte, whose low bit is
\* the value.
TakeBit ==
  /\ pc = "wait" /\ call.kind = "readBit" /\ reply # NoReply
  /\ LET item == reply.items[1] IN
        \/ /\ reply.header = "8500"
           /\ End("rejected", <<>>)
        \/ /\ reply.header = "unreadable" \/ (reply.header = "ok" /\ Len(reply.items) # 1)
           /\ End("protocol-error", <<>>)
        \/ /\ reply.header = "ok" /\ Len(reply.items) = 1 /\ item.code # "Success"
           /\ End("rejected", <<>>)
        \/ /\ reply.header = "ok" /\ Len(reply.items) = 1 /\ item.code = "Success"
           /\ IF Len(item.data) # 1 THEN End("protocol-error", <<>>)
              ELSE End("success", <<item.data[1] \cap {0}>>)
  /\ reply' = NoReply
  /\ UNCHANGED <<link, connNo, pduSize, flight, memVars, ctxDone>>

\* ParseWriteVarResponse: has the write's only item succeeded?
Written(a) == IF a.header # "ok" \/ a.items = <<>> THEN FALSE ELSE a.items[1].code = "Success"

\* WriteArea or WriteBit takes an answer: any code but success ends the call.
TakeWrite ==
  /\ pc = "wait" /\ ~Reads(call) /\ reply # NoReply
  /\ \/ ~Written(reply) /\ End("rejected", <<>>)
     \/ Written(reply) /\ IsBit(call) /\ End("success", <<>>)
     \/ /\ Written(reply) /\ ~IsBit(call)
        /\ off' = off + chunk
        /\ pc' = "chunk"
        /\ UNCHANGED <<call, callNo, chunk, got, res>>
  /\ reply' = NoReply
  /\ UNCHANGED <<link, connNo, pduSize, flight, memVars, ctxDone>>

-----------------------------------------------------------------------------
(* The peer *)

\* What the peer may answer to the read f on connection k: what the server
\* does; another peer also bytes of the span that are too few or too many, no
\* item, or an answer that cannot be parsed.
ReadAnswers(f, k) ==
  LET a == ReadJob(mem, <<f.spec>>, pduSize[k])
      Answer(data) == Ok(<<[code |-> "Success", data |-> data]>>)
      data == a.items[1].data
  IN {a} \cup
     (IF Peer = "server" THEN {} ELSE {Ok(<<>>), Refused("unreadable")}) \cup
     (IF Peer = "server" \/ a.header # "ok" \/ data = <<>> THEN {}
      ELSE {Answer(SubSeq(data, 1, n)) : n \in 0..Len(data) - 1} \cup {Answer(data \o data)})

\* What it may answer to the write f, with the memory it then has, and
\* whether it wrote.
WriteAnswers(f) ==
  LET m == AfterWrites(mem, <<f.spec>>, <<f.data>>, 1)
      wrote == WriteCode(mem, f.spec, f.data) = "Success"
  IN {[mem |-> m, wrote |-> wrote, answer |-> WriteJob(mem, <<f.spec>>, <<f.data>>)]}
       \cup IF Peer = "server" THEN {}
            ELSE {[mem |-> mem, wrote |-> FALSE, answer |-> Refused("8104")],
                  [mem |-> m, wrote |-> wrote, answer |-> Refused("unreadable")]}

\* The answer a reaches the call when it still waits for it.
Deliver(f, k, a) ==
  reply' = IF k = connNo /\ link = "up" /\ pc = "wait" /\ f.callNo = callNo /\ f.off = off
           THEN a ELSE reply

\* The memory becomes m.
SetMemory(m) ==
  /\ mem' = m
  /\ held' = [a \in Addresses |-> held[a] \cup {m[Area].data[a + 1]}]

\* The peer serves the oldest request of a connection, the client's current
\* one or not.
ServeRead(k) ==
  /\ flight[k] # <<>> /\ Head(flight[k]).kind = "read"
  /\ \E a \in ReadAnswers(Head(flight[k]), k) : Deliver(Head(flight[k]), k, a)
  /\ flight' = [flight EXCEPT ![k] = Tail(@)]
  /\ UNCHANGED <<link, connNo, pduSize, memVars, callVars, ctxDone>>

ServeWrite(k) ==
  /\ flight[k] # <<>> /\ Head(flight[k]).kind = "write"
  /\ LET f == Head(flight[k]) IN
       \E w \in WriteAnswers(f) :
         /\ Deliver(f, k, w.answer)
         /\ SetMemory(w.mem)
         /\ applied' = IF f.callNo = callNo /\ w.wrote
                       THEN applied \cup f.off..f.off + f.n - 1 ELSE applied
         /\ written' = IF ~w.wrote \/ f.spec.transport = "BIT" THEN written
                       ELSE [a \in Addresses |-> IF a - f.spec.startBit \div 8 \in 0..f.n - 1
                                                 THEN f.callNo ELSE written[a]]
  /\ flight' = [flight EXCEPT ![k] = Tail(@)]
  /\ UNCHANGED <<link, connNo, pduSize, others, callVars, ctxDone>>

\* Another client, or the host, writes the area.
OtherWrites ==
  /\ others < MaxOthers
  /\ others' = others + 1
  /\ SetMemory([mem EXCEPT ![Area].data =
                  [i \in 1..AreaSize |-> Byte(i - 1, MaxCalls + others + 1)]])
  /\ written' = [a \in Addresses |-> MaxCalls + others + 1]
  /\ UNCHANGED <<applied, netVars, callVars, ctxDone>>

Next ==
  \/ Connect \/ Close \/ CtxEnds \/ OtherWrites
  \/ \E c \in Calls : Begin(c)
  \/ Finish \/ Cancelled \/ SendChunk \/ ExchangeFails \/ TakeRead \/ TakeBit \/ TakeWrite
  \/ \E k \in 1..MaxConns : ConnectionLost(k) \/ ServeRead(k) \/ ServeWrite(k)

Spec == Init /\ [][Next]_vars

-----------------------------------------------------------------------------
(* Properties *)

Outcomes == {"none", "success", "empty-read", "short-read", "rejected", "timeout",
             "transport-error", "protocol-error", "invalid"}

\* Every variable has its type; the offset stays within the call.
TypeOK ==
  /\ link \in {"none", "up", "stale", "dead"}
  /\ connNo \in 0..MaxConns /\ (connNo = 0 => link = "none")
  /\ pduSize \in [1..MaxConns -> PDUSizes \cup {0}]
  /\ DOMAIN flight = 1..MaxConns
  /\ mem[Area].data \in [1..AreaSize -> SUBSET (0..7)]
  /\ others \in 0..MaxOthers
  /\ pc \in {"idle", "chunk", "wait"}
  /\ call \in Calls \cup {NoCall} /\ callNo \in 0..MaxCalls
  /\ off \in 0..(IF call.size > 0 THEN call.size ELSE 0)
  /\ res \in Outcomes /\ ctxDone \in BOOLEAN

\* A byte without the bits that bit calls write.
BitsWritten == {c.bit : c \in {d \in Calls : d.kind = "writeBit"}}
Rest(b) == b \ BitsWritten

\* Has some writer written b for address a?
WrittenFor(b, a) == \E v \in 0..MaxCalls + MaxOthers : Rest(b) = Rest(Byte(a, v))

\* A read reported as success has every byte asked for, each the byte of its
\* own address, and none older than the call: "Empty or short reads are never
\* reported as success" (API.md:142), whatever the peer answers, others write
\* meanwhile and earlier calls left behind.  A bit read is one the byte had
\* during the call.
SuccessIsExact ==
  /\ pc = "idle" /\ call.kind = "readBit" /\ res = "success" =>
       \E b \in held[call.start] : (call.bit \in b) = (got = <<{0}>>)
  /\ pc = "idle" /\ call.kind = "read" /\ res = "success" =>
    /\ Len(got) = call.size
    /\ \A i \in 1..Len(got) :
         /\ WrittenFor(got[i], call.start + i - 1)
         /\ got[i] \in held[call.start + i - 1]

\* What the peer wrote for a WriteArea call is a prefix of its data: all of
\* it when the call returned nil; else the chunks acknowledged and at most
\* the one whose answer is missing.  And no chunk of any write, not even one
\* served after its call has returned, puts a byte at an address it was not
\* meant for.
WriteIsPrefix ==
  /\ \A a \in Addresses : WrittenFor(ByteAt(a), a)
  /\ call.kind \in {"write", "writeBit"} =>
       /\ applied \in {0..off - 1} \cup {0..off + chunk - 1}
       /\ pc = "idle" /\ res = "success" => applied = 0..call.size - 1

\* WriteBit is "not byte read-modify-write" (client/bit.go:65): whenever it is
\* served, during its call or after it was given up, what others and earlier
\* calls wrote to the rest of the byte stays.
NoLostUpdate ==
  \A a \in Addresses : Rest(ByteAt(a)) = Rest(Byte(a, written[a]))

\* "Large payloads are chunked to fit the negotiated PDU size"
\* (client/readwrite.go:199): no write fails because of its own chunk size.
WriteFitsPDU ==
  pc = "chunk" /\ call.kind = "write" /\ off < call.size /\ link = "up" =>
    SendOutcome = "sent"

\* Data never holds a byte moved off its address: "appending it would move
\* every later byte off its address" (client/readwrite.go:159) is why ReadArea
\* refuses an item that is too long.
DataInPlace ==
  pc = "idle" /\ call.kind = "read" =>
    \A i \in 1..Len(got) : WrittenFor(got[i], call.start + i - 1)

=============================================================================
