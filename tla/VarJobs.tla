------------------------------- MODULE VarJobs -------------------------------
(***************************************************************************)
(* Read Var and Write Var jobs as the server answers them                  *)
(* (server/session.go, server/memory.go): how an item is resolved against  *)
(* the registered areas, what it reads or writes, and how large the answer *)
(* is.  Pure operators on a value regs of the server's memory.             *)
(*                                                                         *)
(* regs maps the keys of the registered areas to regions                   *)
(* [data |-> bytes, readOnly |-> BOOLEAN].  A byte is the set of its bits  *)
(* that are 1, so that a BIT write is the union or difference with one     *)
(* bit.  Offsets are 0-based as in the code, sequences 1-based.            *)
(***************************************************************************)
EXTENDS S7AnyLimits, Integers, Sequences

Areas == {"I", "Q", "M", "DB", "T", "C"}
timerOrCounter(area) == area \in {"T", "C"}

Octet == SUBSET (0..7)
Region == [data : Seq(Octet), readOnly : BOOLEAN]

IsMemory(regs) ==
  /\ DOMAIN regs \subseteq Areas \X Nat
  /\ \A k \in DOMAIN regs : regs[k] \in Region

\* An item of a job as it comes from the wire: numbers are unsigned, nothing
\* else about them is checked yet.
DBReadArea == [db : Nat, start : Nat, n : Nat]
VarSpec ==
  [syntax : {"S7ANY"}, transport : STRING, count : Nat, area : STRING, db : Nat, startBit : Nat]
    \cup [syntax : {"DBREAD"}, ranges : Seq(DBReadArea)]
    \cup [syntax : {"other"}]

\* A request as handle finds it; a Write Var job has data for each item.
IsRequest(r) ==
  \/ r \in [kind : {"read"}, specs : Seq(VarSpec)]
  \/ r \in [kind : {"write"}, specs : Seq(VarSpec), data : Seq(Seq(Octet))] /\ Len(r.data) = Len(r.specs)
  \/ r \in [kind : {"setup"}, pduSize : Nat, amqCalling : Nat, amqCalled : Nat]
  \/ r \in [kind : {"userdata", "malformed", "unsupported", "unreadable"}]

\* The arguments of the host's Register and Write calls.
RegisterCall == [area : STRING, db : Int, data : Seq(Octet), readOnly : BOOLEAN]
WriteCall == [area : STRING, db : Int, start : Int, data : Seq(Octet)]

\* The key of an area, "none" for one the server cannot hold.
keyOf(area, db) ==
  IF area \notin Areas THEN <<"none", 0>>
  ELSE IF area # "DB" THEN <<area, 0>>
  ELSE IF db < 1 \/ db > MaxS7AnyDBNumber THEN <<"none", 0>>
  ELSE <<area, db>>

\* Bytes per element of a request transport size, 0 for an unknown one.
elementSize(transport) ==
  CASE transport \in {"BIT", "BYTE", "CHAR"} -> 1
    [] transport \in {"WORD", "INT", "COUNTER", "TIMER"} -> 2
    [] transport \in {"DWORD", "DINT", "REAL"} -> 4
    [] OTHER -> 0

TransportOf(area) == IF area = "T" THEN "TIMER" ELSE "COUNTER"

\* The bytes an item addresses: first byte, number of bytes, bit.
target(spec) ==
  LET tc == spec.transport \in {"TIMER", "COUNTER"} IN
  [start |-> IF tc THEN 2 * spec.startBit ELSE spec.startBit \div 8,
   bit |-> IF tc THEN 0 ELSE spec.startBit % 8,
   size |-> elementSize(spec.transport) * spec.count,
   isBit |-> spec.transport = "BIT"]

\* The return code that refuses an item, or "Success".  The order of the
\* checks decides which code an item with several faults gets.
resolve(regs, spec) ==
  LET key == keyOf(spec.area, spec.db)
      tc == spec.transport \in {"TIMER", "COUNTER"}
      t == target(spec)
  IN IF spec.syntax # "S7ANY" THEN "AddressFault"
     ELSE IF key \notin DOMAIN regs THEN "NotAvailable"
     ELSE IF elementSize(spec.transport) = 0 THEN "DataTypeFault"
     ELSE IF \/ timerOrCounter(spec.area) # tc
             \/ tc /\ spec.transport # TransportOf(spec.area) THEN "AddressFault"
     ELSE IF t.size = 0 \/ (t.isBit /\ t.size > 1) THEN "AddressFault"
     ELSE IF ~tc /\ ~t.isBit /\ spec.startBit % 8 # 0 THEN "AddressFault"
     ELSE IF t.start + t.size > Len(regs[key].data) THEN "AddressFault"
     ELSE "Success"

Bytes(regs, key, start, n) == SubSeq(regs[key].data, start + 1, start + n)

\* readResult: the bytes of a resolved item; a BIT item is one byte 0 or 1.
readResult(regs, spec) ==
  LET t == target(spec)
      src == Bytes(regs, keyOf(spec.area, spec.db), t.start, t.size)
  IN [code |-> "Success",
      data |-> IF t.isBit THEN <<IF t.bit \in src[1] THEN {0} ELSE {}>> ELSE src]

\* Why a range of a DBREAD item is refused, or "Success".
RangeFault(regs, r) ==
  LET key == <<"DB", r.db>> IN
  IF r.db = 0 \/ key \notin DOMAIN regs THEN "NotAvailable"
  ELSE IF r.n = 0 \/ r.start + r.n > Len(regs[key].data) THEN "AddressFault"
  ELSE "Success"

\* dbRead: per range the code 0xFF and its bytes; the first range that is
\* refused refuses the item.
dbRead(regs, ranges) ==
  LET faults == {i \in 1..Len(ranges) : RangeFault(regs, ranges[i]) # "Success"}
      read[i \in 0..Len(ranges)] ==
        IF i = 0 THEN <<>>
        ELSE read[i - 1] \o <<0..7>> \o Bytes(regs, <<"DB", ranges[i].db>>, ranges[i].start, ranges[i].n)
  IN IF faults = {} THEN [code |-> "Success", data |-> read[Len(ranges)]]
     ELSE [code |-> RangeFault(regs, ranges[CHOOSE i \in faults : \A j \in faults : i <= j]),
           data |-> <<>>]

\* The result of one item of a Read Var job.
ReadItem(regs, spec) ==
  IF spec.syntax = "DBREAD" THEN dbRead(regs, spec.ranges)
  ELSE IF resolve(regs, spec) = "Success" THEN readResult(regs, spec)
  ELSE [code |-> resolve(regs, spec), data |-> <<>>]

\* ReadVarResultSize: 4 bytes and the data, filled to even unless last.
ReadVarResultSize(r, last) ==
  4 + Len(r.data) + IF ~last /\ Len(r.data) % 2 # 0 THEN 1 ELSE 0

AckDataHeaderSize == 12

\* The size of the answer EncodeReadVarResponse builds.
ReadAnswerSize(results) ==
  LET n == Len(results)
      size[i \in 0..n] ==
        IF i = 0 THEN AckDataHeaderSize + 2
        ELSE size[i - 1] + ReadVarResultSize(results[i], i = n)
  IN size[n]

\* The code writeItem returns for one item and its data.
WriteCode(regs, spec, data) ==
  LET key == keyOf(spec.area, spec.db) IN
  IF resolve(regs, spec) # "Success" THEN resolve(regs, spec)
  ELSE IF Len(data) # target(spec).size THEN "DataSizeFault"
  ELSE IF regs[key].readOnly \/ timerOrCounter(spec.area) THEN "AccessFault"
  ELSE "Success"

\* bytes with data copied over them from offset start on.
Overwrite(bytes, start, data) ==
  [i \in 1..Len(bytes) |->
     IF i \in start + 1..start + Len(data) THEN data[i - start] ELSE bytes[i]]

\* The memory after writeItem: a BIT item sets or clears one bit.
WriteItem(regs, spec, data) ==
  LET key == keyOf(spec.area, spec.db)
      t == target(spec)
      byte == regs[key].data[t.start + 1]
      new == IF ~t.isBit THEN data
             ELSE IF 0 \in data[1] THEN <<byte \cup {t.bit}>>
             ELSE <<byte \ {t.bit}>>
  IN IF WriteCode(regs, spec, data) # "Success" THEN regs
     ELSE [regs EXCEPT ![key].data = Overwrite(@, t.start, new)]

-----------------------------------------------------------------------------
(* The host's side of the memory (memory.go): the memory after a call *)

\* register adds an area of at least one byte; one that exists stays.
register(regs, r) ==
  LET key == keyOf(r.area, r.db) IN
  IF key[1] = "none" \/ r.data = <<>> \/ key \in DOMAIN regs THEN regs
  ELSE [k \in DOMAIN regs \cup {key} |->
          IF k = key THEN [data |-> r.data, readOnly |-> r.readOnly] ELSE regs[k]]

\* Is the span inside a registered area?
span(regs, area, db, start, size) ==
  LET key == keyOf(area, db) IN
  /\ key \in DOMAIN regs
  /\ start >= 0 /\ size >= 0 /\ start + size <= Len(regs[key].data)

\* write copies data over the span; a read-only area too.
write(regs, w) ==
  IF ~span(regs, w.area, w.db, w.start, Len(w.data)) THEN regs
  ELSE [regs EXCEPT ![keyOf(w.area, w.db)].data = Overwrite(@, w.start, w.data)]

-----------------------------------------------------------------------------
(* Whole jobs: what a job does when nothing else happens meanwhile *)

\* An answer: its header error and its items.
Ok(items) == [header |-> "ok", items |-> items]
Refused(error) == [header |-> error, items |-> <<>>]

\* All items of a Read Var job on one memory, or the refusal 0x8500 when the
\* answer does not fit the PDU size.
ReadJob(regs, specs, pduSize) ==
  LET results == [i \in 1..Len(specs) |-> ReadItem(regs, specs[i])] IN
  IF ReadAnswerSize(results) > pduSize THEN Refused("8500")
  ELSE Ok(results)

\* The memory after the first n items of a Write Var job.
AfterWrites(regs, specs, data, n) ==
  LET mem[i \in 0..n] ==
        IF i = 0 THEN regs ELSE WriteItem(mem[i - 1], specs[i], data[i])
  IN mem[n]

\* The answer to a Write Var job: each item's code on the memory the items
\* before it left.
WriteJob(regs, specs, data) ==
  Ok([i \in 1..Len(specs) |->
        [code |-> WriteCode(AfterWrites(regs, specs, data, i - 1), specs[i], data[i]),
         data |-> <<>>]])

maxAmQ == 2
Min2(a, b) == IF a < b THEN a ELSE b
Max2(a, b) == IF a > b THEN a ELSE b

\* Mutant: the PDU size asked for is granted.
setupUncapped(req, maxPDUSize) ==
  [pduSize |-> req.pduSize,
   amqCalling |-> Max2(1, Min2(req.amqCalling, maxAmQ)),
   amqCalled |-> Max2(1, Min2(req.amqCalled, maxAmQ))]

\* The smaller of what is asked and what the server has, at least one job in
\* parallel.
setup(req, maxPDUSize) ==
  [pduSize |-> Min2(req.pduSize, maxPDUSize),
   amqCalling |-> Max2(1, Min2(req.amqCalling, maxAmQ)),
   amqCalled |-> Max2(1, Min2(req.amqCalled, maxAmQ))]

-----------------------------------------------------------------------------
(* What handle does with a request *)

\* A request whose header cannot be read drops the connection; Read Var and
\* Write Var go to the memory; every other one is answered at once: a setup
\* with what is granted, the rest as not implemented.
TouchesMemory(r) == r.kind \in {"read", "write"}
Dropped(r) == r.kind = "unreadable"
PDUSizeAfter(r, pduSize, maxPDUSize) ==
  IF r.kind = "setup" THEN setup(r, maxPDUSize).pduSize ELSE pduSize
AnsweredAtOnce(r, maxPDUSize) ==
  CASE r.kind = "setup" -> Ok(<<setup(r, maxPDUSize)>>)
    [] r.kind = "userdata" -> Refused("userdata8104")
    [] r.kind \in {"malformed", "unsupported"} -> Refused("8104")

=============================================================================
