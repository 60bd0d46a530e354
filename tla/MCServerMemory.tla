--------------------------- MODULE MCServerMemory ----------------------------
(* ServerMemory with a small memory and a handful of requests for TLC. *)
EXTENDS ServerWire, TLC

S7Any(transport, count, area, db, startBit) ==
  [syntax |-> "S7ANY", transport |-> transport, count |-> count, area |-> area,
   db |-> db, startBit |-> startBit]

DBRead(ranges) == [syntax |-> "DBREAD", ranges |-> ranges]

\* DB1 has three bytes, the markers are read-only, one timer.
MCRegions ==
  (<<"DB", 1>> :> [data |-> <<{}, {}, {}>>, readOnly |-> FALSE]) @@
  (<<"M", 0>> :> [data |-> <<{}>>, readOnly |-> TRUE]) @@
  (<<"T", 0>> :> [data |-> <<{}, {}>>, readOnly |-> FALSE])

MCRegisters ==
  {[area |-> "DB", db |-> 1, data |-> <<{0}>>, readOnly |-> TRUE],
   [area |-> "DB", db |-> 2, data |-> <<{}>>, readOnly |-> TRUE],
   [area |-> "M", db |-> 0, data |-> <<>>, readOnly |-> FALSE],
   [area |-> "X", db |-> 0, data |-> <<{}>>, readOnly |-> TRUE]}

MCHostWrites ==
  {[area |-> "DB", db |-> 1, start |-> 1, data |-> <<{0, 1}, {2}>>],
   [area |-> "DB", db |-> 2, start |-> 0, data |-> <<{0}>>],
   [area |-> "T", db |-> 0, start |-> 1, data |-> <<{}, {}>>]}

ReadOf(specs) == [kind |-> "read", specs |-> specs]
WriteOf(specs, data) == [kind |-> "write", specs |-> specs, data |-> data]
SetupOf(size, calling, called) ==
  [kind |-> "setup", pduSize |-> size, amqCalling |-> calling, amqCalled |-> called]

\* Reads of one to three items: odd ones, a bit, a timer, two syntaxes, and
\* items refused for each reason.
MCReads ==
  {ReadOf(<<S7Any("BYTE", 1, "DB", 1, 0), S7Any("CHAR", 1, "DB", 1, 8), S7Any("BIT", 1, "DB", 2, 0)>>),
   ReadOf(<<S7Any("INT", 1, "DB", 1, 8), DBRead(<<[db |-> 1, start |-> 0, n |-> 2]>>)>>),
   ReadOf(<<S7Any("BIT", 1, "DB", 1, 10), S7Any("TIMER", 1, "T", 0, 0), S7Any("BYTE", 1, "M", 0, 4)>>),
   ReadOf(<<DBRead(<<[db |-> 1, start |-> 0, n |-> 1], [db |-> 0, start |-> 0, n |-> 1]>>),
            S7Any("TIMER", 1, "C", 0, 0), S7Any("TIME", 1, "M", 0, 0)>>)}

\* Writes of two items: two bytes, a bit and its neighbours, items refused.
MCWrites ==
  {WriteOf(<<S7Any("BYTE", 1, "DB", 1, 0), S7Any("BYTE", 1, "DB", 1, 8)>>, <<<<{0, 1}>>, <<{0, 1}>>>>),
   WriteOf(<<S7Any("BIT", 1, "DB", 1, 1), S7Any("BYTE", 1, "M", 0, 0)>>, <<<<{}>>, <<{0}>>>>),
   WriteOf(<<S7Any("TIMER", 1, "T", 0, 0), S7Any("WORD", 1, "DB", 1, 0)>>, <<<<{0}, {0}>>, <<{0}>>>>)}

MCRequests ==
  MCReads \cup MCWrites \cup
  {SetupOf(29, 0, 3), SetupOf(100, 1, 1),
   [kind |-> "userdata"], [kind |-> "malformed"], [kind |-> "unreadable"]}

=============================================================================
