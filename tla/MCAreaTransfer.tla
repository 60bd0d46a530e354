--------------------------- MODULE MCAreaTransfer ----------------------------
(* AreaTransfer with a small area and small PDU sizes for TLC. *)
EXTENDS AreaTransfer

\* The low bits are the address, the next ones the version; bit 7, the one
\* that bit calls read and write, is 0.
MCByte(a, v) == {k \in 0..6 : ((a + 8 * v) \div 2^k) % 2 = 1}

Call(kind, start, size) == [kind |-> kind, start |-> start, size |-> size]

BitCall(kind, start, bit, value) ==
  [kind |-> kind, start |-> start, size |-> 1, bit |-> bit, value |-> value]

\* Transfers of several chunks, of none, past the end of the area, invalid;
\* a bit read, set, past the end and invalid.
MCCalls ==
  {Call("read", 1, 3), Call("read", 3, 3), Call("read", 0, 0),
   Call("write", 0, 5), Call("write", 2, 4), Call("write", 1, 0), Call("write", -1, 1),
   BitCall("readBit", 2, 7, FALSE), BitCall("writeBit", 2, 7, TRUE), BitCall("writeBit", 5, 7, FALSE),
   BitCall("readBit", 0, 8, FALSE)}

\* One long read and one long write.
MCLongCalls == {Call("read", 0, 5), Call("write", 0, 5)}
=============================================================================
