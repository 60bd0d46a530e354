------------------------------- MODULE Capture -------------------------------
(***************************************************************************)
(* The reader of recorded traffic (internal/capture/capture.go): Read goes *)
(* through the blocks of a pcapng file, sorts the TCP payloads of frames   *)
(* to and from port 102 into the two flows of their connection, and at the *)
(* end of the file reassembles each flow into runs of contiguous bytes,    *)
(* splits the runs into TPKT packets and joins COTP data TPDUs into S7     *)
(* PDUs.                                                                   *)
(*                                                                         *)
(* The environment is the network and whoever recorded it.  Each direction *)
(* of a connection has sent the bytes Sent[dir]; the file holds segments   *)
(* of them in any order, some twice, cut in another way or not at all.     *)
(* Bytes have their values, because the packet headers are looked for in   *)
(* them.  Offsets are 0-based as in the code, sequences 1-based.           *)
(***************************************************************************)
EXTENDS Integers, Sequences, SequencesExt, FiniteSets

CONSTANTS
  Clients,      \* the client ends of the connections
  Sent,         \* direction -> the bytes sent
  Tsdus,        \* direction -> its TSDUs: [from, to, data], in order
  TpduStarts,   \* direction -> the offsets at which its packets start
  Connects,     \* direction -> its CR and CC packets: <<from, to>>
  Segments,     \* direction -> the segments that may be recorded: <<from, to>>
  ISNs,         \* the initial sequence numbers
  SeqSpace,     \* 2^32 in TCP
  Links,        \* the link types of the interfaces
  MaxBlocks     \* bound on the number of blocks of the file

Dirs == {"up", "down"}
Flows == Clients \X Dirs

ASSUME CaptureAssumption ==
  /\ SeqSpace \in Nat \ {0} /\ ISNs \subseteq 0..SeqSpace - 1
  /\ \A d \in Dirs : 2 * Len(Sent[d]) < SeqSpace
  /\ \A d \in Dirs : \A s \in Segments[d] : s[1] \in Nat /\ s[1] < s[2] /\ s[2] <= Len(Sent[d])

VARIABLES
  pc,           \* "blocks": in the file; "done": Read has returned
  blocks,       \* the number of blocks so far
  links,        \* pcapngPackets' local links
  num,          \* the number of frames so far
  flow,         \* flow -> [syn, isn, segs]
  opened,       \* the connections in the order of their first frames
  result,       \* what Read returned: conversations, or err
  isn,          \* history: flow -> the sequence number its SYN had
  caught        \* history: flow -> what was recorded since the last SYN: <<from, to, frame>>

vars == <<pc, blocks, links, num, flow, opened, result, isn, caught>>

\* What Read returns: the conversations, or the error of the file ("format")
\* or of a packet in a flow ("packet").
NoResult == [err |-> "none", convs |-> <<>>]
Failed(err) == [err |-> err, convs |-> <<>>]

Init ==
  /\ pc = "blocks" /\ blocks = 0 /\ links = <<>> /\ num = 0
  /\ flow = [f \in Flows |-> [syn |-> FALSE, isn |-> 0, segs |-> <<>>]]
  /\ opened = <<>> /\ result = NoResult
  /\ \E i \in ISNs : isn = [f \in Flows |-> i]
  /\ caught = [f \in Flows |-> <<>>]

-----------------------------------------------------------------------------
(* Reassembly *)

\* a - b in sequence space: negative when a lies before b.
seqDiff(a, b) ==
  LET d == (a - b) % SeqSpace IN IF 2 * d >= SeqSpace THEN d - SeqSpace ELSE d

\* Offsets in a flow count from the byte after the SYN, or from the first
\* segment recorded when there is no SYN.
Base(f) == IF f.syn THEN (f.isn + 1) % SeqSpace ELSE f.segs[1].seq

EmptyRun == [data |-> <<>>, frames |-> <<>>]

\* One turn of stream's loop: drop what is delivered, start a new run after a
\* gap, and append the rest with the frame it came in.
Deliver(acc, s, base) ==
  LET start == seqDiff(s.seq, base)
      end == start + Len(s.payload)
      gap == start > acc.next
      p == IF gap THEN s.payload ELSE SubSeq(s.payload, acc.next - start + 1, Len(s.payload))
      runs == IF gap THEN Append(acc.runs, EmptyRun) ELSE acc.runs
  IN IF end <= acc.next THEN acc
     ELSE [runs |-> [runs EXCEPT ![Len(runs)] =
                       [data |-> @.data \o p, frames |-> @.frames \o [i \in 1..Len(p) |-> s.frame]]],
           next |-> end]

\* Mutant: sequence numbers are compared as integers.
SortedPlain(segs, base) ==
  SetToSortSeq(ToSet(segs), LAMBDA a, b : a.seq < b.seq \/ (a.seq = b.seq /\ a.frame < b.frame))

\* The segments in sequence order; the sort is stable, so that equal ones
\* stay in the order of their frames.
Sorted(segs, base) ==
  LET Start(s) == seqDiff(s.seq, base)
  IN SetToSortSeq(ToSet(segs),
       LAMBDA a, b : Start(a) < Start(b) \/ (Start(a) = Start(b) /\ a.frame < b.frame))

\* stream: the runs of contiguous bytes of a flow.
stream(f) ==
  IF f.segs = <<>> THEN <<>>
  ELSE FoldLeft(LAMBDA acc, s : Deliver(acc, s, Base(f)),
                [runs |-> <<EmptyRun>>, next |-> 0],
                Sorted(f.segs, Base(f))).runs

-----------------------------------------------------------------------------
(* Packets *)

\* What pdus has so far: its results, the TSDU being joined, the offset.
NothingRead == [out |-> <<>>, cr |-> 0, cc |-> 0, dropped |-> 0, err |-> FALSE, tsdu |-> <<>>, off |-> 0]

Pending(s) == IF s.tsdu = <<>> THEN 0 ELSE 1

\* The TPDU of the packet of n bytes at offset s.off, read from run c: DT is
\* appended to the TSDU, which the end mark completes; only a TSDU that
\* starts with the S7 protocol ID is a PDU.
TakeTpdu(c, s, n) ==
  LET tpdu == SubSeq(c.data, s.off + 5, s.off + n)
      li == tpdu[1]
      code == tpdu[2] \div 16
      tsdu == s.tsdu \o SubSeq(tpdu, li + 2, Len(tpdu))
      last == tpdu[3] >= 128
      isS7 == tsdu # <<>> /\ Head(tsdu) = 50
      next == [s EXCEPT !.off = @ + n]
  IN CASE code = 14 -> [next EXCEPT !.cr = @ + 1]
       [] code = 13 -> [next EXCEPT !.cc = @ + 1]
       [] code = 15 /\ last ->
            [next EXCEPT !.tsdu = <<>>,
                         !.out = IF isS7 THEN Append(@, [frame |-> c.frames[s.off + n], data |-> tsdu]) ELSE @]
       [] code = 15 /\ ~last -> [next EXCEPT !.tsdu = tsdu]
       [] OTHER -> next

\* The loop of pdus over run c from s on.  A packet that the run does not
\* hold to its end ends the loop; a header that is none is an error.
RECURSIVE pdus(_, _)
pdus(c, s) ==
  LET rest == Len(c.data) - s.off
      At(i) == c.data[s.off + i + 1]
      n == 256 * At(2) + At(3)
      li == At(4)
  IN IF rest = 0 THEN [s EXCEPT !.dropped = @ + Pending(s)]
     ELSE IF rest < 4 \/ n > rest THEN [s EXCEPT !.dropped = @ + 1 + Pending(s)]
     ELSE IF \/ At(0) # 3 \/ n < 7
             \/ li < 1 \/ li + 1 > n - 4
             \/ At(5) \div 16 = 15 /\ li < 2 THEN [NothingRead EXCEPT !.err = TRUE]
     ELSE pdus(c, TakeTpdu(c, s, n))

\* Mutant: the TSDU of one run is carried over to the next.
flowPDUsJoined(f) ==
  LET runs == stream(f)
      Read(acc, c) == LET p == pdus(c, [NothingRead EXCEPT !.tsdu = acc.tsdu]) IN
        [out |-> acc.out \o p.out, cr |-> acc.cr + p.cr, cc |-> acc.cc + p.cc,
         dropped |-> acc.dropped + p.dropped, err |-> acc.err \/ p.err, tsdu |-> p.tsdu]
      read == FoldLeft(Read, NothingRead, runs)
  IN [out |-> read.out, cr |-> read.cr, cc |-> read.cc, dropped |-> read.dropped, err |-> read.err,
      gaps |-> IF runs = <<>> THEN 0 ELSE Len(runs) - 1]

\* flowPDUs: pdus over every run of a flow, each from the start.
flowPDUs(f) ==
  LET runs == stream(f)
      Read(acc, c) == LET p == pdus(c, NothingRead) IN
        [out |-> acc.out \o p.out, cr |-> acc.cr + p.cr, cc |-> acc.cc + p.cc,
         dropped |-> acc.dropped + p.dropped, err |-> acc.err \/ p.err, tsdu |-> <<>>]
      read == FoldLeft(Read, NothingRead, runs)
  IN [out |-> read.out, cr |-> read.cr, cc |-> read.cc, dropped |-> read.dropped, err |-> read.err,
      gaps |-> IF runs = <<>> THEN 0 ELSE Len(runs) - 1]

\* Mutant: the directions are put one after the other.
MergedUnsorted(up, down) ==
  [i \in DOMAIN up |-> [dir |-> "up", frame |-> up[i].frame, data |-> up[i].data]] \o
  [i \in DOMAIN down |-> [dir |-> "down", frame |-> down[i].frame, data |-> down[i].data]]

\* The PDUs of both directions, by the frames of their last bytes; the sort
\* is stable.
Merged(up, down) ==
  LET all == [i \in DOMAIN up |-> [dir |-> "up", frame |-> up[i].frame, data |-> up[i].data]] \o
             [i \in DOMAIN down |-> [dir |-> "down", frame |-> down[i].frame, data |-> down[i].data]]
      order == SetToSortSeq(DOMAIN all,
                 LAMBDA i, j : all[i].frame < all[j].frame \/ (all[i].frame = all[j].frame /\ i < j))
  IN [i \in DOMAIN all |-> all[order[i]]]

\* One conversation of the result.
Conversation(c) ==
  LET up == flowPDUs(flow[<<c, "up">>])
      down == flowPDUs(flow[<<c, "down">>])
  IN [err |-> up.err \/ down.err,
      client |-> c, cr |-> up.cr + down.cr, cc |-> up.cc + down.cc, gaps |-> up.gaps + down.gaps,
      dropped |-> up.dropped + down.dropped, pdus |-> Merged(up.out, down.out)]

-----------------------------------------------------------------------------
(* Read: the blocks of the file, then the conversations *)

\* Read fails on the file: packets and frame run before any flow is
\* reassembled.
Fail == pc' = "done" /\ result' = Failed("format")

NextBlock == pc = "blocks" /\ blocks < MaxBlocks /\ blocks' = blocks + 1

\* A section header: the interfaces of the section before are forgotten.  A
\* classic pcap file is one section with one interface.
Section ==
  /\ NextBlock
  /\ links' = <<>>
  /\ UNCHANGED <<pc, num, flow, opened, result, isn, caught>>

\* An interface description.
Interface(l) ==
  /\ blocks > 0 /\ NextBlock
  /\ links' = Append(links, l)
  /\ UNCHANGED <<pc, num, flow, opened, result, isn, caught>>

\* A block that is cut short or has an impossible length, or a file that does
\* not begin with a section.
Malformed ==
  /\ pc = "blocks"
  /\ Fail
  /\ UNCHANGED <<blocks, links, num, flow, opened, isn, caught>>

\* A packet of interface k (0 for a simple packet) with a frame that is not
\* IPv4 and TCP to or from port 102, or is IPv4 but a fragment.
OtherFrame(k, fragment) ==
  /\ blocks > 0 /\ NextBlock
  /\ num' = num + 1
  /\ IF k >= Len(links) \/ fragment THEN Fail
     ELSE IF links[k + 1] # "ethernet" THEN Fail
     ELSE UNCHANGED <<pc, result>>
  /\ UNCHANGED <<links, flow, opened, isn, caught>>

\* Frames of a flow need an Ethernet interface.
FrameOf(f) ==
  /\ NextBlock
  /\ \E k \in DOMAIN links : links[k] = "ethernet"
  /\ num' = num + 1
  /\ opened' = IF Contains(opened, f[1]) THEN opened ELSE Append(opened, f[1])
  /\ UNCHANGED <<pc, links, result>>

\* frame: a SYN starts the flow again.
SynFrame(f) ==
  /\ FrameOf(f)
  /\ \E i \in ISNs :
       /\ isn' = [isn EXCEPT ![f] = i]
       /\ flow' = [flow EXCEPT ![f] = [syn |-> TRUE, isn |-> i, segs |-> <<>>]]
  /\ caught' = [caught EXCEPT ![f] = <<>>]

\* frame: the payload of a segment; one without payload leaves the flow as it
\* is.
DataFrame(f) ==
  /\ FrameOf(f)
  /\ \/ \E s \in Segments[f[2]] :
          /\ flow' = [flow EXCEPT ![f].segs = Append(@,
                        [frame |-> num + 1, seq |-> (isn[f] + 1 + s[1]) % SeqSpace,
                         payload |-> SubSeq(Sent[f[2]], s[1] + 1, s[2])])]
          /\ caught' = [caught EXCEPT ![f] = Append(@, <<s[1], s[2], num + 1>>)]
     \/ UNCHANGED <<flow, caught>>
  /\ UNCHANGED isn

\* The file ends: the conversations in the order of their first frames, or
\* the error of one of them.
conversations ==
  /\ pc = "blocks" /\ blocks > 0
  /\ pc' = "done"
  /\ LET convs == [i \in DOMAIN opened |-> Conversation(opened[i])] IN
       result' = IF \E i \in DOMAIN convs : convs[i].err THEN Failed("packet")
                 ELSE [err |-> "none", convs |-> convs]
  /\ UNCHANGED <<blocks, links, num, flow, opened, isn, caught>>

Next ==
  \/ Section \/ Malformed \/ conversations
  \/ \E l \in Links : Interface(l)
  \/ \E k \in 0..1, fragment \in BOOLEAN : OtherFrame(k, fragment)
  \/ \E f \in Flows : SynFrame(f) \/ DataFrame(f)

Spec == Init /\ [][Next]_vars

-----------------------------------------------------------------------------
(* Properties *)

\* The offset in Sent at which a flow with segments starts for the reader.
StartOf(f) == IF flow[f].syn THEN 0 ELSE caught[f][1][1]

\* The offsets recorded since the last SYN, from the start on.
Covered(f) ==
  {o \in StartOf(f)..Len(Sent[f[2]]) - 1 :
     \E i \in DOMAIN caught[f] : caught[f][i][1] <= o /\ o < caught[f][i][2]}

\* The maximal intervals of the covered offsets, in order: <<from, to>>.
Intervals(f) ==
  LET C == Covered(f)
      From == {o \in C : o - 1 \notin C}
      To(a) == CHOOSE b \in a + 1..Len(Sent[f[2]]) : a..b - 1 \subseteq C /\ b \notin C
      from == SetToSortSeq(From, <)
  IN [i \in DOMAIN from |-> <<from[i], To(from[i])>>]

\* Reassembly is exact, whatever was recorded in whatever order, again or cut
\* differently, across the wrap of the sequence numbers: the runs of a flow
\* are the maximal ranges of recorded bytes, every byte once and at its place,
\* each with a frame that carried it, and every range missing before or
\* between them is one gap (capture.go:306-341).
StreamExact ==
  \A f \in Flows : flow[f].segs # <<>> =>
    LET runs == stream(flow[f])
        full == SelectSeq(runs, LAMBDA r : r.data # <<>>)
        at == Intervals(f)
    IN /\ Len(full) = Len(at)
       /\ \A i \in DOMAIN at :
            /\ full[i].data = SubSeq(Sent[f[2]], at[i][1] + 1, at[i][2])
            /\ \A o \in at[i][1]..at[i][2] - 1 :
                 \E j \in DOMAIN caught[f] :
                   /\ caught[f][j][1] <= o /\ o < caught[f][j][2]
                   /\ caught[f][j][3] = full[i].frames[o - at[i][1] + 1]
       /\ Len(runs) - 1 = Len(at) - (IF StartOf(f) \in Covered(f) THEN 1 ELSE 0)

\* The runs of a flow that start where a packet starts.
Aligned(f) ==
  caught[f] # <<>> => \A i \in DOMAIN Intervals(f) : Intervals(f)[i][1] \in TpduStarts[f[2]]

CapturedWhole(f, t) == caught[f] # <<>> /\ t.from..t.to - 1 \subseteq Covered(f)

\* How many packets and joined TSDUs the ends of a flow's runs cut: a run that
\* stops inside a packet, and one whose whole packets stop inside a TSDU.
CutAtEnds(f) ==
  LET at == IF caught[f] = <<>> THEN <<>> ELSE Intervals(f)
      bounds == TpduStarts[f[2]] \cup {Len(Sent[f[2]])}
      LastBound(i) == CHOOSE b \in bounds : b <= at[i][2] /\ \A x \in bounds : x <= at[i][2] => x <= b
      Inside(i) == \E k \in DOMAIN Tsdus[f[2]] :
                     LET t == Tsdus[f[2]][k] IN t.from < LastBound(i) /\ LastBound(i) < t.to
  IN Cardinality({i \in DOMAIN at : at[i][2] \notin bounds}) +
     Cardinality({i \in DOMAIN at : at[i][1] < LastBound(i) /\ Inside(i)})

PdusOf(conv, dir) == SelectSeq(conv.pdus, LAMBDA p : p.dir = dir)

\* When the recording resumes at packet boundaries, Read fails on no packet and
\* reports of each direction exactly the S7 PDUs recorded whole, each once, the
\* connect TPDUs recorded, and as dropped every packet and every COTP sequence
\* whose end is missing: nothing is joined across a gap, and a retransmission
\* reports nothing twice (capture.go:345-433).
PDUsExact ==
  /\ result.err = "packet" => \E f \in Flows : ~Aligned(f)
  /\ \A n \in DOMAIN result.convs :
       LET conv == result.convs[n]
           Fl(d) == <<conv.client, d>>
           Tpdus(d) == {s \in Connects[d] : CapturedWhole(Fl(d), [from |-> s[1], to |-> s[2]])}
       IN (\A d \in Dirs : Aligned(Fl(d))) =>
            /\ \A d \in Dirs :
                 LET got == PdusOf(conv, d)
                     whole == {k \in DOMAIN Tsdus[d] :
                                 Head(Tsdus[d][k].data) = 50 /\ CapturedWhole(Fl(d), Tsdus[d][k])}
                 IN /\ {got[i].data : i \in DOMAIN got} = {Tsdus[d][k].data : k \in whole}
                    /\ Len(got) = Cardinality(whole)
            /\ conv.cr = Cardinality(Tpdus("up")) /\ conv.cc = Cardinality(Tpdus("down"))
            /\ conv.dropped = CutAtEnds(Fl("up")) + CutAtEnds(Fl("down"))

\* Every segment of the flow brings only new bytes past all earlier ones, or
\* is one of them again.
InSequence(f) ==
  \A j \in DOMAIN caught[f] :
    \/ \E i \in 1..j - 1 : SubSeq(caught[f][i], 1, 2) = SubSeq(caught[f][j], 1, 2)
    \/ \A i \in 1..j - 1 : caught[f][i][2] <= caught[f][j][1]

\* The frame with which a TSDU is complete.
CompletedBy(f, t) ==
  CHOOSE n \in 1..num :
    LET Has(m) == \A o \in t.from..t.to - 1 : \E i \in DOMAIN caught[f] :
                    caught[f][i][3] <= m /\ caught[f][i][1] <= o /\ o < caught[f][i][2]
    IN Has(n) /\ \A m \in 1..n - 1 : ~Has(m)

\* Of a connection recorded in sequence (with losses and repeated segments) the
\* PDUs of both directions are listed in the order in which they completed,
\* with the frames that completed them, and each direction in the order it was
\* sent (capture.go:35, 47-48, 425).
ListedAsCompleted ==
  \A n \in DOMAIN result.convs :
    LET conv == result.convs[n]
        p == conv.pdus
        Fl(d) == <<conv.client, d>>
        Of(i) == CHOOSE k \in DOMAIN Tsdus[p[i].dir] : Tsdus[p[i].dir][k].data = p[i].data
        Done(i) == CompletedBy(Fl(p[i].dir), Tsdus[p[i].dir][Of(i)])
    IN (\A d \in Dirs : Aligned(Fl(d)) /\ InSequence(Fl(d))) =>
         /\ \A i \in DOMAIN p : p[i].frame = Done(i)
         /\ \A i, j \in DOMAIN p : i < j =>
              /\ Done(i) <= Done(j)
              /\ p[i].dir = p[j].dir => Of(i) < Of(j)

=============================================================================
