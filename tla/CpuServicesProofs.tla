-------------------------- MODULE CpuServicesProofs --------------------------
(***************************************************************************)
(* What holds of CpuServices for every number of packets and segments,     *)
(* every fault, and every bound of the loops.                              *)
(***************************************************************************)
EXTENDS CpuServices, SequenceTheorems, TLAPS

Lists == DOMAIN Packets
Item == [of : Lists \cup {"block"}, no : Nat]
Kinds == {"data", "id", "ended", "refused", "garbled", "transport", "mismatch"}
Bodies == [kind : Kinds, data : Seq(Item), more : BOOLEAN, tag : Nat]
Messages == [ref : Nat, body : Bodies]

\* A state the CPU can be in: uploads are numbered from 1 on, and the ones
\* open are among those given out.
IsCpu(c) ==
  /\ DOMAIN c = {"open", "ids", "size", "list", "seq", "next"}
  /\ {c.ids, c.size, c.seq, c.next} \subseteq Nat
  /\ c.open = [i \in DOMAIN c.open |-> c.open[i]]
  /\ \A i \in DOMAIN c.open : i \in 1..c.ids /\ c.open[i] \in Nat

\* The answers not read yet are to earlier exchanges.
FlightOK(f, last) ==
  /\ f \in Seq(Messages)
  /\ \A i \in DOMAIN f : f[i].ref \in 1..last

\* The state the exchanges work on, and the part of TypeOK that is not about
\* the call.
SessionOK ==
  /\ link \in {"up", "dead"} /\ pduRef \in 0..MaxRefs /\ ctxDone \in BOOLEAN
  /\ FlightOK(flight, pduRef) /\ IsCpu(cpu)

\* The call's own state: it has a list to read while it reads lists, and the
\* loop it is in has not passed its bound.
CallOK ==
  /\ calls \in 0..MaxCalls /\ pc \in {"idle", "list", "more", "start", "chunk", "end"}
  /\ lists \in Seq(Lists) /\ (pc \in {"list", "more"} => lists # <<>>)
  /\ DOMAIN got \subseteq Lists /\ errs \subseteq Lists
  /\ payload \in Seq(Item)
  /\ n \in 0..(maxUserdataFollowUps + maxUploadChunks) /\ try \in 0..(maxUploadRetries - 1)
  /\ (pc = "more" => n <= maxUserdataFollowUps) /\ (pc = "chunk" => n < maxUploadChunks)
  /\ (pc = "start" => payload = <<>> /\ n = 0)
  /\ upSeq \in Nat /\ uploadID \in Nat
  /\ res \in {"none", "ok", "partial", "error", "invalid"}

\* While a list is read and the CPU is still sending it, what is collected is
\* what the CPU has sent of it.
ReadInStep ==
  pc = "more" /\ upSeq = cpu.seq =>
    /\ cpu.list = Head(lists)
    /\ cpu.next \in 1..Packets[Head(lists)] + 1
    /\ payload = Parts(Head(lists), cpu.next - 1)

\* While a block is uploaded and no answer was missed, what is collected is
\* what the CPU has sent of it.
UploadInStep ==
  pc = "chunk" /\ link = "up" /\ flight = <<>> =>
    /\ uploadID \in DOMAIN cpu.open
    /\ cpu.open[uploadID] \in 1..cpu.size + 1
    /\ payload = Parts("block", cpu.open[uploadID] - 1)

\* Outside an upload none of this call's is open; the identifier 0, of no
\* upload, is never given out.
NoOpenJob ==
  /\ pc \in {"list", "more", "start"} => uploadID = 0
  /\ UploadJobsEnded

\* The inductive invariant.
IInv ==
  /\ SessionOK /\ CallOK
  /\ ReadInStep /\ UploadInStep
  /\ ResultIsWhole /\ NoOpenJob

-----------------------------------------------------------------------------
(* Parts and updates *)

\* The parts of a list or block form a sequence, and part k follows the first
\* k - 1.
LEMMA PartsAppend ==
  \A of \in Lists \cup {"block"}, k \in Nat :
    /\ Parts(of, k) \in Seq(Item)
    /\ Parts(of, 0) = <<>>
    /\ Parts(of, k) \o <<[of |-> of, no |-> k + 1]>> = Parts(of, k + 1)
    /\ Parts(of, 1) = <<[of |-> of, no |-> 1]>>
<1> TAKE of \in Lists \cup {"block"}, k \in Nat
<1> DEFINE x == [of |-> of, no |-> k + 1]
<1>1. \A j \in Nat : /\ Parts(of, j) \in Seq(Item)
                     /\ Len(Parts(of, j)) = j
                     /\ \A i \in 1..j : Parts(of, j)[i] = [of |-> of, no |-> i]
  BY DEF Parts, Item
<1>2. x \in Item /\ [of |-> of, no |-> 1] \in Item
  BY DEF Item
<1>3. Parts(of, 0) = <<>>
  BY <1>1, EmptySeq
<1>4. Parts(of, k) \o <<x>> = Parts(of, k + 1)
  <2> DEFINE s == Append(Parts(of, k), x)
  <2>1. s \in Seq(Item) /\ Len(s) = k + 1
    BY <1>1, <1>2, AppendProperties
  <2>2. /\ \A i \in 1..k : s[i] = Parts(of, k)[i]
        /\ s[k + 1] = x
    BY <1>1, <1>2, AppendProperties
  <2> HIDE DEF s
  <2>3. ASSUME NEW i \in 1..k + 1 PROVE s[i] = [of |-> of, no |-> i]
    <3>1. CASE i = k + 1
      BY <2>2, <3>1
    <3>2. CASE i # k + 1
      <4>1. i \in 1..k
        BY <3>2
      <4> QED  BY <4>1, <2>2, <1>1, ZenonT(60)
    <3> QED  BY <3>1, <3>2
  <2>4. \A i \in 1..Len(s) : s[i] = Parts(of, k + 1)[i]
    BY <1>1, <2>1, <2>3
  <2>5. k + 1 \in Nat
    OBVIOUS
  <2>6. Parts(of, k + 1) \in Seq(Item) /\ Len(Parts(of, k + 1)) = Len(s)
    BY <1>1, <2>1, <2>5
  <2>7. s = Parts(of, k + 1)
    BY <2>1, <2>4, <2>6, SeqEqual
  <2>8. s = Parts(of, k) \o <<x>>
    BY <1>1, <1>2, AppendIsConcat, ZenonT(60) DEF s
  <2> QED  BY <2>7, <2>8, ZenonT(60)
<1>5. Parts(of, 1) = <<[of |-> of, no |-> 1]>>
  BY SMT DEF Parts
<1> QED  BY <1>1, <1>3, <1>4, <1>5, ZenonT(60)

\* The states the CPU moves to are states of a CPU.
LEMMA CpuUpdates ==
  ASSUME NEW c, IsCpu(c)
  PROVE  /\ \A size \in Nat :
              LET d == [c EXCEPT !.ids = c.ids + 1, !.size = size,
                          !.open = [i \in DOMAIN @ \cup {c.ids + 1} |->
                                      IF i = c.ids + 1 THEN 1 ELSE @[i]]]
              IN /\ IsCpu(d) /\ d.size = size /\ c.ids + 1 \in DOMAIN d.open
                 /\ d.open[c.ids + 1] = 1
         /\ \A id \in DOMAIN c.open :
              LET d == [c EXCEPT !.open[id] = @ + 1]
              IN /\ IsCpu(d) /\ d.size = c.size /\ d.open[id] = c.open[id] + 1
                 /\ DOMAIN d.open = DOMAIN c.open
         /\ \A l : LET d == [c EXCEPT !.list = l, !.seq = @ + 1, !.next = 2]
                   IN IsCpu(d) /\ d.list = l /\ d.seq = c.seq + 1 /\ d.next = 2
         /\ LET d == [c EXCEPT !.next = @ + 1]
            IN IsCpu(d) /\ d.list = c.list /\ d.seq = c.seq /\ d.next = c.next + 1
<1>1. ASSUME NEW size \in Nat
      PROVE LET d == [c EXCEPT !.ids = c.ids + 1, !.size = size,
                          !.open = [i \in DOMAIN @ \cup {c.ids + 1} |->
                                      IF i = c.ids + 1 THEN 1 ELSE @[i]]]
              IN /\ IsCpu(d) /\ d.size = size /\ c.ids + 1 \in DOMAIN d.open
                 /\ d.open[c.ids + 1] = 1
  <2> DEFINE o == [i \in DOMAIN c.open \cup {c.ids + 1} |->
                     IF i = c.ids + 1 THEN 1 ELSE c.open[i]]
             d == [c EXCEPT !.ids = c.ids + 1, !.size = size, !.open = o]
  <2>1. /\ o = [i \in DOMAIN o |-> o[i]]
        /\ \A i \in DOMAIN o : i \in 1..c.ids + 1 /\ o[i] \in Nat
        /\ c.ids + 1 \in DOMAIN o /\ o[c.ids + 1] = 1
    BY DEF IsCpu
  <2> HIDE DEF o
  <2>2. /\ DOMAIN d = DOMAIN c
        /\ d.open = o /\ d.ids = c.ids + 1 /\ d.size = size /\ d.seq = c.seq /\ d.next = c.next
    BY DEF IsCpu
  <2> HIDE DEF d
  <2>3. /\ IsCpu(d) /\ d.size = size /\ c.ids + 1 \in DOMAIN d.open
        /\ d.open[c.ids + 1] = 1
    BY <2>1, <2>2 DEF IsCpu
  <2> QED  BY <2>3 DEF d, o
<1>2. ASSUME NEW id \in DOMAIN c.open
      PROVE LET d == [c EXCEPT !.open[id] = @ + 1]
              IN /\ IsCpu(d) /\ d.size = c.size /\ d.open[id] = c.open[id] + 1
                 /\ DOMAIN d.open = DOMAIN c.open
  BY DEF IsCpu
<1>3. ASSUME NEW l
      PROVE LET d == [c EXCEPT !.list = l, !.seq = @ + 1, !.next = 2]
                   IN IsCpu(d) /\ d.list = l /\ d.seq = c.seq + 1 /\ d.next = 2
  BY DEF IsCpu
<1>4. LET d == [c EXCEPT !.next = @ + 1]
            IN IsCpu(d) /\ d.list = c.list /\ d.seq = c.seq /\ d.next = c.next + 1
  BY DEF IsCpu
<1> QED  BY <1>1, <1>2, <1>3, <1>4, ZenonT(60)

-----------------------------------------------------------------------------
(* The CPU's answers *)

IsReply(r) == IsCpu(r.cpu) /\ r.body \in Bodies

\* Is data the whole of list l when no more is announced, and else, if the CPU
\* in state c still sends the list of that tag, what it has sent so far?
InStep(data, more, tag, c, l) ==
  /\ ~more => data = Parts(l, Packets[l])
  /\ more /\ tag = c.seq =>
       c.list = l /\ c.next \in 1..Packets[l] + 1 /\ data = Parts(l, c.next - 1)

\* The state and the answer in a reply.
LEMMA ReplyFields == \A s, b : Reply(s, b).cpu = s /\ Reply(s, b).body = b
BY Zenon DEF Reply

\* An answer without data is a body.
LEMMA FailureBody == \A k \in Kinds : Failure(k) \in Bodies /\ Failure(k).kind = k
<1> TAKE k \in Kinds
<1>1. <<>> \in Seq(Item)
  BY EmptySeq, ZenonT(60)
<1> QED  BY <1>1 DEF Failure, Body, Bodies, Kinds

\* A part of a list or a block, a fault, or an empty part.
LEMMA PartReplies ==
  ASSUME IsCpu(cpu), NEW of \in Lists \cup {"block"}, NEW k \in Nat, NEW last \in Nat,
         NEW tag \in Nat, NEW done, IsCpu(done), NEW r \in Part(of, k, last, tag, done)
  PROVE  /\ IsReply(r)
         /\ r.body.kind = "data" =>
              \/ /\ r.cpu = done /\ r.body.data = <<[of |-> of, no |-> k]>>
                 /\ r.body.tag = tag /\ (~r.body.more => ~(k < last))
              \/ r.cpu = cpu /\ r.body.data = <<>> /\ r.body.tag = tag /\ r.body.more
         /\ r.cpu \in {cpu, done}
         /\ r.body.kind \notin {"id", "transport"}
<1> DEFINE x == [of |-> of, no |-> k]
<1>1. <<x>> \in Seq(Item) /\ <<>> \in Seq(Item)
  BY EmptySeq DEF Item
<1>2. \/ r = Reply(done, Body("data", <<x>>, k < last, tag))
      \/ r = Reply(done, Body("data", <<x>>, TRUE, tag))
      \/ r = Reply(cpu, Body("data", <<>>, TRUE, tag))
      \/ r = Reply(cpu, Failure("refused"))
      \/ r = Reply(done, Failure("garbled"))
  BY Zenon DEF Part, OrFault
<1> HIDE DEF x
<1>3. ASSUME NEW m \in BOOLEAN, r = Reply(done, Body("data", <<x>>, m, tag)), ~m => ~(k < last)
      PROVE  /\ IsReply(r)
             /\ r.body.kind = "data" =>
                  \/ /\ r.cpu = done /\ r.body.data = <<[of |-> of, no |-> k]>>
                     /\ r.body.tag = tag /\ (~r.body.more => ~(k < last))
                  \/ r.cpu = cpu /\ r.body.data = <<>> /\ r.body.tag = tag /\ r.body.more
             /\ r.cpu \in {cpu, done}
             /\ r.body.kind \notin {"id", "transport"}
  <2>1. /\ r.cpu = done /\ r.body = Body("data", <<x>>, m, tag)
    BY Zenon, <1>3, ReplyFields
  <2>2. /\ r.body.kind = "data" /\ r.body.data = <<x>> /\ r.body.more = m /\ r.body.tag = tag
        /\ r.body \in Bodies
    BY <1>1, <2>1 DEF Body, Bodies, Kinds
  <2> QED  BY <1>3, <2>1, <2>2 DEF IsReply, x
<1>4. CASE r = Reply(cpu, Body("data", <<>>, TRUE, tag))
  <2>1. /\ r.cpu = cpu /\ r.body = Body("data", <<>>, TRUE, tag)
    BY Zenon, <1>4, ReplyFields
  <2>2. /\ r.body.kind = "data" /\ r.body.data = <<>> /\ r.body.more = TRUE /\ r.body.tag = tag
        /\ r.body \in Bodies
    BY <1>1, <2>1 DEF Body, Bodies, Kinds
  <2> QED  BY <2>1, <2>2, ZenonT(60) DEF IsReply
<1>5. CASE r = Reply(cpu, Failure("refused")) \/ r = Reply(done, Failure("garbled"))
  <2>1. (r.cpu = cpu \/ r.cpu = done) /\ (r.body = Failure("refused") \/ r.body = Failure("garbled"))
    BY <1>5, ReplyFields
  <2> QED  BY <2>1, FailureBody DEF IsReply, Kinds
<1>6. (k < last) \in BOOLEAN
  OBVIOUS
<1>7. CASE r = Reply(done, Body("data", <<x>>, k < last, tag))
  BY <1>3, <1>6, <1>7, ZenonT(60)
<1>8. CASE r = Reply(done, Body("data", <<x>>, TRUE, tag))
  BY <1>3, <1>8, ZenonT(60)
<1> QED  BY <1>2, <1>4, <1>5, <1>7, <1>8, ZenonT(60)

\* The end of a list or block whose parts were all sent.
LEMMA LastReplies ==
  ASSUME IsCpu(cpu), NEW tag \in Nat, NEW r \in LastPart(tag)
  PROVE  /\ IsReply(r) /\ r.cpu = cpu /\ r.body.kind \notin {"id", "transport"}
         /\ r.body.kind = "data" => r.body.data = <<>> /\ ~r.body.more
<1>1. \/ r = Reply(cpu, Body("data", <<>>, FALSE, tag))
      \/ r = Reply(cpu, Failure("refused"))
      \/ r = Reply(cpu, Failure("garbled"))
  BY Zenon DEF LastPart, OrFault
<1>2. r.cpu = cpu
  BY Zenon, <1>1, ReplyFields
<1>3. CASE r = Reply(cpu, Body("data", <<>>, FALSE, tag))
  <2>1. <<>> \in Seq(Item)
    BY EmptySeq
  <2>2. r.body = Body("data", <<>>, FALSE, tag)
    BY Zenon, <1>3, ReplyFields
  <2>3. /\ r.body.kind = "data" /\ r.body.data = <<>> /\ r.body.more = FALSE
        /\ r.body \in Bodies
    BY <2>1, <2>2 DEF Body, Bodies, Kinds
  <2> QED  BY <1>2, <2>3 DEF IsReply
<1>4. CASE r = Reply(cpu, Failure("refused")) \/ r = Reply(cpu, Failure("garbled"))
  <2>1. (r.body = Failure("refused") \/ r.body = Failure("garbled"))
    BY <1>4, ReplyFields
  <2> QED  BY <1>2, <2>1, FailureBody, ZenonT(60) DEF IsReply, Kinds
<1> QED  BY <1>1, <1>3, <1>4, ZenonT(60)

\* The first packet of a list.
LEMMA UserdataReplies ==
  ASSUME IsCpu(cpu), NEW l \in Lists, NEW r \in CpuUserdata(l)
  PROVE  /\ IsReply(r)
         /\ r.body.kind = "data" => InStep(r.body.data, r.body.more, r.body.tag, r.cpu, l)
<1> DEFINE d == [cpu EXCEPT !.list = l, !.seq = @ + 1, !.next = 2]
<1>1. IsCpu(d) /\ d.list = l /\ d.seq = cpu.seq + 1 /\ d.next = 2
  BY CpuUpdates, ZenonT(60)
<1>2. Packets[l] \in Nat \ {0} /\ cpu.seq \in Nat
  BY CpuAssumption DEF Lists, IsCpu
<1>3. r \in Part(l, 1, Packets[l], d.seq, d)
  BY Zenon DEF CpuUserdata
<1> HIDE DEF d
<1>4. d.seq \in Nat
  BY <1>1, <1>2
<1>5. /\ IsReply(r)
      /\ r.body.kind = "data" =>
              \/ /\ r.cpu = d /\ r.body.data = <<[of |-> l, no |-> 1]>>
                 /\ r.body.tag = d.seq /\ (~r.body.more => ~(1 < Packets[l]))
              \/ r.cpu = cpu /\ r.body.data = <<>> /\ r.body.tag = d.seq /\ r.body.more
  BY <1>1, <1>2, <1>3, <1>4, PartReplies
<1>6. ASSUME r.body.kind = "data"
      PROVE  InStep(r.body.data, r.body.more, r.body.tag, r.cpu, l)
  <2>1. CASE r.cpu = cpu /\ r.body.data = <<>> /\ r.body.tag = d.seq /\ r.body.more
    <3>1. cpu.seq # cpu.seq + 1
      BY <1>2
    <3> QED  BY Zenon, <2>1, <3>1, <1>1 DEF InStep
  <2>2. CASE /\ r.cpu = d /\ r.body.data = <<[of |-> l, no |-> 1]>>
             /\ r.body.tag = d.seq /\ (~r.body.more => ~(1 < Packets[l]))
    <3>1. r.body.data = Parts(l, 1)
      BY <2>2, PartsAppend, ZenonT(60)
    <3>2. 2 \in 1..Packets[l] + 1 /\ 2 - 1 = 1
      BY <1>2
    <3>3. ~r.body.more => Packets[l] = 1
      BY <2>2, <1>2
    <3> QED  BY Zenon, <2>2, <3>1, <3>2, <3>3, <1>1 DEF InStep
  <2> QED  BY <1>5, <1>6, <2>1, <2>2
<1> QED  BY <1>5, <1>6, ZenonT(60)

\* A further packet of the list being read.
LEMMA FollowUpReplies ==
  ASSUME IsCpu(cpu), NEW l \in Lists, NEW seq \in Nat, NEW p \in Seq(Item),
         seq = cpu.seq => /\ cpu.list = l /\ cpu.next \in 1..Packets[l] + 1
                          /\ p = Parts(l, cpu.next - 1),
         NEW r \in CpuFollowUp(seq)
  PROVE  /\ IsReply(r)
         /\ r.body.kind = "data" => InStep(p \o r.body.data, r.body.more, r.body.tag, r.cpu, l)
<1>1. CASE seq # cpu.seq
  <2>1. r = Reply(cpu, Failure("refused"))
    BY Zenon, <1>1 DEF CpuFollowUp
  <2>2. r.cpu = cpu /\ r.body = Failure("refused")
    BY Zenon, <2>1, ReplyFields
  <2> QED  BY <2>2, FailureBody DEF IsReply, Kinds
<1>2. CASE seq = cpu.seq
  <2>1. Packets[l] \in Nat \ {0} /\ cpu.next \in Nat
    BY CpuAssumption DEF Lists, IsCpu
  <2>2. cpu.list = l /\ cpu.next \in 1..Packets[l] + 1 /\ p = Parts(l, cpu.next - 1)
    BY <1>2
  <2>3. CASE cpu.next > Packets[l]
    <3>1. r \in LastPart(seq)
      BY Zenon, <1>2, <2>2, <2>3 DEF CpuFollowUp
    <3>2. /\ IsReply(r) /\ r.cpu = cpu
          /\ r.body.kind = "data" => r.body.data = <<>> /\ ~r.body.more
      BY <3>1, LastReplies, ZenonT(60)
    <3>3. cpu.next - 1 = Packets[l]
      BY <2>1, <2>2, <2>3
    <3>4. p \o <<>> = p
      BY ConcatEmptySeq
    <3> QED  BY Zenon, <3>2, <3>3, <3>4, <2>2 DEF InStep
  <2>4. CASE ~(cpu.next > Packets[l])
    <3> DEFINE d == [cpu EXCEPT !.next = @ + 1]
    <3>1. r \in Part(l, cpu.next, Packets[l], seq, d)
      BY Zenon, <1>2, <2>2, <2>4 DEF CpuFollowUp
    <3>2. IsCpu(d) /\ d.list = cpu.list /\ d.seq = cpu.seq /\ d.next = cpu.next + 1
      BY CpuUpdates, ZenonT(60)
    <3> HIDE DEF d
    <3>3. /\ IsReply(r)
          /\ r.body.kind = "data" =>
                \/ /\ r.cpu = d /\ r.body.data = <<[of |-> l, no |-> cpu.next]>>
                   /\ r.body.tag = seq /\ (~r.body.more => ~(cpu.next < Packets[l]))
                \/ r.cpu = cpu /\ r.body.data = <<>> /\ r.body.tag = seq /\ r.body.more
      BY <2>1, <3>1, <3>2, PartReplies
    <3>4. p \o <<>> = p
      BY ConcatEmptySeq
    <3>5. p \o <<[of |-> l, no |-> cpu.next]>> = Parts(l, cpu.next)
      <4>1. cpu.next - 1 \in Nat /\ (cpu.next - 1) + 1 = cpu.next
        BY <2>1, <2>2
      <4> QED  BY <4>1, <2>2, PartsAppend, ZenonT(60)
    <3>6. cpu.next + 1 \in 1..Packets[l] + 1 /\ (cpu.next + 1) - 1 = cpu.next
      BY <2>1, <2>2, <2>4
    <3>7. ~(cpu.next < Packets[l]) => cpu.next = Packets[l]
      BY <2>1, <2>4
    <3>8. CASE r.body.data = <<>> /\ r.cpu = cpu /\ r.body.more
      BY Zenon, <3>8, <3>3, <3>4, <2>2 DEF InStep
    <3>9. CASE /\ r.cpu = d /\ r.body.data = <<[of |-> l, no |-> cpu.next]>>
               /\ r.body.tag = seq /\ (~r.body.more => ~(cpu.next < Packets[l]))
      BY Zenon, <3>9, <3>2, <3>3, <3>5, <3>6, <3>7, <2>2 DEF InStep
    <3> QED  BY Zenon, <3>3, <3>8, <3>9
  <2> QED  BY <2>3, <2>4
<1> QED  BY <1>1, <1>2

\* Start Upload opens an upload at its first segment.
LEMMA StartReplies ==
  ASSUME IsCpu(cpu), NEW r \in CpuStartUpload
  PROVE  /\ IsReply(r)
         /\ r.body.kind = "id" =>
              r.body.tag \in DOMAIN r.cpu.open /\ r.cpu.open[r.body.tag] = 1
<1> DEFINE id == cpu.ids + 1
           d(size) == [cpu EXCEPT !.ids = id, !.size = size,
                         !.open = [i \in DOMAIN @ \cup {id} |-> IF i = id THEN 1 ELSE @[i]]]
<1>1. PICK size \in Blocks :
        r \in {Reply(d(size), Body("id", <<>>, FALSE, id))} \cup OrFault(d(size))
  BY Zenon DEF CpuStartUpload
<1>2. size \in Nat /\ id \in Nat
  BY CpuAssumption DEF IsCpu
<1>3. IsCpu(d(size)) /\ id \in DOMAIN d(size).open /\ d(size).open[id] = 1
  BY <1>2, CpuUpdates, ZenonT(60)
<1> HIDE DEF d, id
<1>4. \/ r = Reply(d(size), Body("id", <<>>, FALSE, id))
      \/ r = Reply(cpu, Failure("refused"))
      \/ r = Reply(d(size), Failure("garbled"))
  BY Zenon, <1>1 DEF OrFault
<1>5. CASE r = Reply(d(size), Body("id", <<>>, FALSE, id))
  <2>1. r.cpu = d(size) /\ r.body = Body("id", <<>>, FALSE, id)
    BY Zenon, <1>5, ReplyFields
  <2>2. <<>> \in Seq(Item)
    BY EmptySeq
  <2>3. r.body \in Bodies /\ r.body.tag = id
    BY <1>2, <2>1, <2>2 DEF Body, Bodies, Kinds
  <2> QED  BY Zenon, <1>3, <2>1, <2>3 DEF IsReply
<1>6. CASE r = Reply(cpu, Failure("refused")) \/ r = Reply(d(size), Failure("garbled"))
  <2>1. /\ r.cpu = cpu \/ r.cpu = d(size)
        /\ r.body = Failure("refused") \/ r.body = Failure("garbled")
    BY <1>6, ReplyFields
  <2> QED  BY <1>3, <2>1, FailureBody, ZenonT(60) DEF IsReply, Kinds
<1> QED  BY <1>4, <1>5, <1>6, ZenonT(60)

\* Is p what the CPU in state c has sent of upload id?
Sent(c, id, p) ==
  /\ id \in DOMAIN c.open
  /\ c.open[id] \in 1..c.size + 1
  /\ p = Parts("block", c.open[id] - 1)

\* A segment of the block being uploaded.
LEMMA UploadReplies ==
  ASSUME IsCpu(cpu), NEW id \in Nat, NEW p \in Seq(Item), NEW r \in CpuUpload(id)
  PROVE  /\ IsReply(r) /\ r.body.kind # "transport"
         /\ Sent(cpu, id, p) /\ r.body.kind = "data" =>
              IF r.body.more THEN Sent(r.cpu, id, p \o r.body.data)
              ELSE p \o r.body.data = Parts("block", r.cpu.size)
<1>1. CASE id \notin DOMAIN cpu.open
  <2>1. r = Reply(cpu, Failure("refused"))
    BY Zenon, <1>1 DEF CpuUpload
  <2>2. r.cpu = cpu /\ r.body = Failure("refused")
    BY Zenon, <2>1, ReplyFields
  <2> QED  BY <1>1, <2>2, FailureBody DEF IsReply, Kinds, Sent
<1>2. CASE id \in DOMAIN cpu.open
  <2>1. cpu.open[id] \in Nat /\ cpu.size \in Nat
    BY <1>2 DEF IsCpu
  <2>2. p \o <<>> = p
    BY ConcatEmptySeq
  <2>3. CASE cpu.open[id] > cpu.size
    <3>1. r \in LastPart(0)
      BY Zenon, <1>2, <2>3 DEF CpuUpload
    <3>2. /\ IsReply(r) /\ r.cpu = cpu
          /\ r.body.kind = "data" => r.body.data = <<>> /\ ~r.body.more
      BY <3>1, LastReplies, ZenonT(60)
    <3>3. r.body.kind # "transport"
      BY <3>1, LastReplies, ZenonT(60)
    <3>4. Sent(cpu, id, p) => p = Parts("block", cpu.size)
      <4>1. cpu.open[id] \in 1..cpu.size + 1 => cpu.open[id] - 1 = cpu.size
        BY <2>1, <2>3
      <4> QED  BY <4>1, ZenonT(60) DEF Sent
    <3> QED  BY Zenon, <3>2, <3>3, <3>4, <2>2
  <2>4. CASE ~(cpu.open[id] > cpu.size)
    <3> DEFINE d == [cpu EXCEPT !.open[id] = @ + 1]
               k == cpu.open[id]
    <3>1. r \in Part("block", k, cpu.size, 0, d)
      BY Zenon, <1>2, <2>4 DEF CpuUpload
    <3>2. /\ IsCpu(d) /\ d.size = cpu.size /\ d.open[id] = k + 1
          /\ DOMAIN d.open = DOMAIN cpu.open
      BY <1>2, CpuUpdates, ZenonT(60)
    <3> HIDE DEF d
    <3>3. /\ IsReply(r)
          /\ r.body.kind = "data" =>
                \/ /\ r.cpu = d /\ r.body.data = <<[of |-> "block", no |-> k]>>
                   /\ (~r.body.more => ~(k < cpu.size))
                \/ r.cpu = cpu /\ r.body.data = <<>> /\ r.body.more
      BY <2>1, <3>1, <3>2, PartReplies
    <3>4. r.body.kind # "transport"
      BY <3>1, <2>1, <3>2, PartReplies, ZenonT(60)
    <3>5. ASSUME Sent(cpu, id, p), r.body.kind = "data"
          PROVE  IF r.body.more THEN Sent(r.cpu, id, p \o r.body.data)
                 ELSE p \o r.body.data = Parts("block", r.cpu.size)
      <4>1. k \in 1..cpu.size + 1 /\ p = Parts("block", k - 1)
        BY <3>5 DEF Sent
      <4>2. p \o <<[of |-> "block", no |-> k]>> = Parts("block", k)
        <5>1. k - 1 \in Nat /\ (k - 1) + 1 = k
          BY <4>1, <2>1
        <5> QED  BY <4>1, <5>1, PartsAppend, ZenonT(60)
      <4>3. k + 1 \in 1..cpu.size + 1 /\ (k + 1) - 1 = k
        BY <2>1, <2>4
      <4>4. ~(k < cpu.size) => k = cpu.size
        BY <2>1, <2>4
      <4>5. CASE r.cpu = cpu /\ r.body.data = <<>> /\ r.body.more
        BY Zenon, <4>5, <3>5, <2>2
      <4>6. CASE /\ r.cpu = d /\ r.body.data = <<[of |-> "block", no |-> k]>>
                 /\ (~r.body.more => ~(k < cpu.size))
        <5>1. p \o r.body.data = Parts("block", k)
          BY Zenon, <4>2, <4>6
        <5>2. Sent(d, id, Parts("block", k))
          BY Zenon, <1>2, <3>2, <4>3 DEF Sent
        <5> QED  BY Zenon, <4>4, <4>6, <5>1, <5>2, <3>2
      <4> QED  BY Zenon, <3>3, <3>5, <4>5, <4>6
    <3> QED  BY Zenon, <3>3, <3>4, <3>5
  <2> QED  BY <2>3, <2>4, ZenonT(60)
<1> QED  BY <1>1, <1>2, ZenonT(60)

\* End Upload leaves the upload closed.
LEMMA EndReplies ==
  ASSUME IsCpu(cpu), NEW id \in Nat, NEW r \in CpuEndUpload(id)
  PROVE  IsReply(r) /\ id \notin DOMAIN r.cpu.open /\ r.cpu.size = cpu.size
<1> DEFINE d == [cpu EXCEPT !.open = Restrict(@, DOMAIN @ \ {id})]
<1>1. r = Reply(d, Body("ended", <<>>, FALSE, 0))
  BY Zenon DEF CpuEndUpload
<1>2. IsCpu(d) /\ DOMAIN d.open = DOMAIN cpu.open \ {id}
  BY DEF IsCpu, Restrict
<1>3. d.size = cpu.size
  BY DEF IsCpu
<1> HIDE DEF d
<1>4. r.cpu = d /\ r.body = Body("ended", <<>>, FALSE, 0)
  BY Zenon, <1>1, ReplyFields
<1>5. <<>> \in Seq(Item)
  BY EmptySeq
<1>6. r.body \in Bodies
  BY <1>4, <1>5 DEF Body, Bodies, Kinds
<1> QED  BY Zenon, <1>2, <1>3, <1>4, <1>6 DEF IsReply

-----------------------------------------------------------------------------
(* sendReceive *)

\* The unread answers stay answers to earlier exchanges when one is added with
\* the next reference, and when the first is read.
LEMMA FlightSteps ==
  ASSUME NEW f, NEW last \in Nat, FlightOK(f, last)
  PROVE  /\ FlightOK(<<>>, last) /\ FlightOK(f, last + 1)
         /\ \A b \in Bodies :
              LET g == Append(f, [ref |-> last + 1, body |-> b]) IN
              /\ g # <<>> /\ FlightOK(g, last + 1) /\ FlightOK(Tail(g), last + 1)
              /\ Head(g).ref = last + 1 => f = <<>> /\ Head(g).body = b
              /\ f = <<>> => Tail(g) = <<>> /\ Head(g).ref = last + 1 /\ Head(g).body = b
              /\ f # <<>> => Tail(g) # <<>>
<1>1. f \in Seq(Messages) /\ \A i \in 1..Len(f) : f[i].ref \in 1..last
  BY LenProperties DEF FlightOK
<1>2. FlightOK(<<>>, last) /\ FlightOK(f, last + 1)
  <2>1. <<>> \in Seq(Messages) /\ DOMAIN <<>> = {}
    BY EmptySeq
  <2> QED  BY <2>1 DEF FlightOK
<1>3. ASSUME NEW b \in Bodies
      PROVE  LET g == Append(f, [ref |-> last + 1, body |-> b]) IN
              /\ g # <<>> /\ FlightOK(g, last + 1) /\ FlightOK(Tail(g), last + 1)
              /\ Head(g).ref = last + 1 => f = <<>> /\ Head(g).body = b
              /\ f = <<>> => Tail(g) = <<>> /\ Head(g).ref = last + 1 /\ Head(g).body = b
              /\ f # <<>> => Tail(g) # <<>>
  <2> DEFINE m == [ref |-> last + 1, body |-> b]
             g == Append(f, m)
  <2>1. m \in Messages /\ m.ref = last + 1 /\ m.body = b
    BY DEF Messages
  <2> HIDE DEF m
  <2>2. /\ g \in Seq(Messages) /\ g # <<>> /\ Len(g) = Len(f) + 1
        /\ \A i \in 1..Len(f) : g[i] = f[i]
        /\ g[Len(f) + 1] = m
    BY <1>1, <2>1, AppendProperties
  <2>3. /\ Head(g) = IF f = <<>> THEN m ELSE Head(f)
        /\ Tail(g) = IF f = <<>> THEN <<>> ELSE Append(Tail(f), m)
    BY <1>1, <2>1, HeadTailAppend, ZenonT(60)
  <2>4. /\ Tail(g) \in Seq(Messages) /\ Len(Tail(g)) = Len(g) - 1
        /\ \A i \in 1..Len(Tail(g)) : Tail(g)[i] = g[i + 1]
    BY <2>2, HeadTailProperties, ZenonT(60)
  <2>5. Len(f) \in Nat /\ DOMAIN g = 1..Len(g) /\ DOMAIN Tail(g) = 1..Len(Tail(g))
    BY <1>1, <2>2, <2>4, LenProperties, ZenonT(60)
  <2>6. f # <<>> => Head(f).ref # last + 1 /\ Tail(g) # <<>>
    <3>1. ASSUME f # <<>> PROVE Head(f) = f[1] /\ 1 \in 1..Len(f)
      BY <1>1, <3>1, EmptySeq
    <3>2. f # <<>> => Head(f).ref \in 1..last
      BY <3>1, <1>1, ZenonT(60)
    <3>3. f # <<>> => Append(Tail(f), m) # <<>>
      BY <1>1, <2>1, HeadTailProperties, AppendProperties
    <3> QED  BY <3>2, <3>3, <2>3
  <2> HIDE DEF g
  <2>7. \A i \in 1..Len(g) : g[i].ref \in 1..last + 1
    <3> TAKE i \in 1..Len(g)
    <3>1. CASE i = Len(f) + 1
      BY <3>1, <2>1, <2>2
    <3>2. CASE i # Len(f) + 1
      <4>1. i \in 1..Len(f)
        BY <3>2, <2>2, <2>5
      <4>2. f[i].ref \in 1..last
        BY <4>1, <1>1, ZenonT(60)
      <4> QED  BY <4>1, <4>2, <2>2
    <3> QED  BY <3>1, <3>2, ZenonT(60)
  <2>8. FlightOK(g, last + 1)
    BY <2>2, <2>5, <2>7, ZenonT(60) DEF FlightOK
  <2>9. FlightOK(Tail(g), last + 1)
    <3>1. \A i \in 1..Len(Tail(g)) : i + 1 \in 1..Len(g)
      BY <2>2, <2>4, <2>5
    <3> QED  BY <3>1, <2>4, <2>5, <2>7, ZenonT(60) DEF FlightOK
  <2> QED  BY <2>1, <2>2, <2>3, <2>6, <2>8, <2>9, ZenonT(60) DEF g, m
<1> QED  BY <1>2, <1>3, ZenonT(60)

\* The exchange got the answer of reply r.
Served(o, r) ==
  /\ flight = <<>> /\ o.flight = <<>> /\ o.link = "up"
  /\ o.cpu = r.cpu /\ o.body = r.body /\ o.ctxDone = ctxDone

\* What an exchange can end with.  The answer is that of this request, or there
\* is none.  An exchange with a live context that leaves the connection up
\* and nothing unread got its answer, and one that leaves the connection up
\* reached the CPU.
LEMMA ExchangeOutcome ==
  ASSUME SessionOK, NEW own \in BOOLEAN, NEW replies, \A r \in replies : IsReply(r),
         NEW o \in sendReceive(replies, own)
  PROVE  /\ o.link \in {"up", "dead"} /\ o.ctxDone \in BOOLEAN
         /\ FlightOK(o.flight, pduRef + 1) /\ IsCpu(o.cpu)
         /\ \/ \E r \in replies : Served(o, r)
            \/ o.body = Failure("transport") \/ o.body = Failure("mismatch")
         /\ (own \/ ~ctxDone) /\ o.link = "up" => \E r \in replies : o.cpu = r.cpu
         /\ ~ctxDone /\ o.link = "up" /\ o.flight = <<>> => \E r \in replies : Served(o, r)
<1> DEFINE ref == pduRef + 1
           ended == IF own THEN ctxDone ELSE TRUE
           sent(r) == Append(flight, [ref |-> ref, body |-> r.body])
           transport == Failure("transport")
           Concl == /\ o.link \in {"up", "dead"} /\ o.ctxDone \in BOOLEAN
                    /\ FlightOK(o.flight, pduRef + 1) /\ IsCpu(o.cpu)
                    /\ \/ \E r \in replies : Served(o, r)
                       \/ o.body = Failure("transport") \/ o.body = Failure("mismatch")
                    /\ (own \/ ~ctxDone) /\ o.link = "up" => \E r \in replies : o.cpu = r.cpu
                    /\ ~ctxDone /\ o.link = "up" /\ o.flight = <<>> => \E r \in replies : Served(o, r)
<1>1. /\ FlightOK(<<>>, ref) /\ FlightOK(flight, ref)
      /\ IsCpu(cpu) /\ ctxDone \in BOOLEAN /\ ended \in BOOLEAN
  <2>1. pduRef \in Nat /\ ref \in Nat /\ FlightOK(flight, pduRef)
    BY DEF SessionOK
  <2>2. FlightOK(flight, ref)
    BY <2>1, FlightSteps, ZenonT(60)
  <2>3. FlightOK(<<>>, ref)
    BY <2>1, <2>2, FlightSteps, ZenonT(60)
  <2> QED  BY Zenon, <2>2, <2>3 DEF SessionOK
<1>2. ASSUME NEW r \in replies
      PROVE  /\ sent(r) # <<>> /\ FlightOK(sent(r), ref) /\ FlightOK(Tail(sent(r)), ref)
             /\ Head(sent(r)).ref = ref => flight = <<>> /\ Head(sent(r)).body = r.body
             /\ flight = <<>> => Tail(sent(r)) = <<>> /\ Head(sent(r)).ref = ref /\ Head(sent(r)).body = r.body
             /\ flight # <<>> => Tail(sent(r)) # <<>>
             /\ IsCpu(r.cpu)
  <2>1. pduRef \in Nat /\ FlightOK(flight, pduRef) /\ r.body \in Bodies /\ IsCpu(r.cpu)
    BY DEF SessionOK, IsReply
  <2> QED  BY <2>1, FlightSteps
<1>3. \/ link = "dead" /\ o = Outcome("dead", <<>>, cpu, ctxDone, transport)
      \/ /\ ctxDone /\ ~own
         /\ \/ o = Outcome("up", flight, cpu, TRUE, transport)
            \/ o = Outcome("dead", <<>>, cpu, TRUE, transport)
      \/ \E c \in {cpu} \cup {r.cpu : r \in replies}, d \in {ctxDone, ended} :
           o = Outcome("dead", <<>>, c, d, transport)
      \/ (own \/ ~ctxDone) /\ \E r \in replies : o = Outcome("up", sent(r), r.cpu, ended, transport)
      \/ \E r \in replies : o = Outcome("up", Tail(sent(r)), r.cpu, ctxDone, AnswerTo(ref, sent(r)))
  <2>1. CASE link = "dead"
    <3>1. sendReceive(replies, own) = {Outcome("dead", <<>>, cpu, ctxDone, transport)}
      BY Zenon, <2>1 DEF sendReceive
    <3> QED  BY Zenon, <3>1, <2>1
  <2>2. CASE link # "dead" /\ ctxDone /\ ~own
    <3>1. sendReceive(replies, own) =
            {Outcome("up", flight, cpu, TRUE, transport), Outcome("dead", <<>>, cpu, TRUE, transport)}
      BY Zenon, <2>2 DEF sendReceive
    <3> QED  BY Zenon, <3>1, <2>2
  <2>3. CASE link # "dead" /\ ~(ctxDone /\ ~own)
    <3>1. sendReceive(replies, own) =
            (UNION {{Outcome("dead", <<>>, c, ctxDone, transport), Outcome("dead", <<>>, c, ended, transport)} :
                     c \in {cpu} \cup {r.cpu : r \in replies}}) \cup
            {Outcome("up", sent(r), r.cpu, ended, transport) : r \in replies} \cup
            {Outcome("up", Tail(sent(r)), r.cpu, ctxDone, AnswerTo(ref, sent(r))) : r \in replies}
      BY Zenon, <2>3 DEF sendReceive
    <3> HIDE DEF sent, ended, transport, ref
    <3>2. own \/ ~ctxDone
      BY <2>3
    <3> DEFINE A == UNION {{Outcome("dead", <<>>, c, ctxDone, transport), Outcome("dead", <<>>, c, ended, transport)} :
                             c \in {cpu} \cup {r.cpu : r \in replies}}
               B == {Outcome("up", sent(r), r.cpu, ended, transport) : r \in replies}
               C == {Outcome("up", Tail(sent(r)), r.cpu, ctxDone, AnswerTo(ref, sent(r))) : r \in replies}
    <3>3. o \in A => \E c \in {cpu} \cup {r.cpu : r \in replies}, d \in {ctxDone, ended} :
                       o = Outcome("dead", <<>>, c, d, transport)
      <4> SUFFICES ASSUME o \in A
                   PROVE  \E c \in {cpu} \cup {r.cpu : r \in replies}, d \in {ctxDone, ended} :
                            o = Outcome("dead", <<>>, c, d, transport)
        OBVIOUS
      <4>1. PICK c \in {cpu} \cup {r.cpu : r \in replies} :
              o \in {Outcome("dead", <<>>, c, ctxDone, transport), Outcome("dead", <<>>, c, ended, transport)}
        BY Zenon
      <4> QED  BY Zenon, <4>1
    <3>4. o \in B => \E r \in replies : o = Outcome("up", sent(r), r.cpu, ended, transport)
      BY Zenon
    <3>5. o \in C => \E r \in replies :
                       o = Outcome("up", Tail(sent(r)), r.cpu, ctxDone, AnswerTo(ref, sent(r)))
      BY Zenon
    <3>6. sendReceive(replies, own) = A \cup B \cup C
      BY Zenon, <3>1
    <3> HIDE DEF A, B, C
    <3>7. o \in A \/ o \in B \/ o \in C
      BY Zenon, <3>6
    <3> QED  BY Zenon, <3>2, <3>3, <3>4, <3>5, <3>7
  <2> QED  BY <2>1, <2>2, <2>3, ZenonT(60)
<1> HIDE DEF sent, ended, transport, ref
<1>4. CASE link = "dead" /\ o = Outcome("dead", <<>>, cpu, ctxDone, transport)
  <2>1. /\ o.link = "dead" /\ o.flight = <<>> /\ o.cpu = cpu /\ o.ctxDone = ctxDone
        /\ o.body = transport
    BY Zenon, <1>4 DEF Outcome
  <2> QED  BY Zenon, <2>1, <1>1 DEF transport, ref
<1>5. CASE /\ ctxDone /\ ~own
           /\ \/ o = Outcome("up", flight, cpu, TRUE, transport)
              \/ o = Outcome("dead", <<>>, cpu, TRUE, transport)
  <2>1. /\ o.link \in {"up", "dead"} /\ (o.flight = <<>> \/ o.flight = flight)
        /\ o.cpu = cpu /\ o.ctxDone = TRUE /\ o.body = transport
    <3>1. CASE o = Outcome("up", flight, cpu, TRUE, transport)
      BY Zenon, <3>1 DEF Outcome
    <3>2. CASE o = Outcome("dead", <<>>, cpu, TRUE, transport)
      BY Zenon, <3>2 DEF Outcome
    <3> QED  BY Zenon, <1>5, <3>1, <3>2
  <2> QED  BY Zenon, <1>5, <2>1, <1>1 DEF transport, ref
<1>6. ASSUME NEW c \in {cpu} \cup {r.cpu : r \in replies}, NEW d \in {ctxDone, ended},
             o = Outcome("dead", <<>>, c, d, transport)
      PROVE  Concl
  <2>1. /\ o.link = "dead" /\ o.flight = <<>> /\ o.cpu = c /\ o.ctxDone = d /\ o.body = transport
    BY Zenon, <1>6 DEF Outcome
  <2>2. IsCpu(c) /\ d \in BOOLEAN
    BY Zenon, <1>1, <1>2
  <2> QED  BY Zenon, <2>1, <2>2, <1>1 DEF transport, ref
<1>7. ASSUME own \/ ~ctxDone, NEW r \in replies, o = Outcome("up", sent(r), r.cpu, ended, transport)
      PROVE  Concl
  <2>1. /\ o.link = "up" /\ o.flight = sent(r) /\ o.cpu = r.cpu /\ o.ctxDone = ended
        /\ o.body = transport
    BY Zenon, <1>7 DEF Outcome
  <2> QED  BY Zenon, <2>1, <1>1, <1>2 DEF transport, ref
<1>8. ASSUME NEW r \in replies,
             o = Outcome("up", Tail(sent(r)), r.cpu, ctxDone, AnswerTo(ref, sent(r)))
      PROVE  Concl
  <2>1. /\ o.link = "up" /\ o.flight = Tail(sent(r)) /\ o.cpu = r.cpu /\ o.ctxDone = ctxDone
        /\ o.body = AnswerTo(ref, sent(r))
    BY Zenon, <1>8 DEF Outcome
  <2>2. CASE flight = <<>>
    <3>1. Served(o, r)
      BY Zenon, <2>1, <2>2, <1>2 DEF Served, AnswerTo
    <3> QED  BY Zenon, <3>1, <2>1, <1>1, <1>2 DEF ref
  <2>3. CASE flight # <<>>
    <3>1. o.body = Failure("mismatch") /\ o.flight # <<>>
      BY Zenon, <2>1, <2>3, <1>2 DEF AnswerTo
    <3> QED  BY Zenon, <3>1, <2>1, <1>1, <1>2 DEF ref
  <2> QED  BY <2>2, <2>3, ZenonT(60)
<1> QED  BY Zenon, <1>3, <1>4, <1>5, <1>6, <1>7, <1>8

\* An exchange keeps the session's state well formed.
LEMMA ExchangeKeeps ==
  ASSUME SessionOK, NEW own \in BOOLEAN, NEW replies, \A r \in replies : IsReply(r),
         NEW o \in sendReceive(replies, own), Exchange(o)
  PROVE  SessionOK'
<1>1. /\ o.link \in {"up", "dead"} /\ o.ctxDone \in BOOLEAN
      /\ FlightOK(o.flight, pduRef + 1) /\ IsCpu(o.cpu)
  BY Zenon, ExchangeOutcome
<1>2. /\ link' = o.link /\ flight' = o.flight /\ cpu' = o.cpu /\ ctxDone' = o.ctxDone
      /\ pduRef' = pduRef + 1
  BY ZenonT(60) DEF Exchange
<1>3. pduRef' \in 0..MaxRefs
  BY CpuAssumption DEF Exchange, SessionOK
<1>4. FlightOK(flight', pduRef') /\ IsCpu(cpu')
  BY Zenon, <1>1, <1>2
<1> QED  BY <1>1, <1>2, <1>3, <1>4, ZenonT(60) DEF SessionOK, FlightOK, IsCpu

-----------------------------------------------------------------------------
(* The steps *)

\* The new client on a CPU that has just started.
LEMMA InitIInv == Init => IInv
<1> SUFFICES ASSUME Init PROVE IInv
  OBVIOUS
<1>1. FlightOK(<<>>, 0)
  <2>1. <<>> \in Seq(Messages) /\ DOMAIN <<>> = {}
    BY EmptySeq
  <2> QED  BY <2>1 DEF FlightOK
<1>2. IsCpu(CpuReset)
  BY DEF IsCpu, CpuReset
<1>3. SessionOK
  <2>1. link \in {"up", "dead"} /\ pduRef \in 0..MaxRefs /\ ctxDone \in BOOLEAN
    <3>1. MaxRefs \in Nat
      BY Zenon, CpuAssumption
    <3>2. 0 \in 0..MaxRefs
      BY <3>1
    <3> QED  BY Zenon, <3>2 DEF Init
  <2>2. FlightOK(flight, pduRef) /\ IsCpu(cpu)
    BY Zenon, <1>1, <1>2 DEF Init
  <2> QED  BY Zenon, <2>1, <2>2 DEF SessionOK
<1>4. CallOK
  <2>1. <<>> \in Seq(Lists) /\ <<>> \in Seq(Item) /\ DOMAIN <<>> = {}
    BY EmptySeq
  <2> QED  BY <2>1, CpuAssumption DEF Init, CallOK
<1>5. ReadInStep /\ UploadInStep
  BY ZenonT(60) DEF Init, ReadInStep, UploadInStep
<1>6. ResultIsWhole
  <2>1. DOMAIN got = {}
    BY EmptySeq DEF Init
  <2> QED  BY <2>1, ZenonT(60) DEF Init, ResultIsWhole
<1>7. NoOpenJob
  <2>1. DOMAIN cpu.open = {}
    BY EmptySeq DEF Init, CpuReset
  <2> QED  BY <2>1, ZenonT(60) DEF Init, NoOpenJob, UploadJobsEnded
<1> QED  BY <1>3, <1>4, <1>5, <1>6, <1>7, ZenonT(60) DEF IInv

\* No upload has the identifier 0.
LEMMA ZeroNotOpen == \A c : IsCpu(c) => 0 \notin DOMAIN c.open
BY DEF IsCpu

\* The list is done, read or failed: on to the next one, or back to the caller.
LEMMA DoneReading ==
  ASSUME IInv, SessionOK', pc \in {"list", "more"}, NextList,
         DOMAIN got' \subseteq Lists, \A l \in DOMAIN got' : got'[l] = Parts(l, Packets[l]),
         errs' \subseteq Lists, payload' \in Seq(Item), n' \in 0..maxUserdataFollowUps,
         upSeq' \in Nat, UNCHANGED <<calls, try, uploadID>>
  PROVE  IInv'
<1>1. lists \in Seq(Lists) /\ lists # <<>> /\ uploadID = 0
  BY DEF IInv, CallOK, NoOpenJob
<1>2. lists' \in Seq(Lists)
  BY <1>1, HeadTailProperties, ZenonT(60) DEF NextList
<1>3. /\ pc' \in {"list", "idle"} /\ (pc' = "list" => lists' # <<>>)
      /\ res' \in {"none", "ok", "partial", "error"}
  BY Zenon DEF NextList, Return
<1>4. n' \in 0..(maxUserdataFollowUps + maxUploadChunks)
  BY CpuAssumption
<1>5. CallOK'
  BY <1>2, <1>3, <1>4, ZenonT(60) DEF IInv, CallOK
<1>6. ReadInStep' /\ UploadInStep'
  BY <1>3 DEF ReadInStep, UploadInStep
<1>7. ResultIsWhole'
  BY <1>3, ZenonT(60) DEF ResultIsWhole
<1>8. NoOpenJob'
  <2>1. uploadID' \notin DOMAIN cpu'.open
    BY <1>1, ZeroNotOpen, ZenonT(60) DEF SessionOK
  <2> QED  BY <2>1, <1>1, ZenonT(60) DEF NoOpenJob, UploadJobsEnded
<1> QED  BY <1>5, <1>6, <1>7, <1>8, ZenonT(60) DEF IInv

\* A packet arrives, or its exchange fails.
LEMMA CollectKeeps ==
  ASSUME IInv, SessionOK', pc \in {"list", "more"},
         NEW collected \in Seq(Item), NEW next \in 0..maxUserdataFollowUps, NEW b \in Bodies,
         b.kind = "data" => InStep(collected \o b.data, b.more, b.tag, cpu', Head(lists)),
         Collect(collected, next, b), UNCHANGED <<calls, try, uploadID>>
  PROVE  IInv'
<1>1. lists \in Seq(Lists) /\ lists # <<>> /\ Head(lists) \in Lists /\ uploadID = 0
  <2>1. lists \in Seq(Lists) /\ lists # <<>> /\ uploadID = 0
    BY ZenonT(60) DEF IInv, CallOK, NoOpenJob
  <2> QED  BY <2>1, HeadTailProperties, ZenonT(60)
<1>2. b.data \in Seq(Item) /\ b.tag \in Nat /\ b.more \in BOOLEAN
  BY ZenonT(60) DEF Bodies
<1>3. /\ payload' = collected \o b.data /\ n' = next /\ upSeq' = b.tag
      /\ payload' \in Seq(Item)
  BY <1>2, ConcatProperties, ZenonT(60) DEF Collect
<1>4. CASE b.kind # "data"
  <2>1. ListFails
    BY Zenon, <1>4 DEF Collect
  <2>2. NextList /\ errs' = errs \cup {Head(lists)} /\ got' = got
    BY Zenon, <2>1 DEF ListFails
  <2>3. DOMAIN got' \subseteq Lists /\ \A l \in DOMAIN got' : got'[l] = Parts(l, Packets[l])
    BY Zenon, <2>2 DEF IInv, CallOK, ResultIsWhole
  <2>4. errs' \subseteq Lists
    BY Zenon, <1>1, <2>2 DEF IInv, CallOK
  <2> QED  BY <1>2, <1>3, <2>2, <2>3, <2>4, DoneReading, ZenonT(60)
<1>5. CASE b.kind = "data" /\ ~b.more
  <2>1. ListRead(payload')
    BY Zenon, <1>5 DEF Collect
  <2>2. /\ NextList /\ errs' = errs
        /\ got' = [l \in DOMAIN got \cup {Head(lists)} |-> IF l = Head(lists) THEN payload' ELSE got[l]]
    BY Zenon, <2>1 DEF ListRead
  <2>3. payload' = Parts(Head(lists), Packets[Head(lists)])
    BY Zenon, <1>3, <1>5 DEF InStep
  <2>4. DOMAIN got' \subseteq Lists /\ \A l \in DOMAIN got' : got'[l] = Parts(l, Packets[l])
    BY Zenon, <1>1, <2>2, <2>3 DEF IInv, CallOK, ResultIsWhole
  <2>5. errs' \subseteq Lists
    BY Zenon, <2>2 DEF IInv, CallOK
  <2> QED  BY <1>2, <1>3, <2>2, <2>4, <2>5, DoneReading, ZenonT(60)
<1>6. CASE b.kind = "data" /\ b.more
  <2>1. pc' = "more" /\ UNCHANGED <<lists, got, errs, res>>
    BY Zenon, <1>6 DEF Collect
  <2>2. n' \in 0..(maxUserdataFollowUps + maxUploadChunks) /\ n' <= maxUserdataFollowUps
    BY <1>3, CpuAssumption
  <2>3. CallOK'
    BY <1>1, <1>2, <1>3, <2>1, <2>2, ZenonT(60) DEF IInv, CallOK
  <2>4. ReadInStep'
    BY Zenon, <1>3, <1>6, <2>1 DEF ReadInStep, InStep
  <2>5. UploadInStep'
    BY <2>1, ZenonT(60) DEF UploadInStep
  <2>6. ResultIsWhole'
    BY <2>1, ZenonT(60) DEF IInv, ResultIsWhole
  <2>7. NoOpenJob'
    BY <1>1, <2>1, ZenonT(60) DEF NoOpenJob, UploadJobsEnded
  <2> QED  BY <2>3, <2>4, <2>5, <2>6, <2>7 DEF IInv
<1> QED  BY <1>4, <1>5, <1>6, ZenonT(60)

\* The body of an exchange that did not get the CPU's answer is a body, and
\* carries no data.
LEMMA NoAnswer ==
  \A b : b = Failure("transport") \/ b = Failure("mismatch") =>
    b \in Bodies /\ b.kind \in {"transport", "mismatch"}
BY FailureBody, ZenonT(60) DEF Kinds

\* ReadList keeps the invariant.
LEMMA ReadListKeeps == IInv /\ ReadList => IInv'
<1> SUFFICES ASSUME IInv, ReadList PROVE IInv'
  OBVIOUS
<1> DEFINE l == Head(lists)
<1>1. SessionOK /\ IsCpu(cpu) /\ l \in Lists /\ pc = "list"
  <2>1. SessionOK /\ IsCpu(cpu) /\ lists \in Seq(Lists) /\ lists # <<>> /\ pc = "list"
    BY DEF IInv, SessionOK, CallOK, ReadList
  <2> QED  BY <2>1, HeadTailProperties
<1>2. PICK o \in sendReceive(CpuUserdata(l), FALSE) : Exchange(o) /\ Collect(<<>>, 0, o.body)
  BY Zenon DEF ReadList
<1>3. \A r \in CpuUserdata(l) :
        /\ IsReply(r)
        /\ r.body.kind = "data" => InStep(r.body.data, r.body.more, r.body.tag, r.cpu, l)
  BY <1>1, UserdataReplies
<1>4. SessionOK'
  BY Zenon, <1>1, <1>2, <1>3, ExchangeKeeps
<1>5. \/ \E r \in CpuUserdata(l) : Served(o, r)
      \/ o.body = Failure("transport") \/ o.body = Failure("mismatch")
  BY Zenon, <1>1, <1>3, ExchangeOutcome
<1>6. o.body \in Bodies /\ (o.body.kind = "data" => InStep(<<>> \o o.body.data, o.body.more, o.body.tag, cpu', l))
  <2>1. CASE \E r \in CpuUserdata(l) : Served(o, r)
    <3>1. PICK r \in CpuUserdata(l) : Served(o, r)
      BY <2>1
    <3>2. o.body = r.body /\ cpu' = r.cpu /\ r.body \in Bodies
      BY Zenon, <1>2, <1>3, <3>1 DEF Served, Exchange, IsReply
    <3>3. <<>> \o r.body.data = r.body.data
      BY <3>2, ConcatEmptySeq, ZenonT(60) DEF Bodies
    <3> QED  BY Zenon, <1>3, <3>2, <3>3
  <2>2. CASE o.body = Failure("transport") \/ o.body = Failure("mismatch")
    BY <2>2, NoAnswer, ZenonT(60)
  <2> QED  BY <1>5, <2>1, <2>2, ZenonT(60)
<1>7. <<>> \in Seq(Item) /\ 0 \in 0..maxUserdataFollowUps
  BY EmptySeq, CpuAssumption
<1>8. UNCHANGED <<calls, try, uploadID>>
  BY Zenon DEF ReadList
<1> QED  BY <1>1, <1>2, <1>4, <1>6, <1>7, <1>8, CollectKeeps, ZenonT(60)

\* FollowUp keeps the invariant.
LEMMA FollowUpKeeps == IInv /\ FollowUp => IInv'
<1> SUFFICES ASSUME IInv, FollowUp PROVE IInv'
  OBVIOUS
<1> DEFINE l == Head(lists)
<1>1. /\ SessionOK /\ IsCpu(cpu) /\ l \in Lists /\ pc = "more" /\ upSeq \in Nat
      /\ payload \in Seq(Item) /\ n \in 0..maxUserdataFollowUps
  <2>1. /\ SessionOK /\ IsCpu(cpu) /\ lists \in Seq(Lists) /\ lists # <<>> /\ pc = "more"
        /\ payload \in Seq(Item) /\ upSeq \in Nat
    BY ZenonT(60) DEF IInv, SessionOK, CallOK, FollowUp
  <2>2. n \in 0..maxUserdataFollowUps
    BY <2>1, CpuAssumption DEF IInv, CallOK
  <2> QED  BY <2>1, <2>2, HeadTailProperties, ZenonT(60)
<1>2. UNCHANGED <<calls, try, uploadID>>
  BY Zenon DEF FollowUp
<1>3. CASE n = maxUserdataFollowUps /\ ListFails /\ UNCHANGED <<session, ctxDone, payload, n, upSeq>>
  <2>1. NextList /\ errs' = errs \cup {Head(lists)} /\ got' = got
    BY Zenon, <1>3 DEF ListFails
  <2>2. DOMAIN got' \subseteq Lists /\ \A k \in DOMAIN got' : got'[k] = Parts(k, Packets[k])
    BY Zenon, <2>1 DEF IInv, CallOK, ResultIsWhole
  <2>3. errs' \subseteq Lists
    BY Zenon, <1>1, <2>1 DEF IInv, CallOK
  <2>4. SessionOK'
    BY Zenon, <1>1, <1>3 DEF SessionOK, session, FlightOK, IsCpu
  <2>5. payload' = payload /\ n' = n /\ upSeq' = upSeq
    BY Zenon, <1>3
  <2> QED  BY <1>1, <1>2, <2>1, <2>2, <2>3, <2>4, <2>5, DoneReading, ZenonT(60)
<1>4. CASE /\ n # maxUserdataFollowUps
           /\ \E o \in sendReceive(CpuFollowUp(upSeq), FALSE) : Exchange(o) /\ Collect(payload, n + 1, o.body)
  <2>1. PICK o \in sendReceive(CpuFollowUp(upSeq), FALSE) : Exchange(o) /\ Collect(payload, n + 1, o.body)
    BY Zenon, <1>4
  <2>2. \A r \in CpuFollowUp(upSeq) :
          /\ IsReply(r)
          /\ r.body.kind = "data" => InStep(payload \o r.body.data, r.body.more, r.body.tag, r.cpu, l)
    <3>1. upSeq = cpu.seq => /\ cpu.list = l /\ cpu.next \in 1..Packets[l] + 1
                             /\ payload = Parts(l, cpu.next - 1)
      BY Zenon, <1>1 DEF IInv, ReadInStep
    <3> QED  BY <1>1, <3>1, FollowUpReplies, ZenonT(60)
  <2>3. SessionOK'
    BY Zenon, <1>1, <2>1, <2>2, ExchangeKeeps
  <2>4. \/ \E r \in CpuFollowUp(upSeq) : Served(o, r)
        \/ o.body = Failure("transport") \/ o.body = Failure("mismatch")
    BY Zenon, <1>1, <2>2, ExchangeOutcome
  <2>5. o.body \in Bodies /\ (o.body.kind = "data" => InStep(payload \o o.body.data, o.body.more, o.body.tag, cpu', l))
    <3>1. CASE \E r \in CpuFollowUp(upSeq) : Served(o, r)
      <4>1. PICK r \in CpuFollowUp(upSeq) : Served(o, r)
        BY <3>1
      <4>2. o.body = r.body /\ cpu' = r.cpu /\ r.body \in Bodies
        BY Zenon, <2>1, <2>2, <4>1 DEF Served, Exchange, IsReply
      <4> QED  BY Zenon, <2>2, <4>2
    <3>2. CASE o.body = Failure("transport") \/ o.body = Failure("mismatch")
      BY <3>2, NoAnswer, ZenonT(60)
    <3> QED  BY <2>4, <3>1, <3>2, ZenonT(60)
  <2>6. n + 1 \in 0..maxUserdataFollowUps
    BY <1>1, <1>4, CpuAssumption
  <2> QED  BY <1>1, <1>2, <2>1, <2>3, <2>5, <2>6, CollectKeeps, ZenonT(60)
<1> QED  BY Zenon, <1>3, <1>4 DEF FollowUp

\* On a dead connection an exchange does not bring it up.
LEMMA DeadStays ==
  ASSUME SessionOK, NEW own, NEW replies, NEW o \in sendReceive(replies, own), o.link = "up"
  PROVE  link = "up"
<1>1. CASE link = "dead"
  <2>1. sendReceive(replies, own) = {Outcome("dead", <<>>, cpu, ctxDone, Failure("transport"))}
    BY Zenon, <1>1 DEF sendReceive
  <2>2. o = Outcome("dead", <<>>, cpu, ctxDone, Failure("transport"))
    BY Zenon, <2>1
  <2>3. o.link = "dead"
    BY Zenon, <2>2 DEF Outcome
  <2> QED  BY <2>3
<1> QED  BY <1>1, ZenonT(60) DEF SessionOK

\* StartUpload keeps the invariant: the upload begins in step with the CPU.
LEMMA StartUploadKeeps == IInv /\ StartUpload => IInv'
<1> SUFFICES ASSUME IInv, StartUpload PROVE IInv'
  OBVIOUS
<1>1. /\ SessionOK /\ IsCpu(cpu) /\ pc = "start" /\ uploadID = 0 /\ payload = <<>> /\ n = 0
  BY DEF IInv, SessionOK, CallOK, NoOpenJob, StartUpload
<1>2. PICK o \in sendReceive(CpuStartUpload, FALSE) :
        /\ Exchange(o)
        /\ IF o.body.kind = "id" THEN uploadID' = o.body.tag /\ pc' = "chunk" /\ UNCHANGED res
           ELSE UNCHANGED uploadID /\ Return("error")
  BY Zenon DEF StartUpload
<1>3. \A r \in CpuStartUpload :
        /\ IsReply(r)
        /\ r.body.kind = "id" => r.body.tag \in DOMAIN r.cpu.open /\ r.cpu.open[r.body.tag] = 1
  BY <1>1, StartReplies, ZenonT(60)
<1>4. SessionOK'
  BY Zenon, <1>1, <1>2, <1>3, ExchangeKeeps
<1>5. UNCHANGED <<calls, reading, payload, n, try>>
  BY Zenon DEF StartUpload
<1>6. ResultIsWhole' /\ ReadInStep'
  BY Zenon, <1>2, <1>5 DEF IInv, ResultIsWhole, ReadInStep, reading, Return
<1>7. CASE o.body.kind # "id"
  <2>1. uploadID' = 0 /\ pc' = "idle" /\ res' = "error"
    BY Zenon, <1>1, <1>2, <1>7 DEF Return
  <2>2. CallOK'
    BY <1>5, <2>1, ZenonT(60) DEF IInv, CallOK, reading
  <2>3. UploadInStep'
    BY <2>1 DEF UploadInStep
  <2>4. NoOpenJob'
    BY Zenon, <1>4, <2>1, ZeroNotOpen DEF NoOpenJob, UploadJobsEnded, SessionOK
  <2> QED  BY <1>4, <1>6, <2>2, <2>3, <2>4, ZenonT(60) DEF IInv
<1>8. CASE o.body.kind = "id"
  <2>1. uploadID' = o.body.tag /\ pc' = "chunk" /\ res' = res
    BY Zenon, <1>2, <1>8
  <2>2. \/ \E r \in CpuStartUpload : Served(o, r)
        \/ o.body = Failure("transport") \/ o.body = Failure("mismatch")
    BY Zenon, <1>1, <1>3, ExchangeOutcome
  <2>3. PICK r \in CpuStartUpload : Served(o, r)
    BY <1>8, <2>2, NoAnswer, ZenonT(60)
  <2>4. o.body = r.body /\ cpu' = r.cpu /\ r.body \in Bodies
    BY Zenon, <1>2, <1>3, <2>3 DEF Served, Exchange, IsReply
  <2>5. uploadID' \in Nat /\ uploadID' \in DOMAIN cpu'.open /\ cpu'.open[uploadID'] = 1
    <3>1. r.body.tag \in Nat
      BY <2>4, ZenonT(60) DEF Bodies
    <3> QED  BY Zenon, <1>3, <1>8, <2>1, <2>4, <3>1
  <2>6. CallOK'
    <3>1. n' = 0 /\ 0 < maxUploadChunks /\ pc' = "chunk"
      BY <1>1, <1>5, <2>1, CpuAssumption
    <3> QED  BY <1>5, <2>1, <2>5, <3>1, ZenonT(60) DEF IInv, CallOK, reading
  <2>7. UploadInStep'
    <3>1. payload' = Parts("block", 1 - 1) /\ 1 \in 1..cpu'.size + 1
      <4>1. cpu'.size \in Nat
        BY <1>4, ZenonT(60) DEF SessionOK, IsCpu
      <4>2. payload' = <<>>
        BY <1>1, <1>5, ZenonT(60)
      <4>3. Parts("block", 0) = <<>>
        BY PartsAppend, ZenonT(60)
      <4> QED  BY <4>1, <4>2, <4>3
    <3> QED  BY Zenon, <2>5, <3>1 DEF UploadInStep
  <2>8. NoOpenJob'
    BY <2>1 DEF NoOpenJob, UploadJobsEnded
  <2> QED  BY <1>4, <1>6, <2>6, <2>7, <2>8, ZenonT(60) DEF IInv
<1> QED  BY <1>7, <1>8, ZenonT(60)

\* UploadChunk keeps the invariant: the retries lose and repeat no segment.
LEMMA UploadChunkKeeps == IInv /\ UploadChunk => IInv'
<1> SUFFICES ASSUME IInv, UploadChunk PROVE IInv'
  OBVIOUS
<1>1. /\ SessionOK /\ IsCpu(cpu) /\ pc = "chunk" /\ uploadID \in Nat /\ payload \in Seq(Item)
      /\ n \in Nat /\ n < maxUploadChunks /\ try \in 0..(maxUploadRetries - 1)
  BY CpuAssumption DEF IInv, SessionOK, CallOK, UploadChunk
<1>2. UNCHANGED <<calls, reading, uploadID>>
  BY Zenon DEF UploadChunk
<1>3. ASSUME SessionOK', pc' \in {"chunk", "end"}, payload' \in Seq(Item),
             n' \in 0..maxUploadChunks, pc' = "chunk" => n' < maxUploadChunks /\ res' = res,
             try' \in 0..(maxUploadRetries - 1), pc' = "end" => res' \in {"ok", "error"},
             pc' = "end" /\ res' = "ok" => payload' = Parts("block", cpu'.size),
             UploadInStep'
      PROVE  IInv'
  <2>1. n' \in 0..(maxUserdataFollowUps + maxUploadChunks)
    BY <1>3, CpuAssumption
  <2>2. res' \in {"none", "ok", "partial", "error", "invalid"}
    BY <1>3, ZenonT(60) DEF IInv, CallOK
  <2>3. CallOK'
    BY <1>2, <1>3, <2>1, <2>2, ZenonT(60) DEF IInv, CallOK, reading
  <2>4. ReadInStep'
    BY <1>3, ZenonT(60) DEF ReadInStep
  <2>5. ResultIsWhole'
    BY Zenon, <1>2, <1>3 DEF IInv, ResultIsWhole, reading
  <2>6. NoOpenJob'
    BY <1>3, ZenonT(60) DEF NoOpenJob, UploadJobsEnded
  <2> QED  BY <1>3, <2>3, <2>4, <2>5, <2>6 DEF IInv
<1>4. CASE ctxDone /\ Leave("error") /\ UNCHANGED <<session, ctxDone, payload, n, try>>
  <2>1. SessionOK'
    BY Zenon, <1>1, <1>4 DEF SessionOK, session, FlightOK, IsCpu
  <2>2. pc' = "end" /\ res' = "error" /\ payload' = payload /\ n' = n /\ try' = try
    BY Zenon, <1>4 DEF Leave
  <2>3. UploadInStep'
    BY <2>2, ZenonT(60) DEF UploadInStep
  <2>4. n' \in 0..maxUploadChunks
    BY <1>1, <2>2, CpuAssumption
  <2> QED  BY <1>1, <1>3, <2>1, <2>2, <2>3, <2>4, ZenonT(60)
<1>5. CASE ~ctxDone /\ \E o \in sendReceive(CpuUpload(uploadID), FALSE) : Exchange(o) /\ Chunk(o.body)
  <2>1. PICK o \in sendReceive(CpuUpload(uploadID), FALSE) : Exchange(o) /\ Chunk(o.body)
    BY Zenon, <1>5
  <2>2. \A r \in CpuUpload(uploadID) :
          /\ IsReply(r) /\ r.body.kind # "transport"
          /\ Sent(cpu, uploadID, payload) /\ r.body.kind = "data" =>
               IF r.body.more THEN Sent(r.cpu, uploadID, payload \o r.body.data)
               ELSE payload \o r.body.data = Parts("block", r.cpu.size)
    BY <1>1, UploadReplies, ZenonT(60)
  <2>3. SessionOK'
    BY Zenon, <1>1, <2>1, <2>2, ExchangeKeeps
  <2>4. /\ \/ \E r \in CpuUpload(uploadID) : Served(o, r)
           \/ o.body = Failure("transport") \/ o.body = Failure("mismatch")
        /\ o.link = "up" /\ o.flight = <<>> => \E r \in CpuUpload(uploadID) : Served(o, r)
    BY Zenon, <1>1, <1>5, <2>2, ExchangeOutcome
  <2>5. n \in 0..maxUploadChunks
    BY <1>1, CpuAssumption
  <2>6. CASE Retried(o.body.kind)
    <3>1. o.body.kind = "transport"
      BY Zenon, <2>6 DEF Retried
    <3>2. ~(link' = "up" /\ flight' = <<>>)
      BY Zenon, <2>1, <2>2, <2>4, <3>1 DEF Exchange, Served
    <3>3. /\ payload' = payload /\ n' = n
          /\ \/ try + 1 < maxUploadRetries /\ try' = try + 1 /\ UNCHANGED <<pc, res>>
             \/ try' = try /\ pc' = "end" /\ res' = "error"
      BY Zenon, <2>1, <2>6 DEF Chunk, TriesLeft, Leave
    <3>4. UploadInStep'
      BY <3>2, ZenonT(60) DEF UploadInStep
    <3>5. try' \in 0..(maxUploadRetries - 1)
      BY <1>1, <3>3, CpuAssumption
    <3>6. /\ pc' \in {"chunk", "end"} /\ (pc' = "chunk" => n' < maxUploadChunks /\ res' = res)
          /\ (pc' = "end" => res' = "error")
      BY <1>1, <3>3
    <3> QED  BY <1>1, <1>3, <2>3, <2>5, <3>3, <3>4, <3>5, <3>6, ZenonT(60)
  <2>7. CASE ~Retried(o.body.kind) /\ o.body.kind # "data"
    <3>1. payload' = payload /\ n' = n /\ try' = try /\ pc' = "end" /\ res' = "error"
      BY Zenon, <2>1, <2>7 DEF Chunk, Leave
    <3>2. UploadInStep'
      BY <3>1, ZenonT(60) DEF UploadInStep
    <3> QED  BY <1>1, <1>3, <2>3, <2>5, <3>1, <3>2
  <2>8. CASE ~Retried(o.body.kind) /\ o.body.kind = "data"
    <3>1. PICK r \in CpuUpload(uploadID) : Served(o, r)
      BY <2>4, <2>8, NoAnswer, ZenonT(60)
    <3>2. /\ o.body = r.body /\ cpu' = r.cpu /\ r.body \in Bodies /\ flight = <<>> /\ o.link = "up"
      BY Zenon, <2>1, <2>2, <3>1 DEF Served, Exchange, IsReply
    <3>3. link = "up"
      BY <1>1, <3>2, DeadStays, ZenonT(60)
    <3>4. Sent(cpu, uploadID, payload)
      BY Zenon, <1>1, <3>2, <3>3 DEF IInv, UploadInStep, Sent
    <3>5. /\ payload' = payload \o r.body.data /\ n' = n + 1 /\ try' = 0
          /\ IF ~r.body.more THEN Leave(IF payload' = <<>> THEN "error" ELSE "ok")
             ELSE IF n' = maxUploadChunks THEN Leave("error") ELSE UNCHANGED <<pc, res>>
      BY Zenon, <2>1, <2>8, <3>2 DEF Chunk
    <3>6. payload' \in Seq(Item)
      <4>1. r.body.data \in Seq(Item)
        BY <3>2 DEF Bodies
      <4> QED  BY <1>1, <3>5, <4>1, ConcatProperties
    <3>7. n' \in 0..maxUploadChunks /\ (n' # maxUploadChunks => n' < maxUploadChunks)
          /\ try' \in 0..(maxUploadRetries - 1)
      BY <1>1, <3>5, CpuAssumption
    <3>8. CASE ~r.body.more
      <4>1. pc' = "end" /\ res' \in {"ok", "error"}
        BY Zenon, <3>5, <3>8 DEF Leave
      <4>2. payload' = Parts("block", cpu'.size)
        BY Zenon, <2>2, <2>8, <3>2, <3>4, <3>5, <3>8
      <4>3. UploadInStep'
        BY <4>1, ZenonT(60) DEF UploadInStep
      <4> QED  BY <1>3, <2>3, <3>6, <3>7, <4>1, <4>2, <4>3
    <3>9. CASE r.body.more
      <4>1. \/ pc' = "end" /\ res' = "error"
            \/ n' # maxUploadChunks /\ pc' = "chunk" /\ res' = res
        BY Zenon, <1>1, <3>5, <3>9 DEF Leave
      <4>2. Sent(cpu', uploadID', payload')
        <5>1. Sent(r.cpu, uploadID, payload \o r.body.data)
          BY Zenon, <2>2, <2>8, <3>2, <3>4, <3>9
        <5>2. uploadID' = uploadID
          BY Zenon, <1>2
        <5> QED  BY Zenon, <3>2, <3>5, <5>1, <5>2
      <4>3. UploadInStep'
        BY Zenon, <4>2 DEF UploadInStep, Sent
      <4> QED  BY <1>3, <2>3, <3>6, <3>7, <4>1, <4>3, ZenonT(60)
    <3> QED  BY <3>8, <3>9, ZenonT(60)
  <2> QED  BY <2>6, <2>7, <2>8, ZenonT(60)
<1> QED  BY Zenon, <1>4, <1>5 DEF UploadChunk

\* EndUpload keeps the invariant: where the connection is still up, the CPU
\* has closed the upload.
LEMMA EndUploadKeeps == IInv /\ EndUpload => IInv'
<1> SUFFICES ASSUME IInv, EndUpload PROVE IInv'
  OBVIOUS
<1>1. SessionOK /\ IsCpu(cpu) /\ uploadID \in Nat
  BY DEF IInv, SessionOK, CallOK
<1>2. PICK o \in sendReceive(CpuEndUpload(uploadID), TRUE) : Exchange(o) /\ Return(res)
  BY Zenon DEF EndUpload
<1>3. \A r \in CpuEndUpload(uploadID) : IsReply(r) /\ uploadID \notin DOMAIN r.cpu.open
  BY <1>1, EndReplies, ZenonT(60)
<1>4. SessionOK'
  BY Zenon, <1>1, <1>2, <1>3, ExchangeKeeps
<1>5. o.link = "up" => \E r \in CpuEndUpload(uploadID) : o.cpu = r.cpu
  BY Zenon, <1>1, <1>3, ExchangeOutcome
<1>6. UNCHANGED <<calls, reading, payload, n, try, uploadID>> /\ pc' = "idle" /\ res' = res
  BY Zenon, <1>2 DEF EndUpload, Return
<1>7. link' = "up" => uploadID' \notin DOMAIN cpu'.open
  BY Zenon, <1>2, <1>3, <1>5, <1>6 DEF Exchange
<1>8. CallOK'
  BY <1>6, ZenonT(60) DEF IInv, CallOK, reading
<1>9. ReadInStep' /\ UploadInStep' /\ ResultIsWhole' /\ NoOpenJob'
  BY <1>6, <1>7, ZenonT(60) DEF IInv, ReadInStep, UploadInStep, ResultIsWhole, NoOpenJob, UploadJobsEnded, reading
<1> QED  BY <1>4, <1>8, <1>9, ZenonT(60) DEF IInv

\* A call of lists begins.
LEMMA BeginReadKeeps == ASSUME IInv, NEW b \in Batches, BeginRead(b) PROVE IInv'
<1>1. b \in Seq(Lists) /\ b # <<>>
  BY Zenon, CpuAssumption DEF Lists
<1>2. /\ calls < MaxCalls /\ calls' = calls + 1 /\ ctxDone' = FALSE
      /\ pc' = "list" /\ lists' = b /\ got' = <<>> /\ errs' = {} /\ res' = "none" /\ uploadID' = 0
      /\ UNCHANGED <<link, flight, pduRef, cpu, upSeq, payload, n, try>>
  BY Zenon DEF BeginRead, session
<1>3. SessionOK'
  BY Zenon, <1>2 DEF IInv, SessionOK, FlightOK, IsCpu
<1>4. DOMAIN got' = {}
  BY <1>2, EmptySeq
<1>5. calls' \in 0..MaxCalls
  BY <1>2, CpuAssumption DEF IInv, CallOK
<1>6. CallOK'
  BY <1>1, <1>2, <1>4, <1>5, ZenonT(60) DEF IInv, CallOK
<1>7. ReadInStep' /\ UploadInStep' /\ ResultIsWhole'
  BY <1>2, <1>4, ZenonT(60) DEF ReadInStep, UploadInStep, ResultIsWhole
<1>8. NoOpenJob'
  BY <1>2, ZenonT(60) DEF NoOpenJob, UploadJobsEnded
<1> QED  BY <1>3, <1>6, <1>7, <1>8, ZenonT(60) DEF IInv

\* UploadBlock begins, or refuses its arguments.
LEMMA BeginUploadKeeps == IInv /\ BeginUpload => IInv'
<1> SUFFICES ASSUME IInv, BeginUpload PROVE IInv'
  OBVIOUS
<1>1. /\ calls < MaxCalls /\ calls' = calls + 1 /\ ctxDone' = FALSE /\ uploadID' = 0
      /\ lists' = <<>> /\ got' = <<>> /\ errs' = {} /\ payload' = <<>> /\ n' = 0 /\ try' = 0
      /\ UNCHANGED <<link, flight, cpu, upSeq>>
      /\ pc' \in {"start", "idle"} /\ res' \in {"none", "invalid"}
      /\ \/ pduRef' = pduRef
         \/ pduRef < MaxRefs /\ pduRef' = pduRef + 1
  BY Zenon DEF BeginUpload, Return
<1>2. pduRef' \in 0..MaxRefs /\ FlightOK(flight, pduRef')
  <2>1. pduRef \in Nat /\ pduRef \in 0..MaxRefs /\ FlightOK(flight, pduRef) /\ MaxRefs \in Nat
    BY CpuAssumption DEF IInv, SessionOK
  <2>2. FlightOK(flight, pduRef + 1)
    BY <2>1, FlightSteps, ZenonT(60)
  <2>3. pduRef' \in 0..MaxRefs
    BY <1>1, <2>1
  <2> QED  BY Zenon, <1>1, <2>1, <2>2, <2>3
<1>3. SessionOK'
  <2>1. FlightOK(flight', pduRef') /\ IsCpu(cpu')
    BY Zenon, <1>1, <1>2 DEF IInv, SessionOK
  <2> QED  BY <1>1, <1>2, <2>1, ZenonT(60) DEF IInv, SessionOK, FlightOK, IsCpu
<1>4. /\ DOMAIN got' = {} /\ <<>> \in Seq(Lists) /\ <<>> \in Seq(Item)
  BY <1>1, EmptySeq
<1>5. /\ calls' \in 0..MaxCalls /\ 0 \in 0..(maxUserdataFollowUps + maxUploadChunks)
      /\ 0 \in 0..(maxUploadRetries - 1)
  BY <1>1, CpuAssumption DEF IInv, CallOK
<1>6. CallOK'
  BY <1>1, <1>4, <1>5, ZenonT(60) DEF IInv, CallOK
<1>7. ReadInStep' /\ UploadInStep' /\ ResultIsWhole'
  BY <1>1, <1>4, ZenonT(60) DEF ReadInStep, UploadInStep, ResultIsWhole
<1>8. NoOpenJob'
  BY Zenon, <1>1, <1>3, ZeroNotOpen DEF NoOpenJob, UploadJobsEnded, SessionOK
<1> QED  BY <1>3, <1>6, <1>7, <1>8, ZenonT(60) DEF IInv

\* What is not an exchange of the call: its context ends, or another goroutine
\* connects or closes while no call has the lock.
LEMMA OtherStepsKeep == IInv /\ (CtxEnds \/ Connect \/ Close \/ UNCHANGED vars) => IInv'
<1> SUFFICES ASSUME IInv, CtxEnds \/ Connect \/ Close \/ UNCHANGED vars PROVE IInv'
  OBVIOUS
<1>1. UNCHANGED <<pduRef, calls, pc, lists, got, errs, upSeq, payload, n, try, uploadID, res>>
  BY Zenon DEF CtxEnds, Connect, Close, vars, session, reading
<1>2. CallOK'
  BY Zenon, <1>1 DEF IInv, CallOK
<1>3. CASE CtxEnds \/ UNCHANGED vars
  <2>1. UNCHANGED <<link, flight, cpu>> /\ ctxDone' \in BOOLEAN
    BY Zenon, <1>3 DEF CtxEnds, vars, session, IInv, SessionOK
  <2>2. SessionOK'
    BY Zenon, <1>1, <2>1 DEF IInv, SessionOK, FlightOK, IsCpu
  <2>3. ReadInStep' /\ UploadInStep'
    BY Zenon, <1>1, <2>1 DEF IInv, ReadInStep, UploadInStep
  <2>4. ResultIsWhole'
    BY Zenon, <1>1, <2>1 DEF IInv, ResultIsWhole
  <2>5. NoOpenJob'
    BY Zenon, <1>1, <2>1 DEF IInv, NoOpenJob, UploadJobsEnded
  <2> QED  BY Zenon, <1>2, <2>2, <2>3, <2>4, <2>5 DEF IInv
<1>4. CASE Connect \/ Close
  <2>1. /\ pc \in {"idle", "list"} /\ link' \in {"up", "dead"} /\ flight' = <<>> /\ ctxDone' = ctxDone
        /\ (link' = "up" => cpu' = CpuReset) /\ (cpu' = CpuReset \/ cpu' = cpu)
    BY <1>4, ZenonT(60) DEF Connect, Close, Unlocked
  <2>2. IsCpu(CpuReset) /\ DOMAIN CpuReset.open = {}
    BY EmptySeq DEF IsCpu, CpuReset
  <2>3. SessionOK'
    <3>1. IsCpu(cpu')
      BY Zenon, <2>1, <2>2 DEF IInv, SessionOK
    <3>2. FlightOK(<<>>, pduRef)
      <4>1. pduRef \in Nat /\ FlightOK(flight, pduRef)
        BY DEF IInv, SessionOK
      <4> QED  BY <4>1, FlightSteps, ZenonT(60)
    <3>3. FlightOK(flight', pduRef')
      BY Zenon, <1>1, <2>1, <3>2
    <3> QED  BY Zenon, <1>1, <2>1, <3>1, <3>3 DEF IInv, SessionOK, FlightOK, IsCpu
  <2>4. ReadInStep' /\ UploadInStep' /\ ResultIsWhole'
    BY <1>1, <2>1, ZenonT(60) DEF IInv, ReadInStep, UploadInStep, ResultIsWhole
  <2>5. NoOpenJob'
    <3>1. link' = "up" => uploadID' \notin DOMAIN cpu'.open
      BY Zenon, <2>1, <2>2
    <3> QED  BY Zenon, <1>1, <3>1 DEF IInv, NoOpenJob, UploadJobsEnded
  <2> QED  BY <1>2, <2>3, <2>4, <2>5, ZenonT(60) DEF IInv
<1> QED  BY <1>3, <1>4, ZenonT(60)

\* Every step keeps the invariant.
LEMMA NextIInv == IInv /\ [Next]_vars => IInv'
<1> SUFFICES ASSUME IInv, [Next]_vars PROVE IInv'
  BY ZenonT(60)
<1>1. ASSUME NEW b \in Batches, BeginRead(b) PROVE IInv'
  BY <1>1, BeginReadKeeps, ZenonT(60)
<1> QED
  BY Zenon, <1>1, BeginUploadKeeps, ReadListKeeps, FollowUpKeeps, StartUploadKeeps,
     UploadChunkKeeps, EndUploadKeeps, OtherStepsKeep DEF Next

-----------------------------------------------------------------------------
(* The theorems *)

\* The inductive invariant holds in every reachable state.
LEMMA Invariance == Spec => []IInv
BY InitIInv, NextIInv, PTL DEF Spec

\* The client's fields keep their types and its loops their bounds: no more
\* follow-ups, segments and tries than the code's constants allow, no unread
\* answer with a reference not yet given out.
THEOREM TypeCorrect == Spec => []TypeOK
<1>1. IInv => TypeOK
  BY Zenon DEF IInv, SessionOK, CallOK, FlightOK, TypeOK, Lists
<1> QED  BY <1>1, Invariance, PTL

\* A list or a block that a call returns is whole: its packets or segments
\* all, in order and of no other list, whatever the CPU answers, earlier
\* calls left unread, and wherever the connection broke.
THEOREM ResultsAreWhole == Spec => []ResultIsWhole
<1>1. IInv => ResultIsWhole
  BY ZenonT(60) DEF IInv
<1> QED  BY <1>1, Invariance, PTL

\* UploadBlock leaves no upload open on a connection that is still up.
THEOREM UploadsAreEnded == Spec => []UploadJobsEnded
<1>1. IInv => UploadJobsEnded
  BY DEF IInv, NoOpenJob
<1> QED  BY <1>1, Invariance, PTL

=============================================================================
