----------------------------- MODULE CpuServices -----------------------------
(***************************************************************************)
(* The client's operations that take several exchanges with one CPU: user  *)
(* data lists, which come in packets (client/szl.go userdata; Identify,    *)
(* ListBlocks, ListAllBlocks and the like), and the upload of a block      *)
(* (client/blocks.go UploadBlock), which the CPU sends in segments.        *)
(*                                                                         *)
(* One call runs at a time, as Client.reqMu has it, so an exchange         *)
(* (sendReceive) is one step here; what a context or a connection that     *)
(* ends in the middle of it leaves behind is ClientSession's subject and   *)
(* its outcome here.  PDU references are not reused within the bounds:     *)
(* ClientSession has the case of a reference that goes round.              *)
(*                                                                         *)
(* Parts of lists and blocks are numbered; the data of an answer is a      *)
(* sequence of at most one part.                                           *)
(***************************************************************************)
EXTENDS Naturals, Sequences, FiniteSets, Functions

CONSTANTS
  Packets,              \* list name -> the number of packets the CPU has of it
  Blocks,               \* the numbers of segments a block may have
  Identify,             \* the sequence of lists Identify reads under one lock
  ListAllBlocks,        \* the sequence of lists ListAllBlocks reads, one lock each
  Faults,               \* what a CPU may do besides: "refuse", "garble", "empty"
  maxUserdataFollowUps, \* 256 in the code
  maxUploadChunks,      \* 4096 in the code
  maxUploadRetries,     \* 3 in the code
  MaxCalls,             \* bound on the number of calls
  MaxRefs               \* bound on the number of exchanges

\* A list of its own (ListBlocks, GetCPUState, ReadDiagBufferRaw...) is a call
\* that reads one.
Batches == {Identify, ListAllBlocks} \cup {<<l>> : l \in DOMAIN Packets}

\* MaxRefs is enough for every exchange of MaxCalls calls.
ASSUME CpuAssumption ==
  /\ \A l \in DOMAIN Packets : Packets[l] \in Nat \ {0}
  /\ \A b \in Batches : b \in Seq(DOMAIN Packets) /\ b # <<>>
  /\ Blocks \subseteq Nat /\ MaxCalls \in Nat /\ MaxRefs \in Nat
  /\ maxUserdataFollowUps \in Nat /\ {maxUploadChunks, maxUploadRetries} \subseteq Nat \ {0}
  /\ \A b \in Batches : MaxRefs >= MaxCalls * Len(b) * (1 + maxUserdataFollowUps)
  /\ MaxRefs >= MaxCalls * (2 + maxUploadChunks * maxUploadRetries)

VARIABLES
  link,      \* the connection in Client.conn: "up", or "dead" when broken or closed
  flight,    \* answers not read yet: [ref, body]
  pduRef,    \* Client.pduRef
  cpu,       \* the CPU: its uploads and the list it is sending
  ctxDone,   \* has the context of the call ended?
  calls,     \* the number of calls so far
  pc,        \* where the call is: the exchange it does next, or "idle"
  lists,     \* the lists of the call still to read, the current one first
  got,       \* list -> payload, of the lists of the call that were read
  errs,      \* the lists of the call that failed
  payload,   \* the parts collected
  n,         \* the counter of the follow-up loop or the chunk loop
  try,       \* tries of the current chunk that failed
  upSeq,     \* up.Sequence of the last packet
  uploadID,  \* start.UploadID of the last upload, 0 for none
  res        \* what the call returns

session == <<link, flight, pduRef, cpu>>
reading == <<lists, got, errs, upSeq>>
vars == <<session, ctxDone, calls, pc, reading, payload, n, try, uploadID, res>>

CpuReset == [open |-> <<>>, ids |-> 0, size |-> 0, list |-> "none", seq |-> 0, next |-> 0]

Init ==
  /\ link = "up" /\ flight = <<>> /\ pduRef = 0 /\ cpu = CpuReset
  /\ ctxDone = FALSE /\ calls = 0 /\ pc = "idle"
  /\ lists = <<>> /\ got = <<>> /\ errs = {} /\ payload = <<>>
  /\ n = 0 /\ try = 0 /\ upSeq = 0 /\ uploadID = 0 /\ res = "none"

-----------------------------------------------------------------------------
(* The CPU, as the client uses it: the states and answers a request gives. *)

Body(kind, data, more, tag) == [kind |-> kind, data |-> data, more |-> more, tag |-> tag]
Failure(kind) == Body(kind, <<>>, FALSE, 0)
Reply(state, body) == [cpu |-> state, body |-> body]

\* A CPU may refuse, or answer what does not parse after doing its work.
OrFault(done) ==
  {Reply(cpu, Failure("refused")) : f \in Faults \cap {"refuse"}} \cup
  {Reply(done, Failure("garbled")) : f \in Faults \cap {"garble"}}

\* Part k of last, perhaps with the end announced later, or an empty part.
Part(of, k, last, tag, done) ==
  {Reply(done, Body("data", <<[of |-> of, no |-> k]>>, k < last, tag))} \cup OrFault(done) \cup
  UNION {{Reply(done, Body("data", <<[of |-> of, no |-> k]>>, TRUE, tag)),
          Reply(cpu, Body("data", <<>>, TRUE, tag))} : f \in Faults \cap {"empty"}}

LastPart(tag) == {Reply(cpu, Body("data", <<>>, FALSE, tag))} \cup OrFault(cpu)

CpuStartUpload ==
  UNION {LET id == cpu.ids + 1
             done == [cpu EXCEPT !.ids = id, !.size = size,
                        !.open = [i \in DOMAIN @ \cup {id} |-> IF i = id THEN 1 ELSE @[i]]]
         IN {Reply(done, Body("id", <<>>, FALSE, id))} \cup OrFault(done) : size \in Blocks}

CpuUpload(id) ==
  IF id \notin DOMAIN cpu.open THEN {Reply(cpu, Failure("refused"))}
  ELSE IF cpu.open[id] > cpu.size THEN LastPart(0)
  ELSE Part("block", cpu.open[id], cpu.size, 0, [cpu EXCEPT !.open[id] = @ + 1])

CpuEndUpload(id) ==
  {Reply([cpu EXCEPT !.open = Restrict(@, DOMAIN @ \ {id})], Body("ended", <<>>, FALSE, 0))}

CpuUserdata(l) ==
  LET done == [cpu EXCEPT !.list = l, !.seq = @ + 1, !.next = 2]
  IN Part(l, 1, Packets[l], done.seq, done)

CpuFollowUp(seq) ==
  IF seq # cpu.seq THEN {Reply(cpu, Failure("refused"))}
  ELSE IF cpu.next > Packets[cpu.list] THEN LastPart(seq)
  ELSE Part(cpu.list, cpu.next, Packets[cpu.list], seq, [cpu EXCEPT !.next = @ + 1])

-----------------------------------------------------------------------------
(* sendReceive *)

\* Mutant: the reference of the answer is not compared.
AnswerToUncorrelated(ref, f) == Head(f).body

\* The first TSDU of the stream is the answer, if its reference is ref.
AnswerTo(ref, f) == IF Head(f).ref = ref THEN Head(f).body ELSE Failure("mismatch")

Outcome(l, f, c, done, body) ==
  [link |-> l, flight |-> f, cpu |-> c, ctxDone |-> done, body |-> body]

\* The outcomes of an exchange, with the next reference, whose request the
\* CPU may answer as replies says.  own: it has a context of its own (the
\* deferred End Upload), which has not ended when it starts.
sendReceive(replies, own) ==
  LET ref == pduRef + 1
      ended == IF own THEN ctxDone ELSE TRUE      \* ctxDone once the context ends
      sent(r) == Append(flight, [ref |-> ref, body |-> r.body])
      transport == Failure("transport")
  IN IF link = "dead" THEN {Outcome("dead", <<>>, cpu, ctxDone, transport)}
     ELSE IF ctxDone /\ ~own THEN {Outcome("up", flight, cpu, TRUE, transport), Outcome("dead", <<>>, cpu, TRUE, transport)}
     ELSE \* the connection breaks, before or after the CPU has the request
          (UNION {{Outcome("dead", <<>>, c, ctxDone, transport), Outcome("dead", <<>>, c, ended, transport)} :
                    c \in {cpu} \cup {r.cpu : r \in replies}}) \cup
          \* the context ends and leaves the answer unread
          {Outcome("up", sent(r), r.cpu, ended, transport) : r \in replies} \cup
          {Outcome("up", Tail(sent(r)), r.cpu, ctxDone, AnswerTo(ref, sent(r))) : r \in replies}

\* The exchange ends with outcome o.
Exchange(o) ==
  /\ pduRef < MaxRefs /\ pduRef' = pduRef + 1
  /\ link' = o.link /\ flight' = o.flight /\ cpu' = o.cpu /\ ctxDone' = o.ctxDone

-----------------------------------------------------------------------------
(* User data lists *)

\* Return r; the deferred End Upload of an upload comes before (Leave).
Return(r) == pc' = "idle" /\ res' = r

\* The current list is done: the next one, or the end of the call, which
\* fails altogether when it has no list, and in part when it lacks one.
NextList ==
  /\ lists' = Tail(lists)
  /\ IF lists' # <<>> THEN pc' = "list" /\ res' = "none"
     ELSE Return(CASE errs' = {} -> "ok" [] DOMAIN got' = {} -> "error" [] OTHER -> "partial")

ListRead(p) ==
  /\ got' = [l \in DOMAIN got \cup {Head(lists)} |-> IF l = Head(lists) THEN p ELSE got[l]]
  /\ UNCHANGED errs /\ NextList

ListFails == errs' = errs \cup {Head(lists)} /\ UNCHANGED got /\ NextList

\* The packet in b ends the list, asks for a follow-up, or fails.
Collect(collected, next, b) ==
  /\ payload' = collected \o b.data /\ n' = next /\ upSeq' = b.tag
  /\ IF b.kind # "data" THEN ListFails
     ELSE IF b.more THEN pc' = "more" /\ UNCHANGED <<lists, got, errs, res>>
     ELSE ListRead(payload')

BeginRead(b) ==
  /\ pc = "idle" /\ calls < MaxCalls
  /\ calls' = calls + 1 /\ ctxDone' = FALSE
  /\ pc' = "list" /\ lists' = b /\ got' = <<>> /\ errs' = {} /\ res' = "none"
  /\ uploadID' = 0
  /\ UNCHANGED <<session, upSeq, payload, n, try>>

ReadList ==
  /\ pc = "list"
  /\ \E o \in sendReceive(CpuUserdata(Head(lists)), FALSE) : Exchange(o) /\ Collect(<<>>, 0, o.body)
  /\ UNCHANGED <<calls, try, uploadID>>

\* Mutant: the number of follow-ups is not bounded.
FollowUpUnbounded ==
  /\ pc = "more"
  /\ \E o \in sendReceive(CpuFollowUp(upSeq), FALSE) : Exchange(o) /\ Collect(payload, n, o.body)
  /\ UNCHANGED <<calls, try, uploadID>>

FollowUp ==
  /\ pc = "more"
  /\ \/ /\ n = maxUserdataFollowUps
        /\ ListFails /\ UNCHANGED <<session, ctxDone, payload, n, upSeq>>
     \/ /\ n # maxUserdataFollowUps
        /\ \E o \in sendReceive(CpuFollowUp(upSeq), FALSE) : Exchange(o) /\ Collect(payload, n + 1, o.body)
  /\ UNCHANGED <<calls, try, uploadID>>

-----------------------------------------------------------------------------
(* UploadBlock *)

\* Mutant: the upload is ended only when it succeeds.
LeaveOnlyOk(r) == res' = r /\ pc' = IF r = "ok" THEN "end" ELSE "idle"

\* Every return after Start Upload runs the deferred End Upload first.
Leave(r) == res' = r /\ pc' = "end"

\* isUploadProtocolError is false: the chunk is asked for again.
Retried(kind) == kind = "transport"

\* Mutant: one try too many.
TriesLeftOff == try < maxUploadRetries

TriesLeft == try + 1 < maxUploadRetries

BeginUpload ==
  /\ pc = "idle" /\ calls < MaxCalls
  /\ calls' = calls + 1 /\ ctxDone' = FALSE /\ uploadID' = 0
  /\ lists' = <<>> /\ got' = <<>> /\ errs' = {} /\ payload' = <<>> /\ n' = 0 /\ try' = 0
  /\ \/ pc' = "start" /\ res' = "none" /\ UNCHANGED pduRef
     \* the block number or, found by the encoder, the block type is wrong
     \* (GetBlockInfo has the same two returns)
     \/ Return("invalid") /\ UNCHANGED pduRef
     \/ Return("invalid") /\ pduRef < MaxRefs /\ pduRef' = pduRef + 1
  /\ UNCHANGED <<link, flight, cpu, upSeq>>

StartUpload ==
  /\ pc = "start"
  /\ \E o \in sendReceive(CpuStartUpload, FALSE) :
       /\ Exchange(o)
       /\ IF o.body.kind = "id" THEN uploadID' = o.body.tag /\ pc' = "chunk" /\ UNCHANGED res
          ELSE UNCHANGED uploadID /\ Return("error")
  /\ UNCHANGED <<calls, reading, payload, n, try>>

\* What follows the answer b to the request for chunk n.
Chunk(b) ==
  IF Retried(b.kind)
  THEN /\ UNCHANGED <<payload, n>>
       /\ \/ TriesLeft /\ try' = try + 1 /\ UNCHANGED <<pc, res>>
          \/ ~TriesLeft /\ UNCHANGED try /\ Leave("error")
  ELSE IF b.kind # "data" THEN UNCHANGED <<payload, n, try>> /\ Leave("error")
  ELSE /\ payload' = payload \o b.data /\ n' = n + 1 /\ try' = 0
       /\ IF ~b.more THEN Leave(IF payload' = <<>> THEN "error" ELSE "ok")
          ELSE IF n' = maxUploadChunks THEN Leave("error")
          ELSE UNCHANGED <<pc, res>>

UploadChunk ==
  /\ pc = "chunk"
  /\ \/ ctxDone /\ Leave("error") /\ UNCHANGED <<session, ctxDone, payload, n, try>>
     \/ ~ctxDone /\ \E o \in sendReceive(CpuUpload(uploadID), FALSE) : Exchange(o) /\ Chunk(o.body)
  /\ UNCHANGED <<calls, reading, uploadID>>

EndUpload ==
  /\ pc = "end"
  /\ \E o \in sendReceive(CpuEndUpload(uploadID), TRUE) : Exchange(o) /\ Return(res)
  /\ UNCHANGED <<calls, reading, payload, n, try, uploadID>>

-----------------------------------------------------------------------------
(* The context of the call ends between two exchanges; another goroutine    *)
(* connects anew or closes the connection while no call has reqMu, which is *)
(* also between two lists of ListAllBlocks.                                 *)

CtxEnds ==
  /\ pc # "idle" /\ ~ctxDone /\ ctxDone' = TRUE
  /\ UNCHANGED <<session, calls, pc, reading, payload, n, try, uploadID, res>>

Unlocked ==
  \/ pc = "idle"
  \/ pc = "list" /\ got = <<>> /\ errs = {}
  \/ pc = "list" /\ Head(lists) \in Range(ListAllBlocks)

Connect ==
  /\ Unlocked
  /\ link' = "up" /\ flight' = <<>> /\ cpu' = CpuReset
  /\ UNCHANGED <<pduRef, ctxDone, calls, pc, reading, payload, n, try, uploadID, res>>

Close ==
  /\ Unlocked
  /\ link' = "dead" /\ flight' = <<>>
  /\ UNCHANGED <<pduRef, cpu, ctxDone, calls, pc, reading, payload, n, try, uploadID, res>>

Step == ReadList \/ FollowUp \/ StartUpload \/ UploadChunk \/ EndUpload

Next ==
  \/ \E b \in Batches : BeginRead(b)
  \/ BeginUpload
  \/ ReadList \/ FollowUp
  \/ StartUpload \/ UploadChunk \/ EndUpload
  \/ CtxEnds \/ Connect \/ Close

Spec == Init /\ [][Next]_vars

\* An exchange ends: the connection answers, breaks, or the context ends.
FairSpec == Spec /\ WF_vars(Step)

-----------------------------------------------------------------------------
(* Properties *)

Parts(of, last) == [k \in 1..last |-> [of |-> of, no |-> k]]

\* The variables keep their types, and the loops their bounds.
TypeOK ==
  /\ link \in {"up", "dead"} /\ pduRef \in 0..MaxRefs /\ ctxDone \in BOOLEAN
  /\ \A i \in DOMAIN flight : flight[i].ref \in 1..pduRef
  /\ calls \in 0..MaxCalls /\ pc \in {"idle", "list", "more", "start", "chunk", "end"}
  /\ DOMAIN got \subseteq DOMAIN Packets /\ errs \subseteq DOMAIN Packets
  /\ n \in 0..(maxUserdataFollowUps + maxUploadChunks) /\ try \in 0..(maxUploadRetries - 1)
  /\ res \in {"none", "ok", "partial", "error", "invalid"}

\* What a call returns is whole, whatever answers earlier calls left unread and
\* wherever the connection broke.  A list of Identify, ListBlocks or
\* ListAllBlocks is the CPU's own: all its packets, in order, and nothing of
\* another list.  An upload that UploadBlock is about to return is the whole
\* block: no segment is lost or repeated by the retries.
ResultIsWhole ==
  /\ \A l \in DOMAIN got : got[l] = Parts(l, Packets[l])
  /\ pc = "end" /\ res = "ok" => payload = Parts("block", cpu.size)

\* When UploadBlock has returned and its connection is still up, the CPU has
\* no open upload left of it: every return after Start Upload ends it.
UploadJobsEnded == pc = "idle" /\ link = "up" => uploadID \notin DOMAIN cpu.open

\* Every call returns, whatever the CPU answers: a CPU that always announces
\* more data meets the bounds of the follow-up and the chunk loop.
CallReturns == pc # "idle" ~> pc = "idle"

==============================================================================
