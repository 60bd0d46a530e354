--------------------------- MODULE DiscoverProofs ----------------------------
(***************************************************************************)
(* Proofs that Discover returns exact results in the order of the          *)
(* addresses and is polite to the hosts, for any range, any number of      *)
(* workers and rack/slot pairs and any limit on attempts.                  *)
(*                                                                         *)
(* The argument follows the index of a host through the channels: it is    *)
(* still to be sent, in the channel of jobs, at one worker, in the channel *)
(* of results, or stored, and in one of these places only.                 *)
(***************************************************************************)
EXTENDS Discover, FiniteSetTheorems, SequenceTheorems, TLAPS

\* The values of the channels and of the goroutines' variables.
Reasons == {"zero", "found", "none", "max_attempts", "context_canceled"}
ResultType == [ip : Int, at : Nat, reason : Reasons]
JobType == [i : Nat, ip : Int]
OutType == [i : Nat, r : ResultType]
Stages == {"off", "receive", "check", "connect", "send", "done"}
WorkerType == [pc : Stages, i : Nat, ip : Int, attempts : Nat, r : ResultType]
ProducerType == [pc : {"off", "stream", "close", "done"}, idx : Nat, ip : Int, sent : Nat]

\* The variables have their types.
Types ==
  /\ ctxDone \in BOOLEAN /\ main \in {"count", "collect", "done"} /\ err \in BOOLEAN
  /\ results = <<>> \/ results \in [1..count -> ResultType]
  /\ producer \in ProducerType /\ jobs \in Seq(JobType) /\ jobsClosed \in BOOLEAN
  /\ worker \in [Workers -> WorkerType]
  /\ out \in Seq(OutType) /\ outClosed \in BOOLEAN
  /\ tries \in [0..(AddrSpace - 1) -> Nat]

\* Before the goroutines start nothing has happened, and a call that ended
\* before that has returned an error.
Off ==
  /\ main = "count" => producer.pc = "off"
  /\ main = "collect" => producer.pc # "off"
  /\ main = "done" => IF producer.pc = "off" THEN err ELSE outClosed
  /\ producer.pc = "off" =>
       /\ producer.idx = 0 /\ jobs = <<>> /\ out = <<>> /\ results = <<>> /\ ~outClosed
       /\ \A w \in Workers : worker[w].pc = "off"
  /\ producer.pc # "off" =>
       /\ results \in [1..count -> ResultType]
       /\ \A w \in Workers : worker[w].pc # "off"

\* The number of hosts before position idx of the range.
SentAt(idx) ==
  IF ~skipEnds THEN idx ELSE IF idx = 0 THEN 0 ELSE IF idx = total THEN total - 2 ELSE idx - 1

\* The producer has sent the hosts before its position, and stops early only
\* when the context has ended.
Streamed ==
  /\ producer.idx \in 0..total /\ producer.sent = SentAt(producer.idx)
  /\ producer.ip \in 0..(AddrSpace - 1)
  /\ producer.idx < total => producer.ip = Network + producer.idx
  /\ producer.pc \in {"close", "done"} => producer.idx = total \/ ctxDone
  /\ jobsClosed <=> producer.pc = "done"

\* The jobs the workers have received.
taken == producer.sent - Len(jobs)

\* The channel holds the jobs sent last, in their order.
Queued ==
  /\ Len(jobs) <= 2 * Cardinality(Workers) /\ taken \in 0..count
  /\ \A p \in 1..Len(jobs) : jobs[p].i = taken + p - 1 /\ jobs[p].ip = Address(taken + p)

\* A worker between the receipt of a job and the end of its probe has a host.
Busy(w) == worker[w].pc \in {"check", "connect", "send"}

\* A result for host k that says what happened.
Good(r, k) ==
  /\ r.ip = Address(k)
  /\ r.at # 0 => r.at \in Speaks[Address(k)]
  /\ r.reason \in {"found", "none", "max_attempts", "context_canceled"}
  /\ r.reason = "context_canceled" => ctxDone
  /\ r.reason \in {"none", "max_attempts"} => tries[Address(k)] = AllTries

\* A worker has a host for itself.
Working(w) ==
  Busy(w) =>
    /\ worker[w].i < taken /\ worker[w].ip = Address(worker[w].i + 1)
    /\ worker[w].attempts <= AllTries
    /\ worker[w].pc = "connect" => worker[w].attempts >= 1
    /\ tries[worker[w].ip] = worker[w].attempts - IF worker[w].pc = "connect" THEN 1 ELSE 0
    /\ results[worker[w].i + 1] = NoResult
    /\ \A p \in 1..Len(out) : out[p].i # worker[w].i
    /\ \A v \in Workers \ {w} : Busy(v) => worker[v].i # worker[w].i
    /\ worker[w].pc = "send" => Good(worker[w].r, worker[w].i + 1)

\* A result on its way is the only one of its host.
Answered(p) ==
  /\ out[p].i < taken /\ results[out[p].i + 1] = NoResult
  /\ Good(out[p].r, out[p].i + 1)
  /\ \A q \in 1..Len(out) \ {p} : out[q].i # out[p].i

\* What the caller stored is the result of its host.
Kept == \A k \in DOMAIN results : results[k] # NoResult => k <= taken /\ Good(results[k], k)

\* A host met at most the attempts allowed, none before a worker received it;
\* other addresses met none.
Tried ==
  /\ \A k \in 1..count : tries[Address(k)] <= AllTries /\ (k > taken => tries[Address(k)] = 0)
  /\ \A a \in 0..(AddrSpace - 1) : (\A k \in 1..count : Address(k) # a) => tries[a] = 0

\* While the context lasts, no host a worker received is lost.
Complete ==
  ~ctxDone /\ producer.pc # "off" =>
    \A k \in 1..taken :
      \/ results[k] # NoResult
      \/ \E w \in Workers : Busy(w) /\ worker[w].i = k - 1
      \/ \E p \in 1..Len(out) : out[p].i = k - 1

\* Workers end when the jobs do, the results are closed after the workers, and
\* a call without an error has every result.
Ended ==
  /\ \A w \in Workers : worker[w].pc = "done" /\ ~ctxDone => jobsClosed /\ jobs = <<>>
  /\ outClosed => \A w \in Workers : worker[w].pc = "done"
  /\ main = "done" /\ ~err => \A k \in 1..count :
       results[k] # NoResult /\ results[k].reason # "context_canceled"

\* The inductive invariant.
IInv ==
  /\ Types /\ Off /\ Streamed /\ Queued
  /\ \A w \in Workers : Working(w)
  /\ \A p \in 1..Len(out) : Answered(p)
  /\ Kept /\ Tried /\ Complete /\ Ended

-----------------------------------------------------------------------------
(* Numbers: the range, its hosts and their addresses *)

\* The range lies in the address space and has a host.
LEMMA Numbers ==
  /\ total \in Nat /\ total >= 1 /\ count \in Nat /\ count >= 1
  /\ Network \in Nat /\ AddrSpace \in Nat /\ Network + total <= AddrSpace
  /\ skipEnds \in BOOLEAN /\ (skipEnds <=> total > 2)
  /\ count = IF skipEnds THEN total - 2 ELSE total
<1>1. total \in Nat /\ total >= 1
  BY DiscoverAssumption DEF total
<1>2. AddrSpace \in Nat /\ Network \in 0..(AddrSpace - 1) /\ Network + total <= AddrSpace
  BY DiscoverAssumption DEF total
<1>3. skipEnds \in BOOLEAN /\ (skipEnds <=> total > 2)
  BY DEF skipEnds
<1>4. count = IF skipEnds THEN total - 2 ELSE total
  BY DEF count
<1> HIDE DEF total, count, skipEnds
<1> QED  BY <1>1, <1>2, <1>3, <1>4

\* The addresses of the hosts are addresses, one for each host.
LEMMA Addresses ==
  ASSUME NEW k \in 1..count
  PROVE  /\ Address(k) \in 0..(AddrSpace - 1) /\ Address(k) \in Int
         /\ \A j \in 1..count : Address(j) = Address(k) => j = k
<1>1. \A j \in 1..count : Address(j) = Network + j - 1 + (IF skipEnds THEN 1 ELSE 0)
  BY DEF Address
<1>2. CASE skipEnds
  BY <1>1, <1>2, Numbers
<1>3. CASE ~skipEnds
  BY <1>1, <1>3, Numbers
<1> QED  BY <1>2, <1>3, ZenonT(60)

\* The host at position idx of the range.
LEMMA HostAt ==
  ASSUME NEW idx \in Hosts
  PROVE  /\ idx \in 0..(total - 1) /\ SentAt(idx) \in 0..(count - 1) /\ SentAt(idx + 1) = SentAt(idx) + 1
         /\ Address(SentAt(idx) + 1) = Network + idx
<1>1. idx \in 0..(total - 1) /\ (skipEnds => idx # 0 /\ idx # total - 1)
  BY DEF Hosts
<1>2. CASE skipEnds
  BY <1>1, <1>2, Numbers DEF SentAt, Address
<1>3. CASE ~skipEnds
  BY <1>1, <1>3, Numbers DEF SentAt, Address
<1> QED  BY <1>2, <1>3, ZenonT(60)

\* At most the hosts are sent, and all of them at the end of the range.
LEMMA SentBound == \A idx \in 0..total : SentAt(idx) \in 0..count /\ (idx = total => SentAt(idx) = count)
<1> SUFFICES ASSUME NEW idx \in 0..total  PROVE SentAt(idx) \in 0..count /\ (idx = total => SentAt(idx) = count)
  OBVIOUS
<1>1. CASE skipEnds
  BY <1>1, Numbers DEF SentAt
<1>2. CASE ~skipEnds
  BY <1>2, Numbers DEF SentAt
<1> QED  BY <1>1, <1>2, ZenonT(60)

\* The attempts a host gets.
LEMMA Attempts ==
  /\ AllTries \in Nat /\ AllTries >= 1 /\ Pairs \in Nat /\ maxAttemptsPerHost \in Nat /\ AllTries <= Pairs
  /\ maxAttemptsPerHost > 0 => AllTries <= maxAttemptsPerHost
  /\ AllTries = Pairs \/ (maxAttemptsPerHost > 0 /\ AllTries = maxAttemptsPerHost)
<1>1. Pairs \in Nat \ {0} /\ maxAttemptsPerHost \in Nat
  BY DiscoverAssumption
<1> QED  BY <1>1 DEF AllTries

\* The zero values have their types.
LEMMA Zeros ==
  /\ NoResult \in ResultType /\ NoResult.ip = -1 /\ NoResult.reason = "zero"
  /\ \A pc \in Stages : Idle(pc) \in WorkerType /\ Idle(pc).pc = pc
  BY DEF NoResult, ResultType, Reasons, Idle, WorkerType

\* A result that says what happened is one.
LEMMA GoodIsResult ==
  ASSUME NEW k \in 1..count, NEW r, Good(r, k)  PROVE r # NoResult
<1>1. Address(k) >= 0 /\ Address(k) \in Int
  BY Addresses, Numbers
<1> QED  BY <1>1, Zeros, ZenonT(60) DEF Good

\* A receive from a channel.
LEMMA HeadTail ==
  ASSUME NEW S, NEW s \in Seq(S), s # <<>>
  PROVE  /\ Len(s) \in Nat /\ Len(s) >= 1 /\ Head(s) \in S /\ Head(s) = s[1]
         /\ Tail(s) \in Seq(S) /\ Len(Tail(s)) = Len(s) - 1
         /\ \A p \in 1..Len(s) - 1 : Tail(s)[p] = s[p + 1]
<1>1. Len(s) \in Nat /\ Len(s) # 0
  BY EmptySeq, LenProperties, ZenonT(60)
<1> QED  BY <1>1, HeadTailProperties

\* A send on a channel.
LEMMA Appended ==
  ASSUME NEW S, NEW s \in Seq(S), NEW e \in S
  PROVE  /\ Len(s) \in Nat /\ Append(s, e) \in Seq(S) /\ Len(Append(s, e)) = Len(s) + 1
         /\ \A p \in 1..Len(s) : Append(s, e)[p] = s[p]
         /\ Append(s, e)[Len(s) + 1] = e
  BY AppendProperties, LenProperties

-----------------------------------------------------------------------------
\* At the call nothing has started.
LEMMA InitIInv == Init => IInv
<1> SUFFICES ASSUME Init PROVE IInv
  OBVIOUS
<1>0. jobs = <<>> /\ out = <<>> /\ Len(jobs) = 0 /\ Len(out) = 0
  BY EmptySeq DEF Init
<1>1. Types
  <2>1. DOMAIN Speaks = 0..(AddrSpace - 1)
    BY DiscoverAssumption, ZenonT(60)
  <2>2. producer \in ProducerType
    BY Numbers DEF Init, ProducerType
  <2>3. worker \in [Workers -> WorkerType]
    BY Zeros DEF Init, Stages
  <2>4. jobs \in Seq(JobType) /\ out \in Seq(OutType)
    BY EmptySeq, ZenonT(60) DEF Init
  <2> QED  BY <2>1, <2>2, <2>3, <2>4, ZenonT(60) DEF Init, Types
<1>2. Off
  BY Zeros, ZenonT(60) DEF Init, Off, Stages
<1>3. Streamed
  BY Numbers DEF Init, Streamed, SentAt
<1>4. Queued
  <2>1. Cardinality(Workers) \in Nat
    BY DiscoverAssumption, FS_CardinalityType, ZenonT(60)
  <2> QED  BY <1>0, <2>1, Numbers DEF Init, Queued, taken
<1>5. \A w \in Workers : Working(w)
  BY Zeros DEF Init, Working, Busy, Stages
<1>6. \A p \in 1..Len(out) : Answered(p)
  BY <1>0
<1>7. Kept
  BY DEF Init, Kept
<1>8. Tried
  <2>1. \A a \in 0..(AddrSpace - 1) : tries[a] = 0
    BY DiscoverAssumption, ZenonT(60) DEF Init
  <2> QED  BY <2>1, Addresses, Attempts DEF Tried
<1>9. Complete /\ Ended
  BY Zeros DEF Init, Complete, Ended, Stages
<1> QED  BY <1>1, <1>2, <1>3, <1>4, <1>5, <1>6, <1>7, <1>8, <1>9, ZenonT(60) DEF IInv

-----------------------------------------------------------------------------
(* Steps that leave the hosts alone *)

\* Who has which host does not change with the position in the range.
LEMMA HostsFrame ==
  ASSUME IInv, taken' = taken, UNCHANGED <<worker, out, results, tries>>, ctxDone => ctxDone',
         producer'.pc = "off" <=> producer.pc = "off"
  PROVE  /\ \A w \in Workers : Working(w)'
         /\ \A p \in 1..Len(out') : Answered(p)'
         /\ Kept' /\ Tried' /\ Complete'
<1>1. ASSUME NEW w \in Workers  PROVE Working(w)'
  BY <1>1, ZenonT(60) DEF IInv, Working, Busy, Good
<1>2. ASSUME NEW p \in 1..Len(out')  PROVE Answered(p)'
  BY <1>2, ZenonT(60) DEF IInv, Answered, Good
<1>3. Kept'
  BY DEF IInv, Kept, Good
<1>4. Tried'
  BY DEF IInv, Tried
<1>5. Complete'
  BY DEF IInv, Complete, Busy
<1> QED  BY <1>1, <1>2, <1>3, <1>4, <1>5, ZenonT(60)

\* A skipped address sends no job.
LEMMA SkipKeeps == ASSUME IInv, Skip PROVE IInv'
<1>0. /\ producer.pc = "stream" /\ skipEnds /\ producer.idx \in {0, total - 1}
      /\ producer' = [producer EXCEPT !.idx = @ + 1, !.ip = IF producer.idx = 0 THEN incIP(@) ELSE @]
      /\ UNCHANGED <<ctxDone, main, results, err, worker, out, outClosed, tries, jobs, jobsClosed>>
  BY DEF Skip, producerUnchanged
<1>1. producer \in ProducerType /\ producer.ip \in 0..(AddrSpace - 1)
  BY DEF IInv, Types, Streamed
<1>2. /\ producer'.pc = "stream" /\ producer'.sent = producer.sent /\ producer'.idx = producer.idx + 1
      /\ producer'.ip = IF producer.idx = 0 THEN incIP(producer.ip) ELSE producer.ip
  BY <1>0, <1>1, ZenonT(60) DEF ProducerType
<1>3. producer' \in ProducerType /\ producer'.ip \in 0..(AddrSpace - 1)
  <2>1. incIP(producer.ip) \in 0..(AddrSpace - 1)
    BY <1>1, Numbers DEF incIP
  <2>2. producer'.ip \in 0..(AddrSpace - 1)
    BY <1>1, <1>2, <2>1, ZenonT(60)
  <2>3. producer' = [pc |-> producer'.pc, idx |-> producer'.idx, ip |-> producer'.ip, sent |-> producer'.sent]
    BY <1>0, <1>1, ZenonT(60) DEF ProducerType
  <2> QED  BY <1>1, <1>2, <2>2, <2>3, Numbers DEF ProducerType
<1>4. taken' = taken
  BY <1>0, <1>2, ZenonT(60) DEF taken
<1>5. Types' /\ Off' /\ Ended'
  BY <1>0, <1>2, <1>3, ZenonT(60) DEF IInv, Types, Off, Ended
<1>6. Streamed'
  <2>1. producer'.idx \in 0..total /\ SentAt(producer.idx) = SentAt(producer.idx + 1)
    BY <1>0, <1>2, Numbers DEF SentAt
  <2>2. producer'.idx < total => producer.idx = 0
    BY <1>0, <1>2, Numbers
  <2>3. producer'.idx < total => producer'.ip = Network + producer'.idx
    <3> SUFFICES ASSUME producer'.idx < total PROVE producer'.ip = Network + 1
      BY <1>2, <2>2, Numbers
    <3>1. producer.ip = Network /\ Network + 1 < AddrSpace
      BY <1>0, <2>2, Numbers, SMTT(30) DEF IInv, Streamed
    <3> QED  BY <1>2, <2>2, <3>1, Numbers DEF incIP
  <2> QED  BY <1>0, <1>2, <1>3, <2>1, <2>3, ZenonT(60) DEF IInv, Streamed
<1>7. Queued'
  BY <1>0, <1>4 DEF IInv, Queued
<1> QED  BY <1>0, <1>2, <1>4, <1>5, <1>6, <1>7, HostsFrame, ZenonT(60) DEF IInv

\* The job that is sent is the next host, at the end of the channel.
LEMMA SendKeeps == ASSUME IInv, Send PROVE IInv'
<1> DEFINE job == [i |-> producer.sent, ip |-> producer.ip]
<1>0. /\ producer.pc = "stream" /\ producer.idx \in Hosts /\ Len(jobs) < 2 * Cardinality(Workers)
      /\ jobs' = Append(jobs, job)
      /\ producer' = [producer EXCEPT !.idx = @ + 1, !.sent = @ + 1, !.ip = incIP(@)]
      /\ UNCHANGED <<ctxDone, main, results, err, worker, out, outClosed, tries, jobsClosed>>
  BY ZenonT(60) DEF Send, producerUnchanged
<1>1. producer \in ProducerType /\ producer.ip \in 0..(AddrSpace - 1) /\ jobs \in Seq(JobType)
  BY DEF IInv, Types, Streamed
<1>2. /\ producer'.pc = "stream" /\ producer'.sent = producer.sent + 1 /\ producer'.idx = producer.idx + 1
      /\ producer'.ip = incIP(producer.ip)
  BY <1>0, <1>1, ZenonT(60) DEF ProducerType
<1>3. producer' \in ProducerType /\ producer'.ip \in 0..(AddrSpace - 1)
  <2>1. incIP(producer.ip) \in 0..(AddrSpace - 1)
    BY <1>1, Numbers DEF incIP
  <2>2. producer' = [pc |-> producer'.pc, idx |-> producer'.idx, ip |-> producer'.ip, sent |-> producer'.sent]
    BY <1>0, <1>1, ZenonT(60) DEF ProducerType
  <2>3. producer'.idx \in Nat /\ producer'.sent \in Nat /\ producer'.ip \in Int
    BY <1>1, <1>2, <2>1, Numbers DEF ProducerType
  <2> QED  BY <1>2, <2>1, <2>2, <2>3, ZenonT(60) DEF ProducerType
<1>j. job \in JobType /\ job.i = producer.sent /\ job.ip = producer.ip
  BY <1>1, Numbers DEF JobType, ProducerType
<1> HIDE DEF job
<1>4. /\ Len(jobs) \in Nat /\ jobs' \in Seq(JobType) /\ Len(jobs') = Len(jobs) + 1
      /\ \A p \in 1..Len(jobs) : jobs'[p] = jobs[p]
      /\ jobs'[Len(jobs) + 1] = job
  BY <1>0, <1>1, <1>j, Appended, ZenonT(90)
<1>5. taken' = taken
  BY <1>1, <1>2, <1>4 DEF taken, ProducerType
<1>6. Types' /\ Off' /\ Ended'
  <2>1. Types' /\ Off'
    BY <1>0, <1>2, <1>3, <1>4, ZenonT(60) DEF IInv, Types, Off
  <2>2. Ended'
    BY <1>0 DEF IInv, Ended, Streamed
  <2> QED  BY <2>1, <2>2
<1>7. /\ producer.idx \in 0..(total - 1) /\ SentAt(producer.idx) \in 0..(count - 1)
      /\ SentAt(producer.idx + 1) = SentAt(producer.idx) + 1
      /\ Address(SentAt(producer.idx) + 1) = Network + producer.idx
  BY <1>0, HostAt, ZenonT(60)
<1>8. Streamed'
  <2>1. producer'.idx < total => producer'.ip = Network + producer'.idx
    <3> SUFFICES ASSUME producer.idx + 1 < total PROVE incIP(producer.ip) = Network + (producer.idx + 1)
      BY <1>2
    <3>1. producer.ip = Network + producer.idx
      BY <1>7, Numbers DEF IInv, Streamed
    <3> QED  BY <1>7, <3>1, Numbers DEF incIP
  <2>2. producer.sent = SentAt(producer.idx)
    BY DEF IInv, Streamed
  <2>3. producer'.idx \in 0..total /\ producer'.sent = SentAt(producer'.idx)
    BY <1>2, <1>7, <2>2, Numbers
  <2> QED  BY <1>0, <1>2, <1>3, <2>1, <2>3, ZenonT(60) DEF IInv, Streamed
<1>9. Queued'
  <2>1. producer.sent = SentAt(producer.idx) /\ producer.ip = Network + producer.idx
    BY <1>7, Numbers DEF IInv, Streamed
  <2>2. taken = producer.sent - Len(jobs) /\ taken \in 0..count /\ Cardinality(Workers) \in Nat
    BY DiscoverAssumption, FS_CardinalityType DEF IInv, Queued, taken
  <2>3. ASSUME NEW p \in 1..Len(jobs')  PROVE jobs'[p].i = taken + p - 1 /\ jobs'[p].ip = Address(taken + p)
    <3>1. CASE p \in 1..Len(jobs)
      BY <1>4, <3>1, ZenonT(60) DEF IInv, Queued
    <3>2. CASE p = Len(jobs) + 1
      <4>1. taken + p = producer.sent + 1 /\ taken + p - 1 = producer.sent
        <5>1. producer.sent \in Nat
          BY <1>1, ZenonT(60) DEF ProducerType
        <5>2. Len(jobs) \in Nat
          BY <1>4, ZenonT(60)
        <5> QED  BY <3>2, <5>1, <5>2, SMT DEF taken
      <4> QED  BY <1>4, <1>j, <1>7, <2>1, <3>2, <4>1, ZenonT(60)
    <3> QED  BY <1>4, <2>3, <3>1, <3>2
  <2> QED  BY <1>0, <1>4, <1>5, <2>2, <2>3 DEF Queued
<1> QED  BY <1>0, <1>2, <1>5, <1>6, <1>8, <1>9, HostsFrame, ZenonT(60) DEF IInv

\* The producer leaves its loop at the end of the range or of the context.
LEMMA StreamEndsKeeps == ASSUME IInv, StreamEnds PROVE IInv'
<1>0. /\ producer.pc = "stream" /\ (producer.idx = total \/ ctxDone)
      /\ producer' = [producer EXCEPT !.pc = "close"]
      /\ UNCHANGED <<ctxDone, main, results, err, worker, out, outClosed, tries, jobs, jobsClosed>>
  BY DEF StreamEnds, producerUnchanged
<1>1. producer \in ProducerType
  BY DEF IInv, Types
<1>2. /\ producer' \in ProducerType /\ producer'.pc = "close" /\ producer'.sent = producer.sent
      /\ producer'.idx = producer.idx /\ producer'.ip = producer.ip
  BY <1>0, <1>1 DEF ProducerType
<1>3. taken' = taken
  BY <1>0, <1>2 DEF taken
<1>4. Types' /\ Off' /\ Ended'
  BY <1>0, <1>2 DEF IInv, Types, Off, Ended
<1>5. Streamed' /\ Queued'
  BY <1>0, <1>2, <1>3, ZenonT(60) DEF IInv, Streamed, Queued
<1> QED  BY <1>0, <1>2, <1>3, <1>4, <1>5, HostsFrame DEF IInv

\* Closing the jobs loses none of them.
LEMMA CloseJobsKeeps == ASSUME IInv, CloseJobs PROVE IInv'
<1>0. /\ producer.pc = "close" /\ jobsClosed' = TRUE
      /\ producer' = [producer EXCEPT !.pc = "done"]
      /\ UNCHANGED <<ctxDone, main, results, err, worker, out, outClosed, tries, jobs>>
  BY DEF CloseJobs, producerUnchanged
<1>1. producer \in ProducerType
  BY DEF IInv, Types
<1>2. /\ producer' \in ProducerType /\ producer'.pc = "done" /\ producer'.sent = producer.sent
      /\ producer'.idx = producer.idx /\ producer'.ip = producer.ip
  BY <1>0, <1>1, ZenonT(60) DEF ProducerType
<1>3. taken' = taken
  BY <1>0, <1>2, ZenonT(60) DEF taken
<1>4. Types' /\ Off' /\ Ended'
  BY <1>0, <1>2, ZenonT(60) DEF IInv, Types, Off, Ended
<1>5. Streamed' /\ Queued'
  BY <1>0, <1>2, <1>3, ZenonT(60) DEF IInv, Streamed, Queued
<1> QED  BY <1>0, <1>2, <1>3, <1>4, <1>5, HostsFrame, ZenonT(60) DEF IInv

\* The results are closed when no worker is left to send one.
LEMMA CloserKeeps == ASSUME IInv, Closer PROVE IInv'
<1>0. /\ WorkersDone /\ outClosed' = TRUE
      /\ UNCHANGED <<ctxDone, main, results, err, producer, jobs, jobsClosed, worker, out, tries>>
  BY ZenonT(60) DEF Closer
<1>1. Workers # {} /\ producer.pc # "off"
  BY <1>0, DiscoverAssumption, ZenonT(60) DEF IInv, Off, WorkersDone
<1>3. taken' = taken
  BY <1>0, ZenonT(60) DEF taken
<1>4. Types' /\ Off' /\ Ended'
  BY <1>0, <1>1, ZenonT(60) DEF IInv, Types, Off, Ended, WorkersDone
<1>5. Streamed' /\ Queued'
  BY <1>0, <1>3, ZenonT(60) DEF IInv, Streamed, Queued
<1> QED  BY <1>0, <1>3, <1>4, <1>5, HostsFrame, ZenonT(60) DEF IInv

\* The context may end at any time.
LEMMA CtxEndsKeeps == ASSUME IInv, CtxEnds PROVE IInv'
<1>0. /\ ctxDone' = TRUE
      /\ UNCHANGED <<main, results, err, producer, jobs, jobsClosed, worker, out, outClosed, tries>>
  BY DEF CtxEnds
<1>3. taken' = taken
  BY <1>0, ZenonT(60) DEF taken
<1>4. Types' /\ Off' /\ Ended'
  BY <1>0, ZenonT(60) DEF IInv, Types, Off, Ended
<1>5. Streamed' /\ Queued'
  BY <1>0, <1>3, ZenonT(60) DEF IInv, Streamed, Queued
<1> QED  BY <1>0, <1>3, <1>4, <1>5, HostsFrame, ZenonT(60) DEF IInv

\* A step of something else changes nothing.
LEMMA StutterKeeps == ASSUME IInv, UNCHANGED vars PROVE IInv'
<1>0. UNCHANGED <<ctxDone, main, results, err, producer, jobs, jobsClosed, worker, out, outClosed, tries>>
  BY DEF vars
<1>3. taken' = taken
  BY <1>0, ZenonT(60) DEF taken
<1>4. Types' /\ Off' /\ Ended'
  BY <1>0, ZenonT(60) DEF IInv, Types, Off, Ended
<1>5. Streamed' /\ Queued'
  BY <1>0, <1>3, ZenonT(60) DEF IInv, Streamed, Queued
<1> QED  BY <1>0, <1>3, <1>4, <1>5, HostsFrame, ZenonT(60) DEF IInv

\* Without an error every host has its result: none is in a channel or at a
\* worker any more, and the producer has sent them all.
LEMMA ReturnKeeps == ASSUME IInv, Return PROVE IInv'
<1>0. /\ main = "collect" /\ out = <<>> /\ outClosed /\ main' = "done" /\ err' = ctxDone
      /\ UNCHANGED <<ctxDone, results, producer, jobs, jobsClosed, worker, out, outClosed, tries>>
  BY ZenonT(60) DEF Return
<1>1. producer.pc # "off"
  BY <1>0, ZenonT(60) DEF IInv, Off
<1>3. taken' = taken
  BY <1>0 DEF taken
<1>4. Types' /\ Off'
  BY <1>0, <1>1, ZenonT(60) DEF IInv, Types, Off
<1>5. Streamed' /\ Queued'
  BY <1>0, <1>3, ZenonT(60) DEF IInv, Streamed, Queued
<1>6. ASSUME ~ctxDone, NEW k \in 1..count
      PROVE  results[k] # NoResult /\ results[k].reason # "context_canceled"
  <2>1. \A w \in Workers : worker[w].pc = "done"
    BY <1>0, ZenonT(60) DEF IInv, Ended
  <2>2. jobsClosed /\ jobs = <<>>
    BY <1>6, <2>1, DiscoverAssumption, ZenonT(60) DEF IInv, Ended
  <2>3. producer.idx = total
    BY <1>6, <2>2, ZenonT(60) DEF IInv, Streamed
  <2>4. producer.sent = count
    BY <2>3, SentBound, Numbers, ZenonT(60) DEF IInv, Streamed
  <2>5. taken = count
    BY <2>2, <2>4, EmptySeq, Numbers DEF taken
  <2>6. Len(out) = 0
    BY <1>0, EmptySeq, ZenonT(60)
  <2>7. results[k] # NoResult
    BY <1>1, <1>6, <2>1, <2>5, <2>6 DEF IInv, Complete, Busy
  <2>8. k \in DOMAIN results
    BY <1>1, ZenonT(60) DEF IInv, Off
  <2> QED  BY <1>6, <2>7, <2>8, ZenonT(60) DEF IInv, Kept, Good
<1>7. Ended'
  BY <1>0, <1>6, ZenonT(60) DEF IInv, Ended
<1> QED  BY <1>0, <1>3, <1>4, <1>5, <1>7, HostsFrame, ZenonT(60) DEF IInv

-----------------------------------------------------------------------------
(* The caller *)

\* The caller returns early or starts the goroutines, with no result yet.
LEMMA CountKeeps == ASSUME IInv, Count PROVE IInv'
<1>0. /\ main = "count"
      /\ UNCHANGED <<ctxDone, jobs, jobsClosed, out, outClosed, tries>>
  BY ZenonT(60) DEF Count
<1>1. /\ producer.pc = "off" /\ producer.idx = 0 /\ jobs = <<>> /\ out = <<>> /\ results = <<>> /\ ~outClosed
      /\ producer \in ProducerType
  BY <1>0 DEF IInv, Off, Types
<1>2. CASE /\ ctxDone /\ main' = "done" /\ err' = TRUE
           /\ UNCHANGED <<results, producer, worker>>
  <2>3. taken' = taken
    BY <1>0, <1>2, ZenonT(60) DEF taken
  <2>4. Types' /\ Off' /\ Ended'
    BY <1>0, <1>1, <1>2, ZenonT(60) DEF IInv, Types, Off, Ended
  <2>5. Streamed' /\ Queued'
    BY <1>0, <1>2, <2>3, ZenonT(60) DEF IInv, Streamed, Queued
  <2> QED  BY <1>0, <1>2, <2>3, <2>4, <2>5, HostsFrame, ZenonT(60) DEF IInv
<1>3. CASE /\ ~ctxDone /\ main' = "collect"
           /\ results' = [k \in 1..count |-> NoResult]
           /\ producer' = [producer EXCEPT !.pc = "stream"]
           /\ worker' = [w \in Workers |-> Idle("receive")]
           /\ UNCHANGED err
  <2>1. /\ producer' \in ProducerType /\ producer'.pc = "stream" /\ producer'.sent = producer.sent
        /\ producer'.idx = producer.idx /\ producer'.ip = producer.ip
    BY <1>1, <1>3, ZenonT(60) DEF ProducerType
  <2>2. worker' \in [Workers -> WorkerType] /\ \A w \in Workers : worker'[w].pc = "receive"
    BY <1>3, Zeros, ZenonT(60) DEF Stages
  <2>3. results' \in [1..count -> ResultType] /\ \A k \in 1..count : results'[k] = NoResult
    BY <1>3, Zeros, ZenonT(60)
  <2>4. taken' = taken
    BY <1>0, <2>1, ZenonT(60) DEF taken
  <2>5. taken = 0 /\ Len(out) = 0 /\ Len(jobs) = 0
    <3>1. producer.sent = 0
      BY <1>1, Numbers, ZenonT(60) DEF IInv, Streamed, SentAt
    <3>2. Len(out) = 0 /\ Len(jobs) = 0
      BY <1>1, EmptySeq, ZenonT(60)
    <3> QED  BY <3>1, <3>2 DEF taken
  <2>6. Types' /\ Off'
    BY <1>0, <1>1, <1>3, <2>1, <2>2, <2>3, ZenonT(60) DEF IInv, Types, Off
  <2>7. Streamed' /\ Queued'
    BY <1>0, <1>1, <2>1, <2>4, ZenonT(60) DEF IInv, Streamed, Queued
  <2>8. \A w \in Workers : Working(w)'
    BY <2>2, ZenonT(60) DEF Working, Busy
  <2>9. \A p \in 1..Len(out') : Answered(p)'
    BY <1>0, <2>5
  <2>10. Kept'
    BY <2>3, ZenonT(60) DEF Kept
  <2>11. Tried'
    BY <1>0, <2>4, ZenonT(60) DEF IInv, Tried
  <2>12. Complete'
    BY <2>4, <2>5 DEF Complete
  <2>13. Ended'
    BY <1>0, <1>1, <1>3, <2>2, ZenonT(60) DEF Ended
  <2> QED  BY <2>6, <2>7, <2>8, <2>9, <2>10, <2>11, <2>12, <2>13, ZenonT(60) DEF IInv
<1> QED  BY <1>2, <1>3, ZenonT(60) DEF Count

\* The numbers of two hosts received.
LEMMA HostNumbers ==
  \A m, n \in Nat : \A t \in 0..count : m < t /\ m # n => m + 1 \in 1..count /\ m + 1 # n + 1
  BY Numbers, SMTT(30)

\* The number of a host received.
LEMMA HostNumber == \A m \in Nat : \A t \in 0..count : m < t => m + 1 \in 1..count
  BY Numbers, SMTT(30)

\* The caller stores a result at the place of its host, which was free, and no
\* other result of this host is on its way.
LEMMA CollectKeeps == ASSUME IInv, Collect PROVE IInv'
<1> DEFINE h == Head(out)
<1>0. /\ main = "collect" /\ out # <<>>
      /\ results' = [results EXCEPT ![h.i + 1] = h.r] /\ out' = Tail(out)
      /\ UNCHANGED <<ctxDone, main, err, producer, jobs, jobsClosed, worker, outClosed, tries>>
  BY ZenonT(60) DEF Collect
<1>1. out \in Seq(OutType) /\ producer.pc # "off" /\ results \in [1..count -> ResultType]
  BY <1>0, ZenonT(60) DEF IInv, Off, Types
<1>2. /\ Len(out) \in Nat /\ Len(out) >= 1 /\ h \in OutType /\ h = out[1]
      /\ out' \in Seq(OutType) /\ Len(out') = Len(out) - 1
      /\ \A p \in 1..Len(out) - 1 : out'[p] = out[p + 1]
  BY <1>0, <1>1, HeadTail, ZenonT(60)
<1> HIDE DEF h
<1>3. /\ h.i < taken /\ results[h.i + 1] = NoResult /\ Good(h.r, h.i + 1)
      /\ \A q \in 1..Len(out) \ {1} : out[q].i # h.i
  BY <1>2 DEF IInv, Answered
<1>4. h.i \in Nat /\ h.r \in ResultType /\ h.i + 1 \in 1..count /\ taken \in 0..count
  BY <1>2, <1>3, Numbers DEF OutType, IInv, Queued
<1>5. /\ results' \in [1..count -> ResultType] /\ results'[h.i + 1] = h.r
      /\ \A k \in 1..count : k # h.i + 1 => results'[k] = results[k]
  BY <1>0, <1>1, <1>4, ZenonT(60)
<1>6. h.r # NoResult
  BY <1>3, <1>4, GoodIsResult, ZenonT(60)
<1>7. taken' = taken
  BY <1>0, ZenonT(60) DEF taken
<1>8. Types' /\ Off' /\ Streamed' /\ Queued' /\ Ended'
  <2>1. Types' /\ Off'
    BY <1>0, <1>1, <1>2, <1>5, ZenonT(60) DEF IInv, Types, Off
  <2>2. Streamed' /\ Queued' /\ Ended'
    BY <1>0, <1>7, ZenonT(60) DEF IInv, Streamed, Queued, Ended
  <2> QED  BY <2>1, <2>2, ZenonT(60)
<1>9. ASSUME NEW w \in Workers  PROVE Working(w)'
  <2> SUFFICES ASSUME Busy(w)' PROVE Working(w)'
    BY ZenonT(60) DEF Working
  <2>1. Busy(w) /\ Working(w) /\ worker[w] \in WorkerType
    BY <1>0, ZenonT(60) DEF Busy, IInv, Types
  <2>2. worker[w].i # h.i /\ worker[w].i \in Nat /\ worker[w].i < taken
    BY <1>2, <2>1, SMTT(30), ZenonT(60) DEF Working, WorkerType
  <2>3. results'[worker[w].i + 1] = NoResult
    BY <1>4, <1>5, <2>1, <2>2, Numbers, SMTT(30) DEF Working
  <2>4. \A p \in 1..Len(out') : out'[p].i # worker[w].i
    <3> SUFFICES ASSUME NEW p \in 1..Len(out') PROVE out'[p].i # worker[w].i
      BY ZenonT(60)
    <3>1. out'[p] = out[p + 1] /\ p + 1 \in 1..Len(out)
      BY <1>2, SMTT(30)
    <3> QED  BY <2>1, <3>1, ZenonT(60) DEF Working
  <2> QED  BY <1>0, <1>7, <2>1, <2>3, <2>4, ZenonT(60) DEF Working, Busy, Good
<1>10. ASSUME NEW p \in 1..Len(out')  PROVE Answered(p)'
  <2>1. out'[p] = out[p + 1] /\ p + 1 \in 1..Len(out) /\ p + 1 # 1
    BY <1>2, <1>10
  <2>2. Answered(p + 1)
    BY <2>1, ZenonT(60) DEF IInv
  <2>3. out[p + 1] \in OutType
    BY <1>1, <2>1, SMTT(30)
  <2>6. out[p + 1].i # h.i /\ out[p + 1].i < taken
    BY <1>3, <2>1, <2>2, ZenonT(60) DEF Answered
  <2>7. out[p + 1].i \in Nat /\ out[p + 1].i + 1 \in 1..count /\ out[p + 1].i + 1 # h.i + 1
    <3>1. out[p + 1].i \in Nat
      BY <2>3, ZenonT(60) DEF OutType
    <3> QED  BY <1>4, <2>6, <3>1, HostNumbers, ZenonT(60)
  <2>4. results'[out[p + 1].i + 1] = NoResult
    BY <1>5, <2>2, <2>7, ZenonT(60) DEF Answered
  <2>5. ASSUME NEW q \in 1..Len(out') \ {p}  PROVE out'[q].i # out'[p].i
    <3>1. out'[q] = out[q + 1] /\ q + 1 \in 1..Len(out) \ {p + 1}
      BY <1>2, <2>5
    <3> QED  BY <2>1, <2>2, <3>1, ZenonT(60) DEF Answered
  <2> QED  BY <1>0, <1>7, <2>1, <2>2, <2>4, <2>5, ZenonT(60) DEF Answered, Good
<1>11. Kept'
  <2> SUFFICES ASSUME NEW k \in 1..count, results'[k] # NoResult  PROVE k <= taken /\ Good(results[k], k)'
    <3>1. DOMAIN results' = 1..count
      BY <1>5, ZenonT(60)
    <3> QED  BY <1>7, <3>1, ZenonT(60) DEF Kept
  <2>1. CASE k = h.i + 1
    <3>1. k <= taken
      BY <1>3, <1>4, <2>1, Numbers, SMTT(30)
    <3>2. results'[k] = h.r /\ Good(h.r, k)
      BY <1>3, <1>5, <2>1, ZenonT(60)
    <3> QED  BY <1>0, <3>1, <3>2, ZenonT(60) DEF Good
  <2>2. CASE k # h.i + 1
    <3>1. k \in DOMAIN results /\ results'[k] = results[k]
      BY <1>1, <1>5, <2>2, ZenonT(60)
    <3>2. k <= taken /\ Good(results[k], k)
      BY <3>1, ZenonT(60) DEF IInv, Kept
    <3> QED  BY <1>0, <3>1, <3>2, ZenonT(60) DEF Good
  <2> QED  BY <2>1, <2>2, ZenonT(60)
<1>12. Tried'
  BY <1>0, <1>7, ZenonT(60) DEF IInv, Tried
<1>13. Complete'
  <2> SUFFICES ASSUME ~ctxDone, NEW k \in 1..taken
               PROVE  \/ results'[k] # NoResult
                      \/ \E w \in Workers : Busy(w) /\ worker[w].i = k - 1
                      \/ \E p \in 1..Len(out') : out'[p].i = k - 1
    BY <1>0, <1>7, ZenonT(60) DEF Complete, Busy
  <2>1. k \in 1..count
    BY <1>4, Numbers
  <2>2. CASE results[k] # NoResult
    BY <1>3, <1>5, <2>1, <2>2, ZenonT(60)
  <2>3. CASE \E w \in Workers : Busy(w) /\ worker[w].i = k - 1
    BY <2>3, ZenonT(60)
  <2>4. ASSUME NEW p \in 1..Len(out), out[p].i = k - 1
        PROVE  results'[k] # NoResult \/ \E q \in 1..Len(out') : out'[q].i = k - 1
    <3>1. CASE p = 1
      BY <1>2, <1>4, <1>5, <1>6, <2>1, <2>4, <3>1, SMTT(30)
    <3>2. CASE p # 1
      <4>1. p - 1 \in 1..Len(out') /\ out'[p - 1] = out[p]
        BY <1>2, <3>2, SMTT(30)
      <4> QED  BY <2>4, <4>1, ZenonT(60)
    <3> QED  BY <3>1, <3>2, ZenonT(60)
  <2> QED  BY <1>1, <2>2, <2>3, <2>4, ZenonT(60) DEF IInv, Complete
<1> QED  BY <1>8, <1>9, <1>10, <1>11, <1>12, <1>13, ZenonT(60) DEF IInv

-----------------------------------------------------------------------------
(* The workers *)

\* A worker that ends has no host any more, or the context has ended.
LEMMA WorkerEnds ==
  ASSUME IInv, NEW w \in Workers, worker' = [worker EXCEPT ![w] = Idle("done")], worker[w].pc # "off",
         UNCHANGED <<ctxDone, main, results, err, producer, jobs, jobsClosed, out, outClosed, tries>>,
         Busy(w) => ctxDone, ~ctxDone => jobsClosed /\ jobs = <<>>
  PROVE  IInv'
<1>1. /\ worker \in [Workers -> WorkerType] /\ worker' \in [Workers -> WorkerType] /\ worker'[w].pc = "done"
      /\ \A v \in Workers : v # w => worker'[v] = worker[v]
  BY Zeros DEF IInv, Types, Stages
<1>2. taken' = taken
  BY ZenonT(60) DEF taken
<1>3. Types' /\ Off'
  BY <1>1, ZenonT(60) DEF IInv, Types, Off
<1>4. Streamed' /\ Queued' /\ Tried'
  BY <1>2, ZenonT(60) DEF IInv, Streamed, Queued, Tried
<1>5. Ended'
  BY <1>1, ZenonT(60) DEF IInv, Ended
<1>6. ASSUME NEW v \in Workers, Busy(v)'  PROVE v # w /\ Busy(v) /\ worker'[v] = worker[v]
  BY <1>1, <1>6, ZenonT(60) DEF Busy
<1>7. ASSUME NEW v \in Workers  PROVE Working(v)'
  <2> SUFFICES ASSUME Busy(v)' PROVE Working(v)'
    BY DEF Working
  <2>1. Busy(v) /\ worker'[v] = worker[v] /\ Working(v)
    BY <1>6, ZenonT(60) DEF IInv
  <2>2. \A u \in Workers \ {v} : Busy(u)' => worker'[u].i # worker[v].i
    BY <1>6, <2>1, ZenonT(60) DEF Working
  <2> QED  BY <1>2, <2>1, <2>2, ZenonT(60) DEF Working, Good
<1>8. (\A p \in 1..Len(out') : Answered(p)') /\ Kept'
  BY <1>2, ZenonT(60) DEF IInv, Answered, Kept, Good
<1>9. Complete'
  <2> SUFFICES ASSUME ~ctxDone, producer.pc # "off", NEW k \in 1..taken
               PROVE  \/ results[k] # NoResult
                      \/ \E v \in Workers : Busy(v)' /\ worker'[v].i = k - 1
                      \/ \E p \in 1..Len(out) : out[p].i = k - 1
    BY <1>2, ZenonT(60) DEF Complete
  <2>1. \A v \in Workers : Busy(v) => v # w /\ Busy(v)' /\ worker'[v] = worker[v]
    BY <1>1 DEF Busy
  <2> QED  BY <2>1, ZenonT(60) DEF IInv, Complete
<1> QED  BY <1>3, <1>4, <1>5, <1>7, <1>8, <1>9, ZenonT(60) DEF IInv

\* A worker leaves its loop when the jobs are closed and used up.
LEMMA JobsEndKeeps == ASSUME IInv, NEW w \in Workers, JobsEnd(w) PROVE IInv'
<1>1. ~Busy(w) /\ worker[w].pc # "off"
  BY DEF JobsEnd, Busy
<1> QED  BY <1>1, WorkerEnds, ZenonT(60) DEF JobsEnd, workerUnchanged

\* A worker drops its result only when the context has ended.
LEMMA DropResultKeeps == ASSUME IInv, NEW w \in Workers, DropResult(w) PROVE IInv'
<1>1. ctxDone /\ worker[w].pc # "off"
  BY DEF DropResult
<1> QED  BY <1>1, WorkerEnds, ZenonT(60) DEF DropResult, workerUnchanged

\* A number below another is below its successor.
LEMMA Before == \A m, t \in Nat : m < t => m < t + 1 /\ m # t
  BY SMT

\* The host a worker receives is the next one, which nobody has tried.
LEMMA ReceiveKeeps == ASSUME IInv, NEW w \in Workers, Receive(w) PROVE IInv'
<1> DEFINE h == Head(jobs)
           x == [pc |-> "check", i |-> h.i, ip |-> h.ip, attempts |-> 0, r |-> NoResult]
<1>0. /\ worker[w].pc = "receive" /\ jobs # <<>> /\ worker' = [worker EXCEPT ![w] = x] /\ jobs' = Tail(jobs)
      /\ UNCHANGED <<ctxDone, main, results, err, producer, jobsClosed, outClosed, out, tries>>
  BY ZenonT(60) DEF Receive, workerUnchanged
<1>1. jobs \in Seq(JobType) /\ worker \in [Workers -> WorkerType] /\ producer \in ProducerType
  BY ZenonT(60) DEF IInv, Types
<1>2. /\ Len(jobs) \in Nat /\ Len(jobs) >= 1 /\ h \in JobType /\ h = jobs[1]
      /\ jobs' \in Seq(JobType) /\ Len(jobs') = Len(jobs) - 1
      /\ \A p \in 1..Len(jobs) - 1 : jobs'[p] = jobs[p + 1]
  BY <1>0, <1>1, HeadTail, ZenonT(60)
<1> HIDE DEF h
<1>3. /\ x \in WorkerType /\ x.pc = "check" /\ x.i = h.i /\ x.ip = h.ip /\ x.attempts = 0
  BY <1>2, Zeros, ZenonT(60) DEF WorkerType, Stages, JobType
<1> HIDE DEF x
<1>4. /\ worker' \in [Workers -> WorkerType] /\ worker'[w] = x
      /\ \A v \in Workers : v # w => worker'[v] = worker[v]
  BY <1>0, <1>1, <1>3, ZenonT(60)
<1>5. taken' = taken + 1 /\ taken \in Nat
  <2>1. producer.sent \in Nat /\ taken \in 0..count
    BY <1>1, ZenonT(60) DEF ProducerType, IInv, Queued
  <2> QED  BY <1>0, <1>2, <2>1, Numbers DEF taken
<1>6. taken + 1 <= count
  <2>1. producer.sent \in 0..count
    BY SentBound, ZenonT(60) DEF IInv, Streamed
  <2> QED  BY <1>2, <2>1, Numbers, SMTT(30) DEF taken
<1>7. h.i = taken /\ h.ip = Address(taken + 1)
  BY <1>2, <1>5, SMTT(30) DEF IInv, Queued
<1>8. Types' /\ Off' /\ Streamed'
  <2>1. producer.pc # "off"
    BY <1>0, ZenonT(60) DEF IInv, Off
  <2> QED  BY <1>0, <1>2, <1>3, <1>4, <2>1, ZenonT(60) DEF IInv, Types, Off, Streamed
<1>9. Queued'
  <2>1. ASSUME NEW p \in 1..Len(jobs')
        PROVE  jobs'[p].i = taken' + p - 1 /\ jobs'[p].ip = Address(taken' + p)
    <3>1. jobs'[p] = jobs[p + 1] /\ p + 1 \in 1..Len(jobs)
      BY <1>2
    <3>2. jobs[p + 1].i = taken + (p + 1) - 1 /\ jobs[p + 1].ip = Address(taken + (p + 1))
      BY <3>1, ZenonT(60) DEF IInv, Queued
    <3>3. taken' + p - 1 = taken + (p + 1) - 1 /\ taken' + p = taken + (p + 1)
      BY <1>2, <1>5
    <3> QED  BY <3>1, <3>2, <3>3, ZenonT(60)
  <2>2. Len(jobs') <= 2 * Cardinality(Workers)
    <3>1. Len(jobs) <= 2 * Cardinality(Workers) /\ Cardinality(Workers) \in Nat
      BY DiscoverAssumption, FS_CardinalityType, ZenonT(60) DEF IInv, Queued
    <3> QED  BY <1>2, <3>1
  <2> QED  BY <1>5, <1>6, <2>1, <2>2, Numbers, SMTT(30) DEF Queued
<1>10. results[taken + 1] = NoResult /\ tries[Address(taken + 1)] = 0
  <2>1. taken + 1 \in 1..count
    BY <1>5, <1>6, Numbers
  <2>2. tries[Address(taken + 1)] = 0
    BY <1>5, <2>1 DEF IInv, Tried
  <2>3. taken + 1 \in DOMAIN results
    BY <1>0, <2>1, ZenonT(60) DEF IInv, Off
  <2> QED  BY <1>5, <2>2, <2>3 DEF IInv, Kept
<1>11. ASSUME NEW v \in Workers  PROVE Working(v)'
  <2>1. CASE v = w
    <3>1. \A p \in 1..Len(out) : out[p].i # taken
      <4>1. \A p \in 1..Len(out) : out[p].i < taken
        BY ZenonT(60) DEF IInv, Answered
      <4> QED  BY <1>5, <4>1, SMTT(30)
    <3>2. \A u \in Workers \ {w} : Busy(u)' => worker'[u].i # taken
      BY <1>4, <1>5, SMTT(30), ZenonT(60) DEF IInv, Working, Busy
    <3> QED  BY <1>0, <1>3, <1>4, <1>5, <1>7, <1>10, <2>1, <3>1, <3>2, Attempts DEF Working
  <2>2. CASE v # w
    <3> SUFFICES ASSUME Busy(v)' PROVE Working(v)'
      BY ZenonT(60) DEF Working
    <3>1. Busy(v) /\ Working(v) /\ worker'[v] = worker[v] /\ worker[v] \in WorkerType
      BY <1>1, <1>4, <2>2, ZenonT(60) DEF Busy, IInv
    <3>2. worker[v].i < taken' /\ worker[v].i # taken
      <4>1. worker[v].i \in Nat /\ worker[v].i < taken
        BY <3>1, ZenonT(60) DEF Working, WorkerType
      <4> QED  BY <1>5, <4>1, Before, ZenonT(60)
    <3>3. \A u \in Workers \ {v} : Busy(u)' => worker'[u].i # worker[v].i
      BY <1>3, <1>4, <1>7, <3>1, <3>2, ZenonT(60) DEF Working, Busy
    <3> QED  BY <1>0, <3>1, <3>2, <3>3, ZenonT(60) DEF Working, Good
  <2> QED  BY <2>1, <2>2, ZenonT(60)
<1>12. ASSUME NEW p \in 1..Len(out')  PROVE Answered(p)'
  <2>1. p \in 1..Len(out) /\ Answered(p) /\ out[p] \in OutType
    BY <1>0, <1>12, ElementOfSeq, ZenonT(60) DEF IInv, Types
  <2>2. out[p].i < taken'
    BY <1>5, <2>1, SMTT(30), ZenonT(60) DEF Answered, OutType
  <2> QED  BY <1>0, <2>1, <2>2, ZenonT(60) DEF Answered, Good
<1>13. Kept'
  <2> SUFFICES ASSUME NEW k \in DOMAIN results, results[k] # NoResult  PROVE k <= taken + 1 /\ Good(results[k], k)'
    BY <1>0, <1>5, ZenonT(60) DEF Kept, Good
  <2>1. k <= taken /\ Good(results[k], k) /\ k \in 1..count
    BY <1>0, ZenonT(60) DEF IInv, Kept, Off
  <2>2. k <= taken + 1
    BY <1>5, <2>1, Numbers
  <2> QED  BY <1>0, <2>1, <2>2, ZenonT(60) DEF Good
<1>14. Tried'
  BY <1>0, <1>5, Numbers DEF IInv, Tried
<1>15. Complete'
  <2> SUFFICES ASSUME ~ctxDone, producer.pc # "off", NEW k \in 1..(taken + 1)
               PROVE  \/ results[k] # NoResult
                      \/ \E v \in Workers : Busy(v)' /\ worker'[v].i = k - 1
                      \/ \E p \in 1..Len(out) : out[p].i = k - 1
    BY <1>0, <1>5, ZenonT(60) DEF Complete
  <2>1. CASE k = taken + 1
    <3>1. Busy(w)' /\ worker'[w].i = k - 1
      BY <1>3, <1>4, <1>5, <1>7, <2>1, SMTT(30) DEF Busy
    <3> QED  BY <3>1, ZenonT(60)
  <2>2. CASE k \in 1..taken
    <3>1. \A v \in Workers : Busy(v) => Busy(v)' /\ worker'[v] = worker[v]
      BY <1>0, <1>4, ZenonT(60) DEF Busy
    <3> QED  BY <2>2, <3>1, ZenonT(60) DEF IInv, Complete
  <2> QED  BY <1>5, <2>1, <2>2
<1>16. Ended'
  <2>1. \A v \in Workers : worker'[v].pc = "done" => v # w /\ worker[v].pc = "done"
    BY <1>3, <1>4, ZenonT(60)
  <2>2. ~outClosed /\ \A v \in Workers : worker[v].pc = "done" => ctxDone
    BY <1>0, ZenonT(60) DEF IInv, Ended
  <2> QED  BY <1>0, <2>1, <2>2, ZenonT(60) DEF IInv, Ended
<1> QED  BY <1>8, <1>9, <1>11, <1>12, <1>13, <1>14, <1>15, <1>16, ZenonT(60) DEF IInv

\* What a result of an address says is so, with tries t.
Says(r, ip, t) ==
  /\ r.ip = ip
  /\ r.at # 0 => r.at \in Speaks[ip]
  /\ r.reason \in {"found", "none", "max_attempts", "context_canceled"}
  /\ r.reason = "context_canceled" => ctxDone
  /\ r.reason \in {"none", "max_attempts"} => t[ip] = AllTries

\* A worker that goes on with its host touches no other host.
LEMMA WorkerGoesOn ==
  ASSUME IInv, NEW w \in Workers, Busy(w), NEW x \in WorkerType, worker' = [worker EXCEPT ![w] = x],
         x.pc \in {"check", "connect", "send"}, x.i = worker[w].i, x.ip = worker[w].ip,
         x.attempts <= AllTries, x.pc = "connect" => x.attempts >= 1,
         tries' \in [0..(AddrSpace - 1) -> Nat],
         tries'[x.ip] = x.attempts - IF x.pc = "connect" THEN 1 ELSE 0,
         \A a \in 0..(AddrSpace - 1) : a # x.ip => tries'[a] = tries[a],
         x.pc = "send" => Says(x.r, x.ip, tries'),
         UNCHANGED <<ctxDone, main, results, err, producer, jobs, jobsClosed, out, outClosed>>
  PROVE  IInv'
<1>1. /\ worker \in [Workers -> WorkerType] /\ worker' \in [Workers -> WorkerType] /\ worker'[w] = x
      /\ \A v \in Workers : v # w => worker'[v] = worker[v]
  BY ZenonT(60) DEF IInv, Types
<1>2. taken' = taken /\ taken \in 0..count
  BY ZenonT(60) DEF taken, IInv, Queued
<1>3. /\ \A v \in Workers : (Busy(v)' <=> Busy(v)) /\ worker'[v].i = worker[v].i
      /\ \A v \in Workers : worker[v].pc = "off" <=> worker'[v].pc = "off"
      /\ \A v \in Workers : worker[v].pc = "done" <=> worker'[v].pc = "done"
  BY <1>1, ZenonT(60) DEF Busy
<1>4. Types' /\ Off'
  BY <1>1, <1>3, ZenonT(60) DEF IInv, Types, Off
<1>5. Streamed' /\ Queued'
  BY <1>2, ZenonT(60) DEF IInv, Streamed, Queued
<1>6. Ended'
  BY <1>3, ZenonT(60) DEF IInv, Ended
<1>7. Complete'
  BY <1>2, <1>3, ZenonT(60) DEF IInv, Complete
<1>8. Working(w) /\ x.i \in Nat /\ x.i + 1 \in 1..count /\ x.ip = Address(x.i + 1) /\ x.attempts \in Nat
  <2>1. Working(w) /\ x.i \in Nat /\ x.attempts \in Nat
    BY DEF IInv, WorkerType
  <2>2. x.i < taken /\ x.ip = Address(x.i + 1)
    BY <2>1, ZenonT(60) DEF Working
  <2> QED  BY <1>2, <2>1, <2>2, HostNumber, ZenonT(60)
<1>9. \A k \in 1..count : k # x.i + 1 => Address(k) # x.ip /\ tries'[Address(k)] = tries[Address(k)]
  BY <1>8, Addresses, ZenonT(60)
<1>10. ASSUME NEW v \in Workers  PROVE Working(v)'
  <2> SUFFICES ASSUME Busy(v)' PROVE Working(v)'
    BY ZenonT(60) DEF Working
  <2>1. Busy(v) /\ Working(v) /\ \A u \in Workers \ {v} : Busy(u)' => worker'[u].i # worker'[v].i
    BY <1>3, SMTT(30), ZenonT(60) DEF IInv, Working
  <2>2. CASE v = w
    <3>1. worker'[v].pc = "send" => Good(worker[v].r, worker[v].i + 1)'
      BY <1>1, <1>8, <2>2, ZenonT(60) DEF Good, Says
    <3>2. worker'[v].i < taken /\ results[worker'[v].i + 1] = NoResult
      BY <1>1, <2>1, <2>2, ZenonT(60) DEF Working
    <3>3. \A p \in 1..Len(out) : out[p].i # worker'[v].i
      BY <1>1, <2>1, <2>2, ZenonT(60) DEF Working
    <3> QED  BY <1>1, <1>2, <1>8, <2>1, <2>2, <3>1, <3>2, <3>3, ZenonT(60) DEF Working
  <2>3. CASE v # w
    <3>1. worker'[v] = worker[v] /\ worker[v] \in WorkerType
      BY <1>1, <2>3, ZenonT(60)
    <3>2. /\ worker[v].i \in Nat /\ worker[v].i < taken /\ worker[v].i # x.i
          /\ worker[v].ip = Address(worker[v].i + 1)
      BY <2>1, <2>3, <3>1, ZenonT(60) DEF Working, WorkerType
    <3>3. worker[v].i + 1 \in 1..count /\ worker[v].i + 1 # x.i + 1
      BY <1>2, <1>8, <3>2, HostNumbers, ZenonT(60)
    <3>4. tries'[worker[v].ip] = tries[worker[v].ip]
      BY <1>9, <3>2, <3>3, ZenonT(60)
    <3>5. worker[v].pc = "send" => Good(worker[v].r, worker[v].i + 1)'
      BY <2>1, <3>1, <3>2, <3>4, ZenonT(60) DEF Working, Good
    <3> QED  BY <1>2, <2>1, <3>1, <3>4, <3>5, ZenonT(60) DEF Working
  <2> QED  BY <2>2, <2>3, ZenonT(60)
<1>11. ASSUME NEW p \in 1..Len(out')  PROVE Answered(p)'
  <2>1. p \in 1..Len(out) /\ Answered(p) /\ out[p] \in OutType /\ out[p].i # x.i
    <3>1. p \in 1..Len(out) /\ out \in Seq(OutType) /\ Answered(p)
      BY <1>11, ZenonT(60) DEF IInv, Types
    <3>2. out[p] \in OutType
      BY <3>1, ElementOfSeq, ZenonT(60)
    <3>3. out[p].i # x.i
      BY <1>8, <3>1, ZenonT(60) DEF Working
    <3> QED  BY <3>1, <3>2, <3>3, ZenonT(60)
  <2>2. out[p].i \in Nat /\ out[p].i < taken
    BY <2>1, ZenonT(60) DEF Answered, OutType
  <2>3. out[p].i + 1 \in 1..count /\ out[p].i + 1 # x.i + 1
    BY <1>2, <1>8, <2>1, <2>2, HostNumbers, ZenonT(60)
  <2>4. tries'[Address(out[p].i + 1)] = tries[Address(out[p].i + 1)]
    BY <1>9, <2>3, ZenonT(60)
  <2> QED  BY <1>2, <2>1, <2>4, ZenonT(60) DEF Answered, Good
<1>12. Kept'
  <2> SUFFICES ASSUME NEW k \in DOMAIN results, results[k] # NoResult  PROVE k <= taken /\ Good(results[k], k)'
    BY <1>2, ZenonT(60) DEF Kept, Good
  <2>1. k <= taken /\ Good(results[k], k) /\ k \in 1..count /\ k # x.i + 1
    <3>1. producer.pc # "off" /\ results[x.i + 1] = NoResult
      BY <1>8, ZenonT(60) DEF IInv, Off, Busy, Working
    <3> QED  BY <3>1, ZenonT(60) DEF IInv, Kept, Off
  <2>2. tries'[Address(k)] = tries[Address(k)]
    BY <1>9, <2>1, ZenonT(60)
  <2> QED  BY <2>1, <2>2, ZenonT(60) DEF Good
<1>13. Tried'
  <2>1. ASSUME NEW k \in 1..count
        PROVE  tries'[Address(k)] <= AllTries /\ (k > taken => tries'[Address(k)] = 0)
    <3>1. CASE k = x.i + 1
      <4>1. tries'[Address(k)] <= AllTries
        BY <1>8, <3>1, Attempts, SMTT(30)
      <4>2. x.i < taken
        BY <1>8, ZenonT(60) DEF Working
      <4> QED  BY <1>2, <1>8, <3>1, <4>1, <4>2, SMTT(30)
    <3>2. CASE k # x.i + 1
      BY <1>9, <3>2, ZenonT(60) DEF IInv, Tried
    <3> QED  BY <3>1, <3>2, ZenonT(60)
  <2>2. ASSUME NEW a \in 0..(AddrSpace - 1), \A k \in 1..count : Address(k) # a  PROVE tries'[a] = 0
    BY <1>8, <2>2, ZenonT(60) DEF IInv, Tried
  <2> QED  BY <1>2, <2>1, <2>2, ZenonT(60) DEF Tried
<1> QED  BY <1>4, <1>5, <1>6, <1>7, <1>10, <1>11, <1>12, <1>13, ZenonT(60) DEF IInv

\* What probeS7 leaves in the worker.
LEMMA ProbedWorker ==
  ASSUME IInv, NEW w \in Workers, NEW at \in Nat, NEW reason \in Reasons, Probed(w, at, reason)
  PROVE  \E x \in WorkerType :
           /\ worker' = [worker EXCEPT ![w] = x]
           /\ x.pc = "send" /\ x.i = worker[w].i /\ x.ip = worker[w].ip /\ x.attempts = worker[w].attempts
           /\ x.r.ip = worker[w].ip /\ x.r.at = at /\ x.r.reason = reason
<1> DEFINE r == Result(worker[w].ip, at, reason)
           x == [worker[w] EXCEPT !.pc = "send", !.r = r]
<1>1. worker \in [Workers -> WorkerType] /\ worker[w] \in WorkerType
  BY ZenonT(60) DEF IInv, Types
<1>2. r \in ResultType /\ r.ip = worker[w].ip /\ r.at = at /\ r.reason = reason
  BY <1>1, ZenonT(60) DEF Result, ResultType, WorkerType
<1>3. worker' = [worker EXCEPT ![w] = x]
  BY <1>1, ZenonT(60) DEF Probed
<1> HIDE DEF r
<1>4. /\ x \in WorkerType /\ x.pc = "send" /\ x.i = worker[w].i /\ x.ip = worker[w].ip
      /\ x.attempts = worker[w].attempts /\ x.r = r
  BY <1>1, <1>2, ZenonT(60) DEF WorkerType, Stages
<1> HIDE DEF x
<1> QED  BY <1>2, <1>3, <1>4, ZenonT(60)

\* The head of the loop over the pairs: a probe ends without an answer only
\* after all the attempts it may have, or with the context.
LEMMA CheckKeeps == ASSUME IInv, NEW w \in Workers, Check(w) PROVE IInv'
<1>0. /\ worker[w].pc = "check" /\ Busy(w) /\ Working(w) /\ worker[w] \in WorkerType
      /\ worker \in [Workers -> WorkerType] /\ tries \in [0..(AddrSpace - 1) -> Nat]
      /\ UNCHANGED <<ctxDone, main, results, err, producer, jobsClosed, outClosed, jobs, out, tries>>
  BY ZenonT(60) DEF Check, Busy, IInv, Types, workerUnchanged
<1>1. /\ worker[w].attempts \in Nat /\ worker[w].attempts <= AllTries
      /\ tries[worker[w].ip] = worker[w].attempts
  BY <1>0, SMTT(30) DEF Working, WorkerType
<1>2. ASSUME NEW reason \in Reasons, Probed(w, 0, reason),
             reason \in {"none", "max_attempts", "context_canceled"},
             reason = "context_canceled" => ctxDone,
             reason \in {"none", "max_attempts"} => worker[w].attempts = AllTries
      PROVE  IInv'
  <2>1. PICK x \in WorkerType :
           /\ worker' = [worker EXCEPT ![w] = x]
           /\ x.pc = "send" /\ x.i = worker[w].i /\ x.ip = worker[w].ip /\ x.attempts = worker[w].attempts
           /\ x.r.ip = worker[w].ip /\ x.r.at = 0 /\ x.r.reason = reason
    BY <1>2, ProbedWorker, SMTT(30)
  <2>2. Says(x.r, x.ip, tries')
    BY <1>0, <1>1, <1>2, <2>1, ZenonT(60) DEF Says
  <2>3. tries'[x.ip] = x.attempts - IF x.pc = "connect" THEN 1 ELSE 0
    BY <1>0, <1>1, <2>1
  <2> QED  BY <1>0, <1>1, <2>1, <2>2, <2>3, WorkerGoesOn, ZenonT(60)
<1>3. CASE worker[w].attempts = Pairs
  <2>1. Probed(w, 0, "none")
    BY <1>3, ZenonT(60) DEF Check
  <2>2. worker[w].attempts = AllTries
    BY <1>1, <1>3, Attempts, SMTT(30)
  <2> QED  BY <1>2, <2>1, <2>2, ZenonT(60) DEF Reasons
<1>4. CASE worker[w].attempts # Pairs /\ AttemptsUsed(w)
  <2>1. Probed(w, 0, "max_attempts")
    BY <1>4, ZenonT(60) DEF Check
  <2>2. worker[w].attempts = AllTries
    BY <1>1, <1>4, Attempts DEF AttemptsUsed
  <2> QED  BY <1>2, <2>1, <2>2, ZenonT(60) DEF Reasons
<1>5. CASE worker[w].attempts # Pairs /\ ~AttemptsUsed(w) /\ ctxDone
  <2>1. Probed(w, 0, "context_canceled")
    BY <1>5, ZenonT(60) DEF Check
  <2> QED  BY <1>2, <1>5, <2>1, ZenonT(60) DEF Reasons
<1>6. CASE worker[w].attempts # Pairs /\ ~AttemptsUsed(w) /\ ~ctxDone
  <2> DEFINE n == worker[w].attempts + 1
             x == [worker[w] EXCEPT !.pc = "connect", !.attempts = n]
  <2>1. worker' = [worker EXCEPT ![w] = x]
    <3>1. worker' = [worker EXCEPT ![w].pc = "connect", ![w].attempts = @ + 1]
      BY <1>6, ZenonT(60) DEF Check
    <3> QED  BY <1>0, <3>1, ZenonT(60)
  <2>5. n \in Nat
    BY <1>1
  <2> HIDE DEF n
  <2>6. x \in WorkerType /\ x.pc = "connect" /\ x.i = worker[w].i /\ x.ip = worker[w].ip /\ x.attempts = n
    BY <1>0, <2>5, ZenonT(60) DEF WorkerType, Stages
  <2> HIDE DEF x
  <2>2. /\ x \in WorkerType /\ x.pc = "connect" /\ x.i = worker[w].i /\ x.ip = worker[w].ip
        /\ x.attempts = worker[w].attempts + 1
    BY <2>6, ZenonT(60) DEF n
  <2>3. x.attempts <= AllTries
    BY <1>1, <1>6, <2>2, Attempts DEF AttemptsUsed
  <2>4. tries'[x.ip] = x.attempts - (IF x.pc = "connect" THEN 1 ELSE 0) /\ x.attempts >= 1
    BY <1>0, <1>1, <2>2
  <2> QED  BY <1>0, <2>1, <2>2, <2>3, <2>4, WorkerGoesOn, ZenonT(60)
<1> QED  BY <1>3, <1>4, <1>5, <1>6, ZenonT(60)

\* An attempt counts for the host of the worker and for no other.
LEMMA ConnectKeeps == ASSUME IInv, NEW w \in Workers, Connect(w) PROVE IInv'
<1> DEFINE a == worker[w].ip
<1>0. /\ worker[w].pc = "connect" /\ Busy(w) /\ Working(w) /\ worker[w] \in WorkerType
      /\ worker \in [Workers -> WorkerType] /\ tries \in [0..(AddrSpace - 1) -> Nat]
      /\ tries' = [tries EXCEPT ![a] = @ + 1]
      /\ UNCHANGED <<ctxDone, main, results, err, producer, jobsClosed, outClosed, jobs, out>>
  BY ZenonT(60) DEF Connect, Busy, IInv, Types, workerUnchanged
<1>1. /\ worker[w].attempts \in Nat /\ worker[w].attempts <= AllTries /\ worker[w].i \in Nat
      /\ worker[w].i < taken /\ a = Address(worker[w].i + 1) /\ tries[a] = worker[w].attempts - 1
  BY <1>0, ZenonT(60) DEF Working, WorkerType
<1>2. a \in 0..(AddrSpace - 1)
  <2>1. taken \in 0..count
    BY ZenonT(60) DEF IInv, Queued
  <2>2. worker[w].i + 1 \in 1..count
    BY <1>1, <2>1, Numbers, SMTT(30)
  <2> QED  BY <1>1, <2>2, Addresses, ZenonT(60)
<1>3. /\ tries' \in [0..(AddrSpace - 1) -> Nat] /\ tries'[a] = worker[w].attempts
      /\ \A b \in 0..(AddrSpace - 1) : b # a => tries'[b] = tries[b]
  <2>1. tries[a] + 1 = worker[w].attempts /\ tries[a] + 1 \in Nat
    BY <1>0, <1>1, <1>2, SMTT(30)
  <2> QED  BY <1>0, <1>2, <2>1, ZenonT(60)
<1>4. CASE worker[w].attempts \in Speaks[a] /\ Probed(w, worker[w].attempts, "found")
  <2>1. PICK x \in WorkerType :
           /\ worker' = [worker EXCEPT ![w] = x]
           /\ x.pc = "send" /\ x.i = worker[w].i /\ x.ip = worker[w].ip /\ x.attempts = worker[w].attempts
           /\ x.r.ip = worker[w].ip /\ x.r.at = worker[w].attempts /\ x.r.reason = "found"
    BY <1>1, <1>4, ProbedWorker, SMTT(30), ZenonT(60) DEF Reasons
  <2>2. Says(x.r, x.ip, tries')
    BY <1>4, <2>1, ZenonT(60) DEF Says
  <2>3. tries'[x.ip] = x.attempts - IF x.pc = "connect" THEN 1 ELSE 0
    BY <1>1, <1>3, <2>1
  <2> QED  BY <1>0, <1>1, <1>3, <2>1, <2>2, <2>3, WorkerGoesOn, ZenonT(60)
<1>5. CASE worker' = [worker EXCEPT ![w].pc = "check"]
  <2> DEFINE x == [worker[w] EXCEPT !.pc = "check"]
  <2>1. worker' = [worker EXCEPT ![w] = x]
    BY <1>0, <1>5, ZenonT(60)
  <2>2. /\ x \in WorkerType /\ x.pc = "check" /\ x.i = worker[w].i /\ x.ip = worker[w].ip
        /\ x.attempts = worker[w].attempts
    BY <1>0, ZenonT(60) DEF WorkerType, Stages
  <2> HIDE DEF x
  <2>3. tries'[x.ip] = x.attempts - IF x.pc = "connect" THEN 1 ELSE 0
    BY <1>1, <1>3, <2>2, SMTT(30)
  <2> QED  BY <1>0, <1>1, <1>3, <2>1, <2>2, <2>3, WorkerGoesOn, ZenonT(60)
<1> QED  BY <1>4, <1>5, ZenonT(60) DEF Connect

\* The result of a host leaves its worker for the channel.
LEMMA SendResultKeeps == ASSUME IInv, NEW w \in Workers, SendResult(w) PROVE IInv'
<1> DEFINE o == [i |-> worker[w].i, r |-> worker[w].r]
<1>0. /\ worker[w].pc = "send" /\ Busy(w) /\ Working(w) /\ worker[w] \in WorkerType
      /\ worker \in [Workers -> WorkerType] /\ out \in Seq(OutType)
      /\ out' = Append(out, o) /\ worker' = [worker EXCEPT ![w] = Idle("receive")]
      /\ UNCHANGED <<ctxDone, main, results, err, producer, jobsClosed, outClosed, jobs, tries>>
  BY ZenonT(60) DEF SendResult, Busy, IInv, Types, workerUnchanged
<1>1. o \in OutType /\ o.i = worker[w].i /\ o.r = worker[w].r
  BY <1>0, ZenonT(60) DEF OutType, WorkerType
<1> HIDE DEF o
<1>2. /\ Len(out) \in Nat /\ out' \in Seq(OutType) /\ Len(out') = Len(out) + 1
      /\ \A p \in 1..Len(out) : out'[p] = out[p]
      /\ out'[Len(out) + 1] = o
  BY <1>0, <1>1, Appended, SMTT(30)
<1>3. /\ worker' \in [Workers -> WorkerType] /\ worker'[w].pc = "receive"
      /\ \A v \in Workers : v # w => worker'[v] = worker[v]
  BY <1>0, Zeros, ZenonT(60) DEF Stages
<1>4. taken' = taken
  BY <1>0, ZenonT(60) DEF taken
<1>5. Types' /\ Off'
  <2>1. producer.pc # "off"
    BY <1>0, ZenonT(60) DEF IInv, Off
  <2> QED  BY <1>0, <1>2, <1>3, <2>1, ZenonT(60) DEF IInv, Types, Off
<1>6. Streamed' /\ Queued' /\ Tried'
  BY <1>0, <1>4, ZenonT(60) DEF IInv, Streamed, Queued, Tried
<1>7. Ended'
  <2>1. ~outClosed /\ \A v \in Workers : worker'[v].pc = "done" => worker[v].pc = "done"
    BY <1>0, <1>3, ZenonT(60) DEF IInv, Ended
  <2> QED  BY <1>0, <2>1, ZenonT(60) DEF IInv, Ended
<1>8. \A v \in Workers : Busy(v)' => v # w /\ Busy(v) /\ worker'[v] = worker[v]
  BY <1>3, ZenonT(60) DEF Busy
<1>9. ASSUME NEW v \in Workers  PROVE Working(v)'
  <2> SUFFICES ASSUME Busy(v)' PROVE Working(v)'
    BY ZenonT(60) DEF Working
  <2>1. v # w /\ Busy(v) /\ worker'[v] = worker[v] /\ Working(v)
    BY <1>8, ZenonT(60) DEF IInv
  <2>2. \A u \in Workers \ {v} : Busy(u)' => worker'[u].i # worker[v].i
    BY <1>8, <2>1, ZenonT(60) DEF Working
  <2>3. \A p \in 1..Len(out') : out'[p].i # worker[v].i
    <3> SUFFICES ASSUME NEW p \in 1..Len(out') PROVE out'[p].i # worker[v].i
      BY ZenonT(60)
    <3>1. CASE p \in 1..Len(out)
      BY <1>2, <2>1, <3>1, ZenonT(60) DEF Working
    <3>2. CASE p = Len(out) + 1
      BY <1>0, <1>1, <1>2, <2>1, <3>2, ZenonT(60) DEF Working
    <3> QED  BY <1>2, <3>1, <3>2, SMTT(30)
  <2> QED  BY <1>0, <1>4, <2>1, <2>2, <2>3, ZenonT(60) DEF Working, Good
<1>10. ASSUME NEW p \in 1..Len(out')  PROVE Answered(p)'
  <2>1. CASE p \in 1..Len(out)
    <3>1. Answered(p) /\ out'[p] = out[p]
      BY <1>2, <2>1, ZenonT(60) DEF IInv
    <3>2. \A q \in 1..Len(out') \ {p} : out'[q].i # out'[p].i
      <4> SUFFICES ASSUME NEW q \in 1..Len(out') \ {p} PROVE out'[q].i # out'[p].i
        BY ZenonT(60)
      <4>1. CASE q \in 1..Len(out)
        BY <1>2, <3>1, <4>1, ZenonT(60) DEF Answered
      <4>2. CASE q = Len(out) + 1
        BY <1>0, <1>1, <1>2, <2>1, <3>1, <4>2, ZenonT(60) DEF Working
      <4> QED  BY <1>2, <4>1, <4>2
    <3> QED  BY <1>0, <1>4, <3>1, <3>2, ZenonT(60) DEF Answered, Good
  <2>2. CASE p = Len(out) + 1
    <3>1. out'[p] = o
      BY <1>2, <2>2, ZenonT(60)
    <3>2. \A q \in 1..Len(out') \ {p} : out'[q].i # o.i
      <4> SUFFICES ASSUME NEW q \in 1..Len(out') \ {p} PROVE out'[q].i # o.i
        BY ZenonT(60)
      <4>1. q \in 1..Len(out)
        BY <1>2, <2>2, SMTT(30)
      <4> QED  BY <1>0, <1>1, <1>2, <4>1, ZenonT(60) DEF Working
    <3>3. worker[w].i < taken /\ results[worker[w].i + 1] = NoResult /\ Good(worker[w].r, worker[w].i + 1)
      BY <1>0, ZenonT(60) DEF Working
    <3> QED  BY <1>0, <1>1, <1>4, <3>1, <3>2, <3>3, ZenonT(60) DEF Answered, Good
  <2> QED  BY <1>2, <2>1, <2>2, SMTT(30)
<1>11. Kept'
  BY <1>0, <1>4, ZenonT(60) DEF IInv, Kept, Good
<1>12. Complete'
  <2> SUFFICES ASSUME ~ctxDone, producer.pc # "off", NEW k \in 1..taken
               PROVE  \/ results[k] # NoResult
                      \/ \E v \in Workers : Busy(v)' /\ worker'[v].i = k - 1
                      \/ \E p \in 1..Len(out') : out'[p].i = k - 1
    BY <1>0, <1>4, ZenonT(60) DEF Complete
  <2>1. CASE results[k] # NoResult
    BY <2>1, ZenonT(60)
  <2>2. ASSUME NEW v \in Workers, Busy(v), worker[v].i = k - 1
        PROVE  \/ \E u \in Workers : Busy(u)' /\ worker'[u].i = k - 1
               \/ \E p \in 1..Len(out') : out'[p].i = k - 1
    <3>1. CASE v = w
      <4>1. Len(out) + 1 \in 1..Len(out') /\ out'[Len(out) + 1].i = k - 1
        BY <1>1, <1>2, <2>2, <3>1, SMTT(30)
      <4> QED  BY <4>1, ZenonT(60)
    <3>2. CASE v # w
      <4>1. Busy(v)' /\ worker'[v].i = k - 1
        BY <1>3, <2>2, <3>2, ZenonT(60) DEF Busy
      <4> QED  BY <4>1, ZenonT(60)
    <3> QED  BY <3>1, <3>2, ZenonT(60)
  <2>3. ASSUME NEW p \in 1..Len(out), out[p].i = k - 1
        PROVE  \E q \in 1..Len(out') : out'[q].i = k - 1
    <3>1. p \in 1..Len(out') /\ out'[p].i = k - 1
      BY <1>2, <2>3
    <3> QED  BY <3>1, ZenonT(60)
  <2> QED  BY <2>1, <2>2, <2>3, ZenonT(60) DEF IInv, Complete
<1> QED  BY <1>5, <1>6, <1>7, <1>9, <1>10, <1>11, <1>12, ZenonT(60) DEF IInv

-----------------------------------------------------------------------------
(* The theorems *)

\* The inductive invariant holds in every state.
THEOREM Invariance == Spec => []IInv
<1>1. Init => IInv
  BY InitIInv, ZenonT(60)
<1>2. IInv /\ [Next]_vars => IInv'
  <2> SUFFICES ASSUME IInv, [Next]_vars PROVE IInv'
    OBVIOUS
  <2>1. CASE Caller
    BY <2>1, CountKeeps, CollectKeeps, ReturnKeeps, ZenonT(60) DEF Caller
  <2>2. CASE Producer
    BY <2>2, SkipKeeps, SendKeeps, StreamEndsKeeps, CloseJobsKeeps, ZenonT(60) DEF Producer
  <2>3. ASSUME NEW w \in Workers, Worker(w)  PROVE IInv'
    BY <2>3, ReceiveKeeps, JobsEndKeeps, CheckKeeps, ConnectKeeps, SendResultKeeps, DropResultKeeps, ZenonT(60) DEF Worker
  <2>4. CASE Closer
    BY <2>4, CloserKeeps, ZenonT(60)
  <2>5. CASE CtxEnds
    BY <2>5, CtxEndsKeeps, ZenonT(60)
  <2>6. CASE UNCHANGED vars
    BY <2>6, StutterKeeps, ZenonT(60)
  <2> QED  BY <2>1, <2>2, <2>3, <2>4, <2>5, <2>6, ZenonT(60) DEF Next
<1> QED  BY <1>1, <1>2, PTL DEF Spec

\* The channel of results never holds more than one result of each host: its
\* indexes are an injection into the hosts.
LEMMA OutFits == IInv => Len(out) <= count
<1> SUFFICES ASSUME IInv PROVE Len(out) <= count
  BY ZenonT(60)
<1> DEFINE n == Len(out)
           f == [p \in 1..n |-> out[p].i]
<1>1. n \in Nat /\ \A p \in 1..n : out[p] \in OutType
  BY LenProperties, ZenonT(60) DEF IInv, Types
<1>2. f \in [1..n -> 0..(count - 1)]
  <2> SUFFICES ASSUME NEW p \in 1..n PROVE out[p].i \in 0..(count - 1)
    BY ZenonT(60)
  <2>1. out[p].i \in Nat /\ out[p].i < taken /\ taken \in 0..count
    BY <1>1, ZenonT(60) DEF IInv, Answered, Queued, OutType
  <2> QED  BY <2>1, Numbers
<1>3. \A p, q \in 1..n : f[p] = f[q] => p = q
  BY ZenonT(60) DEF IInv, Answered
<1>4. f \in Injection(1..n, 0..(count - 1))
  BY <1>2, <1>3, ZenonT(60) DEF Injection, IsInjective
<1> HIDE DEF n, f
<1>5. IsFiniteSet(0..(count - 1)) /\ Cardinality(0..(count - 1)) = count
  BY FS_Interval, Numbers
<1>6. Cardinality(1..n) = n
  BY <1>1, FS_Interval
<1>7. Cardinality(1..n) <= Cardinality(0..(count - 1))
  BY <1>4, <1>5, FS_Injection, ZenonT(60)
<1> QED  BY <1>5, <1>6, <1>7, ZenonT(60) DEF n

\* The variables keep their types, and the channels of Discover their
\* capacities: a worker never waits to send a result.
THEOREM Typed == Spec => []TypeOK
<1>1. IInv => TypeOK
  <2> SUFFICES ASSUME IInv PROVE TypeOK
    BY ZenonT(60)
  <2>1. producer \in ProducerType /\ worker \in [Workers -> WorkerType] /\ Len(out) <= count
    BY OutFits, ZenonT(60) DEF IInv, Types
  <2>2. producer.sent \in 0..count /\ producer.idx \in 0..total
    BY SentBound, ZenonT(60) DEF IInv, Streamed
  <2>3. producer.pc \in {"off", "stream", "close", "done"}
    BY <2>1 DEF ProducerType
  <2>4. \A w \in Workers : worker[w].pc \in {"off", "receive", "check", "connect", "send", "done"}
    BY <2>1, ZenonT(60) DEF WorkerType, Stages
  <2> QED  BY <2>1, <2>2, <2>3, <2>4, ZenonT(60) DEF TypeOK, IInv, Types, Streamed, Queued
<1> QED  BY <1>1, Invariance, PTL

\* The results are in the order of the addresses and say what happened, and
\* Discover without an error has tried every host.
THEOREM Exact == Spec => []ResultsExact
<1>1. IInv => ResultsExact
  <2> SUFFICES ASSUME IInv PROVE ResultsExact
    OBVIOUS
  <2>1. ASSUME NEW k \in DOMAIN results, results[k] # NoResult
        PROVE  results[k].ip = Address(k) /\ (results[k].at # 0 => results[k].at \in Speaks[Address(k)])
    BY <2>1, ZenonT(60) DEF IInv, Kept, Good
  <2>2. ASSUME main = "done", ~err, NEW k \in 1..count
        PROVE  /\ results[k].reason \in {"found", "none", "max_attempts"}
               /\ results[k].reason # "found" => tries[Address(k)] = AllTries
    <3>1. results[k] # NoResult /\ results[k].reason # "context_canceled"
      BY <2>2, ZenonT(60) DEF IInv, Ended
    <3>2. k \in DOMAIN results
      BY <2>2, ZenonT(60) DEF IInv, Off
    <3>3. Good(results[k], k)
      BY <3>1, <3>2, ZenonT(60) DEF IInv, Kept
    <3> QED  BY <3>1, <3>3, ZenonT(60) DEF Good
  <2> QED  BY <2>1, <2>2, ZenonT(60) DEF ResultsExact
<1> QED  BY <1>1, Invariance, PTL

\* No host meets more attempts than the limit and the pairs allow, and the
\* addresses Discover skips meet none.
THEOREM Polite == Spec => []PoliteToHosts
<1>1. IInv => PoliteToHosts
  <2> SUFFICES ASSUME IInv, NEW a \in DOMAIN tries
               PROVE  tries[a] <= IF \E k \in 1..count : Address(k) = a THEN AllTries ELSE 0
    BY ZenonT(60) DEF PoliteToHosts
  <2>1. CASE \E k \in 1..count : Address(k) = a
    BY <2>1, ZenonT(60) DEF IInv, Tried
  <2>2. CASE ~\E k \in 1..count : Address(k) = a
    <3>1. a \in 0..(AddrSpace - 1)
      BY ZenonT(60) DEF IInv, Types
    <3>2. tries[a] = 0
      BY <2>2, <3>1, ZenonT(60) DEF IInv, Tried
    <3> QED  BY <2>2, <3>2
  <2> QED  BY <2>1, <2>2, ZenonT(60)
<1> QED  BY <1>1, Invariance, PTL
=============================================================================
