------------------------------ MODULE Discover ------------------------------
(***************************************************************************)
(* Discover (client/discover.go): a producer streams the addresses of a    *)
(* CIDR range into a bounded channel, workers try the rack/slot pairs of   *)
(* each host (probeS7), a closer closes the channel of the results when    *)
(* the workers have ended, and the caller collects them by index.  The     *)
(* context may end at any time.                                            *)
(*                                                                         *)
(* An address is a number modulo AddrSpace (2^32 in the code); the         *)
(* rack/slot pairs are numbered in the order they are tried.  Connect is   *)
(* one step with the outcome of the host, or a failure: ClientSession has  *)
(* its steps.                                                              *)
(***************************************************************************)
EXTENDS Integers, Sequences, FiniteSets

CONSTANTS
  AddrSpace,          \* the number of addresses: incIP wraps round
  Network, HostBits,  \* the CIDR range: its first address, 32 - prefix length
  Speaks,             \* address -> the rack/slot pairs that accept a connection
  Flaky,              \* addresses whose Connect may time out all the same
  Pairs,              \* the number of rack/slot pairs tried
  maxAttemptsPerHost, \* 0 for no limit
  Workers             \* the workers, opts.parallel of them

\* net.ParseCIDR masks the network.  That 2^HostBits is a number is said for
\* the provers, which know little of powers.
ASSUME DiscoverAssumption ==
  /\ AddrSpace \in Nat /\ DOMAIN Speaks = 0..(AddrSpace - 1)
  /\ HostBits \in Nat /\ 2^HostBits \in Nat \ {0} /\ Network \in 0..(AddrSpace - 1)
  /\ Network % 2^HostBits = 0 /\ Network + 2^HostBits <= AddrSpace
  /\ Pairs \in Nat \ {0} /\ maxAttemptsPerHost \in Nat
  /\ IsFiniteSet(Workers) /\ Workers # {}

VARIABLES
  ctxDone,   \* has the context ended?
  main,      \* the caller: "count", "collect" or "done"
  results,   \* the results collected, by index; <<>> when there are none
  err,       \* is an error returned?
  producer,  \* [pc, idx, ip, sent]: streamCIDR's variables and the job index
  jobs,      \* the channel of jobs: [i, ip]
  jobsClosed,
  worker,    \* per worker: [pc, i, ip, attempts, r]
  out,       \* the channel of results: [i, r]
  outClosed,
  tries      \* address -> the number of times Connect was called

vars == <<ctxDone, main, results, err, producer, jobs, jobsClosed, worker, out, outClosed, tries>>

total == 2^HostBits
skipEnds == total > 2
count == IF skipEnds THEN total - 2 ELSE total

NoResult == [ip |-> -1, at |-> 0, reason |-> "zero"]
Result(ip, at, reason) == [ip |-> ip, at |-> at, reason |-> reason]
Idle(where) == [pc |-> where, i |-> 0, ip |-> -1, attempts |-> 0, r |-> NoResult]

Init ==
  /\ ctxDone = FALSE /\ main = "count" /\ results = <<>> /\ err = FALSE
  /\ producer = [pc |-> "off", idx |-> 0, ip |-> Network, sent |-> 0]
  /\ jobs = <<>> /\ jobsClosed = FALSE
  /\ worker = [w \in Workers |-> Idle("off")]
  /\ out = <<>> /\ outClosed = FALSE
  /\ tries = [a \in DOMAIN Speaks |-> 0]

-----------------------------------------------------------------------------
(* The caller *)

\* The first pass counts the addresses, unless the context ends; then the
\* workers, the producer and the closer start.
Count ==
  /\ main = "count"
  /\ \/ /\ ctxDone /\ main' = "done" /\ err' = TRUE
        /\ UNCHANGED <<results, producer, worker>>
     \/ /\ ~ctxDone /\ main' = "collect"
        /\ results' = [k \in 1..count |-> NoResult]
        /\ producer' = [producer EXCEPT !.pc = "stream"]
        /\ worker' = [w \in Workers |-> Idle("receive")]
        /\ UNCHANGED err
  /\ UNCHANGED <<ctxDone, jobs, jobsClosed, out, outClosed, tries>>

Collect ==
  /\ main = "collect" /\ out # <<>>
  /\ results' = [results EXCEPT ![Head(out).i + 1] = Head(out).r]
  /\ out' = Tail(out)
  /\ UNCHANGED <<ctxDone, main, err, producer, jobs, jobsClosed, worker, outClosed, tries>>

Return ==
  /\ main = "collect" /\ out = <<>> /\ outClosed
  /\ main' = "done" /\ err' = ctxDone
  /\ UNCHANGED <<ctxDone, results, producer, jobs, jobsClosed, worker, out, outClosed, tries>>

-----------------------------------------------------------------------------
(* The producer: streamCIDR, and close(jobs) *)

incIP(ip) == (ip + 1) % AddrSpace

producerUnchanged == <<ctxDone, main, results, err, worker, out, outClosed, tries>>

\* The first and the last address of a range of more than two are skipped.
Skip ==
  /\ producer.pc = "stream" /\ skipEnds /\ producer.idx \in {0, total - 1}
  /\ producer' = [producer EXCEPT !.idx = @ + 1, !.ip = IF producer.idx = 0 THEN incIP(@) ELSE @]
  /\ UNCHANGED <<producerUnchanged, jobs, jobsClosed>>

Hosts == {k \in 0..(total - 1) : skipEnds => k \notin {0, total - 1}}

\* Mutant: a channel without a capacity.
SendUnchecked ==
  /\ producer.pc = "stream" /\ producer.idx \in Hosts
  /\ jobs' = Append(jobs, [i |-> producer.sent, ip |-> producer.ip])
  /\ producer' = [producer EXCEPT !.idx = @ + 1, !.sent = @ + 1, !.ip = incIP(@)]
  /\ UNCHANGED <<producerUnchanged, jobsClosed>>

Send ==
  /\ producer.pc = "stream" /\ producer.idx \in Hosts
  /\ Len(jobs) < 2 * Cardinality(Workers)
  /\ jobs' = Append(jobs, [i |-> producer.sent, ip |-> producer.ip])
  /\ producer' = [producer EXCEPT !.idx = @ + 1, !.sent = @ + 1, !.ip = incIP(@)]
  /\ UNCHANGED <<producerUnchanged, jobsClosed>>

\* The range is at its end, or send returned false: the context has ended.
StreamEnds ==
  /\ producer.pc = "stream"
  /\ producer.idx = total \/ (producer.idx \in Hosts /\ ctxDone)
  /\ producer' = [producer EXCEPT !.pc = "close"]
  /\ UNCHANGED <<producerUnchanged, jobs, jobsClosed>>

\* Mutant: the channel is not closed when the stream was cut short.
CloseJobsAtEnd ==
  /\ producer.pc = "close"
  /\ producer' = [producer EXCEPT !.pc = "done"]
  /\ jobsClosed' = (producer.idx = total)
  /\ UNCHANGED <<producerUnchanged, jobs>>

CloseJobs ==
  /\ producer.pc = "close"
  /\ producer' = [producer EXCEPT !.pc = "done"]
  /\ jobsClosed' = TRUE
  /\ UNCHANGED <<producerUnchanged, jobs>>

-----------------------------------------------------------------------------
(* A worker: range jobs, probeS7, and the select that sends the result *)

workerUnchanged == <<ctxDone, main, results, err, producer, jobsClosed, outClosed>>

Receive(w) ==
  /\ worker[w].pc = "receive" /\ jobs # <<>>
  /\ worker' = [worker EXCEPT ![w] =
       [pc |-> "check", i |-> Head(jobs).i, ip |-> Head(jobs).ip, attempts |-> 0, r |-> NoResult]]
  /\ jobs' = Tail(jobs)
  /\ UNCHANGED <<workerUnchanged, out, tries>>

JobsEnd(w) ==
  /\ worker[w].pc = "receive" /\ jobs = <<>> /\ jobsClosed
  /\ worker' = [worker EXCEPT ![w] = Idle("done")]
  /\ UNCHANGED <<workerUnchanged, jobs, out, tries>>

Probed(w, at, reason) ==
  worker' = [worker EXCEPT ![w].pc = "send", ![w].r = Result(worker[w].ip, at, reason)]

\* Mutant: one attempt more than allowed.
AttemptsUsedOff(w) == maxAttemptsPerHost > 0 /\ worker[w].attempts > maxAttemptsPerHost

AttemptsUsed(w) == maxAttemptsPerHost > 0 /\ worker[w].attempts >= maxAttemptsPerHost

\* The head of the loop over the pairs: the end of the loop, the limit on
\* attempts, the context, or one more Connect (after jitter and rate limit,
\* which end with the context as well).
Check(w) ==
  /\ worker[w].pc = "check"
  /\ IF worker[w].attempts = Pairs THEN Probed(w, 0, "none")
     ELSE IF AttemptsUsed(w) THEN Probed(w, 0, "max_attempts")
     ELSE IF ctxDone THEN Probed(w, 0, "context_canceled")
     ELSE worker' = [worker EXCEPT ![w].pc = "connect", ![w].attempts = @ + 1]
  /\ UNCHANGED <<workerUnchanged, jobs, out, tries>>

Connect(w) ==
  LET a == worker[w].ip
      accepted == worker[w].attempts \in Speaks[a]
  IN /\ worker[w].pc = "connect"
     /\ tries' = [tries EXCEPT ![a] = @ + 1]
     /\ \/ accepted /\ Probed(w, worker[w].attempts, "found")
        \/ /\ accepted => ctxDone \/ a \in Flaky
           /\ worker' = [worker EXCEPT ![w].pc = "check"]
     /\ UNCHANGED <<workerUnchanged, jobs, out>>

\* The channel has room for every result, so the send never waits.
SendResult(w) ==
  /\ worker[w].pc = "send"
  /\ out' = Append(out, [i |-> worker[w].i, r |-> worker[w].r])
  /\ worker' = [worker EXCEPT ![w] = Idle("receive")]
  /\ UNCHANGED <<workerUnchanged, jobs, tries>>

\* The other case of the select: the result is dropped and the worker ends.
DropResult(w) ==
  /\ worker[w].pc = "send" /\ ctxDone
  /\ worker' = [worker EXCEPT ![w] = Idle("done")]
  /\ UNCHANGED <<workerUnchanged, jobs, out, tries>>

\* Mutant: the results are closed when the jobs are used up.
WorkersDoneEarly == jobsClosed /\ jobs = <<>>

WorkersDone == \A w \in Workers : worker[w].pc = "done"

\* wg.Wait, close(out).
Closer ==
  /\ WorkersDone /\ ~outClosed
  /\ outClosed' = TRUE
  /\ UNCHANGED <<ctxDone, main, results, err, producer, jobs, jobsClosed, worker, out, tries>>

CtxEnds ==
  /\ ~ctxDone /\ ctxDone' = TRUE
  /\ UNCHANGED <<main, results, err, producer, jobs, jobsClosed, worker, out, outClosed, tries>>

-----------------------------------------------------------------------------
Caller == Count \/ Collect \/ Return
Producer == Skip \/ Send \/ StreamEnds \/ CloseJobs
Worker(w) ==
  \/ Receive(w) \/ JobsEnd(w) \/ Check(w) \/ Connect(w)
  \/ SendResult(w) \/ DropResult(w)

Next == Caller \/ Producer \/ (\E w \in Workers : Worker(w)) \/ Closer \/ CtxEnds

Spec == Init /\ [][Next]_vars

\* Go runs every goroutine, and Connect has a timeout.
FairSpec ==
  /\ Spec /\ WF_vars(Caller) /\ WF_vars(Producer) /\ WF_vars(Closer)
  /\ \A w \in Workers : WF_vars(Worker(w))

-----------------------------------------------------------------------------
(* Properties *)

\* The address of result k, as expandCIDR has it: the range without its ends.
Address(k) == Network + k - 1 + (IF skipEnds THEN 1 ELSE 0)

\* The number of attempts a host without an answer gets.
AllTries ==
  IF maxAttemptsPerHost > 0 /\ maxAttemptsPerHost < Pairs THEN maxAttemptsPerHost ELSE Pairs

\* The variables keep their types, and the channels their capacities.
TypeOK ==
  /\ ctxDone \in BOOLEAN /\ main \in {"count", "collect", "done"}
  /\ producer.pc \in {"off", "stream", "close", "done"} /\ producer.idx \in 0..total
  /\ producer.ip \in 0..(AddrSpace - 1) /\ producer.sent \in 0..count
  /\ Len(jobs) <= 2 * Cardinality(Workers) /\ Len(out) <= count
  /\ \A w \in Workers : worker[w].pc \in {"off", "receive", "check", "connect", "send", "done"}

\* Results are in the order of the addresses, whichever worker was first, and
\* also when the context ended and some are missing; one that names a
\* rack/slot pair names one the host accepts.  Discover without an error has
\* tried every host: it found the pair, or had every attempt the limit allows.
ResultsExact ==
  /\ \A k \in DOMAIN results : results[k] # NoResult =>
       /\ results[k].ip = Address(k)
       /\ results[k].at # 0 => results[k].at \in Speaks[Address(k)]
  /\ main = "done" /\ ~err => \A k \in 1..count :
       /\ results[k].reason \in {"found", "none", "max_attempts"}
       /\ results[k].reason # "found" => tries[Address(k)] = AllTries

\* No host meets more attempts than the limit and the pairs allow, and the
\* network and broadcast addresses of a range meet none.
PoliteToHosts ==
  \A a \in DOMAIN tries :
    tries[a] <= IF \E k \in 1..count : Address(k) = a THEN AllTries ELSE 0

\* Discover returns, and its producer, workers and closer end: an ended
\* context leaves no goroutine waiting on a channel.
AllEnd ==
  <>(/\ main = "done"
     /\ producer.pc \in {"off", "done"}
     /\ \A w \in Workers : worker[w].pc \in {"off", "done"})

=============================================================================
