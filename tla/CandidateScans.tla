--------------------------- MODULE CandidateScans ---------------------------
(***************************************************************************)
(* ProbeRackSlots (client/probe.go) and CompareRead (client/compare.go):   *)
(* one goroutine per rack/slot candidate, at most Parallelism at a time,   *)
(* started by a loop that watches a context, and a result made of what     *)
(* every goroutine stored at the index of its candidate.                   *)
(*                                                                         *)
(* The two differ in the loop (a probe stops at the first success and at   *)
(* a number of attempts; a comparison fills in what it did not start) and  *)
(* in the last exchange (a confirming query; a read).  How far a candidate *)
(* gets is up to the target, a timeout or the context: a choice.           *)
(***************************************************************************)
EXTENDS Naturals, FiniteSets

CONSTANTS
  N,                  \* the number of candidates, in the order they are tried
  ReqParallelism,     \* req.Parallelism, 0 for the default
  SafetyMode,         \* req.SafetyMode (ProbeRackSlots)
  MaxAttempts,        \* the values of req.MaxAttemptsPerHost, 0 for no limit
  Data                \* what a read may return (CompareRead)

ASSUME ScanAssumption ==
  /\ N \in Nat \ {0} /\ ReqParallelism \in Nat /\ MaxAttempts \subseteq Nat
  /\ SafetyMode \in {"", "conservative", "normal", "aggressive"}

Cands == 1..N

VARIABLES
  op,       \* the call: "ProbeRackSlots" or "CompareRead"
  strict,   \* req.Strict
  stop,     \* req.StopOnFirst or req.StopOnFirstConfirmed
  limit,    \* req.MaxAttemptsPerHost
  ctx,      \* has the caller's context ended?
  cancelled,\* has cancel() ended probeCtx?
  pc,       \* where the loop is: "loop", "delay", "acquire", "wait", "done"
  i,        \* the candidate the loop is at
  sem,      \* the number of tokens in the semaphore
  job,      \* per candidate: where its goroutine is
  open,     \* the candidates with an open connection
  saw,      \* per candidate: what its goroutine found out
  entry,    \* candidates[idx], results[idx]
  late,     \* the goroutines started after cancel()
  result    \* the summary returned: Valid, RackSlotInsensitive and the error

request == <<op, strict, stop, limit>>
vars == <<request, ctx, cancelled, pc, i, sem, job, open, saw, entry, late, result>>

Zero == [status |-> "zero"]
Found(status) == [status |-> status]
ReadOf(d) == [status |-> "success", data |-> d]
NoResult == [valid |-> {}, insensitive |-> FALSE, err |-> FALSE]

Init ==
  /\ op \in {"ProbeRackSlots", "CompareRead"}
  /\ strict \in BOOLEAN /\ stop \in BOOLEAN
  /\ limit \in MaxAttempts \cup {0}
  /\ op = "CompareRead" => ~strict /\ ~stop /\ limit = 0
  /\ ctx = FALSE /\ cancelled = FALSE
  /\ pc = "loop" /\ i = 1 /\ sem = 0
  /\ job = [c \in Cands |-> "none"] /\ open = {}
  /\ saw = [c \in Cands |-> Zero] /\ entry = [c \in Cands |-> Zero]
  /\ late = {} /\ result = NoResult

Probing == op = "ProbeRackSlots"

\* The context of the goroutines and of the loop.
Done == ctx \/ cancelled

\* The capacity of the semaphore, with the defaults of either call.
Parallelism ==
  CASE ReqParallelism >= 1 -> ReqParallelism
    [] ReqParallelism = 0 /\ ~Probing -> 1
    [] OTHER -> CASE SafetyMode = "conservative" -> 2 [] SafetyMode = "aggressive" -> 8 [] OTHER -> 4

maxJobs == IF limit > 0 /\ limit < N THEN limit ELSE N

SetupAccepted == {"setup-only", "valid-connect", "valid-query"}

\* The statuses that count as valid, and stop a probe with StopOnFirst.
ValidStatus == IF strict THEN {"valid-query"} ELSE SetupAccepted

-----------------------------------------------------------------------------
(* The loop that starts the goroutines *)

loopUnchanged == <<request, ctx, cancelled, open, saw, result>>

\* The next iteration: a probe first looks whether the context has ended.
LoopTop ==
  /\ pc = "loop"
  /\ pc' = CASE i > maxJobs -> "wait"
             [] i <= maxJobs /\ Probing -> IF Done THEN "wait" ELSE "delay"
             [] OTHER -> "acquire"
  /\ UNCHANGED <<loopUnchanged, i, sem, job, entry, late>>

\* Jitter and DelayMS: they pass, or the context ends while they last.
Delay ==
  /\ pc = "delay"
  /\ pc' = "acquire" \/ (Done /\ pc' = "wait")
  /\ UNCHANGED <<loopUnchanged, i, sem, job, entry, late>>

\* select: a token is free, and the goroutine starts; when the context has
\* ended as well, either case may be taken.
Acquire ==
  /\ pc = "acquire" /\ sem < Parallelism
  /\ sem' = sem + 1 /\ job' = [job EXCEPT ![i] = "tcp"]
  /\ late' = IF cancelled THEN late \cup {i} ELSE late
  /\ i' = i + 1 /\ pc' = "loop"
  /\ UNCHANGED <<loopUnchanged, entry>>

\* select: the context has ended.  CompareRead reports the candidates it did
\* not start as failed, ProbeRackSlots leaves them zero.
AcquireDone ==
  /\ pc = "acquire" /\ Done /\ pc' = "wait"
  /\ entry' = [c \in Cands |-> IF ~Probing /\ c >= i THEN Found("failed") ELSE entry[c]]
  /\ UNCHANGED <<loopUnchanged, i, sem, job, late>>

Same(d, c) == entry[c] = ReadOf(d)

\* CompareRead: RackSlotInsensitive.
Verdict == N >= 2 /\ \E d \in Data : \A c \in Cands : Same(d, c)

Joined == pc = "wait" /\ \A c \in Cands : job[c] \in {"none", "done"}

\* wg.Wait, and what is made of the entries.
Wait ==
  /\ Joined
  /\ pc' = "done"
  /\ result' = [valid |-> {c \in Cands : Probing /\ entry[c].status \in ValidStatus},
                insensitive |-> ~Probing /\ Verdict,
                err |-> Probing /\ ctx]
  /\ UNCHANGED <<request, ctx, cancelled, i, sem, job, open, saw, entry, late>>

-----------------------------------------------------------------------------
(* The goroutine of candidate c: probeOne, or Connect, ReadArea and Close *)

jobUnchanged == <<request, ctx, pc, i, late, result>>

\* The goroutine goes on at the stage where.
Reach(c, where) == job' = [job EXCEPT ![c] = where] /\ UNCHANGED saw

\* Mutant: the connection is closed only when the last exchange is over.
ConcludeOpen(c, o) ==
  /\ job' = [job EXCEPT ![c] = "store"] /\ saw' = [saw EXCEPT ![c] = o]
  /\ open' = IF job[c] = "query" THEN open \ {c} ELSE open

\* The connection is closed, and o is the outcome.
Conclude(c, o) ==
  /\ job' = [job EXCEPT ![c] = "store"] /\ saw' = [saw EXCEPT ![c] = o]
  /\ open' = open \ {c}

\* A stage fails: a probe classifies the error, a comparison has one failure.
Fail(c, statuses) ==
  \E s \in IF Probing THEN statuses ELSE {"failed"} : Conclude(c, Found(s))

dialTCP(c) ==
  /\ job[c] = "tcp"
  /\ \/ Reach(c, "cotp") /\ open' = open \cup {c}
     \/ Fail(c, {"unreachable", "timeout"})
  /\ UNCHANGED <<jobUnchanged, cancelled, sem, entry>>

\* connectCOTP closes the TCP connection when it fails.
connectCOTP(c) ==
  /\ job[c] = "cotp"
  /\ \/ Reach(c, "setup") /\ UNCHANGED open
     \/ Fail(c, {"tcp-only", "timeout"})
  /\ UNCHANGED <<jobUnchanged, cancelled, sem, entry>>

performS7Setup(c) ==
  /\ job[c] = "setup"
  /\ \/ (strict \/ ~Probing) /\ Reach(c, "query") /\ UNCHANGED open
     \/ ~strict /\ Probing /\ Conclude(c, Found("setup-only"))
     \/ Fail(c, {"cotp-only", "rejected", "timeout"})
  /\ UNCHANGED <<jobUnchanged, cancelled, sem, entry>>

\* The follow-up queries of a strict probe, up to three of them.
runFollowUp(c) ==
  /\ job[c] = "query" /\ Probing
  /\ \E s \in {"valid-query", "valid-connect"} : Conclude(c, Found(s))
  /\ UNCHANGED <<jobUnchanged, cancelled, sem, entry>>

\* ReadArea of a comparison.
ReadArea(c) ==
  /\ job[c] = "query" /\ ~Probing
  /\ \E o \in {ReadOf(d) : d \in Data} \cup {Found("failed")} : Conclude(c, o)
  /\ UNCHANGED <<jobUnchanged, cancelled, sem, entry>>

\* Mutant: the index is the loop's, which has moved on.
StoreAtLoopIndex(c) ==
  /\ job[c] = "store"
  /\ entry' = [k \in Cands |-> IF k = i THEN saw[c] ELSE entry[k]]
  /\ job' = [job EXCEPT ![c] = "stop"]
  /\ UNCHANGED <<jobUnchanged, cancelled, sem, open, saw>>

Store(c) ==
  /\ job[c] = "store"
  /\ entry' = [entry EXCEPT ![c] = saw[c]]
  /\ job' = [job EXCEPT ![c] = "stop"]
  /\ UNCHANGED <<jobUnchanged, cancelled, sem, open, saw>>

\* A valid candidate ends the probe.
Stop(c) ==
  /\ job[c] = "stop"
  /\ cancelled' = (cancelled \/ (stop /\ saw[c].status \in ValidStatus))
  /\ job' = [job EXCEPT ![c] = "release"]
  /\ UNCHANGED <<jobUnchanged, sem, open, saw, entry>>

\* Mutant: only a goroutine that got as far as the setup gives its token back.
ReleaseSome(c) ==
  /\ job[c] = "release"
  /\ sem' = IF saw[c].status \in {"unreachable", "failed"} THEN sem ELSE sem - 1
  /\ job' = [job EXCEPT ![c] = "done"]
  /\ UNCHANGED <<jobUnchanged, cancelled, open, saw, entry>>

\* Mutant: a goroutine that times out gives its token back twice.
ReleaseTwice(c) ==
  /\ job[c] = "release"
  /\ sem' = sem - (IF saw[c].status = "timeout" THEN 2 ELSE 1)
  /\ job' = [job EXCEPT ![c] = "done"]
  /\ UNCHANGED <<jobUnchanged, cancelled, open, saw, entry>>

\* The deferred receive from the semaphore; the wait group counts down.
Release(c) ==
  /\ job[c] = "release"
  /\ sem' = sem - 1 /\ job' = [job EXCEPT ![c] = "done"]
  /\ UNCHANGED <<jobUnchanged, cancelled, open, saw, entry>>

CtxEnds ==
  /\ ~ctx /\ ctx' = TRUE
  /\ UNCHANGED <<request, cancelled, pc, i, sem, job, open, saw, entry, late, result>>

Loop == LoopTop \/ Delay \/ Acquire \/ AcquireDone \/ Wait

Job(c) ==
  \/ dialTCP(c) \/ connectCOTP(c) \/ performS7Setup(c)
  \/ runFollowUp(c) \/ ReadArea(c)
  \/ Store(c) \/ Stop(c) \/ Release(c)

Next == Loop \/ (\E c \in Cands : Job(c)) \/ CtxEnds

Spec == Init /\ [][Next]_vars

\* Go runs every goroutine, and every stage of one has a timeout.
FairSpec == Spec /\ WF_vars(Loop) /\ \A c \in Cands : WF_vars(Job(c))

-----------------------------------------------------------------------------
(* Properties *)

Outcomes ==
  {Zero} \cup {ReadOf(d) : d \in Data} \cup
  {Found(s) : s \in SetupAccepted \cup
     {"unreachable", "timeout", "tcp-only", "cotp-only", "rejected", "failed"}}

\* The variables keep their types, and the semaphore its capacity.
TypeOK ==
  /\ ctx \in BOOLEAN /\ cancelled \in BOOLEAN
  /\ pc \in {"loop", "delay", "acquire", "wait", "done"} /\ i \in 1..(N + 1)
  /\ sem \in 0..Parallelism /\ open \subseteq Cands /\ late \subseteq Cands
  /\ job \in [Cands -> {"none", "tcp", "cotp", "setup", "query", "store", "stop", "release", "done"}]
  /\ saw \in [Cands -> Outcomes] /\ entry \in [Cands -> Outcomes]

\* The target never has more than Parallelism connections of one call, none
\* is left when it returns, whichever stage failed, and a stop takes effect:
\* at most one more goroutine starts, the one whose select has both cases
\* ready.
PoliteToTarget ==
  /\ Cardinality(open) <= Parallelism /\ (pc = "done" => open = {})
  /\ Cardinality(late) <= 1

\* The result is what the goroutines found.  Every entry is its own
\* candidate's, and a candidate without one was left out for a reason: the
\* limit on attempts, a stop or the context (a comparison reports it as failed).
\* Valid holds every candidate found valid, those found after the stop included,
\* and a probe that was stopped has found one.  RackSlotInsensitive says that
\* every candidate was read, with the same data.
ResultIsTrue ==
  pc = "done" =>
    /\ \A c \in Cands :
         IF job[c] = "none"
         THEN (Done \/ c > maxJobs) /\ entry[c] = IF Probing THEN Zero ELSE Found("failed")
         ELSE entry[c] = saw[c]
    /\ Probing => result.valid = {c \in Cands : saw[c].status \in ValidStatus}
    /\ cancelled => result.valid # {}
    /\ result.insensitive => \E d \in Data : \A c \in Cands : saw[c] = ReadOf(d)

\* The call returns: no goroutine keeps its token or leaves the wait group
\* waiting.
ScanReturns == <>(pc = "done")

=============================================================================
