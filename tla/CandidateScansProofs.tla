------------------------ MODULE CandidateScansProofs -------------------------
(***************************************************************************)
(* Proofs that a scan of rack/slot candidates is polite to its target and  *)
(* returns what its goroutines found, for any number of candidates, any    *)
(* parallelism, any limit on attempts and any data.                        *)
(***************************************************************************)
EXTENDS CandidateScans, FiniteSetTheorems, TLAPS

\* The stages of a goroutine.
Stages == {"none", "tcp", "cotp", "setup", "query", "store", "stop", "release", "done"}

\* The types, and what a comparison does not ask for.
Types ==
  /\ op \in {"ProbeRackSlots", "CompareRead"} /\ strict \in BOOLEAN /\ stop \in BOOLEAN /\ limit \in Nat
  /\ op = "CompareRead" => ~strict /\ ~stop /\ limit = 0
  /\ ctx \in BOOLEAN /\ cancelled \in BOOLEAN
  /\ pc \in {"loop", "delay", "acquire", "wait", "done"} /\ i \in 1..(N + 1)
  /\ job \in [Cands -> Stages]
  /\ saw \in [Cands -> Outcomes] /\ entry \in [Cands -> Outcomes]

\* The goroutines between the send to the semaphore and the receive from it.
InFlight == {c \in Cands : job[c] \notin {"none", "done"}}

\* The semaphore holds a token for each of them, and a connection is open only
\* between the stages that use it.
Tokens == sem \in Nat /\ sem = Cardinality(InFlight) /\ sem <= Parallelism
Opened == open \subseteq {c \in Cands : job[c] \in {"cotp", "setup", "query"}}

\* The loop starts the candidates in order, within the limit on attempts.
Started ==
  /\ \A c \in Cands : job[c] = "none" <=> c >= i
  /\ pc \in {"delay", "acquire"} => i <= maxJobs
  /\ pc = "delay" => Probing

\* What is stored for a candidate: nothing before its goroutine stores, then
\* what the goroutine saw; a candidate the loop gave up has its reason.
Entries ==
  \A c \in Cands :
    /\ job[c] = "none" => saw[c] = Zero
    /\ job[c] \in {"stop", "release", "done"} => entry[c] = saw[c]
    /\ job[c] = "none" /\ pc \in {"loop", "delay", "acquire"} => entry[c] = Zero
    /\ job[c] = "none" /\ pc \in {"wait", "done"} =>
         (Done \/ c > maxJobs) /\ entry[c] = IF Probing THEN Zero ELSE Found("failed")

\* A probe was stopped by a candidate found valid, and the loop goes round at
\* most once after that.
Stopped ==
  /\ cancelled => stop /\ \E c \in Cands : job[c] \in {"release", "done"} /\ saw[c].status \in ValidStatus
  /\ late = {} \/ (cancelled /\ pc \in {"loop", "wait", "done"} /\ \E c \in Cands : late = {c})

\* The result is made of the entries when no goroutine is left.
Returned ==
  pc = "done" =>
    /\ \A c \in Cands : job[c] \in {"none", "done"}
    /\ result.valid = {c \in Cands : Probing /\ entry[c].status \in ValidStatus}
    /\ result.insensitive = (~Probing /\ Verdict)

\* The inductive invariant.
IInv == Types /\ Tokens /\ Opened /\ Started /\ Entries /\ Stopped /\ Returned

-----------------------------------------------------------------------------
\* A scan begins with no goroutine, no token and no entry.
LEMMA InitIInv == Init => IInv
<1> SUFFICES ASSUME Init PROVE IInv
  OBVIOUS
<1>1. Types
  <2>1. Zero \in Outcomes
    BY DEF Outcomes
  <2>2. limit \in Nat /\ N \in Nat /\ 1 \in 1..(N + 1)
    <3>1. limit \in MaxAttempts \cup {0}
      BY DEF Init
    <3>2. limit \in Nat
      <4>1. MaxAttempts \subseteq Nat
        BY ScanAssumption, Zenon
      <4> QED  BY <3>1, <4>1
    <3>3. N \in Nat
      BY ScanAssumption
    <3> QED  BY <3>2, <3>3
  <2> QED  BY <2>1, <2>2, ZenonT(60) DEF Init, Types, Stages
<1>2. Tokens
  <2>1. InFlight = {}
    BY DEF Init, InFlight
  <2>2. Parallelism \in Nat
    BY ScanAssumption DEF Parallelism
  <2> QED  BY <2>1, <2>2, FS_EmptySet DEF Init, Tokens
<1>3. Opened /\ Started /\ Entries /\ Stopped /\ Returned
  BY DEF Init, Opened, Started, Entries, Stopped, Returned, Cands
<1> QED  BY <1>1, <1>2, <1>3 DEF IInv

\* The capacity of the semaphore is a number.
LEMMA ParallelismNat == Parallelism \in Nat
  BY ScanAssumption DEF Parallelism

\* The loop's bound.
LEMMA Bounds ==
  ASSUME IInv
  PROVE  i \in Nat /\ N \in Nat /\ maxJobs \in Nat /\ maxJobs <= N
<1>1. N \in Nat
  BY ScanAssumption
<1>2. limit \in Nat /\ i \in 1..(N + 1)
  BY DEF IInv, Types
<1> QED  BY <1>1, <1>2 DEF maxJobs

\* The candidates are finitely many, and so are those in flight.
LEMMA Finite == IsFiniteSet(Cands) /\ IsFiniteSet(InFlight)
<1>1. IsFiniteSet(Cands)
  <2>1. N \in Nat
    BY ScanAssumption
  <2> QED  BY <2>1, FS_Interval DEF Cands
<1> QED  BY <1>1, FS_Subset DEF InFlight

\* What a call is asked for stays, and so does what is derived from it.
LEMMA SameRequest ==
  ASSUME UNCHANGED request
  PROVE  /\ UNCHANGED <<op, strict, stop, limit>>
         /\ Parallelism' = Parallelism /\ maxJobs' = maxJobs
         /\ (Probing' <=> Probing) /\ ValidStatus' = ValidStatus
<1>1. UNCHANGED <<op, strict, stop, limit>>
  BY DEF request
<1>2. Parallelism' = Parallelism
  BY <1>1, Zenon DEF Parallelism, Probing
<1> QED  BY <1>1, <1>2 DEF maxJobs, Probing, ValidStatus

\* The loop goes on without starting a goroutine.
LEMMA LoopKeeps ==
  ASSUME IInv, UNCHANGED <<request, cancelled, open, saw, i, sem, job, late>>,
         Types', Entries', late # {} => pc' \in {"loop", "wait", "done"},
         pc' \in {"delay", "acquire"} => i <= maxJobs, pc' = "delay" => Probing, Returned'
  PROVE  IInv'
<1>1. Tokens'
  BY SameRequest DEF IInv, Tokens, InFlight
<1>2. Opened' /\ Started'
  BY SameRequest DEF IInv, Opened, Started
<1>3. Stopped'
  BY SameRequest, ZenonT(60) DEF IInv, Stopped
<1> QED  BY <1>1, <1>2, <1>3 DEF IInv

\* The top of the loop starts nothing: it goes on, waits, or sees the context.
LEMMA LoopTopKeeps == ASSUME IInv, LoopTop  PROVE IInv'
<1>1. /\ pc = "loop" /\ UNCHANGED <<request, ctx, cancelled, open, saw, result, i, sem, job, entry, late>>
      /\ pc' = CASE i > maxJobs -> "wait"
                 [] i <= maxJobs /\ Probing -> IF Done THEN "wait" ELSE "delay"
                 [] OTHER -> "acquire"
  BY DEF LoopTop, loopUnchanged
<1>2. i \in Nat /\ maxJobs \in Nat /\ N \in Nat
  BY Bounds
<1>3. /\ pc' \in {"wait", "delay", "acquire"}
      /\ pc' \in {"delay", "acquire"} => i <= maxJobs
      /\ pc' = "wait" => i > maxJobs \/ (Probing /\ Done)
      /\ pc' = "delay" => Probing
  BY <1>1, <1>2
<1>4. Types'
  BY <1>1, <1>3 DEF IInv, Types, request
<1>5. Entries'
  <2> SUFFICES ASSUME NEW c \in Cands, job[c] = "none", pc' = "wait"
               PROVE  (Done \/ c > maxJobs) /\ entry[c] = IF Probing THEN Zero ELSE Found("failed")
    BY <1>1, <1>3, SameRequest DEF IInv, Entries, Done
  <2>1. c >= i /\ entry[c] = Zero
    BY <1>1 DEF IInv, Started, Entries
  <2>2. CASE Probing
    BY <2>1, <2>2, <1>2, <1>3 DEF Cands
  <2>3. CASE ~Probing
    <3>1. maxJobs = N
      BY <2>3 DEF IInv, Types, Probing, maxJobs
    <3> QED  BY <2>1, <2>3, <3>1, <1>2, <1>3 DEF Cands
  <2> QED  BY <2>2, <2>3
<1>6. late # {} => pc' = "wait"
  BY <1>1, <1>3 DEF IInv, Stopped, Types, Probing, Done
<1>7. Returned'
  BY <1>3, ZenonT(60) DEF Returned
<1> QED  BY <1>1, <1>3, <1>4, <1>5, <1>6, <1>7, LoopKeeps DEF IInv, Types

\* Nor does the delay between candidates.
LEMMA DelayKeeps == ASSUME IInv, Delay  PROVE IInv'
<1>1. /\ pc = "delay" /\ UNCHANGED <<request, ctx, cancelled, open, saw, result, i, sem, job, entry, late>>
      /\ pc' = "acquire" \/ (Done /\ pc' = "wait")
  BY DEF Delay, loopUnchanged
<1>2. i <= maxJobs /\ late = {} /\ Probing
  BY <1>1 DEF IInv, Started, Stopped
<1>3. Types'
  BY <1>1 DEF IInv, Types, request
<1>4. Entries'
  BY <1>1, <1>2, SameRequest DEF IInv, Entries, Done
<1>5. Returned'
  BY <1>1 DEF Returned
<1> QED  BY <1>1, <1>2, <1>3, <1>4, <1>5, LoopKeeps DEF IInv, Types

\* A token is free: the next goroutine starts.
LEMMA AcquireKeeps == ASSUME IInv, Acquire  PROVE IInv'
<1>1. /\ pc = "acquire" /\ sem < Parallelism
      /\ sem' = sem + 1 /\ job' = [job EXCEPT ![i] = "tcp"]
      /\ late' = IF cancelled THEN late \cup {i} ELSE late
      /\ i' = i + 1 /\ pc' = "loop"
      /\ UNCHANGED <<request, ctx, cancelled, open, saw, result, entry>>
  BY DEF Acquire, loopUnchanged
<1>2. i <= maxJobs /\ late = {} /\ maxJobs \in Nat /\ maxJobs <= N /\ N \in Nat /\ i \in Nat
  BY <1>1, Bounds DEF IInv, Started, Stopped
<1>3. i \in Cands /\ i \in 1..N /\ job[i] = "none"
  BY <1>2 DEF IInv, Types, Cands, Started
<1>4. /\ job'[i] = "tcp" /\ \A c \in Cands \ {i} : job'[c] = job[c]
      /\ job' \in [Cands -> Stages]
  BY <1>1, <1>3 DEF IInv, Types, Stages
<1>5. Types'
  BY <1>1, <1>2, <1>3, <1>4 DEF IInv, Types, request
<1>6. Tokens'
  <2>1. InFlight' = InFlight \cup {i} /\ i \notin InFlight
    BY <1>3, <1>4, ZenonT(60) DEF InFlight
  <2>2. IsFiniteSet(InFlight)
    BY Finite
  <2>3. Cardinality(InFlight') = Cardinality(InFlight) + 1
    BY <2>1, <2>2, FS_AddElement
  <2> QED  BY <2>3, <1>1, SameRequest, ParallelismNat DEF IInv, Tokens
<1>7. Opened'
  BY <1>1, <1>3, <1>4 DEF IInv, Opened
<1>8. Started'
  BY <1>1, <1>2, <1>3, <1>4 DEF IInv, Started, Cands
<1>9. Entries'
  BY <1>1, <1>3, <1>4, SameRequest DEF IInv, Entries, Done
<1>10. Stopped'
  <2>1. cancelled => stop /\ \E c \in Cands : job'[c] \in {"release", "done"} /\ saw[c].status \in ValidStatus
    BY <1>3, <1>4 DEF IInv, Stopped
  <2> QED  BY <2>1, <1>1, <1>2, <1>3, SameRequest DEF Stopped
<1>11. Returned'
  BY <1>1, ZenonT(60) DEF Returned
<1> QED  BY <1>5, <1>6, <1>7, <1>8, <1>9, <1>10, <1>11 DEF IInv

\* A loop that finds the context ended while it waits for a token starts no
\* more goroutines.
LEMMA AcquireDoneKeeps == ASSUME IInv, AcquireDone  PROVE IInv'
<1>1. /\ pc = "acquire" /\ Done /\ pc' = "wait"
      /\ entry' = [c \in Cands |-> IF ~Probing /\ c >= i THEN Found("failed") ELSE entry[c]]
      /\ UNCHANGED <<request, ctx, cancelled, open, saw, result, i, sem, job, late>>
  BY DEF AcquireDone, loopUnchanged
<1>2. Types'
  <2>1. Found("failed") \in Outcomes
    BY DEF Outcomes
  <2>2. entry' \in [Cands -> Outcomes]
    BY <1>1, <2>1, ZenonT(60) DEF IInv, Types
  <2> QED  BY <1>1, <2>2 DEF IInv, Types, request
<1>3. Entries'
  <2> SUFFICES ASSUME NEW c \in Cands
               PROVE /\ job[c] = "none" => saw[c] = Zero
                     /\ job[c] \in {"stop", "release", "done"} => entry'[c] = saw[c]
                     /\ job[c] = "none" => Done /\ entry'[c] = IF Probing THEN Zero ELSE Found("failed")
    BY <1>1, SameRequest DEF Entries, Done
  <2>1. entry'[c] = IF ~Probing /\ c >= i THEN Found("failed") ELSE entry[c]
    BY <1>1
  <2>2. job[c] = "none" <=> c >= i
    BY DEF IInv, Started
  <2> QED  BY <1>1, <2>1, <2>2, ZenonT(60) DEF IInv, Entries
<1>4. Returned'
  BY <1>1 DEF Returned
<1>5. late = {}
  BY <1>1, ZenonT(60) DEF IInv, Stopped
<1> QED  BY <1>1, <1>2, <1>3, <1>4, <1>5, LoopKeeps DEF IInv, Types

\* The wait group is done: the result is made.
LEMMA WaitKeeps == ASSUME IInv, Wait  PROVE IInv'
<1>1. /\ pc = "wait" /\ \A c \in Cands : job[c] \in {"none", "done"}
      /\ pc' = "done"
      /\ result' = [valid |-> {c \in Cands : Probing /\ entry[c].status \in ValidStatus},
                    insensitive |-> ~Probing /\ Verdict,
                    err |-> Probing /\ ctx]
      /\ UNCHANGED <<request, ctx, cancelled, i, sem, job, open, saw, entry, late>>
  BY DEF Wait, Joined
<1>2. Types'
  BY <1>1, ZenonT(60) DEF IInv, Types, request
<1>3. Entries'
  BY <1>1, SameRequest, ZenonT(60) DEF IInv, Entries, Done
<1>4. Returned'
  <2>1. Verdict' <=> Verdict
    BY <1>1 DEF Verdict, Same
  <2> QED  BY <1>1, <2>1, SameRequest, ZenonT(60) DEF Returned
<1> QED  BY <1>1, <1>2, <1>3, <1>4, LoopKeeps, ZenonT(60) DEF IInv, Types

\* The context may end at any time.
LEMMA CtxEndsKeeps == ASSUME IInv, CtxEnds  PROVE IInv'
<1>1. /\ ctx' = TRUE
      /\ UNCHANGED <<request, cancelled, pc, i, sem, job, open, saw, entry, late, result>>
  BY DEF CtxEnds
<1>2. Types'
  BY <1>1 DEF IInv, Types, request
<1>3. Tokens'
  BY <1>1, SameRequest DEF IInv, Tokens, InFlight
<1>4. Opened' /\ Started'
  BY <1>1, SameRequest DEF IInv, Opened, Started
<1>5. Stopped'
  BY <1>1, SameRequest, ZenonT(60) DEF IInv, Stopped
<1>6. Entries'
  BY <1>1, SameRequest, ZenonT(60) DEF IInv, Entries, Done
<1>7. Returned'
  <2>1. Verdict' <=> Verdict
    BY <1>1 DEF Verdict, Same
  <2> QED  BY <1>1, <2>1, SameRequest DEF IInv, Returned
<1> QED  BY <1>2, <1>3, <1>4, <1>5, <1>6, <1>7 DEF IInv

-----------------------------------------------------------------------------
(* The goroutines *)

\* A goroutine that moves on inside the part the semaphore guards.
LEMMA MoveKeeps ==
  ASSUME IInv, NEW c \in Cands, NEW p \in Stages \ {"none", "done"}, job[c] \notin {"none", "done"},
         job' = [job EXCEPT ![c] = p], UNCHANGED <<request, ctx, pc, i, late, result, sem>>
  PROVE  /\ Tokens' /\ Started' /\ Returned' /\ job' \in [Cands -> Stages]
         /\ job'[c] = p /\ \A x \in Cands \ {c} : job'[x] = job[x]
<1>1. job' \in [Cands -> Stages] /\ job'[c] = p /\ \A x \in Cands \ {c} : job'[x] = job[x]
  BY DEF IInv, Types, Stages
<1>2. \A x \in Cands : job'[x] = "none" <=> job[x] = "none"
  BY <1>1
<1>3. InFlight' = InFlight
  BY <1>1 DEF InFlight
<1>4. Tokens'
  BY <1>3, SameRequest DEF IInv, Tokens
<1>5. Started'
  BY <1>2, SameRequest DEF IInv, Started
<1>6. Returned'
  BY DEF IInv, Returned
<1> QED  BY <1>1, <1>4, <1>5, <1>6

\* The goroutine goes on to its next exchange, with its connection open.
LEMMA ReachKeeps ==
  ASSUME IInv, NEW c \in Cands, NEW p \in {"cotp", "setup", "query"},
         job[c] \in {"tcp", "cotp", "setup"}, Reach(c, p), open' \in {open, open \cup {c}},
         UNCHANGED <<jobUnchanged, cancelled, sem, entry>>
  PROVE  IInv'
<1>1. /\ job' = [job EXCEPT ![c] = p]
      /\ UNCHANGED <<request, ctx, pc, i, late, result, cancelled, sem, entry, saw>>
  BY DEF Reach, jobUnchanged
<1>2. p \in Stages \ {"none", "done"}
  BY DEF Stages
<1>3. /\ Tokens' /\ Started' /\ Returned' /\ job' \in [Cands -> Stages]
      /\ job'[c] = p /\ \A x \in Cands \ {c} : job'[x] = job[x]
  BY <1>1, <1>2, MoveKeeps, ZenonT(60)
<1>4. Types'
  BY <1>1, <1>3 DEF IInv, Types, request
<1>5. Opened'
  BY <1>3, ZenonT(60) DEF IInv, Opened
<1>6. Entries'
  BY <1>1, <1>3, SameRequest DEF IInv, Entries, Done
<1>7. Stopped'
  <2>1. cancelled => stop /\ \E x \in Cands : job'[x] \in {"release", "done"} /\ saw[x].status \in ValidStatus
    BY <1>3 DEF IInv, Stopped
  <2>2. late = {} \/ (cancelled /\ pc \in {"loop", "wait", "done"} /\ \E x \in Cands : late = {x})
    BY DEF IInv, Stopped
  <2> QED  BY <2>1, <2>2, <1>1, SameRequest DEF Stopped
<1> QED  BY <1>3, <1>4, <1>5, <1>6, <1>7, ZenonT(60) DEF IInv

\* A goroutine closes its connection with an outcome.
LEMMA ConcludeKeeps ==
  ASSUME IInv, NEW c \in Cands, NEW o \in Outcomes,
         job[c] \in {"tcp", "cotp", "setup", "query"}, Conclude(c, o),
         UNCHANGED <<jobUnchanged, cancelled, sem, entry>>
  PROVE  IInv'
<1>1. /\ job' = [job EXCEPT ![c] = "store"] /\ saw' = [saw EXCEPT ![c] = o] /\ open' = open \ {c}
      /\ UNCHANGED <<request, ctx, pc, i, late, result, cancelled, sem, entry>>
  BY DEF Conclude, jobUnchanged
<1>2. "store" \in Stages \ {"none", "done"}
  BY DEF Stages
<1>3. /\ Tokens' /\ Started' /\ Returned' /\ job' \in [Cands -> Stages]
      /\ job'[c] = "store" /\ \A x \in Cands \ {c} : job'[x] = job[x]
  BY <1>1, <1>2, MoveKeeps, ZenonT(60)
<1>4. saw' \in [Cands -> Outcomes] /\ \A x \in Cands \ {c} : saw'[x] = saw[x]
  BY <1>1, ZenonT(60) DEF IInv, Types
<1>5. Types'
  BY <1>1, <1>3, <1>4, ZenonT(60) DEF IInv, Types, request
<1>6. Opened'
  BY <1>1, <1>3, ZenonT(60) DEF IInv, Opened
<1>7. Entries'
  BY <1>1, <1>3, <1>4, SameRequest DEF IInv, Entries, Done
<1>8. Stopped'
  <2>1. cancelled => stop /\ \E x \in Cands : job'[x] \in {"release", "done"} /\ saw'[x].status \in ValidStatus
    <3> SUFFICES ASSUME cancelled
                 PROVE  stop /\ \E x \in Cands : job'[x] \in {"release", "done"} /\ saw'[x].status \in ValidStatus
      OBVIOUS
    <3>1. stop
      BY DEF IInv, Stopped
    <3>2. PICK x \in Cands : job[x] \in {"release", "done"} /\ saw[x].status \in ValidStatus
      BY DEF IInv, Stopped
    <3>3. x # c
      BY <3>2, ZenonT(60)
    <3>4. job'[x] = job[x] /\ saw'[x] = saw[x]
      BY <3>3, <1>3, <1>4, ZenonT(60)
    <3> QED  BY <3>1, <3>2, <3>4, ZenonT(60)
  <2>2. late = {} \/ (cancelled /\ pc \in {"loop", "wait", "done"} /\ \E x \in Cands : late = {x})
    BY DEF IInv, Stopped
  <2> QED  BY <2>1, <2>2, <1>1, SameRequest DEF Stopped
<1> QED  BY <1>3, <1>5, <1>6, <1>7, <1>8, ZenonT(60) DEF IInv

\* A stage that fails ends in one of its statuses.
LEMMA FailKeeps ==
  ASSUME IInv, NEW c \in Cands, job[c] \in {"tcp", "cotp", "setup", "query"},
         NEW statuses \in SUBSET {"unreachable", "timeout", "tcp-only", "cotp-only", "rejected"},
         Fail(c, statuses), UNCHANGED <<jobUnchanged, cancelled, sem, entry>>
  PROVE  IInv'
<1>1. PICK s \in statuses \cup {"failed"} : Conclude(c, Found(s))
  BY DEF Fail
<1>2. Found(s) \in Outcomes
  BY DEF Outcomes
<1> QED  BY <1>1, <1>2, ConcludeKeeps

\* The exchanges with the target.
LEMMA StageKeeps ==
  ASSUME IInv, NEW c \in Cands,
         dialTCP(c) \/ connectCOTP(c) \/ performS7Setup(c) \/ runFollowUp(c) \/ ReadArea(c)
  PROVE  IInv'
<1>1. CASE dialTCP(c)
  BY <1>1, ReachKeeps, FailKeeps, ZenonT(60) DEF dialTCP
<1>2. CASE connectCOTP(c)
  BY <1>2, ReachKeeps, FailKeeps, ZenonT(60) DEF connectCOTP
<1>3. CASE performS7Setup(c)
  <2>1. Found("setup-only") \in Outcomes
    BY DEF Outcomes, SetupAccepted
  <2> QED  BY <1>3, <2>1, ReachKeeps, ConcludeKeeps, FailKeeps DEF performS7Setup
<1>4. CASE runFollowUp(c)
  <2>1. \A s \in {"valid-query", "valid-connect"} : Found(s) \in Outcomes
    BY DEF Outcomes, SetupAccepted
  <2> QED  BY <1>4, <2>1, ConcludeKeeps DEF runFollowUp
<1>5. CASE ReadArea(c)
  <2>1. {ReadOf(d) : d \in Data} \cup {Found("failed")} \subseteq Outcomes
    BY DEF Outcomes
  <2> QED  BY <1>5, <2>1, ConcludeKeeps DEF ReadArea
<1> QED  BY <1>1, <1>2, <1>3, <1>4, <1>5, ZenonT(60)

\* The outcome is stored at the candidate's index.
LEMMA StoreKeeps == ASSUME IInv, NEW c \in Cands, Store(c)  PROVE IInv'
<1>1. /\ job[c] = "store" /\ entry' = [entry EXCEPT ![c] = saw[c]] /\ job' = [job EXCEPT ![c] = "stop"]
      /\ UNCHANGED <<request, ctx, pc, i, late, result, cancelled, sem, open, saw>>
  BY DEF Store, jobUnchanged
<1>2. "stop" \in Stages \ {"none", "done"}
  BY DEF Stages
<1>3. /\ Tokens' /\ Started' /\ job' \in [Cands -> Stages]
      /\ job'[c] = "stop" /\ \A x \in Cands \ {c} : job'[x] = job[x]
  BY <1>1, <1>2, MoveKeeps, ZenonT(60)
<1>4. /\ entry' \in [Cands -> Outcomes] /\ entry'[c] = saw[c]
      /\ \A x \in Cands \ {c} : entry'[x] = entry[x]
  BY <1>1, ZenonT(60) DEF IInv, Types
<1>5. Types'
  BY <1>1, <1>3, <1>4, ZenonT(60) DEF IInv, Types, request
<1>6. Opened'
  BY <1>1, <1>3, ZenonT(60) DEF IInv, Opened
<1>7. Entries'
  BY <1>1, <1>3, <1>4, SameRequest, ZenonT(60) DEF IInv, Entries, Done
<1>8. Stopped'
  <2>1. cancelled => stop /\ \E x \in Cands : job'[x] \in {"release", "done"} /\ saw[x].status \in ValidStatus
    BY <1>1, <1>3 DEF IInv, Stopped
  <2>2. late = {} \/ (cancelled /\ pc \in {"loop", "wait", "done"} /\ \E x \in Cands : late = {x})
    BY ZenonT(60) DEF IInv, Stopped
  <2> QED  BY <2>1, <2>2, <1>1, SameRequest, ZenonT(60) DEF Stopped
<1>9. Returned'
  BY <1>1 DEF IInv, Returned
<1> QED  BY <1>3, <1>5, <1>6, <1>7, <1>8, <1>9, ZenonT(60) DEF IInv

\* A valid candidate ends a probe that is to stop.
LEMMA StopKeeps == ASSUME IInv, NEW c \in Cands, Stop(c)  PROVE IInv'
<1>1. /\ job[c] = "stop" /\ job' = [job EXCEPT ![c] = "release"]
      /\ cancelled' = (cancelled \/ (stop /\ saw[c].status \in ValidStatus))
      /\ UNCHANGED <<request, ctx, pc, i, late, result, sem, open, saw, entry>>
  BY DEF Stop, jobUnchanged
<1>2. "release" \in Stages \ {"none", "done"}
  BY DEF Stages
<1>3. /\ Tokens' /\ Started' /\ Returned' /\ job' \in [Cands -> Stages]
      /\ job'[c] = "release" /\ \A x \in Cands \ {c} : job'[x] = job[x]
  BY <1>1, <1>2, MoveKeeps, ZenonT(60)
<1>4. Types'
  <2>1. cancelled' \in BOOLEAN
    BY <1>1
  <2> QED  BY <1>1, <1>3, <2>1 DEF IInv, Types, request
<1>5. Opened'
  BY <1>1, <1>3 DEF IInv, Opened
<1>6. Entries'
  BY <1>1, <1>3, SameRequest, ZenonT(60) DEF IInv, Entries, Done
<1>7. Stopped'
  <2>1. cancelled' => stop /\ \E x \in Cands : job'[x] \in {"release", "done"} /\ saw[x].status \in ValidStatus
    BY <1>1, <1>3, ZenonT(60) DEF IInv, Stopped
  <2>2. late = {} \/ (cancelled' /\ pc \in {"loop", "wait", "done"} /\ \E x \in Cands : late = {x})
    BY <1>1, ZenonT(60) DEF IInv, Stopped
  <2> QED  BY <2>1, <2>2, <1>1, SameRequest DEF Stopped
<1> QED  BY <1>3, <1>4, <1>5, <1>6, <1>7, ZenonT(60) DEF IInv

\* The token is given back.
LEMMA ReleaseKeeps == ASSUME IInv, NEW c \in Cands, Release(c)  PROVE IInv'
<1>1. /\ job[c] = "release" /\ sem' = sem - 1 /\ job' = [job EXCEPT ![c] = "done"]
      /\ UNCHANGED <<request, ctx, pc, i, late, result, cancelled, open, saw, entry>>
  BY ZenonT(60) DEF Release, jobUnchanged
<1>2. /\ job' \in [Cands -> Stages]
      /\ job'[c] = "done" /\ \A x \in Cands \ {c} : job'[x] = job[x]
  BY <1>1, ZenonT(60) DEF IInv, Types, Stages
<1>3. Types'
  BY <1>1, <1>2, ZenonT(60) DEF IInv, Types, request
<1>4. Tokens'
  <2>1. InFlight' = InFlight \ {c} /\ c \in InFlight
    BY <1>1, <1>2 DEF InFlight
  <2>2. Cardinality(InFlight') = Cardinality(InFlight) - 1 /\ Cardinality(InFlight') \in Nat
    <3>1. IsFiniteSet(InFlight) /\ IsFiniteSet(InFlight')
      BY <2>1, Finite, FS_Subset, ZenonT(60)
    <3> QED  BY <2>1, <3>1, FS_RemoveElement, FS_CardinalityType, ZenonT(60)
  <2> QED  BY <2>2, <1>1, SameRequest, ParallelismNat DEF IInv, Tokens
<1>5. Opened'
  BY <1>1, <1>2, ZenonT(60) DEF IInv, Opened
<1>6. Started'
  <2>1. \A x \in Cands : job'[x] = "none" <=> job[x] = "none"
    BY <1>1, <1>2, ZenonT(60)
  <2> QED  BY <2>1, <1>1, SameRequest, ZenonT(60) DEF IInv, Started
<1>7. Entries'
  BY <1>1, <1>2, SameRequest, ZenonT(60) DEF IInv, Entries, Done
<1>8. Stopped'
  <2>1. cancelled => stop /\ \E x \in Cands : job'[x] \in {"release", "done"} /\ saw[x].status \in ValidStatus
    BY <1>1, <1>2, ZenonT(60) DEF IInv, Stopped
  <2>2. late = {} \/ (cancelled /\ pc \in {"loop", "wait", "done"} /\ \E x \in Cands : late = {x})
    BY DEF IInv, Stopped
  <2> QED  BY <2>1, <2>2, <1>1, SameRequest, ZenonT(60) DEF Stopped
<1>9. Returned'
  BY <1>1 DEF IInv, Returned
<1> QED  BY <1>3, <1>4, <1>5, <1>6, <1>7, <1>8, <1>9, ZenonT(60) DEF IInv

\* Every step keeps the inductive invariant.
LEMMA NextIInv == IInv /\ [Next]_vars => IInv'
<1> SUFFICES ASSUME IInv, [Next]_vars PROVE IInv'
  OBVIOUS
<1>1. CASE UNCHANGED vars
  <2>1. UNCHANGED <<request, ctx, cancelled, pc, i, sem, job, open, saw, entry, late, result>>
    BY <1>1, ZenonT(60) DEF vars
  <2>2. Types'
    BY <2>1, ZenonT(60) DEF IInv, Types, request
  <2>3. Entries'
    BY <2>1, SameRequest, ZenonT(60) DEF IInv, Entries, Done
  <2>4. Tokens' /\ Opened' /\ Started' /\ Stopped'
    BY <2>1, SameRequest, ZenonT(60) DEF IInv, Tokens, InFlight, Opened, Started, Stopped
  <2>5. Returned'
    <3>1. Verdict' <=> Verdict
      BY <2>1 DEF Verdict, Same
    <3> QED  BY <2>1, <3>1, SameRequest, ZenonT(60) DEF IInv, Returned
  <2> QED  BY <2>2, <2>3, <2>4, <2>5, ZenonT(60) DEF IInv
<1>2. CASE Loop
  BY <1>2, LoopTopKeeps, DelayKeeps, AcquireKeeps, AcquireDoneKeeps, WaitKeeps, ZenonT(60) DEF Loop
<1>3. ASSUME NEW c \in Cands, Job(c)  PROVE IInv'
  BY <1>3, StageKeeps, StoreKeeps, StopKeeps, ReleaseKeeps DEF Job
<1>4. CASE CtxEnds
  BY <1>4, CtxEndsKeeps
<1> QED  BY <1>1, <1>2, <1>3, <1>4 DEF Next

\* The inductive invariant holds in every reachable state.
THEOREM Invariance == Spec => []IInv
  BY InitIInv, NextIInv, PTL DEF Spec

\* The variables keep their types, and the semaphore its capacity (TypeOK).
THEOREM Typed == Spec => []TypeOK
<1>1. IInv => TypeOK
  <2> SUFFICES ASSUME IInv PROVE TypeOK
    OBVIOUS
  <2>1. sem \in 0..Parallelism
    BY ParallelismNat DEF IInv, Tokens
  <2>2. open \subseteq Cands /\ late \subseteq Cands
    BY DEF IInv, Opened, Stopped
  <2> QED  BY <2>1, <2>2 DEF IInv, Types, Stages, TypeOK
<1> QED  BY <1>1, Invariance, PTL

\* However the goroutines, the loop, the target and the context interleave, a
\* call never has more than Parallelism connections open and leaves none, and
\* at most one goroutine starts after the stop (PoliteToTarget).
THEOREM Polite == Spec => []PoliteToTarget
<1>1. IInv => PoliteToTarget
  <2> SUFFICES ASSUME IInv PROVE PoliteToTarget
    OBVIOUS
  <2>1. Cardinality(open) <= Parallelism
    <3>1. open \subseteq InFlight
      BY DEF IInv, Opened, InFlight
    <3>2. Cardinality(open) <= Cardinality(InFlight) /\ Cardinality(open) \in Nat
      BY <3>1, Finite, FS_Subset, FS_CardinalityType, ZenonT(60)
    <3> QED  BY <3>2, ParallelismNat DEF IInv, Tokens
  <2>2. pc = "done" => open = {}
    BY DEF IInv, Opened, Returned
  <2>3. Cardinality(late) <= 1
    <3>1. CASE late = {}
      BY <3>1, FS_EmptySet
    <3>2. CASE late # {}
      <4>1. PICK c \in Cands : late = {c}
        BY <3>2, ZenonT(60) DEF IInv, Stopped
      <4> QED  BY <4>1, FS_Singleton
    <3> QED  BY <3>1, <3>2
  <2> QED  BY <2>1, <2>2, <2>3 DEF PoliteToTarget
<1> QED  BY <1>1, Invariance, PTL

\* What a call returns is what its goroutines found, entry by entry, and every
\* candidate left out was left out for a reason (ResultIsTrue).
THEOREM ResultTrue == Spec => []ResultIsTrue
<1>1. IInv => ResultIsTrue
  <2> SUFFICES ASSUME IInv, pc = "done"
               PROVE  /\ \A c \in Cands :
                           IF job[c] = "none"
                           THEN (Done \/ c > maxJobs) /\ entry[c] = IF Probing THEN Zero ELSE Found("failed")
                           ELSE entry[c] = saw[c]
                      /\ Probing => result.valid = {c \in Cands : saw[c].status \in ValidStatus}
                      /\ cancelled => result.valid # {}
                      /\ result.insensitive => \E d \in Data : \A c \in Cands : saw[c] = ReadOf(d)
    BY DEF ResultIsTrue
  <2>1. \A c \in Cands : job[c] \in {"none", "done"}
    BY DEF IInv, Returned
  <2>2. /\ result.valid = {c \in Cands : Probing /\ entry[c].status \in ValidStatus}
        /\ result.insensitive = (~Probing /\ Verdict)
    BY Zenon DEF IInv, Returned
  <2>3. ASSUME NEW c \in Cands
        PROVE  IF job[c] = "none"
               THEN (Done \/ c > maxJobs) /\ entry[c] = IF Probing THEN Zero ELSE Found("failed")
               ELSE entry[c] = saw[c]
    BY <2>1 DEF IInv, Entries
  <2>4. ASSUME Probing, NEW c \in Cands  PROVE entry[c] = saw[c]
    <3>1. job[c] = "none" => saw[c] = Zero
      BY DEF IInv, Entries
    <3> QED  BY <2>3, <2>4, <3>1
  <2>5. Probing => result.valid = {c \in Cands : saw[c].status \in ValidStatus}
    BY <2>2, <2>4, ZenonT(60)
  <2>6. cancelled => result.valid # {}
    <3> SUFFICES ASSUME cancelled PROVE result.valid # {}
      OBVIOUS
    <3>1. stop /\ \E c \in Cands : saw[c].status \in ValidStatus
      BY DEF IInv, Stopped
    <3>2. Probing
      BY <3>1 DEF IInv, Types, Probing
    <3> QED  BY <3>1, <3>2, <2>5
  <2>7. ASSUME result.insensitive  PROVE \E d \in Data : \A c \in Cands : saw[c] = ReadOf(d)
    <3>1. ~Probing /\ \E d \in Data : \A c \in Cands : entry[c] = ReadOf(d)
      BY <2>2, <2>7, ZenonT(60) DEF Verdict, Same
    <3>2. PICK d \in Data : \A c \in Cands : entry[c] = ReadOf(d)
      BY <3>1
    <3>3. Found("failed") # ReadOf(d)
      <4>1. Found("failed").status = "failed" /\ ReadOf(d).status = "success"
        BY ZenonT(60) DEF Found, ReadOf
      <4> QED  BY <4>1
    <3>4. ASSUME NEW c \in Cands  PROVE saw[c] = ReadOf(d)
      BY <2>3, <3>1, <3>2, <3>3
    <3> QED  BY <3>4
  <2> QED  BY <2>3, <2>5, <2>6, <2>7, ZenonT(60)
<1> QED  BY <1>1, Invariance, PTL

=============================================================================
