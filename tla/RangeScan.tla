------------------------------ MODULE RangeScan ------------------------------
(***************************************************************************)
(* ProbeReadableRanges (client/rangescan.go): one probe per offset of a    *)
(* range, each made of repeated reads and of retries, and the spans that   *)
(* ConsolidateSpans makes of the probes.                                   *)
(*                                                                         *)
(* ReadArea is one step (AreaTransfer has its chunks) with any outcome: a  *)
(* status and, for a success, data.  The history variables repeats and     *)
(* retries keep what the reads of every offset returned.                   *)
(***************************************************************************)
EXTENDS Naturals, Sequences, SequencesExt

CONSTANTS
  Requests,  \* the requests: [Start, End, Step, ProbeSize, Repeat, Retries]
  Data,      \* what a read may return, 0 for nothing but zero bytes
  Failures   \* the statuses a read may have instead of success

ASSUME RangeAssumption ==
  /\ \A r \in Requests : r \in [Start : Nat, End : Nat, Step : Nat, ProbeSize : Nat,
                                Repeat : Nat, Retries : Nat]
  /\ Failures # {} /\ Failures \cap {"success", "inconclusive"} = {}

VARIABLES
  req,       \* the request
  connected, \* Client.conn is not nil when the call looks
  ctxDone,   \* has the context ended?
  pc,        \* "call", "next", "repeat", "retry" or "done"
  k,         \* the index of the offset
  reads,     \* the reads of the current phase of this offset
  result,    \* obs.Result after the repeated reads
  repeats, retries,
  probes,    \* the observations
  spans,     \* Spans of the result
  err        \* the error returned

vars == <<req, connected, ctxDone, pc, k, reads, result, repeats, retries, probes, spans, err>>

Init ==
  /\ req \in Requests /\ connected \in BOOLEAN /\ ctxDone = FALSE
  /\ pc = "call" /\ k = 1 /\ reads = <<>> /\ result = <<>>
  /\ repeats = <<>> /\ retries = <<>> /\ probes = <<>> /\ spans = <<>> /\ err = "none"

-----------------------------------------------------------------------------
(* The request *)

Valid == req.Start <= req.End

step ==
  CASE req.Step > 0 -> req.Step
    [] req.Step = 0 /\ req.ProbeSize > 0 -> req.ProbeSize
    [] OTHER -> 1

probeSize == IF req.ProbeSize > 0 THEN req.ProbeSize ELSE 8

offsets == [j \in 1..((req.End + step - 1 - req.Start) \div step) |-> req.Start + (j - 1) * step]

-----------------------------------------------------------------------------
(* ConsolidateSpans *)

\* The pointer to a bool of an observation or a span is a set, {} for nil.

\* Mutant: the first value stands for all.
MergeFirst(values) == IF values = <<>> THEN {} ELSE Head(values)

\* The value all agree on; nil when they differ, or there is none.
Merge(values) ==
  LET set == UNION ToSet(values)
  IN IF set \in {{TRUE}, {FALSE}} THEN set ELSE {}

NewSpan(o) == [start |-> o.offset, end |-> o.offset + probeSize, status |-> o.status,
               last |-> o.offset, stable |-> <<o.stable>>, allZero |-> <<o.allZero>>]

\* Mutant: a probe joins where the bytes of the span end.
JoinsAtEnd(s, o) == o.status = s.status /\ o.offset = s.end

\* The probe o goes on where the span s ends.
Joins(s, o) == o.status = s.status /\ o.offset = s.last + step

Extend(s, o) ==
  [s EXCEPT !.end = o.offset + probeSize, !.last = o.offset,
            !.stable = Append(@, o.stable), !.allZero = Append(@, o.allZero)]

AddProbe(ss, o) ==
  IF ss # <<>> /\ Joins(Last(ss), o) THEN Append(Front(ss), Extend(Last(ss), o))
  ELSE Append(ss, NewSpan(o))

\* The runs of probes of one status, one step apart, each with the Stable
\* and AllZero its probes agree on.
ConsolidateSpans(observations) ==
  LET runs == FoldLeft(AddProbe, <<>>, observations)
  IN [j \in DOMAIN runs |->
        [start |-> runs[j].start, end |-> runs[j].end, status |-> runs[j].status,
         stable |-> Merge(runs[j].stable), allZero |-> Merge(runs[j].allZero)]]

-----------------------------------------------------------------------------
(* probeOneOffset *)

Success(d) == [status |-> "success", data |-> <<d>>]
Failed(status) == [status |-> status, data |-> <<>>]
Reads == {Success(d) : d \in Data} \cup {Failed(s) : s \in Failures}

\* newFailedReadResult of the context's error.
CtxFailures == {Failed(s) : s \in Failures \cap {"timeout", "transport-error"}}

Repeat == IF req.Repeat > 1 THEN req.Repeat ELSE 1

\* Not all with the same status and the same bytes.
Mixed(rs) == \E j \in DOMAIN rs : rs[j] # rs[1]

Observation(status, stable, allZero) ==
  [offset |-> offsets[k], status |-> status, stable |-> stable, allZero |-> allZero]

\* The probe is over; the retries are rs.
Observe(o, rs) ==
  /\ probes' = Append(probes, o) /\ retries' = Append(retries, rs)
  /\ k' = k + 1 /\ pc' = "next" /\ reads' = <<>>

\* Stable and AllZero are set when there was more than one repeated read.
Complete(status, rep, rs) ==
  IF req.Repeat > 1
  THEN Observe(Observation(status, {~Mixed(rep)}, {ToSet(rep) = {Success(0)}}), rs)
  ELSE Observe(Observation(status, {}, {}), rs)

\* Mixed results of a phase make the probe inconclusive.
Settle(status, rs) == IF Mixed(rs) THEN "inconclusive" ELSE status

\* One repeated read; after the last one the retries, if there are any.
RepeatRead ==
  /\ pc = "repeat" /\ ~ctxDone
  /\ \E o \in Reads :
       LET all == Append(reads, o) IN
       IF Len(all) < Repeat
       THEN reads' = all /\ UNCHANGED <<pc, k, result, repeats, retries, probes>>
       ELSE /\ repeats' = Append(repeats, all)
            /\ result' = Settle(o.status, all)
            /\ IF req.Retries > 0
               THEN pc' = "retry" /\ reads' = <<>> /\ UNCHANGED <<k, retries, probes>>
               ELSE Complete(result', all, <<>>)
  /\ UNCHANGED <<req, connected, ctxDone, spans, err>>

\* Mutant: one attempt too many.
MoreRetriesOff(rs) == Len(rs) <= req.Retries + 1

\* for attempt := 0; attempt <= req.Retries
MoreRetries(rs) == Len(rs) <= req.Retries

RetryRead ==
  /\ pc = "retry" /\ ~ctxDone
  /\ \E o \in Reads :
       LET all == Append(reads, o) IN
       IF MoreRetries(all)
       THEN reads' = all /\ UNCHANGED <<pc, k, retries, probes>>
       ELSE Complete(Settle(result, all), Last(repeats), all)
  /\ UNCHANGED <<req, connected, ctxDone, result, repeats, spans, err>>

\* The context has ended: the probe is the failure that this is, without
\* Stable and AllZero.
ProbeCut ==
  /\ pc \in {"repeat", "retry"} /\ ctxDone
  /\ \E f \in CtxFailures : Observe(Observation(f.status, {}, {}), reads)
  /\ repeats' = IF pc = "repeat" THEN Append(repeats, reads) ELSE repeats
  /\ UNCHANGED <<req, connected, ctxDone, result, spans, err>>

-----------------------------------------------------------------------------
(* ProbeReadableRanges *)

Call ==
  /\ pc = "call"
  /\ err' = CASE ~Valid -> "validation"
              [] Valid /\ offsets # <<>> /\ ~connected -> "not_connected"
              [] OTHER -> "none"
  /\ pc' = IF err' = "none" THEN "next" ELSE "done"
  /\ UNCHANGED <<req, connected, ctxDone, k, reads, result, repeats, retries, probes, spans>>

\* The next offset; an ended context returns without probes and spans.
NextOffset ==
  /\ pc = "next" /\ k <= Len(offsets)
  /\ IF ctxDone THEN pc' = "done" /\ err' = "ctx" /\ probes' = <<>>
     ELSE pc' = "repeat" /\ UNCHANGED <<err, probes>>
  /\ UNCHANGED <<req, connected, ctxDone, k, reads, result, repeats, retries, spans>>

Finish ==
  /\ pc = "next" /\ k > Len(offsets)
  /\ pc' = "done" /\ spans' = ConsolidateSpans(probes)
  /\ UNCHANGED <<req, connected, ctxDone, k, reads, result, repeats, retries, probes, err>>

CtxEnds ==
  /\ ~ctxDone /\ ctxDone' = TRUE
  /\ UNCHANGED <<req, connected, pc, k, reads, result, repeats, retries, probes, spans, err>>

Next == Call \/ NextOffset \/ RepeatRead \/ RetryRead \/ ProbeCut \/ Finish \/ CtxEnds

Spec == Init /\ [][Next]_vars

-----------------------------------------------------------------------------
(* Properties *)

Bytes(from, to) == from..(to - 1)

\* The variables keep their types.
TypeOK ==
  /\ pc \in {"call", "next", "repeat", "retry", "done"} /\ k \in 1..(Len(offsets) + 1)
  /\ Len(reads) <= IF pc = "repeat" THEN Repeat - 1 ELSE req.Retries
  /\ \A o \in ToSet(probes) : o.status \in Failures \cup {"success", "inconclusive"}
  /\ err \in {"none", "validation", "not_connected", "ctx"}

\* The spans say of every byte what the probes say of it: a byte is in a span
\* of a status exactly when a probe with that status has read it, and the
\* spans are in order, two neighbours with different statuses.  Probes that
\* leave gaps (Step > ProbeSize) are not covered: their spans bridge the gaps.
SpansExact ==
  pc = "done" /\ step <= probeSize =>
    /\ \A j \in 1..(Len(spans) - 1) :
         spans[j].start < spans[j + 1].start /\ spans[j].status # spans[j + 1].status
    /\ \A b \in 0..(req.End + probeSize), s \in Failures \cup {"success", "inconclusive"} :
         (\E p \in ToSet(spans) : p.status = s /\ b \in Bytes(p.start, p.end)) <=>
         (err = "none" /\ \E o \in ToSet(probes) : o.status = s /\ b \in Bytes(o.offset, o.offset + probeSize))

\* What the reads contradict is not reported as certain: a status other than
\* inconclusive is one that no repeated read, and no two retries, contradict,
\* unless the context ended in the middle of the probe; and a span that is
\* called stable holds no probe whose repeated reads differed.
CertainIsAgreed ==
  /\ \A j \in DOMAIN probes :
       probes[j].status # "inconclusive" /\ ~ctxDone => ~Mixed(repeats[j]) /\ ~Mixed(retries[j])
  /\ \A p \in ToSet(spans), j \in DOMAIN probes :
       /\ p.stable = {TRUE} /\ p.status = probes[j].status /\ probes[j].stable # {}
       /\ p.start <= probes[j].offset /\ probes[j].offset + probeSize <= p.end
       => ~Mixed(repeats[j])

=============================================================================
