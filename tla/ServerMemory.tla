---------------------------- MODULE ServerMemory -----------------------------
(***************************************************************************)
(* The sessions of the server (server/session.go) and the memory they     *)
(* share with each other and with the host (server/memory.go).  A Read Var *)
(* job takes the memory's lock for reading, a Write Var job for writing,   *)
(* and both go through their items one by one, so that each item is a step *)
(* of its own here: the sessions interleave wherever the lock lets them.   *)
(*                                                                         *)
(* How connections come and go is ServerLifecycle's subject; how a client  *)
(* splits a transfer into jobs is AreaTransfer's.                          *)
(***************************************************************************)
EXTENDS VarJobs, FiniteSets

CONSTANTS
  Sessions,     \* the sessions (connections) of the server
  NoSession,    \* no session
  Requests,     \* the requests a session may receive
  InitRegions,  \* the areas registered before the server starts
  Registers,    \* the host's Register calls: [area, db, data, readOnly]
  HostWrites,   \* the host's Write calls: [area, db, start, data]
  MaxPDUSize,   \* Config.MaxPDUSize
  None          \* no request, no answer

ASSUME SessionsAssumption == NoSession \notin Sessions
ASSUME MaxPDUSizeAssumption == MaxPDUSize \in Nat
ASSUME RequestsAssumption == \A r \in Requests : IsRequest(r)
ASSUME HostAssumption ==
  /\ IsMemory(InitRegions)
  /\ Registers \subseteq RegisterCall /\ HostWrites \subseteq WriteCall

VARIABLES
  regions,      \* memory.regions
  readers,      \* the sessions that hold memory.mu for reading
  writer,       \* the session that has or waits for memory.mu for writing, or NoSession
  pduSize,      \* session -> session.pduSize
  st,           \* session -> where its serveConn loop is
  req,          \* session -> the request in handle
  next,         \* session -> the item the loop of read or write is at
  used,         \* session -> read's local used
  results,      \* session -> the results or codes, made for all items at the start
  answer,       \* session -> what handle returned
  locked        \* history: the memory when the writer took the lock (else InitRegions)

vars == <<regions, readers, writer, pduSize, st, req, next, used, results, answer, locked>>
memVars == <<regions, readers, writer, locked>>
jobVars == <<next, used, results>>

-----------------------------------------------------------------------------
Init ==
  /\ regions = InitRegions /\ locked = InitRegions
  /\ readers = {} /\ writer = NoSession
  /\ pduSize = [s \in Sessions |-> MaxPDUSize]
  /\ st = [s \in Sessions |-> "idle"]
  /\ req = [s \in Sessions |-> None]
  /\ next = [s \in Sessions |-> 1]
  /\ used = [s \in Sessions |-> 0]
  /\ results = [s \in Sessions |-> <<>>]
  /\ answer = [s \in Sessions |-> None]

\* handle up to the lock: a request that is not a memory job is answered, or
\* drops the connection.
handle(s) ==
  /\ st[s] = "idle"
  /\ \E r \in Requests :
       /\ req' = [req EXCEPT ![s] = r]
       /\ pduSize' = [pduSize EXCEPT ![s] = PDUSizeAfter(r, @, MaxPDUSize)]
       /\ \/ /\ TouchesMemory(r)
             /\ st' = [st EXCEPT ![s] = "lock"]
             /\ UNCHANGED answer
          \/ /\ Dropped(r)
             /\ st' = [st EXCEPT ![s] = "dropped"]
             /\ UNCHANGED answer
          \/ /\ ~TouchesMemory(r) /\ ~Dropped(r)
             /\ st' = [st EXCEPT ![s] = "reply"]
             /\ answer' = [answer EXCEPT ![s] = AnsweredAtOnce(r, MaxPDUSize)]
  /\ UNCHANGED <<memVars, jobVars>>

\* The zero ReadVarResult or code a result is made with.
Zero == [code |-> "zero", data |-> <<>>]

\* The loops start: no item done, the answer's header counted.
StartItems(s) ==
  /\ st' = [st EXCEPT ![s] = "items"]
  /\ next' = [next EXCEPT ![s] = 1]
  /\ used' = [used EXCEPT ![s] = AckDataHeaderSize + 2]
  /\ results' = [results EXCEPT ![s] = [i \in 1..Len(req[s].specs) |-> Zero]]
  /\ UNCHANGED <<regions, pduSize, req, answer>>

\* read: mem.mu.RLock() returns.
RLock(s) ==
  /\ st[s] = "lock" /\ req[s].kind = "read"
  /\ writer = NoSession
  /\ readers' = readers \cup {s}
  /\ StartItems(s)
  /\ UNCHANGED <<writer, locked>>

\* write calls mem.mu.Lock(): RWMutex lets one writer in at a time, and no
\* new reader from now on.
Lock(s) ==
  /\ st[s] = "lock" /\ req[s].kind = "write"
  /\ writer = NoSession
  /\ writer' = s /\ locked' = regions
  /\ st' = [st EXCEPT ![s] = "drain"]
  /\ UNCHANGED <<regions, readers, jobVars, pduSize, req, answer>>

\* Mutant: write takes the lock for reading.
LockedAtOnce(s) ==
  /\ st[s] = "drain"
  /\ StartItems(s)
  /\ UNCHANGED <<readers, writer, locked>>

\* mem.mu.Lock() returns when the last reader has left.
Locked(s) ==
  /\ st[s] = "drain" /\ readers = {}
  /\ StartItems(s)
  /\ UNCHANGED <<readers, writer, locked>>

\* read or write returns: the deferred unlock runs, handle returns a.
Return(s, a) ==
  /\ answer' = [answer EXCEPT ![s] = a]
  /\ st' = [st EXCEPT ![s] = "reply"]
  /\ next' = [next EXCEPT ![s] = 1]
  /\ used' = [used EXCEPT ![s] = 0]
  /\ results' = [results EXCEPT ![s] = <<>>]
  /\ readers' = readers \ {s}
  /\ writer' = IF writer = s THEN NoSession ELSE writer
  /\ locked' = IF writer = s THEN InitRegions ELSE locked
  /\ UNCHANGED <<regions, pduSize, req>>

\* Mutant: read counts no fill byte.
ItemNeedUnpadded(spec, r, last) == 4 + Len(r.data)

\* What read adds to used for an item.
ItemNeed(spec, r, last) ==
  LET need == IF r.code # "Success" THEN 4
              ELSE IF spec.syntax = "DBREAD" THEN 4 + Len(r.data)
              ELSE IF target(spec).isBit THEN 5
              ELSE 4 + target(spec).size
  IN IF ~last /\ need % 2 # 0 THEN need + 1 ELSE need

\* Does read check used right after the item?  Not after one resolve refused.
ItemChecked(spec, r) == spec.syntax = "DBREAD" \/ r.code = "Success"

\* One item of read's loop; an answer grown past the PDU size refuses the job.
ReadVarItem(s) ==
  /\ st[s] = "items" /\ req[s].kind = "read"
  /\ next[s] <= Len(req[s].specs)
  /\ LET spec == req[s].specs[next[s]]
         r == ReadItem(regions, spec)
         u == used[s] + ItemNeed(spec, r, next[s] = Len(req[s].specs))
     IN IF ItemChecked(spec, r) /\ u > pduSize[s] THEN Return(s, Refused("8500"))
        ELSE /\ results' = [results EXCEPT ![s][next[s]] = r]
             /\ used' = [used EXCEPT ![s] = u]
             /\ next' = [next EXCEPT ![s] = @ + 1]
             /\ UNCHANGED <<memVars, pduSize, st, req, answer>>

\* read after its loop.
ReadVarDone(s) ==
  /\ st[s] = "items" /\ req[s].kind = "read"
  /\ next[s] > Len(req[s].specs)
  /\ Return(s, IF used[s] > pduSize[s] THEN Refused("8500") ELSE Ok(results[s]))

\* Mutant: writeItem looks at the area's kind and not at readOnly.
WriteVarItemUnguarded(s) ==
  /\ st[s] = "items" /\ req[s].kind = "write"
  /\ next[s] <= Len(req[s].specs)
  /\ LET spec == req[s].specs[next[s]]
         key == keyOf(spec.area, spec.db)
         data == req[s].data[next[s]]
         open == IF key \in DOMAIN regions THEN [regions EXCEPT ![key].readOnly = FALSE] ELSE regions
         mem == WriteItem(open, spec, data)
     IN /\ regions' = [k \in DOMAIN regions |-> [regions[k] EXCEPT !.data = mem[k].data]]
        /\ results' = [results EXCEPT ![s][next[s]] = [code |-> WriteCode(open, spec, data), data |-> <<>>]]
  /\ next' = [next EXCEPT ![s] = @ + 1]
  /\ UNCHANGED <<readers, writer, locked, used, pduSize, st, req, answer>>

\* One item of write's loop.
WriteVarItem(s) ==
  /\ st[s] = "items" /\ req[s].kind = "write"
  /\ next[s] <= Len(req[s].specs)
  /\ LET spec == req[s].specs[next[s]]
         data == req[s].data[next[s]]
     IN /\ regions' = WriteItem(regions, spec, data)
        /\ results' = [results EXCEPT ![s][next[s]] = [code |-> WriteCode(regions, spec, data), data |-> <<>>]]
  /\ next' = [next EXCEPT ![s] = @ + 1]
  /\ UNCHANGED <<readers, writer, locked, used, pduSize, st, req, answer>>

\* Mutant: the unlock is not deferred and write returns without it.
WriteVarDoneLocked(s) ==
  /\ st[s] = "items" /\ req[s].kind = "write"
  /\ next[s] > Len(req[s].specs)
  /\ answer' = [answer EXCEPT ![s] = Ok(results[s])]
  /\ st' = [st EXCEPT ![s] = "reply"]
  /\ UNCHANGED <<memVars, jobVars, pduSize, req>>

\* write after its loop.
WriteVarDone(s) ==
  /\ st[s] = "items" /\ req[s].kind = "write"
  /\ next[s] > Len(req[s].specs)
  /\ Return(s, Ok(results[s]))

\* serveConn sends the answer and waits for the next request.
Reply(s) ==
  /\ st[s] = "reply"
  /\ st' = [st EXCEPT ![s] = "idle"]
  /\ req' = [req EXCEPT ![s] = None]
  /\ answer' = [answer EXCEPT ![s] = None]
  /\ UNCHANGED <<memVars, jobVars, pduSize>>

\* The host calls RegisterDB or RegisterArea, under the lock.
HostRegister ==
  /\ readers = {} /\ writer = NoSession
  /\ \E r \in Registers : regions' = register(regions, r)
  /\ UNCHANGED <<readers, writer, locked, jobVars, pduSize, st, req, answer>>

\* The host calls Write, under the lock.
HostWrite ==
  /\ readers = {} /\ writer = NoSession
  /\ \E w \in HostWrites : regions' = write(regions, w)
  /\ UNCHANGED <<readers, writer, locked, jobVars, pduSize, st, req, answer>>

JobStep(s) ==
  \/ RLock(s) \/ ReadVarItem(s) \/ ReadVarDone(s)
  \/ Lock(s) \/ Locked(s) \/ WriteVarItem(s) \/ WriteVarDone(s)

Next ==
  \/ \E s \in Sessions : handle(s) \/ JobStep(s) \/ Reply(s)
  \/ HostRegister \/ HostWrite

Spec == Init /\ [][Next]_vars

\* The goroutine of a connection runs on, and sync.RWMutex starves nobody:
\* Unlock lets in the readers that wait, and the writers take turns.
Fairness ==
  \A s \in Sessions :
    /\ SF_vars(RLock(s) \/ Lock(s))
    /\ WF_vars(Locked(s) \/ ReadVarItem(s) \/ ReadVarDone(s) \/ WriteVarItem(s) \/ WriteVarDone(s))

FairSpec == Spec /\ Fairness

-----------------------------------------------------------------------------
(* Properties *)

\* Every variable has its type: a client cannot make the memory hold anything
\* but registered areas of bytes, nor a session any PDU size above its own.
TypeOK ==
  /\ IsMemory(regions)
  /\ readers \subseteq Sessions /\ writer \in Sessions \cup {NoSession}
  /\ pduSize \in [Sessions -> 0..MaxPDUSize]
  /\ st \in [Sessions -> {"idle", "lock", "drain", "items", "reply", "dropped"}]
  /\ req \in [Sessions -> Requests \cup {None}]
  /\ next \in [Sessions -> Nat \ {0}]
  /\ used \in [Sessions -> Nat]
  /\ \A s \in Sessions : results[s] = [i \in DOMAIN results[s] |-> results[s][i]]

\* However the sessions and the host interleave, what a Read Var job has
\* gathered so far is what the memory holds now: no item of one answer is
\* older than another (read holds mem.mu for the whole job).
ReadsOneState ==
  \A s \in Sessions : st[s] = "items" /\ req[s].kind = "read" =>
    \A i \in 1..next[s] - 1 : results[s][i] = ReadItem(regions, req[s].specs[i])

\* An answer to Read Var that is not a refusal fits the session's PDU size:
\* what read counts in used is what EncodeReadVarResponse builds.
AnswerFitsPDU ==
  \A s \in Sessions :
    st[s] = "reply" /\ req[s].kind = "read" /\ answer[s].header = "ok" =>
      ReadAnswerSize(answer[s].items) <= pduSize[s]

\* Only the host changes a read-only area or a timer or counter, and nobody
\* removes an area or changes its size or its options.
ProtectedFromClients ==
  [][\A k \in DOMAIN regions :
       /\ k \in DOMAIN regions'
       /\ regions'[k].readOnly = regions[k].readOnly
       /\ Len(regions'[k].data) = Len(regions[k].data)
       /\ regions[k].readOnly \/ timerOrCounter(k[1]) =>
            regions'[k] = regions[k] \/ HostWrite]_vars

\* The memory as the other sessions see it: a writer's changes appear when
\* it unlocks.
Visible == IF writer = NoSession THEN regions ELSE locked

Atomic == INSTANCE AtomicMemory WITH
  regions <- Visible,
  st <- [s \in Sessions |-> IF st[s] \in {"lock", "drain", "items"} THEN "job" ELSE st[s]]

\* "a multi-item request sees and changes memory as one step"
\* (server/memory.go:80-81): the item-by-item jobs implement AtomicMemory.
AtomicJobs == Atomic!Spec

\* Every Read Var and Write Var job is answered, whatever the others do.
JobAnswered ==
  \A s \in Sessions : st[s] = "lock" ~> st[s] = "reply"

=============================================================================
