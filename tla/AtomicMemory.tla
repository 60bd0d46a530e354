---------------------------- MODULE AtomicMemory -----------------------------
(***************************************************************************)
(* What server/memory.go promises of the memory the connections share:    *)
(* "One lock guards all of them, so a multi-item request sees and changes *)
(* memory as one step."  Every Read Var and Write Var job is one step on   *)
(* the whole memory; ServerMemory, which takes the jobs item by item under *)
(* the lock, implements this specification.                                *)
(***************************************************************************)
EXTENDS VarJobs

CONSTANTS
  Sessions,     \* the sessions (connections) of the server
  Requests,     \* the requests a session may receive
  InitRegions,  \* the areas registered before the server starts
  Registers,    \* the host's Register calls: [area, db, data, readOnly]
  HostWrites,   \* the host's Write calls: [area, db, start, data]
  MaxPDUSize,   \* Config.MaxPDUSize
  None          \* no request, no answer

VARIABLES
  regions,      \* the server's memory
  pduSize,      \* session -> its PDU size
  st,           \* session -> "idle", "job", "reply", "dropped"
  req,          \* session -> the request being answered
  answer        \* session -> the answer to be sent

vars == <<regions, pduSize, st, req, answer>>

Init ==
  /\ regions = InitRegions
  /\ pduSize = [s \in Sessions |-> MaxPDUSize]
  /\ st = [s \in Sessions |-> "idle"]
  /\ req = [s \in Sessions |-> None]
  /\ answer = [s \in Sessions |-> None]

\* A request arrives; one that touches no memory is answered at once.
Receive(s) ==
  /\ st[s] = "idle"
  /\ \E r \in Requests :
       /\ req' = [req EXCEPT ![s] = r]
       /\ pduSize' = [pduSize EXCEPT ![s] = PDUSizeAfter(r, @, MaxPDUSize)]
       /\ \/ /\ TouchesMemory(r)
             /\ st' = [st EXCEPT ![s] = "job"]
             /\ UNCHANGED answer
          \/ /\ Dropped(r)
             /\ st' = [st EXCEPT ![s] = "dropped"]
             /\ UNCHANGED answer
          \/ /\ ~TouchesMemory(r) /\ ~Dropped(r)
             /\ st' = [st EXCEPT ![s] = "reply"]
             /\ answer' = [answer EXCEPT ![s] = AnsweredAtOnce(r, MaxPDUSize)]
  /\ UNCHANGED regions

\* A whole Read Var job: every item sees the same memory.
Read(s) ==
  /\ st[s] = "job" /\ req[s].kind = "read"
  /\ st' = [st EXCEPT ![s] = "reply"]
  /\ answer' = [answer EXCEPT ![s] = ReadJob(regions, req[s].specs, pduSize[s])]
  /\ UNCHANGED <<regions, pduSize, req>>

\* A whole Write Var job: nobody sees the memory between two of its items.
Write(s) ==
  /\ st[s] = "job" /\ req[s].kind = "write"
  /\ st' = [st EXCEPT ![s] = "reply"]
  /\ regions' = AfterWrites(regions, req[s].specs, req[s].data, Len(req[s].specs))
  /\ answer' = [answer EXCEPT ![s] = WriteJob(regions, req[s].specs, req[s].data)]
  /\ UNCHANGED <<pduSize, req>>

Reply(s) ==
  /\ st[s] = "reply"
  /\ st' = [st EXCEPT ![s] = "idle"]
  /\ req' = [req EXCEPT ![s] = None]
  /\ answer' = [answer EXCEPT ![s] = None]
  /\ UNCHANGED <<regions, pduSize>>

\* The host registers an area it has not registered yet.
HostRegister ==
  \E r \in Registers : regions' = register(regions, r)

\* The host writes an area; a read-only area too.
HostWrite ==
  \E w \in HostWrites : regions' = write(regions, w)

Next ==
  \/ \E s \in Sessions : Receive(s) \/ Read(s) \/ Write(s) \/ Reply(s)
  \/ (HostRegister \/ HostWrite) /\ UNCHANGED <<pduSize, st, req, answer>>

Spec == Init /\ [][Next]_vars

=============================================================================
