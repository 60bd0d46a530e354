-------------------------- MODULE ServerMemoryProofs --------------------------
(***************************************************************************)
(* Proofs about the server's memory and its sessions, for any number of    *)
(* sessions, any requests, any memory and any calls of the host.           *)
(*                                                                         *)
(* First the lock alone: the items of a Read Var job see one state of the  *)
(* memory (IInv; nothing of what an item reads or writes is used).  Then   *)
(* what the jobs do under it (WInv): what read counts is the size of the   *)
(* answer, and what write leaves is what its items, in order, make of the  *)
(* memory it found.  From both: the types, that an answer fits the PDU     *)
(* size, what a client may not change, and that the jobs implement         *)
(* AtomicMemory.                                                           *)
(***************************************************************************)
EXTENDS ServerMemory, VarJobsProofs

States == {"idle", "lock", "drain", "items", "reply", "dropped"}

\* The types the argument needs.
Shape ==
  /\ readers \subseteq Sessions
  /\ writer \in Sessions \cup {NoSession}
  /\ st \in [Sessions -> States]
  /\ next \in [Sessions -> Nat \ {0}]
  /\ req = [s \in Sessions |-> req[s]]

\* Each session's results are an array.
Arrays ==
  /\ results = [s \in Sessions |-> results[s]]
  /\ \A s \in Sessions : results[s] = [i \in DOMAIN results[s] |-> results[s][i]]

\* The lock is held by exactly the sessions inside the locked part of read
\* and write; a writer at its items is alone.
LockDiscipline ==
  /\ \A s \in Sessions : s \in readers <=> (st[s] = "items" /\ req[s].kind = "read")
  /\ \A s \in Sessions : writer = s <=> (st[s] \in {"drain", "items"} /\ req[s].kind = "write")
  /\ \A s \in Sessions : st[s] \in {"lock", "drain", "items"} => req[s].kind \in {"read", "write"}
  /\ \A s \in Sessions : st[s] = "drain" => req[s].kind = "write"
  /\ \A s \in Sessions : st[s] = "items" /\ req[s].kind = "write" => readers = {}

\* The results array of a session at its items has one entry for each item.
Made ==
  \A s \in Sessions : st[s] = "items" => DOMAIN results[s] = 1..Len(req[s].specs)

IInv == Shape /\ Arrays /\ LockDiscipline /\ Made /\ ReadsOneState

\* The initial state: every session is idle and nobody holds the lock.
LEMMA InitIInv == Init => IInv
  BY SessionsAssumption DEF Init, IInv, Shape, Arrays, States, LockDiscipline, Made, ReadsOneState

\* Making a new array for a session keeps every session's an array.
LEMMA ArraysSet ==
  ASSUME Arrays, NEW s \in Sessions, NEW f, f = [i \in DOMAIN f |-> f[i]],
         results' = [results EXCEPT ![s] = f]
  PROVE  Arrays'
<1>1. results' = [x \in Sessions |-> results'[x]]
  BY DEF Arrays
<1>2. ASSUME NEW x \in Sessions
      PROVE  results'[x] = [i \in DOMAIN results'[x] |-> results'[x][i]]
  <2>1. CASE x = s
    <3>1. results'[x] = f
      BY <2>1, ZenonT(60) DEF Arrays
    <3> QED  BY <3>1, ZenonT(60)
  <2>2. CASE x # s
    <3>1. results'[x] = results[x]
      BY <2>2, ZenonT(60) DEF Arrays
    <3>2. results[x] = [i \in DOMAIN results[x] |-> results[x][i]]
      BY DEF Arrays
    <3> QED  BY <3>1, <3>2, ZenonT(60)
  <2> QED  BY <2>1, <2>2, ZenonT(60)
<1> QED  BY <1>1, <1>2, ZenonT(60) DEF Arrays

\* Storing one result changes that entry of that session and no other.
LEMMA ArraysStore ==
  ASSUME Arrays, NEW s \in Sessions, NEW k \in DOMAIN results[s], NEW r,
         results' = [results EXCEPT ![s][k] = r]
  PROVE  /\ Arrays'
         /\ \A x \in Sessions \ {s} : results'[x] = results[x]
         /\ DOMAIN results'[s] = DOMAIN results[s]
         /\ results'[s][k] = r
         /\ \A i \in DOMAIN results[s] \ {k} : results'[s][i] = results[s][i]
<1> DEFINE f == [results[s] EXCEPT ![k] = r]
<1>1. results' = [results EXCEPT ![s] = f]
  OBVIOUS
<1>2. f = [i \in DOMAIN f |-> f[i]]
  OBVIOUS
<1>3. /\ DOMAIN f = DOMAIN results[s]
      /\ f[k] = r
      /\ \A i \in DOMAIN results[s] \ {k} : f[i] = results[s][i]
  OBVIOUS
<1> HIDE DEF f
<1>4. Arrays'
  BY <1>1, <1>2, ArraysSet, Zenon
<1>5. results'[s] = f /\ \A x \in Sessions \ {s} : results'[x] = results[x]
  BY <1>1, ZenonT(60) DEF Arrays
<1> QED  BY <1>3, <1>4, <1>5, ZenonT(60)

\* handle touches no job that is under way.
LEMMA HandleKeeps ==
  ASSUME IInv, NEW s \in Sessions, handle(s)  PROVE IInv'
<1>1. PICK r \in Requests :
         /\ st[s] = "idle"
         /\ req' = [req EXCEPT ![s] = r]
         /\ \/ TouchesMemory(r) /\ st' = [st EXCEPT ![s] = "lock"]
            \/ st' = [st EXCEPT ![s] = "dropped"]
            \/ st' = [st EXCEPT ![s] = "reply"]
  BY Zenon DEF handle
<1>2. UNCHANGED <<regions, readers, writer, next, results>>
  BY DEF handle, memVars, jobVars
<1>3. Shape'
  BY <1>1, <1>2, ZenonT(60) DEF IInv, Shape, States
<1>4. LockDiscipline'
  BY <1>1, <1>2, SessionsAssumption, SMTT(30) DEF IInv, Shape, States, LockDiscipline, TouchesMemory
<1>5. Made'
  BY <1>1, <1>2, ZenonT(60) DEF IInv, Shape, States, Made
<1>6. ReadsOneState'
  BY <1>1, <1>2, ZenonT(60) DEF IInv, Shape, States, ReadsOneState
<1>7. Arrays'
  BY <1>2, ZenonT(60) DEF IInv, Arrays
<1> QED  BY <1>3, <1>4, <1>5, <1>6, <1>7, ZenonT(60) DEF IInv

\* A reader is let in only when there is no writer.
LEMMA RLockKeeps ==
  ASSUME IInv, NEW s \in Sessions, RLock(s)  PROVE IInv'
<1> USE DEF RLock, StartItems
<1>1. Shape'
  BY DEF IInv, Shape, States
<1>2. LockDiscipline'
  BY SessionsAssumption, ZenonT(60) DEF IInv, Shape, States, LockDiscipline
<1>3. Made'
  BY ZenonT(60) DEF IInv, Shape, Arrays, States, Made
<1>4. ReadsOneState'
  BY DEF IInv, Shape, Arrays, States, ReadsOneState
<1>5. Arrays'
  BY ArraysSet, Zenon DEF IInv
<1> QED  BY <1>1, <1>2, <1>3, <1>4, <1>5, ZenonT(60) DEF IInv

\* A writer announces itself only when there is no other.
LEMMA LockKeeps ==
  ASSUME IInv, NEW s \in Sessions, Lock(s)  PROVE IInv'
<1> USE DEF Lock, jobVars
<1>1. Shape'
  BY ZenonT(60) DEF IInv, Shape, States
<1>2. LockDiscipline'
  BY SessionsAssumption, ZenonT(60) DEF IInv, Shape, States, LockDiscipline
<1>3. Made'
  BY DEF IInv, Shape, States, Made
<1>4. ReadsOneState'
  BY DEF IInv, Shape, States, ReadsOneState
<1>5. Arrays'
  BY ZenonT(60) DEF IInv, Arrays
<1> QED  BY <1>1, <1>2, <1>3, <1>4, <1>5, ZenonT(60) DEF IInv

\* The writer starts when the readers have left.
LEMMA LockedKeeps ==
  ASSUME IInv, NEW s \in Sessions, Locked(s)  PROVE IInv'
<1> USE DEF Locked, StartItems
<1>1. Shape'
  BY DEF IInv, Shape, States
<1>2. LockDiscipline'
  BY SessionsAssumption, ZenonT(60) DEF IInv, Shape, States, LockDiscipline
<1>3. Made'
  BY ZenonT(60) DEF IInv, Shape, Arrays, States, Made
<1>4. ReadsOneState'
  BY DEF IInv, Shape, Arrays, States, LockDiscipline, ReadsOneState
<1>5. Arrays'
  BY ArraysSet, Zenon DEF IInv
<1> QED  BY <1>1, <1>2, <1>3, <1>4, <1>5, ZenonT(60) DEF IInv

\* Return leaves the locked part and gives the lock back.
LEMMA ReturnKeeps ==
  ASSUME IInv, NEW s \in Sessions, st[s] = "items", NEW a, Return(s, a)  PROVE IInv'
<1> USE DEF Return
<1>1. Shape'
  BY SessionsAssumption DEF IInv, Shape, States
<1>2. LockDiscipline'
  BY SessionsAssumption, ZenonT(60) DEF IInv, Shape, States, LockDiscipline
<1>3. Made'
  BY ZenonT(60) DEF IInv, Shape, Arrays, States, Made
<1>4. ReadsOneState'
  BY DEF IInv, Shape, Arrays, States, ReadsOneState
<1>5. Arrays'
  <2>1. <<>> = [i \in DOMAIN <<>> |-> <<>>[i]]
    OBVIOUS
  <2> QED  BY <2>1, ArraysSet, ZenonT(60) DEF IInv
<1> QED  BY <1>1, <1>2, <1>3, <1>4, <1>5, ZenonT(60) DEF IInv

\* A read item adds what the memory holds now.
LEMMA ReadVarItemKeeps ==
  ASSUME IInv, NEW s \in Sessions, ReadVarItem(s)  PROVE IInv'
<1>1. CASE Return(s, Refused("8500"))
  BY <1>1, ReturnKeeps, ZenonT(60) DEF ReadVarItem
<1>2. CASE ~Return(s, Refused("8500"))
  <2> DEFINE r == ReadItem(regions, req[s].specs[next[s]])
  <2>1. /\ st[s] = "items" /\ next[s] <= Len(req[s].specs)
        /\ results' = [results EXCEPT ![s][next[s]] = r]
        /\ next' = [next EXCEPT ![s] = @ + 1]
        /\ UNCHANGED <<regions, readers, writer, st, req>>
    BY <1>2, ZenonT(60) DEF ReadVarItem, memVars
  <2> HIDE DEF r
  <2>2. Shape'
    BY <2>1 DEF IInv, Shape, States
  <2>3. LockDiscipline'
    BY <2>1, ZenonT(60) DEF IInv, LockDiscipline
  <2>4. next[s] \in DOMAIN results[s] /\ DOMAIN results[s] = 1..Len(req[s].specs)
    BY <2>1 DEF IInv, Shape, Made
  <2>5. /\ Arrays'
        /\ \A x \in Sessions \ {s} : results'[x] = results[x]
        /\ DOMAIN results'[s] = DOMAIN results[s]
        /\ results'[s][next[s]] = r
        /\ \A i \in DOMAIN results[s] \ {next[s]} : results'[s][i] = results[s][i]
    BY <2>1, <2>4, ArraysStore, ZenonT(60) DEF IInv
  <2>6. Made'
    BY <2>1, <2>5, ZenonT(60) DEF IInv, Made
  <2>7. ReadsOneState'
    <3> SUFFICES ASSUME NEW x \in Sessions, st[x] = "items", req[x].kind = "read",
                        NEW i \in 1..next'[x] - 1
                 PROVE  results'[x][i] = ReadItem(regions, req[x].specs[i])
      BY <2>1, ZenonT(60) DEF ReadsOneState
    <3>1. CASE x # s
      BY <3>1, <2>1, <2>5, ZenonT(60) DEF IInv, Shape, ReadsOneState
    <3>2. CASE x = s /\ i = next[s]
      BY <3>2, <2>5, ZenonT(60) DEF r
    <3>3. CASE x = s /\ i # next[s]
      <4>1. i \in 1..next[s] - 1 /\ i \in DOMAIN results[s] \ {next[s]}
        BY <3>3, <2>1, <2>4, SMTT(30) DEF IInv, Shape
      <4>2. results[s][i] = ReadItem(regions, req[s].specs[i])
        BY <3>3, <4>1, ZenonT(60) DEF IInv, ReadsOneState
      <4> QED  BY <3>3, <4>1, <4>2, <2>5, ZenonT(60)
    <3> QED  BY <3>1, <3>2, <3>3, ZenonT(60)
  <2> QED  BY <2>2, <2>3, <2>5, <2>6, <2>7, ZenonT(60) DEF IInv
<1> QED  BY <1>1, <1>2, ZenonT(60)

\* While a writer works on the memory nobody reads it.
LEMMA WriteVarItemKeeps ==
  ASSUME IInv, NEW s \in Sessions, WriteVarItem(s)  PROVE IInv'
<1>1. PICK c :
        /\ st[s] = "items" /\ req[s].kind = "write"
        /\ next[s] <= Len(req[s].specs)
        /\ results' = [results EXCEPT ![s][next[s]] = c]
        /\ next' = [next EXCEPT ![s] = @ + 1]
        /\ UNCHANGED <<readers, writer, st, req>>
  BY Zenon DEF WriteVarItem
<1>2. Shape'
  BY <1>1 DEF IInv, Shape, States
<1>3. LockDiscipline'
  BY <1>1, ZenonT(60) DEF IInv, LockDiscipline
<1>4. Arrays' /\ Made'
  <2>1. next[s] \in DOMAIN results[s]
    BY <1>1 DEF IInv, Shape, Made
  <2>2. /\ Arrays'
        /\ \A x \in Sessions \ {s} : results'[x] = results[x]
        /\ DOMAIN results'[s] = DOMAIN results[s]
    BY <1>1, <2>1, ArraysStore, ZenonT(60) DEF IInv
  <2> QED  BY <1>1, <2>2, ZenonT(60) DEF IInv, Made
<1>5. \A x \in Sessions : ~(st[x] = "items" /\ req[x].kind = "read")
  BY <1>1, ZenonT(60) DEF IInv, LockDiscipline
<1>6. ReadsOneState'
  BY <1>1, <1>5, ZenonT(60) DEF ReadsOneState
<1> QED  BY <1>2, <1>3, <1>4, <1>6, ZenonT(60) DEF IInv

\* The host changes the memory only when no session holds the lock.
LEMMA HostKeeps ==
  ASSUME IInv, readers = {}, UNCHANGED <<readers, writer, next, results, st, req>>
  PROVE  IInv'
<1>1. \A x \in Sessions : ~(st[x] = "items" /\ req[x].kind = "read")
  BY ZenonT(60) DEF IInv, LockDiscipline
<1> QED
  BY <1>1, ZenonT(60) DEF IInv, Shape, Arrays, LockDiscipline, Made, ReadsOneState

\* Every step keeps the inductive invariant.
LEMMA NextIInv == IInv /\ [Next]_vars => IInv'
<1> SUFFICES ASSUME IInv, [Next]_vars PROVE IInv'
  BY ZenonT(60)
<1>1. CASE UNCHANGED vars
  BY <1>1, ZenonT(60) DEF vars, IInv, Shape, Arrays, LockDiscipline, Made, ReadsOneState
<1>2. ASSUME NEW s \in Sessions, handle(s)  PROVE IInv'
  BY <1>2, HandleKeeps, ZenonT(60)
<1>3. ASSUME NEW s \in Sessions, RLock(s)  PROVE IInv'
  BY <1>3, RLockKeeps, ZenonT(60)
<1>4. ASSUME NEW s \in Sessions, ReadVarItem(s)  PROVE IInv'
  BY <1>4, ReadVarItemKeeps
<1>5. ASSUME NEW s \in Sessions, ReadVarDone(s)  PROVE IInv'
  BY <1>5, ReturnKeeps, ZenonT(60) DEF ReadVarDone
<1>6. ASSUME NEW s \in Sessions, Lock(s)  PROVE IInv'
  BY <1>6, LockKeeps
<1>7. ASSUME NEW s \in Sessions, Locked(s)  PROVE IInv'
  BY <1>7, LockedKeeps
<1>8. ASSUME NEW s \in Sessions, WriteVarItem(s)  PROVE IInv'
  BY <1>8, WriteVarItemKeeps
<1>9. ASSUME NEW s \in Sessions, WriteVarDone(s)  PROVE IInv'
  BY <1>9, ReturnKeeps, ZenonT(60) DEF WriteVarDone
<1>10. ASSUME NEW s \in Sessions, Reply(s)  PROVE IInv'
  <2> USE <1>10 DEF Reply, memVars, jobVars
  <2>1. Shape'
    BY ZenonT(60) DEF IInv, Shape, States
  <2>2. LockDiscipline'
    BY SessionsAssumption, ZenonT(60) DEF IInv, Shape, States, LockDiscipline
  <2>3. Made'
    BY ZenonT(60) DEF IInv, Shape, States, Made
  <2>4. ReadsOneState'
    BY ZenonT(60) DEF IInv, Shape, States, ReadsOneState
  <2>5. Arrays'
    BY DEF IInv, Arrays
  <2> QED  BY <2>1, <2>2, <2>3, <2>4, <2>5, ZenonT(60) DEF IInv
<1>11. CASE HostRegister
  BY <1>11, HostKeeps, ZenonT(60) DEF HostRegister, jobVars
<1>12. CASE HostWrite
  BY <1>12, HostKeeps, ZenonT(60) DEF HostWrite, jobVars
<1> QED
  BY <1>1, <1>2, <1>3, <1>4, <1>5, <1>6, <1>7, <1>8, <1>9, <1>10, <1>11, <1>12, ZenonT(60)
  DEF Next, JobStep

\* The inductive invariant holds in every reachable state.
THEOREM Invariance == Spec => []IInv
  BY InitIInv, NextIInv, PTL DEF Spec

\* The readers of a Read Var job and the writer of a Write Var job exclude
\* each other: the lock of memory.go is held exactly from mem.mu.RLock or
\* mem.mu.Lock to the deferred unlock, on every way out of read and write.
THEOREM LockHeldForJob == Spec => []LockDiscipline
  BY Invariance, PTL DEF IInv

\* However sessions and host interleave, all items of one Read Var answer are
\* of one state of the memory (ReadsOneState), for any memory and requests.
THEOREM ReadersSeeOneState == Spec => []ReadsOneState
  BY Invariance, PTL DEF IInv

-----------------------------------------------------------------------------
(* What a job counts and writes *)

\* read counts in used what EncodeReadVarResponse builds.
LEMMA NeedIsSize ==
  ASSUME NEW regs, IsMemory(regs), NEW spec \in VarSpec, NEW last \in BOOLEAN
  PROVE  ItemNeed(spec, ReadItem(regs, spec), last) = ReadVarResultSize(ReadItem(regs, spec), last)
<1> DEFINE r == ReadItem(regs, spec)
           need == IF r.code # "Success" THEN 4
                   ELSE IF spec.syntax = "DBREAD" THEN 4 + Len(r.data)
                   ELSE IF target(spec).isBit THEN 5
                   ELSE 4 + target(spec).size
<1>1. Len(r.data) \in Nat
  BY ReadItemShape, SeqLength, ZenonT(60)
<1>2. need = 4 + Len(r.data)
  <2>1. CASE r.code # "Success"
    <3>1. r.data = <<>>
      BY <2>1, ReadItemShape, ZenonT(60)
    <3>2. Len(r.data) = 0
      BY <3>1, SeqEmpty, ZenonT(60)
    <3> HIDE DEF r
    <3> QED  BY <2>1, <3>2
  <2>2. CASE r.code = "Success" /\ spec.syntax = "DBREAD"
    BY <2>2, ZenonT(60)
  <2>3. CASE r.code = "Success" /\ spec.syntax # "DBREAD"
    <3>1. Len(r.data) = IF target(spec).isBit THEN 1 ELSE target(spec).size
      BY <2>3, ReadItemShape, ZenonT(60)
    <3> HIDE DEF r
    <3> QED  BY <2>3, <3>1, <1>1
  <2> QED  BY <2>1, <2>2, <2>3, ZenonT(60)
<1>3. ItemNeed(spec, r, last) = IF ~last /\ need % 2 # 0 THEN need + 1 ELSE need
  BY DEF ItemNeed
<1>4. ReadVarResultSize(r, last) = 4 + Len(r.data) + IF ~last /\ Len(r.data) % 2 # 0 THEN 1 ELSE 0
  BY DEF ReadVarResultSize
<1> HIDE DEF r, need
<1>5. need % 2 = Len(r.data) % 2
  <2>1. \A n \in Nat : (4 + n) % 2 = n % 2
    OBVIOUS
  <2> QED  BY <1>1, <1>2, <2>1, ZenonT(60)
<1>6. ItemNeed(spec, r, last) = ReadVarResultSize(r, last)
  <2>1. CASE ~last /\ Len(r.data) % 2 # 0
    BY <2>1, <1>1, <1>2, <1>3, <1>4, <1>5, ZenonT(60)
  <2>2. CASE ~(~last /\ Len(r.data) % 2 # 0)
    <3>1. ItemNeed(spec, r, last) = need
      BY <2>2, <1>3, <1>5, Zenon
    <3>2. ReadVarResultSize(r, last) = 4 + Len(r.data) + 0
      BY <2>2, <1>4, Zenon
    <3> QED  BY <3>1, <3>2, <1>1, <1>2
  <2> QED  BY <2>1, <2>2, ZenonT(60)
<1> QED  BY <1>6, ZenonT(60) DEF r

\* The results a Read Var job of session s would have on the memory as it is.
Ideal(s) == [i \in 1..Len(req[s].specs) |-> ReadItem(regions, req[s].specs[i])]

\* read's used is the size of the answer up to the item the loop is at.
Counted(s) ==
  st[s] = "items" /\ req[s].kind = "read" =>
    /\ next[s] <= Len(req[s].specs) + 1
    /\ used[s] = SizeUpTo(Ideal(s))[next[s] - 1]

\* A writer starts from the memory it found when it announced itself, and has
\* written the items before the one it is at to it, each with its code.
Written(s) ==
  /\ st[s] = "drain" => locked = regions
  /\ st[s] = "items" /\ req[s].kind = "write" =>
       /\ next[s] <= Len(req[s].specs) + 1
       /\ regions = AfterWrites(locked, req[s].specs, req[s].data, next[s] - 1)
       /\ \A i \in 1..next[s] - 1 :
            results[s][i] =
              [code |-> WriteCode(AfterWrites(locked, req[s].specs, req[s].data, i - 1),
                                  req[s].specs[i], req[s].data[i]),
               data |-> <<>>]

\* AnswerFitsPDU for one session.
Fits(s) ==
  st[s] = "reply" /\ req[s].kind = "read" /\ answer[s].header = "ok" =>
    ReadAnswerSize(answer[s].items) <= pduSize[s]

\* The types of what Shape and Arrays leave out.
Numbers ==
  /\ IsMemory(regions)
  /\ pduSize \in [Sessions -> 0..MaxPDUSize]
  /\ req \in [Sessions -> Requests \cup {None}]
  /\ used \in [Sessions -> Nat]
  /\ answer = [s \in Sessions |-> answer[s]]
  /\ \A s \in Sessions : st[s] \in {"lock", "drain", "items"} => req[s] \in Requests

Work(s) == Counted(s) /\ Written(s) /\ Fits(s)

WInv == Numbers /\ \A s \in Sessions : Work(s)

\* A job the memory takes: items as they come from the wire.
LEMMA JobItems ==
  ASSUME NEW r \in Requests, r.kind \in {"read", "write"}
  PROVE  /\ r.specs \in Seq(VarSpec) /\ Len(r.specs) \in Nat
         /\ \A i \in 1..Len(r.specs) : r.specs[i] \in VarSpec
         /\ r.kind = "write" =>
              Len(r.data) = Len(r.specs) /\ \A i \in 1..Len(r.specs) : r.data[i] \in Seq(Octet)
<1>1. IsRequest(r)
  BY RequestsAssumption, ZenonT(60)
<1>2. r.specs \in Seq(VarSpec)
  BY <1>1, ZenonT(60) DEF IsRequest
<1>3. r.kind = "write" => r.data \in Seq(Seq(Octet)) /\ Len(r.data) = Len(r.specs)
  BY <1>1, ZenonT(60) DEF IsRequest
<1>4. Len(r.specs) \in Nat /\ \A i \in 1..Len(r.specs) : r.specs[i] \in VarSpec
  BY <1>2, SeqLength, SeqElement, ZenonT(60)
<1>5. ASSUME r.kind = "write", NEW i \in 1..Len(r.specs)  PROVE r.data[i] \in Seq(Octet)
  BY <1>3, <1>5, SeqElement, ZenonT(60)
<1> QED  BY <1>2, <1>3, <1>4, <1>5, ZenonT(60)

\* The results of a job on one memory: bytes, one result for each item.
LEMMA IdealItems ==
  ASSUME IsMemory(regions), NEW s \in Sessions, req[s] \in Requests, req[s].kind \in {"read", "write"}
  PROVE  /\ Len(Ideal(s)) = Len(req[s].specs) /\ Len(req[s].specs) \in Nat
         /\ \A i \in 1..Len(req[s].specs) :
              Ideal(s)[i] = ReadItem(regions, req[s].specs[i]) /\ Ideal(s)[i].data \in Seq(Octet)
<1>1. Len(req[s].specs) \in Nat /\ \A i \in 1..Len(req[s].specs) : req[s].specs[i] \in VarSpec
  BY JobItems, ZenonT(60)
<1> DEFINE n == Len(req[s].specs)
           f == Ideal(s)
<1>2. f = [i \in 1..n |-> f[i]] /\ \A i \in 1..n : f[i] = ReadItem(regions, req[s].specs[i])
  BY DEF Ideal
<1>3. \A i \in 1..n : f[i].data \in Seq(Octet)
  BY <1>1, <1>2, ReadItemShape, ZenonT(60)
<1>4. n \in Nat
  BY <1>1, ZenonT(60)
<1> HIDE DEF n, f
<1>5. Len(f) = n
  BY <1>2, <1>4
<1> QED  BY <1>2, <1>3, <1>4, <1>5, ZenonT(60) DEF f, n

\* The sizes of its answer, from the header on.
LEMMA IdealSizes ==
  ASSUME IsMemory(regions), NEW s \in Sessions, req[s] \in Requests, req[s].kind \in {"read", "write"}
  PROVE  /\ SizeUpTo(Ideal(s))[0] = AckDataHeaderSize + 2
         /\ \A i \in 1..Len(req[s].specs) :
              SizeUpTo(Ideal(s))[i] =
                SizeUpTo(Ideal(s))[i - 1]
                  + ReadVarResultSize(ReadItem(regions, req[s].specs[i]), i = Len(req[s].specs))
         /\ \A i \in 0..Len(req[s].specs) :
              SizeUpTo(Ideal(s))[i] \in Nat /\ SizeUpTo(Ideal(s))[i] <= SizeUpTo(Ideal(s))[Len(req[s].specs)]
         /\ ReadAnswerSize(Ideal(s)) = SizeUpTo(Ideal(s))[Len(req[s].specs)]
<1> DEFINE n == Len(req[s].specs)
           f == Ideal(s)
<1>1. /\ Len(f) = n /\ n \in Nat
      /\ \A i \in 1..n : f[i] = ReadItem(regions, req[s].specs[i]) /\ f[i].data \in Seq(Octet)
  BY IdealItems, ZenonT(60)
<1> HIDE DEF f
<1>2. /\ SizeUpTo(f)[0] = AckDataHeaderSize + 2
      /\ \A i \in 1..n : SizeUpTo(f)[i] = SizeUpTo(f)[i - 1] + ReadVarResultSize(f[i], i = n)
      /\ \A i \in 0..n : SizeUpTo(f)[i] \in Nat /\ SizeUpTo(f)[i] <= SizeUpTo(f)[n]
      /\ ReadAnswerSize(f) = SizeUpTo(f)[n]
  <2>1. Len(f) \in Nat /\ \A i \in 1..Len(f) : f[i].data \in Seq(Octet)
    BY <1>1, ZenonT(60)
  <2>2. /\ SizeUpTo(f)[0] = AckDataHeaderSize + 2
        /\ \A i \in 1..Len(f) : SizeUpTo(f)[i] = SizeUpTo(f)[i - 1] + ReadVarResultSize(f[i], i = Len(f))
        /\ \A i \in 0..Len(f) : SizeUpTo(f)[i] \in Nat /\ SizeUpTo(f)[i] <= SizeUpTo(f)[Len(f)]
        /\ ReadAnswerSize(f) = SizeUpTo(f)[Len(f)]
    BY <2>1, Sizes, ZenonT(60)
  <2>3. Len(f) = n
    BY <1>1, ZenonT(60)
  <2> QED  BY <2>2, <2>3, Zenon
<1> QED  BY <1>1, <1>2, ZenonT(60) DEF f

\* A session that a step leaves alone keeps its work, unless the memory changes.
LEMMA Frame ==
  ASSUME NEW s \in Sessions, Work(s), regions' = regions,
         st'[s] = st[s], req'[s] = req[s], next'[s] = next[s], used'[s] = used[s],
         results'[s] = results[s], answer'[s] = answer[s], pduSize'[s] = pduSize[s],
         locked' = locked \/ ~(st[s] = "drain" \/ (st[s] = "items" /\ req[s].kind = "write"))
  PROVE  Work(s)'
<1>1. Counted(s)'
  BY ZenonT(60) DEF Work, Counted, Ideal
<1>2. Written(s)'
  BY ZenonT(60) DEF Work, Written
<1>3. Fits(s)'
  BY ZenonT(60) DEF Work, Fits
<1> QED  BY <1>1, <1>2, <1>3, ZenonT(60) DEF Work

\* The initial state.
LEMMA InitWInv == Init => WInv
<1> SUFFICES ASSUME Init PROVE WInv
  BY ZenonT(60)
<1>1. Numbers
  BY MaxPDUSizeAssumption, HostAssumption, SMTT(30) DEF Init, Numbers
<1>2. ASSUME NEW s \in Sessions PROVE Work(s)
  BY ZenonT(60) DEF Init, Work, Counted, Written, Fits
<1> QED  BY <1>1, <1>2, ZenonT(60) DEF WInv

\* A request that arrives starts no work; the PDU size stays within the server's.
LEMMA HandleWorks ==
  ASSUME IInv, WInv, NEW s \in Sessions, handle(s)  PROVE WInv'
<1>1. PICK r \in Requests :
         /\ st[s] = "idle"
         /\ req' = [req EXCEPT ![s] = r]
         /\ pduSize' = [pduSize EXCEPT ![s] = PDUSizeAfter(r, @, MaxPDUSize)]
         /\ \/ /\ TouchesMemory(r)
               /\ st' = [st EXCEPT ![s] = "lock"]
               /\ UNCHANGED answer
            \/ /\ st' = [st EXCEPT ![s] = "dropped"]
               /\ UNCHANGED answer
            \/ /\ ~TouchesMemory(r)
               /\ st' = [st EXCEPT ![s] = "reply"]
               /\ answer' = [answer EXCEPT ![s] = AnsweredAtOnce(r, MaxPDUSize)]
  BY Zenon DEF handle
<1>2. UNCHANGED <<regions, readers, writer, locked, next, used, results>>
  BY ZenonT(60) DEF handle, memVars, jobVars
<1>3. PDUSizeAfter(r, pduSize[s], MaxPDUSize) \in 0..MaxPDUSize
  <2>1. pduSize[s] \in 0..MaxPDUSize
    BY ZenonT(60) DEF WInv, Numbers
  <2>2. r.kind = "setup" => r.pduSize \in Nat
    BY RequestsAssumption, ZenonT(60) DEF IsRequest
  <2> QED  BY <2>1, <2>2, MaxPDUSizeAssumption DEF PDUSizeAfter, setup, Min2
<1>4. /\ st' \in [Sessions -> States] /\ st'[s] \in {"lock", "dropped", "reply"}
      /\ \A x \in Sessions \ {s} : st'[x] = st[x]
  BY <1>1, ZenonT(60) DEF IInv, Shape, States
<1>5. Numbers'
  BY <1>1, <1>2, <1>3, <1>4, ZenonT(60) DEF WInv, Numbers
<1>6. ASSUME NEW x \in Sessions PROVE Work(x)'
  <2>1. CASE x = s
    <3>1. req'[s] = r /\ (st'[s] = "reply" => r.kind # "read")
      BY <1>1, ZenonT(60) DEF WInv, Numbers, IInv, Shape, States, TouchesMemory
    <3> QED  BY <2>1, <3>1, <1>4, ZenonT(60) DEF Work, Counted, Written, Fits
  <2>2. CASE x # s
    <3>1. st'[x] = st[x] /\ req'[x] = req[x] /\ pduSize'[x] = pduSize[x] /\ answer'[x] = answer[x]
      BY <2>2, <1>1, ZenonT(60) DEF WInv, Numbers, IInv, Shape, States
    <3> QED  BY <3>1, <1>2, Frame, ZenonT(60) DEF WInv
  <2> QED  BY <2>1, <2>2, ZenonT(60)
<1> QED  BY <1>5, <1>6, ZenonT(60) DEF WInv

\* A reader starts: the header is counted, no item yet.
LEMMA RLockWorks ==
  ASSUME IInv, WInv, NEW s \in Sessions, RLock(s)  PROVE WInv'
<1>1. /\ st' = [st EXCEPT ![s] = "items"]
      /\ next' = [next EXCEPT ![s] = 1]
      /\ used' = [used EXCEPT ![s] = AckDataHeaderSize + 2]
      /\ results' = [results EXCEPT ![s] = [i \in 1..Len(req[s].specs) |-> Zero]]
      /\ UNCHANGED <<regions, locked, pduSize, req, answer>>
      /\ st[s] = "lock" /\ req[s].kind = "read"
  BY ZenonT(60) DEF RLock, StartItems
<1>2. Numbers'
  BY <1>1 DEF WInv, Numbers, IInv, Shape, States, AckDataHeaderSize
<1>3. ASSUME NEW x \in Sessions PROVE Work(x)'
  <2>1. CASE x = s
    <3>1. st'[s] = "items" /\ next'[s] = 1 /\ used'[s] = AckDataHeaderSize + 2 /\ req'[s] = req[s]
      BY <1>1, ZenonT(60) DEF IInv, Shape, WInv, Numbers
    <3>2. Ideal(s)' = Ideal(s)
      BY <1>1, ZenonT(60) DEF Ideal
    <3>3. Len(req[s].specs) \in Nat
      BY <1>1, JobItems, ZenonT(60) DEF WInv, Numbers
    <3>4. IInv'
      BY RLockKeeps, ZenonT(60)
    <3>5. SizeUpTo(Ideal(s))[0] = AckDataHeaderSize + 2
      BY <1>1, IdealSizes, ZenonT(60) DEF WInv, Numbers
    <3>6. Counted(s)'
      BY <3>1, <3>2, <3>3, <3>5, SMTT(30) DEF Counted
    <3> QED  BY <2>1, <3>1, <3>6, <1>1, ZenonT(60) DEF Work, Written, Fits
  <2>2. CASE x # s
    <3>1. st'[x] = st[x] /\ next'[x] = next[x] /\ used'[x] = used[x] /\ results'[x] = results[x]
      BY <2>2, <1>1, ZenonT(60) DEF WInv, Numbers, IInv, Shape, States, Arrays
    <3> QED  BY <3>1, <1>1, Frame, ZenonT(60) DEF WInv
  <2> QED  BY <2>1, <2>2, ZenonT(60)
<1> QED  BY <1>2, <1>3, ZenonT(60) DEF WInv

\* A writer announces itself: the memory it will change is the one it finds.
LEMMA LockWorks ==
  ASSUME IInv, WInv, NEW s \in Sessions, Lock(s)  PROVE WInv'
<1>1. /\ st' = [st EXCEPT ![s] = "drain"] /\ st[s] = "lock"
      /\ locked' = regions /\ writer = NoSession
      /\ UNCHANGED <<regions, next, used, results, pduSize, req, answer>>
  BY ZenonT(60) DEF Lock, jobVars
<1>2. Numbers'
  BY <1>1, ZenonT(60) DEF WInv, Numbers, IInv, Shape, States
<1>3. ASSUME NEW x \in Sessions PROVE Work(x)'
  <2>1. CASE x = s
    <3>1. st'[s] = "drain"
      BY <1>1, ZenonT(60) DEF IInv, Shape
    <3> QED  BY <2>1, <3>1, <1>1, ZenonT(60) DEF Work, Counted, Written, Fits
  <2>2. CASE x # s
    <3>1. st'[x] = st[x]
      BY <2>2, <1>1, ZenonT(60) DEF IInv, Shape
    <3>2. ~(st[x] = "drain" \/ (st[x] = "items" /\ req[x].kind = "write"))
      BY <1>1, SessionsAssumption, ZenonT(60) DEF IInv, LockDiscipline
    <3> QED  BY <3>1, <3>2, <1>1, Frame, ZenonT(60) DEF WInv
  <2> QED  BY <2>1, <2>2
<1> QED  BY <1>2, <1>3 DEF WInv

\* The writer starts: nothing is written yet.
LEMMA LockedWorks ==
  ASSUME IInv, WInv, NEW s \in Sessions, Locked(s)  PROVE WInv'
<1>1. /\ st' = [st EXCEPT ![s] = "items"]
      /\ next' = [next EXCEPT ![s] = 1]
      /\ used' = [used EXCEPT ![s] = AckDataHeaderSize + 2]
      /\ results' = [results EXCEPT ![s] = [i \in 1..Len(req[s].specs) |-> Zero]]
      /\ UNCHANGED <<regions, locked, pduSize, req, answer>>
      /\ st[s] = "drain"
  BY ZenonT(60) DEF Locked, StartItems
<1>0. req[s].kind = "write" /\ req[s] \in Requests
  BY <1>1, ZenonT(60) DEF IInv, LockDiscipline, WInv, Numbers
<1>2. Numbers'
  BY <1>1, SMTT(30) DEF WInv, Numbers, IInv, Shape, States, AckDataHeaderSize
<1>3. ASSUME NEW x \in Sessions PROVE Work(x)'
  <2>1. CASE x = s
    <3>1. st'[s] = "items" /\ next'[s] = 1 /\ req'[s] = req[s]
      BY <1>1, ZenonT(60) DEF IInv, Shape, WInv, Numbers
    <3>2. Len(req[s].specs) \in Nat
      BY <1>0, JobItems, ZenonT(60)
    <3>3. locked = regions
      BY <1>1, ZenonT(60) DEF WInv, Work, Written
    <3>4. AfterWrites(locked, req[s].specs, req[s].data, 0) = locked
      BY AfterNoWrites, ZenonT(60)
    <3>5. Written(s)'
      BY <3>1, <3>2, <3>3, <3>4, <1>1, SMTT(30) DEF Written
    <3> QED  BY <2>1, <3>1, <3>5, <1>0, ZenonT(60) DEF Work, Counted, Fits
  <2>2. CASE x # s
    <3>1. st'[x] = st[x] /\ next'[x] = next[x] /\ used'[x] = used[x] /\ results'[x] = results[x]
      BY <2>2, <1>1, ZenonT(60) DEF WInv, Numbers, IInv, Shape, States, Arrays
    <3> QED  BY <3>1, <1>1, Frame, ZenonT(60) DEF WInv
  <2> QED  BY <2>1, <2>2
<1> QED  BY <1>2, <1>3 DEF WInv

\* Return leaves an answer that fits, if the one it is given does.
LEMMA ReturnWorks ==
  ASSUME IInv, WInv, NEW s \in Sessions, st[s] = "items", NEW a, Return(s, a),
         req[s].kind = "read" /\ a.header = "ok" => ReadAnswerSize(a.items) <= pduSize[s]
  PROVE  WInv'
<1>1. /\ st' = [st EXCEPT ![s] = "reply"]
      /\ answer' = [answer EXCEPT ![s] = a]
      /\ next' = [next EXCEPT ![s] = 1]
      /\ used' = [used EXCEPT ![s] = 0]
      /\ results' = [results EXCEPT ![s] = <<>>]
      /\ locked' = locked \/ writer = s
      /\ UNCHANGED <<regions, pduSize, req>>
  BY DEF Return
<1>2. Numbers'
  BY <1>1, ZenonT(60) DEF WInv, Numbers, IInv, Shape, States
<1>3. ASSUME NEW x \in Sessions PROVE Work(x)'
  <2>1. CASE x = s
    <3>1. st'[s] = "reply" /\ answer'[s] = a
      BY <1>1, ZenonT(60) DEF IInv, Shape, WInv, Numbers
    <3> QED  BY <2>1, <3>1, <1>1, ZenonT(60) DEF Work, Counted, Written, Fits
  <2>2. CASE x # s
    <3>1. /\ st'[x] = st[x] /\ next'[x] = next[x] /\ used'[x] = used[x]
          /\ results'[x] = results[x] /\ answer'[x] = answer[x]
      BY <2>2, <1>1, ZenonT(60) DEF WInv, Numbers, IInv, Shape, States, Arrays
    <3>2. writer = s => ~(st[x] = "drain" \/ (st[x] = "items" /\ req[x].kind = "write"))
      BY <2>2, ZenonT(60) DEF IInv, LockDiscipline
    <3> QED  BY <3>1, <3>2, <1>1, Frame, ZenonT(60) DEF WInv
  <2> QED  BY <2>1, <2>2, ZenonT(60)
<1> QED  BY <1>2, <1>3, ZenonT(60) DEF WInv

\* What the session at the items of a Read Var job counts, in terms of the job.
LEMMA ReadVarItemCount ==
  ASSUME IInv, WInv, NEW s \in Sessions, st[s] = "items", req[s].kind = "read", next[s] <= Len(req[s].specs)
  PROVE  /\ SizeUpTo(Ideal(s))[next[s]] =
              used[s] + ItemNeed(req[s].specs[next[s]], ReadItem(regions, req[s].specs[next[s]]),
                                 next[s] = Len(req[s].specs))
         /\ SizeUpTo(Ideal(s))[next[s]] \in Nat
         /\ SizeUpTo(Ideal(s))[next[s]] <= ReadAnswerSize(Ideal(s))
<1> DEFINE n == Len(req[s].specs)
           k == next[s]
           size == SizeUpTo(Ideal(s))
           r == ReadItem(regions, req[s].specs[k])
<1>1. req[s] \in Requests /\ IsMemory(regions) /\ req[s].kind \in {"read", "write"}
  BY ZenonT(60) DEF WInv, Numbers
<1>2. n \in Nat /\ \A i \in 1..n : req[s].specs[i] \in VarSpec
  BY <1>1, JobItems, ZenonT(60)
<1>3. k \in 1..n
  BY <1>2 DEF IInv, Shape
<1>4. /\ \A i \in 1..n : size[i] = size[i - 1] + ReadVarResultSize(ReadItem(regions, req[s].specs[i]), i = n)
      /\ \A i \in 0..n : size[i] \in Nat /\ size[i] <= size[n]
      /\ ReadAnswerSize(Ideal(s)) = size[n]
  BY <1>1, IdealSizes, Zenon
<1>5. used[s] = size[k - 1]
  BY DEF WInv, Work, Counted
<1>6. ItemNeed(req[s].specs[k], r, k = n) = ReadVarResultSize(r, k = n)
  BY <1>1, <1>2, <1>3, NeedIsSize, ZenonT(60)
<1>7. size[k] = size[k - 1] + ReadVarResultSize(r, k = n)
  BY <1>3, <1>4, ZenonT(60)
<1>8. k \in 0..n
  BY <1>2, <1>3
<1>9. size[k] \in Nat /\ size[k] <= ReadAnswerSize(Ideal(s))
  BY <1>4, <1>8, ZenonT(60)
<1> QED  BY <1>5, <1>6, <1>7, <1>9, Zenon

\* One item of read: used grows by what the item adds to the answer.
LEMMA ReadVarItemWorks ==
  ASSUME IInv, WInv, NEW s \in Sessions, ReadVarItem(s)  PROVE WInv'
<1> DEFINE spec == req[s].specs[next[s]]
           r == ReadItem(regions, spec)
           u == used[s] + ItemNeed(spec, r, next[s] = Len(req[s].specs))
<1>1. st[s] = "items" /\ req[s].kind = "read" /\ next[s] <= Len(req[s].specs)
  BY ZenonT(60) DEF ReadVarItem
<1>2. CASE Return(s, Refused("8500"))
  BY <1>1, <1>2, ReturnWorks, ZenonT(60) DEF Refused
<1>3. CASE ~Return(s, Refused("8500"))
  <2>1. /\ results' = [results EXCEPT ![s][next[s]] = r]
        /\ used' = [used EXCEPT ![s] = u]
        /\ next' = [next EXCEPT ![s] = @ + 1]
        /\ UNCHANGED <<regions, readers, writer, locked, pduSize, st, req, answer>>
    BY <1>3, ZenonT(60) DEF ReadVarItem, memVars
  <2>2. SizeUpTo(Ideal(s))[next[s]] = u /\ u \in Nat
    BY <1>1, ReadVarItemCount, ZenonT(60)
  <2> HIDE DEF r, u
  <2>3. Numbers'
    BY <2>1, <2>2, ZenonT(60) DEF WInv, Numbers
  <2>4. ASSUME NEW x \in Sessions PROVE Work(x)'
    <3>1. CASE x = s
      <4>1. next'[s] = next[s] + 1 /\ next[s] \in Nat /\ used'[s] = u
        BY <2>1, ZenonT(60) DEF IInv, Shape, WInv, Numbers
      <4>2. Ideal(s)' = Ideal(s)
        BY <2>1, ZenonT(60) DEF Ideal
      <4>3. Len(req[s].specs) \in Nat
        BY <1>1, JobItems, ZenonT(60) DEF WInv, Numbers
      <4>4. next'[s] - 1 = next[s] /\ next'[s] <= Len(req[s].specs) + 1
        BY <4>1, <4>3, <1>1
      <4>5. Counted(s)'
        BY <2>1, <2>2, <4>1, <4>2, <4>4, ZenonT(60) DEF Counted
      <4> QED  BY <3>1, <4>5, <1>1, <2>1, ZenonT(60) DEF Work, Written, Fits
    <3>2. CASE x # s
      <4>1. next'[x] = next[x] /\ used'[x] = used[x] /\ results'[x] = results[x]
        BY <3>2, <2>1, ZenonT(60) DEF WInv, Numbers, IInv, Shape, Arrays
      <4> QED  BY <4>1, <2>1, Frame, ZenonT(60) DEF WInv
    <3> QED  BY <3>1, <3>2
  <2> QED  BY <2>3, <2>4 DEF WInv
<1> QED  BY <1>2, <1>3, ZenonT(60)

\* After its loop read has all results of the memory as it is, and their size.
LEMMA ReadComplete ==
  ASSUME IInv, WInv, NEW s \in Sessions, st[s] = "items", req[s].kind = "read", next[s] > Len(req[s].specs)
  PROVE  results[s] = Ideal(s) /\ used[s] = ReadAnswerSize(Ideal(s))
<1> DEFINE n == Len(req[s].specs)
<1>1. req[s] \in Requests /\ IsMemory(regions)
  BY ZenonT(60) DEF WInv, Numbers
<1>2. n \in Nat
  BY <1>1, JobItems, ZenonT(60)
<1>3. next[s] = n + 1
  BY <1>2 DEF IInv, Shape, WInv, Work, Counted
<1>4. used[s] = ReadAnswerSize(Ideal(s))
  <2>1. used[s] = SizeUpTo(Ideal(s))[n]
    BY <1>2, <1>3 DEF WInv, Work, Counted
  <2> QED  BY <2>1, <1>1, IdealSizes, ZenonT(60)
<1>5. DOMAIN results[s] = 1..n /\ results[s] = [i \in DOMAIN results[s] |-> results[s][i]]
  BY ZenonT(60) DEF IInv, Made, Arrays
<1>6. \A i \in 1..n : results[s][i] = ReadItem(regions, req[s].specs[i])
  BY <1>2, <1>3 DEF IInv, ReadsOneState
<1> QED  BY <1>4, <1>5, <1>6, ZenonT(60) DEF Ideal

\* read returns an answer only when what it counted fits.
LEMMA ReadVarDoneWorks ==
  ASSUME IInv, WInv, NEW s \in Sessions, ReadVarDone(s)  PROVE WInv'
<1> DEFINE a == IF used[s] > pduSize[s] THEN Refused("8500") ELSE Ok(results[s])
<1>1. st[s] = "items" /\ req[s].kind = "read" /\ next[s] > Len(req[s].specs) /\ Return(s, a)
  BY ZenonT(60) DEF ReadVarDone
<1>2. results[s] = Ideal(s) /\ used[s] = ReadAnswerSize(Ideal(s))
  BY <1>1, ReadComplete, ZenonT(60)
<1>3. used[s] \in Nat /\ pduSize[s] \in 0..MaxPDUSize
  BY ZenonT(60) DEF WInv, Numbers
<1>4. a.header = "ok" => ReadAnswerSize(a.items) <= pduSize[s]
  BY <1>2, <1>3, MaxPDUSizeAssumption DEF Refused, Ok
<1> HIDE DEF a
<1> QED  BY <1>1, <1>4, ReturnWorks, ZenonT(60)

\* A writer at its items is the only session in the locked part.
LEMMA WriterAlone ==
  ASSUME IInv, NEW s \in Sessions, st[s] = "items", req[s].kind = "write", NEW x \in Sessions, x # s
  PROVE  st[x] \notin {"drain", "items"}
<1>1. writer = s /\ readers = {}
  BY ZenonT(60) DEF IInv, LockDiscipline
<1>2. x \notin readers /\ writer # x
  BY <1>1, ZenonT(60)
<1> QED  BY <1>2, ZenonT(60) DEF IInv, LockDiscipline

\* One item of write: the memory is what the items up to this one make of it.
LEMMA WriteVarItemWorks ==
  ASSUME IInv, WInv, NEW s \in Sessions, WriteVarItem(s)  PROVE WInv'
<1> DEFINE k == next[s]
           spec == req[s].specs[k]
           data == req[s].data[k]
           c == [code |-> WriteCode(regions, spec, data), data |-> <<>>]
<1>1. /\ st[s] = "items" /\ req[s].kind = "write" /\ k <= Len(req[s].specs)
      /\ regions' = WriteItem(regions, spec, data)
      /\ results' = [results EXCEPT ![s][k] = c]
      /\ next' = [next EXCEPT ![s] = k + 1]
      /\ UNCHANGED <<locked, used, pduSize, st, req, answer>>
  BY ZenonT(60) DEF WriteVarItem
<1>2. req[s] \in Requests /\ IsMemory(regions)
  BY <1>1, ZenonT(60) DEF WInv, Numbers
<1>3. /\ Len(req[s].specs) \in Nat /\ k \in 1..Len(req[s].specs) /\ k \in Nat
      /\ spec \in VarSpec /\ data \in Seq(Octet)
  <2>1. Len(req[s].specs) \in Nat
    BY <1>1, <1>2, JobItems, ZenonT(60)
  <2>2. k \in 1..Len(req[s].specs) /\ k \in Nat
    BY <1>1, <2>1, SMTT(30) DEF IInv, Shape
  <2> QED  BY <2>1, <2>2, <1>1, <1>2, JobItems, ZenonT(60)
<1>4. IsMemory(regions')
  BY <1>1, <1>2, <1>3, WriteItemKeeps, ZenonT(60)
<1>5. Numbers'
  BY <1>1, <1>4, ZenonT(60) DEF WInv, Numbers
<1>6. Work(s)'
  <2> DEFINE after(i) == AfterWrites(locked, req[s].specs, req[s].data, i)
  <2>1. /\ regions = after(k - 1)
        /\ \A i \in 1..k - 1 :
             results[s][i] = [code |-> WriteCode(after(i - 1), req[s].specs[i], req[s].data[i]), data |-> <<>>]
    BY <1>1, ZenonT(60) DEF WInv, Work, Written
  <2>2. after(k) = WriteItem(after(k - 1), spec, data)
    <3>1. k - 1 \in Nat /\ (k - 1) + 1 = k
      BY <1>3
    <3>2. \A m \in Nat : after(m + 1) = WriteItem(after(m), req[s].specs[m + 1], req[s].data[m + 1])
      BY AfterWritesNext, ZenonT(60)
    <3> HIDE DEF k, after
    <3>3. after((k - 1) + 1) = WriteItem(after(k - 1), req[s].specs[(k - 1) + 1], req[s].data[(k - 1) + 1])
      BY <3>1, <3>2, Zenon
    <3> QED  BY <3>1, <3>3, Zenon
  <2>3. /\ results'[s][k] = c
        /\ \A i \in DOMAIN results[s] \ {k} : results'[s][i] = results[s][i]
    <3>1. k \in DOMAIN results[s]
      BY <1>1, <1>3 DEF IInv, Made
    <3>2. Arrays /\ results' = [results EXCEPT ![s][k] = c]
      BY <1>1 DEF IInv
    <3> HIDE DEF c
    <3>3. /\ Arrays'
          /\ \A x \in Sessions \ {s} : results'[x] = results[x]
          /\ DOMAIN results'[s] = DOMAIN results[s]
          /\ results'[s][next[s]] = c
          /\ \A i \in DOMAIN results[s] \ {next[s]} : results'[s][i] = results[s][i]
      BY <3>1, <3>2, ArraysStore, ZenonT(60)
    <3> QED  BY <3>3
  <2>4. next'[s] = k + 1 /\ next'[s] - 1 = k
    BY <1>1, <1>3, SMTT(30) DEF IInv, Shape
  <2>5. ASSUME NEW i \in 1..k
        PROVE  results'[s][i] = [code |-> WriteCode(after(i - 1), req[s].specs[i], req[s].data[i]), data |-> <<>>]
    <3>1. CASE i = k
      BY <3>1, <2>1, <2>3, SMTT(30)
    <3>2. CASE i # k
      <4>1. i \in 1..k - 1 /\ i \in DOMAIN results[s]
        BY <3>2, <1>1, <1>3, SMTT(30) DEF IInv, Made
      <4> HIDE DEF k, after
      <4> QED  BY <4>1, <3>2, <2>1, <2>3, SMTT(30)
    <3> QED  BY <3>1, <3>2, SMTT(30)
  <2>6. regions' = after(k) /\ k + 1 <= Len(req[s].specs) + 1
    BY <1>1, <1>3, <2>1, <2>2, SMTT(30)
  <2>7. Written(s)'
    BY <1>1, <2>4, <2>5, <2>6, SMTT(30) DEF Written
  <2> QED  BY <1>1, <2>7, ZenonT(60) DEF Work, Counted, Fits
<1>7. ASSUME NEW x \in Sessions, x # s PROVE Work(x)'
  <2>1. st[x] \notin {"drain", "items"}
    BY <1>1, <1>7, WriterAlone
  <2>2. Fits(x)
    BY DEF WInv, Work
  <2> QED  BY <2>1, <2>2, <1>1, SMTT(30) DEF Work, Counted, Written, Fits
<1> QED  BY <1>5, <1>6, <1>7, ZenonT(60) DEF WInv

\* write returns.
LEMMA WriteVarDoneWorks ==
  ASSUME IInv, WInv, NEW s \in Sessions, WriteVarDone(s)  PROVE WInv'
  BY ReturnWorks DEF WriteVarDone

\* The answer is sent.
LEMMA ReplyWorks ==
  ASSUME IInv, WInv, NEW s \in Sessions, Reply(s)  PROVE WInv'
<1>1. /\ st' = [st EXCEPT ![s] = "idle"] /\ st[s] = "reply"
      /\ req' = [req EXCEPT ![s] = None]
      /\ answer' = [answer EXCEPT ![s] = None]
      /\ UNCHANGED <<regions, locked, next, used, results, pduSize>>
  BY DEF Reply, memVars, jobVars
<1>2. Numbers'
  BY <1>1, ZenonT(60) DEF WInv, Numbers, IInv, Shape, States
<1>3. ASSUME NEW x \in Sessions PROVE Work(x)'
  <2>1. CASE x = s
    <3>1. st'[s] = "idle"
      BY <1>1 DEF IInv, Shape
    <3> QED  BY <2>1, <3>1 DEF Work, Counted, Written, Fits
  <2>2. CASE x # s
    <3>1. st'[x] = st[x] /\ req'[x] = req[x] /\ answer'[x] = answer[x]
      BY <2>2, <1>1, ZenonT(60) DEF WInv, Numbers, IInv, Shape
    <3> QED  BY <3>1, <1>1, Frame DEF WInv
  <2> QED  BY <2>1, <2>2
<1> QED  BY <1>2, <1>3 DEF WInv

\* The host changes the memory when no session is in the locked part.
LEMMA HostWorks ==
  ASSUME IInv, WInv, readers = {}, writer = NoSession, IsMemory(regions'),
         UNCHANGED <<locked, next, used, results, pduSize, st, req, answer>>
  PROVE  WInv'
<1>1. Numbers'
  BY ZenonT(60) DEF WInv, Numbers
<1>2. ASSUME NEW x \in Sessions PROVE Work(x)'
  <2>1. x \notin readers /\ writer # x
    BY SessionsAssumption, ZenonT(60)
  <2>2. st[x] \notin {"drain", "items"}
    BY <2>1, ZenonT(60) DEF IInv, LockDiscipline
  <2>3. Fits(x)
    BY ZenonT(60) DEF WInv, Work
  <2> QED  BY <2>2, <2>3, ZenonT(60) DEF Work, Counted, Written, Fits
<1> QED  BY <1>1, <1>2, ZenonT(60) DEF WInv

\* Every step keeps what the jobs have done.
LEMMA NextWInv == IInv /\ WInv /\ [Next]_vars => WInv'
<1> SUFFICES ASSUME IInv, WInv, [Next]_vars PROVE WInv'
  BY ZenonT(60)
<1>1. CASE UNCHANGED vars
  <2>1. Numbers'
    BY <1>1, ZenonT(60) DEF vars, WInv, Numbers
  <2>2. ASSUME NEW x \in Sessions PROVE Work(x)'
    BY <1>1, Frame, ZenonT(60) DEF vars, WInv
  <2> QED  BY <2>1, <2>2, ZenonT(60) DEF WInv
<1>2. ASSUME NEW s \in Sessions, handle(s)  PROVE WInv'
  BY <1>2, HandleWorks, ZenonT(60)
<1>3. ASSUME NEW s \in Sessions, JobStep(s)  PROVE WInv'
  BY <1>3, RLockWorks, LockWorks, LockedWorks, ReadVarItemWorks, ReadVarDoneWorks, WriteVarItemWorks,
     WriteVarDoneWorks, ZenonT(60) DEF JobStep
<1>4. ASSUME NEW s \in Sessions, Reply(s)  PROVE WInv'
  BY <1>4, ReplyWorks
<1>5. CASE HostRegister
  <2>1. IsMemory(regions')
    BY <1>5, RegisterKeeps, HostAssumption, ZenonT(60) DEF HostRegister, WInv, Numbers
  <2> QED  BY <1>5, <2>1, HostWorks, ZenonT(60) DEF HostRegister, jobVars
<1>6. CASE HostWrite
  <2>1. IsMemory(regions')
    BY <1>6, WriteKeeps, HostAssumption, ZenonT(60) DEF HostWrite, WInv, Numbers
  <2> QED  BY <1>6, <2>1, HostWorks DEF HostWrite, jobVars
<1> QED  BY <1>1, <1>2, <1>3, <1>4, <1>5, <1>6, ZenonT(60) DEF Next

\* Both inductive invariants hold in every reachable state.
THEOREM WorkInvariance == Spec => [](IInv /\ WInv)
<1>1. Init => IInv /\ WInv
  BY InitIInv, InitWInv, ZenonT(60)
<1>2. (IInv /\ WInv) /\ [Next]_vars => (IInv /\ WInv)'
  BY NextIInv, NextWInv, ZenonT(60)
<1> QED  BY <1>1, <1>2, PTL DEF Spec

-----------------------------------------------------------------------------
(* Theorems about every state and every step *)

\* However sessions and host interleave, every variable keeps its type: the
\* memory holds registered areas of bytes only, and no session's PDU size is
\* above Config.MaxPDUSize (TypeOK).
THEOREM Typed == Spec => []TypeOK
<1>1. IInv /\ WInv => TypeOK
  BY ZenonT(60) DEF IInv, WInv, Numbers, Shape, Arrays, States, TypeOK
<1> QED  BY <1>1, WorkInvariance, PTL

\* What read counts in used, item by item, is what EncodeReadVarResponse
\* builds: an answer that is not the refusal 0x8500 fits the session's PDU size
\* (AnswerFitsPDU), for any items, padding and memory.
THEOREM AnswersFit == Spec => []AnswerFitsPDU
<1>1. WInv => AnswerFitsPDU
  BY ZenonT(60) DEF WInv, Work, Fits, AnswerFitsPDU
<1> QED  BY <1>1, WorkInvariance, PTL

\* Only the host changes a read-only area, a timer or a counter, and nobody
\* removes an area, resizes it or changes its options (ProtectedFromClients):
\* the checks of writeItem, write and register suffice in every interleaving.
THEOREM Protected == Spec => ProtectedFromClients
<1> DEFINE Keeps ==
      \A k \in DOMAIN regions :
       /\ k \in DOMAIN regions'
       /\ regions'[k].readOnly = regions[k].readOnly
       /\ Len(regions'[k].data) = Len(regions[k].data)
       /\ regions[k].readOnly \/ timerOrCounter(k[1]) =>
            regions'[k] = regions[k] \/ HostWrite
<1>1. IInv /\ WInv /\ [Next]_vars => [Keeps]_vars
  <2> SUFFICES ASSUME IInv, WInv, Next  PROVE Keeps
    BY ZenonT(60)
  <2>0. IsMemory(regions)
    BY ZenonT(60) DEF WInv, Numbers
  <2>1. CASE regions' = regions
    BY <2>1, ZenonT(60)
  <2>2. ASSUME NEW s \in Sessions, WriteVarItem(s)  PROVE Keeps
    <3> DEFINE k == next[s]
    <3>1. /\ st[s] = "items" /\ req[s].kind = "write" /\ k <= Len(req[s].specs)
          /\ regions' = WriteItem(regions, req[s].specs[k], req[s].data[k])
      BY <2>2, ZenonT(60) DEF WriteVarItem
    <3>2. req[s] \in Requests
      BY <3>1, ZenonT(60) DEF WInv, Numbers
    <3>3. Len(req[s].specs) \in Nat
      BY <3>1, <3>2, JobItems, ZenonT(60)
    <3>4. k \in 1..Len(req[s].specs)
      BY <3>1, <3>3, SMTT(30) DEF IInv, Shape
    <3>5. req[s].specs[k] \in VarSpec /\ req[s].data[k] \in Seq(Octet)
      BY <3>1, <3>2, <3>4, JobItems, ZenonT(60)
    <3>6. /\ SameAreas(regions, regions')
          /\ \A a \in DOMAIN regions : regions[a].readOnly \/ timerOrCounter(a[1]) => regions'[a] = regions[a]
      BY <3>1, <3>5, <2>0, WriteItemKeeps, ZenonT(60)
    <3> QED  BY <3>6, ZenonT(60) DEF SameAreas
  <2>3. CASE HostRegister
    <3>1. PICK r \in Registers : regions' = register(regions, r)
      BY <2>3, ZenonT(60) DEF HostRegister
    <3>2. r \in RegisterCall
      BY HostAssumption, ZenonT(60)
    <3> QED  BY <3>1, <3>2, <2>0, RegisterKeeps, ZenonT(60)
  <2>4. CASE HostWrite
    <3>1. PICK w \in HostWrites : regions' = write(regions, w)
      BY <2>4 DEF HostWrite
    <3>2. w \in WriteCall
      BY HostAssumption, ZenonT(60)
    <3>3. SameAreas(regions, regions')
      BY <3>1, <3>2, <2>0, WriteKeeps, ZenonT(60)
    <3> QED  BY <3>3, <2>4, ZenonT(60) DEF SameAreas
  <2>5. ASSUME NEW s \in Sessions, handle(s) \/ RLock(s) \/ ReadVarItem(s) \/ ReadVarDone(s)
                 \/ Lock(s) \/ Locked(s) \/ WriteVarDone(s) \/ Reply(s)
        PROVE  regions' = regions
    BY <2>5, ZenonT(60) DEF handle, RLock, ReadVarItem, ReadVarDone, Lock, Locked, WriteVarDone, Reply, StartItems, Return,
                memVars
  <2> HIDE DEF Keeps
  <2> QED  BY <2>1, <2>2, <2>3, <2>4, <2>5, ZenonT(60) DEF Next, JobStep
<1> QED  BY <1>1, WorkInvariance, PTL DEF Spec, ProtectedFromClients

-----------------------------------------------------------------------------
(* Operators of the instance are those of VarJobs *)

\* An item.
LEMMA SameItem ==
  ASSUME NEW regs, NEW spec, NEW data
  PROVE  /\ Atomic!WriteCode(regs, spec, data) = WriteCode(regs, spec, data)
         /\ Atomic!WriteItem(regs, spec, data) = WriteItem(regs, spec, data)
         /\ Atomic!ReadItem(regs, spec) = ReadItem(regs, spec)
<1> USE DEF Atomic!MaxS7AnyDBNumber, MaxS7AnyDBNumber, Atomic!Areas, Areas,
            Atomic!timerOrCounter, timerOrCounter
<1>1. ASSUME NEW a, NEW b  PROVE Atomic!keyOf(a, b) = keyOf(a, b)
  BY SMT DEF Atomic!keyOf, keyOf
<1>2. Atomic!target(spec) = target(spec)
  BY Zenon DEF Atomic!target, target, Atomic!elementSize, elementSize
<1>3. Atomic!resolve(regs, spec) = resolve(regs, spec)
  BY <1>1, <1>2, ZenonT(60) DEF Atomic!resolve, resolve, Atomic!elementSize, elementSize,
                           Atomic!TransportOf, TransportOf
<1>4. Atomic!WriteCode(regs, spec, data) = WriteCode(regs, spec, data)
  BY <1>1, <1>2, <1>3, ZenonT(60) DEF Atomic!WriteCode, WriteCode
<1>5. Atomic!WriteItem(regs, spec, data) = WriteItem(regs, spec, data)
  BY <1>1, <1>2, <1>4, ZenonT(60) DEF Atomic!WriteItem, WriteItem, Atomic!Overwrite, Overwrite
<1>6. \A k, m, n : Atomic!Bytes(regs, k, m, n) = Bytes(regs, k, m, n)
  BY Zenon DEF Atomic!Bytes, Bytes
<1>7. \A r : Atomic!RangeFault(regs, r) = RangeFault(regs, r)
  BY Zenon DEF Atomic!RangeFault, RangeFault
<1>8. ASSUME NEW ranges  PROVE Atomic!dbRead(regs, ranges) = dbRead(regs, ranges)
  BY Zenon DEF Atomic!dbRead, dbRead, Atomic!Bytes, Bytes, Atomic!RangeFault, RangeFault
<1>9. Atomic!readResult(regs, spec) = readResult(regs, spec)
  BY <1>1, <1>2, <1>6, ZenonT(60) DEF Atomic!readResult, readResult
<1>10. Atomic!ReadItem(regs, spec) = ReadItem(regs, spec)
  BY <1>3, <1>8, <1>9, ZenonT(60) DEF Atomic!ReadItem, ReadItem
<1> QED  BY <1>4, <1>5, <1>10, ZenonT(60)

\* A whole job.
LEMMA SameJob ==
  ASSUME NEW regs, NEW specs, NEW data, NEW size
  PROVE  /\ Atomic!AfterWrites(regs, specs, data, Len(specs)) = AfterWrites(regs, specs, data, Len(specs))
         /\ Atomic!WriteJob(regs, specs, data) = WriteJob(regs, specs, data)
         /\ Atomic!ReadJob(regs, specs, size) = ReadJob(regs, specs, size)
<1>1. ASSUME NEW n  PROVE Atomic!AfterWrites(regs, specs, data, n) = AfterWrites(regs, specs, data, n)
  <2> DEFINE P(mem) == mem = [i \in 0..n |-> IF i = 0 THEN regs ELSE WriteItem(mem[i - 1], specs[i], data[i])]
             Q(mem) == mem = [i \in 0..n |-> IF i = 0 THEN regs
                                             ELSE Atomic!WriteItem(mem[i - 1], specs[i], data[i])]
  <2>1. ASSUME NEW mem  PROVE P(mem) <=> Q(mem)
    BY SameItem
  <2>2. /\ AfterWrites(regs, specs, data, n) = (CHOOSE mem : P(mem))[n]
        /\ Atomic!AfterWrites(regs, specs, data, n) = (CHOOSE mem : Q(mem))[n]
    BY ZenonT(60) DEF Atomic!AfterWrites, AfterWrites
  <2> HIDE DEF P, Q
  <2> QED  BY <2>1, <2>2, ZenonT(60)
<1>2. Atomic!WriteJob(regs, specs, data) = WriteJob(regs, specs, data)
  BY <1>1, SameItem, ZenonT(60) DEF Atomic!WriteJob, WriteJob, Atomic!Ok, Ok
<1>3. \A items : Atomic!ReadAnswerSize(items) = ReadAnswerSize(items)
  BY Zenon DEF Atomic!ReadAnswerSize, ReadAnswerSize, Atomic!AckDataHeaderSize, AckDataHeaderSize,
               Atomic!ReadVarResultSize, ReadVarResultSize
<1>4. [i \in 1..Len(specs) |-> Atomic!ReadItem(regs, specs[i])] = [i \in 1..Len(specs) |-> ReadItem(regs, specs[i])]
  BY SameItem, ZenonT(60)
<1>5. Atomic!ReadJob(regs, specs, size) = ReadJob(regs, specs, size)
  BY <1>3, <1>4, Zenon DEF Atomic!ReadJob, ReadJob, Atomic!Ok, Ok, Atomic!Refused, Refused
<1> QED  BY <1>1, <1>2, <1>5, ZenonT(60)

\* The host's calls.
LEMMA SameHost ==
  ASSUME NEW regs, NEW r, NEW w
  PROVE  /\ Atomic!register(regs, r) = register(regs, r)
         /\ Atomic!write(regs, w) = write(regs, w)
<1>1. ASSUME NEW a, NEW b  PROVE Atomic!keyOf(a, b) = keyOf(a, b)
  BY SMT DEF Atomic!keyOf, keyOf, Atomic!MaxS7AnyDBNumber, MaxS7AnyDBNumber, Atomic!Areas, Areas
<1>2. Atomic!register(regs, r) = register(regs, r)
  BY <1>1, Zenon DEF Atomic!register, register
<1>3. Atomic!write(regs, w) = write(regs, w)
  BY <1>1, ZenonT(60) DEF Atomic!write, write, Atomic!span, span, Atomic!Overwrite, Overwrite
<1> QED  BY <1>2, <1>3, ZenonT(60)

\* What handle does with a request.
LEMMA SameHandle ==
  ASSUME NEW r, NEW size, NEW max
  PROVE  /\ Atomic!TouchesMemory(r) = TouchesMemory(r)
         /\ Atomic!Dropped(r) = Dropped(r)
         /\ Atomic!PDUSizeAfter(r, size, max) = PDUSizeAfter(r, size, max)
         /\ Atomic!AnsweredAtOnce(r, max) = AnsweredAtOnce(r, max)
<1> USE DEF Atomic!setup, setup, Atomic!Min2, Min2, Atomic!Max2, Max2, Atomic!maxAmQ, maxAmQ
<1>1. Atomic!TouchesMemory(r) = TouchesMemory(r) /\ Atomic!Dropped(r) = Dropped(r)
  BY ZenonT(60) DEF Atomic!TouchesMemory, TouchesMemory, Atomic!Dropped, Dropped
<1>2. Atomic!PDUSizeAfter(r, size, max) = PDUSizeAfter(r, size, max)
  BY Zenon DEF Atomic!PDUSizeAfter, PDUSizeAfter
<1>3. Atomic!AnsweredAtOnce(r, max) = AnsweredAtOnce(r, max)
  BY Zenon DEF Atomic!AnsweredAtOnce, AnsweredAtOnce, Atomic!Ok, Ok, Atomic!Refused, Refused
<1> QED  BY <1>1, <1>2, <1>3, ZenonT(60)

-----------------------------------------------------------------------------
(* The jobs implement AtomicMemory *)

\* The phase of a session as the other side of the lock sees it.
Phase == [s \in Sessions |-> IF st[s] \in {"lock", "drain", "items"} THEN "job" ELSE st[s]]

\* A job under way takes no abstract step.
LEMMA JobHidden ==
  ASSUME IInv, NEW s \in Sessions, st[s] \in {"lock", "drain", "items"},
         st' = st \/ \E p \in {"drain", "items"} : st' = [st EXCEPT ![s] = p],
         Visible' = Visible, UNCHANGED <<pduSize, req, answer>>
  PROVE  UNCHANGED Atomic!vars
<1>1. Phase' = Phase
  BY ZenonT(60) DEF Phase, IInv, Shape, States
<1> QED  BY <1>1, ZenonT(60) DEF Atomic!vars, Phase

\* Nobody sees a writer's changes before it returns.
LEMMA LockHidden ==
  ASSUME IInv, WInv, NEW s \in Sessions,
         RLock(s) \/ Lock(s) \/ Locked(s) \/ WriteVarItem(s) \/ (ReadVarItem(s) /\ st' = st)
  PROVE  UNCHANGED Atomic!vars
<1>1. CASE RLock(s)
  <2>1. /\ st[s] = "lock" /\ st' = [st EXCEPT ![s] = "items"]
        /\ UNCHANGED <<regions, writer, locked, pduSize, req, answer>>
    BY <1>1, ZenonT(60) DEF RLock, StartItems
  <2>2. Visible' = Visible
    BY <2>1, ZenonT(60) DEF Visible
  <2> QED  BY <2>1, <2>2, JobHidden, ZenonT(60)
<1>2. CASE Lock(s)
  <2>1. /\ st[s] = "lock" /\ st' = [st EXCEPT ![s] = "drain"]
        /\ writer = NoSession /\ writer' = s /\ locked' = regions
        /\ UNCHANGED <<regions, pduSize, req, answer>>
    BY <1>2, ZenonT(60) DEF Lock
  <2>2. Visible' = Visible
    BY <2>1, SessionsAssumption, ZenonT(60) DEF Visible
  <2> QED  BY <2>1, <2>2, JobHidden, ZenonT(60)
<1>3. CASE Locked(s)
  <2>1. /\ st[s] = "drain" /\ st' = [st EXCEPT ![s] = "items"]
        /\ UNCHANGED <<regions, writer, locked, pduSize, req, answer>>
    BY <1>3, ZenonT(60) DEF Locked, StartItems
  <2>2. Visible' = Visible
    BY <2>1, ZenonT(60) DEF Visible
  <2> QED  BY <2>1, <2>2, JobHidden, ZenonT(60)
<1>4. CASE WriteVarItem(s)
  <2>1. /\ st[s] = "items" /\ req[s].kind = "write"
        /\ UNCHANGED <<st, writer, locked, pduSize, req, answer>>
    BY <1>4, ZenonT(60) DEF WriteVarItem
  <2>2. writer = s
    BY <2>1, ZenonT(60) DEF IInv, LockDiscipline
  <2>3. Visible' = Visible
    BY <2>1, <2>2, SessionsAssumption, ZenonT(60) DEF Visible
  <2> QED  BY <2>1, <2>3, JobHidden, ZenonT(60)
<1>5. CASE ReadVarItem(s) /\ st' = st
  <2>1. st[s] = "items" /\ ~Return(s, Refused("8500"))
    BY <1>5, ZenonT(60) DEF ReadVarItem, Return, IInv, Shape
  <2>2. UNCHANGED <<regions, writer, locked, pduSize, req, answer>>
    BY <1>5, <2>1, ZenonT(60) DEF ReadVarItem, memVars
  <2>3. Visible' = Visible
    BY <2>2, ZenonT(60) DEF Visible
  <2> QED  BY <1>5, <2>1, <2>2, <2>3, JobHidden, ZenonT(60)
<1> QED  BY <1>1, <1>2, <1>3, <1>4, <1>5, ZenonT(60)

\* A request arrives.
LEMMA HandleReceives ==
  ASSUME IInv, NEW s \in Sessions, handle(s)  PROVE Atomic!Receive(s)
<1>1. PICK r \in Requests :
         /\ st[s] = "idle"
         /\ req' = [req EXCEPT ![s] = r]
         /\ pduSize' = [pduSize EXCEPT ![s] = PDUSizeAfter(r, @, MaxPDUSize)]
         /\ \/ /\ TouchesMemory(r)
               /\ st' = [st EXCEPT ![s] = "lock"]
               /\ UNCHANGED answer
            \/ /\ Dropped(r)
               /\ st' = [st EXCEPT ![s] = "dropped"]
               /\ UNCHANGED answer
            \/ /\ ~TouchesMemory(r) /\ ~Dropped(r)
               /\ st' = [st EXCEPT ![s] = "reply"]
               /\ answer' = [answer EXCEPT ![s] = AnsweredAtOnce(r, MaxPDUSize)]
  BY ZenonT(60) DEF handle
<1>2. Visible' = Visible
  BY ZenonT(60) DEF handle, memVars, Visible
<1>3. Phase[s] = "idle"
  BY <1>1, ZenonT(60) DEF Phase
<1>4. \/ /\ Atomic!TouchesMemory(r)
         /\ Phase' = [Phase EXCEPT ![s] = "job"]
         /\ UNCHANGED answer
      \/ /\ Atomic!Dropped(r)
         /\ Phase' = [Phase EXCEPT ![s] = "dropped"]
         /\ UNCHANGED answer
      \/ /\ ~Atomic!TouchesMemory(r) /\ ~Atomic!Dropped(r)
         /\ Phase' = [Phase EXCEPT ![s] = "reply"]
         /\ answer' = [answer EXCEPT ![s] = Atomic!AnsweredAtOnce(r, MaxPDUSize)]
  <2>1. ASSUME st' = [st EXCEPT ![s] = "lock"]  PROVE Phase' = [Phase EXCEPT ![s] = "job"]
    BY <2>1, ZenonT(60) DEF Phase, IInv, Shape
  <2>2. ASSUME NEW p \in {"dropped", "reply"}, st' = [st EXCEPT ![s] = p]
        PROVE  Phase' = [Phase EXCEPT ![s] = p]
    BY <2>2, ZenonT(60) DEF Phase, IInv, Shape
  <2>3. CASE TouchesMemory(r) /\ st' = [st EXCEPT ![s] = "lock"] /\ UNCHANGED answer
    BY <2>1, <2>3, SameHandle, ZenonT(60)
  <2>4. CASE Dropped(r) /\ st' = [st EXCEPT ![s] = "dropped"] /\ UNCHANGED answer
    BY <2>2, <2>4, SameHandle, ZenonT(60)
  <2>5. CASE /\ ~TouchesMemory(r) /\ ~Dropped(r) /\ st' = [st EXCEPT ![s] = "reply"]
             /\ answer' = [answer EXCEPT ![s] = AnsweredAtOnce(r, MaxPDUSize)]
    BY <2>2, <2>5, SameHandle, ZenonT(60)
  <2> QED  BY <1>1, <2>3, <2>4, <2>5, ZenonT(60)
<1>5. pduSize' = [pduSize EXCEPT ![s] = Atomic!PDUSizeAfter(r, @, MaxPDUSize)]
  <2>1. Atomic!PDUSizeAfter(r, pduSize[s], MaxPDUSize) = PDUSizeAfter(r, pduSize[s], MaxPDUSize)
    BY SameHandle, Zenon
  <2> QED  BY <1>1, <2>1, Zenon
<1> QED  BY <1>1, <1>2, <1>3, <1>4, <1>5, ZenonT(60) DEF Atomic!Receive, Phase

\* The phase of a session that returns.
LEMMA PhaseReply ==
  ASSUME IInv, NEW s \in Sessions, st[s] = "items", st' = [st EXCEPT ![s] = "reply"]
  PROVE  Phase[s] = "job" /\ Phase' = [Phase EXCEPT ![s] = "reply"]
  BY ZenonT(60) DEF Phase, IInv, Shape

\* A reader's memory is the visible one: a writer that waits for it has changed nothing.
LEMMA ReaderSeesVisible ==
  ASSUME IInv, WInv, NEW s \in Sessions, st[s] = "items", req[s].kind = "read"
  PROVE  Visible = regions /\ writer # s
<1>1. s \in readers /\ writer # s
  BY ZenonT(60) DEF IInv, LockDiscipline
<1>2. CASE writer = NoSession
  BY <1>1, <1>2, ZenonT(60) DEF Visible
<1>3. CASE writer # NoSession
  <2>1. writer \in Sessions
    BY <1>3, ZenonT(60) DEF IInv, Shape
  <2>2. st[writer] \in {"drain", "items"} /\ req[writer].kind = "write"
    BY <2>1, ZenonT(60) DEF IInv, LockDiscipline
  <2>3. st[writer] = "drain"
    BY <1>1, <2>1, <2>2, ZenonT(60) DEF IInv, LockDiscipline
  <2>4. locked = regions
    BY <2>1, <2>3, ZenonT(60) DEF WInv, Work, Written
  <2> QED  BY <1>1, <1>3, <2>4, ZenonT(60) DEF Visible
<1> QED  BY <1>2, <1>3, ZenonT(60)

\* A reader that returns the answer of the whole job has done it in one step.
LEMMA ReturnReads ==
  ASSUME IInv, WInv, NEW s \in Sessions, st[s] = "items", req[s].kind = "read", NEW a, Return(s, a),
         a = ReadJob(regions, req[s].specs, pduSize[s])
  PROVE  Atomic!Read(s)
<1>1. /\ st' = [st EXCEPT ![s] = "reply"] /\ answer' = [answer EXCEPT ![s] = a]
      /\ UNCHANGED <<regions, pduSize, req>>
  BY ZenonT(60) DEF Return
<1>2. Visible = regions /\ writer # s
  BY ReaderSeesVisible, ZenonT(60)
<1>3. Visible' = Visible
  BY <1>2, <1>1, ZenonT(60) DEF Return, Visible
<1>4. Phase[s] = "job" /\ Phase' = [Phase EXCEPT ![s] = "reply"]
  BY <1>1, PhaseReply, ZenonT(60)
<1>5. a = Atomic!ReadJob(Visible, req[s].specs, pduSize[s])
  BY <1>2, SameJob, ZenonT(60)
<1> QED  BY <1>1, <1>3, <1>4, <1>5, ZenonT(60) DEF Atomic!Read, Phase

\* An item that grows the answer past the PDU size refuses the job: the whole
\* answer, which only grows from there, would not have fitted either.
LEMMA ReadVarItemReads ==
  ASSUME IInv, WInv, NEW s \in Sessions, ReadVarItem(s), st' # st  PROVE Atomic!Read(s)
<1> DEFINE spec == req[s].specs[next[s]]
           r == ReadItem(regions, spec)
           u == used[s] + ItemNeed(spec, r, next[s] = Len(req[s].specs))
<1>1. st[s] = "items" /\ req[s].kind = "read" /\ next[s] <= Len(req[s].specs)
  BY ZenonT(60) DEF ReadVarItem
<1>2. Return(s, Refused("8500")) /\ u > pduSize[s]
  BY ZenonT(60) DEF ReadVarItem
<1>3. u \in Nat /\ u <= ReadAnswerSize(Ideal(s))
  BY <1>1, ReadVarItemCount, ZenonT(60)
<1>4. pduSize[s] \in Nat
  BY MaxPDUSizeAssumption, SMTT(30) DEF WInv, Numbers
<1>5. ReadAnswerSize(Ideal(s)) \in Nat
  <2>1. req[s] \in Requests /\ IsMemory(regions) /\ req[s].kind \in {"read", "write"}
    BY <1>1, ZenonT(60) DEF WInv, Numbers
  <2>2. Len(req[s].specs) \in Nat
    BY <2>1, JobItems, ZenonT(60)
  <2>3. Len(req[s].specs) \in 0..Len(req[s].specs)
    BY <2>2
  <2> QED  BY <2>1, <2>3, IdealSizes, ZenonT(60)
<1>6. ReadAnswerSize(Ideal(s)) > pduSize[s]
  <2> HIDE DEF u
  <2> QED  BY <1>2, <1>3, <1>4, <1>5
<1>7. ReadJob(regions, req[s].specs, pduSize[s]) = Refused("8500")
  BY <1>6, ZenonT(60) DEF ReadJob, Ideal
<1> QED  BY <1>1, <1>2, <1>7, ReturnReads, ZenonT(60)

\* read after its loop answers what the whole job answers in one step.
LEMMA ReadVarDoneReads ==
  ASSUME IInv, WInv, NEW s \in Sessions, ReadVarDone(s)  PROVE Atomic!Read(s)
<1> DEFINE a == IF used[s] > pduSize[s] THEN Refused("8500") ELSE Ok(results[s])
<1>1. st[s] = "items" /\ req[s].kind = "read" /\ next[s] > Len(req[s].specs) /\ Return(s, a)
  BY DEF ReadVarDone
<1>2. results[s] = Ideal(s) /\ used[s] = ReadAnswerSize(Ideal(s))
  BY <1>1, ReadComplete
<1>3. a = ReadJob(regions, req[s].specs, pduSize[s])
  BY <1>2, Zenon DEF ReadJob, Ideal
<1> HIDE DEF a
<1> QED  BY <1>1, <1>3, ReturnReads, ZenonT(60)

\* write after its loop: its changes appear at once, with the codes of the job.
LEMMA WriteVarDoneWrites ==
  ASSUME IInv, WInv, NEW s \in Sessions, WriteVarDone(s)  PROVE Atomic!Write(s)
<1> DEFINE n == Len(req[s].specs)
           a == Ok(results[s])
           specs == req[s].specs
           data == req[s].data
<1>1. st[s] = "items" /\ req[s].kind = "write" /\ next[s] > n /\ Return(s, a)
  BY ZenonT(60) DEF WriteVarDone
<1>2. writer = s /\ writer # NoSession
  BY <1>1, SessionsAssumption, ZenonT(60) DEF IInv, LockDiscipline
<1>3. Visible = locked /\ Visible' = regions
  BY <1>1, <1>2, ZenonT(60) DEF Visible, Return
<1>4. /\ st' = [st EXCEPT ![s] = "reply"] /\ answer' = [answer EXCEPT ![s] = a]
      /\ UNCHANGED <<regions, pduSize, req>>
  BY <1>1, ZenonT(60) DEF Return
<1>5. n \in Nat
  BY <1>1, JobItems, ZenonT(60) DEF WInv, Numbers
<1>6. next[s] = n + 1 /\ next[s] - 1 = n
  <2>1. next[s] \in Nat /\ next[s] <= n + 1
    BY <1>1, ZenonT(60) DEF IInv, Shape, WInv, Work, Written
  <2> QED  BY <1>1, <1>5, <2>1
<1>7. regions = AfterWrites(locked, specs, data, n)
  <2>1. regions = AfterWrites(locked, specs, data, next[s] - 1)
    BY <1>1, Zenon DEF WInv, Work, Written
  <2> QED  BY <2>1, <1>6, Zenon
<1>8. a = WriteJob(locked, specs, data)
  <2>1. \A i \in 1..n :
          results[s][i] = [code |-> WriteCode(AfterWrites(locked, specs, data, i - 1), specs[i], data[i]),
                           data |-> <<>>]
    BY <1>1, <1>5, <1>6, ZenonT(60) DEF WInv, Work, Written
  <2>2. DOMAIN results[s] = 1..n /\ results[s] = [i \in DOMAIN results[s] |-> results[s][i]]
    BY <1>1, ZenonT(60) DEF IInv, Made, Arrays
  <2> QED  BY <2>1, <2>2, ZenonT(60) DEF WriteJob
<1>9. Phase[s] = "job" /\ Phase' = [Phase EXCEPT ![s] = "reply"]
  BY <1>1, <1>4, PhaseReply, ZenonT(60)
<1>10. /\ Visible' = Atomic!AfterWrites(Visible, specs, data, n)
       /\ a = Atomic!WriteJob(Visible, specs, data)
  BY <1>3, <1>7, <1>8, SameJob, ZenonT(60)
<1> HIDE DEF a
<1> QED  BY <1>1, <1>4, <1>9, <1>10, ZenonT(90) DEF Atomic!Write, Phase

\* The answer is sent.
LEMMA ReplyReplies ==
  ASSUME IInv, NEW s \in Sessions, Reply(s)  PROVE Atomic!Reply(s)
<1>1. /\ st' = [st EXCEPT ![s] = "idle"] /\ st[s] = "reply"
      /\ req' = [req EXCEPT ![s] = None]
      /\ answer' = [answer EXCEPT ![s] = None]
      /\ UNCHANGED <<regions, locked, writer, pduSize>>
  BY ZenonT(60) DEF Reply, memVars
<1>2. Phase[s] = "reply" /\ Phase' = [Phase EXCEPT ![s] = "idle"]
  BY <1>1, ZenonT(60) DEF Phase, IInv, Shape
<1>3. Visible' = Visible
  BY <1>1, ZenonT(60) DEF Visible
<1> QED  BY <1>1, <1>2, <1>3, Zenon DEF Atomic!Reply, Phase

\* The host changes the memory everybody sees: there is no writer.
LEMMA HostSeen ==
  ASSUME IInv, HostRegister \/ HostWrite
  PROVE  (Atomic!HostRegister \/ Atomic!HostWrite) /\ UNCHANGED <<pduSize, Phase, req, answer>>
<1>1. Visible = regions /\ Visible' = regions'
  BY ZenonT(60) DEF HostRegister, HostWrite, Visible
<1>2. UNCHANGED <<pduSize, Phase, req, answer>>
  BY ZenonT(60) DEF HostRegister, HostWrite, Phase
<1>3. CASE HostRegister
  <2>1. PICK r \in Registers : regions' = register(regions, r)
    BY <1>3, ZenonT(60) DEF HostRegister
  <2> QED  BY <1>1, <1>2, <2>1, SameHost, ZenonT(60) DEF Atomic!HostRegister
<1>4. CASE HostWrite
  <2>1. PICK w \in HostWrites : regions' = write(regions, w)
    BY <1>4, ZenonT(60) DEF HostWrite
  <2> QED  BY <1>1, <1>2, <2>1, SameHost, ZenonT(60) DEF Atomic!HostWrite
<1> QED  BY <1>3, <1>4, ZenonT(60)

\* "a multi-item request sees and changes memory as one step"
\* (server/memory.go:80-81): the sessions, going through their items one by one
\* under memory.mu, implement AtomicMemory, for any sessions, requests and calls
\* of the host.
THEOREM JobsAreAtomic == Spec => AtomicJobs
<1>1. Init => Atomic!Init
  BY ZenonT(60) DEF Init, Atomic!Init, Visible
<1>2. IInv /\ WInv /\ [Next]_vars => [Atomic!Next]_(Atomic!vars)
  <2> SUFFICES ASSUME IInv, WInv, [Next]_vars  PROVE Atomic!Next \/ UNCHANGED Atomic!vars
    BY ZenonT(60)
  <2>1. CASE UNCHANGED vars
    BY <2>1, ZenonT(60) DEF vars, Atomic!vars, Visible
  <2>2. ASSUME NEW s \in Sessions, handle(s)  PROVE Atomic!Next
    BY <2>2, HandleReceives, ZenonT(60) DEF Atomic!Next
  <2>3. ASSUME NEW s \in Sessions, JobStep(s)  PROVE Atomic!Next \/ UNCHANGED Atomic!vars
    <3>1. \/ UNCHANGED Atomic!vars \/ Atomic!Read(s) \/ Atomic!Write(s)
      BY <2>3, LockHidden, ReadVarItemReads, ReadVarDoneReads, WriteVarDoneWrites, ZenonT(60) DEF JobStep
    <3> QED  BY <3>1, ZenonT(60) DEF Atomic!Next
  <2>4. ASSUME NEW s \in Sessions, Reply(s)  PROVE Atomic!Next
    BY <2>4, ReplyReplies, ZenonT(60) DEF Atomic!Next
  <2>5. CASE HostRegister \/ HostWrite
    BY <2>5, HostSeen, Zenon DEF Atomic!Next, Phase
  <2> QED  BY <2>1, <2>2, <2>3, <2>4, <2>5, ZenonT(60) DEF Next
<1> QED  BY <1>1, <1>2, WorkInvariance, PTL DEF Spec, AtomicJobs, Atomic!Spec

=============================================================================
