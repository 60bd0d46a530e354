----------------------- MODULE ServerLifecycleProofs -----------------------
(***************************************************************************)
(* What holds of ServerLifecycle for every number of Serve calls, Close    *)
(* calls and connections and every MaxConnections.                         *)
(***************************************************************************)
EXTENDS ServerLifecycle, FiniteSetTheorems, TLAPS

\* addConn comes before the goroutine: an open socket past addConn is in the
\* table Close walks.
OpenIsTracked ==
  \A c \in rawOpen : st[c] \in {"accepted", "slotted"} \/ c \in conns

\* Past its region, a Close has set Server.closed.
ClosingIsClosed ==
  \A k \in CloseCalls : closing[k] \in {"waiting", "returned"} => closed

\* The inductive invariant.
IInv ==
  /\ TypeOK
  /\ SlotAccounting
  /\ OpenIsTracked
  /\ ClosingIsClosed
  /\ ClosedReachesAll
  /\ CloseStopsService

InState(f, P) == {x \in Conns : f[x] \in P}

-----------------------------------------------------------------------------

(***************************************************************************)
(* Moving one connection to state v changes the number of connections in   *)
(* the states P by what v and the old state are to P: the accounting of    *)
(* slots and of the WaitGroup, step by step.                               *)
(***************************************************************************)
LEMMA MoveOne ==
  ASSUME NEW f \in [Conns -> ConnStates], NEW g \in [Conns -> ConnStates],
         NEW c \in Conns, NEW P,
         \A x \in Conns : x # c => g[x] = f[x]
  PROVE  /\ Cardinality(InState(f, P)) \in Nat
         /\ Cardinality(InState(g, P)) \in Nat
         /\ (f[c] \in P <=> g[c] \in P) =>
              Cardinality(InState(g, P)) = Cardinality(InState(f, P))
         /\ f[c] \notin P /\ g[c] \in P =>
              Cardinality(InState(g, P)) = Cardinality(InState(f, P)) + 1
         /\ f[c] \in P /\ g[c] \notin P =>
              Cardinality(InState(g, P)) = Cardinality(InState(f, P)) - 1
<1>1. IsFiniteSet(InState(f, P)) /\ IsFiniteSet(InState(g, P))
  <2>1. InState(f, P) \in SUBSET Conns /\ InState(g, P) \in SUBSET Conns
    BY DEF InState
  <2> QED  BY <2>1, FS_Subset, ServesAssumption
<1>2. Cardinality(InState(f, P)) \in Nat /\ Cardinality(InState(g, P)) \in Nat
  BY <1>1, FS_CardinalityType
<1>3. (f[c] \in P <=> g[c] \in P) => InState(g, P) = InState(f, P)
  BY DEF InState
<1>4. ASSUME f[c] \notin P, g[c] \in P
      PROVE  Cardinality(InState(g, P)) = Cardinality(InState(f, P)) + 1
  <2>1. InState(g, P) = InState(f, P) \cup {c} /\ c \notin InState(f, P)
    BY <1>4 DEF InState
  <2> QED  BY <2>1, <1>1, FS_AddElement
<1>5. ASSUME f[c] \in P, g[c] \notin P
      PROVE  Cardinality(InState(g, P)) = Cardinality(InState(f, P)) - 1
  <2>1. InState(g, P) = InState(f, P) \ {c} /\ c \in InState(f, P)
    BY <1>5 DEF InState
  <2> QED  BY <2>1, <1>1, FS_RemoveElement
<1> QED  BY <1>2, <1>3, <1>4, <1>5

\* New gives a server that satisfies the inductive invariant.
LEMMA InitIInv == Init => IInv
<1> SUFFICES ASSUME Init PROVE IInv
  OBVIOUS
<1>1. TypeOK
  BY Zenon DEF Init, TypeOK, ConnStates, ServeStates, Results, Holding, Running
<1>2. SlotAccounting
  <2>1. /\ {c \in Conns : st[c] \in Holding} = {}
        /\ {c \in Conns : st[c] \in Running} = {}
    BY DEF Init, Holding, Running
  <2> QED  BY <2>1, FS_EmptySet, MaxConnectionsAssumption DEF Init, SlotAccounting
<1>3. OpenIsTracked /\ ClosingIsClosed /\ ClosedReachesAll /\ CloseStopsService
  BY DEF Init, OpenIsTracked, ClosingIsClosed, ClosedReachesAll, CloseStopsService
<1> QED  BY <1>1, <1>2, <1>3 DEF IInv

(***************************************************************************)
(* A step that moves one connection keeps the accounting when slots and    *)
(* wg change by what the move is to Holding and to Running.                *)
(***************************************************************************)
LEMMA AccountingStep ==
  ASSUME TypeOK, SlotAccounting,
         NEW c \in Conns, NEW v \in ConnStates, st' = [st EXCEPT ![c] = v],
         \/ (st[c] \in Holding <=> v \in Holding) /\ slots' = slots
         \/ st[c] \notin Holding /\ v \in Holding /\ slots < MaxConnections /\ slots' = slots + 1
         \/ st[c] \in Holding /\ v \notin Holding /\ slots' = slots - 1,
         \/ (st[c] \in Running <=> v \in Running) /\ wg' = wg
         \/ st[c] \notin Running /\ v \in Running /\ wg' = wg + 1
         \/ st[c] \in Running /\ v \notin Running /\ wg' = wg - 1
  PROVE  SlotAccounting' /\ slots' \in Nat /\ wg' \in Nat /\ st' \in [Conns -> ConnStates]
<1>1. st \in [Conns -> ConnStates] /\ slots \in Nat /\ wg \in Nat
  BY DEF TypeOK
<1>2. /\ slots = Cardinality(InState(st, Holding)) /\ wg = Cardinality(InState(st, Running))
      /\ slots <= MaxConnections
  BY DEF SlotAccounting, InState
<1>3. st' \in [Conns -> ConnStates] /\ st'[c] = v /\ \A x \in Conns : x # c => st'[x] = st[x]
  BY <1>1
<1>4. /\ slots' = Cardinality(InState(st', Holding)) /\ slots' \in Nat
      /\ slots' <= MaxConnections
  <2>1. /\ Cardinality(InState(st, Holding)) \in Nat
        /\ Cardinality(InState(st', Holding)) \in Nat
        /\ (st[c] \in Holding <=> st'[c] \in Holding) =>
             Cardinality(InState(st', Holding)) = Cardinality(InState(st, Holding))
        /\ st[c] \notin Holding /\ st'[c] \in Holding =>
             Cardinality(InState(st', Holding)) = Cardinality(InState(st, Holding)) + 1
        /\ st[c] \in Holding /\ st'[c] \notin Holding =>
             Cardinality(InState(st', Holding)) = Cardinality(InState(st, Holding)) - 1
    BY ONLY <1>1, <1>3, c \in Conns, MoveOne
  <2> QED  BY <1>1, <1>2, <1>3, <2>1, MaxConnectionsAssumption
<1>5. wg' = Cardinality(InState(st', Running)) /\ wg' \in Nat
  <2>1. /\ Cardinality(InState(st, Running)) \in Nat
        /\ Cardinality(InState(st', Running)) \in Nat
        /\ (st[c] \in Running <=> st'[c] \in Running) =>
             Cardinality(InState(st', Running)) = Cardinality(InState(st, Running))
        /\ st[c] \notin Running /\ st'[c] \in Running =>
             Cardinality(InState(st', Running)) = Cardinality(InState(st, Running)) + 1
        /\ st[c] \in Running /\ st'[c] \notin Running =>
             Cardinality(InState(st', Running)) = Cardinality(InState(st, Running)) - 1
    BY ONLY <1>1, <1>3, c \in Conns, MoveOne
  <2> QED  BY <1>1, <1>2, <1>3, <2>1, SMTT(30)
<1> QED  BY <1>3, <1>4, <1>5 DEF SlotAccounting, InState

\* Every step of Serve, of a connection and of Close keeps it.
LEMMA NextIInv == IInv /\ [Next]_vars => IInv'
<1> SUFFICES ASSUME IInv, [Next]_vars PROVE IInv'
  OBVIOUS
<1> USE DEF IInv
<1>1. ASSUME NEW s \in Serves, Track(s) PROVE IInv'
  <2>1. TypeOK'
    BY <1>1 DEF TypeOK, Track, Returning, ServeStates, Results, syncVars
  <2> QED
    BY <1>1, <2>1 DEF Track, Returning, SlotAccounting, OpenIsTracked, ClosingIsClosed,
       ClosedReachesAll, CloseStopsService, syncVars
<1>2. ASSUME NEW s \in Serves, NEW c \in Conns, Accept(s, c) PROVE IInv'
  <2>1. SlotAccounting' /\ st' \in [Conns -> ConnStates]
    BY <1>2, AccountingStep, Zenon DEF Accept, Holding, Running, ConnStates, syncVars
  <2>2. TypeOK'
    BY <1>2, <2>1 DEF TypeOK, Accept, serverVars, syncVars
  <2>3. OpenIsTracked' /\ ClosedReachesAll' /\ CloseStopsService' /\ ClosingIsClosed'
    BY <1>2 DEF TypeOK, Accept, serverVars, syncVars, OpenIsTracked, ClosingIsClosed,
       ClosedReachesAll, CloseStopsService
  <2> QED  BY <2>1, <2>2, <2>3
<1>3. ASSUME NEW s \in Serves, AcceptError(s) PROVE IInv'
  <2>1. TypeOK'
    BY <1>3 DEF TypeOK, AcceptError, Returning, ServeStates, Results, serverVars, syncVars, netVars
  <2> QED
    BY <1>3, <2>1 DEF AcceptError, Returning, SlotAccounting, OpenIsTracked, ClosingIsClosed,
       ClosedReachesAll, CloseStopsService, serverVars, syncVars, netVars
<1>4. ASSUME NEW s \in Serves, TakeSlot(s) PROVE IInv'
  <2>0. cur[s] \in Conns
    BY <1>4 DEF TakeSlot, TypeOK
  <2>1. SlotAccounting' /\ st' \in [Conns -> ConnStates] /\ slots' \in Nat
    BY <1>4, <2>0, AccountingStep DEF TakeSlot, Holding, Running, ConnStates
  <2>2. TypeOK'
    BY <1>4, <2>0, <2>1 DEF TypeOK, TakeSlot, serverVars
  <2>3. OpenIsTracked' /\ ClosedReachesAll' /\ CloseStopsService' /\ ClosingIsClosed'
    BY <1>4, <2>0 DEF TypeOK, TakeSlot, serverVars, OpenIsTracked, ClosingIsClosed,
       ClosedReachesAll, CloseStopsService
  <2> QED  BY <2>1, <2>2, <2>3
<1>5. ASSUME NEW s \in Serves, AddConn(s) PROVE IInv'
  <2>0. cur[s] \in Conns
    BY <1>5 DEF AddConn, TypeOK
  <2>1. SlotAccounting' /\ st' \in [Conns -> ConnStates] /\ slots' \in Nat
    BY <1>5, <2>0, AccountingStep DEF AddConn, Holding, Running, ConnStates
  <2>2. TypeOK'
    BY <1>5, <2>0, <2>1 DEF TypeOK, AddConn, Returning, ServeStates, Results
  <2>3. OpenIsTracked' /\ ClosedReachesAll' /\ CloseStopsService' /\ ClosingIsClosed'
    BY <1>5, <2>0 DEF TypeOK, AddConn, OpenIsTracked, ClosingIsClosed,
       ClosedReachesAll, CloseStopsService
  <2> QED  BY <2>1, <2>2, <2>3
<1>6. ASSUME NEW s \in Serves, StartConn(s) PROVE IInv'
  <2>0. cur[s] \in Conns
    BY <1>6 DEF StartConn, TypeOK
  <2>1. SlotAccounting' /\ st' \in [Conns -> ConnStates] /\ wg' \in Nat
    BY <1>6, <2>0, AccountingStep, Zenon DEF StartConn, Holding, Running, ConnStates
  <2>2. TypeOK'
    BY <1>6, <2>0, <2>1 DEF TypeOK, StartConn, serverVars, netVars
  <2>3. OpenIsTracked' /\ ClosedReachesAll' /\ CloseStopsService' /\ ClosingIsClosed'
    BY <1>6, <2>0 DEF TypeOK, StartConn, serverVars, netVars, OpenIsTracked, ClosingIsClosed,
       ClosedReachesAll, CloseStopsService
  <2> QED  BY <2>1, <2>2, <2>3
<1>7. ASSUME NEW s \in Serves, ServeReturn(s) PROVE IInv'
  <2>1. TypeOK'
    BY <1>7 DEF TypeOK, ServeReturn, ServeStates, syncVars
  <2> QED
    BY <1>7, <2>1 DEF ServeReturn, SlotAccounting, OpenIsTracked, ClosingIsClosed,
       ClosedReachesAll, CloseStopsService, syncVars
<1>8. ASSUME NEW c \in Conns, NEW from \in Running, NEW to \in Running,
             ConnStep(c, from, to),
             to = "read" => from \in {"read", "handle", "write"} \/ c \in rawOpen,
             to \in {"handle", "write"} => from \in {"read", "handle", "write"},
             UNCHANGED <<serverVars, syncVars, netVars, serveVars, ctxDone, closing>>
      PROVE  IInv'
  <2>1. SlotAccounting' /\ st' \in [Conns -> ConnStates]
    BY <1>8, AccountingStep, Zenon DEF ConnStep, Holding, ConnStates, syncVars
  <2>2. TypeOK'
    BY <1>8, <2>1 DEF TypeOK, serverVars, syncVars, netVars, serveVars
  <2>3. OpenIsTracked' /\ ClosingIsClosed'
    BY <1>8 DEF TypeOK, ConnStep, Running, serverVars, netVars, OpenIsTracked, ClosingIsClosed
  <2>4. ClosedReachesAll'
    BY <1>8 DEF TypeOK, ConnStep, Running, serverVars, netVars, ClosedReachesAll
  <2>5. CloseStopsService'
    BY <1>8 DEF TypeOK, ConnStep, Running, serverVars, netVars, ClosedReachesAll,
       ClosingIsClosed, CloseStopsService
  <2> QED  BY <2>1, <2>2, <2>3, <2>4, <2>5
<1>9. ASSUME NEW c \in Conns,
             \/ HandshakeOK(c) \/ HandshakeFail(c) \/ ReadRequest(c) \/ ReadFail(c)
             \/ Handle(c) \/ WriteOK(c) \/ WriteFail(c)
      PROVE  IInv'
  BY <1>8, <1>9 DEF HandshakeOK, HandshakeFail, ReadRequest, ReadFail, Handle, WriteOK,
     WriteFail, Running
<1>10. ASSUME NEW c \in Conns, RemoveConn(c) PROVE IInv'
  <2>1. SlotAccounting' /\ st' \in [Conns -> ConnStates]
    BY <1>10, AccountingStep, Zenon DEF RemoveConn, ConnStep, Holding, Running, ConnStates, syncVars
  <2>2. TypeOK'
    BY <1>10, <2>1 DEF TypeOK, RemoveConn, syncVars, serveVars
  <2>3. OpenIsTracked' /\ ClosedReachesAll' /\ CloseStopsService' /\ ClosingIsClosed'
    BY <1>10 DEF TypeOK, RemoveConn, ConnStep, OpenIsTracked, ClosingIsClosed,
       ClosedReachesAll, CloseStopsService
  <2> QED  BY <2>1, <2>2, <2>3
<1>11. ASSUME NEW c \in Conns, ReleaseSlot(c) PROVE IInv'
  <2>1. SlotAccounting' /\ st' \in [Conns -> ConnStates] /\ slots' \in Nat /\ wg' \in Nat
    BY <1>11, AccountingStep, Zenon DEF ReleaseSlot, ConnStep, Holding, Running, ConnStates
  <2>2. TypeOK'
    BY <1>11, <2>1 DEF TypeOK, ReleaseSlot, serverVars, netVars, serveVars
  <2>3. OpenIsTracked' /\ ClosedReachesAll' /\ CloseStopsService' /\ ClosingIsClosed'
    BY <1>11 DEF TypeOK, ReleaseSlot, ConnStep, serverVars, netVars, OpenIsTracked,
       ClosingIsClosed, ClosedReachesAll, CloseStopsService
  <2> QED  BY <2>1, <2>2, <2>3
<1>12. ASSUME NEW s \in Serves, AfterFuncFires(s) \/ CtxEnds(s) PROVE IInv'
  <2>1. TypeOK'
    BY <1>12 DEF TypeOK, AfterFuncFires, CtxEnds, CloseCalls, serverVars, syncVars, netVars, serveVars
  <2>2. SlotAccounting' /\ OpenIsTracked' /\ ClosedReachesAll'
    BY <1>12, SMTT(30) DEF AfterFuncFires, CtxEnds, SlotAccounting, OpenIsTracked, ClosedReachesAll,
       serverVars, syncVars, netVars
  <2>3. ClosingIsClosed' /\ CloseStopsService'
    BY <1>12 DEF TypeOK, AfterFuncFires, CtxEnds, ClosingIsClosed, CloseStopsService,
       serverVars
  <2> QED  BY <2>1, <2>2, <2>3
<1>13. ASSUME NEW c \in Conns, PeerLeaves(c) PROVE IInv'
  <2>1. TypeOK'
    BY <1>13 DEF TypeOK, PeerLeaves, serverVars, syncVars, serveVars
  <2> QED
    BY <1>13, <2>1 DEF PeerLeaves, SlotAccounting, OpenIsTracked, ClosingIsClosed,
       ClosedReachesAll, CloseStopsService, serverVars, syncVars
<1>14. ASSUME NEW k \in CloseCalls, CallClose(k) PROVE IInv'
  <2>1. TypeOK'
    BY <1>14 DEF TypeOK, CallClose, serverVars, syncVars, netVars, serveVars
  <2> QED
    BY <1>14, <2>1 DEF TypeOK, CallClose, SlotAccounting, OpenIsTracked, ClosingIsClosed,
       ClosedReachesAll, CloseStopsService, serverVars, syncVars, netVars
<1>15. ASSUME NEW k \in CloseCalls, CloseAll(k) PROVE IInv'
  <2>1. TypeOK'
    BY <1>15 DEF TypeOK, CloseAll, syncVars, serveVars
  <2>2. SlotAccounting' /\ OpenIsTracked' /\ ClosingIsClosed' /\ CloseStopsService'
    BY <1>15 DEF TypeOK, CloseAll, SlotAccounting, OpenIsTracked, ClosingIsClosed,
       CloseStopsService, syncVars
  <2>3. ClosedReachesAll'
    BY <1>15 DEF CloseAll, OpenIsTracked, ClosedReachesAll
  <2> QED  BY <2>1, <2>2, <2>3
<1>16. ASSUME NEW k \in CloseCalls, CloseReturn(k) PROVE IInv'
  <2>1. TypeOK'
    BY <1>16 DEF TypeOK, CloseReturn, serverVars, syncVars, netVars, serveVars
  <2>2. SlotAccounting' /\ OpenIsTracked' /\ ClosingIsClosed' /\ ClosedReachesAll'
    BY <1>16 DEF TypeOK, CloseReturn, SlotAccounting, OpenIsTracked, ClosingIsClosed,
       ClosedReachesAll, serverVars, syncVars, netVars
  <2>3. InState(st, Running) = {}
    <3>1. Cardinality(InState(st, Running)) = 0
      BY <1>16 DEF CloseReturn, SlotAccounting, InState
    <3>2. InState(st, Running) \in SUBSET Conns
      BY DEF InState
    <3> QED  BY <3>1, <3>2, FS_Subset, FS_EmptySet, ServesAssumption
  <2>4. CloseStopsService'
    BY <1>16, <2>3 DEF CloseReturn, CloseStopsService, InState, Running
  <2> QED  BY <2>1, <2>2, <2>4
<1>17. CASE UNCHANGED vars
  BY <1>17 DEF vars, serverVars, syncVars, netVars, serveVars, TypeOK, SlotAccounting,
     OpenIsTracked, ClosingIsClosed, ClosedReachesAll, CloseStopsService
<1> QED
  BY <1>1, <1>2, <1>3, <1>4, <1>5, <1>6, <1>7, <1>9, <1>10, <1>11, <1>12, <1>13, <1>14,
     <1>15, <1>16, <1>17 DEF Next, ServeStep, ServeConn, CloseStep

-----------------------------------------------------------------------------

\* The inductive invariant holds of every behaviour of the server.
THEOREM Invariance == Spec => []IInv
  BY InitIInv, NextIInv, PTL DEF Spec

\* Every variable keeps its type.
THEOREM TypeCorrect == Spec => []TypeOK
  BY Invariance, PTL DEF IInv

\* slots and wg count exactly the connections that hold them, and no more
\* than MaxConnections are served, on every path through Serve and serveConn.
THEOREM SlotsAccounted == Spec => []SlotAccounting
  BY Invariance, PTL DEF IInv

\* A Close leaves no registered connection open, whatever Serve is doing.
THEOREM CloseReachesEveryConnection == Spec => []ClosedReachesAll
  BY Invariance, PTL DEF IInv

\* No connection is served after a Close has returned.
THEOREM NoServiceAfterClose == Spec => []CloseStopsService
  BY Invariance, PTL DEF IInv

=============================================================================
