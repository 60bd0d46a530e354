------------------------- MODULE ClientSessionProofs -------------------------
(***************************************************************************)
(* Proofs about ClientSession, for any number of callers, references,      *)
(* connections and requests.                                               *)
(*                                                                         *)
(* The inductive invariant says that a caller inside a call holds reqMu,   *)
(* that the negotiated fields belong to the connection in conn, which is   *)
(* never a closed one, and that a connection no exchange was abandoned on  *)
(* carries at most one message, that of the exchange in progress.          *)
(*                                                                         *)
(* The second part shows that a connection on which an exchange left its   *)
(* answer unread stays out of step.  Requests are numbered in the order    *)
(* they are sent and answered in that order, so the answer at the head of  *)
(* the stream is the oldest message of the connection.  An abandoned       *)
(* connection always holds a message older than the request in progress:   *)
(* the one that was left, or the one that the exchange that read it has    *)
(* left in its place.                                                      *)
(***************************************************************************)
EXTENDS ClientSession, TLAPS

Exchanging == {"written", "reading"}

\* A caller inside a call holds reqMu.
Exclusive == \A g \in Callers : pc[g] \in InCall => reqMu = g

\* Connections are dialled in order; conn is one of them and is not closed.
ConnUsable ==
  /\ conn <= dialled
  /\ conn # 0 => cst[conn] \in {"open", "dropped", "aborted"}
  /\ session = conn

\* Only dialled connections have a state.
DialledInOrder == \A k \in Conns : k > dialled => cst[k] = "none"

\* What an operation remembers of the session is true of it.
OpLocals ==
  \A g \in Callers :
    /\ pc[g] \in OpStates => planned[g] = conn
    /\ pc[g] \in Exchanging =>
         /\ using[g] = conn
         /\ conn # 0
         /\ want[g] = pduRef
         /\ have[g] = 0
         /\ res[g] # "PDURefMismatch"

\* What connectOnce remembers of the session is true of it.
ConnectLocals ==
  \A g \in Callers :
    /\ pc[g] \in {"dial", "setup"} => before[g] = conn
    /\ pc[g] = "setup" => new[g] \in Conns /\ new[g] # conn /\ new[g] <= dialled
    /\ pc[g] = "swapped" => old[g] # conn /\ old[g] <= dialled

\* The state of the locks, of the connections and of the callers.
Control == TypeOK /\ Exclusive /\ ConnUsable /\ DialledInOrder /\ OpLocals /\ ConnectLocals

-----------------------------------------------------------------------------
(* Numbers, messages and calls that return *)

\* The messages of a queue carry the reference of a request sent before the
\* n+1st.
Sent(q, n) == \A i \in 1..Len(q) : q[i].id <= n /\ q[i].ref = q[i].id % RefMod

\* References are natural numbers.
LEMMA RefNat == \A n \in Nat : n % RefMod \in Nat
  BY RefModAssumption, SMT

\* Taking a message from a queue leaves the others as they were.
LEMMA TailOfQueue ==
  ASSUME NEW S, NEW q \in Seq(S), q # <<>>
  PROVE  /\ Head(q) = q[1] /\ Head(q) \in S /\ 1 \in 1..Len(q)
         /\ Tail(q) \in Seq(S)
         /\ \A n : Sent(q, n) => Sent(Tail(q), n)
  <1>1. \A i \in 1..Len(Tail(q)) : i + 1 \in 1..Len(q) /\ Tail(q)[i] = q[i + 1]
    OBVIOUS
  <1>2. \A n : Sent(q, n) => Sent(Tail(q), n)
    BY <1>1 DEF Sent
  <1>3. /\ Head(q) = q[1] /\ Head(q) \in S /\ 1 \in 1..Len(q)
        /\ Tail(q) \in Seq(S)
    OBVIOUS
  <1> QED
    BY <1>2, <1>3

\* Adding a message to a queue leaves the others as they were.
LEMMA AppendToQueue ==
  ASSUME NEW S, NEW q \in Seq(S), NEW e \in S
  PROVE  /\ Append(q, e) \in Seq(S)
         /\ \A n : Sent(q, n) /\ e.id <= n /\ e.ref = e.id % RefMod => Sent(Append(q, e), n)
  <1>1. \A i \in 1..Len(Append(q, e)) :
          Append(q, e)[i] = e \/ (i \in 1..Len(q) /\ Append(q, e)[i] = q[i])
    OBVIOUS
  <1>2. \A n : Sent(q, n) /\ e.id <= n /\ e.ref = e.id % RefMod => Sent(Append(q, e), n)
    BY <1>1 DEF Sent
  <1>3. Append(q, e) \in Seq(S)
    OBVIOUS
  <1> QED
    BY <1>2, <1>3

\* References grow.
LEMMA NextRefGrows ==
  ASSUME NEW n \in Nat
  PROVE  nextPDURef(n) \in Nat /\ nextPDURef(n) > n
  BY DEF nextPDURef

\* What the proofs use of the numbering of connections.
LEMMA ConnNumbers ==
  /\ 0 \in ConnIds /\ 0 \notin Conns
  /\ \A k \in Conns : k \in ConnIds /\ k \in Nat
  /\ \A k \in ConnIds : k \in Nat /\ (k # 0 => k \in Conns)
  /\ \A k \in ConnIds : k < MaxConns => k + 1 \in Conns
  BY BoundsAssumption DEF Conns, ConnIds

\* A call that returns leaves well-typed locals.
LEMMA ReturnTypes ==
  ASSUME CallTypeOK, NEW g \in Callers, Return(g)
  PROVE  CallTypeOK'
  BY ConnNumbers DEF CallTypeOK, Return, Goto, Outcome, Outcomes

\* So does one that tries the next rack/slot pair.
LEMMA NextTryTypes ==
  ASSUME CallTypeOK, NEW g \in Callers, NextTry(g)
  PROVE  CallTypeOK'
  <1>1. CASE Return(g)
    BY <1>1, ReturnTypes
  <1>2. CASE ~Return(g)
    BY <1>2, ConnNumbers DEF NextTry, CallTypeOK, Goto, opVars, InCall
  <1> QED
    BY <1>1, <1>2

-----------------------------------------------------------------------------
\* A new Client is in order.
LEMMA InitControl == Init => Control
  <1> SUFFICES ASSUME Init
               PROVE  Control
    OBVIOUS
  <1> USE CallersAssumption, BoundsAssumption DEF Init, Conns, ConnIds, InCall, OpStates, Exchanging
  <1>1. TypeOK
    BY DEF TypeOK, ClientTypeOK, NetTypeOK, CallTypeOK, Outcomes
  <1>2. Exclusive /\ ConnUsable /\ DialledInOrder /\ OpLocals /\ ConnectLocals
    BY SMTT(30) DEF Exclusive, ConnUsable, DialledInOrder, OpLocals, ConnectLocals
  <1> QED
    BY <1>1, <1>2 DEF Control


(* Steps preserve Control: one case per action *)

\* The locks, the connections and the callers stay in order.
LEMMA NextControl == Control /\ [Next]_vars => Control'
  <1> SUFFICES ASSUME Control, [Next]_vars
               PROVE  Control'
    OBVIOUS
  <1> USE CallersAssumption, ConnNumbers
      DEF Control, TypeOK, InCall, OpStates, Exchanging, Goto, Outcome, Live,
          clientVars, netVars, opVars, connectVars
  <1>1. ASSUME NEW g \in Callers, NEW c \in {"op", "Connect", "Close"}, Call(g, c)
        PROVE  Control'
    <2>1. ClientTypeOK'
      BY <1>1 DEF ClientTypeOK, CallTypeOK, Call
    <2>2. NetTypeOK'
      BY <1>1 DEF ClientTypeOK, NetTypeOK, OpLocals, ConnUsable, Call
    <2>3. CallTypeOK'
      BY <1>1, Zenon DEF ClientTypeOK, NetTypeOK, CallTypeOK, Outcomes, Call
    <2>4. Exclusive'
      BY <1>1, ZenonT(60) DEF CallTypeOK, Exclusive, Call
    <2>5. (ConnUsable /\ DialledInOrder)'
      BY <1>1, ZenonT(60) DEF ClientTypeOK, NetTypeOK, CallTypeOK, ConnUsable, DialledInOrder, ConnectLocals, Call
    <2>6. OpLocals'
      BY <1>1, ZenonT(60) DEF CallTypeOK, Exclusive, ConnUsable, OpLocals, Call
    <2>7. ConnectLocals'
      BY <1>1 DEF ClientTypeOK, NetTypeOK, CallTypeOK, Exclusive, ConnUsable, ConnectLocals, Call
    <2> QED
      BY <2>1, <2>2, <2>3, <2>4, <2>5, <2>6, <2>7, ZenonT(60)
  <1>2. ASSUME NEW g \in Callers, Lock(g)
        PROVE  Control'
    <2>1. ClientTypeOK'
      BY <1>2 DEF ClientTypeOK, CallTypeOK, Lock
    <2>2. NetTypeOK'
      BY <1>2 DEF ClientTypeOK, NetTypeOK, OpLocals, ConnUsable, Lock
    <2>3. CallTypeOK'
      BY <1>2 DEF ClientTypeOK, CallTypeOK, Lock
    <2>4. Exclusive'
      BY <1>2 DEF CallTypeOK, Exclusive, Lock
    <2>5. (ConnUsable /\ DialledInOrder)'
      BY <1>2 DEF ClientTypeOK, NetTypeOK, CallTypeOK, ConnUsable, DialledInOrder, ConnectLocals, Lock
    <2>6. OpLocals'
      BY <1>2 DEF CallTypeOK, Exclusive, ConnUsable, OpLocals, Lock
    <2>7. ConnectLocals'
      BY <1>2, Zenon DEF ClientTypeOK, NetTypeOK, CallTypeOK, Exclusive, ConnUsable, ConnectLocals, Lock
    <2> QED
      BY <2>1, <2>2, <2>3, <2>4, <2>5, <2>6, <2>7
  <1>3. ASSUME NEW g \in Callers, SendRequest(g)
        PROVE  Control'
    <2>1. ClientTypeOK'
      BY <1>3, NextRefGrows, ZenonT(60) DEF ClientTypeOK, SendRequest
    <2>2. NetTypeOK'
      <3>0. pduRef' \in Nat
        BY <2>1 DEF ClientTypeOK
      <3>1. pduRef' \in Nat /\ pduRef' % RefMod \in Nat
        BY <3>0, RefNat
      <3>2. cst' \in [Conns -> {"none", "open", "dropped", "aborted", "closed"}]
        BY <1>3, Zenon DEF NetTypeOK, SendRequest
      <3>3. reqs' \in [Conns -> Seq(Requests)]
        <4> DEFINE m == [id |-> pduRef', ref |-> pduRef' % RefMod]
        <4>1. m \in Requests
          BY <3>1 DEF Requests
        <4>2. \A k \in Conns : Append(reqs[k], m) \in Seq(Requests)
          BY <4>1, AppendToQueue, ZenonT(60) DEF NetTypeOK
        <4>3. \/ reqs' = reqs
              \/ conn \in Conns /\ reqs' = [reqs EXCEPT ![conn] = Append(reqs[conn], m)]
          BY <1>3 DEF SendRequest, ClientTypeOK
        <4> HIDE DEF m
        <4> QED
          BY ONLY NetTypeOK, <4>2, <4>3, Zenon DEF NetTypeOK
      <3> QED
        BY <1>3, <3>2, <3>3 DEF NetTypeOK, SendRequest
    <2>3. CallTypeOK'
      <3>1. pduRef' \in Nat
        BY <2>1 DEF ClientTypeOK
      <3> QED
        BY <1>3, <3>1, Zenon DEF ClientTypeOK, CallTypeOK, Outcomes, SendRequest
    <2>a. /\ UNCHANGED <<reqMu, conn, session, dialled, connectVars>>
          /\ pc[g] = "op"
          /\ pc' = pc \/ pc' = [pc EXCEPT ![g] = "written"]
          /\ cst' = cst \/ (conn # 0 /\ cst' = [cst EXCEPT ![conn] = "aborted"])
      BY <1>3 DEF SendRequest
    <2>b. \A h \in Callers : pc'[h] = pc[h] \/ (pc[h] = "op" /\ pc'[h] = "written")
      BY <2>a DEF CallTypeOK
    <2>4. Exclusive'
      BY <2>a, <2>b DEF Exclusive
    <2>5. (ConnUsable /\ DialledInOrder)'
      BY <2>a, ZenonT(60) DEF ClientTypeOK, NetTypeOK, ConnUsable, DialledInOrder
    <2>6. OpLocals'
      <3>1. /\ want' = [want EXCEPT ![g] = pduRef'] /\ have' = [have EXCEPT ![g] = 0]
            /\ using' = [using EXCEPT ![g] = conn] /\ planned' = planned
            /\ pc' = pc \/ (conn # 0 /\ res' = [res EXCEPT ![g] = "none"])
            /\ \A h \in Callers : h # g => res'[h] = res[h]
        BY <1>3, ZenonT(60) DEF SendRequest, Outcome, CallTypeOK
      <3>2. \A h \in Callers : h # g => pc[h] \notin OpStates /\ pc'[h] \notin OpStates
        BY <1>3, <2>a, <2>b DEF Exclusive, OpStates, InCall
      <3> QED  BY <1>3, <2>a, <2>b, <3>1, <3>2 DEF CallTypeOK, OpLocals, OpStates, Exchanging
    <2>7. ConnectLocals'
      BY <2>a, <2>b DEF ConnectLocals
    <2> QED
      BY <2>1, <2>2, <2>3, <2>4, <2>5, <2>6, <2>7
  <1>4. ASSUME NEW g \in Callers, CheckCtx(g)
        PROVE  Control'
    <2>1. ClientTypeOK'
      BY <1>4 DEF ClientTypeOK, CallTypeOK, CheckCtx
    <2>2. NetTypeOK'
      BY <1>4, Zenon DEF ClientTypeOK, NetTypeOK, OpLocals, ConnUsable, CheckCtx
    <2>3. CallTypeOK'
      BY <1>4, ZenonT(60) DEF ClientTypeOK, NetTypeOK, CallTypeOK, Outcomes, CheckCtx
    <2>4. Exclusive'
      BY <1>4, ZenonT(60) DEF CallTypeOK, Exclusive, CheckCtx
    <2>5. (ConnUsable /\ DialledInOrder)'
      BY <1>4, ZenonT(60) DEF ClientTypeOK, NetTypeOK, CallTypeOK, ConnUsable, DialledInOrder, ConnectLocals, CheckCtx
    <2>6. OpLocals'
      BY <1>4 DEF CallTypeOK, Exclusive, ConnUsable, OpLocals, CheckCtx
    <2>7. ConnectLocals'
      BY <1>4, ZenonT(60) DEF CallTypeOK, ConnectLocals, CheckCtx
    <2> QED
      BY <2>1, <2>2, <2>3, <2>4, <2>5, <2>6, <2>7
  <1>5. ASSUME NEW g \in Callers, ReadAnswer(g)
        PROVE  Control'
    <2>1. ClientTypeOK'
      BY <1>5, ZenonT(60) DEF ClientTypeOK, CallTypeOK, ReadAnswer, CheckAnswer
    <2>2. NetTypeOK'
      BY <1>5 DEF ClientTypeOK, NetTypeOK, OpLocals, ConnUsable, ReadAnswer, CheckAnswer
    <2>3. CallTypeOK'
      <3>1. using[g] \in Conns
        BY <1>5 DEF ReadAnswer, OpLocals, ClientTypeOK
      <3>2. answers[using[g]] \in Seq(Answers) /\ answers[using[g]] # <<>>
        BY <1>5, <3>1 DEF ReadAnswer, NetTypeOK
      <3>3. Head(answers[using[g]]) \in Answers
        BY <3>2, TailOfQueue
      <3>4. Head(answers[using[g]]).id \in Nat
        BY <3>3, ZenonT(60) DEF Answers
      <3> QED
        BY <1>5, <3>4, ZenonT(60) DEF CallTypeOK, Outcomes, ReadAnswer, CheckAnswer
    <2>4. Exclusive'
      BY <1>5, ZenonT(60) DEF CallTypeOK, Exclusive, ReadAnswer, CheckAnswer
    <2>5. (ConnUsable /\ DialledInOrder)'
      BY <1>5, ZenonT(60) DEF ClientTypeOK, NetTypeOK, CallTypeOK, ConnUsable, DialledInOrder, ConnectLocals, ReadAnswer, CheckAnswer
    <2>6. OpLocals'
      BY <1>5, ZenonT(60) DEF CallTypeOK, Exclusive, ConnUsable, OpLocals, ReadAnswer, CheckAnswer
    <2>7. ConnectLocals'
      BY <1>5 DEF ClientTypeOK, NetTypeOK, CallTypeOK, Exclusive, ConnUsable, ConnectLocals, ReadAnswer, CheckAnswer
    <2> QED
      BY <2>1, <2>2, <2>3, <2>4, <2>5, <2>6, <2>7
  <1>6. ASSUME NEW g \in Callers, ReadError(g)
        PROVE  Control'
    <2>1. ClientTypeOK'
      BY <1>6 DEF ClientTypeOK, CallTypeOK, ReadError
    <2>2. NetTypeOK'
      <3>1. using[g] \in Conns
        BY <1>6, ZenonT(60) DEF ReadError, OpLocals, ClientTypeOK
      <3>2. UNCHANGED <<dialled, reqs, answers>>
        BY <1>6, ZenonT(60) DEF ReadError
      <3>3. abandoned' = abandoned \cup {using[g]}
        BY <1>6, ZenonT(60) DEF ReadError
      <3>4. cst' = cst \/ cst' = [cst EXCEPT ![using[g]] = "aborted"]
        BY <1>6 DEF ReadError
      <3> QED
        BY <3>1, <3>2, <3>3, <3>4, Zenon DEF NetTypeOK
    <2>3. CallTypeOK'
      BY <1>6, Zenon DEF ClientTypeOK, NetTypeOK, CallTypeOK, Outcomes, ReadError
    <2>4. Exclusive'
      BY <1>6, ZenonT(60) DEF CallTypeOK, Exclusive, ReadError
    <2>5. (ConnUsable /\ DialledInOrder)'
      BY <1>6, ZenonT(60) DEF ClientTypeOK, NetTypeOK, CallTypeOK, ConnUsable, DialledInOrder, ConnectLocals, ReadError
    <2>6. OpLocals'
      BY <1>6 DEF CallTypeOK, Exclusive, ConnUsable, OpLocals, ReadError
    <2>7. ConnectLocals'
      BY <1>6 DEF ClientTypeOK, NetTypeOK, CallTypeOK, Exclusive, ConnUsable, ConnectLocals, ReadError
    <2> QED
      BY <2>1, <2>2, <2>3, <2>4, <2>5, <2>6, <2>7
  <1>7. ASSUME NEW g \in Callers, OpReturn(g)
        PROVE  Control'
    <2>1. ClientTypeOK'
      BY <1>7 DEF ClientTypeOK, CallTypeOK, OpReturn, Return
    <2>2. NetTypeOK'
      BY <1>7 DEF ClientTypeOK, NetTypeOK, OpLocals, ConnUsable, OpReturn, Return
    <2>3. CallTypeOK'
      BY <1>7, Zenon DEF ClientTypeOK, NetTypeOK, CallTypeOK, Outcomes, OpReturn, Return
    <2>4. Exclusive'
      BY <1>7, ZenonT(60) DEF CallTypeOK, Exclusive, OpReturn, Return
    <2>5. (ConnUsable /\ DialledInOrder)'
      BY <1>7, ZenonT(60) DEF ClientTypeOK, NetTypeOK, CallTypeOK, ConnUsable, DialledInOrder, ConnectLocals, OpReturn, Return
    <2>6. OpLocals'
      BY <1>7, ZenonT(60) DEF CallTypeOK, Exclusive, ConnUsable, OpLocals, OpReturn, Return
    <2>7. ConnectLocals'
      BY <1>7, ZenonT(60) DEF ClientTypeOK, NetTypeOK, CallTypeOK, Exclusive, ConnUsable, ConnectLocals, OpReturn, Return
    <2> QED
      BY <2>1, <2>2, <2>3, <2>4, <2>5, <2>6, <2>7
  <1>8. ASSUME NEW g \in Callers, ConnectCtx(g)
        PROVE  Control'
    <2>1. ClientTypeOK'
      BY <1>8, ZenonT(60) DEF ClientTypeOK, CallTypeOK, ConnectCtx, Return
    <2>2. NetTypeOK'
      BY <1>8 DEF ClientTypeOK, NetTypeOK, OpLocals, ConnUsable, ConnectCtx, Return
    <2>3. CallTypeOK'
      BY <1>8, Zenon DEF ClientTypeOK, NetTypeOK, CallTypeOK, Outcomes, ConnectCtx, Return
    <2>4. Exclusive'
      BY <1>8, ZenonT(60) DEF CallTypeOK, Exclusive, ConnectCtx, Return
    <2>5. (ConnUsable /\ DialledInOrder)'
      BY <1>8, ZenonT(60) DEF ClientTypeOK, NetTypeOK, CallTypeOK, ConnUsable, DialledInOrder, ConnectLocals, ConnectCtx, Return
    <2>6. OpLocals'
      BY <1>8, ZenonT(60) DEF CallTypeOK, Exclusive, ConnUsable, OpLocals, ConnectCtx, Return
    <2>7. ConnectLocals'
      BY <1>8, ZenonT(60) DEF ClientTypeOK, NetTypeOK, CallTypeOK, Exclusive, ConnUsable, ConnectLocals, ConnectCtx, Return
    <2> QED
      BY <2>1, <2>2, <2>3, <2>4, <2>5, <2>6, <2>7
  <1>9. ASSUME NEW g \in Callers, DialFail(g)
        PROVE  Control'
    <2>1. ClientTypeOK'
      BY <1>9, ZenonT(60) DEF ClientTypeOK, CallTypeOK, DialFail, NextTry, Return
    <2>2. NetTypeOK'
      BY <1>9 DEF ClientTypeOK, NetTypeOK, OpLocals, ConnUsable, DialFail, NextTry, Return
    <2>3. CallTypeOK'
      BY <1>9, NextTryTypes, ZenonT(60) DEF DialFail
    <2>4. Exclusive'
      BY <1>9 DEF CallTypeOK, Exclusive, DialFail, NextTry, Return
    <2>5. (ConnUsable /\ DialledInOrder)'
      BY <1>9, ZenonT(60) DEF ClientTypeOK, NetTypeOK, CallTypeOK, ConnUsable, DialledInOrder, ConnectLocals, DialFail, NextTry, Return
    <2>6. OpLocals'
      BY <1>9 DEF CallTypeOK, Exclusive, ConnUsable, OpLocals, DialFail, NextTry, Return
    <2>7. ConnectLocals'
      <3>1. CASE Return(g)
        BY <1>9, <3>1, ZenonT(60) DEF CallTypeOK, Exclusive, ConnectLocals, DialFail, Return
      <3>2. CASE ~Return(g)
        BY <1>9, <3>2, ZenonT(60) DEF CallTypeOK, Exclusive, ConnectLocals, DialFail, NextTry
      <3> QED
        BY <3>1, <3>2, ZenonT(60)
    <2> QED
      BY <2>1, <2>2, <2>3, <2>4, <2>5, <2>6, <2>7
  <1>10. ASSUME NEW g \in Callers, DialOK(g)
        PROVE  Control'
    <2>1. ClientTypeOK'
      BY <1>10, ZenonT(60) DEF ClientTypeOK, DialOK
    <2>2. NetTypeOK'
      BY <1>10 DEF ClientTypeOK, NetTypeOK, OpLocals, ConnUsable, DialOK
    <2>3. CallTypeOK'
      BY <1>10, Zenon DEF ClientTypeOK, NetTypeOK, CallTypeOK, Outcomes, DialOK
    <2>4. Exclusive'
      BY <1>10, ZenonT(60) DEF CallTypeOK, Exclusive, DialOK
    <2>5. (ConnUsable /\ DialledInOrder)'
      <3>1. dialled' \in Conns /\ dialled' = dialled + 1 /\ dialled \in Nat
        BY <1>10, ZenonT(60) DEF NetTypeOK, DialOK
      <3>2. conn' = conn /\ session' = session /\ cst' = [cst EXCEPT ![dialled'] = "open"]
        BY <1>10, ZenonT(60) DEF DialOK
      <3> QED
        BY <3>1, <3>2 DEF ClientTypeOK, NetTypeOK, ConnUsable, DialledInOrder
    <2>6. OpLocals'
      BY <1>10, ZenonT(60) DEF CallTypeOK, Exclusive, ConnUsable, OpLocals, DialOK
    <2>7. ConnectLocals'
      <3>1. dialled' \in Conns /\ dialled' = dialled + 1 /\ dialled \in Nat
        BY <1>10 DEF NetTypeOK, DialOK
      <3>2. dialled' # conn
        BY <3>1 DEF ConnUsable, ClientTypeOK
      <3> QED
        BY <1>10, <3>1, <3>2 DEF CallTypeOK, Exclusive, ConnectLocals, DialOK
    <2> QED
      BY <2>1, <2>2, <2>3, <2>4, <2>5, <2>6, <2>7
  <1>11. ASSUME NEW g \in Callers, SetupFail(g)
        PROVE  Control'
    <2>1. ClientTypeOK'
      BY <1>11 DEF ClientTypeOK, CallTypeOK, SetupFail, NextTry, Return
    <2>2. NetTypeOK'
      BY <1>11, ZenonT(60) DEF ClientTypeOK, NetTypeOK, OpLocals, ConnUsable, SetupFail, NextTry, Return
    <2>3. CallTypeOK'
      BY <1>11, NextTryTypes, ZenonT(60) DEF SetupFail
    <2>4. Exclusive'
      BY <1>11, SMTT(30) DEF CallTypeOK, Exclusive, SetupFail, NextTry, Return
    <2>5. (ConnUsable /\ DialledInOrder)'
      BY <1>11, SMTT(30) DEF ClientTypeOK, NetTypeOK, CallTypeOK, ConnUsable, DialledInOrder, ConnectLocals, SetupFail, NextTry, Return
    <2>6. OpLocals'
      BY <1>11 DEF CallTypeOK, Exclusive, ConnUsable, OpLocals, SetupFail, NextTry, Return
    <2>7. ConnectLocals'
      <3>1. CASE Return(g)
        BY <1>11, <3>1, ZenonT(60) DEF CallTypeOK, Exclusive, ConnectLocals, SetupFail, Return
      <3>2. CASE ~Return(g)
        BY <1>11, <3>2, ZenonT(60) DEF CallTypeOK, Exclusive, ConnectLocals, SetupFail, NextTry
      <3> QED
        BY <3>1, <3>2
    <2> QED
      BY <2>1, <2>2, <2>3, <2>4, <2>5, <2>6, <2>7
  <1>12. ASSUME NEW g \in Callers, SetupOK(g)
        PROVE  Control'
    <2>1. ClientTypeOK'
      BY <1>12, ZenonT(60) DEF ClientTypeOK, ConnectLocals, SetupOK
    <2>2. NetTypeOK'
      BY <1>12 DEF ClientTypeOK, NetTypeOK, OpLocals, ConnUsable, SetupOK
    <2>3. CallTypeOK'
      BY <1>12, Zenon DEF ClientTypeOK, NetTypeOK, CallTypeOK, Outcomes, SetupOK
    <2>4. Exclusive'
      BY <1>12, ZenonT(60) DEF CallTypeOK, Exclusive, SetupOK
    <2>5. (ConnUsable /\ DialledInOrder)'
      BY <1>12, ZenonT(60) DEF ClientTypeOK, NetTypeOK, CallTypeOK, ConnUsable, DialledInOrder, ConnectLocals, SetupOK
    <2>6. OpLocals'
      BY <1>12, ZenonT(60) DEF CallTypeOK, Exclusive, ConnUsable, OpLocals, SetupOK
    <2>7. ConnectLocals'
      BY <1>12, ZenonT(60) DEF ClientTypeOK, NetTypeOK, CallTypeOK, Exclusive, ConnUsable, ConnectLocals, SetupOK
    <2> QED
      BY <2>1, <2>2, <2>3, <2>4, <2>5, <2>6, <2>7
  <1>13. ASSUME NEW g \in Callers, CloseOld(g)
        PROVE  Control'
    <2>1. ClientTypeOK'
      BY <1>13, ZenonT(60) DEF ClientTypeOK, CallTypeOK, CloseOld, Return
    <2>2. NetTypeOK'
      BY <1>13 DEF ClientTypeOK, NetTypeOK, OpLocals, ConnUsable, CloseOld, Return
    <2>3. CallTypeOK'
      BY <1>13, Zenon DEF ClientTypeOK, NetTypeOK, CallTypeOK, Outcomes, CloseOld, Return
    <2>4. Exclusive'
      BY <1>13, ZenonT(60) DEF CallTypeOK, Exclusive, CloseOld, Return
    <2>5. (ConnUsable /\ DialledInOrder)'
      <3>1. old[g] # conn
        BY <1>13, ZenonT(60) DEF CloseOld, ConnectLocals
      <3>2. dialled' = dialled /\ conn' = conn /\ session' = session
            /\ cst' = [k \in Conns |-> IF k = old[g] THEN "closed" ELSE cst[k]]
        BY <1>13, ZenonT(60) DEF CloseOld
      <3>3. \A k \in Conns : k > dialled => k # old[g]
        BY <1>13, SMTT(30) DEF CloseOld, ConnectLocals, CallTypeOK, NetTypeOK
      <3> QED
        BY <3>1, <3>2, <3>3, ZenonT(60) DEF ClientTypeOK, NetTypeOK, ConnUsable, DialledInOrder
    <2>6. OpLocals'
      BY <1>13, ZenonT(60) DEF CallTypeOK, Exclusive, ConnUsable, OpLocals, CloseOld, Return
    <2>7. ConnectLocals'
      BY <1>13, ZenonT(60) DEF ClientTypeOK, NetTypeOK, CallTypeOK, Exclusive, ConnUsable, ConnectLocals, CloseOld, Return
    <2> QED
      BY <2>1, <2>2, <2>3, <2>4, <2>5, <2>6, <2>7
  <1>14. ASSUME NEW g \in Callers, CloseConn(g)
        PROVE  Control'
    <2>1. ClientTypeOK'
      BY <1>14, ZenonT(60) DEF ClientTypeOK, CallTypeOK, CloseConn, Return
    <2>2. NetTypeOK'
      BY <1>14 DEF ClientTypeOK, NetTypeOK, OpLocals, ConnUsable, CloseConn, Return
    <2>3. CallTypeOK'
      BY <1>14, Zenon DEF ClientTypeOK, NetTypeOK, CallTypeOK, Outcomes, CloseConn, Return
    <2>4. Exclusive'
      BY <1>14, ZenonT(60) DEF CallTypeOK, Exclusive, CloseConn, Return
    <2>5. (ConnUsable /\ DialledInOrder)'
      BY <1>14, SMTT(30) DEF ClientTypeOK, NetTypeOK, CallTypeOK, ConnUsable, DialledInOrder, ConnectLocals, CloseConn, Return
    <2>6. OpLocals'
      BY <1>14, ZenonT(60) DEF CallTypeOK, Exclusive, ConnUsable, OpLocals, CloseConn, Return
    <2>7. ConnectLocals'
      BY <1>14, ZenonT(60) DEF ClientTypeOK, NetTypeOK, CallTypeOK, Exclusive, ConnUsable, ConnectLocals, CloseConn, Return
    <2> QED
      BY <2>1, <2>2, <2>3, <2>4, <2>5, <2>6, <2>7
  <1>15. ASSUME NEW g \in Callers, CtxEnds(g)
        PROVE  Control'
    <2>1. ClientTypeOK'
      BY <1>15, ZenonT(60) DEF ClientTypeOK, CallTypeOK, CtxEnds
    <2>2. NetTypeOK'
      BY <1>15 DEF ClientTypeOK, NetTypeOK, OpLocals, ConnUsable, CtxEnds
    <2>3. CallTypeOK'
      BY <1>15, Zenon DEF ClientTypeOK, NetTypeOK, CallTypeOK, Outcomes, CtxEnds
    <2>4. Exclusive'
      BY <1>15, ZenonT(60) DEF CallTypeOK, Exclusive, CtxEnds
    <2>5. (ConnUsable /\ DialledInOrder)'
      BY <1>15, ZenonT(60) DEF ClientTypeOK, NetTypeOK, CallTypeOK, ConnUsable, DialledInOrder, ConnectLocals, CtxEnds
    <2>6. OpLocals'
      BY <1>15, ZenonT(60) DEF CallTypeOK, Exclusive, ConnUsable, OpLocals, CtxEnds
    <2>7. ConnectLocals'
      BY <1>15, ZenonT(60) DEF ClientTypeOK, NetTypeOK, CallTypeOK, Exclusive, ConnUsable, ConnectLocals, CtxEnds
    <2> QED
      BY <2>1, <2>2, <2>3, <2>4, <2>5, <2>6, <2>7
  <1>16. ASSUME NEW k \in Conns, PeerAnswers(k)
        PROVE  Control'
    <2>1. ClientTypeOK'
      BY <1>16, ZenonT(60) DEF ClientTypeOK, CallTypeOK, PeerAnswers
    <2>2. NetTypeOK'
      <3>1. PICK kind \in {"ok", "error", "bad"} :
              answers' = [answers EXCEPT ![k] =
                Append(@, [id |-> Head(reqs[k]).id, ref |-> Head(reqs[k]).ref, kind |-> kind])]
        BY <1>16, Zenon DEF PeerAnswers
      <3> DEFINE a == [id |-> Head(reqs[k]).id, ref |-> Head(reqs[k]).ref, kind |-> kind]
      <3>2. Head(reqs[k]) \in Requests /\ Tail(reqs[k]) \in Seq(Requests)
        BY <1>16, TailOfQueue, ZenonT(60) DEF PeerAnswers, NetTypeOK
      <3>3. a \in Answers
        BY <3>2, ZenonT(60) DEF Requests, Answers
      <3>4. Append(answers[k], a) \in Seq(Answers)
        BY <3>3, AppendToQueue, ZenonT(60) DEF NetTypeOK
      <3>5. answers' = [answers EXCEPT ![k] = Append(answers[k], a)]
        BY <3>1
      <3> HIDE DEF a
      <3> QED
        BY <1>16, <3>2, <3>4, <3>5, ZenonT(60) DEF NetTypeOK, PeerAnswers
    <2>3. CallTypeOK'
      BY <1>16, ZenonT(60) DEF ClientTypeOK, NetTypeOK, CallTypeOK, Outcomes, PeerAnswers
    <2>4. Exclusive'
      BY <1>16, ZenonT(60) DEF CallTypeOK, Exclusive, PeerAnswers
    <2>5. (ConnUsable /\ DialledInOrder)'
      BY <1>16, ZenonT(60) DEF ClientTypeOK, NetTypeOK, CallTypeOK, ConnUsable, DialledInOrder, ConnectLocals, PeerAnswers
    <2>6. OpLocals'
      BY <1>16, ZenonT(60) DEF CallTypeOK, Exclusive, ConnUsable, OpLocals, PeerAnswers
    <2>7. ConnectLocals'
      BY <1>16, ZenonT(60) DEF ClientTypeOK, NetTypeOK, CallTypeOK, Exclusive, ConnUsable, ConnectLocals, PeerAnswers
    <2> QED
      BY <2>1, <2>2, <2>3, <2>4, <2>5, <2>6, <2>7, ZenonT(60)
  <1>17. ASSUME NEW k \in Conns, PeerDrops(k)
        PROVE  Control'
    <2>1. ClientTypeOK'
      BY <1>17, SMTT(30) DEF ClientTypeOK, CallTypeOK, PeerDrops
    <2>2. NetTypeOK'
      BY <1>17, ZenonT(60) DEF ClientTypeOK, NetTypeOK, OpLocals, ConnUsable, PeerDrops
    <2>3. CallTypeOK'
      BY <1>17, Zenon DEF ClientTypeOK, NetTypeOK, CallTypeOK, Outcomes, PeerDrops
    <2>4. Exclusive'
      BY <1>17, ZenonT(60) DEF CallTypeOK, Exclusive, PeerDrops
    <2>5. (ConnUsable /\ DialledInOrder)'
      BY <1>17, ZenonT(60) DEF ClientTypeOK, NetTypeOK, CallTypeOK, ConnUsable, DialledInOrder, ConnectLocals, PeerDrops
    <2>6. OpLocals'
      BY <1>17, ZenonT(60) DEF CallTypeOK, Exclusive, ConnUsable, OpLocals, PeerDrops
    <2>7. ConnectLocals'
      BY <1>17, ZenonT(60) DEF ClientTypeOK, NetTypeOK, CallTypeOK, Exclusive, ConnUsable, ConnectLocals, PeerDrops
    <2> QED
      BY <2>1, <2>2, <2>3, <2>4, <2>5, <2>6, <2>7
  <1>18. ASSUME UNCHANGED vars
        PROVE  Control'
    <2>1. ClientTypeOK'
      BY <1>18, ZenonT(60) DEF ClientTypeOK, CallTypeOK, vars
    <2>2. NetTypeOK'
      BY <1>18, ZenonT(60) DEF ClientTypeOK, NetTypeOK, OpLocals, ConnUsable, vars
    <2>3. CallTypeOK'
      BY <1>18, ZenonT(60) DEF ClientTypeOK, NetTypeOK, CallTypeOK, Outcomes, vars
    <2>4. Exclusive'
      BY <1>18 DEF CallTypeOK, Exclusive, vars
    <2>5. (ConnUsable /\ DialledInOrder)'
      BY <1>18, ZenonT(60) DEF ClientTypeOK, NetTypeOK, CallTypeOK, ConnUsable, DialledInOrder, ConnectLocals, vars
    <2>6. OpLocals'
      BY <1>18, ZenonT(60) DEF CallTypeOK, Exclusive, ConnUsable, OpLocals, vars
    <2>7. ConnectLocals'
      BY <1>18 DEF ClientTypeOK, NetTypeOK, CallTypeOK, Exclusive, ConnUsable, ConnectLocals, vars
    <2> QED
      BY <2>1, <2>2, <2>3, <2>4, <2>5, <2>6, <2>7, ZenonT(60)
  <1> QED
    BY ONLY [Next]_vars, <1>1, <1>2, <1>3, <1>4, <1>5, <1>6, <1>7, <1>8, <1>9, <1>10, <1>11, <1>12, <1>13, <1>14, <1>15, <1>16, <1>17, <1>18, ZenonT(60) DEF Next, CallerStep, OpStep, ConnectStep

-----------------------------------------------------------------------------
(* The rest of the inductive invariant: messages and answers *)

\* The messages of the connections carry references of requests sent.
MessagesSent == \A k \in Conns : Sent(reqs[k], pduRef) /\ Sent(answers[k], pduRef)

\* A queue holds one message, that of the nth request.
One(q, n) == \E m : q = <<m>> /\ m.id = n

\* A connection no exchange was abandoned on is empty, or carries the message
\* of the exchange in progress.
InStepOn(k) ==
  \/ reqs[k] = <<>> /\ answers[k] = <<>>
  \/ /\ \E g \in Callers : pc[g] \in Exchanging /\ using[g] = k
     /\ \/ One(reqs[k], pduRef) /\ answers[k] = <<>>
        \/ One(answers[k], pduRef) /\ reqs[k] = <<>>

InStep == \A k \in Conns : k \notin abandoned => InStepOn(k)

IInv == Control /\ MessagesSent /\ InStep /\ Correlated /\ MismatchOnlyAfterAbandon /\ ConnOwned

-----------------------------------------------------------------------------
(* Numbers and sequences *)

\* Two requests with the same PDU reference are at least RefMod apart: what
\* nextPDURef gives up by counting in 16 bits.
LEMMA SameRefFarApart ==
  ASSUME NEW R \in Nat, R > 0, NEW m \in Nat, NEW n \in Nat, m < n, m % R = n % R
  PROVE  n - m >= R
  <1> DEFINE a == m \div R
             b == n \div R
  <1>1. m = R * a + (m % R) /\ a \in Int
    BY SMTT(60)
  <1>2. n = R * b + (n % R) /\ b \in Int
    BY SMTT(60)
  <1>3. n - m = R * b - R * a /\ a \in Int /\ b \in Int /\ R * a \in Int /\ R * b \in Int
    BY <1>1, <1>2
  <1> HIDE DEF a, b
  <1>4. R * b > R * a
    BY <1>3
  <1>5. \A x, y \in Int : x >= y => R * x >= R * y
    BY SMT
  <1>6. b > a
    BY <1>3, <1>4, <1>5
  <1>7. \A x, y \in Int : x > y => R * x - R * y >= R
    <2> SUFFICES ASSUME NEW x \in Int, NEW y \in Int, x > y
                 PROVE  R * x - R * y >= R
      OBVIOUS
    <2>1. R * (y + 1) = R * y + R
      BY SMT
    <2> QED
      BY <2>1, <1>5
  <1> QED
    BY <1>3, <1>6, <1>7

Messages == Requests \cup Answers

\* A message is typed, and a request is one whatever the queue.
LEMMA MessageTypes ==
  /\ \A m \in Requests : m \in Messages
  /\ \A m \in Answers : m \in Messages
  /\ \A m \in Messages : m.id \in Nat /\ m.ref \in Nat
  BY DEF Messages, Requests, Answers

\* A queue of one message.
LEMMA OneMessage ==
  ASSUME NEW e
  PROVE  Append(<<>>, e) = <<e>> /\ Head(<<e>>) = e /\ Tail(<<e>>) = <<>> /\ <<e>> # <<>>
  OBVIOUS

\* What was sent before the nth request was sent before any later one.
LEMMA SentLater ==
  ASSUME NEW S, NEW q \in Seq(S), \A m \in S : m.id \in Nat,
         NEW n \in Nat, NEW p \in Nat, n <= p
  PROVE  Sent(q, n) => Sent(q, p)
  <1>1. \A i \in 1..Len(q) : q[i].id \in Nat
    <2>1. \A i \in 1..Len(q) : q[i] \in S
      OBVIOUS
    <2> QED
      BY <2>1
  <1> QED
    BY <1>1 DEF Sent

-----------------------------------------------------------------------------
\* A new Client has sent nothing and holds no connection.
LEMMA InitIInv == Init => IInv
  <1> SUFFICES ASSUME Init
               PROVE  IInv
    OBVIOUS
  <1>1. MessagesSent /\ InStep
    <2>1. \A k \in Conns : reqs[k] = <<>> /\ answers[k] = <<>>
      BY DEF Init
    <2>2. Sent(<<>>, 0)
      BY DEF Sent
    <2> QED
      BY <2>1, <2>2, ZenonT(60) DEF Init, MessagesSent, InStep, InStepOn
  <1>2. Correlated /\ MismatchOnlyAfterAbandon /\ ConnOwned
    BY DEF Init, Correlated, MismatchOnlyAfterAbandon, ConnOwned
  <1> QED
    BY <1>1, <1>2, InitControl, ZenonT(60) DEF IInv


-----------------------------------------------------------------------------
(* Steps preserve what is known of the messages *)

\* The queues hold numbered messages.
LEMMA QueueTypes ==
  ASSUME Control, NEW k \in Conns
  PROVE  reqs[k] \in Seq(Requests) /\ answers[k] \in Seq(Answers)
  BY ZenonT(60) DEF Control, TypeOK, NetTypeOK

\* A step that leaves the queues and the exchange in progress alone, or
\* abandons it, keeps the connections in step.
LEMMA QueuesUnchanged ==
  ASSUME MessagesSent, InStep,
         UNCHANGED <<reqs, answers, pduRef>>,
         \A k \in abandoned : k \in abandoned',
         \A g \in Callers : pc[g] \in Exchanging =>
           using[g] \in abandoned' \/ (pc'[g] \in Exchanging /\ using'[g] = using[g])
  PROVE  (MessagesSent /\ InStep)'
  <1>1. MessagesSent'
    BY ZenonT(60) DEF MessagesSent
  <1>2. InStep'
    BY DEF InStep, InStepOn
  <1> QED
    BY <1>1, <1>2, ZenonT(60)

\* While a caller is in a call, no other one is in an exchange.
LEMMA OneExchange ==
  ASSUME Control, NEW g \in Callers, pc[g] \in InCall,
         NEW h \in Callers, pc[h] \in Exchanging
  PROVE  h = g
  BY DEF Control, Exclusive, InCall, Exchanging

\* Sending a request on a connection in step: its queues were empty.
LEMMA SendKeepsStep ==
  ASSUME Control, MessagesSent, InStep, NEW g \in Callers, SendRequest(g)
  PROVE  (MessagesSent /\ InStep)'
  <1>1. pduRef \in Nat /\ pduRef' \in Nat /\ pduRef' > pduRef
    BY NextRefGrows, ZenonT(60) DEF SendRequest, Control, TypeOK, ClientTypeOK
  <1>2. \A k \in Conns : reqs[k] \in Seq(Requests) /\ answers[k] \in Seq(Answers)
    BY QueueTypes, ZenonT(60)
  <1>3. \A h \in Callers : pc[h] \notin Exchanging
    BY OneExchange, ZenonT(60) DEF SendRequest, InCall, Exchanging
  <1>4. \A k \in Conns : k \notin abandoned => reqs[k] = <<>> /\ answers[k] = <<>>
    BY <1>3, ZenonT(60) DEF InStep, InStepOn
  <1>5. \A k \in Conns : Sent(reqs[k], pduRef') /\ Sent(answers[k], pduRef')
    <2> SUFFICES ASSUME NEW k \in Conns PROVE Sent(reqs[k], pduRef') /\ Sent(answers[k], pduRef')
      OBVIOUS
    <2>1. reqs[k] \in Seq(Messages) /\ answers[k] \in Seq(Messages)
      <3>1. Requests \subseteq Messages /\ Answers \subseteq Messages
        BY MessageTypes, ZenonT(60)
      <3> QED  BY <1>2, <3>1
    <2>2. pduRef <= pduRef' /\ \A m \in Messages : m.id \in Nat
      BY <1>1, MessageTypes
    <2>3. Sent(reqs[k], pduRef) /\ Sent(answers[k], pduRef)
      BY ZenonT(60) DEF MessagesSent
    <2> QED  BY <1>1, <2>1, <2>2, <2>3, SentLater, ZenonT(60)
  <1>6. answers' = answers /\ abandoned' = abandoned
    BY DEF SendRequest
  <1>7. CASE reqs' = reqs
    <2>1. MessagesSent'
      BY <1>5, <1>6, <1>7, ZenonT(60) DEF MessagesSent
    <2>2. InStep'
      BY <1>4, <1>6, <1>7, ZenonT(60) DEF InStep, InStepOn
    <2> QED
      BY <2>1, <2>2, ZenonT(60)
  <1>8. CASE reqs' # reqs
    <2> DEFINE m == [id |-> pduRef', ref |-> pduRef' % RefMod]
    <2>1. /\ conn \in Conns
          /\ reqs' = [reqs EXCEPT ![conn] = Append(reqs[conn], m)]
          /\ pc'[g] \in Exchanging /\ using'[g] = conn
      BY <1>8, ConnNumbers, ZenonT(60)
      DEF SendRequest, Control, TypeOK, ClientTypeOK, CallTypeOK, Goto, Exchanging
    <2>2. m \in Requests /\ m.id = pduRef' /\ m.ref = m.id % RefMod
      BY <1>1, RefNat DEF Requests
    <2> HIDE DEF m
    <2>3. Sent(Append(reqs[conn], m), pduRef')
      BY <1>1, <1>2, <1>5, <2>1, <2>2, AppendToQueue
    <2>4. \A k \in Conns : reqs'[k] = IF k = conn THEN Append(reqs[conn], m) ELSE reqs[k]
      BY <2>1, ZenonT(60) DEF Control, TypeOK, NetTypeOK
    <2>5. MessagesSent'
      BY <1>5, <1>6, <2>3, <2>4 DEF MessagesSent
    <2>6. InStep'
      <3> SUFFICES ASSUME NEW k \in Conns, k \notin abandoned
                   PROVE  InStepOn(k)'
        BY <1>6, ZenonT(60) DEF InStep
      <3>1. CASE k = conn
        <4>1. One(reqs'[k], pduRef') /\ answers'[k] = <<>>
          BY <1>4, <1>6, <2>2, <2>4, <3>1, OneMessage, Zenon DEF One
        <4> QED
          BY <2>1, <3>1, <4>1 DEF InStepOn
      <3>2. CASE k # conn
        BY <1>4, <1>6, <2>4, <3>2, ZenonT(60) DEF InStepOn
      <3> QED
        BY <3>1, <3>2
    <2> QED
      BY <2>5, <2>6
  <1> QED
    BY <1>7, <1>8, ZenonT(60)

\* Reading an answer empties a connection in step.
LEMMA ReadKeepsStep ==
  ASSUME Control, MessagesSent, InStep, NEW g \in Callers, ReadAnswer(g)
  PROVE  (MessagesSent /\ InStep)'
  <1> DEFINE k == using[g]
  <1>1. k \in Conns /\ pc[g] \in Exchanging /\ pc[g] \in InCall
    BY ConnNumbers, ZenonT(60) DEF ReadAnswer, Control, TypeOK, ClientTypeOK, OpLocals, Exchanging, InCall
  <1>2. answers[k] \in Seq(Answers)
    BY <1>1, QueueTypes, ZenonT(60)
  <1>3. \A c \in Conns : answers'[c] = IF c = k THEN Tail(answers[k]) ELSE answers[c]
    BY <1>1, ZenonT(60) DEF ReadAnswer, Control, TypeOK, NetTypeOK
  <1>4. answers[k] # <<>> /\ reqs' = reqs /\ abandoned' = abandoned /\ pduRef' = pduRef
    BY ZenonT(60) DEF ReadAnswer, clientVars
  <1>5. \A c \in Conns : c # k /\ c \notin abandoned => reqs[c] = <<>> /\ answers[c] = <<>>
    BY <1>1, OneExchange, ZenonT(60) DEF InStep, InStepOn
  <1> HIDE DEF k
  <1>6. \A n : Sent(answers[k], n) => Sent(Tail(answers[k]), n)
    BY <1>2, <1>4, TailOfQueue
  <1>7. k \notin abandoned => reqs[k] = <<>> /\ Tail(answers[k]) = <<>>
    BY <1>1, <1>4, OneMessage, ZenonT(60) DEF InStep, InStepOn, One
  <1>8. MessagesSent'
    BY <1>1, <1>3, <1>4, <1>6 DEF MessagesSent
  <1>9. InStep'
    BY <1>3, <1>4, <1>5, <1>7, Zenon DEF InStep, InStepOn
  <1> QED
    BY <1>8, <1>9

\* An answer takes the place of its request.
LEMMA AnswerKeepsStep ==
  ASSUME Control, MessagesSent, InStep, NEW k \in Conns, PeerAnswers(k)
  PROVE  (MessagesSent /\ InStep)'
  <1>1. PICK kind \in {"ok", "error", "bad"} :
          answers' = [answers EXCEPT ![k] =
            Append(@, [id |-> Head(reqs[k]).id, ref |-> Head(reqs[k]).ref, kind |-> kind])]
    BY Zenon DEF PeerAnswers
  <1> DEFINE a == [id |-> Head(reqs[k]).id, ref |-> Head(reqs[k]).ref, kind |-> kind]
  <1>2. reqs[k] \in Seq(Requests) /\ answers[k] \in Seq(Answers)
    BY QueueTypes, ZenonT(60)
  <1>3. reqs[k] # <<>> /\ reqs' = [reqs EXCEPT ![k] = Tail(reqs[k])]
    BY ZenonT(60) DEF PeerAnswers
  <1>4. /\ Head(reqs[k]) = reqs[k][1] /\ Head(reqs[k]) \in Requests
        /\ 1 \in 1..Len(reqs[k])
        /\ \A n : Sent(reqs[k], n) => Sent(Tail(reqs[k]), n)
    BY <1>2, <1>3, TailOfQueue, ZenonT(60)
  <1>5. a \in Answers /\ a.id = Head(reqs[k]).id /\ a.ref = Head(reqs[k]).ref
    BY <1>4, ZenonT(60) DEF Requests, Answers
  <1>6. answers' = [answers EXCEPT ![k] = Append(answers[k], a)]
    BY <1>1, ZenonT(60)
  <1> HIDE DEF a
  <1>7. a.id <= pduRef /\ a.ref = a.id % RefMod
    BY <1>4, <1>5, ZenonT(60) DEF MessagesSent, Sent
  <1>8. Sent(Append(answers[k], a), pduRef)
    BY <1>2, <1>5, <1>7, AppendToQueue, ZenonT(60) DEF MessagesSent
  <1>9. \A c \in Conns :
          /\ answers'[c] = IF c = k THEN Append(answers[k], a) ELSE answers[c]
          /\ reqs'[c] = IF c = k THEN Tail(reqs[k]) ELSE reqs[c]
    BY <1>3, <1>6, ZenonT(60) DEF Control, TypeOK, NetTypeOK
  <1>10. abandoned' = abandoned /\ pduRef' = pduRef /\ pc' = pc /\ using' = using
    BY ZenonT(60) DEF PeerAnswers, clientVars, opVars
  <1>11. MessagesSent'
    BY <1>4, <1>8, <1>9, <1>10 DEF MessagesSent
  <1>12. InStep'
    <2> SUFFICES ASSUME NEW c \in Conns, c \notin abandoned
                 PROVE  InStepOn(c)'
      BY <1>10, ZenonT(60) DEF InStep
    <2>1. CASE c # k
      BY <1>9, <1>10, <2>1 DEF InStep, InStepOn
    <2>2. CASE c = k
      <3>1. /\ \E g \in Callers : pc[g] \in Exchanging /\ using[g] = k
            /\ One(reqs[k], pduRef) /\ answers[k] = <<>>
        BY <1>3, <2>2, ZenonT(60) DEF InStep, InStepOn
      <3>2. Tail(reqs[k]) = <<>> /\ Head(reqs[k]).id = pduRef
        BY <3>1, OneMessage, ZenonT(60) DEF One
      <3>3. One(Append(answers[k], a), pduRef)
        BY <1>5, <3>1, <3>2, OneMessage, ZenonT(60) DEF One
      <3> QED
        BY <1>9, <1>10, <2>2, <3>1, <3>2, <3>3, Zenon DEF InStepOn
    <2> QED
      BY <2>1, <2>2
  <1> QED
    BY <1>11, <1>12

\* Every step keeps the messages and the exchanges in step.
LEMMA NextMessages == Control /\ MessagesSent /\ InStep /\ [Next]_vars => (MessagesSent /\ InStep)'
  <1> SUFFICES ASSUME Control, MessagesSent, InStep, [Next]_vars
               PROVE  (MessagesSent /\ InStep)'
    BY ZenonT(60)
  <1> USE DEF Exchanging, Goto, clientVars, netVars, opVars
  <1>1. ASSUME NEW g \in Callers, NEW c \in {"op", "Connect", "Close"}, Call(g, c)
        PROVE  (MessagesSent /\ InStep)'
    BY <1>1, QueuesUnchanged DEF Control, TypeOK, CallTypeOK, Call
  <1>2. ASSUME NEW g \in Callers, Lock(g)
        PROVE  (MessagesSent /\ InStep)'
    BY <1>2, QueuesUnchanged DEF Control, TypeOK, CallTypeOK, Lock
  <1>3. ASSUME NEW g \in Callers, SendRequest(g)
        PROVE  (MessagesSent /\ InStep)'
    BY <1>3, SendKeepsStep, ZenonT(60)
  <1>4. ASSUME NEW g \in Callers, CheckCtx(g)
        PROVE  (MessagesSent /\ InStep)'
    BY <1>4, QueuesUnchanged, ZenonT(60) DEF Control, TypeOK, CallTypeOK, CheckCtx
  <1>5. ASSUME NEW g \in Callers, ReadAnswer(g)
        PROVE  (MessagesSent /\ InStep)'
    BY <1>5, ReadKeepsStep
  <1>6. ASSUME NEW g \in Callers, ReadError(g)
        PROVE  (MessagesSent /\ InStep)'
    BY <1>6, QueuesUnchanged, ZenonT(60) DEF Control, TypeOK, CallTypeOK, ReadError
  <1>7. ASSUME NEW g \in Callers, OpReturn(g)
        PROVE  (MessagesSent /\ InStep)'
    BY <1>7, QueuesUnchanged, ZenonT(60) DEF Control, TypeOK, CallTypeOK, OpReturn, Return
  <1>8. ASSUME NEW g \in Callers, ConnectCtx(g)
        PROVE  (MessagesSent /\ InStep)'
    BY <1>8, QueuesUnchanged, ZenonT(60) DEF Control, TypeOK, CallTypeOK, ConnectCtx, Return
  <1>9. ASSUME NEW g \in Callers, DialFail(g)
        PROVE  (MessagesSent /\ InStep)'
    BY <1>9, QueuesUnchanged, ZenonT(60) DEF Control, TypeOK, CallTypeOK, DialFail, NextTry, Return
  <1>10. ASSUME NEW g \in Callers, DialOK(g)
        PROVE  (MessagesSent /\ InStep)'
    BY <1>10, QueuesUnchanged, ZenonT(60) DEF Control, TypeOK, CallTypeOK, DialOK
  <1>11. ASSUME NEW g \in Callers, SetupFail(g)
        PROVE  (MessagesSent /\ InStep)'
    BY <1>11, QueuesUnchanged, ZenonT(60) DEF Control, TypeOK, CallTypeOK, SetupFail, NextTry, Return
  <1>12. ASSUME NEW g \in Callers, SetupOK(g)
        PROVE  (MessagesSent /\ InStep)'
    BY <1>12, QueuesUnchanged, ZenonT(60) DEF Control, TypeOK, CallTypeOK, SetupOK
  <1>13. ASSUME NEW g \in Callers, CloseOld(g)
        PROVE  (MessagesSent /\ InStep)'
    BY <1>13, QueuesUnchanged, ZenonT(60) DEF Control, TypeOK, CallTypeOK, CloseOld, Return
  <1>14. ASSUME NEW g \in Callers, CloseConn(g)
        PROVE  (MessagesSent /\ InStep)'
    BY <1>14, QueuesUnchanged, ZenonT(60) DEF Control, TypeOK, CallTypeOK, CloseConn, Return
  <1>15. ASSUME NEW g \in Callers, CtxEnds(g)
        PROVE  (MessagesSent /\ InStep)'
    BY <1>15, QueuesUnchanged, ZenonT(60) DEF Control, TypeOK, CallTypeOK, CtxEnds
  <1>16. ASSUME NEW k \in Conns, PeerAnswers(k)
        PROVE  (MessagesSent /\ InStep)'
    BY <1>16, AnswerKeepsStep
  <1>17. ASSUME NEW k \in Conns, PeerDrops(k)
        PROVE  (MessagesSent /\ InStep)'
    BY <1>17, QueuesUnchanged, Zenon DEF PeerDrops
  <1>18. ASSUME UNCHANGED vars
        PROVE  (MessagesSent /\ InStep)'
    BY <1>18, QueuesUnchanged, Zenon DEF vars
  <1> QED
    BY ONLY [Next]_vars, <1>1, <1>2, <1>3, <1>4, <1>5, <1>6, <1>7, <1>8, <1>9, <1>10, <1>11, <1>12, <1>13, <1>14, <1>15, <1>16, <1>17, <1>18, ZenonT(60) DEF Next, CallerStep, OpStep, ConnectStep

-----------------------------------------------------------------------------
(* Steps preserve what is known of accepted answers *)

\* A step that accepts no answer keeps what was known of those accepted.
LEMMA AnswersKept ==
  ASSUME Correlated, MismatchOnlyAfterAbandon,
         \A k \in abandoned : k \in abandoned',
         \A g \in Callers : \/ have'[g] = 0
                            \/ have'[g] = have[g] /\ want'[g] = want[g] /\ using'[g] = using[g],
         \A g \in Callers : \/ res'[g] # "PDURefMismatch"
                            \/ res'[g] = res[g] /\ using'[g] = using[g]
  PROVE  (Correlated /\ MismatchOnlyAfterAbandon)'
  <1>1. Correlated'
    BY Zenon DEF Correlated
  <1>2. MismatchOnlyAfterAbandon'
    BY DEF MismatchOnlyAfterAbandon
  <1> QED
    BY <1>1, <1>2

\* An answer that is accepted has the reference of the request, so it is its
\* answer or lies RefMod requests back.
LEMMA ReadCorrelates ==
  ASSUME Control, MessagesSent, InStep, Correlated, MismatchOnlyAfterAbandon,
         NEW g \in Callers, ReadAnswer(g)
  PROVE  (Correlated /\ MismatchOnlyAfterAbandon)'
  <1> DEFINE k == using[g]
             a == Head(answers[using[g]])
  <1>1. /\ k \in Conns /\ want[g] = pduRef /\ pduRef \in Nat
        /\ have[g] = 0 /\ res[g] # "PDURefMismatch"
    BY ConnNumbers, ZenonT(60) DEF ReadAnswer, Control, TypeOK, ClientTypeOK, OpLocals, Exchanging
  <1>2. answers[k] \in Seq(Answers) /\ answers[k] # <<>>
    BY <1>1, QueueTypes, ZenonT(60) DEF ReadAnswer
  <1>3. a = answers[k][1] /\ a \in Answers /\ 1 \in 1..Len(answers[k])
    BY <1>2, TailOfQueue, ZenonT(60)
  <1>4. a.id \in Nat /\ a.id <= pduRef /\ a.ref = a.id % RefMod
    BY <1>1, <1>3, ZenonT(60) DEF MessagesSent, Sent, Answers
  <1>5. k \notin abandoned => a.id = pduRef
    BY <1>1, <1>2, OneMessage DEF InStep, InStepOn, One
  <1>6. a.id = pduRef \/ a.ref # pduRef % RefMod \/ pduRef - a.id >= RefMod
    <2>1. RefMod \in Nat /\ RefMod > 0
      BY RefModAssumption
    <2>2. \A m, n \in Nat : m < n /\ m % RefMod = n % RefMod => n - m >= RefMod
      BY <2>1, SameRefFarApart, ZenonT(60)
    <2> HIDE DEF a
    <2> QED
      BY <1>1, <1>4, <2>2
  <1>7. /\ abandoned' = abandoned /\ want' = want /\ using' = using
        /\ CheckAnswer(g, a)
    BY ZenonT(60) DEF ReadAnswer
  <1> HIDE DEF a, k
  <1>8. /\ \A h \in Callers : h # g => have'[h] = have[h] /\ res'[h] = res[h]
        /\ have'[g] # 0 => have'[g] = a.id /\ a.ref = want[g] % RefMod
        /\ res'[g] = "PDURefMismatch" => a.ref # want[g] % RefMod
    BY <1>1, <1>7 DEF CheckAnswer, Outcome, Control, TypeOK, CallTypeOK
  <1>9. k = using[g]
    BY ZenonT(60) DEF k
  <1>10. Correlated'
    <2> SUFFICES ASSUME NEW h \in Callers, have'[h] # 0
                 PROVE  \/ have'[h] = want[h]
                        \/ using[h] \in abandoned /\ want[h] - have'[h] >= RefMod
      BY <1>7, ZenonT(60) DEF Correlated
    <2>1. CASE h # g
      BY <1>8, <2>1, ZenonT(60) DEF Correlated
    <2>2. CASE h = g
      <3>1. have'[g] = a.id /\ a.ref = pduRef % RefMod /\ want[g] = pduRef
        BY <1>1, <1>8, <2>2, ZenonT(60)
      <3>2. a.id = pduRef \/ pduRef - a.id >= RefMod
        BY <1>6, <3>1, ZenonT(60)
      <3> QED
        BY <1>5, <1>9, <2>2, <3>1, <3>2, ZenonT(60)
    <2> QED
      BY <2>1, <2>2
  <1>11. MismatchOnlyAfterAbandon'
    BY <1>1, <1>4, <1>5, <1>7, <1>8, <1>9, ZenonT(60) DEF MismatchOnlyAfterAbandon
  <1> QED
    BY <1>10, <1>11, ZenonT(60)

\* Every step keeps answers correlated.
LEMMA NextAnswers ==
  Control /\ MessagesSent /\ InStep /\ Correlated /\ MismatchOnlyAfterAbandon /\ [Next]_vars
    => (Correlated /\ MismatchOnlyAfterAbandon)'
  <1> SUFFICES ASSUME Control, MessagesSent, InStep, Correlated, MismatchOnlyAfterAbandon, [Next]_vars
               PROVE  (Correlated /\ MismatchOnlyAfterAbandon)'
    OBVIOUS
  <1> USE DEF Goto, Outcome, netVars, opVars
  <1>1. ASSUME NEW g \in Callers, NEW c \in {"op", "Connect", "Close"}, Call(g, c)
        PROVE  (Correlated /\ MismatchOnlyAfterAbandon)'
    BY <1>1, AnswersKept, Zenon DEF Call
  <1>2. ASSUME NEW g \in Callers, Lock(g)
        PROVE  (Correlated /\ MismatchOnlyAfterAbandon)'
    BY <1>2, AnswersKept, ZenonT(60) DEF Lock
  <1>3. ASSUME NEW g \in Callers, SendRequest(g)
        PROVE  (Correlated /\ MismatchOnlyAfterAbandon)'
    BY <1>3, AnswersKept, ZenonT(60) DEF Control, TypeOK, CallTypeOK, SendRequest
  <1>4. ASSUME NEW g \in Callers, CheckCtx(g)
        PROVE  (Correlated /\ MismatchOnlyAfterAbandon)'
    BY <1>4, AnswersKept, ZenonT(60) DEF Control, TypeOK, CallTypeOK, CheckCtx
  <1>5. ASSUME NEW g \in Callers, ReadAnswer(g)
        PROVE  (Correlated /\ MismatchOnlyAfterAbandon)'
    BY <1>5, ReadCorrelates, ZenonT(60)
  <1>6. ASSUME NEW g \in Callers, ReadError(g)
        PROVE  (Correlated /\ MismatchOnlyAfterAbandon)'
    BY <1>6, AnswersKept, ZenonT(60) DEF Control, TypeOK, CallTypeOK, ReadError
  <1>7. ASSUME NEW g \in Callers, OpReturn(g)
        PROVE  (Correlated /\ MismatchOnlyAfterAbandon)'
    BY <1>7, AnswersKept, ZenonT(60) DEF Control, TypeOK, CallTypeOK, OpReturn, Return
  <1>8. ASSUME NEW g \in Callers, ConnectCtx(g)
        PROVE  (Correlated /\ MismatchOnlyAfterAbandon)'
    BY <1>8, AnswersKept, ZenonT(60) DEF Control, TypeOK, CallTypeOK, ConnectCtx, Return
  <1>9. ASSUME NEW g \in Callers, DialFail(g)
        PROVE  (Correlated /\ MismatchOnlyAfterAbandon)'
    BY <1>9, AnswersKept DEF Control, TypeOK, CallTypeOK, DialFail, NextTry, Return
  <1>10. ASSUME NEW g \in Callers, DialOK(g)
        PROVE  (Correlated /\ MismatchOnlyAfterAbandon)'
    BY <1>10, AnswersKept, Zenon DEF DialOK
  <1>11. ASSUME NEW g \in Callers, SetupFail(g)
        PROVE  (Correlated /\ MismatchOnlyAfterAbandon)'
    BY <1>11, AnswersKept DEF Control, TypeOK, CallTypeOK, SetupFail, NextTry, Return
  <1>12. ASSUME NEW g \in Callers, SetupOK(g)
        PROVE  (Correlated /\ MismatchOnlyAfterAbandon)'
    BY <1>12, AnswersKept, Zenon DEF SetupOK
  <1>13. ASSUME NEW g \in Callers, CloseOld(g)
        PROVE  (Correlated /\ MismatchOnlyAfterAbandon)'
    BY <1>13, AnswersKept, ZenonT(60) DEF Control, TypeOK, CallTypeOK, CloseOld, Return
  <1>14. ASSUME NEW g \in Callers, CloseConn(g)
        PROVE  (Correlated /\ MismatchOnlyAfterAbandon)'
    BY <1>14, AnswersKept DEF Control, TypeOK, CallTypeOK, CloseConn, Return
  <1>15. ASSUME NEW g \in Callers, CtxEnds(g)
        PROVE  (Correlated /\ MismatchOnlyAfterAbandon)'
    BY <1>15, AnswersKept, ZenonT(60) DEF CtxEnds
  <1>16. ASSUME NEW k \in Conns, PeerAnswers(k)
        PROVE  (Correlated /\ MismatchOnlyAfterAbandon)'
    BY <1>16, AnswersKept, ZenonT(60) DEF PeerAnswers
  <1>17. ASSUME NEW k \in Conns, PeerDrops(k)
        PROVE  (Correlated /\ MismatchOnlyAfterAbandon)'
    BY <1>17, AnswersKept, ZenonT(60) DEF PeerDrops
  <1>18. ASSUME UNCHANGED vars
        PROVE  (Correlated /\ MismatchOnlyAfterAbandon)'
    BY <1>18, AnswersKept, ZenonT(60) DEF vars
  <1> QED
    BY ONLY [Next]_vars, <1>1, <1>2, <1>3, <1>4, <1>5, <1>6, <1>7, <1>8, <1>9, <1>10, <1>11, <1>12, <1>13, <1>14, <1>15, <1>16, <1>17, <1>18 DEF Next, CallerStep, OpStep, ConnectStep

-----------------------------------------------------------------------------
(* Steps preserve the ownership of connections *)

Unclosed == {"open", "dropped", "aborted"}

\* Only the holder of reqMu sets up or replaces a connection.
LEMMA OneConnect ==
  ASSUME Control, ConnOwned, NEW g \in Callers, pc[g] \in InCall
  PROVE  /\ \A h \in Callers : pc[h] \in {"setup", "swapped"} => h = g
         /\ \A k \in Conns : cst[k] \in Unclosed =>
              \/ k = conn
              \/ pc[g] = "setup" /\ new[g] = k
              \/ pc[g] = "swapped" /\ old[g] = k
  BY DEF Control, Exclusive, InCall, ConnOwned, Unclosed

\* A step that opens no connection and leaves the owners alone.
LEMMA OwnersKept ==
  ASSUME ConnOwned, conn' = conn,
         \A k \in Conns : cst'[k] \in Unclosed => cst[k] \in Unclosed,
         \A g \in Callers : pc[g] \in {"setup", "swapped"} =>
           pc'[g] = pc[g] /\ new'[g] = new[g] /\ old'[g] = old[g]
  PROVE  ConnOwned'
  BY DEF ConnOwned, Unclosed

\* Every step keeps every open connection with an owner.
LEMMA NextOwned == Control /\ ConnOwned /\ [Next]_vars => ConnOwned'
  <1> SUFFICES ASSUME Control, ConnOwned, [Next]_vars
               PROVE  ConnOwned'
    BY ZenonT(60)
  <1> USE ConnNumbers DEF Goto, Unclosed, clientVars, netVars, connectVars
  <1>1. ASSUME NEW g \in Callers, NEW c \in {"op", "Connect", "Close"}, Call(g, c)
        PROVE  ConnOwned'
    BY <1>1, OwnersKept, ZenonT(60) DEF Control, TypeOK, CallTypeOK, Call
  <1>2. ASSUME NEW g \in Callers, Lock(g)
        PROVE  ConnOwned'
    BY <1>2, OwnersKept, ZenonT(60) DEF Control, TypeOK, CallTypeOK, Lock
  <1>3. ASSUME NEW g \in Callers, SendRequest(g)
        PROVE  ConnOwned'
    <2>1. \A k \in Conns : cst'[k] \in Unclosed => cst[k] \in Unclosed
      BY <1>3, ZenonT(60) DEF SendRequest, Live, Control, TypeOK, NetTypeOK
    <2> QED
      BY <1>3, <2>1, OwnersKept, ZenonT(60) DEF SendRequest, Control, TypeOK, CallTypeOK
  <1>4. ASSUME NEW g \in Callers, CheckCtx(g)
        PROVE  ConnOwned'
    BY <1>4, OwnersKept, ZenonT(60) DEF Control, TypeOK, CallTypeOK, CheckCtx
  <1>5. ASSUME NEW g \in Callers, ReadAnswer(g)
        PROVE  ConnOwned'
    BY <1>5, OwnersKept, ZenonT(60) DEF Control, TypeOK, CallTypeOK, ReadAnswer
  <1>6. ASSUME NEW g \in Callers, ReadError(g)
        PROVE  ConnOwned'
    <2>1. \A k \in Conns : cst'[k] \in Unclosed => cst[k] \in Unclosed
      BY <1>6, ZenonT(60) DEF ReadError, Live, Control, TypeOK, NetTypeOK
    <2> QED
      BY <1>6, <2>1, OwnersKept, ZenonT(60) DEF ReadError, Control, TypeOK, CallTypeOK
  <1>7. ASSUME NEW g \in Callers, OpReturn(g)
        PROVE  ConnOwned'
    BY <1>7, OwnersKept, ZenonT(60) DEF Control, TypeOK, CallTypeOK, OpReturn, Return
  <1>8. ASSUME NEW g \in Callers, ConnectCtx(g)
        PROVE  ConnOwned'
    BY <1>8, OwnersKept, ZenonT(60) DEF Control, TypeOK, CallTypeOK, ConnectCtx, Return
  <1>9. ASSUME NEW g \in Callers, DialFail(g)
        PROVE  ConnOwned'
    BY <1>9, OwnersKept DEF Control, TypeOK, CallTypeOK, DialFail, NextTry, Return
  <1>10. ASSUME NEW g \in Callers, DialOK(g)
        PROVE  ConnOwned'
    <2>1. \A k \in Conns : cst[k] \in Unclosed => k = conn
      BY <1>10, OneConnect, ZenonT(60) DEF DialOK, InCall
    <2>2. \A k \in Conns : cst'[k] \in Unclosed => cst[k] \in Unclosed \/ k = dialled'
      BY <1>10, ZenonT(60) DEF DialOK, Control, TypeOK, NetTypeOK
    <2>3. pc'[g] = "setup" /\ new'[g] = dialled' /\ conn' = conn
      BY <1>10, ZenonT(60) DEF DialOK, Control, TypeOK, CallTypeOK
    <2> QED
      BY <2>1, <2>2, <2>3, Zenon DEF ConnOwned
  <1>11. ASSUME NEW g \in Callers, SetupFail(g)
        PROVE  ConnOwned'
    <2>1. \A k \in Conns : cst[k] \in Unclosed => k = conn \/ k = new[g]
      BY <1>11, OneConnect, ZenonT(60) DEF SetupFail, InCall
    <2>2. \A k \in Conns : cst'[k] = IF k = new[g] THEN "closed" ELSE cst[k]
      BY <1>11, ZenonT(60) DEF SetupFail, Control, TypeOK, NetTypeOK
    <2>3. conn' = conn
      BY <1>11, ZenonT(60) DEF SetupFail
    <2> QED
      BY <2>1, <2>2, <2>3, ZenonT(60) DEF ConnOwned
  <1>12. ASSUME NEW g \in Callers, SetupOK(g)
        PROVE  ConnOwned'
    <2>1. \A k \in Conns : cst[k] \in Unclosed => k = conn \/ k = new[g]
      BY <1>12, OneConnect, ZenonT(60) DEF SetupOK, InCall
    <2>2. cst' = cst /\ conn' = new[g] /\ pc'[g] = "swapped" /\ old'[g] = conn
      BY <1>12, ZenonT(60) DEF SetupOK, Control, TypeOK, CallTypeOK
    <2> QED
      BY <2>1, <2>2, ZenonT(60) DEF ConnOwned
  <1>13. ASSUME NEW g \in Callers, CloseOld(g)
        PROVE  ConnOwned'
    <2>1. \A k \in Conns : cst[k] \in Unclosed => k = conn \/ k = old[g]
      BY <1>13, OneConnect, ZenonT(60) DEF CloseOld, InCall
    <2>2. conn' = conn /\ \A k \in Conns : cst'[k] = IF k = old[g] THEN "closed" ELSE cst[k]
      BY <1>13, ZenonT(60) DEF CloseOld
    <2> QED
      BY <2>1, <2>2, ZenonT(60) DEF ConnOwned
  <1>14. ASSUME NEW g \in Callers, CloseConn(g)
        PROVE  ConnOwned'
    <2>1. \A k \in Conns : cst[k] \in Unclosed => k = conn
      BY <1>14, OneConnect, ZenonT(60) DEF CloseConn, InCall
    <2>2. \A k \in Conns : cst'[k] = IF k = conn THEN "closed" ELSE cst[k]
      BY <1>14, ZenonT(60) DEF CloseConn
    <2> QED
      BY <2>1, <2>2, ZenonT(60) DEF ConnOwned
  <1>15. ASSUME NEW g \in Callers, CtxEnds(g)
        PROVE  ConnOwned'
    BY <1>15, OwnersKept, ZenonT(60) DEF Control, TypeOK, CallTypeOK, CtxEnds
  <1>16. ASSUME NEW k \in Conns, PeerAnswers(k)
        PROVE  ConnOwned'
    BY <1>16, OwnersKept, ZenonT(60) DEF PeerAnswers
  <1>17. ASSUME NEW k \in Conns, PeerDrops(k)
        PROVE  ConnOwned'
    BY <1>17, OwnersKept, ZenonT(60) DEF Control, TypeOK, NetTypeOK, PeerDrops
  <1>18. ASSUME UNCHANGED vars
        PROVE  ConnOwned'
    BY <1>18, OwnersKept DEF vars
  <1> QED
    BY ONLY [Next]_vars, <1>1, <1>2, <1>3, <1>4, <1>5, <1>6, <1>7, <1>8, <1>9, <1>10, <1>11, <1>12, <1>13, <1>14, <1>15, <1>16, <1>17, <1>18, ZenonT(60) DEF Next, CallerStep, OpStep, ConnectStep

-----------------------------------------------------------------------------
(* Theorems *)

\* The inductive invariant: callers, connections, messages and answers.
THEOREM Invariance == Spec => []IInv
  <1>1. IInv /\ [Next]_vars => IInv'
    BY NextControl, NextMessages, NextAnswers, NextOwned DEF IInv
  <1> QED
    BY InitIInv, <1>1, PTL DEF Spec

\* The fields, connections and locals keep their types.
THEOREM TypeCorrect == Spec => []TypeOK
  <1>1. IInv => TypeOK
    BY DEF IInv, Control
  <1> QED
    BY Invariance, <1>1, PTL

\* sendReceive accepts only the answer to its request, unless an earlier
\* exchange was left unread and RefMod requests ago, and a wrong PDU reference
\* is the trace of an abandoned exchange.
THEOREM AnswersCorrelated == Spec => []AnswersMatched
  <1>1. IInv => AnswersMatched
    BY DEF IInv, AnswersMatched
  <1> QED
    BY Invariance, <1>1, PTL

\* No path of Connect, Close or an operation leaks a connection.
THEOREM NoConnectionLeaks == Spec => []ConnOwned
  <1>1. IInv => ConnOwned
    BY ZenonT(60) DEF IInv
  <1> QED
    BY Invariance, <1>1, PTL

\* An operation keeps the session it planned its requests for.
THEOREM OperationKeepsSession == Spec => []SessionStable
  <1>1. IInv => SessionStable
    BY DEF IInv, Control, OpLocals, ConnUsable, SessionStable
  <1> QED
    BY Invariance, <1>1, PTL

\* A Connect that fails leaves the session it found.
THEOREM FailedConnectHarmless == Spec => FailedConnectKeepsSession
  <1> DEFINE Kept(g) == /\ conn' = before[g]
                        /\ session' = before[g]
                        /\ conn' # 0 => cst'[conn'] # "closed"
  <1>1. ASSUME IInv, IInv', [Next]_vars,
               NEW g \in Callers, pc[g] \in {"dial", "setup"}, pc'[g] = "idle"
        PROVE  Kept(g)
    <2>1. reqMu = g /\ before[g] = conn
      BY <1>1 DEF IInv, Control, Exclusive, ConnectLocals, InCall
    <2>2. conn' = conn
      <3>1. ASSUME NEW h \in Callers, h # g
            PROVE  ~SetupOK(h) /\ ~CloseConn(h)
        BY <1>1, <2>1, <3>1, Zenon DEF IInv, Control, Exclusive, InCall, SetupOK, CloseConn
      <3>2. ~SetupOK(g) /\ ~CloseConn(g)
        BY <1>1 DEF IInv, Control, TypeOK, CallTypeOK, SetupOK, CloseConn, Goto
      <3> QED
        BY <1>1, <3>1, <3>2, ZenonT(60)
        DEF Next, CallerStep, OpStep, ConnectStep, Call, Lock, SendRequest, CheckCtx, ReadAnswer,
            ReadError, OpReturn, ConnectCtx, DialFail, DialOK, SetupFail, CloseOld, CtxEnds,
            PeerAnswers, PeerDrops, vars, clientVars
    <2>3. session' = conn' /\ (conn' # 0 => cst'[conn'] # "closed")
      BY <1>1, Zenon DEF IInv, Control, ConnUsable
    <2> QED
      BY <2>1, <2>2, <2>3, ZenonT(60)
  <1>2. IInv /\ IInv' /\ [Next]_vars =>
          [\A g \in Callers : pc[g] \in {"dial", "setup"} /\ pc'[g] = "idle" => Kept(g)]_vars
    BY <1>1
  <1> QED
    BY Invariance, <1>2, PTL DEF Spec, FailedConnectKeepsSession

-----------------------------------------------------------------------------
(* A connection that was abandoned: the order of its messages *)

Ids(q) == {q[i].id : i \in 1..Len(q)}
Ascending(q) == \A i, j \in 1..Len(q) : i < j => q[i].id < q[j].id

\* The requests of a connection whose answers have not been read.
Unread(k) == Ids(reqs[k]) \cup Ids(answers[k])

InExchange(k) == \E g \in Callers : pc[g] \in Exchanging /\ using[g] = k

\* Requests and answers are in the order they were sent, answers before.
InOrder ==
  \A k \in Conns :
    /\ Ascending(reqs[k]) /\ Ascending(answers[k])
    /\ \A m \in Ids(answers[k]), n \in Ids(reqs[k]) : m < n
    /\ \A n \in Unread(k) : n \in Nat /\ n <= pduRef

\* An exchange in progress has its own message on the connection.
Newest == \A g \in Callers : pc[g] \in Exchanging => pduRef \in Unread(using[g])

\* An abandoned connection has a message besides that of the exchange in
\* progress.
Behind == \A k \in abandoned : \E n \in Unread(k) : InExchange(k) => n < pduRef

Order == InOrder /\ Newest /\ Behind

\* What a call remembers of its exchanges.
LocalsOK ==
  \A g \in Callers :
    /\ pc[g] \notin OpStates => using[g] = 0
    /\ using[g] # 0 => want[g] > 0
    /\ pc[g] = "op" /\ using[g] \in abandoned => have[g] # want[g]

-----------------------------------------------------------------------------
(* Queues *)

\* The number of a message that is added.
LEMMA IdsAppend ==
  ASSUME NEW S, NEW q \in Seq(S), NEW e \in S
  PROVE  /\ Ids(Append(q, e)) = Ids(q) \cup {e.id}
         /\ Ascending(q) /\ (\A n \in Ids(q) : n < e.id) => Ascending(Append(q, e))
  <1> DEFINE t == Append(q, e)
  <1>1. /\ Len(q) \in Nat /\ Len(t) = Len(q) + 1
        /\ \A i \in 1..Len(q) : t[i] = q[i]
        /\ t[Len(q) + 1] = e
    OBVIOUS
  <1> HIDE DEF t
  <1>2. 1..Len(t) = 1..Len(q) \cup {Len(q) + 1} /\ Len(q) + 1 \notin 1..Len(q)
    BY <1>1
  <1>3. Ids(t) = Ids(q) \cup {e.id}
    BY <1>1, <1>2 DEF Ids
  <1>4. ASSUME Ascending(q), \A n \in Ids(q) : n < e.id
        PROVE  Ascending(t)
    <2> SUFFICES ASSUME NEW i \in 1..Len(t), NEW j \in 1..Len(t), i < j
                 PROVE  t[i].id < t[j].id
      BY DEF Ascending
    <2>1. i \in 1..Len(q)
      BY <1>1
    <2>2. CASE j \in 1..Len(q)
      BY <1>1, <1>4, <2>1, <2>2 DEF Ascending
    <2>3. CASE j = Len(q) + 1
      BY <1>1, <1>4, <2>1, <2>3 DEF Ids
    <2> QED
      BY <1>2, <2>2, <2>3
  <1> QED
    BY <1>3, <1>4 DEF t

\* The first message of a queue in order is the oldest one.
LEMMA IdsTail ==
  ASSUME NEW S, NEW q \in Seq(S), q # <<>>
  PROVE  /\ Ids(q) = Ids(Tail(q)) \cup {Head(q).id}
         /\ Ascending(q) => Ascending(Tail(q)) /\ \A n \in Ids(Tail(q)) : Head(q).id < n
  <1> DEFINE t == Tail(q)
  <1>1. /\ Len(q) \in Nat /\ Len(q) > 0 /\ Len(t) = Len(q) - 1 /\ Head(q) = q[1]
        /\ \A i \in 1..Len(t) : t[i] = q[i + 1]
    OBVIOUS
  <1> HIDE DEF t
  <1>2. /\ 1 \in 1..Len(q)
        /\ \A i \in 1..Len(t) : i + 1 \in 1..Len(q) /\ 1 < i + 1
        /\ \A i \in 1..Len(q) : i = 1 \/ (i - 1 \in 1..Len(t) /\ (i - 1) + 1 = i)
    BY <1>1
  <1>3. Ids(q) = Ids(t) \cup {Head(q).id}
    <2>1. ASSUME NEW n \in Ids(q)
          PROVE  n \in Ids(t) \cup {Head(q).id}
      <3>1. PICK i \in 1..Len(q) : n = q[i].id
        BY DEF Ids
      <3>2. CASE i = 1
        BY <1>1, <3>1, <3>2
      <3>3. CASE i # 1
        <4>1. i - 1 \in 1..Len(t) /\ t[i - 1] = q[i]
          BY <1>1, <1>2, <3>3
        <4> QED
          BY <3>1, <4>1 DEF Ids
      <3> QED
        BY <3>2, <3>3
    <2>2. Ids(t) \subseteq Ids(q) /\ Head(q).id \in Ids(q)
      BY <1>1, <1>2 DEF Ids
    <2> QED
      BY <2>1, <2>2
  <1>4. ASSUME Ascending(q)
        PROVE  Ascending(t) /\ \A n \in Ids(t) : Head(q).id < n
    <2>1. \A i, j \in 1..Len(t) : i < j => i + 1 < j + 1
      BY <1>1
    <2>2. Ascending(t)
      BY <1>1, <1>2, <1>4, <2>1 DEF Ascending
    <2>3. \A n \in Ids(t) : Head(q).id < n
      BY <1>1, <1>2, <1>4, SMTT(30) DEF Ascending, Ids
    <2> QED
      BY <2>2, <2>3
  <1> QED
    BY <1>3, <1>4 DEF t

-----------------------------------------------------------------------------
(* Steps preserve the order of the messages *)

\* A step that leaves the queues alone and starts no exchange.
LEMMA OrderKept ==
  ASSUME Order, UNCHANGED <<reqs, answers, pduRef, abandoned>>,
         \A g \in Callers : pc'[g] \in Exchanging => pc[g] \in Exchanging /\ using'[g] = using[g]
  PROVE  Order'
  <1>1. \A k : Unread(k)' = Unread(k) /\ (InExchange(k)' => InExchange(k))
    BY DEF Unread, InExchange
  <1>2. InOrder'
    BY <1>1 DEF Order, InOrder
  <1>3. Newest'
    BY <1>1 DEF Order, Newest
  <1>4. Behind'
    BY <1>1, Zenon DEF Order, Behind
  <1> QED
    BY <1>2, <1>3, <1>4 DEF Order

\* An exchange that ends without its answer leaves its message behind.
LEMMA AbandonKeepsOrder ==
  ASSUME Control, Order, UNCHANGED <<reqs, answers, pduRef, using>>,
         NEW g \in Callers, pc[g] \in Exchanging, pc' = [pc EXCEPT ![g] = "op"],
         abandoned' = abandoned \cup {using[g]}
  PROVE  Order'
  <1>1. /\ \A k : Unread(k)' = Unread(k) /\ (InExchange(k)' => InExchange(k))
        /\ \A h \in Callers : pc'[h] \notin Exchanging
    <2>1. \A h \in Callers : pc'[h] \notin Exchanging
      BY OneExchange DEF Exchanging, InCall, Control, TypeOK, CallTypeOK
    <2> QED
      BY <2>1 DEF Unread, InExchange
  <1>2. InOrder'
    BY <1>1 DEF Order, InOrder
  <1>3. Newest'
    BY <1>1 DEF Newest
  <1>4. Behind'
    <2> SUFFICES ASSUME NEW k \in abandoned'
                 PROVE  \E n \in Unread(k) : TRUE
      BY <1>1 DEF Behind, InExchange
    <2> QED
      BY Zenon DEF Order, Behind, Newest
  <1> QED
    BY <1>2, <1>3, <1>4 DEF Order

\* A request gets a number above all those before it.
LEMMA SendKeepsOrder ==
  ASSUME Control, Order, NEW g \in Callers, SendRequest(g)
  PROVE  Order'
  <1>1. pduRef \in Nat /\ pduRef' \in Nat /\ pduRef' > pduRef
    BY NextRefGrows DEF SendRequest, Control, TypeOK, ClientTypeOK
  <1>2. \A k \in Conns : reqs[k] \in Seq(Requests) /\ answers[k] \in Seq(Answers)
    BY QueueTypes
  <1>3. \A h \in Callers : pc[h] \notin Exchanging
    BY OneExchange, ZenonT(60) DEF SendRequest, InCall, Exchanging
  <1>4. /\ answers' = answers /\ abandoned' = abandoned /\ abandoned \subseteq Conns
        /\ using'[g] = conn /\ \A h \in Callers : h # g => pc'[h] = pc[h]
    BY DEF SendRequest, Control, TypeOK, NetTypeOK, CallTypeOK, Goto
  <1>5. \A k \in Conns : \A n \in Unread(k) : n \in Nat /\ n < pduRef'
    BY <1>1 DEF Order, InOrder
  <1>6. \A k \in abandoned : \E n \in Unread(k) : n < pduRef'
    BY <1>4, <1>5, Zenon DEF Order, Behind
  <1>7. CASE reqs' = reqs
    <2>1. \A k : Unread(k)' = Unread(k)
      BY <1>4, <1>7 DEF Unread
    <2>2. pc'[g] \notin Exchanging
      <3>1. pc' = pc \/ (conn \in Conns /\ reqs'[conn] = Append(reqs[conn], [id |-> pduRef', ref |-> pduRef' % RefMod]))
        BY ConnNumbers DEF SendRequest, Control, TypeOK, ClientTypeOK, NetTypeOK
      <3>2. conn \in Conns => \A e : Append(reqs[conn], e) # reqs[conn]
        <4>1. \A q \in Seq(Requests) : \A e : Len(Append(q, e)) = Len(q) + 1 /\ Len(q) \in Nat
          OBVIOUS
        <4> QED
          BY <1>2, <4>1
      <3> QED
        BY <1>3, <1>7, <3>1, <3>2, ZenonT(60)
    <2>3. InOrder'
      BY <1>1, <1>4, <1>5, <1>7, <2>1 DEF Order, InOrder
    <2>4. Newest'
      BY <1>3, <1>4, <2>2 DEF Newest
    <2>5. Behind'
      BY <1>4, <1>6, <2>1, Zenon DEF Behind
    <2> QED
      BY <2>3, <2>4, <2>5 DEF Order
  <1>8. CASE reqs' # reqs
    <2> DEFINE m == [id |-> pduRef', ref |-> pduRef' % RefMod]
    <2>1. /\ conn \in Conns
          /\ reqs' = [reqs EXCEPT ![conn] = Append(reqs[conn], m)]
      BY <1>8, ConnNumbers DEF SendRequest, Control, TypeOK, ClientTypeOK
    <2>2. m \in Requests /\ m.id = pduRef'
      BY <1>1, RefNat DEF Requests
    <2> HIDE DEF m
    <2>3. \A k \in Conns : reqs'[k] = IF k = conn THEN Append(reqs[conn], m) ELSE reqs[k]
      BY <2>1, ZenonT(60) DEF Control, TypeOK, NetTypeOK
    <2>4. /\ Ids(Append(reqs[conn], m)) = Ids(reqs[conn]) \cup {pduRef'}
          /\ Ascending(Append(reqs[conn], m))
      BY <1>2, <1>5, <2>1, <2>2, IdsAppend, ZenonT(60) DEF Order, InOrder, Unread
    <2>5. \A k \in Conns : Unread(k)' = IF k = conn THEN Unread(k) \cup {pduRef'} ELSE Unread(k)
      BY <1>4, <2>3, <2>4 DEF Unread
    <2>6. InOrder'
      <3> SUFFICES ASSUME NEW k \in Conns
                   PROVE  /\ Ascending(reqs'[k]) /\ Ascending(answers[k])
                          /\ \A p \in Ids(answers[k]), n \in Ids(reqs'[k]) : p < n
                          /\ \A n \in Unread(k)' : n \in Nat /\ n <= pduRef'
        BY <1>4, Zenon DEF InOrder
      <3>1. Ascending(reqs'[k]) /\ Ascending(answers[k])
        BY <2>3, <2>4, ZenonT(60) DEF Order, InOrder
      <3>2. \A p \in Ids(answers[k]), n \in Ids(reqs'[k]) : p < n
        BY <1>5, <2>3, <2>4 DEF Order, InOrder, Unread
      <3>3. \A n \in Unread(k)' : n \in Nat /\ n <= pduRef'
        BY <1>1, <1>5, <2>5
      <3> QED
        BY <3>1, <3>2, <3>3
    <2>7. Newest'
      BY <1>3, <1>4, <2>1, <2>5 DEF Newest
    <2>8. Behind'
      <3>1. \A k \in Conns : Unread(k) \subseteq Unread(k)'
        BY <2>5
      <3> QED
        BY <1>4, <1>6, <3>1, Zenon DEF Behind
    <2> QED
      BY <2>6, <2>7, <2>8 DEF Order
  <1> QED
    BY <1>7, <1>8, ZenonT(60)

\* Reading takes the oldest message, which on an abandoned connection is not
\* that of the exchange.
LEMMA ReadKeepsOrder ==
  ASSUME Control, Order, NEW g \in Callers, ReadAnswer(g)
  PROVE  /\ Order'
         /\ using[g] \in abandoned => Head(answers[using[g]]).id < pduRef
  <1> DEFINE k == using[g]
             a == Head(answers[using[g]])
  <1>1. k \in Conns /\ pc[g] \in Exchanging /\ pc[g] \in InCall /\ pduRef \in Nat
    BY ConnNumbers, ZenonT(60) DEF ReadAnswer, Control, TypeOK, ClientTypeOK, OpLocals, Exchanging, InCall
  <1>2. answers[k] \in Seq(Answers) /\ answers[k] # <<>>
    BY <1>1, QueueTypes, ZenonT(60) DEF ReadAnswer
  <1>3. \A c \in Conns : answers'[c] = IF c = k THEN Tail(answers[k]) ELSE answers[c]
    BY <1>1, ZenonT(60) DEF ReadAnswer, Control, TypeOK, NetTypeOK
  <1>4. /\ reqs' = reqs /\ abandoned' = abandoned /\ abandoned \subseteq Conns
        /\ pduRef' = pduRef /\ using' = using
    BY ZenonT(60) DEF ReadAnswer, clientVars, Control, TypeOK, NetTypeOK
  <1>5. \A h \in Callers : pc'[h] \notin Exchanging
    BY <1>1, OneExchange, ZenonT(60) DEF ReadAnswer, Goto, Exchanging, Control, TypeOK, CallTypeOK
  <1>6. /\ Ids(answers[k]) = Ids(Tail(answers[k])) \cup {a.id}
        /\ Ascending(Tail(answers[k])) /\ \A n \in Ids(Tail(answers[k])) : a.id < n
    BY <1>1, <1>2, IdsTail, ZenonT(60) DEF Order, InOrder
  <1>7. a.id \in Unread(k) /\ \A n \in Unread(k) : n \in Nat /\ (n = a.id \/ a.id < n)
    BY <1>1, <1>6, ZenonT(60) DEF Order, InOrder, Unread
  <1>8. k \in abandoned => a.id < pduRef
    <2> SUFFICES ASSUME k \in abandoned
                 PROVE  a.id < pduRef
      OBVIOUS
    <2>1. PICK n \in Unread(k) : n < pduRef
      BY <1>1 DEF Order, Behind, InExchange
    <2> QED
      BY <1>1, <1>7, <2>1
  <1>9. k = using[g]
    BY ZenonT(60)
  <1> HIDE DEF k, a
  <1>10. \A c \in Conns : Unread(c)' \subseteq Unread(c) /\ (c # k => Unread(c)' = Unread(c))
    BY <1>3, <1>4, <1>6, ZenonT(60) DEF Unread
  <1>11. InOrder'
    <2> SUFFICES ASSUME NEW c \in Conns
                 PROVE  /\ Ascending(reqs[c]) /\ Ascending(answers'[c])
                        /\ \A p \in Ids(answers'[c]), n \in Ids(reqs[c]) : p < n
                        /\ \A n \in Unread(c)' : n \in Nat /\ n <= pduRef
      BY <1>4, Zenon DEF InOrder
    <2>1. Ascending(answers'[c]) /\ Ids(answers'[c]) \subseteq Ids(answers[c])
      BY <1>3, <1>6 DEF Order, InOrder
    <2>2. Ascending(reqs[c]) /\ \A p \in Ids(answers'[c]), n \in Ids(reqs[c]) : p < n
      BY <2>1, Zenon DEF Order, InOrder
    <2>3. \A n \in Unread(c)' : n \in Nat /\ n <= pduRef
      BY <1>10, Zenon DEF Order, InOrder
    <2> QED
      BY <2>1, <2>2, <2>3
  <1>12. Newest'
    BY <1>5 DEF Newest
  <1>13. Behind'
    <2> SUFFICES ASSUME NEW c \in abandoned
                 PROVE  \E n \in Unread(c)' : TRUE
      BY <1>4, <1>5 DEF Behind, InExchange
    <2>1. CASE c # k
      BY <1>4, <1>10, <2>1, Zenon DEF Order, Behind
    <2>2. CASE c = k
      <3>1. pduRef \in Unread(k) /\ pduRef # a.id
        BY <1>1, <1>7, <1>8, <1>9, <2>2 DEF Order, Newest
      <3>2. pduRef \in Ids(reqs[k]) \cup Ids(Tail(answers[k]))
        BY <1>6, <3>1, ZenonT(60) DEF Unread
      <3>3. pduRef \in Unread(c)'
        BY <1>1, <1>3, <1>4, <2>2, <3>2 DEF Unread
      <3> QED
        BY <3>3, Zenon
    <2> QED
      BY <2>1, <2>2, Zenon
  <1> QED
    BY <1>8, <1>11, <1>12, <1>13, ZenonT(60) DEF Order, k, a

\* An answer takes the place of the oldest request, after all other answers.
LEMMA AnswerKeepsOrder ==
  ASSUME Control, Order, NEW k \in Conns, PeerAnswers(k)
  PROVE  Order'
  <1>1. PICK kind \in {"ok", "error", "bad"} :
          answers' = [answers EXCEPT ![k] =
            Append(@, [id |-> Head(reqs[k]).id, ref |-> Head(reqs[k]).ref, kind |-> kind])]
    BY Zenon DEF PeerAnswers
  <1> DEFINE a == [id |-> Head(reqs[k]).id, ref |-> Head(reqs[k]).ref, kind |-> kind]
  <1>2. reqs[k] \in Seq(Requests) /\ answers[k] \in Seq(Answers)
    BY QueueTypes, ZenonT(60)
  <1>3. reqs[k] # <<>> /\ reqs' = [reqs EXCEPT ![k] = Tail(reqs[k])]
    BY DEF PeerAnswers
  <1>4. Head(reqs[k]) \in Requests
    BY <1>2, <1>3, TailOfQueue, ZenonT(60)
  <1>5. a \in Answers /\ a.id = Head(reqs[k]).id
    BY <1>4 DEF Requests, Answers
  <1>6. answers' = [answers EXCEPT ![k] = Append(answers[k], a)]
    BY <1>1, ZenonT(60)
  <1> HIDE DEF a
  <1>7. /\ Ids(reqs[k]) = Ids(Tail(reqs[k])) \cup {a.id}
        /\ Ascending(Tail(reqs[k])) /\ \A n \in Ids(Tail(reqs[k])) : a.id < n
    BY <1>2, <1>3, <1>5, IdsTail, ZenonT(60) DEF Order, InOrder
  <1>8. \A n \in Ids(answers[k]) : n < a.id
    BY <1>7, ZenonT(60) DEF Order, InOrder
  <1>9. /\ Ids(Append(answers[k], a)) = Ids(answers[k]) \cup {a.id}
        /\ Ascending(Append(answers[k], a))
    BY <1>2, <1>5, <1>8, IdsAppend DEF Order, InOrder
  <1>10. \A c \in Conns :
          /\ answers'[c] = IF c = k THEN Append(answers[k], a) ELSE answers[c]
          /\ reqs'[c] = IF c = k THEN Tail(reqs[k]) ELSE reqs[c]
    BY <1>3, <1>6, ZenonT(60) DEF Control, TypeOK, NetTypeOK
  <1>11. \A c \in Conns : Unread(c)' = Unread(c)
    BY <1>7, <1>9, <1>10, ZenonT(60) DEF Unread
  <1>12. /\ abandoned' = abandoned /\ abandoned \subseteq Conns
         /\ pduRef' = pduRef /\ pc' = pc /\ using' = using
    BY ZenonT(60) DEF PeerAnswers, clientVars, opVars, Control, TypeOK, NetTypeOK
  <1>13. InOrder'
    <2> SUFFICES ASSUME NEW c \in Conns
                 PROVE  /\ Ascending(reqs'[c]) /\ Ascending(answers'[c])
                        /\ \A p \in Ids(answers'[c]), n \in Ids(reqs'[c]) : p < n
                        /\ \A n \in Unread(c) : n \in Nat /\ n <= pduRef
      BY <1>11, <1>12, Zenon DEF InOrder
    <2>1. CASE c # k
      BY <1>10, <2>1, ZenonT(60) DEF Order, InOrder
    <2>2. CASE c = k
      <3>1. \A p \in Ids(answers[k]) \cup {a.id}, n \in Ids(Tail(reqs[k])) : p < n
        BY <1>7, ZenonT(60) DEF Order, InOrder
      <3> QED
        BY <1>7, <1>9, <1>10, <2>2, <3>1, ZenonT(60) DEF Order, InOrder
    <2> QED
      BY <2>1, <2>2
  <1>14. Newest'
    <2>1. \A g \in Callers : pc[g] \in Exchanging => using[g] \in Conns
      BY ConnNumbers, ZenonT(60) DEF Control, TypeOK, ClientTypeOK, OpLocals
    <2> QED
      BY <1>11, <1>12, <2>1, ZenonT(60) DEF Order, Newest
  <1>15. Behind'
    BY <1>11, <1>12, ZenonT(60) DEF Order, Behind, InExchange
  <1> QED
    BY <1>13, <1>14, <1>15 DEF Order

\* Every step keeps the messages in order.
LEMMA NextOrder == Control /\ Order /\ [Next]_vars => Order'
  <1> SUFFICES ASSUME Control, Order, [Next]_vars
               PROVE  Order'
    BY ZenonT(60)
  <1> USE DEF Exchanging, Goto, clientVars, netVars, opVars
  <1>1. ASSUME NEW g \in Callers, NEW c \in {"op", "Connect", "Close"}, Call(g, c)
        PROVE  Order'
    BY <1>1, OrderKept, ZenonT(60) DEF Control, TypeOK, CallTypeOK, Call
  <1>2. ASSUME NEW g \in Callers, Lock(g)
        PROVE  Order'
    BY <1>2, OrderKept DEF Control, TypeOK, CallTypeOK, Lock
  <1>3. ASSUME NEW g \in Callers, SendRequest(g)
        PROVE  Order'
    BY <1>3, SendKeepsOrder
  <1>4. ASSUME NEW g \in Callers, CheckCtx(g)
        PROVE  Order'
    <2>1. CASE g \in ctxDone
      BY <1>4, <2>1, AbandonKeepsOrder, ZenonT(60) DEF CheckCtx
    <2>2. CASE g \notin ctxDone
      BY <1>4, <2>2, OrderKept, ZenonT(60) DEF CheckCtx, Control, TypeOK, CallTypeOK
    <2> QED
      BY <2>1, <2>2, ZenonT(60)
  <1>5. ASSUME NEW g \in Callers, ReadAnswer(g)
        PROVE  Order'
    BY <1>5, ReadKeepsOrder
  <1>6. ASSUME NEW g \in Callers, ReadError(g)
        PROVE  Order'
    BY <1>6, AbandonKeepsOrder, ZenonT(60) DEF ReadError
  <1>7. ASSUME NEW g \in Callers, OpReturn(g)
        PROVE  Order'
    BY <1>7, OrderKept, ZenonT(60) DEF Control, TypeOK, CallTypeOK, OpReturn, Return
  <1>8. ASSUME NEW g \in Callers, ConnectCtx(g)
        PROVE  Order'
    BY <1>8, OrderKept, ZenonT(60) DEF Control, TypeOK, CallTypeOK, ConnectCtx, Return
  <1>9. ASSUME NEW g \in Callers, DialFail(g)
        PROVE  Order'
    BY <1>9, OrderKept, ZenonT(60) DEF Control, TypeOK, CallTypeOK, DialFail, NextTry, Return
  <1>10. ASSUME NEW g \in Callers, DialOK(g)
        PROVE  Order'
    BY <1>10, OrderKept, ZenonT(60) DEF Control, TypeOK, CallTypeOK, DialOK
  <1>11. ASSUME NEW g \in Callers, SetupFail(g)
        PROVE  Order'
    BY <1>11, OrderKept, ZenonT(60) DEF Control, TypeOK, CallTypeOK, SetupFail, NextTry, Return
  <1>12. ASSUME NEW g \in Callers, SetupOK(g)
        PROVE  Order'
    BY <1>12, OrderKept, ZenonT(60) DEF Control, TypeOK, CallTypeOK, SetupOK
  <1>13. ASSUME NEW g \in Callers, CloseOld(g)
        PROVE  Order'
    BY <1>13, OrderKept, ZenonT(60) DEF Control, TypeOK, CallTypeOK, CloseOld, Return
  <1>14. ASSUME NEW g \in Callers, CloseConn(g)
        PROVE  Order'
    BY <1>14, OrderKept, ZenonT(60) DEF Control, TypeOK, CallTypeOK, CloseConn, Return
  <1>15. ASSUME NEW g \in Callers, CtxEnds(g)
        PROVE  Order'
    BY <1>15, OrderKept DEF Control, TypeOK, CallTypeOK, CtxEnds
  <1>16. ASSUME NEW k \in Conns, PeerAnswers(k)
        PROVE  Order'
    BY <1>16, AnswerKeepsOrder
  <1>17. ASSUME NEW k \in Conns, PeerDrops(k)
        PROVE  Order'
    BY <1>17, OrderKept, Zenon DEF PeerDrops
  <1>18. ASSUME UNCHANGED vars
        PROVE  Order'
    BY <1>18, OrderKept, ZenonT(60) DEF vars
  <1> QED
    BY ONLY [Next]_vars, <1>1, <1>2, <1>3, <1>4, <1>5, <1>6, <1>7, <1>8, <1>9, <1>10, <1>11, <1>12, <1>13, <1>14, <1>15, <1>16, <1>17, <1>18, ZenonT(60) DEF Next, CallerStep, OpStep, ConnectStep

-----------------------------------------------------------------------------
(* Steps preserve what calls remember *)

\* A step of no exchange: the locals stay, or are reset.
LEMMA LocalsKept ==
  ASSUME Control, LocalsOK, abandoned' = abandoned,
         \A g \in Callers :
           \/ using'[g] = 0
           \/ /\ using'[g] = using[g] /\ want'[g] = want[g] /\ have'[g] = have[g]
              /\ pc'[g] = pc[g]
  PROVE  LocalsOK'
  <1>1. 0 \notin abandoned
    BY ConnNumbers, ZenonT(60) DEF Control, TypeOK, NetTypeOK
  <1> QED
    BY <1>1, ZenonT(60) DEF LocalsOK

\* A new exchange has no answer yet.
LEMMA SendKeepsLocals ==
  ASSUME Control, LocalsOK, NEW g \in Callers, SendRequest(g)
  PROVE  LocalsOK'
  <1>1. pduRef' \in Nat /\ pduRef' > 0
    BY NextRefGrows DEF SendRequest, Control, TypeOK, ClientTypeOK
  <1>2. /\ abandoned' = abandoned /\ pc'[g] \in OpStates /\ want'[g] = pduRef' /\ have'[g] = 0
        /\ \A h \in Callers : h # g => /\ pc'[h] = pc[h] /\ using'[h] = using[h]
                                       /\ want'[h] = want[h] /\ have'[h] = have[h]
    BY ZenonT(60) DEF SendRequest, Goto, OpStates, Control, TypeOK, CallTypeOK
  <1> QED
    BY <1>1, <1>2 DEF LocalsOK

\* An exchange that ends without its answer has none.
LEMMA AbandonKeepsLocals ==
  ASSUME Control, LocalsOK, UNCHANGED <<using, want, have>>,
         NEW g \in Callers, pc[g] \in Exchanging,
         \/ pc' = [pc EXCEPT ![g] = "op"] /\ abandoned' = abandoned \cup {using[g]}
         \/ pc' = [pc EXCEPT ![g] = "reading"] /\ abandoned' = abandoned
  PROVE  LocalsOK'
  <1>1. /\ have[g] = 0 /\ using[g] # 0 /\ pc'[g] \in OpStates
        /\ \A h \in Callers : h # g => pc'[h] = pc[h] /\ pc[h] # "op"
    BY ZenonT(60) DEF Control, OpLocals, Exclusive, Exchanging, InCall, OpStates, TypeOK, CallTypeOK
  <1>2. want[g] > 0 /\ want[g] # have[g]
    BY <1>1, SMTT(30) DEF LocalsOK, Control, TypeOK, CallTypeOK
  <1> QED
    BY <1>1, <1>2, ZenonT(60) DEF LocalsOK

\* What is read from an abandoned connection is an older answer.
LEMMA ReadKeepsLocals ==
  ASSUME Control, Order, LocalsOK, NEW g \in Callers, ReadAnswer(g)
  PROVE  LocalsOK'
  <1> DEFINE a == Head(answers[using[g]])
  <1>1. /\ using[g] \in Conns /\ using[g] # 0 /\ want[g] = pduRef /\ have[g] = 0
        /\ pduRef \in Nat
    BY ConnNumbers, ZenonT(60) DEF ReadAnswer, Control, TypeOK, ClientTypeOK, OpLocals, Exchanging
  <1>2. a \in Answers
    BY <1>1, QueueTypes, TailOfQueue, ZenonT(60) DEF ReadAnswer
  <1>3. a.id \in Nat
    BY <1>2 DEF Answers
  <1>4. using[g] \in abandoned => a.id < pduRef
    BY ReadKeepsOrder, ZenonT(60)
  <1> HIDE DEF a
  <1>5. want[g] > 0
    BY <1>1, ZenonT(60) DEF LocalsOK
  <1>6. have'[g] = 0 \/ have'[g] = a.id
    BY <1>1, ZenonT(60) DEF ReadAnswer, CheckAnswer, Control, TypeOK, CallTypeOK, a
  <1>7. /\ abandoned' = abandoned /\ using' = using /\ want' = want /\ pc'[g] \in OpStates
        /\ \A h \in Callers : h # g => pc'[h] = pc[h] /\ have'[h] = have[h]
    BY ZenonT(60) DEF ReadAnswer, CheckAnswer, Goto, OpStates, Control, TypeOK, CallTypeOK
  <1>8. using[g] \in abandoned => have'[g] # want[g]
    BY <1>1, <1>3, <1>4, <1>5, <1>6, SMTT(30)
  <1> QED
    BY <1>1, <1>5, <1>7, <1>8, ZenonT(60) DEF LocalsOK

\* Every step keeps what calls remember.
LEMMA NextLocals == Control /\ Order /\ LocalsOK /\ [Next]_vars => LocalsOK'
  <1> SUFFICES ASSUME Control, Order, LocalsOK, [Next]_vars
               PROVE  LocalsOK'
    BY ZenonT(60)
  <1> USE DEF Exchanging, Goto, clientVars, netVars, opVars
  <1>0. \A g \in Callers : pc[g] \notin {"op", "written", "reading"} => using[g] = 0
    BY ZenonT(60) DEF LocalsOK, OpStates
  <1>1. ASSUME NEW g \in Callers, NEW c \in {"op", "Connect", "Close"}, Call(g, c)
        PROVE  LocalsOK'
    BY <1>1, LocalsKept, <1>0, ZenonT(60) DEF Control, TypeOK, CallTypeOK, Call
  <1>2. ASSUME NEW g \in Callers, Lock(g)
        PROVE  LocalsOK'
    BY <1>2, LocalsKept, <1>0, ZenonT(60) DEF Control, TypeOK, CallTypeOK, Lock
  <1>3. ASSUME NEW g \in Callers, SendRequest(g)
        PROVE  LocalsOK'
    BY <1>3, SendKeepsLocals
  <1>4. ASSUME NEW g \in Callers, CheckCtx(g)
        PROVE  LocalsOK'
    BY <1>4, AbandonKeepsLocals, Zenon DEF CheckCtx
  <1>5. ASSUME NEW g \in Callers, ReadAnswer(g)
        PROVE  LocalsOK'
    BY <1>5, ReadKeepsLocals
  <1>6. ASSUME NEW g \in Callers, ReadError(g)
        PROVE  LocalsOK'
    BY <1>6, AbandonKeepsLocals, ZenonT(60) DEF ReadError
  <1>7. ASSUME NEW g \in Callers, OpReturn(g)
        PROVE  LocalsOK'
    BY <1>7, LocalsKept, <1>0, ZenonT(60) DEF Control, TypeOK, CallTypeOK, OpReturn, Return
  <1>8. ASSUME NEW g \in Callers, ConnectCtx(g)
        PROVE  LocalsOK'
    BY <1>8, LocalsKept, <1>0, ZenonT(60) DEF Control, TypeOK, CallTypeOK, ConnectCtx, Return
  <1>9. ASSUME NEW g \in Callers, DialFail(g)
        PROVE  LocalsOK'
    BY <1>9, LocalsKept, <1>0, ZenonT(60) DEF Control, TypeOK, CallTypeOK, DialFail, NextTry, Return
  <1>10. ASSUME NEW g \in Callers, DialOK(g)
        PROVE  LocalsOK'
    BY <1>10, LocalsKept, <1>0, ZenonT(60) DEF Control, TypeOK, CallTypeOK, DialOK
  <1>11. ASSUME NEW g \in Callers, SetupFail(g)
        PROVE  LocalsOK'
    BY <1>11, LocalsKept, <1>0, ZenonT(60) DEF Control, TypeOK, CallTypeOK, SetupFail, NextTry, Return
  <1>12. ASSUME NEW g \in Callers, SetupOK(g)
        PROVE  LocalsOK'
    BY <1>12, LocalsKept, <1>0, ZenonT(60) DEF Control, TypeOK, CallTypeOK, SetupOK
  <1>13. ASSUME NEW g \in Callers, CloseOld(g)
        PROVE  LocalsOK'
    BY <1>13, LocalsKept, <1>0, ZenonT(60) DEF Control, TypeOK, CallTypeOK, CloseOld, Return
  <1>14. ASSUME NEW g \in Callers, CloseConn(g)
        PROVE  LocalsOK'
    BY <1>14, LocalsKept, <1>0, ZenonT(60) DEF Control, TypeOK, CallTypeOK, CloseConn, Return
  <1>15. ASSUME NEW g \in Callers, CtxEnds(g)
        PROVE  LocalsOK'
    BY <1>15, LocalsKept, <1>0 DEF Control, TypeOK, CallTypeOK, CtxEnds
  <1>16. ASSUME NEW k \in Conns, PeerAnswers(k)
        PROVE  LocalsOK'
    BY <1>16, LocalsKept, Zenon DEF PeerAnswers
  <1>17. ASSUME NEW k \in Conns, PeerDrops(k)
        PROVE  LocalsOK'
    BY <1>17, LocalsKept, Zenon DEF PeerDrops
  <1>18. ASSUME UNCHANGED vars
        PROVE  LocalsOK'
    BY <1>18, LocalsKept, Zenon DEF vars
  <1> QED
    BY ONLY [Next]_vars, <1>1, <1>2, <1>3, <1>4, <1>5, <1>6, <1>7, <1>8, <1>9, <1>10, <1>11, <1>12, <1>13, <1>14, <1>15, <1>16, <1>17, <1>18 DEF Next, CallerStep, OpStep, ConnectStep

\* A new Client has sent nothing.
LEMMA InitOrder == Init => Order /\ LocalsOK
  <1> SUFFICES ASSUME Init
               PROVE  Order /\ LocalsOK
    BY ZenonT(60)
  <1>1. \A k \in Conns : Len(reqs[k]) = 0 /\ Len(answers[k]) = 0
    BY DEF Init
  <1>2. ASSUME NEW q, Len(q) = 0
        PROVE  Ids(q) = {} /\ Ascending(q)
    <2>1. 1..Len(q) = {}
      BY <1>2
    <2> QED
      BY <2>1, Zenon DEF Ids, Ascending
  <1>3. \A k \in Conns : /\ Ids(reqs[k]) = {} /\ Ids(answers[k]) = {}
                         /\ Ascending(reqs[k]) /\ Ascending(answers[k])
    BY ONLY <1>1, <1>2, Zenon
  <1> QED
    BY <1>3 DEF Init, Order, InOrder, Newest, Behind, Unread, LocalsOK, Exchanging

\* Once an exchange has left its answer unread, no operation on that
\* connection accepts the answer to its own request again: the head of the
\* stream always belongs to an earlier request (sendReceive of
\* client/client.go reads one TSDU per request and never catches up).
THEOREM StaysOutOfStep == Spec => []AbandonedStaysOutOfStep
  <1>1. Order /\ LocalsOK /\ IInv /\ [Next]_vars => (Order /\ LocalsOK)'
    BY NextOrder, NextLocals, SMTT(30) DEF IInv
  <1>2. LocalsOK => AbandonedStaysOutOfStep
    BY ZenonT(60) DEF LocalsOK, AbandonedStaysOutOfStep
  <1> QED
    BY InitOrder, <1>1, <1>2, Invariance, PTL DEF Spec

===============================================================================
