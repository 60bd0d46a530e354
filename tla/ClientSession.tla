---------------------------- MODULE ClientSession ----------------------------
(***************************************************************************)
(* The session of a client.Client (client/client.go, client/handshake.go): *)
(* goroutines that share one Client call Connect, Close and operations.    *)
(* Each call holds Client.reqMu from start to end; an operation is a       *)
(* series of exchanges (sendReceive) on the connection in Client.conn.     *)
(*                                                                         *)
(* Client.mu guards single reads and writes of the session fields and is   *)
(* never held across I/O: each of its regions is part of one step.  The    *)
(* contents of requests and answers are abstracted to what sendReceive     *)
(* looks at: the PDU reference, a header error, a header that does not     *)
(* parse.  Every request has an identity besides, the value of the counter *)
(* pduRef, so that properties can tell a request from a later one with the *)
(* same 16-bit reference.                                                  *)
(***************************************************************************)
EXTENDS Integers, Sequences

CONSTANTS Callers,      \* goroutines that use the client
          NoCaller,     \* reqMu is free
          Calls,        \* the calls each goroutine makes
          RefMod,       \* number of PDU references, 2^16 in the code
          Attempts,     \* rack/slot pairs Connect tries: 1, 5 or 24
          MaxRefs,      \* bound: requests sent
          MaxConns      \* bound: connections dialled

ASSUME CallersAssumption == NoCaller \notin Callers

ASSUME RefModAssumption == RefMod \in Nat /\ RefMod >= 2

ASSUME BoundsAssumption ==
  /\ Attempts \in Nat \ {0}
  /\ MaxRefs \in Nat
  /\ MaxConns \in Nat

VARIABLES reqMu,      \* holder of Client.reqMu
          conn,       \* Client.conn, 0 for nil
          session,    \* the connection the negotiated fields (pduSize, rack,
                      \* slot, TSAPs, AmQ) come from, 0 when they are zero
          pduRef,     \* Client.pduRef
          dialled,    \* connections dialled so far
          cst,        \* state of each connection
          reqs,       \* requests the peer has not answered, per connection
          answers,    \* answers not read yet, per connection
          abandoned,  \* connections with an exchange whose answer was not read
          pc, call,   \* where each caller is, and in which call
          planned,    \* the session an operation took pduSize from
          using,      \* the connection sendReceive took
          want, have, \* identity of the request sent, of the answer accepted
          new, old,   \* connectOnce: connection dialled, connection replaced
          tries,      \* connectOnce calls made
          before,     \* conn when Connect took reqMu
          res,        \* outcome of the last exchange
          ctxDone     \* callers whose context has ended

clientVars == <<reqMu, conn, session, pduRef>>
netVars == <<dialled, cst, reqs, answers, abandoned>>
opVars == <<planned, using, want, have>>
connectVars == <<new, old, tries, before>>
vars == <<clientVars, netVars, opVars, connectVars, pc, call, res, ctxDone>>

Conns == 1..MaxConns
ConnIds == 0..MaxConns
Requests == [id : Nat, ref : Nat]
Answers == [id : Nat, ref : Nat, kind : {"ok", "error", "bad"}]

InCall == {"op", "written", "reading", "dial", "setup", "swapped", "close"}
OpStates == {"op", "written", "reading"}

Outcomes == {"none", "ok", "ErrNotConnected", "ErrRequestExceedsPDU", "transport",
             "ctxErr", "ErrProtocolFailure", "PDURefMismatch", "S7Error"}

ClientTypeOK ==
  /\ reqMu \in Callers \cup {NoCaller}
  /\ conn \in ConnIds
  /\ session \in ConnIds
  /\ pduRef \in Nat

NetTypeOK ==
  /\ dialled \in ConnIds
  /\ cst \in [Conns -> {"none", "open", "dropped", "aborted", "closed"}]
  /\ reqs \in [Conns -> Seq(Requests)]
  /\ answers \in [Conns -> Seq(Answers)]
  /\ abandoned \in SUBSET Conns

CallTypeOK ==
  /\ pc \in [Callers -> InCall \cup {"idle", "lock"}]
  /\ call \in [Callers -> {"op", "Connect", "Close"}]
  /\ planned \in [Callers -> ConnIds]
  /\ using \in [Callers -> ConnIds]
  /\ want \in [Callers -> Nat]
  /\ have \in [Callers -> Nat]
  /\ new \in [Callers -> ConnIds]
  /\ old \in [Callers -> ConnIds]
  /\ tries \in [Callers -> Nat]
  /\ before \in [Callers -> ConnIds]
  /\ res \in [Callers -> Outcomes]
  /\ ctxDone \in SUBSET Callers

\* The types of the client's fields, of the connections and of what each
\* call keeps in its locals.
TypeOK == ClientTypeOK /\ NetTypeOK /\ CallTypeOK

Init ==
  /\ reqMu = NoCaller
  /\ conn = 0
  /\ session = 0
  /\ pduRef = 0
  /\ dialled = 0
  /\ cst = [k \in Conns |-> "none"]
  /\ reqs = [k \in Conns |-> <<>>]
  /\ answers = [k \in Conns |-> <<>>]
  /\ abandoned = {}
  /\ pc = [g \in Callers |-> "idle"]
  /\ call = [g \in Callers |-> "op"]
  /\ planned = [g \in Callers |-> 0]
  /\ using = [g \in Callers |-> 0]
  /\ want = [g \in Callers |-> 0]
  /\ have = [g \in Callers |-> 0]
  /\ new = [g \in Callers |-> 0]
  /\ old = [g \in Callers |-> 0]
  /\ tries = [g \in Callers |-> 0]
  /\ before = [g \in Callers |-> 0]
  /\ res = [g \in Callers |-> "none"]
  /\ ctxDone = {}

-----------------------------------------------------------------------------
(* Calls *)

Goto(g, to) == pc' = [pc EXCEPT ![g] = to]
Outcome(g, r) == res' = [res EXCEPT ![g] = r]

\* A goroutine calls Connect, Close or an operation, with a fresh context.
Call(g, c) ==
  /\ pc[g] = "idle" /\ c \in Calls[g]
  /\ Goto(g, "lock")
  /\ call' = [call EXCEPT ![g] = c]
  /\ UNCHANGED <<clientVars, netVars, opVars, connectVars, res, ctxDone>>

\* Mutant: operations do not take reqMu.
LockNotForOps(g) ==
  /\ pc[g] = "lock"
  /\ \/ call[g] # "op" /\ reqMu = NoCaller /\ reqMu' = g
     \/ call[g] = "op" /\ UNCHANGED reqMu
  /\ Goto(g, CASE call[g] = "op" -> "op"
               [] call[g] = "Connect" -> "dial"
               [] call[g] = "Close" -> "close")
  /\ planned' = [planned EXCEPT ![g] = session]
  /\ before' = [before EXCEPT ![g] = conn]
  /\ UNCHANGED <<conn, session, pduRef, netVars, using, want, have, new, old, tries, call, res, ctxDone>>

\* reqMu.Lock(); an operation then reads the negotiated pduSize.
Lock(g) ==
  /\ pc[g] = "lock"
  /\ reqMu = NoCaller
  /\ reqMu' = g
  /\ Goto(g, CASE call[g] = "op" -> "op"
               [] call[g] = "Connect" -> "dial"
               [] call[g] = "Close" -> "close")
  /\ planned' = [planned EXCEPT ![g] = session]
  /\ before' = [before EXCEPT ![g] = conn]
  /\ UNCHANGED <<conn, session, pduRef, netVars, using, want, have, new, old, tries, call, res, ctxDone>>

\* The deferred reqMu.Unlock() of a call that returns, its locals gone.
Return(g) ==
  /\ reqMu' = NoCaller
  /\ Goto(g, "idle")
  /\ Outcome(g, "none")
  /\ call' = [call EXCEPT ![g] = "op"]
  /\ ctxDone' = ctxDone \ {g}
  /\ planned' = [planned EXCEPT ![g] = 0]
  /\ using' = [using EXCEPT ![g] = 0]
  /\ want' = [want EXCEPT ![g] = 0]
  /\ have' = [have EXCEPT ![g] = 0]
  /\ new' = [new EXCEPT ![g] = 0]
  /\ old' = [old EXCEPT ![g] = 0]
  /\ tries' = [tries EXCEPT ![g] = 0]
  /\ before' = [before EXCEPT ![g] = 0]

-----------------------------------------------------------------------------
(* Operations: exchanges under one reqMu *)

\* nextPDURef: the counter modulo RefMod, never 0.
nextPDURef(n) == IF (n + 1) % RefMod = 0 THEN n + 2 ELSE n + 1

Live(k) == cst[k] \in {"open", "dropped"}

\* sendReceive up to and including WriteTSDU.
SendRequest(g) ==
  /\ pc[g] = "op"
  /\ pduRef < MaxRefs
  /\ pduRef' = nextPDURef(pduRef)
  /\ want' = [want EXCEPT ![g] = pduRef']
  /\ have' = [have EXCEPT ![g] = 0]
  /\ using' = [using EXCEPT ![g] = conn]
  /\ \/ /\ conn = 0
        /\ Outcome(g, "ErrNotConnected")
        /\ UNCHANGED <<pc, cst, reqs>>
     \/ /\ conn # 0
        /\ Outcome(g, "ErrRequestExceedsPDU")
        /\ UNCHANGED <<pc, cst, reqs>>
     \/ /\ conn # 0 /\ Live(conn)      \* a dropped peer may still take bytes
        /\ reqs' = [reqs EXCEPT ![conn] = Append(@, [id |-> pduRef', ref |-> pduRef' % RefMod])]
        /\ Goto(g, "written")
        /\ Outcome(g, "none")
        /\ UNCHANGED cst
     \/ /\ conn # 0                    \* nothing sent, or the connection aborted
        /\ \/ UNCHANGED cst
           \/ Live(conn) /\ cst' = [cst EXCEPT ![conn] = "aborted"]
        /\ Outcome(g, "transport")
        /\ UNCHANGED <<pc, reqs>>
  /\ UNCHANGED <<reqMu, conn, session, dialled, answers, abandoned, planned, connectVars, call, ctxDone>>

\* The ctx.Err() between WriteTSDU and ReadTSDU: the answer stays unread.
CheckCtx(g) ==
  /\ pc[g] = "written"
  /\ \/ /\ g \in ctxDone
        /\ Goto(g, "op")
        /\ Outcome(g, "ctxErr")
        /\ abandoned' = abandoned \cup {using[g]}
     \/ /\ g \notin ctxDone
        /\ Goto(g, "reading")
        /\ UNCHANGED <<res, abandoned>>
  /\ UNCHANGED <<clientVars, dialled, cst, reqs, answers, opVars, connectVars, call, ctxDone>>

\* Mutant: the PDU reference of the answer is not compared.
CheckAnswerUncorrelated(g, a) ==
  \/ a.kind = "bad" /\ Outcome(g, "ErrProtocolFailure") /\ UNCHANGED have
  \/ a.kind = "error" /\ Outcome(g, "S7Error") /\ UNCHANGED have
  \/ a.kind = "ok" /\ Outcome(g, "ok") /\ have' = [have EXCEPT ![g] = a.id]

\* What sendReceive makes of a TSDU: header, reference, header error, payload.
CheckAnswer(g, a) ==
  \/ a.kind = "bad" /\ Outcome(g, "ErrProtocolFailure") /\ UNCHANGED have
  \/ /\ a.kind # "bad" /\ a.ref # want[g] % RefMod
     /\ Outcome(g, "PDURefMismatch") /\ UNCHANGED have
  \/ /\ a.kind = "error" /\ a.ref = want[g] % RefMod
     /\ Outcome(g, "S7Error") /\ have' = [have EXCEPT ![g] = a.id]
  \/ /\ a.kind = "ok" /\ a.ref = want[g] % RefMod
     /\ Outcome(g, "ok") /\ have' = [have EXCEPT ![g] = a.id]

\* Mutant: answers with another reference are skipped.
ReadAnswerSkipping(g) ==
  LET k == using[g] IN
  /\ pc[g] = "reading"
  /\ Live(k) /\ answers[k] # <<>>
  /\ CheckAnswer(g, Head(answers[k]))
  /\ answers' = [answers EXCEPT ![k] = Tail(@)]
  /\ Goto(g, IF res'[g] = "PDURefMismatch" THEN "reading" ELSE "op")
  /\ UNCHANGED <<clientVars, dialled, cst, reqs, abandoned, planned, using, want, connectVars, call, ctxDone>>

\* ReadTSDU returns the next TSDU of the stream.
ReadAnswer(g) ==
  LET k == using[g] IN
  /\ pc[g] = "reading"
  /\ Live(k) /\ answers[k] # <<>>
  /\ CheckAnswer(g, Head(answers[k]))
  /\ answers' = [answers EXCEPT ![k] = Tail(@)]
  /\ Goto(g, "op")
  /\ UNCHANGED <<clientVars, dialled, cst, reqs, abandoned, planned, using, want, connectVars, call, ctxDone>>

\* Mutant: the read does not watch the context.
ReadErrorDeadOnly(g) ==
  /\ pc[g] = "reading"
  /\ cst[using[g]] # "open"
  /\ abandoned' = abandoned \cup {using[g]}
  /\ Outcome(g, "transport")
  /\ Goto(g, "op")
  /\ UNCHANGED <<clientVars, dialled, cst, reqs, answers, opVars, connectVars, call, ctxDone>>

\* ReadTSDU fails: a dead connection, or the context, which usually aborts it.
ReadError(g) ==
  LET k == using[g] IN
  /\ pc[g] = "reading"
  /\ \/ cst[k] # "open" /\ UNCHANGED cst
     \/ g \in ctxDone /\ UNCHANGED cst
     \/ g \in ctxDone /\ Live(k) /\ cst' = [cst EXCEPT ![k] = "aborted"]
  /\ abandoned' = abandoned \cup {k}
  /\ Outcome(g, "transport")
  /\ Goto(g, "op")
  /\ UNCHANGED <<clientVars, dialled, reqs, answers, opVars, connectVars, call, ctxDone>>

\* The operation returns: after its last exchange, at an error, or at once.
OpReturn(g) ==
  /\ pc[g] = "op"
  /\ Return(g)
  /\ UNCHANGED <<conn, session, pduRef, netVars>>

-----------------------------------------------------------------------------
(* Connect *)

\* connectOnce failed: autoConnect goes on with the next pair, or Connect returns.
NextTry(g) ==
  \/ /\ tries[g] + 1 < Attempts
     /\ tries' = [tries EXCEPT ![g] = @ + 1]
     /\ new' = [new EXCEPT ![g] = 0]
     /\ Goto(g, "dial")
     /\ UNCHANGED <<reqMu, opVars, old, before, call, res, ctxDone>>
  \/ /\ tries[g] + 1 >= Attempts
     /\ Return(g)

\* autoConnect looks at ctx.Err() before each pair; connectOnce alone does not.
ConnectCtx(g) ==
  /\ pc[g] = "dial" /\ Attempts > 1 /\ g \in ctxDone
  /\ Return(g)
  /\ UNCHANGED <<conn, session, pduRef, netVars>>

\* dialCOTP: TCP and COTP connect; a failure leaves no connection behind.
DialFail(g) ==
  /\ pc[g] = "dial" /\ (Attempts > 1 => g \notin ctxDone)
  /\ NextTry(g)
  /\ UNCHANGED <<conn, session, pduRef, netVars>>

DialOK(g) ==
  /\ pc[g] = "dial" /\ (Attempts > 1 => g \notin ctxDone)
  /\ dialled < MaxConns
  /\ dialled' = dialled + 1
  /\ cst' = [cst EXCEPT ![dialled'] = "open"]
  /\ new' = [new EXCEPT ![g] = dialled']
  /\ Goto(g, "setup")
  /\ UNCHANGED <<clientVars, reqs, answers, abandoned, opVars, old, tries, before, call, res, ctxDone>>

\* Mutant: a failed setup leaves the new connection open.
SetupFailKeepsConn(g) ==
  /\ pc[g] = "setup"
  /\ NextTry(g)
  /\ UNCHANGED <<conn, session, pduRef, netVars>>

\* Mutant: a failed Connect drops the session it was to replace.
SetupFailDropsSession(g) ==
  /\ pc[g] = "setup"
  /\ cst' = [k \in Conns |-> IF k \in {new[g], conn} THEN "closed" ELSE cst[k]]
  /\ conn' = 0 /\ session' = 0
  /\ NextTry(g)
  /\ UNCHANGED <<pduRef, dialled, reqs, answers, abandoned>>

\* performS7Setup fails (I/O, reference, header error, context): closeCOTP.
SetupFail(g) ==
  /\ pc[g] = "setup"
  /\ cst' = [cst EXCEPT ![new[g]] = "closed"]
  /\ NextTry(g)
  /\ UNCHANGED <<conn, session, pduRef, dialled, reqs, answers, abandoned>>

\* performS7Setup succeeds: under mu the new connection and what it
\* negotiated replace the old ones.
SetupOK(g) ==
  /\ pc[g] = "setup" /\ Live(new[g])
  /\ old' = [old EXCEPT ![g] = conn]
  /\ conn' = new[g]
  /\ session' = new[g]
  /\ Goto(g, "swapped")
  /\ UNCHANGED <<reqMu, pduRef, netVars, opVars, new, tries, before, call, res, ctxDone>>

\* closeCOTP of the connection that was replaced; Connect returns nil.
CloseOld(g) ==
  /\ pc[g] = "swapped"
  /\ cst' = [k \in Conns |-> IF k = old[g] THEN "closed" ELSE cst[k]]
  /\ Return(g)
  /\ UNCHANGED <<conn, session, pduRef, dialled, reqs, answers, abandoned>>

-----------------------------------------------------------------------------
(* Close *)

\* closeConnLocked: the fields are cleared even when closeCOTP fails.
CloseConn(g) ==
  /\ pc[g] = "close"
  /\ cst' = [k \in Conns |-> IF k = conn THEN "closed" ELSE cst[k]]
  /\ conn' = 0
  /\ session' = IF conn = 0 THEN session ELSE 0
  /\ Return(g)
  /\ UNCHANGED <<pduRef, dialled, reqs, answers, abandoned>>

-----------------------------------------------------------------------------
(* The peer and the contexts *)

\* A peer answers requests in the order they came, with their reference
\* (server/server.go serveConn does: read, handle, write).
PeerAnswers(k) ==
  /\ cst[k] = "open" /\ reqs[k] # <<>>
  /\ \E kind \in {"ok", "error", "bad"} :
       answers' = [answers EXCEPT ![k] =
         Append(@, [id |-> Head(reqs[k]).id, ref |-> Head(reqs[k]).ref, kind |-> kind])]
  /\ reqs' = [reqs EXCEPT ![k] = Tail(@)]
  /\ UNCHANGED <<clientVars, dialled, cst, abandoned, opVars, connectVars, pc, call, res, ctxDone>>

PeerDrops(k) ==
  /\ cst[k] = "open"
  /\ cst' = [cst EXCEPT ![k] = "dropped"]
  /\ UNCHANGED <<clientVars, dialled, reqs, answers, abandoned, opVars, connectVars, pc, call, res, ctxDone>>

CtxEnds(g) ==
  /\ pc[g] # "idle" /\ g \notin ctxDone
  /\ ctxDone' = ctxDone \cup {g}
  /\ UNCHANGED <<clientVars, netVars, opVars, connectVars, pc, call, res>>

OpStep(g) == SendRequest(g) \/ CheckCtx(g) \/ ReadAnswer(g) \/ ReadError(g) \/ OpReturn(g)

ConnectStep(g) ==
  ConnectCtx(g) \/ DialFail(g) \/ DialOK(g) \/ SetupFail(g) \/ SetupOK(g) \/ CloseOld(g)

CallerStep(g) == Lock(g) \/ OpStep(g) \/ ConnectStep(g) \/ CloseConn(g)

Next ==
  \/ \E g \in Callers, c \in {"op", "Connect", "Close"} : Call(g, c)
  \/ \E g \in Callers : CallerStep(g) \/ CtxEnds(g)
  \/ \E k \in Conns : PeerAnswers(k) \/ PeerDrops(k)

Spec == Init /\ [][Next]_vars

\* Go's mutex hands the lock to a waiter that has waited long enough, so a
\* caller that finds reqMu free again and again gets it.  Every goroutine
\* goes on when it can.  Contexts end: without a deadline or a cancel an
\* operation may block for ever, as ERRORS.md says.
Fairness ==
  \A g \in Callers :
    /\ SF_vars(Lock(g))
    /\ WF_vars(OpStep(g) \/ ConnectStep(g) \/ CloseConn(g))
    /\ WF_vars(CtxEnds(g))

FairSpec == Spec /\ Fairness

-----------------------------------------------------------------------------
(* Properties *)

\* An answer sendReceive accepts belongs to the request it sent, or an
\* earlier exchange on this connection was left unread and at least RefMod
\* requests lie between the two: the 16-bit reference went round once.
Correlated ==
  \A g \in Callers :
    have[g] # 0 => \/ have[g] = want[g]
                   \/ /\ using[g] \in abandoned
                      /\ want[g] - have[g] >= RefMod

\* sendReceive reports a wrong PDU reference only on a connection on which
\* an earlier exchange returned without reading its answer.
MismatchOnlyAfterAbandon ==
  \A g \in Callers : res[g] = "PDURefMismatch" => using[g] \in abandoned

\* The PDU reference tells answers apart: sendReceive neither takes the answer
\* to another request for its own nor refuses its own, as long as no exchange
\* on the connection was left unread; afterwards it takes a wrong one only
\* when the reference has gone round.
AnswersMatched == Correlated /\ MismatchOnlyAfterAbandon

\* Once an exchange has left its answer unread, the answers on that
\* connection stay one behind: no operation gets the answer to its own
\* request again, until Connect replaces the connection.
AbandonedStaysOutOfStep ==
  \A g \in Callers : pc[g] = "op" /\ using[g] \in abandoned => have[g] # want[g]

\* Every connection that was dialled and not closed is the session's, the one
\* a Connect is setting up, or the one it has just replaced: none is leaked,
\* on no error path of Connect and Close.
ConnOwned ==
  \A k \in Conns :
    cst[k] \in {"open", "dropped", "aborted"} =>
      \/ k = conn
      \/ \E g \in Callers : \/ pc[g] = "setup" /\ new[g] = k
                            \/ pc[g] = "swapped" /\ old[g] = k

\* An operation that planned its chunks from the PDU size of a session sends
\* every one of its requests on that session, which no Connect replaces and
\* no Close closes under it.
SessionStable ==
  \A g \in Callers :
    pc[g] \in OpStates => /\ planned[g] = conn
                          /\ conn # 0 => cst[conn] # "closed"

\* "A failed reconnect does not drop an existing healthy session"
\* (connectOnce): a Connect that fails returns with the connection it found,
\* not closed, and what that connection had negotiated.
FailedConnectKeepsSession ==
  [][\A g \in Callers :
       pc[g] \in {"dial", "setup"} /\ pc'[g] = "idle" =>
         /\ conn' = before[g]
         /\ session' = before[g]
         /\ conn' # 0 => cst'[conn'] # "closed"]_vars

\* Every call of Connect, Close or an operation returns, provided its context
\* ends: no caller waits for ever for reqMu or in an exchange.
CallReturns == \A g \in Callers : pc[g] # "idle" ~> pc[g] = "idle"

=============================================================================
