--------------------------- MODULE ServerLifecycle ---------------------------
(***************************************************************************)
(* The life of a server.Server (server/server.go): Serve loops accepting   *)
(* connections, one goroutine per served connection, the slots channel     *)
(* that bounds them, the tables of listeners and connections, and Close,   *)
(* called by the host or by context.AfterFunc when the context of a Serve  *)
(* ends.                                                                   *)
(*                                                                         *)
(* A region that holds Server.mu never blocks inside, and what it guards   *)
(* is only touched under it: each region is one step.  The steps between   *)
(* two regions interleave freely.  What one connection answers to a job is *)
(* not looked at here: module ServerMemory has it.                         *)
(***************************************************************************)
EXTENDS Naturals, FiniteSets

CONSTANTS Serves,          \* calls of Serve, each with its own listener
          Closers,         \* calls of Close made by the host
          Conns,           \* connections peers may open
          NoConn,          \* no connection at hand
          MaxConnections,  \* Config.MaxConnections, after withDefaults
          IdleTimeout      \* TRUE when Config.IdleTimeout is set

ASSUME ServesAssumption ==
  /\ IsFiniteSet(Serves) /\ IsFiniteSet(Closers) /\ IsFiniteSet(Conns)
  /\ Serves \cap Closers = {}
  /\ NoConn \notin Conns

ASSUME MaxConnectionsAssumption == MaxConnections \in Nat \ {0}

ASSUME IdleTimeoutAssumption == IdleTimeout \in BOOLEAN

VARIABLES closed,     \* Server.closed
          listeners,  \* Server.listeners, a listener named by its Serve
          conns,      \* Server.conns
          slots,      \* number of tokens in the channel Server.slots
          wg,         \* counter of the WaitGroup Server.wg
          lnOpen,     \* listeners whose socket is open
          rawOpen,    \* connections whose socket the server has not closed
          peer,       \* what the peer of each connection does
          serving,    \* where each Serve is
          cur,        \* the connection Serve took from Accept
          st,         \* where each connection is in Serve and serveConn
          ctxDone,    \* Serves whose context has ended
          afterFunc,  \* the context.AfterFunc registration of each Serve
          ret,        \* what each Serve returned
          closing     \* where each call of Close is

serverVars == <<closed, listeners, conns>>
syncVars   == <<slots, wg>>
netVars    == <<lnOpen, rawOpen, peer>>
serveVars  == <<serving, cur, ret, afterFunc>>
vars == <<serverVars, syncVars, netVars, serveVars, st, ctxDone, closing>>

\* Close runs for the host, or in the goroutine AfterFunc starts for a Serve.
CloseCalls == Closers \cup Serves

(***************************************************************************)
(* A connection is "slotted" once Serve has its slot, "tracked" once       *)
(* addConn has it; from "handshake" to "release" its goroutine runs.       *)
(***************************************************************************)
Running == {"handshake", "read", "handle", "write", "remove", "release"}
Holding == Running \cup {"slotted", "tracked"}

ConnStates == Holding \cup {"new", "accepted", "done"}
ServeStates == {"init", "accept", "return", "returned"}
Results == {"none", "ctxErr", "ErrServerClosed", "acceptErr"}

\* Every variable has its type; the counters never go below zero.
TypeOK ==
  /\ closed \in BOOLEAN
  /\ listeners \in SUBSET Serves
  /\ conns \in SUBSET Conns
  /\ slots \in Nat
  /\ wg \in Nat
  /\ lnOpen \in SUBSET Serves
  /\ rawOpen \in SUBSET Conns
  /\ peer \in [Conns -> {"absent", "present", "gone"}]
  /\ serving \in [Serves -> ServeStates]
  /\ cur \in [Serves -> Conns \cup {NoConn}]
  /\ st \in [Conns -> ConnStates]
  /\ ctxDone \in SUBSET Serves
  /\ afterFunc \in [Serves -> {"none", "armed", "stopped", "fired"}]
  /\ ret \in [Serves -> Results]
  /\ closing \in [CloseCalls -> {"idle", "called", "waiting", "returned"}]

\* New, and listeners the callers of Serve have already opened.
Init ==
  /\ closed = FALSE
  /\ listeners = {}
  /\ conns = {}
  /\ slots = 0
  /\ wg = 0
  /\ lnOpen = Serves
  /\ rawOpen = {}
  /\ peer = [c \in Conns |-> "absent"]
  /\ serving = [s \in Serves |-> "init"]
  /\ cur = [s \in Serves |-> NoConn]
  /\ st = [c \in Conns |-> "new"]
  /\ ctxDone = {}
  /\ afterFunc = [s \in Serves |-> "none"]
  /\ ret = [s \in Serves |-> "none"]
  /\ closing = [k \in CloseCalls |-> "idle"]

-----------------------------------------------------------------------------
(* Serve *)

\* The return value is chosen; the deferred calls are still to run.
Returning(s, result) ==
  /\ serving' = [serving EXCEPT ![s] = "return"]
  /\ ret' = [ret EXCEPT ![s] = result]

\* track, then the AfterFunc registration; a closed server closes ln instead.
Track(s) ==
  /\ serving[s] = "init"
  /\ \/ /\ closed
        /\ lnOpen' = lnOpen \ {s}
        /\ Returning(s, "ErrServerClosed")
        /\ UNCHANGED <<listeners, afterFunc>>
     \/ /\ ~closed
        /\ listeners' = listeners \cup {s}
        /\ serving' = [serving EXCEPT ![s] = "accept"]
        /\ afterFunc' = [afterFunc EXCEPT ![s] = "armed"]
        /\ UNCHANGED <<lnOpen, ret>>
  /\ UNCHANGED <<closed, conns, syncVars, rawOpen, peer, cur, st, ctxDone, closing>>

\* Accept returns a connection some peer has opened.
Accept(s, c) ==
  /\ serving[s] = "accept" /\ cur[s] = NoConn /\ s \in lnOpen
  /\ st[c] = "new"
  /\ st' = [st EXCEPT ![c] = "accepted"]
  /\ cur' = [cur EXCEPT ![s] = c]
  /\ rawOpen' = rawOpen \cup {c}
  /\ peer' = [peer EXCEPT ![c] = "present"]
  /\ UNCHANGED <<serverVars, syncVars, lnOpen, serving, ret, afterFunc, ctxDone, closing>>

(***************************************************************************)
(* Accept returns an error: the listener was closed, or (open) the system  *)
(* call failed.  ctx.Err() is looked at first, then Server.closed; a       *)
(* timeout only continues the loop and changes nothing.                    *)
(***************************************************************************)
AcceptError(s) ==
  /\ serving[s] = "accept" /\ cur[s] = NoConn
  /\ \/ s \in ctxDone /\ Returning(s, "ctxErr")
     \/ s \notin ctxDone /\ closed /\ Returning(s, "ErrServerClosed")
     \/ s \notin ctxDone /\ ~closed /\ Returning(s, "acceptErr")
  /\ UNCHANGED <<serverVars, syncVars, netVars, cur, afterFunc, st, ctxDone, closing>>

\* Mutant: the select only looks at the limit and takes no slot.
TakeSlotUncounted(s) ==
  /\ cur[s] # NoConn /\ st[cur[s]] = "accepted"
  /\ slots < MaxConnections
  /\ st' = [st EXCEPT ![cur[s]] = "slotted"]
  /\ UNCHANGED <<serverVars, syncVars, netVars, serveVars, ctxDone, closing>>

\* The select on slots: take one, or refuse the connection at the limit.
TakeSlot(s) ==
  /\ cur[s] # NoConn /\ st[cur[s]] = "accepted"
  /\ \/ /\ slots < MaxConnections
        /\ slots' = slots + 1
        /\ st' = [st EXCEPT ![cur[s]] = "slotted"]
        /\ UNCHANGED <<cur, rawOpen>>
     \/ /\ slots = MaxConnections
        /\ rawOpen' = rawOpen \ {cur[s]}
        /\ st' = [st EXCEPT ![cur[s]] = "done"]
        /\ cur' = [cur EXCEPT ![s] = NoConn]
        /\ UNCHANGED slots
  /\ UNCHANGED <<serverVars, wg, lnOpen, peer, serving, ret, afterFunc, ctxDone, closing>>

\* Mutant: Serve returns without giving the slot back.
AddConnKeepsSlot(s) ==
  /\ cur[s] # NoConn /\ st[cur[s]] = "slotted"
  /\ \/ /\ closed
        /\ rawOpen' = rawOpen \ {cur[s]}
        /\ st' = [st EXCEPT ![cur[s]] = "done"]
        /\ cur' = [cur EXCEPT ![s] = NoConn]
        /\ Returning(s, "ErrServerClosed")
        /\ UNCHANGED conns
     \/ /\ ~closed
        /\ conns' = conns \cup {cur[s]}
        /\ st' = [st EXCEPT ![cur[s]] = "tracked"]
        /\ UNCHANGED <<rawOpen, cur, serving, ret>>
  /\ UNCHANGED <<closed, listeners, syncVars, lnOpen, peer, afterFunc, ctxDone, closing>>

\* Mutant: addConn does not look at Server.closed.
AddConnUnchecked(s) ==
  /\ cur[s] # NoConn /\ st[cur[s]] = "slotted"
  /\ conns' = conns \cup {cur[s]}
  /\ st' = [st EXCEPT ![cur[s]] = "tracked"]
  /\ UNCHANGED <<closed, listeners, syncVars, netVars, serveVars, ctxDone, closing>>

\* addConn; when the server has closed, the slot goes back and Serve returns.
AddConn(s) ==
  /\ cur[s] # NoConn /\ st[cur[s]] = "slotted"
  /\ \/ /\ closed
        /\ slots' = slots - 1
        /\ rawOpen' = rawOpen \ {cur[s]}
        /\ st' = [st EXCEPT ![cur[s]] = "done"]
        /\ cur' = [cur EXCEPT ![s] = NoConn]
        /\ Returning(s, "ErrServerClosed")
        /\ UNCHANGED conns
     \/ /\ ~closed
        /\ conns' = conns \cup {cur[s]}
        /\ st' = [st EXCEPT ![cur[s]] = "tracked"]
        /\ UNCHANGED <<slots, rawOpen, cur, serving, ret>>
  /\ UNCHANGED <<closed, listeners, wg, lnOpen, peer, afterFunc, ctxDone, closing>>

\* wg.Go: the counter and the goroutine, then back to Accept.
StartConn(s) ==
  /\ cur[s] # NoConn /\ st[cur[s]] = "tracked"
  /\ wg' = wg + 1
  /\ st' = [st EXCEPT ![cur[s]] = "handshake"]
  /\ cur' = [cur EXCEPT ![s] = NoConn]
  /\ UNCHANGED <<serverVars, slots, netVars, serving, ret, afterFunc, ctxDone, closing>>

\* The deferred stop and untrack (none was deferred when track failed).
ServeReturn(s) ==
  /\ serving[s] = "return"
  /\ serving' = [serving EXCEPT ![s] = "returned"]
  /\ afterFunc' = [afterFunc EXCEPT ![s] = IF @ = "armed" THEN "stopped" ELSE @]
  /\ listeners' = listeners \ {s}
  /\ lnOpen' = lnOpen \ {s}
  /\ UNCHANGED <<closed, conns, syncVars, rawOpen, peer, cur, ret, st, ctxDone, closing>>

-----------------------------------------------------------------------------
(* serveConn, in the goroutine of connection c *)

ConnStep(c, from, to) ==
  /\ st[c] = from
  /\ st' = [st EXCEPT ![c] = to]

\* cotp.Accept succeeds: needs both ends.
HandshakeOK(c) ==
  /\ c \in rawOpen /\ peer[c] = "present"
  /\ ConnStep(c, "handshake", "read")
  /\ UNCHANGED <<serverVars, syncVars, netVars, serveVars, ctxDone, closing>>

\* cotp.Accept fails: no handshake, or HandshakeTimeout ended it.
HandshakeFail(c) ==
  /\ ConnStep(c, "handshake", "remove")
  /\ UNCHANGED <<serverVars, syncVars, netVars, serveVars, ctxDone, closing>>

\* ReadTSDU returns a request.
ReadRequest(c) ==
  /\ c \in rawOpen /\ peer[c] = "present"
  /\ ConnStep(c, "read", "handle")
  /\ UNCHANGED <<serverVars, syncVars, netVars, serveVars, ctxDone, closing>>

\* Mutant: the loop tries again after a failed read.
ReadFailRetried(c) ==
  /\ c \notin rawOpen \/ peer[c] = "gone" \/ IdleTimeout
  /\ ConnStep(c, "read", "read")
  /\ UNCHANGED <<serverVars, syncVars, netVars, serveVars, ctxDone, closing>>

\* ReadTSDU fails: a closed socket, a peer that left, or IdleTimeout.
ReadFail(c) ==
  /\ c \notin rawOpen \/ peer[c] = "gone" \/ IdleTimeout
  /\ ConnStep(c, "read", "remove")
  /\ UNCHANGED <<serverVars, syncVars, netVars, serveVars, ctxDone, closing>>

\* session.handle: an answer, no answer, or a malformed PDU that ends it.
Handle(c) ==
  /\ \E next \in {"write", "read", "remove"} : ConnStep(c, "handle", next)
  /\ UNCHANGED <<serverVars, syncVars, netVars, serveVars, ctxDone, closing>>

\* WriteTSDU, without a deadline: the peer takes the answer.
WriteOK(c) ==
  /\ c \in rawOpen /\ peer[c] = "present"
  /\ ConnStep(c, "write", "read")
  /\ UNCHANGED <<serverVars, syncVars, netVars, serveVars, ctxDone, closing>>

\* WriteTSDU fails: only a dead connection ends it.
WriteFail(c) ==
  /\ c \notin rawOpen \/ peer[c] = "gone"
  /\ ConnStep(c, "write", "remove")
  /\ UNCHANGED <<serverVars, syncVars, netVars, serveVars, ctxDone, closing>>

\* removeConn, deferred: out of the table, socket closed.
RemoveConn(c) ==
  /\ ConnStep(c, "remove", "release")
  /\ conns' = conns \ {c}
  /\ rawOpen' = rawOpen \ {c}
  /\ UNCHANGED <<closed, listeners, syncVars, lnOpen, peer, serveVars, ctxDone, closing>>

\* The slot goes back, then the goroutine ends and wg counts down.
ReleaseSlot(c) ==
  /\ ConnStep(c, "release", "done")
  /\ slots' = slots - 1
  /\ wg' = wg - 1
  /\ UNCHANGED <<serverVars, netVars, serveVars, ctxDone, closing>>

-----------------------------------------------------------------------------
(* Close *)

\* The host calls Close, or the AfterFunc of an ended context starts it.
CallClose(k) ==
  /\ k \in Closers
  /\ closing[k] = "idle"
  /\ closing' = [closing EXCEPT ![k] = "called"]
  /\ UNCHANGED <<serverVars, syncVars, netVars, serveVars, st, ctxDone>>

AfterFuncFires(s) ==
  /\ s \in ctxDone /\ afterFunc[s] = "armed"
  /\ afterFunc' = [afterFunc EXCEPT ![s] = "fired"]
  /\ closing' = [closing EXCEPT ![s] = "called"]
  /\ UNCHANGED <<serverVars, syncVars, netVars, serving, cur, ret, st, ctxDone>>

\* Mutant: Close leaves the connections to their peers.
CloseAllKeepsConns(k) ==
  /\ closing[k] = "called"
  /\ closing' = [closing EXCEPT ![k] = "waiting"]
  /\ closed' = TRUE
  /\ lnOpen' = lnOpen \ listeners
  /\ UNCHANGED <<listeners, conns, syncVars, rawOpen, peer, serveVars, st, ctxDone>>

\* The region under mu: the first Close closes every listener and socket.
CloseAll(k) ==
  /\ closing[k] = "called"
  /\ closing' = [closing EXCEPT ![k] = "waiting"]
  /\ closed' = TRUE
  /\ \/ closed /\ UNCHANGED <<lnOpen, rawOpen>>
     \/ /\ ~closed
        /\ lnOpen' = lnOpen \ listeners
        /\ rawOpen' = rawOpen \ conns
  /\ UNCHANGED <<listeners, conns, syncVars, peer, serveVars, st, ctxDone>>

\* wg.Wait returns.
CloseReturn(k) ==
  /\ closing[k] = "waiting"
  /\ wg = 0
  /\ closing' = [closing EXCEPT ![k] = "returned"]
  /\ UNCHANGED <<serverVars, syncVars, netVars, serveVars, st, ctxDone>>

-----------------------------------------------------------------------------
(* What the server does not control *)

CtxEnds(s) ==
  /\ s \notin ctxDone
  /\ ctxDone' = ctxDone \cup {s}
  /\ UNCHANGED <<serverVars, syncVars, netVars, serveVars, st, closing>>

PeerLeaves(c) ==
  /\ peer[c] = "present"
  /\ peer' = [peer EXCEPT ![c] = "gone"]
  /\ UNCHANGED <<serverVars, syncVars, lnOpen, rawOpen, serveVars, st, ctxDone, closing>>

ServeStep(s) ==
  \/ Track(s)
  \/ \E c \in Conns : Accept(s, c)
  \/ AcceptError(s)
  \/ TakeSlot(s) \/ AddConn(s) \/ StartConn(s)
  \/ ServeReturn(s)

ServeConn(c) ==
  \/ HandshakeOK(c) \/ HandshakeFail(c)
  \/ ReadRequest(c) \/ ReadFail(c) \/ Handle(c)
  \/ WriteOK(c) \/ WriteFail(c)
  \/ RemoveConn(c) \/ ReleaseSlot(c)

CloseStep(k) == CloseAll(k) \/ CloseReturn(k)

Next ==
  \/ \E s \in Serves : ServeStep(s) \/ AfterFuncFires(s) \/ CtxEnds(s)
  \/ \E c \in Conns : ServeConn(c) \/ PeerLeaves(c)
  \/ \E k \in CloseCalls : CallClose(k) \/ CloseStep(k)

Spec == Init /\ [][Next]_vars

(***************************************************************************)
(* A goroutine that can move does move.  Nothing is assumed of the peers,  *)
(* the contexts and the host: a peer may stay silent or stop taking        *)
(* answers, a context may never end, Close may never be called.  Accept    *)
(* on a closed listener, and a read or a write on a dead connection, do    *)
(* return; HandshakeTimeout is never zero (withDefaults).                  *)
(***************************************************************************)
Fairness ==
  /\ \A s \in Serves :
       /\ WF_vars(TakeSlot(s) \/ AddConn(s) \/ StartConn(s))
       /\ WF_vars(s \notin lnOpen /\ AcceptError(s))
       /\ WF_vars(ServeReturn(s))
       /\ WF_vars(AfterFuncFires(s))
  /\ \A c \in Conns :
       /\ WF_vars(HandshakeOK(c) \/ HandshakeFail(c))
       /\ WF_vars(ReadFail(c))
       /\ WF_vars(Handle(c))
       /\ WF_vars(WriteFail(c))
       /\ WF_vars(RemoveConn(c))
       /\ WF_vars(ReleaseSlot(c))
  /\ \A k \in CloseCalls : WF_vars(CloseStep(k))

FairSpec == Spec /\ Fairness

-----------------------------------------------------------------------------
(* Safety *)

(***************************************************************************)
(* The channel slots holds one token for each connection from the select   *)
(* in Serve to the deferred release, on every path in between, and the     *)
(* WaitGroup counts the goroutines: no token is lost or given back twice,  *)
(* so at most MaxConnections connections are ever served.                  *)
(***************************************************************************)
SlotAccounting ==
  /\ slots = Cardinality({c \in Conns : st[c] \in Holding})
  /\ wg = Cardinality({c \in Conns : st[c] \in Running})
  /\ slots <= MaxConnections

(***************************************************************************)
(* Once Close has run its region, a socket the server has not closed       *)
(* belongs to a Serve that is between Accept and addConn, whichever of     *)
(* the two got Server.mu first: no registered connection escapes Close.    *)
(***************************************************************************)
ClosedReachesAll ==
  closed => \A c \in rawOpen : st[c] \in {"accepted", "slotted"}

(***************************************************************************)
(* After a Close has returned, no connection is being served: none waits   *)
(* for a request, executes a job on the memory or sends an answer.         *)
(***************************************************************************)
CloseStopsService ==
  (\E k \in CloseCalls : closing[k] = "returned") =>
    \A c \in Conns : st[c] \notin {"read", "handle", "write"}

(***************************************************************************)
(* What server.go:188 says of Close, "closes every connection, then waits  *)
(* for their goroutines": after it returned, no connection goroutine       *)
(* runs.                                                                   *)
(***************************************************************************)
CloseWaitsForGoroutines ==
  (\E k \in CloseCalls : closing[k] = "returned") =>
    \A c \in Conns : st[c] \notin Running

-----------------------------------------------------------------------------
(* Liveness *)

\* Every Close returns, whatever the peers do: the goroutines it waits for
\* all stop once their sockets are closed.
CloseReturns ==
  \A k \in CloseCalls : closing[k] = "called" ~> closing[k] = "returned"

\* A Serve that is accepting returns once the server is closed or its own
\* context has ended (through AfterFunc and Close).
ServeReturns ==
  \A s \in Serves :
    serving[s] = "accept" /\ (closed \/ s \in ctxDone) ~> serving[s] = "returned"

\* A peer that leaves frees its slot, wherever serveConn is at that time.
PeerGoneFreesSlot ==
  \A c \in Conns : peer[c] = "gone" /\ st[c] \in Holding ~> st[c] = "done"

\* Shutdown is complete: every Close returns, and so does every Serve of a
\* server that is closed or whose context has ended.
ShutdownCompletes == CloseReturns /\ ServeReturns

=============================================================================
