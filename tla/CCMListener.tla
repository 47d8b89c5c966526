------------------------------ MODULE CCMListener ------------------------------
(***************************************************************************)
(* The listener that WrapCCMListener returns (pkg/sep2tls/ccmserver.go):   *)
(* one accept loop, one goroutine per accepted connection that runs the    *)
(* TLS handshake under a timeout, callers of Accept, and callers of Close. *)
(* A handshake runs inside gotls.Conn.HandshakeContext                  *)
(* (gotls/conn.go), whose "interrupter" goroutine closes the raw           *)
(* connection when the context ends first; both goroutines are modelled.   *)
(*                                                                         *)
(* Channels: conns and errs are unbuffered, so a send and its receive are  *)
(* one step; stopped, done and the contexts are closed once and for all.   *)
(* A Go select with several ready cases takes any of them.                 *)
(***************************************************************************)
EXTENDS Naturals, FiniteSets

CONSTANTS
    Conns,        \* connections the network may deliver to the inner listener
    GoTLS,        \* those that are *gotls.Conn; any other kind skips the handshake
    Acceptors,    \* goroutines calling Accept (net/http's Serve loop is one)
    Closers,      \* goroutines calling Close, each once
    NoConn,       \* "no connection", not a member of Conns
    MaxTempErrs   \* bound: temporary Accept errors the inner listener returns

ASSUME ListenerAssumption ==
    /\ GoTLS \subseteq Conns
    /\ NoConn \notin Conns
    /\ IsFiniteSet(Conns)
    /\ MaxTempErrs \in Nat

VARIABLES
    ctxDone,      \* the listener's context is cancelled (l.cancel was called)
    innerClosed,  \* the wrapped listener is closed
    loop,         \* where acceptLoop is
    loopErr,      \* the error it is handling
    acceptErr,    \* l.acceptErr
    stopped,      \* l.stopped is closed
    temps,        \* temporary errors returned so far (bounded by MaxTempErrs)
    wg,           \* the WaitGroup counter
    hs,           \* where each connection's handshake goroutine is
    raw,          \* the raw connection under each gotls.Conn
    timedOut,     \* the connection's handshake context has passed its deadline
    intr,         \* where the interrupter goroutine of HandshakeContext is
    cause,        \* history: what made the handshake fail, if it did
    logged,       \* connections whose handshake failure was logged
    acc,          \* where each Accept caller is
    held,         \* the connection an Accept call has received, not yet returned
    ret,          \* what the last Accept call returned, "none" while one runs
    handed,       \* connections returned by Accept
    closer        \* where each Close caller is

loopVars == <<loop, loopErr, acceptErr, stopped, temps>>
connVars == <<hs, raw, timedOut, intr, cause, logged>>
accVars  == <<acc, held, ret, handed>>
vars == <<ctxDone, innerClosed, wg, closer, loopVars, connVars, accVars>>

LoopStates == {"accept", "check", "sendErr", "record", "stop", "finish", "exited"}
HsStates   == {"none", "shaking", "joinOk", "joinErr", "offer", "refused",
               "drop", "exiting", "exited"}
Errors     == {"none", "temporary", "permanent", "closed"}

\* Every variable has its type.
TypeOK ==
    /\ ctxDone \in BOOLEAN /\ innerClosed \in BOOLEAN /\ stopped \in BOOLEAN
    /\ loop \in LoopStates
    /\ loopErr \in Errors /\ acceptErr \in Errors
    /\ temps \in 0 .. MaxTempErrs
    /\ wg \in Nat
    /\ hs \in [Conns -> HsStates]
    /\ raw \in [Conns -> {"none", "open", "closed"}]
    /\ timedOut \in [Conns -> BOOLEAN]
    /\ intr \in [Conns -> {"idle", "watch", "fired", "quiet"}]
    /\ cause \in [Conns -> {"none", "peer", "timeout", "shutdown"}]
    /\ logged \subseteq Conns
    /\ acc \in [Acceptors -> {"idle", "select", "holding"}]
    /\ held \in [Acceptors -> Conns \cup {NoConn}]
    /\ ret \in [Acceptors -> {"none", "conn", "temporary", "permanent", "closed"}]
    /\ handed \subseteq Conns
    /\ closer \in [Closers -> {"idle", "cancelled", "waiting", "returned"}]

\* WrapCCMListenerWithTimeout: the accept loop is already started, wg.Add(1).
Init ==
    /\ ctxDone = FALSE /\ innerClosed = FALSE
    /\ loop = "accept" /\ loopErr = "none" /\ acceptErr = "none"
    /\ stopped = FALSE /\ temps = 0 /\ wg = 1
    /\ hs = [c \in Conns |-> "none"]
    /\ raw = [c \in Conns |-> "none"]
    /\ timedOut = [c \in Conns |-> FALSE]
    /\ intr = [c \in Conns |-> "idle"]
    /\ cause = [c \in Conns |-> "none"]
    /\ logged = {}
    /\ acc = [a \in Acceptors |-> "idle"]
    /\ held = [a \in Acceptors |-> NoConn]
    /\ ret = [a \in Acceptors |-> "none"]
    /\ handed = {}
    /\ closer = [k \in Closers |-> "idle"]

--------------------------------------------------------------------------------
(* acceptLoop *)

\* The inner Accept returns a connection: a handshake goroutine starts, and
\* HandshakeContext starts its interrupter.
LoopAccept(c) ==
    /\ loop = "accept" /\ ~innerClosed /\ hs[c] = "none"
    /\ raw' = [raw EXCEPT ![c] = "open"]
    /\ wg' = wg + 1
    /\ hs' = [hs EXCEPT ![c] = IF c \in GoTLS THEN "shaking" ELSE "offer"]
    /\ intr' = [intr EXCEPT ![c] = IF c \in GoTLS THEN "watch" ELSE "idle"]
    /\ UNCHANGED <<ctxDone, innerClosed, closer, loopVars, timedOut, cause,
                   logged, accVars>>

\* The inner Accept returns an error: after Close "use of closed connection",
\* before it a temporary one (EMFILE) or a permanent one.
LoopError(e) ==
    /\ loop = "accept"
    /\ e = "closed" <=> innerClosed
    /\ IF e = "temporary" THEN temps < MaxTempErrs /\ temps' = temps + 1
                          ELSE temps' = temps
    /\ loopErr' = e
    /\ loop' = "check"
    /\ UNCHANGED <<ctxDone, innerClosed, wg, closer, acceptErr, stopped,
                   connVars, accVars>>

\* `ctx.Err() == nil && isTemporary(err)`: offer the error to a caller, or stop.
LoopCheck ==
    /\ loop = "check"
    /\ loop' = IF ~ctxDone /\ loopErr = "temporary" THEN "sendErr" ELSE "record"
    /\ UNCHANGED <<ctxDone, innerClosed, wg, closer, loopErr, acceptErr, stopped,
                   temps, connVars, accVars>>

\* The select on l.errs takes its ctx.Done case.
LoopCancelled ==
    /\ loop = "sendErr" /\ ctxDone
    /\ loop' = "record"
    /\ UNCHANGED <<ctxDone, innerClosed, wg, closer, loopErr, acceptErr, stopped,
                   temps, connVars, accVars>>

\* Mutant: the error is recorded without looking at the context again.
LoopRecordRaw ==
    /\ loop = "record"
    /\ acceptErr' = loopErr
    /\ loop' = "stop"
    /\ UNCHANGED <<ctxDone, innerClosed, wg, closer, loopErr, stopped, temps,
                   connVars, accVars>>

\* After Close the recorded error is net.ErrClosed, whatever Accept returned.
LoopRecord ==
    /\ loop = "record"
    /\ acceptErr' = IF ctxDone THEN "closed" ELSE loopErr
    /\ loop' = "stop"
    /\ UNCHANGED <<ctxDone, innerClosed, wg, closer, loopErr, stopped, temps,
                   connVars, accVars>>

\* Deferred close(l.stopped), then deferred wg.Done.
LoopStop ==
    /\ loop = "stop"
    /\ stopped' = TRUE
    /\ loop' = "finish"
    /\ UNCHANGED <<ctxDone, innerClosed, wg, closer, loopErr, acceptErr, temps,
                   connVars, accVars>>

LoopExit ==
    /\ loop = "finish"
    /\ wg' = wg - 1
    /\ loop' = "exited"
    /\ UNCHANGED <<ctxDone, innerClosed, closer, loopErr, acceptErr, stopped,
                   temps, connVars, accVars>>

--------------------------------------------------------------------------------
(* handshake(ctx, c) and the HandshakeContext call inside it *)

\* Mutant: HandshakeContext gets the listener's context, which has no deadline.
HsCtxDoneParent(c) == ctxDone

\* The connection's handshake context: cancelled by Close or past its deadline.
HsCtxDone(c) == ctxDone \/ timedOut[c]

InHandshakeContext(c) == hs[c] \in {"shaking", "joinOk", "joinErr"}

\* handshakeTimeout elapses before HandshakeContext returns (environment).
Timeout(c) ==
    /\ InHandshakeContext(c) /\ ~HsCtxDone(c)
    /\ timedOut' = [timedOut EXCEPT ![c] = TRUE]
    /\ UNCHANGED <<ctxDone, innerClosed, wg, closer, loopVars, hs, raw, intr,
                   cause, logged, accVars>>

\* The peer completes the handshake (environment).
HandshakeSucceeds(c) ==
    /\ hs[c] = "shaking" /\ raw[c] = "open"
    /\ hs' = [hs EXCEPT ![c] = "joinOk"]
    /\ UNCHANGED <<ctxDone, innerClosed, wg, closer, loopVars, raw, timedOut,
                   intr, cause, logged, accVars>>

\* The peer is refused, speaks no TLS or goes away (environment).
HandshakePeerFails(c) ==
    /\ hs[c] = "shaking" /\ raw[c] = "open"
    /\ hs' = [hs EXCEPT ![c] = "joinErr"]
    /\ cause' = [cause EXCEPT ![c] = "peer"]
    /\ UNCHANGED <<ctxDone, innerClosed, wg, closer, loopVars, raw, timedOut,
                   intr, logged, accVars>>

\* A read on the connection the interrupter closed returns an error.
HandshakeCut(c) ==
    /\ hs[c] = "shaking" /\ raw[c] = "closed"
    /\ hs' = [hs EXCEPT ![c] = "joinErr"]
    /\ UNCHANGED <<ctxDone, innerClosed, wg, closer, loopVars, raw, timedOut,
                   intr, cause, logged, accVars>>

\* The interrupter sees the context end first: it closes the raw connection.
Interrupt(c) ==
    /\ intr[c] = "watch" /\ HsCtxDone(c)
    /\ raw' = [raw EXCEPT ![c] = "closed"]
    /\ intr' = [intr EXCEPT ![c] = "fired"]
    /\ cause' = [cause EXCEPT ![c] =
                    IF @ # "none" THEN @
                    ELSE IF timedOut[c] THEN "timeout" ELSE "shutdown"]
    /\ UNCHANGED <<ctxDone, innerClosed, wg, closer, loopVars, hs, timedOut,
                   logged, accVars>>

\* The interrupter sees `done` closed by the returning handshake.
InterruptQuiet(c) ==
    /\ intr[c] = "watch" /\ hs[c] \in {"joinOk", "joinErr"}
    /\ intr' = [intr EXCEPT ![c] = "quiet"]
    /\ UNCHANGED <<ctxDone, innerClosed, wg, closer, loopVars, hs, raw, timedOut,
                   cause, logged, accVars>>

\* Mutant: HandshakeContext returns the handshake's own result and drops the
\* interrupter's.
HandshakeReturnUnjoined(c) ==
    /\ hs[c] \in {"joinOk", "joinErr"}
    /\ intr[c] \in {"fired", "quiet"}
    /\ hs' = [hs EXCEPT ![c] = IF @ = "joinOk" THEN "offer" ELSE "refused"]
    /\ UNCHANGED <<ctxDone, innerClosed, wg, closer, loopVars, raw, timedOut,
                   intr, cause, logged, accVars>>

\* HandshakeContext joins the interrupter; a fired one turns success into the
\* context's error.
HandshakeReturn(c) ==
    /\ hs[c] \in {"joinOk", "joinErr"}
    /\ intr[c] \in {"fired", "quiet"}
    /\ hs' = [hs EXCEPT ![c] = IF @ = "joinOk" /\ intr[c] = "quiet"
                               THEN "offer" ELSE "refused"]
    /\ UNCHANGED <<ctxDone, innerClosed, wg, closer, loopVars, raw, timedOut,
                   intr, cause, logged, accVars>>

\* Mutant: the failure is not logged when the handshake context has ended,
\* the connection's own deadline included.
HandshakeLogUnlessCtx(c) ==
    /\ hs[c] = "refused"
    /\ logged' = IF HsCtxDone(c) THEN logged ELSE logged \cup {c}
    /\ hs' = [hs EXCEPT ![c] = "drop"]
    /\ UNCHANGED <<ctxDone, innerClosed, wg, closer, loopVars, raw, timedOut,
                   intr, cause, accVars>>

\* The failure is logged unless the listener is closing.
HandshakeLog(c) ==
    /\ hs[c] = "refused"
    /\ logged' = IF ctxDone THEN logged ELSE logged \cup {c}
    /\ hs' = [hs EXCEPT ![c] = "drop"]
    /\ UNCHANGED <<ctxDone, innerClosed, wg, closer, loopVars, raw, timedOut,
                   intr, cause, accVars>>

\* The select on l.conns takes its ctx.Done case.
OfferCancelled(c) ==
    /\ hs[c] = "offer" /\ ctxDone
    /\ hs' = [hs EXCEPT ![c] = "drop"]
    /\ UNCHANGED <<ctxDone, innerClosed, wg, closer, loopVars, raw, timedOut,
                   intr, cause, logged, accVars>>

\* Mutant: the goroutine gives up its connection without closing it.
HandshakeDropOpen(c) ==
    /\ hs[c] = "drop"
    /\ hs' = [hs EXCEPT ![c] = "exiting"]
    /\ UNCHANGED <<ctxDone, innerClosed, wg, closer, loopVars, raw, timedOut,
                   intr, cause, logged, accVars>>

\* c.Close(): close_notify if the handshake completed, then the raw close.
HandshakeDrop(c) ==
    /\ hs[c] = "drop"
    /\ raw' = [raw EXCEPT ![c] = "closed"]
    /\ hs' = [hs EXCEPT ![c] = "exiting"]
    /\ UNCHANGED <<ctxDone, innerClosed, wg, closer, loopVars, timedOut, intr,
                   cause, logged, accVars>>

\* Deferred wg.Done.
HandshakeExit(c) ==
    /\ hs[c] = "exiting"
    /\ wg' = wg - 1
    /\ hs' = [hs EXCEPT ![c] = "exited"]
    /\ UNCHANGED <<ctxDone, innerClosed, closer, loopVars, raw, timedOut, intr,
                   cause, logged, accVars>>

--------------------------------------------------------------------------------
(* Accept *)

AcceptCall(a) ==
    /\ acc[a] = "idle"
    /\ acc' = [acc EXCEPT ![a] = "select"]
    /\ ret' = [ret EXCEPT ![a] = "none"]
    /\ UNCHANGED <<ctxDone, innerClosed, wg, closer, loopVars, connVars, held,
                   handed>>

\* `c := <-l.conns`: rendezvous with the goroutine offering c, which then returns.
AcceptConn(a, c) ==
    /\ acc[a] = "select" /\ hs[c] = "offer"
    /\ acc' = [acc EXCEPT ![a] = "holding"]
    /\ held' = [held EXCEPT ![a] = c]
    /\ hs' = [hs EXCEPT ![c] = "exiting"]
    /\ UNCHANGED <<ctxDone, innerClosed, wg, closer, loopVars, raw, timedOut,
                   intr, cause, logged, ret, handed>>

\* Mutant: Accept returns what it received without looking at l.done again.
AcceptReturnUnchecked(a) ==
    /\ acc[a] = "holding"
    /\ handed' = handed \cup {held[a]}
    /\ ret' = [ret EXCEPT ![a] = "conn"]
    /\ raw' = raw
    /\ acc' = [acc EXCEPT ![a] = "idle"]
    /\ held' = [held EXCEPT ![a] = NoConn]
    /\ UNCHANGED <<ctxDone, innerClosed, wg, closer, loopVars, hs, timedOut,
                   intr, cause, logged>>

\* The nested select on l.done: a closed listener closes the connection instead
\* of returning it.
AcceptReturn(a) ==
    /\ acc[a] = "holding"
    /\ \/ /\ ctxDone
          /\ raw' = [raw EXCEPT ![held[a]] = "closed"]
          /\ ret' = [ret EXCEPT ![a] = "closed"]
          /\ handed' = handed
       \/ /\ ~ctxDone
          /\ handed' = handed \cup {held[a]}
          /\ ret' = [ret EXCEPT ![a] = "conn"]
          /\ raw' = raw
    /\ acc' = [acc EXCEPT ![a] = "idle"]
    /\ held' = [held EXCEPT ![a] = NoConn]
    /\ UNCHANGED <<ctxDone, innerClosed, wg, closer, loopVars, hs, timedOut,
                   intr, cause, logged>>

\* `err := <-l.errs`: rendezvous with the accept loop, which then accepts again.
AcceptTempErr(a) ==
    /\ acc[a] = "select" /\ loop = "sendErr"
    /\ ret' = [ret EXCEPT ![a] = loopErr]
    /\ acc' = [acc EXCEPT ![a] = "idle"]
    /\ loop' = "accept"
    /\ UNCHANGED <<ctxDone, innerClosed, wg, closer, loopErr, acceptErr, stopped,
                   temps, connVars, held, handed>>

\* `<-l.stopped`
AcceptStopped(a) ==
    /\ acc[a] = "select" /\ stopped
    /\ ret' = [ret EXCEPT ![a] = acceptErr]
    /\ acc' = [acc EXCEPT ![a] = "idle"]
    /\ UNCHANGED <<ctxDone, innerClosed, wg, closer, loopVars, connVars, held,
                   handed>>

--------------------------------------------------------------------------------
(* Close *)

CloseCancel(k) ==
    /\ closer[k] = "idle"
    /\ ctxDone' = TRUE
    /\ closer' = [closer EXCEPT ![k] = "cancelled"]
    /\ UNCHANGED <<innerClosed, wg, loopVars, connVars, accVars>>

\* Mutant: Close cancels and waits, and leaves the inner listener open.
CloseInnerSkipped(k) ==
    /\ closer[k] = "cancelled"
    /\ closer' = [closer EXCEPT ![k] = "waiting"]
    /\ UNCHANGED <<ctxDone, innerClosed, wg, loopVars, connVars, accVars>>

CloseInner(k) ==
    /\ closer[k] = "cancelled"
    /\ innerClosed' = TRUE
    /\ closer' = [closer EXCEPT ![k] = "waiting"]
    /\ UNCHANGED <<ctxDone, wg, loopVars, connVars, accVars>>

\* Mutant: Close returns without waiting for the goroutines.
CloseReturnEarly(k) ==
    /\ closer[k] = "waiting"
    /\ closer' = [closer EXCEPT ![k] = "returned"]
    /\ UNCHANGED <<ctxDone, innerClosed, wg, loopVars, connVars, accVars>>

\* l.wg.Wait() returns.
CloseReturn(k) ==
    /\ closer[k] = "waiting" /\ wg = 0
    /\ closer' = [closer EXCEPT ![k] = "returned"]
    /\ UNCHANGED <<ctxDone, innerClosed, wg, loopVars, connVars, accVars>>

--------------------------------------------------------------------------------
LoopStep == LoopCheck \/ LoopCancelled \/ LoopRecord \/ LoopStop \/ LoopExit

HandshakeStep(c) ==
    \/ HandshakeCut(c) \/ HandshakeReturn(c) \/ HandshakeLog(c)
    \/ OfferCancelled(c) \/ HandshakeDrop(c) \/ HandshakeExit(c)

InterrupterStep(c) == Interrupt(c) \/ InterruptQuiet(c)

Environment ==
    \/ \E c \in Conns : LoopAccept(c) \/ Timeout(c)
                        \/ HandshakeSucceeds(c) \/ HandshakePeerFails(c)
    \/ \E e \in {"temporary", "permanent", "closed"} : LoopError(e)

AcceptStep(a) ==
    \/ AcceptTempErr(a) \/ AcceptStopped(a)
    \/ \E c \in Conns : AcceptConn(a, c)

Next ==
    \/ Environment
    \/ LoopStep
    \/ \E c \in Conns : HandshakeStep(c) \/ InterrupterStep(c)
    \/ \E a \in Acceptors : AcceptCall(a) \/ AcceptStep(a) \/ AcceptReturn(a)
    \/ \E k \in Closers : CloseCancel(k) \/ CloseInner(k) \/ CloseReturn(k)

Spec == Init /\ [][Next]_vars

(***************************************************************************)
(* Goroutines that can run do run; a timer fires; a closed listener makes  *)
(* Accept fail.  Nothing is assumed of the peers, nor that anyone calls    *)
(* Accept or Close, but a caller inside either one keeps running.          *)
(***************************************************************************)
Fairness ==
    /\ WF_vars(LoopStep) /\ WF_vars(LoopError("closed"))
    /\ \A c \in Conns : /\ WF_vars(HandshakeStep(c))
                        /\ WF_vars(InterrupterStep(c))
                        /\ WF_vars(Timeout(c))
    /\ \A a \in Acceptors : WF_vars(AcceptStep(a)) /\ WF_vars(AcceptReturn(a))
    /\ \A k \in Closers : WF_vars(CloseInner(k)) /\ WF_vars(CloseReturn(k))

FairSpec == Spec /\ Fairness

--------------------------------------------------------------------------------
(* Properties *)

\* Goroutines the WaitGroup counts.
LiveHandshakes == {c \in Conns : hs[c] \notin {"none", "exited"}}

\* A connection Accept has returned is usable: its handshake completed and
\* nothing in the listener, the interrupter of its own HandshakeContext
\* included, has closed it or still can (ccmserver.go handshake, conn.go
\* handshakeContext).
HandedIsUsable ==
    \A c \in handed :
        /\ raw[c] = "open"
        /\ hs[c] \in {"exiting", "exited"}
        /\ intr[c] \in {"idle", "quiet"}
        /\ \A a \in Acceptors : held[a] # c

\* When Close has returned, none of the listener's goroutines is running, and
\* the only open connections are the ones Accept returned or a concurrent
\* Accept call is about to close (ccmserver.go Close: "returns once every
\* goroutine the listener started has exited").
CloseLeavesNothing ==
    (\E k \in Closers : closer[k] = "returned") =>
        /\ loop = "exited" /\ LiveHandshakes = {}
        /\ \A c \in Conns : intr[c] # "watch"
        /\ \A c \in Conns : raw[c] = "open" =>
              c \in handed \/ \E a \in Acceptors : held[a] = c

\* No accepted connection is lost: an open connection is owned by its handshake
\* goroutine, an Accept call, or the caller Accept returned it to (HandedIsUsable says
\* it is returned once); so the listener leaks no descriptor on any path.
EveryOpenConnOwned ==
    \A c \in Conns : raw[c] = "open" =>
        \/ hs[c] \in HsStates \ {"none", "exiting", "exited"}
        \/ c \in handed
        \/ \E a \in Acceptors : acc[a] = "holding" /\ held[a] = c

\* The error Accept keeps returning once the loop has stopped is never a
\* temporary one (net/http's Serve would retry it forever), and it is
\* net.ErrClosed whenever the loop was stopped by Close; and no caller is told
\* net.ErrClosed (which ends Serve) unless Close was called.
TerminalErrorIsFinal ==
    /\ \A a \in Acceptors : ret[a] = "closed" => ctxDone
    /\ stopped => acceptErr \in {"permanent", "closed"}
    /\ stopped /\ loopErr # "permanent" => acceptErr = "closed"

\* A handshake is logged as the peer's failure only if the peer or its timeout
\* caused it, never when Close cut it short; and while the listener is open
\* every dropped connection has been logged.
LogTellsPeerFailures ==
    /\ \A c \in logged : cause[c] \in {"peer", "timeout"}
    /\ ~ctxDone => \A c \in Conns :
          hs[c] \in {"drop", "exiting", "exited"} /\ cause[c] # "none" => c \in logged

\* Accept never hands out a connection once the listener is closed, although
\* both cases of its select can be ready by then.
NoHandOutAfterClose == [][ctxDone => handed' = handed]_vars

\* Every handshake ends, by its timeout at the latest: a peer that opens TCP
\* and never speaks TLS does not keep its goroutine.
HandshakeTerminates ==
    \A c \in Conns : hs[c] = "shaking" ~> hs[c] \in {"offer", "exiting", "exited"}

\* A started Close comes to its end, whatever the peers do: Close returns, no Accept
\* call stays blocked, and every connection that was not handed out is closed, the
\* ones an Accept call held when Close returned included.
ShutdownCompletes ==
    /\ \A k \in Closers : closer[k] = "cancelled" ~> closer[k] = "returned"
    /\ \A a \in Acceptors : (ctxDone /\ acc[a] # "idle") ~> acc[a] = "idle"
    /\ \A c \in Conns : (ctxDone /\ raw[c] = "open" /\ c \notin handed) ~> raw[c] = "closed"

--------------------------------------------------------------------------------
(* Refinement: the wrapped listener is a net.Listener. *)

connStatus ==
    [c \in Conns |->
        IF hs[c] = "none" THEN "new"
        ELSE IF c \in handed THEN "delivered"
        ELSE IF raw[c] = "open" THEN "pending" ELSE "dropped"]

NL == INSTANCE NetListener WITH closed <- ctxDone, status <- connStatus

\* The goroutines, channels and contexts of ccmLoggingListener together behave
\* as NetListener: one delivery or one drop per connection, none delivered
\* after Close, none closed after delivery.
ImplementsNetListener == NL!Spec
================================================================================
