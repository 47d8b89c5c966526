-------------------------------- MODULE Receiver --------------------------------
(***************************************************************************)
(* The notification receiver (pkg/sep2client/notify/receiver.go): Start,   *)
(* Addr and Stop called from any goroutine, one http.Server per Start, and *)
(* the POST /notify handler that feeds the Dispatcher.                     *)
(*                                                                         *)
(* Each successful Start is a generation: its own http.Server, wrapped     *)
(* listener (the NetListener of CCMListener), Serve goroutine and doneCh.  *)
(* The http.Server (net/http) is external; its Serve, Shutdown and Close   *)
(* are modelled at the grain of its mutex, its listener group and its      *)
(* connection table, because Stop's promises rest on them.                 *)
(*                                                                         *)
(* A connection is a gotls.Conn: its Close sends close_notify and waits    *)
(* for c.out, which a Read that answers a bad record with an alert holds   *)
(* until the peer takes the alert.  The server sets no WriteTimeout.       *)
(***************************************************************************)
EXTENDS Naturals, FiniteSets

CONSTANTS
    Callers,      \* goroutines that call Start, Stop and Addr
    Conns,        \* connections peers open to the receiver
    Requests,     \* requests peers send, see RequestType
    MaxBody,      \* maxBodyBytes
    MaxStarts,    \* bound: successful Starts
    MaxRequests,  \* bound: requests per connection
    Nobody        \* not a member of Callers nor of Conns

Gens == 1 .. MaxStarts

\* A request: whether the method and the media type are the required ones,
\* whether req.TLS holds a verified peer certificate, the body's length, what its
\* root element decodes to, and where that element ends.
RequestType ==
    [post : BOOLEAN, sepXML : BOOLEAN, cert : BOOLEAN, len : Nat, end : Nat,
     root : {"notification", "zero", "other"}]

ASSUME ReceiverAssumption ==
    /\ Requests \subseteq RequestType
    /\ MaxBody \in Nat /\ MaxStarts \in Nat /\ MaxRequests \in Nat
    /\ Nobody \notin Callers \cup Conns

VARIABLES
    cur,          \* generation in r.srv, r.tlsL and r.doneCh; 0 is nil
    starts,       \* Starts that succeeded
    pc, sg, expired,
                  \* each caller: where it is, the generation it stops, whether
                  \* its shutdown context expired
    ret,          \* what the last call to return returned
    serve, serveErr, pend,
                  \* each Serve goroutine: where it is, the error it ends with,
                  \* the connection it accepted and has not registered
    inShutdown, tracked, srvMu, lis, doneCh,
                  \* each server: its shutdown flag, its listener registered
                  \* (and counted by listenerGroup), the caller holding its
                  \* mutex, the listener, the goroutine's result channel
    gen, cph, cstate, rwc, active,
                  \* each connection: its generation, its goroutine, the state
                  \* net/http publishes, the raw connection, in activeConn
    req, nreq, got, disp, status, acks,
                  \* each connection: current request, requests so far, body
                  \* bytes read, dispatcher calls made and status chosen for
                  \* the request, responses that reached the peer
    alert,        \* each connection: a Read is writing, or has written, a fatal
                  \* alert; c.out is locked, or broken
    sweep, target,
                  \* each caller, in closeIdleConns or srv.Close: the connections
                  \* it has not looked at yet, the one it is closing
    stopDone      \* history: generations whose Stop has returned

recvVars == <<cur, starts>>
callVars == <<pc, sg, expired, ret>>
servVars == <<serve, serveErr, pend>>
hsrvVars == <<inShutdown, tracked, srvMu, lis, doneCh>>
connVars == <<gen, cph, cstate, rwc, active>>
reqVars  == <<req, nreq, got, disp, status, acks>>
closeVars == <<alert, sweep, target>>
vars == <<recvVars, callVars, servVars, hsrvVars, connVars, reqVars, stopDone, closeVars>>

NoReq == [post |-> FALSE, sepXML |-> FALSE, cert |-> FALSE, len |-> 0, end |-> 0, root |-> "other"]

CallType ==
    /\ cur \in 0 .. MaxStarts /\ starts \in 0 .. MaxStarts /\ stopDone \subseteq Gens
    /\ pc \in [Callers -> {"idle", "flag", "lock", "closing", "group", "poll",
                           "sweep", "wait", "force", "forcing", "recv"}]
    /\ sg \in [Callers -> 0 .. MaxStarts]
    /\ ret \in {"none", "nil", "err", "ErrAlreadyStarted", "ErrNotStarted"}

ServeType ==
    /\ serve \in [Gens -> {"none", "starting", "accept", "register", "untrack",
                           "close", "closing", "send", "exited"}]
    /\ serveErr \in [Gens -> {"none", "ErrServerClosed", "err"}]
    /\ pend \in [Gens -> Conns \cup {Nobody}]
    /\ srvMu \in [Gens -> Callers \cup {Nobody}]
    /\ lis \in [Gens -> {"none", "open", "closing", "closed"}]
    /\ doneCh \in [Gens -> {"empty", "nil", "err"}]

FlagType ==
    /\ expired \in [Callers -> BOOLEAN]
    /\ inShutdown \in [Gens -> BOOLEAN] /\ tracked \in [Gens -> BOOLEAN]

ConnType ==
    /\ gen \in [Conns -> 0 .. MaxStarts]
    /\ cph \in [Conns -> {"none", "read", "got", "handler", "body", "check",
                          "dispatch", "respond", "done", "untrack", "gone"}]
    /\ cstate \in [Conns -> {"new", "active", "idle"}]
    /\ rwc \in [Conns -> {"none", "open", "closed"}]
    /\ active \subseteq Conns

CloseType ==
    /\ alert \in [Conns -> {"none", "writing", "sent"}]
    /\ sweep \in [Callers -> SUBSET Conns]
    /\ target \in [Callers -> Conns \cup {Nobody}]

HandlerType ==
    /\ req \in [Conns -> Requests \cup {NoReq}]
    /\ nreq \in [Conns -> 0 .. MaxRequests]
    /\ got \in [Conns -> 0 .. MaxBody + 1]
    /\ disp \in [Conns -> 0 .. 1]
    /\ status \in [Conns -> {0, 204, 400, 405, 415, 500}]
    /\ acks \in [Conns -> 0 .. MaxRequests]

\* Every variable has its type.
TypeOK == CallType /\ ServeType /\ FlagType /\ ConnType /\ CloseType /\ HandlerType

\* NewReceiver: configured, nothing bound.
Init ==
    /\ cur = 0 /\ starts = 0
    /\ pc = [k \in Callers |-> "idle"] /\ sg = [k \in Callers |-> 0]
    /\ expired = [k \in Callers |-> FALSE] /\ ret = "none"
    /\ serve = [g \in Gens |-> "none"] /\ serveErr = [g \in Gens |-> "none"]
    /\ pend = [g \in Gens |-> Nobody]
    /\ inShutdown = [g \in Gens |-> FALSE] /\ tracked = [g \in Gens |-> FALSE]
    /\ srvMu = [g \in Gens |-> Nobody] /\ lis = [g \in Gens |-> "none"]
    /\ doneCh = [g \in Gens |-> "empty"]
    /\ gen = [c \in Conns |-> 0] /\ cph = [c \in Conns |-> "none"]
    /\ cstate = [c \in Conns |-> "new"] /\ rwc = [c \in Conns |-> "none"]
    /\ active = {}
    /\ req = [c \in Conns |-> NoReq] /\ nreq = [c \in Conns |-> 0]
    /\ got = [c \in Conns |-> 0] /\ disp = [c \in Conns |-> 0]
    /\ status = [c \in Conns |-> 0] /\ acks = [c \in Conns |-> 0]
    /\ alert = [c \in Conns |-> "none"]
    /\ sweep = [k \in Callers |-> {}] /\ target = [k \in Callers |-> Nobody]
    /\ stopDone = {}

Go(k, from, to) == pc[k] = from /\ pc' = [pc EXCEPT ![k] = to]
ServeGo(g, from, to) == serve[g] = from /\ serve' = [serve EXCEPT ![g] = to]
ConnGo(c, from, to) == cph[c] = from /\ cph' = [cph EXCEPT ![c] = to]

--------------------------------------------------------------------------------
(* Start, Addr and Stop *)

StartAlready(k) ==
    /\ pc[k] = "idle" /\ cur # 0
    /\ ret' = "ErrAlreadyStarted"
    /\ UNCHANGED <<recvVars, pc, sg, expired, servVars, hsrvVars, connVars, reqVars,
                   stopDone, closeVars>>

\* net.Listen fails, say because an earlier generation still holds the port:
\* nothing was built, the receiver stays stopped.
StartFails(k) ==
    /\ pc[k] = "idle" /\ cur = 0
    /\ ret' = "err"
    /\ UNCHANGED <<recvVars, pc, sg, expired, servVars, hsrvVars, connVars, reqVars,
                   stopDone, closeVars>>

\* Mutant: a second Start overwrites the running server's fields.
StartUnchecked(k) ==
    /\ pc[k] = "idle" /\ starts < MaxStarts
    /\ starts' = starts + 1 /\ cur' = starts + 1
    /\ lis' = [lis EXCEPT ![starts + 1] = "open"]
    /\ serve' = [serve EXCEPT ![starts + 1] = "starting"]
    /\ ret' = "nil"
    /\ UNCHANGED <<pc, sg, expired, serveErr, pend, inShutdown, tracked, srvMu,
                   doneCh, connVars, reqVars, stopDone, closeVars>>

\* Under r.mu: bind (with ":0", always to a port of its own), wrap the listener, build the server, start its goroutine.
Start(k) ==
    /\ pc[k] = "idle" /\ cur = 0 /\ starts < MaxStarts
    /\ starts' = starts + 1 /\ cur' = starts + 1
    /\ lis' = [lis EXCEPT ![starts + 1] = "open"]
    /\ serve' = [serve EXCEPT ![starts + 1] = "starting"]
    /\ ret' = "nil"
    /\ UNCHANGED <<pc, sg, expired, serveErr, pend, inShutdown, tracked, srvMu,
                   doneCh, connVars, reqVars, stopDone, closeVars>>

Addr(k) ==
    /\ pc[k] = "idle"
    /\ ret' = IF cur = 0 THEN "ErrNotStarted" ELSE "nil"
    /\ UNCHANGED <<recvVars, pc, sg, expired, servVars, hsrvVars, connVars, reqVars,
                   stopDone, closeVars>>

StopNotStarted(k) ==
    /\ pc[k] = "idle" /\ cur = 0
    /\ ret' = "ErrNotStarted"
    /\ UNCHANGED <<recvVars, pc, sg, expired, servVars, hsrvVars, connVars, reqVars,
                   stopDone, closeVars>>

\* Mutant: Stop reads the fields and leaves them set.
StopTakeKept(k) ==
    /\ cur # 0 /\ Go(k, "idle", "flag")
    /\ sg' = [sg EXCEPT ![k] = cur]
    /\ UNCHANGED <<recvVars, expired, ret, servVars, hsrvVars, connVars, reqVars, stopDone, closeVars>>

\* Under r.mu: take the generation and clear the fields.
StopTake(k) ==
    /\ cur # 0 /\ Go(k, "idle", "flag")
    /\ sg' = [sg EXCEPT ![k] = cur]
    /\ cur' = 0
    /\ UNCHANGED <<starts, expired, ret, servVars, hsrvVars, connVars, reqVars, stopDone, closeVars>>

\* The caller's context or the 5 s cap ends (environment).  Shutdown looks at it
\* only between two polls, so an earlier end shows there.
StopExpires(k) ==
    /\ pc[k] \in {"poll", "sweep", "wait"} /\ ~expired[k]
    /\ expired' = [expired EXCEPT ![k] = TRUE]
    /\ UNCHANGED <<recvVars, pc, sg, ret, servVars, hsrvVars, connVars, reqVars,
                   stopDone, closeVars>>

\* Mutant: Stop returns once Shutdown has, without joining the goroutine.
StopReturnUnjoined(k) ==
    /\ Go(k, "recv", "idle")
    /\ ret' = "nil"
    /\ stopDone' = stopDone \cup {sg[k]}
    /\ sg' = [sg EXCEPT ![k] = 0] /\ expired' = [expired EXCEPT ![k] = FALSE]
    /\ UNCHANGED <<recvVars, servVars, hsrvVars, connVars, reqVars, closeVars>>

\* `return <-doneCh`
StopReturn(k) ==
    /\ Go(k, "recv", "idle") /\ doneCh[sg[k]] # "empty"
    /\ ret' = doneCh[sg[k]]
    /\ doneCh' = [doneCh EXCEPT ![sg[k]] = "empty"]
    /\ stopDone' = stopDone \cup {sg[k]}
    /\ sg' = [sg EXCEPT ![k] = 0] /\ expired' = [expired EXCEPT ![k] = FALSE]
    /\ UNCHANGED <<recvVars, servVars, inShutdown, tracked, srvMu, lis,
                   connVars, reqVars, closeVars>>

--------------------------------------------------------------------------------
(* srv.Shutdown and srv.Close (net/http) *)

ShutdownFlag(k) ==
    /\ Go(k, "flag", "lock")
    /\ inShutdown' = [inShutdown EXCEPT ![sg[k]] = TRUE]
    /\ UNCHANGED <<recvVars, sg, expired, ret, servVars, tracked, srvMu, lis, doneCh,
                   connVars, reqVars, stopDone, closeVars>>

\* Takes the mutex and closes the registered listener, if Serve registered one.
ShutdownLock(k) ==
    LET g == sg[k] IN
    /\ Go(k, "lock", "closing") /\ srvMu[g] = Nobody
    /\ srvMu' = [srvMu EXCEPT ![g] = k]
    /\ lis' = [lis EXCEPT ![g] = IF tracked[g] /\ @ = "open" THEN "closing" ELSE @]
    /\ UNCHANGED <<recvVars, sg, expired, ret, servVars, inShutdown, tracked, doneCh,
                   connVars, reqVars, stopDone, closeVars>>

\* The listener's Close has returned; the mutex is released.
ShutdownUnlock(k) ==
    LET g == sg[k] IN
    /\ Go(k, "closing", "group")
    /\ tracked[g] => lis[g] = "closed"
    /\ srvMu' = [srvMu EXCEPT ![g] = Nobody]
    /\ UNCHANGED <<recvVars, sg, expired, ret, servVars, inShutdown, tracked, lis,
                   doneCh, connVars, reqVars, stopDone, closeVars>>

\* listenerGroup.Wait
ShutdownGroup(k) ==
    /\ Go(k, "group", "poll") /\ ~tracked[sg[k]]
    /\ UNCHANGED <<recvVars, sg, expired, ret, servVars, hsrvVars, connVars, reqVars,
                   stopDone, closeVars>>

ActiveOf(g) == {c \in active : gen[c] = g}

\* closeIdleConns and srv.Close go through activeConn with the mutex held.
SweepStart(k) ==
    LET g == sg[k] IN
    /\ srvMu[g] = Nobody /\ srvMu' = [srvMu EXCEPT ![g] = k]
    /\ sweep' = [sweep EXCEPT ![k] = ActiveOf(g)]
    /\ UNCHANGED <<recvVars, sg, expired, ret, servVars, inShutdown, tracked, lis, doneCh,
                   connVars, reqVars, stopDone, alert, target>>

ShutdownPoll(k) == Go(k, "poll", "sweep") /\ SweepStart(k)

\* closeIdleConns leaves a busy connection, and a new one for its first 5 s.
SweepSkips(k, c) ==
    /\ pc[k] = "sweep" /\ target[k] = Nobody
    /\ c \in sweep[k] /\ cstate[c] # "idle"
    /\ sweep' = [sweep EXCEPT ![k] = @ \ {c}]
    /\ UNCHANGED <<recvVars, callVars, servVars, hsrvVars, connVars, reqVars, stopDone,
                   alert, target>>

\* It picks idle connections and new ones that have waited 5 s, srv.Close any.
SweepPicks(k, c) ==
    /\ (pc[k] = "sweep" /\ cstate[c] # "active") \/ pc[k] = "forcing"
    /\ target[k] = Nobody /\ c \in sweep[k]
    /\ sweep' = [sweep EXCEPT ![k] = @ \ {c}]
    /\ target' = [target EXCEPT ![k] = c]
    /\ UNCHANGED <<recvVars, callVars, servVars, hsrvVars, connVars, reqVars, stopDone,
                   alert>>

\* gotls Conn.Close gets c.out unless an alert is being written; with a Write in
\* flight it does not ask for it.
CanClose(c) == alert[c] # "writing" \/ cph[c] = "respond"

\* c.rwc.Close and delete(activeConn, c); by now the connection may be busy.
SweepCloses(k) ==
    LET c == target[k] IN
    /\ pc[k] \in {"sweep", "forcing"} /\ c # Nobody /\ CanClose(c)
    /\ rwc' = [rwc EXCEPT ![c] = "closed"]
    /\ active' = active \ {c}
    /\ target' = [target EXCEPT ![k] = Nobody]
    /\ UNCHANGED <<recvVars, callVars, servVars, hsrvVars, gen, cph, cstate, reqVars,
                   stopDone, alert, sweep>>

\* Shutdown is done when no connection was left.
SweepEnd(k) ==
    LET g == sg[k] IN
    /\ pc[k] \in {"sweep", "forcing"} /\ sweep[k] = {} /\ target[k] = Nobody
    /\ pc' = [pc EXCEPT ![k] = IF ActiveOf(g) = {} THEN "recv" ELSE "wait"]
    /\ srvMu' = [srvMu EXCEPT ![g] = Nobody]
    /\ UNCHANGED <<recvVars, sg, expired, ret, servVars, inShutdown, tracked, lis, doneCh,
                   connVars, reqVars, stopDone, closeVars>>

\* The poll timer fires, or the context ends and Shutdown returns its error.
ShutdownRetry(k) ==
    /\ Go(k, "wait", "poll") /\ ~expired[k]
    /\ UNCHANGED <<recvVars, sg, expired, ret, servVars, hsrvVars, connVars, reqVars,
                   stopDone, closeVars>>

ShutdownGivesUp(k) ==
    /\ Go(k, "wait", "force") /\ expired[k]
    /\ UNCHANGED <<recvVars, sg, expired, ret, servVars, hsrvVars, connVars, reqVars,
                   stopDone, closeVars>>

\* Mutant: a failed Shutdown is not followed by srv.Close.
StopForceSkipped(k) ==
    /\ Go(k, "force", "recv") /\ srvMu[sg[k]] = Nobody
    /\ UNCHANGED <<recvVars, sg, expired, ret, servVars, hsrvVars, connVars, reqVars,
                   stopDone, closeVars>>

\* srv.Close after a failed Shutdown closes every connection still known;
\* handlers keep running on closed connections.
StopForce(k) == Go(k, "force", "forcing") /\ SweepStart(k)

--------------------------------------------------------------------------------
(* srv.Serve (net/http) and the goroutine Start spawns around it *)

\* trackListener(true): refused once Shutdown has begun.
ServeTrack(g) ==
    /\ srvMu[g] = Nobody
    /\ \/ /\ inShutdown[g] /\ ServeGo(g, "starting", "close")
          /\ serveErr' = [serveErr EXCEPT ![g] = "ErrServerClosed"]
          /\ tracked' = tracked
       \/ /\ ~inShutdown[g] /\ ServeGo(g, "starting", "accept")
          /\ tracked' = [tracked EXCEPT ![g] = TRUE]
          /\ serveErr' = serveErr
    /\ UNCHANGED <<recvVars, callVars, pend, inShutdown, srvMu, lis, doneCh, connVars,
                   reqVars, stopDone, closeVars>>

\* The wrapped listener delivers a handshaken connection.
ServeAccept(g, c) ==
    /\ lis[g] = "open" /\ rwc[c] = "none"
    /\ ServeGo(g, "accept", "register")
    /\ pend' = [pend EXCEPT ![g] = c]
    /\ rwc' = [rwc EXCEPT ![c] = "open"]
    /\ gen' = [gen EXCEPT ![c] = g]
    /\ UNCHANGED <<recvVars, callVars, serveErr, hsrvVars, cph, cstate, active,
                   reqVars, stopDone, closeVars>>

\* setState(StateNew) enters the connection in activeConn; its goroutine starts.
ServeRegister(g) ==
    /\ srvMu[g] = Nobody /\ ServeGo(g, "register", "accept")
    /\ active' = active \cup {pend[g]}
    /\ cph' = [cph EXCEPT ![pend[g]] = "read"]
    /\ pend' = [pend EXCEPT ![g] = Nobody]
    /\ UNCHANGED <<recvVars, callVars, serveErr, hsrvVars, gen, cstate, rwc, reqVars,
                   stopDone, closeVars>>

\* Accept fails: the listener is closed, or broke for good.  A temporary error
\* is retried and changes nothing.
ServeAcceptError(g) ==
    /\ ServeGo(g, "accept", "untrack")
    /\ serveErr' = [serveErr EXCEPT ![g] =
                        IF inShutdown[g] THEN "ErrServerClosed" ELSE "err"]
    /\ UNCHANGED <<recvVars, callVars, pend, hsrvVars, connVars, reqVars, stopDone, closeVars>>

\* Deferred trackListener(false), then deferred l.Close, once.
ServeUntrack(g) ==
    /\ srvMu[g] = Nobody /\ ServeGo(g, "untrack", "close")
    /\ tracked' = [tracked EXCEPT ![g] = FALSE]
    /\ UNCHANGED <<recvVars, callVars, serveErr, pend, inShutdown, srvMu, lis, doneCh,
                   connVars, reqVars, stopDone, closeVars>>

ServeClose(g) ==
    /\ ServeGo(g, "close", "closing")
    /\ lis' = [lis EXCEPT ![g] = IF @ = "open" THEN "closing" ELSE @]
    /\ UNCHANGED <<recvVars, callVars, serveErr, pend, inShutdown, tracked, srvMu,
                   doneCh, connVars, reqVars, stopDone, closeVars>>

ServeReturn(g) ==
    /\ lis[g] = "closed" /\ ServeGo(g, "closing", "send")
    /\ UNCHANGED <<recvVars, callVars, serveErr, pend, hsrvVars, connVars, reqVars,
                   stopDone, closeVars>>

\* The listener's Close returns: CCMListener!ShutdownCompletes.
ListenerClosed(g) ==
    /\ lis[g] = "closing"
    /\ lis' = [lis EXCEPT ![g] = "closed"]
    /\ UNCHANGED <<recvVars, callVars, servVars, inShutdown, tracked, srvMu, doneCh,
                   connVars, reqVars, stopDone, closeVars>>

\* Mutant: doneCh is unbuffered, the send waits for a Stop.
ServeDoneUnbuffered(g) ==
    /\ ServeGo(g, "send", "exited")
    /\ \E k \in Callers : pc[k] = "recv" /\ sg[k] = g
    /\ doneCh' = [doneCh EXCEPT ![g] =
                      IF serveErr[g] = "ErrServerClosed" THEN "nil" ELSE "err"]
    /\ UNCHANGED <<recvVars, callVars, serveErr, pend, inShutdown, tracked, srvMu, lis,
                   connVars, reqVars, stopDone, closeVars>>

\* The goroutine sends Serve's error, nil for ErrServerClosed, on the buffered
\* channel it captured.
ServeDone(g) ==
    /\ ServeGo(g, "send", "exited")
    /\ doneCh' = [doneCh EXCEPT ![g] =
                      IF serveErr[g] = "ErrServerClosed" THEN "nil" ELSE "err"]
    /\ UNCHANGED <<recvVars, callVars, serveErr, pend, inShutdown, tracked, srvMu, lis,
                   connVars, reqVars, stopDone, closeVars>>

--------------------------------------------------------------------------------
(* A connection's goroutine (net/http) and the /notify handler it calls *)

\* The peer's next request starts to arrive (environment).  Until ConnActive the
\* connection still looks new or idle to a concurrent Shutdown.
ConnRequest(c) ==
    /\ rwc[c] = "open" /\ alert[c] = "none"
    /\ nreq[c] < MaxRequests /\ ConnGo(c, "read", "got")
    /\ \E r \in Requests : req' = [req EXCEPT ![c] = r]
    /\ nreq' = [nreq EXCEPT ![c] = @ + 1]
    /\ UNCHANGED <<recvVars, callVars, servVars, hsrvVars, gen, cstate, rwc, active,
                   got, disp, status, acks, stopDone, closeVars>>

ConnActive(c) ==
    /\ ConnGo(c, "got", "handler")
    /\ cstate' = [cstate EXCEPT ![c] = "active"]
    /\ UNCHANGED <<recvVars, callVars, servVars, hsrvVars, gen, rwc, active, reqVars,
                   stopDone, closeVars>>

\* The peer goes away, times out on its header, or its connection was closed here.
ConnReadFails(c) ==
    /\ alert[c] # "writing" /\ ConnGo(c, "read", "done")
    /\ UNCHANGED <<recvVars, callVars, servVars, hsrvVars, gen, cstate, rwc, active,
                   reqVars, stopDone, closeVars>>

\* The peer sends a record that Read answers with a fatal alert (environment): the
\* goroutine's own Read, or net/http's background read under a handler, in the
\* phases the handler may stay in.
ReadAlerts(c) ==
    /\ rwc[c] = "open" /\ alert[c] = "none"
    /\ cph[c] \in {"read", "body", "dispatch", "respond"}
    /\ alert' = [alert EXCEPT ![c] = "writing"]
    /\ UNCHANGED <<recvVars, callVars, servVars, hsrvVars, connVars, reqVars, stopDone,
                   sweep, target>>

\* The alert is out, or fails on a closed connection; Read returns an error.  It
\* ends a connection that waited for a request.
AlertEnds(c) ==
    /\ alert[c] = "writing" /\ alert' = [alert EXCEPT ![c] = "sent"]
    /\ cph' = [cph EXCEPT ![c] = IF @ = "read" THEN "done" ELSE @]
    /\ UNCHANGED <<recvVars, callVars, servVars, hsrvVars, gen, cstate, rwc, active,
                   reqVars, stopDone, sweep, target>>

Reply(c, code) == status' = [status EXCEPT ![c] = code]

\* Method and media type.
HandlerRefuses(c) ==
    /\ \/ ~req[c].post /\ Reply(c, 405)
       \/ req[c].post /\ ~req[c].sepXML /\ Reply(c, 415)
    /\ ConnGo(c, "handler", "respond")
    /\ UNCHANGED <<recvVars, callVars, servVars, hsrvVars, gen, cstate, rwc, active,
                   req, nreq, got, disp, acks, stopDone, closeVars>>

HandlerAccepts(c) ==
    /\ req[c].post /\ req[c].sepXML /\ ConnGo(c, "handler", "body")
    /\ UNCHANGED <<recvVars, callVars, servVars, hsrvVars, gen, cstate, rwc, active,
                   reqVars, stopDone, closeVars>>

\* io.ReadAll fails: the peer cut the body short, or the connection was closed.
HandlerReadFails(c) ==
    /\ alert[c] # "writing" /\ ConnGo(c, "body", "respond") /\ Reply(c, 400)
    /\ UNCHANGED <<recvVars, callVars, servVars, hsrvVars, gen, cstate, rwc, active,
                   req, nreq, got, disp, acks, stopDone, closeVars>>

Smaller(m, n) == IF m < n THEN m ELSE n

\* Mutant: the reader stops at maxBodyBytes, so that a longer body looks whole.
ReadLimitExact(len) == Smaller(len, MaxBody)

\* Bytes io.LimitReader(req.Body, maxBodyBytes+1) lets through.
ReadLimit(len) == Smaller(len, MaxBody + 1)

\* A body that was already buffered is read even from a closed connection.
HandlerReads(c) ==
    /\ alert[c] # "writing" /\ ConnGo(c, "body", "check")
    /\ got' = [got EXCEPT ![c] = ReadLimit(req[c].len)]
    /\ UNCHANGED <<recvVars, callVars, servVars, hsrvVars, gen, cstate, rwc, active,
                   req, nreq, disp, status, acks, stopDone, closeVars>>

\* Not too large, not empty, and the bytes read hold a whole root element that
\* is a Notification with some field set.
WellFormed(c) ==
    /\ got[c] \in 1 .. MaxBody
    /\ req[c].root = "notification" /\ got[c] >= req[c].end

HandlerRejects(c) ==
    /\ \/ ~WellFormed(c) /\ Reply(c, 400)
       \/ WellFormed(c) /\ ~req[c].cert /\ Reply(c, 500)
    /\ ConnGo(c, "check", "respond")
    /\ UNCHANGED <<recvVars, callVars, servVars, hsrvVars, gen, cstate, rwc, active,
                   req, nreq, got, disp, acks, stopDone, closeVars>>

HandlerDispatches(c) ==
    /\ WellFormed(c) /\ req[c].cert
    /\ ConnGo(c, "check", "dispatch")
    /\ disp' = [disp EXCEPT ![c] = @ + 1]
    /\ UNCHANGED <<recvVars, callVars, servVars, hsrvVars, gen, cstate, rwc, active,
                   req, nreq, got, status, acks, stopDone, closeVars>>

\* The dispatcher returns, or panics and is recovered.
DispatcherReturns(c) ==
    /\ ConnGo(c, "dispatch", "respond")
    /\ Reply(c, 204) \/ Reply(c, 500)
    /\ UNCHANGED <<recvVars, callVars, servVars, hsrvVars, gen, cstate, rwc, active,
                   req, nreq, got, disp, acks, stopDone, closeVars>>

\* The response is written, under c.out; it reaches the peer only over an open
\* connection that no alert has broken.
\* The goroutine then waits for the next request, or ends because the write
\* failed, the body was left unread, or the server is shutting down.
Respond(c) ==
    /\ cph[c] = "respond" /\ alert[c] # "writing"
    /\ acks' = [acks EXCEPT ![c] = IF rwc[c] = "open" /\ alert[c] = "none" THEN @ + 1 ELSE @]
    /\ req' = [req EXCEPT ![c] = NoReq] /\ got' = [got EXCEPT ![c] = 0]
    /\ disp' = [disp EXCEPT ![c] = 0] /\ status' = [status EXCEPT ![c] = 0]
    /\ \/ /\ rwc[c] = "open" /\ alert[c] = "none" /\ ~inShutdown[gen[c]]
          /\ ConnGo(c, "respond", "read")
          /\ cstate' = [cstate EXCEPT ![c] = "idle"]
       \/ ConnGo(c, "respond", "done") /\ cstate' = cstate
    /\ UNCHANGED <<recvVars, callVars, servVars, hsrvVars, gen, rwc, active, nreq,
                   stopDone, closeVars>>

ConnClose(c) ==
    /\ ConnGo(c, "done", "untrack")
    /\ rwc' = [rwc EXCEPT ![c] = "closed"]
    /\ UNCHANGED <<recvVars, callVars, servVars, hsrvVars, gen, cstate, active,
                   reqVars, stopDone, closeVars>>

ConnUntrack(c) ==
    /\ ConnGo(c, "untrack", "gone") /\ srvMu[gen[c]] = Nobody
    /\ active' = active \ {c}
    /\ UNCHANGED <<recvVars, callVars, servVars, hsrvVars, gen, cstate, rwc, reqVars,
                   stopDone, closeVars>>

--------------------------------------------------------------------------------
StopStep(k) ==
    \/ ShutdownFlag(k) \/ ShutdownLock(k) \/ ShutdownUnlock(k) \/ ShutdownGroup(k)
    \/ ShutdownPoll(k) \/ ShutdownRetry(k) \/ ShutdownGivesUp(k) \/ StopForce(k)
    \/ SweepCloses(k) \/ SweepEnd(k) \/ StopReturn(k)
    \/ \E c \in Conns : SweepSkips(k, c) \/ SweepPicks(k, c)

ServeStep(g) ==
    \/ ServeTrack(g) \/ ServeRegister(g) \/ ServeUntrack(g) \/ ServeClose(g)
    \/ ServeReturn(g) \/ ServeDone(g)

ConnStep(c) == ConnClose(c) \/ ConnUntrack(c)

HandlerStep(c) ==
    \/ ConnActive(c) \/ HandlerRefuses(c) \/ HandlerAccepts(c) \/ HandlerReadFails(c)
    \/ HandlerReads(c) \/ HandlerRejects(c) \/ HandlerDispatches(c) \/ Respond(c)

Next ==
    \/ \E k \in Callers :
          \/ StartAlready(k) \/ StartFails(k) \/ Start(k) \/ Addr(k)
          \/ StopNotStarted(k) \/ StopTake(k) \/ StopExpires(k) \/ StopStep(k)
    \/ \E g \in Gens :
          \/ ServeStep(g) \/ ServeAcceptError(g) \/ ListenerClosed(g)
          \/ \E c \in Conns : ServeAccept(g, c)
    \/ \E c \in Conns :
          \/ ConnRequest(c) \/ ConnReadFails(c) \/ ConnStep(c) \/ HandlerStep(c)
          \/ DispatcherReturns(c) \/ ReadAlerts(c) \/ AlertEnds(c)

Spec == Init /\ [][Next]_vars

(***************************************************************************)
(* Goroutines run, timers fire, the wrapped listener's Close returns       *)
(* (CCMListener!ShutdownCompletes) and Accept fails on a closed listener.  *)
(* Peers may stall in a header or a body, or take no answer and no alert,  *)
(* and the dispatcher may never return: none has any fairness.  A write on *)
(* a closed connection fails.                                              *)
(***************************************************************************)
Fairness ==
    /\ \A k \in Callers : WF_vars(StopStep(k)) /\ WF_vars(StopExpires(k))
    /\ \A g \in Gens : /\ WF_vars(ServeStep(g)) /\ WF_vars(ListenerClosed(g))
                        /\ WF_vars(lis[g] # "open" /\ ServeAcceptError(g))
    /\ \A c \in Conns : /\ WF_vars(ConnStep(c))
                         /\ WF_vars(rwc[c] = "closed" /\ AlertEnds(c))

FairSpec == Spec /\ Fairness

--------------------------------------------------------------------------------
(* Properties *)

\* The dispatcher is called only with a verified peer certificate, and never
\* with a notification cut out of a longer body: a body of maxBodyBytes+1 or
\* more is recognised although the reader stops there.  A notification is
\* acknowledged only if it was dispatched, and never refused if it was.
DispatchIsWhole ==
    \A c \in Conns :
        /\ disp[c] > 0 => req[c].cert /\ got[c] = req[c].len
        /\ status[c] = 204 => disp[c] = 1
        /\ status[c] \in {400, 405, 415} => disp[c] = 0

\* When Stop has returned, its generation is gone: the Serve goroutine has
\* exited, the listener is closed with its goroutines, no connection of it is
\* left open, whether Stop beat Serve to the server or was forced to close.
StopLeavesNothing ==
    \A g \in stopDone :
        /\ serve[g] = "exited" /\ lis[g] = "closed"
        /\ \A c \in Conns : gen[c] = g => rwc[c] = "closed"

\* No server is ever out of reach: one that still holds its port, its goroutine
\* or a registered connection is the receiver's current one or is being stopped.
NoOrphanServer ==
    \A g \in Gens :
        (lis[g] \in {"open", "closing"} \/ serve[g] \notin {"none", "exited"}
         \/ ActiveOf(g) # {})
        => cur = g \/ \E k \in Callers : pc[k] # "idle" /\ sg[k] = g

\* A peer never gets an answer after Stop has returned, although a handler may
\* still be running then: a request read as Shutdown closed its connection, or
\* a dispatcher that outlived the forced close.
NoAnswerAfterStop ==
    [][\A c \in Conns : gen[c] \in stopDone => acks'[c] = acks[c]]_vars

\* If no alert is left unread for ever, Stop returns whatever else the peers and the
\* dispatcher do, and however many callers stop at once: each result channel is
\* received by one of them.  The premise is needed: neither the 5 s cap nor
\* srv.Close bounds a Conn.Close that waits for c.out.  A Serve goroutine that
\* failed ends by itself, even if Stop is never called.
GoroutinesEnd ==
    /\ (\A c \in Conns : alert[c] = "writing" ~> alert[c] # "writing")
       => \A k \in Callers : pc[k] = "flag" ~> pc[k] = "idle"
    /\ \A g \in Gens : serve[g] = "untrack" ~> serve[g] = "exited"
================================================================================
