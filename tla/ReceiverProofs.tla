----------------------------- MODULE ReceiverProofs -----------------------------
(***************************************************************************)
(* What Receiver promises for any number of callers, connections, Starts   *)
(* and requests: proofs of its type invariant, its three safety invariants *)
(* and its action property from one inductive invariant.                   *)
(***************************************************************************)
EXTENDS Receiver, TLAPS

Stopping(k, g) == pc[k] # "idle" /\ sg[k] = g

\* Every generation that was started is the current one, being stopped by one
\* caller, or stopped: Stop takes r.srv from the receiver before it works on it.
Owned ==
    /\ cur <= starts /\ cur \notin stopDone
    /\ \A k \in Callers : pc[k] # "idle" => sg[k] \in 1 .. starts /\ sg[k] # cur
                                            /\ sg[k] \notin stopDone
    /\ \A k, l \in Callers : pc[k] # "idle" /\ pc[l] # "idle" /\ sg[k] = sg[l] => k = l
    /\ stopDone \subseteq 1 .. starts
    /\ \A g \in 1 .. starts : cur = g \/ g \in stopDone \/ \E k \in Callers : Stopping(k, g)

\* A Serve goroutine: its listener, its registration and its result go with
\* where it is.
Served ==
    \A g \in Gens :
        /\ serve[g] = "none" <=> g > starts
        /\ lis[g] = "none" <=> g > starts
        /\ serve[g] = "closing" => lis[g] # "open"
        /\ serve[g] \in {"send", "exited"} => lis[g] = "closed"
        /\ doneCh[g] # "empty" => serve[g] = "exited"
        /\ tracked[g] <=> serve[g] \in {"accept", "register", "untrack"}

\* A connection is open only while the server knows it, or Serve has accepted it
\* and not yet registered it.
Linked ==
    /\ \A c \in Conns :
          /\ rwc[c] = "none" => cph[c] = "none"
          /\ gen[c] = 0 <=> rwc[c] = "none"
          /\ gen[c] <= starts
          /\ rwc[c] = "open" => c \in active \/ pend[gen[c]] = c
          /\ c \in active => cph[c] \notin {"none", "gone"}
          /\ cph[c] \in {"untrack", "gone"} => rwc[c] = "closed"
    /\ \A g \in Gens :
          /\ pend[g] # Nobody <=> serve[g] = "register"
          /\ pend[g] # Nobody => gen[pend[g]] = g /\ cph[pend[g]] = "none"

\* How far a Stop has got: the shutdown flag, no registered listener, no known
\* connection, and nothing at all once it has returned.
Stopped ==
    /\ \A k \in Callers : pc[k] \notin {"idle", "flag"} => inShutdown[sg[k]]
    /\ \A k \in Callers :
          pc[k] \in {"poll", "sweep", "wait", "force", "forcing", "recv"} => ~tracked[sg[k]]
    /\ \A k \in Callers : pc[k] = "recv" => \A c \in active : gen[c] # sg[k]
    /\ \A g \in stopDone : \A c \in active : gen[c] # g

\* A connection a sweep has still to look at, or is closing, was accepted.
Swept ==
    \A k \in Callers : \A c \in Conns : c \in sweep[k] \/ target[k] = c => rwc[c] # "none"

\* The request a connection's goroutine is working on.
Handled ==
    \A c \in Conns :
        /\ acks[c] <= nreq[c]
        /\ cph[c] \in {"got", "handler", "body", "check", "dispatch", "respond"} =>
               acks[c] < nreq[c]
        /\ cph[c] \notin {"dispatch", "respond"} => disp[c] = 0 /\ status[c] = 0
        /\ cph[c] = "check" => got[c] = ReadLimit(req[c].len)
        /\ cph[c] = "dispatch" => disp[c] = 1 /\ status[c] = 0
        /\ cph[c] = "respond" => status[c] \in IF disp[c] = 1 THEN {204, 500}
                                               ELSE {400, 405, 415, 500}
        /\ disp[c] = 1 => req[c].cert /\ got[c] = req[c].len

IInv == TypeOK /\ Owned /\ Served /\ Linked /\ Stopped /\ Swept /\ StopLeavesNothing /\ Handled

--------------------------------------------------------------------------------
(* Lemmas *)

\* What a step leaves alone stays as it is.
LEMMA Frames ==
    ASSUME IInv
    PROVE  /\ UNCHANGED <<cur, starts, stopDone, pc, sg, ret>> => CallType'
           /\ UNCHANGED <<serve, serveErr, pend, srvMu, lis, doneCh>> => ServeType'
           /\ UNCHANGED <<expired, inShutdown, tracked>> => FlagType'
           /\ UNCHANGED <<gen, cph, cstate, rwc, active>> => ConnType'
           /\ UNCHANGED <<req, nreq, got, disp, status, acks>> => HandlerType'
           /\ UNCHANGED <<cur, starts, pc, sg, stopDone>> => Owned'
           /\ UNCHANGED <<starts, serve, lis, doneCh, tracked>> => Served'
           /\ UNCHANGED <<starts, gen, cph, rwc, active, pend, serve>> => Linked'
           /\ UNCHANGED <<pc, sg, inShutdown, tracked, active, gen, stopDone>> => Stopped'
           /\ UNCHANGED <<stopDone, serve, lis, gen, rwc>> => StopLeavesNothing'
           /\ UNCHANGED <<req, nreq, got, disp, status, acks, cph>> => Handled'
           /\ UNCHANGED <<alert, sweep, target>> => CloseType'
           /\ UNCHANGED <<sweep, target, rwc>> => Swept'
  <1>1. UNCHANGED <<cur, starts, stopDone, pc, sg, ret>> => CallType'
    BY DEF IInv, TypeOK, CallType, Gens
  <1>2. UNCHANGED <<serve, serveErr, pend, srvMu, lis, doneCh>> => ServeType'
    BY DEF IInv, TypeOK, ServeType, CallType, Gens
  <1>3. UNCHANGED <<expired, inShutdown, tracked>> => FlagType'
    BY DEF IInv, TypeOK, FlagType, Gens
  <1>4. UNCHANGED <<gen, cph, cstate, rwc, active>> => ConnType'
    BY DEF IInv, TypeOK, ConnType, Gens
  <1>5. UNCHANGED <<req, nreq, got, disp, status, acks>> => HandlerType'
    BY DEF IInv, TypeOK, HandlerType
  <1>6. UNCHANGED <<cur, starts, pc, sg, stopDone>> => Owned'
    BY DEF IInv, TypeOK, CallType, Gens, Owned, Stopping
  <1>7. UNCHANGED <<starts, serve, lis, doneCh, tracked>> => Served'
    BY DEF IInv, TypeOK, CallType, ServeType, FlagType, Gens, Served
  <1>8. UNCHANGED <<starts, gen, cph, rwc, active, pend, serve>> => Linked'
    BY DEF IInv, TypeOK, ServeType, ConnType, Gens, Linked
  <1>9. UNCHANGED <<pc, sg, inShutdown, tracked, active, gen, stopDone>> => Stopped'
    BY DEF IInv, TypeOK, CallType, FlagType, ConnType, Gens, Stopped, Owned
  <1>10. UNCHANGED <<stopDone, serve, lis, gen, rwc>> => StopLeavesNothing'
    BY DEF IInv, TypeOK, CallType, ServeType, ConnType, Gens, StopLeavesNothing
  <1>11. UNCHANGED <<req, nreq, got, disp, status, acks, cph>> => Handled'
    BY DEF IInv, TypeOK, ConnType, HandlerType, Handled
  <1>12. UNCHANGED <<alert, sweep, target>> => CloseType'
    BY DEF IInv, TypeOK, CloseType
  <1>13. UNCHANGED <<sweep, target, rwc>> => Swept'
    BY DEF IInv, Swept
  <1> QED
    BY <1>1, <1>2, <1>3, <1>4, <1>5, <1>6, <1>7, <1>8, <1>9, <1>10, <1>11, <1>12, <1>13

\* A body has a length.
LEMMA LenType == IInv => \A c \in Conns : req[c].len \in Nat
  BY ReceiverAssumption DEF IInv, TypeOK, HandlerType, RequestType, NoReq

\* A connection's goroutine that only goes on to its next phase.
LEMMA PhaseMoves ==
    ASSUME IInv, NEW c \in Conns, NEW to, to \notin {"none", "untrack", "gone"},
           cph[c] \notin {"none", "untrack", "gone"}, cph' = [cph EXCEPT ![c] = to],
           UNCHANGED <<starts, gen, rwc, active, pend, serve>>
    PROVE  Linked'
  BY DEF IInv, TypeOK, ServeType, ConnType, Gens, Linked

\* Every step of a caller, of a server and of a connection keeps the invariant.
LEMMA NextIInv == IInv /\ [Next]_vars => IInv'
  <1> SUFFICES ASSUME IInv, [Next]_vars PROVE IInv'
    OBVIOUS
  <1> USE ReceiverAssumption, IInv DEF IInv, recvVars, callVars, servVars, hsrvVars,
       connVars, reqVars, closeVars
  <1>1. ASSUME NEW k \in Callers, StartAlready(k) PROVE IInv'
    <2>1. CallType'
      BY <1>1 DEF StartAlready, TypeOK, CallType, Gens
    <2> QED
      BY <1>1, <2>1, Frames DEF TypeOK, StartAlready
  <1>2. ASSUME NEW k \in Callers, StartFails(k) PROVE IInv'
    <2>1. CallType'
      BY <1>2 DEF StartFails, TypeOK, CallType, Gens
    <2> QED
      BY <1>2, <2>1, Frames DEF TypeOK, StartFails
  <1>3. ASSUME NEW k \in Callers, Start(k) PROVE IInv'
    <2>1. CallType'
      BY <1>3 DEF Start, TypeOK, CallType, Gens
    <2>2. ServeType'
      BY <1>3 DEF Start, TypeOK, ServeType, CallType, Gens
    <2>3. Owned'
      BY <1>3 DEF Start, TypeOK, CallType, Gens, Owned, Stopping
    <2>4. Served'
      BY <1>3 DEF Start, TypeOK, CallType, ServeType, FlagType, Gens, Served
    <2>5. Linked'
      BY <1>3 DEF Start, TypeOK, CallType, ServeType, ConnType, Gens, Linked, Served
    <2>6. StopLeavesNothing'
      BY <1>3 DEF Start, TypeOK, CallType, ServeType, Gens, Owned, StopLeavesNothing
    <2> QED
      BY <1>3, <2>1, <2>2, <2>3, <2>4, <2>5, <2>6, Frames DEF TypeOK, Start
  <1>4. ASSUME NEW k \in Callers, Addr(k) PROVE IInv'
    <2>1. CallType'
      BY <1>4 DEF Addr, TypeOK, CallType, Gens
    <2> QED
      BY <1>4, <2>1, Frames DEF TypeOK, Addr
  <1>5. ASSUME NEW k \in Callers, StopNotStarted(k) PROVE IInv'
    <2>1. CallType'
      BY <1>5 DEF StopNotStarted, TypeOK, CallType, Gens
    <2> QED
      BY <1>5, <2>1, Frames DEF TypeOK, StopNotStarted
  <1>6. ASSUME NEW k \in Callers, StopTake(k) PROVE IInv'
    <2>1. CallType'
      BY <1>6 DEF StopTake, Go, TypeOK, CallType, Gens
    <2>2. Owned'
      BY <1>6 DEF StopTake, Go, TypeOK, CallType, Gens, Owned, Stopping
    <2>3. Stopped'
      BY <1>6 DEF StopTake, Go, TypeOK, CallType, FlagType, ConnType, Gens, Stopped, Owned
    <2> QED
      BY <1>6, <2>1, <2>2, <2>3, Frames DEF TypeOK, StopTake
  <1>7. ASSUME NEW k \in Callers, StopExpires(k) PROVE IInv'
    <2>1. FlagType'
      BY <1>7 DEF StopExpires, TypeOK, FlagType, Gens
    <2> QED
      BY <1>7, <2>1, Frames DEF TypeOK, StopExpires
  <1>8. ASSUME NEW k \in Callers, ShutdownFlag(k) PROVE IInv'
    <2>1. CallType'
      BY <1>8 DEF ShutdownFlag, Go, TypeOK, CallType, Gens
    <2>2. FlagType'
      BY <1>8 DEF ShutdownFlag, Go, TypeOK, FlagType, Gens
    <2>3. Owned'
      BY <1>8 DEF ShutdownFlag, Go, TypeOK, CallType, Gens, Owned, Stopping
    <2>4. Stopped'
      BY <1>8 DEF ShutdownFlag, Go, TypeOK, CallType, FlagType, ConnType, Gens, Stopped,
         Owned
    <2> QED
      BY <1>8, <2>1, <2>2, <2>3, <2>4, Frames DEF TypeOK, ShutdownFlag
  <1>9. ASSUME NEW k \in Callers, ShutdownLock(k) PROVE IInv'
    <2>1. CallType'
      BY <1>9 DEF ShutdownLock, Go, TypeOK, CallType, Gens
    <2>2. ServeType'
      BY <1>9 DEF ShutdownLock, Go, TypeOK, ServeType, CallType, Gens
    <2>3. Owned'
      BY <1>9 DEF ShutdownLock, Go, TypeOK, CallType, Gens, Owned, Stopping
    <2>4. Served'
      BY <1>9 DEF ShutdownLock, Go, TypeOK, CallType, ServeType, FlagType, Gens, Served
    <2>5. Stopped'
      BY <1>9 DEF ShutdownLock, Go, TypeOK, CallType, FlagType, ConnType, Gens, Stopped,
         Owned
    <2>6. StopLeavesNothing'
      BY <1>9 DEF ShutdownLock, Go, TypeOK, CallType, ServeType, ConnType, Gens,
         StopLeavesNothing
    <2> QED
      BY <1>9, <2>1, <2>2, <2>3, <2>4, <2>5, <2>6, Frames DEF TypeOK, ShutdownLock
  <1>10. ASSUME NEW k \in Callers, ShutdownUnlock(k) PROVE IInv'
    <2>1. CallType'
      BY <1>10 DEF ShutdownUnlock, Go, TypeOK, CallType, Gens
    <2>2. ServeType'
      BY <1>10 DEF ShutdownUnlock, Go, TypeOK, ServeType, CallType, Gens
    <2>3. Owned'
      BY <1>10 DEF ShutdownUnlock, Go, TypeOK, CallType, Gens, Owned, Stopping
    <2>4. Stopped'
      BY <1>10 DEF ShutdownUnlock, Go, TypeOK, CallType, FlagType, ConnType, Gens, Stopped,
         Owned
    <2> QED
      BY <1>10, <2>1, <2>2, <2>3, <2>4, Frames DEF TypeOK, ShutdownUnlock
  <1>11. ASSUME NEW k \in Callers, ShutdownGroup(k) PROVE IInv'
    <2>1. CallType'
      BY <1>11 DEF ShutdownGroup, Go, TypeOK, CallType, Gens
    <2>2. Owned'
      BY <1>11 DEF ShutdownGroup, Go, TypeOK, CallType, Gens, Owned, Stopping
    <2>3. Stopped'
      BY <1>11 DEF ShutdownGroup, Go, TypeOK, CallType, FlagType, ConnType, Gens, Stopped,
         Owned
    <2> QED
      BY <1>11, <2>1, <2>2, <2>3, Frames DEF TypeOK, ShutdownGroup
  <1>12. ASSUME NEW k \in Callers, ShutdownPoll(k) PROVE IInv'
    <2>1. CallType'
      BY <1>12 DEF ShutdownPoll, SweepStart, Go, ActiveOf, TypeOK, CallType, Gens
    <2>2. ServeType'
      BY <1>12 DEF ShutdownPoll, SweepStart, Go, ActiveOf, TypeOK, ServeType, CallType, Gens
    <2>3. CloseType'
      BY <1>12 DEF ShutdownPoll, SweepStart, Go, ActiveOf, TypeOK, ConnType, CloseType
    <2>4. Owned'
      BY <1>12 DEF ShutdownPoll, SweepStart, Go, ActiveOf, TypeOK, CallType, Gens, Owned, Stopping
    <2>5. Stopped'
      BY <1>12 DEF ShutdownPoll, SweepStart, Go, ActiveOf, TypeOK, CallType, FlagType, ConnType, Gens, Stopped, Owned
    <2>6. Swept'
      BY <1>12 DEF ShutdownPoll, SweepStart, Go, ActiveOf, TypeOK, ConnType, CloseType, Linked, Swept
    <2> QED
      BY <1>12, <2>1, <2>2, <2>3, <2>4, <2>5, <2>6, Frames DEF TypeOK, ShutdownPoll, SweepStart
  <1>13. ASSUME NEW k \in Callers, ShutdownRetry(k) PROVE IInv'
    <2>1. CallType'
      BY <1>13 DEF ShutdownRetry, Go, TypeOK, CallType, Gens
    <2>2. Owned'
      BY <1>13 DEF ShutdownRetry, Go, TypeOK, CallType, Gens, Owned, Stopping
    <2>3. Stopped'
      BY <1>13 DEF ShutdownRetry, Go, TypeOK, CallType, FlagType, ConnType, Gens, Stopped,
         Owned
    <2> QED
      BY <1>13, <2>1, <2>2, <2>3, Frames DEF TypeOK, ShutdownRetry
  <1>14. ASSUME NEW k \in Callers, ShutdownGivesUp(k) PROVE IInv'
    <2>1. CallType'
      BY <1>14 DEF ShutdownGivesUp, Go, TypeOK, CallType, Gens
    <2>2. Owned'
      BY <1>14 DEF ShutdownGivesUp, Go, TypeOK, CallType, Gens, Owned, Stopping
    <2>3. Stopped'
      BY <1>14 DEF ShutdownGivesUp, Go, TypeOK, CallType, FlagType, ConnType, Gens,
         Stopped, Owned
    <2> QED
      BY <1>14, <2>1, <2>2, <2>3, Frames DEF TypeOK, ShutdownGivesUp
  <1>15. ASSUME NEW k \in Callers, StopForce(k) PROVE IInv'
    <2>1. CallType'
      BY <1>15 DEF StopForce, SweepStart, Go, ActiveOf, TypeOK, CallType, Gens
    <2>2. ServeType'
      BY <1>15 DEF StopForce, SweepStart, Go, ActiveOf, TypeOK, ServeType, CallType, Gens
    <2>3. CloseType'
      BY <1>15 DEF StopForce, SweepStart, Go, ActiveOf, TypeOK, ConnType, CloseType
    <2>4. Owned'
      BY <1>15 DEF StopForce, SweepStart, Go, ActiveOf, TypeOK, CallType, Gens, Owned, Stopping
    <2>5. Stopped'
      BY <1>15 DEF StopForce, SweepStart, Go, ActiveOf, TypeOK, CallType, FlagType, ConnType, Gens, Stopped, Owned
    <2>6. Swept'
      BY <1>15 DEF StopForce, SweepStart, Go, ActiveOf, TypeOK, ConnType, CloseType, Linked, Swept
    <2> QED
      BY <1>15, <2>1, <2>2, <2>3, <2>4, <2>5, <2>6, Frames DEF TypeOK, StopForce, SweepStart
  <1>16. ASSUME NEW k \in Callers, StopReturn(k) PROVE IInv'
    <2>1. sg[k] \in Gens /\ serve[sg[k]] = "exited" /\ lis[sg[k]] = "closed"
      BY <1>16 DEF StopReturn, Go, TypeOK, CallType, Gens, Owned, Served
    <2>2. \A c \in Conns : gen[c] = sg[k] => rwc[c] = "closed"
      BY <1>16, <2>1 DEF StopReturn, Go, TypeOK, CallType, ConnType, Gens, Linked, Stopped,
         Owned
    <2>3. CallType'
      <3>1. ret' \in {"nil", "err"}
        BY <1>16, <2>1 DEF StopReturn, Go, TypeOK, ServeType
      <3>2. stopDone' \subseteq Gens
        BY <1>16, <2>1 DEF StopReturn, Go, TypeOK, CallType
      <3> QED
        BY <1>16, <3>1, <3>2 DEF StopReturn, Go, TypeOK, CallType
    <2>4. ServeType'
      BY <1>16 DEF StopReturn, Go, TypeOK, ServeType, CallType, Gens
    <2>5. FlagType'
      BY <1>16 DEF StopReturn, Go, TypeOK, FlagType, Gens
    <2>6. Owned'
      BY <1>16 DEF StopReturn, Go, TypeOK, CallType, Gens, Owned, Stopping
    <2>7. Served'
      BY <1>16 DEF StopReturn, Go, TypeOK, CallType, ServeType, FlagType, Gens, Served
    <2>8. Stopped'
      BY <1>16 DEF StopReturn, Go, TypeOK, CallType, FlagType, ConnType, Gens, Stopped,
         Owned
    <2>9. StopLeavesNothing'
      BY <1>16, <2>1, <2>2 DEF StopReturn, Go, StopLeavesNothing
    <2> QED
      BY <1>16, <2>3, <2>4, <2>5, <2>6, <2>7, <2>8, <2>9, Frames DEF TypeOK, StopReturn
  <1>17. ASSUME NEW g \in Gens, ServeTrack(g) PROVE IInv'
    <2>1. ServeType'
      BY <1>17 DEF ServeTrack, ServeGo, TypeOK, ServeType, CallType, Gens
    <2>2. FlagType'
      BY <1>17 DEF ServeTrack, ServeGo, TypeOK, FlagType, Gens
    <2>3. Served'
      BY <1>17 DEF ServeTrack, ServeGo, TypeOK, CallType, ServeType, FlagType, Gens, Served
    <2>4. Linked'
      BY <1>17 DEF ServeTrack, ServeGo, TypeOK, ServeType, ConnType, Gens, Linked
    <2>5. Stopped'
      BY <1>17 DEF ServeTrack, ServeGo, TypeOK, CallType, FlagType, ConnType, Gens,
         Stopped, Owned
    <2>6. StopLeavesNothing'
      BY <1>17 DEF ServeTrack, ServeGo, TypeOK, CallType, ServeType, ConnType, Gens,
         StopLeavesNothing
    <2> QED
      BY <1>17, <2>1, <2>2, <2>3, <2>4, <2>5, <2>6, Frames DEF TypeOK, ServeTrack
  <1>18. ASSUME NEW g \in Gens, NEW c \in Conns, ServeAccept(g, c) PROVE IInv'
    <2>1. ServeType'
      BY <1>18 DEF ServeAccept, ServeGo, TypeOK, ServeType, CallType, Gens
    <2>2. ConnType'
      BY <1>18 DEF ServeAccept, ServeGo, TypeOK, ConnType, Gens
    <2>3. Served'
      BY <1>18 DEF ServeAccept, ServeGo, TypeOK, CallType, ServeType, FlagType, Gens,
         Served
    <2>4. Linked'
      BY <1>18 DEF ServeAccept, ServeGo, Served, TypeOK, CallType, ServeType, ConnType, Gens,
         Linked
    <2>5. Stopped'
      BY <1>18 DEF ServeAccept, ServeGo, TypeOK, ConnType, Linked, Stopped
    <2>6. StopLeavesNothing'
      BY <1>18 DEF ServeAccept, ServeGo, TypeOK, CallType, ServeType, ConnType, Gens,
         StopLeavesNothing
    <2>7. Swept'
      BY <1>18 DEF ServeAccept, TypeOK, ConnType, Swept
    <2> QED
      BY <1>18, <2>1, <2>2, <2>3, <2>4, <2>5, <2>6, <2>7, Frames DEF TypeOK, ServeAccept
  <1>19. ASSUME NEW g \in Gens, ServeRegister(g) PROVE IInv'
    <2>1. pend[g] \in Conns /\ gen[pend[g]] = g /\ cph[pend[g]] = "none" /\ tracked[g]
      BY <1>19 DEF ServeRegister, ServeGo, TypeOK, ServeType, ConnType, Gens, Linked, Served
    <2>2. ServeType'
      BY <1>19 DEF ServeRegister, ServeGo, TypeOK, ServeType, CallType, Gens
    <2>3. ConnType'
      BY <1>19, <2>1 DEF ServeRegister, ServeGo, TypeOK, ConnType
    <2>4. Served'
      BY <1>19 DEF ServeRegister, ServeGo, TypeOK, CallType, ServeType, FlagType, Gens,
         Served
    <2>5. Linked'
      BY <1>19, <2>1 DEF ServeRegister, ServeGo, TypeOK, ServeType, ConnType, Gens, Linked
    <2>6. Stopped'
      BY <1>19, <2>1 DEF ServeRegister, ServeGo, Stopped, StopLeavesNothing
    <2>7. StopLeavesNothing'
      BY <1>19 DEF ServeRegister, ServeGo, TypeOK, CallType, ServeType, ConnType, Gens,
         StopLeavesNothing
    <2>8. Handled'
      BY <1>19, <2>1 DEF ServeRegister, ServeGo, TypeOK, ConnType, HandlerType, Handled
    <2> QED
      BY <1>19, <2>2, <2>3, <2>4, <2>5, <2>6, <2>7, <2>8, Frames DEF TypeOK, ServeRegister
  <1>20. ASSUME NEW g \in Gens, ServeAcceptError(g) PROVE IInv'
    <2>1. ServeType'
      BY <1>20 DEF ServeAcceptError, ServeGo, TypeOK, ServeType, CallType, Gens
    <2>2. Served'
      BY <1>20 DEF ServeAcceptError, ServeGo, TypeOK, CallType, ServeType, FlagType, Gens,
         Served
    <2>3. Linked'
      BY <1>20 DEF ServeAcceptError, ServeGo, TypeOK, ServeType, ConnType, Gens, Linked
    <2>4. StopLeavesNothing'
      BY <1>20 DEF ServeAcceptError, ServeGo, TypeOK, CallType, ServeType, ConnType, Gens,
         StopLeavesNothing
    <2> QED
      BY <1>20, <2>1, <2>2, <2>3, <2>4, Frames DEF TypeOK, ServeAcceptError
  <1>21. ASSUME NEW g \in Gens, ServeUntrack(g) PROVE IInv'
    <2>1. ServeType'
      BY <1>21 DEF ServeUntrack, ServeGo, TypeOK, ServeType, CallType, Gens
    <2>2. FlagType'
      BY <1>21 DEF ServeUntrack, ServeGo, TypeOK, FlagType, Gens
    <2>3. Served'
      BY <1>21 DEF ServeUntrack, ServeGo, TypeOK, CallType, ServeType, FlagType, Gens,
         Served
    <2>4. Linked'
      BY <1>21 DEF ServeUntrack, ServeGo, TypeOK, ServeType, ConnType, Gens, Linked
    <2>5. Stopped'
      BY <1>21 DEF ServeUntrack, ServeGo, TypeOK, CallType, FlagType, ConnType, Gens,
         Stopped, Owned
    <2>6. StopLeavesNothing'
      BY <1>21 DEF ServeUntrack, ServeGo, TypeOK, CallType, ServeType, ConnType, Gens,
         StopLeavesNothing
    <2> QED
      BY <1>21, <2>1, <2>2, <2>3, <2>4, <2>5, <2>6, Frames DEF TypeOK, ServeUntrack
  <1>22. ASSUME NEW g \in Gens, ServeClose(g) PROVE IInv'
    <2>1. ServeType'
      BY <1>22 DEF ServeClose, ServeGo, TypeOK, ServeType, CallType, Gens
    <2>2. Served'
      BY <1>22 DEF ServeClose, ServeGo, TypeOK, CallType, ServeType, FlagType, Gens, Served
    <2>3. Linked'
      BY <1>22 DEF ServeClose, ServeGo, TypeOK, ServeType, ConnType, Gens, Linked
    <2>4. StopLeavesNothing'
      BY <1>22 DEF ServeClose, ServeGo, TypeOK, CallType, ServeType, ConnType, Gens,
         StopLeavesNothing
    <2> QED
      BY <1>22, <2>1, <2>2, <2>3, <2>4, Frames DEF TypeOK, ServeClose
  <1>23. ASSUME NEW g \in Gens, ServeReturn(g) PROVE IInv'
    <2>1. ServeType'
      BY <1>23 DEF ServeReturn, ServeGo, TypeOK, ServeType, CallType, Gens
    <2>2. Served'
      BY <1>23 DEF ServeReturn, ServeGo, TypeOK, CallType, ServeType, FlagType, Gens,
         Served
    <2>3. Linked'
      BY <1>23 DEF ServeReturn, ServeGo, TypeOK, ServeType, ConnType, Gens, Linked
    <2>4. StopLeavesNothing'
      BY <1>23 DEF ServeReturn, ServeGo, TypeOK, CallType, ServeType, ConnType, Gens,
         StopLeavesNothing
    <2> QED
      BY <1>23, <2>1, <2>2, <2>3, <2>4, Frames DEF TypeOK, ServeReturn
  <1>24. ASSUME NEW g \in Gens, ListenerClosed(g) PROVE IInv'
    <2>1. ServeType'
      BY <1>24 DEF ListenerClosed, TypeOK, ServeType, CallType, Gens
    <2>2. Served'
      BY <1>24 DEF ListenerClosed, TypeOK, CallType, ServeType, FlagType, Gens, Served
    <2>3. StopLeavesNothing'
      BY <1>24 DEF ListenerClosed, TypeOK, CallType, ServeType, ConnType, Gens,
         StopLeavesNothing
    <2> QED
      BY <1>24, <2>1, <2>2, <2>3, Frames DEF TypeOK, ListenerClosed
  <1>25. ASSUME NEW g \in Gens, ServeDone(g) PROVE IInv'
    <2>1. ServeType'
      BY <1>25 DEF ServeDone, ServeGo, TypeOK, ServeType, CallType, Gens
    <2>2. Served'
      BY <1>25 DEF ServeDone, ServeGo, TypeOK, CallType, ServeType, FlagType, Gens, Served
    <2>3. Linked'
      BY <1>25 DEF ServeDone, ServeGo, TypeOK, ServeType, ConnType, Gens, Linked
    <2>4. StopLeavesNothing'
      BY <1>25 DEF ServeDone, ServeGo, TypeOK, CallType, ServeType, ConnType, Gens,
         StopLeavesNothing
    <2> QED
      BY <1>25, <2>1, <2>2, <2>3, <2>4, Frames DEF TypeOK, ServeDone
  <1>26. ASSUME NEW c \in Conns, ConnRequest(c) PROVE IInv'
    <2>1. ConnType'
      BY <1>26 DEF ConnRequest, ConnGo, TypeOK, ConnType, Gens
    <2>2. HandlerType'
      BY <1>26 DEF ConnRequest, ConnGo, TypeOK, HandlerType
    <2>3. Linked'
      BY <1>26, PhaseMoves DEF ConnRequest, ConnGo
    <2>4. Handled'
      BY <1>26 DEF ConnRequest, ConnGo, TypeOK, ConnType, HandlerType, Handled
    <2> QED
      BY <1>26, <2>1, <2>2, <2>3, <2>4, Frames DEF TypeOK, ConnRequest
  <1>27. ASSUME NEW c \in Conns, ConnActive(c) PROVE IInv'
    <2>1. ConnType'
      BY <1>27 DEF ConnActive, ConnGo, TypeOK, ConnType, Gens
    <2>2. Linked'
      BY <1>27, PhaseMoves DEF ConnActive, ConnGo
    <2>3. Handled'
      BY <1>27 DEF ConnActive, ConnGo, TypeOK, ConnType, HandlerType, Handled
    <2> QED
      BY <1>27, <2>1, <2>2, <2>3, Frames DEF TypeOK, ConnActive
  <1>28. ASSUME NEW c \in Conns, ConnReadFails(c) PROVE IInv'
    <2>1. ConnType'
      BY <1>28 DEF ConnReadFails, ConnGo, TypeOK, ConnType, Gens
    <2>2. Linked'
      BY <1>28, PhaseMoves DEF ConnReadFails, ConnGo
    <2>3. Handled'
      BY <1>28 DEF ConnReadFails, ConnGo, TypeOK, ConnType, HandlerType, Handled
    <2> QED
      BY <1>28, <2>1, <2>2, <2>3, Frames DEF TypeOK, ConnReadFails
  <1>29. ASSUME NEW c \in Conns, HandlerRefuses(c) PROVE IInv'
    <2>1. ConnType'
      BY <1>29 DEF HandlerRefuses, ConnGo, Reply, TypeOK, ConnType, Gens
    <2>2. HandlerType'
      BY <1>29 DEF HandlerRefuses, ConnGo, Reply, TypeOK, HandlerType
    <2>3. Linked'
      BY <1>29, PhaseMoves DEF HandlerRefuses, ConnGo
    <2>4. Handled'
      BY <1>29 DEF HandlerRefuses, ConnGo, Reply, TypeOK, ConnType, HandlerType, Handled
    <2> QED
      BY <1>29, <2>1, <2>2, <2>3, <2>4, Frames DEF TypeOK, HandlerRefuses
  <1>30. ASSUME NEW c \in Conns, HandlerAccepts(c) PROVE IInv'
    <2>1. ConnType'
      BY <1>30 DEF HandlerAccepts, ConnGo, TypeOK, ConnType, Gens
    <2>2. Linked'
      BY <1>30, PhaseMoves DEF HandlerAccepts, ConnGo
    <2>3. Handled'
      BY <1>30 DEF HandlerAccepts, ConnGo, TypeOK, ConnType, HandlerType, Handled
    <2> QED
      BY <1>30, <2>1, <2>2, <2>3, Frames DEF TypeOK, HandlerAccepts
  <1>31. ASSUME NEW c \in Conns, HandlerReadFails(c) PROVE IInv'
    <2>1. ConnType'
      BY <1>31 DEF HandlerReadFails, ConnGo, Reply, TypeOK, ConnType, Gens
    <2>2. HandlerType'
      BY <1>31 DEF HandlerReadFails, ConnGo, Reply, TypeOK, HandlerType
    <2>3. Linked'
      BY <1>31, PhaseMoves DEF HandlerReadFails, ConnGo
    <2>4. Handled'
      BY <1>31 DEF HandlerReadFails, ConnGo, Reply, TypeOK, ConnType, HandlerType, Handled
    <2> QED
      BY <1>31, <2>1, <2>2, <2>3, <2>4, Frames DEF TypeOK, HandlerReadFails
  <1>32. ASSUME NEW c \in Conns, HandlerReads(c) PROVE IInv'
    <2>1. ConnType'
      BY <1>32 DEF HandlerReads, ConnGo, TypeOK, ConnType, Gens
    <2>2. HandlerType'
      BY <1>32, LenType DEF HandlerReads, ConnGo, ReadLimit, Smaller, TypeOK, HandlerType
    <2>3. Linked'
      BY <1>32, PhaseMoves DEF HandlerReads, ConnGo
    <2>4. Handled'
      BY <1>32 DEF HandlerReads, ConnGo, TypeOK, ConnType, HandlerType, Handled
    <2> QED
      BY <1>32, <2>1, <2>2, <2>3, <2>4, Frames DEF TypeOK, HandlerReads
  <1>33. ASSUME NEW c \in Conns, HandlerRejects(c) PROVE IInv'
    <2>1. ConnType'
      BY <1>33 DEF HandlerRejects, ConnGo, Reply, TypeOK, ConnType, Gens
    <2>2. HandlerType'
      BY <1>33 DEF HandlerRejects, ConnGo, Reply, TypeOK, HandlerType
    <2>3. Linked'
      BY <1>33, PhaseMoves DEF HandlerRejects, ConnGo
    <2>4. Handled'
      BY <1>33 DEF HandlerRejects, ConnGo, Reply, TypeOK, ConnType, HandlerType, Handled
    <2> QED
      BY <1>33, <2>1, <2>2, <2>3, <2>4, Frames DEF TypeOK, HandlerRejects
  <1>34. ASSUME NEW c \in Conns, HandlerDispatches(c) PROVE IInv'
    <2>1. ConnType'
      BY <1>34 DEF HandlerDispatches, ConnGo, TypeOK, ConnType, Gens
    <2>2. HandlerType'
      BY <1>34 DEF HandlerDispatches, ConnGo, TypeOK, HandlerType, Handled
    <2>3. Linked'
      BY <1>34, PhaseMoves DEF HandlerDispatches, ConnGo
    <2>4. Handled'
      <3>1. got[c] = req[c].len /\ req[c].cert
        BY <1>34, LenType DEF HandlerDispatches, ConnGo, WellFormed, ReadLimit, Smaller, Handled
      <3> QED
        BY <1>34, <3>1 DEF HandlerDispatches, ConnGo, TypeOK, ConnType, HandlerType, Handled
    <2> QED
      BY <1>34, <2>1, <2>2, <2>3, <2>4, Frames DEF TypeOK, HandlerDispatches
  <1>35. ASSUME NEW c \in Conns, DispatcherReturns(c) PROVE IInv'
    <2>1. ConnType'
      BY <1>35 DEF DispatcherReturns, ConnGo, Reply, TypeOK, ConnType, Gens
    <2>2. HandlerType'
      BY <1>35 DEF DispatcherReturns, ConnGo, Reply, TypeOK, HandlerType
    <2>3. Linked'
      BY <1>35, PhaseMoves DEF DispatcherReturns, ConnGo
    <2>4. Handled'
      BY <1>35 DEF DispatcherReturns, ConnGo, Reply, TypeOK, ConnType, HandlerType, Handled
    <2> QED
      BY <1>35, <2>1, <2>2, <2>3, <2>4, Frames DEF TypeOK, DispatcherReturns
  <1>36. ASSUME NEW c \in Conns, Respond(c) PROVE IInv'
    <2>1. ConnType'
      BY <1>36 DEF Respond, ConnGo, TypeOK, ConnType, Gens
    <2>2. HandlerType'
      BY <1>36 DEF Respond, ConnGo, TypeOK, HandlerType, Handled
    <2>3. Linked'
      BY <1>36, PhaseMoves DEF Respond, ConnGo
    <2>4. Handled'
      BY <1>36 DEF Respond, ConnGo, TypeOK, ConnType, HandlerType, Handled
    <2> QED
      BY <1>36, <2>1, <2>2, <2>3, <2>4, Frames DEF TypeOK, Respond
  <1>37. ASSUME NEW c \in Conns, ConnClose(c) PROVE IInv'
    <2>1. ConnType'
      BY <1>37 DEF ConnClose, ConnGo, TypeOK, ConnType, Gens
    <2>2. Linked'
      BY <1>37 DEF ConnClose, ConnGo, TypeOK, ServeType, ConnType, Gens, Linked
    <2>3. StopLeavesNothing'
      BY <1>37 DEF ConnClose, ConnGo, TypeOK, CallType, ServeType, ConnType, Gens,
         StopLeavesNothing
    <2>4. Handled'
      BY <1>37 DEF ConnClose, ConnGo, TypeOK, ConnType, HandlerType, Handled
    <2>5. Swept'
      BY <1>37 DEF ConnClose, TypeOK, ConnType, Swept
    <2> QED
      BY <1>37, <2>1, <2>2, <2>3, <2>4, <2>5, Frames DEF TypeOK, ConnClose
  <1>38. ASSUME NEW c \in Conns, ConnUntrack(c) PROVE IInv'
    <2>1. ConnType'
      BY <1>38 DEF ConnUntrack, ConnGo, TypeOK, ConnType, Gens
    <2>2. Linked'
      BY <1>38 DEF ConnUntrack, ConnGo, TypeOK, ServeType, ConnType, Gens, Linked
    <2>3. Stopped'
      BY <1>38 DEF ConnUntrack, ConnGo, TypeOK, CallType, FlagType, ConnType, Gens,
         Stopped, Owned
    <2>4. Handled'
      BY <1>38 DEF ConnUntrack, ConnGo, TypeOK, ConnType, HandlerType, Handled
    <2> QED
      BY <1>38, <2>1, <2>2, <2>3, <2>4, Frames DEF TypeOK, ConnUntrack
  <1>40. ASSUME NEW k \in Callers, NEW c \in Conns, SweepSkips(k, c) PROVE IInv'
    <2>1. CloseType'
      BY <1>40 DEF SweepSkips, TypeOK, CloseType
    <2>2. Swept'
      BY <1>40 DEF SweepSkips, TypeOK, CloseType, Swept
    <2> QED
      BY <1>40, <2>1, <2>2, Frames DEF TypeOK, SweepSkips
  <1>41. ASSUME NEW k \in Callers, NEW c \in Conns, SweepPicks(k, c) PROVE IInv'
    <2>1. CloseType'
      BY <1>41 DEF SweepPicks, TypeOK, CloseType
    <2>2. Swept'
      BY <1>41 DEF SweepPicks, TypeOK, CloseType, Swept
    <2> QED
      BY <1>41, <2>1, <2>2, Frames DEF TypeOK, SweepPicks
  <1>42. ASSUME NEW k \in Callers, SweepCloses(k) PROVE IInv'
    <2>1. target[k] \in Conns /\ rwc[target[k]] # "none"
      BY <1>42 DEF SweepCloses, TypeOK, CloseType, Swept
    <2>2. ConnType'
      BY <1>42, <2>1 DEF SweepCloses, TypeOK, ConnType, Gens
    <2>3. CloseType'
      BY <1>42 DEF SweepCloses, TypeOK, CloseType
    <2>4. Linked'
      BY <1>42, <2>1 DEF SweepCloses, TypeOK, ServeType, ConnType, Gens, Linked
    <2>5. Stopped'
      BY <1>42 DEF SweepCloses, TypeOK, CallType, FlagType, ConnType, Gens, Stopped, Owned
    <2>6. Swept'
      BY <1>42, <2>1 DEF SweepCloses, TypeOK, ConnType, CloseType, Swept
    <2>7. StopLeavesNothing'
      BY <1>42, <2>1 DEF SweepCloses, TypeOK, CallType, ServeType, ConnType, Gens,
         StopLeavesNothing
    <2> QED
      BY <1>42, <2>1, <2>2, <2>3, <2>4, <2>5, <2>6, <2>7, Frames DEF TypeOK, SweepCloses
  <1>43. ASSUME NEW k \in Callers, SweepEnd(k) PROVE IInv'
    <2>1. CallType'
      BY <1>43 DEF SweepEnd, TypeOK, CallType, Gens
    <2>2. ServeType'
      BY <1>43 DEF SweepEnd, TypeOK, ServeType, CallType, Gens
    <2>3. Owned'
      BY <1>43 DEF SweepEnd, TypeOK, CallType, Gens, Owned, Stopping
    <2>4. Stopped'
      BY <1>43 DEF SweepEnd, ActiveOf, TypeOK, CallType, FlagType, ConnType, Gens, Stopped,
         Owned
    <2> QED
      BY <1>43, <2>1, <2>2, <2>3, <2>4, Frames DEF TypeOK, SweepEnd
  <1>44. ASSUME NEW c \in Conns, ReadAlerts(c) PROVE IInv'
    <2>1. CloseType'
      BY <1>44 DEF ReadAlerts, TypeOK, CloseType
    <2> QED
      BY <1>44, <2>1, Frames DEF TypeOK, ReadAlerts
  <1>45. ASSUME NEW c \in Conns, AlertEnds(c) PROVE IInv'
    <2>1. ConnType'
      BY <1>45 DEF AlertEnds, TypeOK, ConnType, Gens
    <2>2. CloseType'
      BY <1>45 DEF AlertEnds, TypeOK, CloseType
    <2>3. Linked'
      BY <1>45 DEF AlertEnds, TypeOK, ServeType, ConnType, Gens, Linked
    <2>4. Handled'
      BY <1>45 DEF AlertEnds, TypeOK, ConnType, HandlerType, Handled
    <2> QED
      BY <1>45, <2>1, <2>2, <2>3, <2>4, Frames DEF TypeOK, AlertEnds
  <1>39. CASE UNCHANGED vars
    BY <1>39, Frames DEF vars, TypeOK
  <1> QED
    BY <1>1, <1>2, <1>3, <1>4, <1>5, <1>6, <1>7, <1>8, <1>9, <1>10, <1>11, <1>12, <1>13,
       <1>14, <1>15, <1>16, <1>17, <1>18, <1>19, <1>20, <1>21, <1>22, <1>23, <1>24, <1>25,
       <1>26, <1>27, <1>28, <1>29, <1>30, <1>31, <1>32, <1>33, <1>34, <1>35, <1>36, <1>37,
       <1>38, <1>39, <1>40, <1>41, <1>42, <1>43, <1>44, <1>45
       DEF Next, StopStep, ServeStep, ConnStep, HandlerStep

\* Nothing is started, stopped or handled at first.
LEMMA InitIInv == Init => IInv
  <1> SUFFICES ASSUME Init PROVE IInv
    OBVIOUS
  <1> USE ReceiverAssumption DEF Init
  <1>1. CallType
    BY DEF CallType
  <1>2. ServeType
    BY DEF ServeType
  <1>3. FlagType
    BY DEF FlagType
  <1>4. ConnType
    BY DEF ConnType
  <1>5. HandlerType
    BY DEF HandlerType
  <1>6. Owned /\ Stopped /\ StopLeavesNothing
    BY DEF Owned, Stopped, StopLeavesNothing, Stopping
  <1>7. Served /\ Linked
    BY DEF Served, Linked, Gens
  <1>8. Handled
    BY DEF Handled
  <1>9. CloseType /\ Swept
    BY DEF CloseType, Swept
  <1> QED
    BY <1>1, <1>2, <1>3, <1>4, <1>5, <1>6, <1>7, <1>8, <1>9 DEF IInv, TypeOK

\* Only the goroutine of a connection answers on it, and only over an open one.
LEMMA OnlyRespondAnswers ==
    ASSUME IInv, [Next]_vars, NEW c \in Conns, acks'[c] # acks[c]
    PROVE  rwc[c] = "open"
  <1> USE DEF recvVars, callVars, servVars, hsrvVars, connVars, reqVars
  <1>1. \/ UNCHANGED acks
        \/ \E b \in Conns : Respond(b)
    <2>1. ASSUME NEW k \in Callers,
                 \/ StartAlready(k) \/ StartFails(k) \/ Start(k) \/ Addr(k)
                 \/ StopNotStarted(k) \/ StopTake(k) \/ StopExpires(k) \/ StopStep(k)
          PROVE  UNCHANGED acks
      BY <2>1 DEF StartAlready, StartFails, Start, Addr, StopNotStarted, StopTake, StopExpires,
         StopStep, ShutdownFlag, ShutdownLock, ShutdownUnlock, ShutdownGroup, ShutdownPoll,
         ShutdownRetry, ShutdownGivesUp, StopForce, StopReturn, SweepStart, SweepSkips,
         SweepPicks, SweepCloses, SweepEnd
    <2>2. ASSUME NEW g \in Gens, \/ ServeStep(g) \/ ServeAcceptError(g) \/ ListenerClosed(g)
                                 \/ \E b \in Conns : ServeAccept(g, b)
          PROVE  UNCHANGED acks
      BY <2>2 DEF ServeStep, ServeTrack, ServeRegister, ServeUntrack, ServeClose, ServeReturn,
         ServeDone, ServeAcceptError, ListenerClosed, ServeAccept
    <2>3. ASSUME NEW b \in Conns, \/ ConnRequest(b) \/ ConnReadFails(b) \/ ConnStep(b)
                                  \/ HandlerStep(b) \/ DispatcherReturns(b)
                                  \/ ReadAlerts(b) \/ AlertEnds(b)
          PROVE  UNCHANGED acks \/ Respond(b)
      BY <2>3 DEF ConnRequest, ConnReadFails, ConnStep, ConnClose, ConnUntrack, HandlerStep,
         ConnActive, HandlerRefuses, HandlerAccepts, HandlerReadFails, HandlerReads,
         HandlerRejects, HandlerDispatches, DispatcherReturns, ReadAlerts, AlertEnds
    <2> QED
      BY <2>1, <2>2, <2>3 DEF Next, vars
  <1>2. ASSUME NEW b \in Conns, Respond(b) PROVE rwc[c] = "open"
    BY <1>2 DEF Respond, IInv, TypeOK, HandlerType
  <1> QED
    BY <1>1, <1>2

--------------------------------------------------------------------------------
(* Theorems *)

\* The inductive invariant holds: every started generation has one owner, and a
\* Stop that reached a stage has made true what that stage is for.
THEOREM ReceiverInductive == Spec => []IInv
  BY InitIInv, NextIInv, PTL DEF Spec

\* Every variable keeps its type: a request is dispatched at most once and
\* answered at most once.
THEOREM ReceiverTypeCorrect == Spec => []TypeOK
  <1>1. IInv => TypeOK
    BY DEF IInv
  <1> QED
    BY <1>1, ReceiverInductive, PTL

\* When Stop has returned nothing of its generation is left, for any number of
\* callers, Starts and connections.
THEOREM ReceiverStopLeavesNothing == Spec => []StopLeavesNothing
  <1>1. IInv => StopLeavesNothing
    BY DEF IInv
  <1> QED
    BY <1>1, ReceiverInductive, PTL

\* A server with a listener, a goroutine or a connection is always within reach
\* of a Stop.
THEOREM ReceiverNoOrphanServer == Spec => []NoOrphanServer
  <1>1. IInv => NoOrphanServer
    <2> SUFFICES ASSUME IInv, NEW g \in Gens,
                        \/ lis[g] \in {"open", "closing"} \/ serve[g] \notin {"none", "exited"}
                        \/ ActiveOf(g) # {}
                 PROVE  cur = g \/ \E k \in Callers : pc[k] # "idle" /\ sg[k] = g
      BY DEF NoOrphanServer
    <2>1. g \notin stopDone
      BY DEF IInv, StopLeavesNothing, Stopped, ActiveOf
    <2>2. g \in 1 .. starts
      <3>1. CASE lis[g] \in {"open", "closing"} \/ serve[g] \notin {"none", "exited"}
        BY <3>1, ReceiverAssumption DEF IInv, Served, TypeOK, CallType, Gens
      <3>2. CASE ActiveOf(g) # {}
        BY <3>2, ReceiverAssumption DEF IInv, ActiveOf, Linked, TypeOK, CallType, ConnType, Gens
      <3> QED
        BY <3>1, <3>2
    <2> QED
      BY <2>1, <2>2 DEF IInv, Owned, Stopping
  <1> QED
    BY <1>1, ReceiverInductive, PTL

\* The dispatcher sees whole, certified notifications and the acknowledgements
\* say so, for every body length and every maxBodyBytes.
THEOREM ReceiverDispatchIsWhole == Spec => []DispatchIsWhole
  <1>1. IInv => DispatchIsWhole
    BY DEF IInv, DispatchIsWhole, Handled, TypeOK, HandlerType, ConnType
  <1> QED
    BY <1>1, ReceiverInductive, PTL

\* No peer gets an answer on a connection of a generation whose Stop has returned.
THEOREM ReceiverNoAnswerAfterStop == Spec => NoAnswerAfterStop
  <1>1. IInv /\ [Next]_vars => [\A c \in Conns : gen[c] \in stopDone => acks'[c] = acks[c]]_vars
    <2> SUFFICES ASSUME IInv, [Next]_vars, NEW c \in Conns, gen[c] \in stopDone
                 PROVE  acks'[c] = acks[c]
      OBVIOUS
    <2>1. rwc[c] = "closed"
      BY DEF IInv, StopLeavesNothing
    <2> QED
      BY <2>1, OnlyRespondAnswers
  <1> QED
    BY <1>1, ReceiverInductive, PTL DEF Spec, NoAnswerAfterStop
================================================================================
