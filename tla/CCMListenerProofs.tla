--------------------------- MODULE CCMListenerProofs ---------------------------
(***************************************************************************)
(* Proofs about CCMListener for any set of connections, callers and bound. *)
(* The invariants are not inductive as they stand; IInv adds what the      *)
(* goroutines know of one another: what the WaitGroup counts, which side   *)
(* of HandshakeContext can still close the raw connection, and who owns    *)
(* each connection.                                                        *)
(***************************************************************************)
EXTENDS CCMListener, FiniteSetTheorems, TLAPS

\* The WaitGroup counts the accept loop and the handshake goroutines.
Counting ==
    wg = Cardinality(LiveHandshakes) + (IF loop = "exited" THEN 0 ELSE 1)

\* What a Close call has done so far; Wait returned only at zero.
CloserInv ==
    /\ innerClosed => ctxDone
    /\ \A k \in Closers :
          /\ closer[k] # "idle" => ctxDone
          /\ closer[k] \in {"waiting", "returned"} => innerClosed
          /\ closer[k] = "returned" => wg = 0

\* Which error the accept loop holds at each of its steps.
LoopInv ==
    /\ loopErr = "closed" => innerClosed
    /\ loop \in {"check", "record"} => loopErr # "none"
    /\ loop = "sendErr" => loopErr = "temporary"
    /\ loop = "record" /\ loopErr = "temporary" => ctxDone
    /\ loop \in {"stop", "finish", "exited"} =>
          /\ acceptErr \in {"permanent", "closed"}
          /\ loopErr # "permanent" => acceptErr = "closed"
          /\ acceptErr = "closed" => ctxDone
    /\ stopped <=> loop \in {"finish", "exited"}

\* A handshake goroutine and the interrupter of its HandshakeContext.
ConnInv(c) ==
    /\ hs[c] = "none" <=> raw[c] = "none"
    /\ hs[c] = "none" => intr[c] = "idle" /\ cause[c] = "none"
    /\ hs[c] = "shaking" => intr[c] \in {"watch", "fired"}
    /\ hs[c] \in {"joinOk", "joinErr"} => intr[c] # "idle"
    /\ intr[c] = "watch" => InHandshakeContext(c)
    /\ intr[c] = "fired" => raw[c] = "closed"
    /\ hs[c] = "offer" => raw[c] = "open" /\ intr[c] \in {"idle", "quiet"}
    /\ raw[c] = "closed" => intr[c] = "fired" \/ hs[c] \in {"exiting", "exited"}

\* The goroutine that took a connection from conns owns it alone.
OwnInv ==
    /\ \A a \in Acceptors : acc[a] = "holding" <=> held[a] # NoConn
    /\ \A a, b \in Acceptors : held[a] = held[b] /\ held[a] # NoConn => a = b
    /\ \A c \in Conns : (c \in handed \/ \E a \in Acceptors : held[a] = c) =>
          /\ hs[c] \in {"exiting", "exited"}
          /\ raw[c] = "open"
          /\ intr[c] \in {"idle", "quiet"}
    /\ \A a \in Acceptors : held[a] \notin handed

\* Why a handshake ended, as far as logging goes.
CauseInv(c) ==
    /\ cause[c] = "shutdown" => ctxDone
    /\ hs[c] \in {"joinErr", "refused"} => cause[c] # "none"
    /\ intr[c] = "fired" => cause[c] # "none"
    /\ hs[c] \in {"shaking", "joinOk", "offer"} /\ intr[c] # "fired" => cause[c] = "none"

RetInv == \A a \in Acceptors : ret[a] = "closed" => ctxDone

ConnAll  == \A c \in Conns : ConnInv(c)
CauseAll == \A c \in Conns : CauseInv(c)

IInv ==
    /\ TypeOK /\ Counting /\ CloserInv /\ LoopInv
    /\ ConnAll /\ CauseAll
    /\ OwnInv /\ EveryOpenConnOwned /\ LogTellsPeerFailures /\ RetInv

--------------------------------------------------------------------------------
\* The WaitGroup counts finitely many goroutines.
LEMMA LiveFinite ==
    IsFiniteSet(LiveHandshakes) /\ Cardinality(LiveHandshakes) \in Nat
<1>1. LiveHandshakes \subseteq Conns
  BY DEF LiveHandshakes
<1>. QED BY <1>1, ListenerAssumption, FS_Subset, FS_CardinalityType

\* WrapCCMListenerWithTimeout establishes the inductive invariant.
LEMMA InitIInv == Init => IInv
<1> SUFFICES ASSUME Init PROVE IInv
  OBVIOUS
<1> USE ListenerAssumption DEF Init
<1>1. LiveHandshakes = {}
  BY DEF LiveHandshakes
<1>2. Counting
  BY <1>1, FS_EmptySet DEF Counting
<1>3. TypeOK
  <2>1. temps \in 0 .. MaxTempErrs /\ wg \in Nat
    OBVIOUS
  <2>2. timedOut \in [Conns -> BOOLEAN]
    OBVIOUS
  <2>3. ctxDone \in BOOLEAN /\ innerClosed \in BOOLEAN /\ stopped \in BOOLEAN
    OBVIOUS
  <2>. QED BY <2>1, <2>2, <2>3 DEF TypeOK, LoopStates, HsStates, Errors
<1>6. CloserInv /\ LoopInv /\ RetInv
  BY DEF CloserInv, LoopInv, RetInv
<1>4. ConnAll /\ CauseAll
  BY DEF ConnAll, ConnInv, CauseAll, CauseInv, InHandshakeContext
<1>5. OwnInv /\ EveryOpenConnOwned /\ LogTellsPeerFailures
  BY DEF OwnInv, EveryOpenConnOwned, LogTellsPeerFailures
<1>. QED BY <1>2, <1>3, <1>6, <1>4, <1>5 DEF IInv

\* Every step of the loop, the handshakes, Accept and Close preserves it.
LEMMA NextIInv == IInv /\ [Next]_vars => IInv'
<1> SUFFICES ASSUME IInv, [Next]_vars PROVE IInv'
  OBVIOUS
<1> USE ListenerAssumption, IInv DEF IInv, loopVars, connVars, accVars
<1>1. ASSUME NEW c \in Conns, LoopAccept(c) PROVE IInv'
  <2> USE <1>1 DEF LoopAccept
  <2>1. LiveHandshakes' = LiveHandshakes \cup {c} /\ c \notin LiveHandshakes
    BY DEF LiveHandshakes, TypeOK
  <2>2. Counting'
    BY <2>1, FS_AddElement, LiveFinite DEF Counting, TypeOK
  <2>3. TypeOK' /\ CloserInv' /\ LoopInv' /\ RetInv'
    BY DEF TypeOK, LoopStates, HsStates, Errors, Counting, CloserInv, LoopInv, RetInv
  <2>4. ConnAll' /\ CauseAll'
    BY DEF TypeOK, ConnAll, ConnInv, CauseAll, CauseInv, InHandshakeContext, HsCtxDone
  <2>5. OwnInv' /\ EveryOpenConnOwned' /\ LogTellsPeerFailures'
    BY DEF TypeOK, HsStates, ConnAll, ConnInv, CauseAll, CauseInv, InHandshakeContext,
           OwnInv, EveryOpenConnOwned, LogTellsPeerFailures
  <2>. QED BY <2>2, <2>3, <2>4, <2>5 DEF IInv
<1>2. ASSUME NEW e \in {"temporary", "permanent", "closed"}, LoopError(e) PROVE IInv'
  <2> USE <1>2 DEF LoopError
  <2>1. LiveHandshakes' = LiveHandshakes
    BY DEF LiveHandshakes
  <2>2. Counting'
    BY <2>1 DEF Counting
  <2>3. TypeOK' /\ CloserInv' /\ LoopInv' /\ RetInv'
    BY DEF TypeOK, LoopStates, HsStates, Errors, CloserInv, LoopInv, RetInv
  <2>4. ConnAll' /\ CauseAll'
    BY DEF TypeOK, ConnAll, ConnInv, CauseAll, CauseInv, InHandshakeContext, HsCtxDone
  <2>5. OwnInv' /\ EveryOpenConnOwned' /\ LogTellsPeerFailures'
    BY DEF TypeOK, HsStates, ConnAll, ConnInv, CauseAll, CauseInv, InHandshakeContext,
           OwnInv, EveryOpenConnOwned, LogTellsPeerFailures
  <2>. QED BY <2>2, <2>3, <2>4, <2>5 DEF IInv
<1>3. ASSUME LoopCheck PROVE IInv'
  <2> USE <1>3 DEF LoopCheck
  <2>1. LiveHandshakes' = LiveHandshakes
    BY DEF LiveHandshakes
  <2>2. Counting'
    BY <2>1 DEF Counting
  <2>3. TypeOK' /\ CloserInv' /\ LoopInv' /\ RetInv'
    BY DEF TypeOK, LoopStates, HsStates, Errors, CloserInv, LoopInv, RetInv
  <2>4. ConnAll' /\ CauseAll'
    BY DEF TypeOK, ConnAll, ConnInv, CauseAll, CauseInv, InHandshakeContext, HsCtxDone
  <2>5. OwnInv' /\ EveryOpenConnOwned' /\ LogTellsPeerFailures'
    BY DEF TypeOK, HsStates, ConnAll, ConnInv, CauseAll, CauseInv, InHandshakeContext,
           OwnInv, EveryOpenConnOwned, LogTellsPeerFailures
  <2>. QED BY <2>2, <2>3, <2>4, <2>5 DEF IInv
<1>4. ASSUME LoopCancelled PROVE IInv'
  <2> USE <1>4 DEF LoopCancelled
  <2>1. LiveHandshakes' = LiveHandshakes
    BY DEF LiveHandshakes
  <2>2. Counting'
    BY <2>1 DEF Counting
  <2>3. TypeOK' /\ CloserInv' /\ LoopInv' /\ RetInv'
    BY DEF TypeOK, LoopStates, HsStates, Errors, CloserInv, LoopInv, RetInv
  <2>4. ConnAll' /\ CauseAll'
    BY DEF TypeOK, ConnAll, ConnInv, CauseAll, CauseInv, InHandshakeContext, HsCtxDone
  <2>5. OwnInv' /\ EveryOpenConnOwned' /\ LogTellsPeerFailures'
    BY DEF TypeOK, HsStates, ConnAll, ConnInv, CauseAll, CauseInv, InHandshakeContext,
           OwnInv, EveryOpenConnOwned, LogTellsPeerFailures
  <2>. QED BY <2>2, <2>3, <2>4, <2>5 DEF IInv
<1>5. ASSUME LoopRecord PROVE IInv'
  <2> USE <1>5 DEF LoopRecord
  <2>1. LiveHandshakes' = LiveHandshakes
    BY DEF LiveHandshakes
  <2>2. Counting'
    BY <2>1 DEF Counting
  <2>3. TypeOK' /\ CloserInv' /\ LoopInv' /\ RetInv'
    BY DEF TypeOK, LoopStates, HsStates, Errors, CloserInv, LoopInv, RetInv
  <2>4. ConnAll' /\ CauseAll'
    BY DEF TypeOK, ConnAll, ConnInv, CauseAll, CauseInv, InHandshakeContext, HsCtxDone
  <2>5. OwnInv' /\ EveryOpenConnOwned' /\ LogTellsPeerFailures'
    BY DEF TypeOK, HsStates, ConnAll, ConnInv, CauseAll, CauseInv, InHandshakeContext,
           OwnInv, EveryOpenConnOwned, LogTellsPeerFailures
  <2>. QED BY <2>2, <2>3, <2>4, <2>5 DEF IInv
<1>6. ASSUME LoopStop PROVE IInv'
  <2> USE <1>6 DEF LoopStop
  <2>1. LiveHandshakes' = LiveHandshakes
    BY DEF LiveHandshakes
  <2>2. Counting'
    BY <2>1 DEF Counting
  <2>3. TypeOK' /\ CloserInv' /\ LoopInv' /\ RetInv'
    BY DEF TypeOK, LoopStates, HsStates, Errors, CloserInv, LoopInv, RetInv
  <2>4. ConnAll' /\ CauseAll'
    BY DEF TypeOK, ConnAll, ConnInv, CauseAll, CauseInv, InHandshakeContext, HsCtxDone
  <2>5. OwnInv' /\ EveryOpenConnOwned' /\ LogTellsPeerFailures'
    BY DEF TypeOK, HsStates, ConnAll, ConnInv, CauseAll, CauseInv, InHandshakeContext,
           OwnInv, EveryOpenConnOwned, LogTellsPeerFailures
  <2>. QED BY <2>2, <2>3, <2>4, <2>5 DEF IInv
<1>7. ASSUME LoopExit PROVE IInv'
  <2> USE <1>7 DEF LoopExit
  <2>1. LiveHandshakes' = LiveHandshakes
    BY DEF LiveHandshakes
  <2>2. Counting' /\ wg' \in Nat
    BY <2>1, LiveFinite DEF Counting, TypeOK
  <2>3. TypeOK' /\ CloserInv' /\ LoopInv' /\ RetInv'
    BY <2>2, LiveFinite DEF TypeOK, LoopStates, HsStates, Errors, Counting, CloserInv,
       LoopInv, RetInv
  <2>4. ConnAll' /\ CauseAll'
    BY DEF TypeOK, ConnAll, ConnInv, CauseAll, CauseInv, InHandshakeContext, HsCtxDone
  <2>5. OwnInv' /\ EveryOpenConnOwned' /\ LogTellsPeerFailures'
    BY DEF TypeOK, HsStates, ConnAll, ConnInv, CauseAll, CauseInv, InHandshakeContext,
           OwnInv, EveryOpenConnOwned, LogTellsPeerFailures
  <2>. QED BY <2>2, <2>3, <2>4, <2>5 DEF IInv
<1>8. ASSUME NEW c \in Conns, Timeout(c) PROVE IInv'
  <2> USE <1>8 DEF Timeout
  <2>1. LiveHandshakes' = LiveHandshakes
    BY DEF LiveHandshakes
  <2>2. Counting'
    BY <2>1 DEF Counting
  <2>3. TypeOK' /\ CloserInv' /\ LoopInv' /\ RetInv'
    BY DEF TypeOK, LoopStates, HsStates, Errors, CloserInv, LoopInv, RetInv
  <2>4. ConnAll' /\ CauseAll'
    BY DEF TypeOK, ConnAll, ConnInv, CauseAll, CauseInv, InHandshakeContext, HsCtxDone
  <2>5. OwnInv' /\ EveryOpenConnOwned' /\ LogTellsPeerFailures'
    BY DEF TypeOK, HsStates, ConnAll, ConnInv, CauseAll, CauseInv, InHandshakeContext,
           OwnInv, EveryOpenConnOwned, LogTellsPeerFailures
  <2>. QED BY <2>2, <2>3, <2>4, <2>5 DEF IInv
<1>9. ASSUME NEW c \in Conns, HandshakeSucceeds(c) PROVE IInv'
  <2> USE <1>9 DEF HandshakeSucceeds
  <2>1. LiveHandshakes' = LiveHandshakes
    BY DEF LiveHandshakes, TypeOK, HsStates
  <2>2. Counting'
    BY <2>1 DEF Counting
  <2>3. TypeOK' /\ CloserInv' /\ LoopInv' /\ RetInv'
    BY DEF TypeOK, LoopStates, HsStates, Errors, CloserInv, LoopInv, RetInv
  <2>4. ConnAll' /\ CauseAll'
    BY DEF TypeOK, ConnAll, ConnInv, CauseAll, CauseInv, InHandshakeContext, HsCtxDone
  <2>5. OwnInv' /\ EveryOpenConnOwned' /\ LogTellsPeerFailures'
    BY DEF TypeOK, HsStates, ConnAll, ConnInv, CauseAll, CauseInv, InHandshakeContext,
           OwnInv, EveryOpenConnOwned, LogTellsPeerFailures
  <2>. QED BY <2>2, <2>3, <2>4, <2>5 DEF IInv
<1>10. ASSUME NEW c \in Conns, HandshakePeerFails(c) PROVE IInv'
  <2> USE <1>10 DEF HandshakePeerFails
  <2>1. LiveHandshakes' = LiveHandshakes
    BY DEF LiveHandshakes, TypeOK, HsStates
  <2>2. Counting'
    BY <2>1 DEF Counting
  <2>3. TypeOK' /\ CloserInv' /\ LoopInv' /\ RetInv'
    BY DEF TypeOK, LoopStates, HsStates, Errors, CloserInv, LoopInv, RetInv
  <2>4. ConnAll' /\ CauseAll'
    BY DEF TypeOK, ConnAll, ConnInv, CauseAll, CauseInv, InHandshakeContext, HsCtxDone
  <2>5. OwnInv' /\ EveryOpenConnOwned' /\ LogTellsPeerFailures'
    BY DEF TypeOK, HsStates, ConnAll, ConnInv, CauseAll, CauseInv, InHandshakeContext,
           OwnInv, EveryOpenConnOwned, LogTellsPeerFailures
  <2>. QED BY <2>2, <2>3, <2>4, <2>5 DEF IInv
<1>11. ASSUME NEW c \in Conns, HandshakeCut(c) PROVE IInv'
  <2> USE <1>11 DEF HandshakeCut
  <2>1. LiveHandshakes' = LiveHandshakes
    BY DEF LiveHandshakes, TypeOK, HsStates
  <2>2. Counting'
    BY <2>1 DEF Counting
  <2>3. TypeOK' /\ CloserInv' /\ LoopInv' /\ RetInv'
    BY DEF TypeOK, LoopStates, HsStates, Errors, CloserInv, LoopInv, RetInv
  <2>4. ConnAll' /\ CauseAll'
    BY DEF TypeOK, ConnAll, ConnInv, CauseAll, CauseInv, InHandshakeContext, HsCtxDone
  <2>5. OwnInv' /\ EveryOpenConnOwned' /\ LogTellsPeerFailures'
    BY DEF TypeOK, HsStates, ConnAll, ConnInv, CauseAll, CauseInv, InHandshakeContext,
           OwnInv, EveryOpenConnOwned, LogTellsPeerFailures
  <2>. QED BY <2>2, <2>3, <2>4, <2>5 DEF IInv
<1>12. ASSUME NEW c \in Conns, Interrupt(c) PROVE IInv'
  <2> USE <1>12 DEF Interrupt
  <2>1. LiveHandshakes' = LiveHandshakes
    BY DEF LiveHandshakes
  <2>2. Counting'
    BY <2>1 DEF Counting
  <2>3. TypeOK' /\ CloserInv' /\ LoopInv' /\ RetInv'
    BY DEF TypeOK, LoopStates, HsStates, Errors, CloserInv, LoopInv, RetInv
  <2>4. ConnAll' /\ CauseAll'
    BY DEF TypeOK, ConnAll, ConnInv, CauseAll, CauseInv, InHandshakeContext, HsCtxDone
  <2>5. OwnInv' /\ EveryOpenConnOwned' /\ LogTellsPeerFailures'
    BY DEF TypeOK, HsStates, ConnAll, ConnInv, CauseAll, CauseInv, InHandshakeContext,
           OwnInv, EveryOpenConnOwned, LogTellsPeerFailures
  <2>. QED BY <2>2, <2>3, <2>4, <2>5 DEF IInv
<1>13. ASSUME NEW c \in Conns, InterruptQuiet(c) PROVE IInv'
  <2> USE <1>13 DEF InterruptQuiet
  <2>1. LiveHandshakes' = LiveHandshakes
    BY DEF LiveHandshakes
  <2>2. Counting'
    BY <2>1 DEF Counting
  <2>3. TypeOK' /\ CloserInv' /\ LoopInv' /\ RetInv'
    BY DEF TypeOK, LoopStates, HsStates, Errors, CloserInv, LoopInv, RetInv
  <2>4. ConnAll' /\ CauseAll'
    BY DEF TypeOK, ConnAll, ConnInv, CauseAll, CauseInv, InHandshakeContext, HsCtxDone
  <2>5. OwnInv' /\ EveryOpenConnOwned' /\ LogTellsPeerFailures'
    BY DEF TypeOK, HsStates, ConnAll, ConnInv, CauseAll, CauseInv, InHandshakeContext,
           OwnInv, EveryOpenConnOwned, LogTellsPeerFailures
  <2>. QED BY <2>2, <2>3, <2>4, <2>5 DEF IInv
<1>14. ASSUME NEW c \in Conns, HandshakeReturn(c) PROVE IInv'
  <2> USE <1>14 DEF HandshakeReturn
  <2>1. LiveHandshakes' = LiveHandshakes
    BY DEF LiveHandshakes, TypeOK, HsStates
  <2>2. Counting'
    BY <2>1 DEF Counting
  <2>3. TypeOK' /\ CloserInv' /\ LoopInv' /\ RetInv'
    BY DEF TypeOK, LoopStates, HsStates, Errors, CloserInv, LoopInv, RetInv
  <2>4. ConnAll' /\ CauseAll'
    BY DEF TypeOK, ConnAll, ConnInv, CauseAll, CauseInv, InHandshakeContext, HsCtxDone
  <2>5. OwnInv' /\ EveryOpenConnOwned' /\ LogTellsPeerFailures'
    BY DEF TypeOK, HsStates, ConnAll, ConnInv, CauseAll, CauseInv, InHandshakeContext,
           OwnInv, EveryOpenConnOwned, LogTellsPeerFailures
  <2>. QED BY <2>2, <2>3, <2>4, <2>5 DEF IInv
<1>15. ASSUME NEW c \in Conns, HandshakeLog(c) PROVE IInv'
  <2> USE <1>15 DEF HandshakeLog
  <2>1. LiveHandshakes' = LiveHandshakes
    BY DEF LiveHandshakes, TypeOK, HsStates
  <2>2. Counting'
    BY <2>1 DEF Counting
  <2>3. TypeOK' /\ CloserInv' /\ LoopInv' /\ RetInv'
    BY DEF TypeOK, LoopStates, HsStates, Errors, CloserInv, LoopInv, RetInv
  <2>4. ConnAll' /\ CauseAll'
    BY DEF TypeOK, ConnAll, ConnInv, CauseAll, CauseInv, InHandshakeContext, HsCtxDone
  <2>5. OwnInv' /\ EveryOpenConnOwned' /\ LogTellsPeerFailures'
    BY DEF TypeOK, HsStates, ConnAll, ConnInv, CauseAll, CauseInv, InHandshakeContext,
           OwnInv, EveryOpenConnOwned, LogTellsPeerFailures
  <2>. QED BY <2>2, <2>3, <2>4, <2>5 DEF IInv
<1>16. ASSUME NEW c \in Conns, OfferCancelled(c) PROVE IInv'
  <2> USE <1>16 DEF OfferCancelled
  <2>1. LiveHandshakes' = LiveHandshakes
    BY DEF LiveHandshakes, TypeOK, HsStates
  <2>2. Counting'
    BY <2>1 DEF Counting
  <2>3. TypeOK' /\ CloserInv' /\ LoopInv' /\ RetInv'
    BY DEF TypeOK, LoopStates, HsStates, Errors, CloserInv, LoopInv, RetInv
  <2>4. ConnAll' /\ CauseAll'
    BY DEF TypeOK, ConnAll, ConnInv, CauseAll, CauseInv, InHandshakeContext, HsCtxDone
  <2>5. OwnInv' /\ EveryOpenConnOwned' /\ LogTellsPeerFailures'
    BY DEF TypeOK, HsStates, ConnAll, ConnInv, CauseAll, CauseInv, InHandshakeContext,
           OwnInv, EveryOpenConnOwned, LogTellsPeerFailures
  <2>. QED BY <2>2, <2>3, <2>4, <2>5 DEF IInv
<1>17. ASSUME NEW c \in Conns, HandshakeDrop(c) PROVE IInv'
  <2> USE <1>17 DEF HandshakeDrop
  <2>1. LiveHandshakes' = LiveHandshakes
    BY DEF LiveHandshakes, TypeOK, HsStates
  <2>2. Counting'
    BY <2>1 DEF Counting
  <2>3. TypeOK' /\ CloserInv' /\ LoopInv' /\ RetInv'
    BY DEF TypeOK, LoopStates, HsStates, Errors, CloserInv, LoopInv, RetInv
  <2>4. ConnAll' /\ CauseAll'
    BY DEF TypeOK, ConnAll, ConnInv, CauseAll, CauseInv, InHandshakeContext, HsCtxDone
  <2>5. OwnInv' /\ EveryOpenConnOwned' /\ LogTellsPeerFailures'
    BY DEF TypeOK, HsStates, ConnAll, ConnInv, CauseAll, CauseInv, InHandshakeContext,
           OwnInv, EveryOpenConnOwned, LogTellsPeerFailures
  <2>. QED BY <2>2, <2>3, <2>4, <2>5 DEF IInv
<1>18. ASSUME NEW c \in Conns, HandshakeExit(c) PROVE IInv'
  <2> USE <1>18 DEF HandshakeExit
  <2>1. LiveHandshakes' = LiveHandshakes \ {c} /\ c \in LiveHandshakes
    BY DEF LiveHandshakes, TypeOK
  <2>7. /\ Cardinality(LiveHandshakes') = Cardinality(LiveHandshakes) - 1
         /\ Cardinality(LiveHandshakes') \in Nat
    BY <2>1, FS_RemoveElement, FS_CardinalityType, LiveFinite
  <2>2. Counting' /\ wg' \in Nat
    BY <2>7, LiveFinite DEF Counting, TypeOK
  <2>3. TypeOK' /\ CloserInv' /\ LoopInv' /\ RetInv'
    BY <2>2, LiveFinite DEF TypeOK, LoopStates, HsStates, Errors, Counting, CloserInv,
       LoopInv, RetInv
  <2>4. ConnAll' /\ CauseAll'
    BY DEF TypeOK, ConnAll, ConnInv, CauseAll, CauseInv, InHandshakeContext, HsCtxDone
  <2>5. OwnInv' /\ EveryOpenConnOwned' /\ LogTellsPeerFailures'
    BY DEF TypeOK, HsStates, ConnAll, ConnInv, CauseAll, CauseInv, InHandshakeContext,
           OwnInv, EveryOpenConnOwned, LogTellsPeerFailures
  <2>. QED BY <2>2, <2>3, <2>4, <2>5 DEF IInv
<1>19. ASSUME NEW a \in Acceptors, AcceptCall(a) PROVE IInv'
  <2> USE <1>19 DEF AcceptCall
  <2>1. LiveHandshakes' = LiveHandshakes
    BY DEF LiveHandshakes
  <2>2. Counting'
    BY <2>1 DEF Counting
  <2>3. TypeOK' /\ CloserInv' /\ LoopInv' /\ RetInv'
    BY DEF TypeOK, LoopStates, HsStates, Errors, CloserInv, LoopInv, RetInv
  <2>4. ConnAll' /\ CauseAll'
    BY DEF TypeOK, ConnAll, ConnInv, CauseAll, CauseInv, InHandshakeContext, HsCtxDone
  <2>5. OwnInv' /\ EveryOpenConnOwned' /\ LogTellsPeerFailures'
    BY DEF TypeOK, HsStates, ConnAll, ConnInv, CauseAll, CauseInv, InHandshakeContext,
           OwnInv, EveryOpenConnOwned, LogTellsPeerFailures
  <2>. QED BY <2>2, <2>3, <2>4, <2>5 DEF IInv
<1>20. ASSUME NEW a \in Acceptors, NEW c \in Conns, AcceptConn(a, c) PROVE IInv'
  <2> USE <1>20 DEF AcceptConn
  <2>1. LiveHandshakes' = LiveHandshakes
    BY DEF LiveHandshakes, TypeOK, HsStates
  <2>2. Counting'
    BY <2>1 DEF Counting
  <2>3. TypeOK' /\ CloserInv' /\ LoopInv' /\ RetInv'
    BY DEF TypeOK, LoopStates, HsStates, Errors, CloserInv, LoopInv, RetInv
  <2>4. ConnAll' /\ CauseAll'
    BY DEF TypeOK, ConnAll, ConnInv, CauseAll, CauseInv, InHandshakeContext, HsCtxDone
  <2>5. OwnInv' /\ EveryOpenConnOwned' /\ LogTellsPeerFailures'
    BY DEF TypeOK, HsStates, ConnAll, ConnInv, CauseAll, CauseInv, InHandshakeContext,
           OwnInv, EveryOpenConnOwned, LogTellsPeerFailures
  <2>. QED BY <2>2, <2>3, <2>4, <2>5 DEF IInv
<1>21. ASSUME NEW a \in Acceptors, AcceptReturn(a) PROVE IInv'
  <2> USE <1>21 DEF AcceptReturn
  <2>1. LiveHandshakes' = LiveHandshakes
    BY DEF LiveHandshakes
  <2>2. Counting'
    BY <2>1 DEF Counting
  <2>4. held[a] \in Conns /\ hs[held[a]] \in {"exiting", "exited"}
        /\ intr[held[a]] \in {"idle", "quiet"}
    BY DEF TypeOK, OwnInv
  <2>8. TypeOK'
    BY <2>4 DEF TypeOK
  <2>3. CloserInv' /\ LoopInv' /\ RetInv'
    BY DEF TypeOK, CloserInv, LoopInv, RetInv
  <2>5. ConnAll' /\ CauseAll'
    BY <2>4 DEF TypeOK, ConnAll, ConnInv, CauseAll, CauseInv, InHandshakeContext,
       HsCtxDone
  <2>6. OwnInv' /\ EveryOpenConnOwned' /\ LogTellsPeerFailures'
    BY <2>4 DEF TypeOK, HsStates, ConnAll, ConnInv, CauseAll, CauseInv,
       InHandshakeContext,
           OwnInv, EveryOpenConnOwned, LogTellsPeerFailures
  <2>. QED BY <2>2, <2>8, <2>3, <2>5, <2>6 DEF IInv
<1>22. ASSUME NEW a \in Acceptors, AcceptTempErr(a) PROVE IInv'
  <2> USE <1>22 DEF AcceptTempErr
  <2>1. LiveHandshakes' = LiveHandshakes
    BY DEF LiveHandshakes
  <2>2. Counting'
    BY <2>1 DEF Counting
  <2>3. TypeOK' /\ CloserInv' /\ LoopInv' /\ RetInv'
    BY DEF TypeOK, LoopStates, HsStates, Errors, CloserInv, LoopInv, RetInv
  <2>4. ConnAll' /\ CauseAll'
    BY DEF TypeOK, ConnAll, ConnInv, CauseAll, CauseInv, InHandshakeContext, HsCtxDone
  <2>5. OwnInv' /\ EveryOpenConnOwned' /\ LogTellsPeerFailures'
    BY DEF TypeOK, HsStates, ConnAll, ConnInv, CauseAll, CauseInv, InHandshakeContext,
           OwnInv, EveryOpenConnOwned, LogTellsPeerFailures
  <2>. QED BY <2>2, <2>3, <2>4, <2>5 DEF IInv
<1>23. ASSUME NEW a \in Acceptors, AcceptStopped(a) PROVE IInv'
  <2> USE <1>23 DEF AcceptStopped
  <2>1. LiveHandshakes' = LiveHandshakes
    BY DEF LiveHandshakes
  <2>2. Counting'
    BY <2>1 DEF Counting
  <2>3. TypeOK' /\ CloserInv' /\ LoopInv' /\ RetInv'
    BY DEF TypeOK, LoopStates, HsStates, Errors, CloserInv, LoopInv, RetInv
  <2>4. ConnAll' /\ CauseAll'
    BY DEF TypeOK, ConnAll, ConnInv, CauseAll, CauseInv, InHandshakeContext, HsCtxDone
  <2>5. OwnInv' /\ EveryOpenConnOwned' /\ LogTellsPeerFailures'
    BY DEF TypeOK, HsStates, ConnAll, ConnInv, CauseAll, CauseInv, InHandshakeContext,
           OwnInv, EveryOpenConnOwned, LogTellsPeerFailures
  <2>. QED BY <2>2, <2>3, <2>4, <2>5 DEF IInv
<1>24. ASSUME NEW k \in Closers, CloseCancel(k) PROVE IInv'
  <2> USE <1>24 DEF CloseCancel
  <2>1. LiveHandshakes' = LiveHandshakes
    BY DEF LiveHandshakes
  <2>2. Counting'
    BY <2>1 DEF Counting
  <2>3. TypeOK' /\ CloserInv' /\ LoopInv' /\ RetInv'
    BY DEF TypeOK, LoopStates, HsStates, Errors, CloserInv, LoopInv, RetInv
  <2>4. ConnAll' /\ CauseAll'
    BY DEF TypeOK, ConnAll, ConnInv, CauseAll, CauseInv, InHandshakeContext, HsCtxDone
  <2>5. OwnInv' /\ EveryOpenConnOwned' /\ LogTellsPeerFailures'
    BY DEF TypeOK, HsStates, ConnAll, ConnInv, CauseAll, CauseInv, InHandshakeContext,
           OwnInv, EveryOpenConnOwned, LogTellsPeerFailures
  <2>. QED BY <2>2, <2>3, <2>4, <2>5 DEF IInv
<1>25. ASSUME NEW k \in Closers, CloseInner(k) PROVE IInv'
  <2> USE <1>25 DEF CloseInner
  <2>1. LiveHandshakes' = LiveHandshakes
    BY DEF LiveHandshakes
  <2>2. Counting'
    BY <2>1 DEF Counting
  <2>3. TypeOK' /\ CloserInv' /\ LoopInv' /\ RetInv'
    BY DEF TypeOK, LoopStates, HsStates, Errors, CloserInv, LoopInv, RetInv
  <2>4. ConnAll' /\ CauseAll'
    BY DEF TypeOK, ConnAll, ConnInv, CauseAll, CauseInv, InHandshakeContext, HsCtxDone
  <2>5. OwnInv' /\ EveryOpenConnOwned' /\ LogTellsPeerFailures'
    BY DEF TypeOK, HsStates, ConnAll, ConnInv, CauseAll, CauseInv, InHandshakeContext,
           OwnInv, EveryOpenConnOwned, LogTellsPeerFailures
  <2>. QED BY <2>2, <2>3, <2>4, <2>5 DEF IInv
<1>26. ASSUME NEW k \in Closers, CloseReturn(k) PROVE IInv'
  <2> USE <1>26 DEF CloseReturn
  <2>1. LiveHandshakes' = LiveHandshakes
    BY DEF LiveHandshakes
  <2>2. Counting'
    BY <2>1 DEF Counting
  <2>3. TypeOK' /\ CloserInv' /\ LoopInv' /\ RetInv'
    BY DEF TypeOK, LoopStates, HsStates, Errors, CloserInv, LoopInv, RetInv
  <2>4. ConnAll' /\ CauseAll'
    BY DEF TypeOK, ConnAll, ConnInv, CauseAll, CauseInv, InHandshakeContext, HsCtxDone
  <2>5. OwnInv' /\ EveryOpenConnOwned' /\ LogTellsPeerFailures'
    BY DEF TypeOK, HsStates, ConnAll, ConnInv, CauseAll, CauseInv, InHandshakeContext,
           OwnInv, EveryOpenConnOwned, LogTellsPeerFailures
  <2>. QED BY <2>2, <2>3, <2>4, <2>5 DEF IInv
<1>27. CASE UNCHANGED vars
  BY <1>27 DEF vars, Counting, LiveHandshakes, TypeOK, CloserInv, LoopInv, RetInv,
     ConnAll, ConnInv, CauseAll, CauseInv, InHandshakeContext, OwnInv,
     EveryOpenConnOwned, LogTellsPeerFailures
<1>. QED
  BY <1>1, <1>2, <1>3, <1>4, <1>5, <1>6, <1>7, <1>8, <1>9, <1>10, <1>11, <1>12,
     <1>13, <1>14, <1>15, <1>16, <1>17, <1>18, <1>19, <1>20, <1>21, <1>22, <1>23,
     <1>24, <1>25, <1>26, <1>27
  DEF Next, Environment, LoopStep, HandshakeStep, InterrupterStep, AcceptStep

\* IInv holds of every reachable state of the listener.
THEOREM ListenerInductive == Spec => []IInv
  BY InitIInv, NextIInv, PTL DEF Spec

--------------------------------------------------------------------------------
\* Every variable of the listener keeps its type; in particular the WaitGroup
\* counter never goes negative, where Go's WaitGroup panics.
THEOREM ListenerTypeCorrect == Spec => []TypeOK
<1>1. IInv => TypeOK
  BY DEF IInv
<1>. QED BY <1>1, ListenerInductive, PTL

\* What Accept returned stays open: no goroutine of the listener can close it.
THEOREM ListenerHandedIsUsable == Spec => []HandedIsUsable
<1>1. IInv => HandedIsUsable
  BY ListenerAssumption DEF IInv, OwnInv, HandedIsUsable, TypeOK
<1>. QED BY <1>1, ListenerInductive, PTL

\* Close's return means the listener's goroutines have all exited.
THEOREM ListenerCloseLeavesNothing == Spec => []CloseLeavesNothing
<1>1. IInv => CloseLeavesNothing
  <2> SUFFICES ASSUME IInv, NEW k \in Closers, closer[k] = "returned"
               PROVE  /\ loop = "exited" /\ LiveHandshakes = {}
                      /\ \A c \in Conns : intr[c] # "watch"
                      /\ \A c \in Conns : raw[c] = "open" =>
                            c \in handed \/ \E a \in Acceptors : held[a] = c
    BY DEF CloseLeavesNothing
  <2>1. wg = 0
    BY DEF IInv, CloserInv
  <2>2. loop = "exited" /\ Cardinality(LiveHandshakes) = 0
    BY <2>1, LiveFinite DEF IInv, Counting
  <2>3. LiveHandshakes = {}
    BY <2>2, LiveFinite, FS_EmptySet
  <2>4. \A c \in Conns : hs[c] \in {"none", "exited"}
    BY <2>3 DEF LiveHandshakes
  <2>. QED
    BY <2>2, <2>3, <2>4
    DEF IInv, ConnAll, ConnInv, InHandshakeContext, EveryOpenConnOwned
<1>. QED BY <1>1, ListenerInductive, PTL

\* No connection is leaked on any path of any number of connections.
THEOREM ListenerEveryOpenConnOwned == Spec => []EveryOpenConnOwned
<1>1. IInv => EveryOpenConnOwned
  BY DEF IInv
<1>. QED BY <1>1, ListenerInductive, PTL

\* The error a stopped listener keeps returning is never a temporary one.
THEOREM ListenerTerminalErrorIsFinal == Spec => []TerminalErrorIsFinal
<1>1. IInv => TerminalErrorIsFinal
  BY DEF IInv, LoopInv, RetInv, TerminalErrorIsFinal
<1>. QED BY <1>1, ListenerInductive, PTL

\* The log blames a peer exactly for the handshakes its peer or its timeout ended.
THEOREM ListenerLogTellsPeerFailures == Spec => []LogTellsPeerFailures
<1>1. IInv => LogTellsPeerFailures
  BY DEF IInv
<1>. QED BY <1>1, ListenerInductive, PTL

\* No step of the listener hands out a connection after Close.
THEOREM ListenerNoHandOutAfterClose == Spec => NoHandOutAfterClose
<1>1. [Next]_vars => [ctxDone => handed' = handed]_vars
  BY DEF Next, Environment, LoopStep, HandshakeStep, InterrupterStep, AcceptStep,
     LoopAccept, LoopError, LoopCheck, LoopCancelled, LoopRecord, LoopStop, LoopExit,
     Timeout, HandshakeSucceeds, HandshakePeerFails, HandshakeCut, Interrupt,
     InterruptQuiet, HandshakeReturn, HandshakeLog, OfferCancelled, HandshakeDrop,
     HandshakeExit, AcceptCall, AcceptConn, AcceptReturn, AcceptTempErr,
     AcceptStopped, CloseCancel, CloseInner, CloseReturn, vars, accVars
<1>. QED BY <1>1, PTL DEF Spec, NoHandOutAfterClose

--------------------------------------------------------------------------------
\* A step that touches neither the context, nor what decides a connection's
\* abstract status, is a stutter of NetListener.
LEMMA StatusStutter ==
    ASSUME UNCHANGED <<ctxDone, hs, raw, handed>>
    PROVE  UNCHANGED NL!lvars
  BY DEF NL!lvars, connStatus

\* A step that moves one connection's status, and nothing else abstract.
LEMMA StatusMove ==
    ASSUME NEW c \in Conns, NEW s, UNCHANGED ctxDone,
           \A d \in Conns \ {c} : UNCHANGED <<hs[d], raw[d], d \in handed>>,
           connStatus'[c] = s,
           \/ connStatus[c] = "new" /\ s = "pending"
           \/ connStatus[c] = "pending" /\ s = "dropped"
           \/ connStatus[c] = "pending" /\ s = "delivered" /\ ~ctxDone
    PROVE  NL!Next
<1>1. \A d \in Conns \ {c} : connStatus'[d] = connStatus[d]
  BY DEF connStatus
<1>2. connStatus' = [connStatus EXCEPT ![c] = s]
  BY <1>1 DEF connStatus
<1>. QED BY <1>2 DEF NL!Next, NL!Arrive, NL!Deliver, NL!Drop

\* The wrapped listener implements NetListener: each arriving connection is
\* delivered once, before Close, or dropped, never both.
THEOREM ListenerImplements == Spec => ImplementsNetListener
<1>1. Init => NL!Init
  BY DEF Init, NL!Init, connStatus
<1>2. ASSUME IInv, [Next]_vars PROVE [NL!Next]_(NL!lvars)
  <2> USE ListenerAssumption, <1>2 DEF IInv, loopVars, connVars, accVars
  <2> DEFINE Goal == [NL!Next]_(NL!lvars)
  <2>1. ASSUME NEW c \in Conns, LoopAccept(c) PROVE Goal
    <3>1. connStatus[c] = "new" /\ connStatus'[c] = "pending"
      BY <2>1 DEF LoopAccept, connStatus, TypeOK, OwnInv
    <3>. QED BY <3>1, <2>1, StatusMove DEF LoopAccept, TypeOK
  <2>2. ASSUME NEW c \in Conns, Interrupt(c) PROVE Goal
    <3>1. connStatus[c] = "pending" /\ connStatus'[c] = "dropped"
      BY <2>2 DEF Interrupt, connStatus, TypeOK, ConnAll, ConnInv, OwnInv,
         InHandshakeContext
    <3>. QED BY <3>1, <2>2, StatusMove DEF Interrupt, TypeOK
  <2>3. ASSUME NEW c \in Conns, HandshakeDrop(c) PROVE Goal
    <3>1. CASE raw[c] = "open"
      <4>1. connStatus[c] = "pending" /\ connStatus'[c] = "dropped"
        BY <2>3, <3>1 DEF HandshakeDrop, connStatus, TypeOK, OwnInv
      <4>. QED BY <4>1, <2>3, StatusMove DEF HandshakeDrop, TypeOK
    <3>2. CASE raw[c] # "open"
      <4>1. connStatus' = connStatus
        BY <2>3, <3>2 DEF HandshakeDrop, connStatus, TypeOK, ConnAll, ConnInv
      <4>. QED BY <4>1, <2>3 DEF HandshakeDrop, NL!lvars
    <3>. QED BY <3>1, <3>2
  <2>4. ASSUME NEW a \in Acceptors, AcceptReturn(a) PROVE Goal
    <3>1. /\ held[a] \in Conns /\ held[a] \notin handed
          /\ hs[held[a]] \in {"exiting", "exited"} /\ raw[held[a]] = "open"
      BY <2>4 DEF AcceptReturn, TypeOK, OwnInv
    <3>2. CASE ctxDone
      <4>1. /\ connStatus[held[a]] = "pending"
            /\ connStatus'[held[a]] = "dropped"
        BY <2>4, <3>1, <3>2 DEF AcceptReturn, connStatus, TypeOK
      <4>. QED BY <4>1, <3>1, <2>4, StatusMove DEF AcceptReturn, TypeOK
    <3>3. CASE ~ctxDone
      <4>1. /\ connStatus[held[a]] = "pending"
            /\ connStatus'[held[a]] = "delivered"
        BY <2>4, <3>1, <3>3 DEF AcceptReturn, connStatus, TypeOK
      <4>. QED BY <4>1, <3>1, <3>3, <2>4, StatusMove DEF AcceptReturn, TypeOK
    <3>. QED BY <3>2, <3>3
  <2>5. ASSUME NEW k \in Closers, CloseCancel(k) PROVE Goal
    <3>1. connStatus' = connStatus
      BY <2>5 DEF CloseCancel, connStatus
    <3>. QED BY <3>1, <2>5 DEF CloseCancel, NL!Next, NL!Close, NL!lvars, TypeOK
  <2>6. ASSUME NEW c \in Conns,
               \/ HandshakeSucceeds(c) \/ HandshakePeerFails(c) \/ HandshakeCut(c)
               \/ HandshakeReturn(c) \/ HandshakeLog(c) \/ OfferCancelled(c)
               \/ HandshakeExit(c) \/ \E a \in Acceptors : AcceptConn(a, c)
        PROVE Goal
    <3>1. connStatus' = connStatus /\ UNCHANGED ctxDone
      BY <2>6 DEF HandshakeSucceeds, HandshakePeerFails, HandshakeCut, HandshakeReturn,
         HandshakeLog, OfferCancelled, HandshakeExit, AcceptConn, connStatus, TypeOK
    <3>. QED BY <3>1 DEF NL!lvars
  <2>7. ASSUME \/ UNCHANGED vars \/ LoopStep
               \/ \E e \in {"temporary", "permanent", "closed"} : LoopError(e)
               \/ \E c \in Conns : Timeout(c) \/ InterruptQuiet(c)
               \/ \E a \in Acceptors : AcceptCall(a) \/ AcceptTempErr(a) \/ AcceptStopped(a)
               \/ \E k \in Closers : CloseInner(k) \/ CloseReturn(k)
        PROVE Goal
    <3>1. UNCHANGED <<ctxDone, hs, raw, handed>>
      BY <2>7 DEF vars, LoopStep, LoopCheck, LoopCancelled, LoopRecord, LoopStop,
         LoopExit, LoopError, Timeout, InterruptQuiet, AcceptCall, AcceptTempErr,
         AcceptStopped, CloseInner, CloseReturn
    <3>. QED BY <3>1, StatusStutter
  <2>. QED
    BY <2>1, <2>2, <2>3, <2>4, <2>5, <2>6, <2>7
    DEF Next, Environment, HandshakeStep, InterrupterStep, AcceptStep
<1>. QED BY <1>1, <1>2, ListenerInductive, PTL DEF Spec, ImplementsNetListener, NL!Spec
================================================================================
