--------------------------------- MODULE TLSConn ---------------------------------
(***************************************************************************)
(* One gotls.Conn (pkg/sep2tls/gotls/conn.go) used by several goroutines:  *)
(* Read, Write, Close and CloseWrite over one raw connection, with the     *)
(* implicit handshake, the three mutexes (handshakeMutex, in, out), the    *)
(* activeCall interlock, permanent errors and write deadlines.  TLS 1.2,   *)
(* renegotiation refused, as the CCM configurations have it.               *)
(*                                                                         *)
(* A raw write may block for as long as the peer does not read.  Records   *)
(* from the peer are kinds: what readRecordOrCCS tells apart.  A Read is   *)
(* called with a buffer of any length, shorter than a data record too.     *)
(*                                                                         *)
(* Assumed of the callers: nobody sets a write deadline (SetDeadline,      *)
(* SetWriteDeadline), so that only closeNotify moves it.  net/http does so *)
(* only for a server with a WriteTimeout, which the receiver has not.      *)
(***************************************************************************)
EXTENDS Naturals, Sequences, FiniteSets

CONSTANTS
    Readers, Writers, Closers, Shutters,
                      \* goroutines calling Read, Write, Close and CloseWrite
    Records,          \* records one Write needs
    Size,             \* bytes of a data record from the peer
    MaxInbox,         \* bound: records the peer sends
    MaxUseless,       \* maxUselessRecords
    Free              \* an unlocked mutex

Actors == Readers \cup Writers \cup Closers \cup Shutters

\* data: application data; empty: an empty data record; warn: a warning alert;
\* close: close_notify; fatal: a fatal alert; hello: a HelloRequest; bad: a
\* record that is refused with an alert (MAC, version, size, type, CCS).
Kinds == {"data", "empty", "warn", "close", "fatal", "hello", "bad"}
Alerts == {"warn", "close", "fatal"}

ASSUME ConnAssumption ==
    /\ Records \in Nat \ {0} /\ Size \in Nat \ {0} /\ MaxInbox \in Nat /\ MaxUseless \in Nat
    /\ Free \notin Actors /\ IsFiniteSet(Writers)
    /\ Readers \cap Writers = {} /\ (Readers \cup Writers) \cap (Closers \cup Shutters) = {}
    /\ Closers \cap Shutters = {}

VARIABLES
    pc,               \* where each goroutine is
    hsMu, inMu, outMu,\* handshakeMutex, c.in and c.out: their holders
    hsDone, hsErr,    \* isHandshakeComplete, handshakeErr # nil
    writing, closed,  \* activeCall: calls inside Write, and the Close bit
    rawOpen, deadline,\* the raw connection; its write deadline
    outErr, notifySent,
                      \* c.out.err # nil, closeNotifySent
    wire,             \* records written to the raw connection: <<actor, what>>
    left,             \* records each Write still has to write
    inbox, sent, peerEOF,
                      \* records in flight from the peer, how many it sent,
                      \* and whether it has closed its side
    inErr,            \* c.in.err
    input, hand,      \* c.input, c.hand: data bytes, handshake messages not consumed
    retryCount,
    useless,          \* history: useless records consumed in a row
    got               \* history: bytes of data returned by Read, and received

lockVars == <<hsMu, inMu, outMu>>
hsVars   == <<hsDone, hsErr>>
callVars == <<writing, closed>>
rawVars  == <<rawOpen, deadline>>
outVars  == <<outErr, notifySent, wire, left>>
peerVars == <<inbox, sent, peerEOF>>
inVars   == <<inErr, input, hand, retryCount, useless, got>>
vars == <<pc, lockVars, hsVars, callVars, rawVars, outVars, peerVars, inVars>>

CallType ==
    /\ pc \in [Actors -> {"idle", "hs", "hsLock", "hsCheck", "hsRun", "inLock", "loop",
                          "record", "post", "look", "lookRecord", "alertLock", "alert",
                          "refuseLock", "refuse", "check", "outLock", "write", "notify",
                          "raw", "done"}]
    /\ hsMu \in Actors \cup {Free} /\ inMu \in Actors \cup {Free}
    /\ outMu \in Actors \cup {Free}
    /\ writing \in 0 .. Cardinality(Writers)

FlagType ==
    /\ hsDone \in BOOLEAN /\ hsErr \in BOOLEAN /\ closed \in BOOLEAN
    /\ rawOpen \in BOOLEAN /\ outErr \in BOOLEAN /\ notifySent \in BOOLEAN
    /\ peerEOF \in BOOLEAN

OutType ==
    /\ deadline \in {"none", "soon", "past"}
    /\ wire \in Seq(Actors \X {"data", "alert", "close"})
    /\ left \in [Writers -> 0 .. Records]

InType ==
    /\ inbox \in Seq(Kinds) /\ sent \in 0 .. MaxInbox
    /\ inErr \in {"none", "eof", "err"}
    /\ input \in 0 .. Size /\ hand \in 0 .. MaxInbox
    /\ retryCount \in 0 .. MaxUseless + 1 /\ useless \in 0 .. MaxInbox
    /\ got \in [returned : Nat, received : Nat]

\* Every variable has its type.
TypeOK == CallType /\ FlagType /\ OutType /\ InType

Init ==
    /\ pc = [a \in Actors |-> "idle"]
    /\ hsMu = Free /\ inMu = Free /\ outMu = Free
    /\ hsDone = FALSE /\ hsErr = FALSE
    /\ writing = 0 /\ closed = FALSE
    /\ rawOpen = TRUE /\ deadline = "none"
    /\ outErr = FALSE /\ notifySent = FALSE
    /\ wire = <<>> /\ left = [w \in Writers |-> 0]
    /\ inbox = <<>> /\ sent = 0 /\ peerEOF = FALSE
    /\ inErr = "none" /\ input = 0 /\ hand = 0
    /\ retryCount = 0 /\ useless = 0
    /\ got = [returned |-> 0, received |-> 0]

Go(a, from, to) == pc[a] = from /\ pc' = [pc EXCEPT ![a] = to]
\* Writers and closers call once; a reader reads again and again.
Ended(a) == IF a \in Readers THEN "idle" ELSE "done"

--------------------------------------------------------------------------------
(* Handshake, called first by every Read and Write *)

\* What a caller does once the handshake is complete.
AfterHandshake(a) == IF a \in Readers THEN "inLock" ELSE "outLock"

LeaveWrite(a) == writing' = IF a \in Writers THEN writing - 1 ELSE writing

\* The atomic fast path; another caller may complete the handshake between it
\* and the lock.
HandshakeFast(a) ==
    /\ Go(a, "hs", IF hsDone THEN AfterHandshake(a) ELSE "hsLock")
    /\ UNCHANGED <<lockVars, hsVars, callVars, rawVars, outVars, peerVars, inVars>>

HandshakeLock(a) ==
    /\ hsMu = Free /\ hsMu' = a /\ Go(a, "hsLock", "hsCheck")
    /\ UNCHANGED <<inMu, outMu, hsVars, callVars, rawVars, outVars, peerVars, inVars>>

\* Mutant: the caller that finds an earlier failure keeps handshakeMutex.
HandshakeCheckKeepsLock(a) ==
    /\ \/ /\ hsErr /\ hsMu' = hsMu /\ inMu' = inMu
          /\ Go(a, "hsCheck", Ended(a)) /\ LeaveWrite(a)
       \/ /\ ~hsErr /\ hsDone /\ hsMu' = Free /\ inMu' = inMu
          /\ Go(a, "hsCheck", AfterHandshake(a)) /\ writing' = writing
       \/ /\ ~hsErr /\ ~hsDone /\ inMu = Free /\ inMu' = a /\ hsMu' = hsMu
          /\ Go(a, "hsCheck", "hsRun") /\ writing' = writing
    /\ UNCHANGED <<outMu, hsVars, closed, rawVars, outVars, peerVars, inVars>>

\* Under handshakeMutex: an earlier failure is final, an earlier success is used,
\* else this caller runs the handshake, holding c.in.
HandshakeCheck(a) ==
    /\ \/ /\ hsErr /\ hsMu' = Free /\ inMu' = inMu
          /\ Go(a, "hsCheck", Ended(a)) /\ LeaveWrite(a)
       \/ /\ ~hsErr /\ hsDone /\ hsMu' = Free /\ inMu' = inMu
          /\ Go(a, "hsCheck", AfterHandshake(a)) /\ writing' = writing
       \/ /\ ~hsErr /\ ~hsDone /\ inMu = Free /\ inMu' = a /\ hsMu' = hsMu
          /\ Go(a, "hsCheck", "hsRun") /\ writing' = writing
    /\ UNCHANGED <<outMu, hsVars, closed, rawVars, outVars, peerVars, inVars>>

\* handshakeFn: it fails on a closed connection and may fail on an open one.
HandshakeRun(a) ==
    /\ \/ /\ rawOpen /\ hsDone' = TRUE /\ hsErr' = hsErr
          /\ Go(a, "hsRun", AfterHandshake(a)) /\ writing' = writing
       \/ /\ hsErr' = TRUE /\ UNCHANGED hsDone
          /\ Go(a, "hsRun", Ended(a)) /\ LeaveWrite(a)
    /\ hsMu' = Free /\ inMu' = Free
    /\ UNCHANGED <<outMu, closed, rawVars, outVars, peerVars, inVars>>

--------------------------------------------------------------------------------
(* The peer (environment) *)

PeerSends(k) ==
    /\ hsDone /\ ~peerEOF /\ sent < MaxInbox
    /\ inbox' = Append(inbox, k) /\ sent' = sent + 1
    /\ UNCHANGED <<pc, lockVars, hsVars, callVars, rawVars, outVars, peerEOF, inVars>>

PeerCloses ==
    /\ hsDone /\ ~peerEOF
    /\ peerEOF' = TRUE
    /\ UNCHANGED <<pc, lockVars, hsVars, callVars, rawVars, outVars, inbox, sent, inVars>>

--------------------------------------------------------------------------------
(* Read *)

ReadCall(r) ==
    /\ Go(r, "idle", "hs")
    /\ UNCHANGED <<lockVars, hsVars, callVars, rawVars, outVars, peerVars, inVars>>

\* A Read with an empty buffer is called for its handshake only.
ReadNothing(r) ==
    /\ Go(r, "inLock", "idle")
    /\ UNCHANGED <<lockVars, hsVars, callVars, rawVars, outVars, peerVars, inVars>>

ReadLock(r) ==
    /\ inMu = Free /\ inMu' = r /\ Go(r, "inLock", "loop")
    /\ UNCHANGED <<hsMu, outMu, hsVars, callVars, rawVars, outVars, peerVars, inVars>>

\* `for c.input.Len() == 0`: read a record, or copy out as much of the data as a
\* buffer of n bytes takes.
ReadLoop(r) ==
    /\ \/ input = 0 /\ Go(r, "loop", "record") /\ UNCHANGED <<input, got>>
       \/ \E n \in 1 .. input :
            /\ Go(r, "loop", "look")
            /\ input' = input - n /\ got' = [got EXCEPT !.returned = @ + n]
    /\ UNCHANGED <<lockVars, hsVars, callVars, rawVars, outVars, peerVars, inErr, hand,
                   retryCount, useless>>

\* Mutant: the look ahead does not ask whether the record was copied out whole.
ReadLookEager(r) ==
    /\ \/ /\ inbox # <<>> /\ Head(inbox) \in Alerts
          /\ Go(r, "look", "lookRecord") /\ inMu' = inMu
       \/ Go(r, "look", "idle") /\ inMu' = Free
    /\ UNCHANGED <<hsMu, outMu, hsVars, callVars, rawVars, outVars, peerVars, inVars>>

\* After the last of the data, an alert that has already arrived is consumed, so
\* that a close_notify is reported with it.
ReadLook(r) ==
    /\ \/ /\ input = 0 /\ inbox # <<>> /\ Head(inbox) \in Alerts
          /\ Go(r, "look", "lookRecord") /\ inMu' = inMu
       \/ Go(r, "look", "idle") /\ inMu' = Free
    /\ UNCHANGED <<hsMu, outMu, hsVars, callVars, rawVars, outVars, peerVars, inVars>>

\* readRecord, pc "record" or "lookRecord": the error it returns ends Read.
ReadReturn(r) == pc' = [pc EXCEPT ![r] = "idle"] /\ inMu' = Free

Reading(r) == pc[r] \in {"record", "lookRecord"}

\* `c.in.err != nil`, then the raw read, whose error is permanent unless it is
\* temporary, as a passed deadline is.
RecordFails(r) ==
    /\ Reading(r)
    /\ \/ inErr # "none" /\ inErr' = inErr
       \/ inErr = "none" /\ ~rawOpen /\ inErr' = "err"
       \/ inErr = "none" /\ inbox = <<>> /\ peerEOF /\ inErr' = "eof"
       \/ inErr = "none" /\ inbox = <<>> /\ inErr' = inErr   \* a read deadline
    /\ ReadReturn(r)
    /\ UNCHANGED <<hsMu, outMu, hsVars, callVars, rawVars, outVars, peerVars, input, hand,
                   retryCount, useless, got>>

\* A record is there, on the wire or already in rawInput.
TakeRecord(r) ==
    /\ Reading(r) /\ inErr = "none" /\ inbox # <<>>
    /\ inbox' = Tail(inbox)

\* Application data, which replaces c.input, or a handshake record: the retry
\* count starts again.
RecordAdvances(r) ==
    /\ TakeRecord(r) /\ Head(inbox) \in {"data", "hello"}
    /\ retryCount' = 0 /\ useless' = 0
    /\ \/ /\ Head(inbox) = "data" /\ input' = Size /\ hand' = hand
          /\ got' = [got EXCEPT !.received = @ + Size]
       \/ Head(inbox) = "hello" /\ hand' = hand + 1 /\ UNCHANGED <<input, got>>
    /\ IF pc[r] = "lookRecord" THEN ReadReturn(r)
       ELSE pc' = [pc EXCEPT ![r] = "post"] /\ inMu' = inMu
    /\ UNCHANGED <<hsMu, outMu, hsVars, callVars, rawVars, outVars, sent, peerEOF, inErr>>

\* `for c.hand.Len() > 0`: TLS 1.2 renegotiation, refused below.
ReadPost(r) ==
    /\ IF hand > 0 THEN Go(r, "post", "refuseLock") ELSE Go(r, "post", "loop")
    /\ UNCHANGED <<lockVars, hsVars, callVars, rawVars, outVars, peerVars, inVars>>

\* Mutant: useless records are dropped without counting.
RecordRetriesUncounted(r) ==
    /\ TakeRecord(r) /\ Head(inbox) \in {"empty", "warn"}
    /\ useless' = useless + 1
    /\ UNCHANGED <<pc, retryCount, lockVars, hsVars, callVars, rawVars, outVars, sent,
                   peerEOF, inErr, input, hand, got>>

\* retryReadRecord: a useless record is dropped, too many are an error.
RecordRetries(r) ==
    /\ TakeRecord(r) /\ Head(inbox) \in {"empty", "warn"}
    /\ retryCount' = retryCount + 1 /\ useless' = useless + 1
    /\ pc' = IF retryCount + 1 > MaxUseless THEN [pc EXCEPT ![r] = "alertLock"] ELSE pc
    /\ UNCHANGED <<lockVars, hsVars, callVars, rawVars, outVars, sent, peerEOF, inErr,
                   input, hand, got>>

\* close_notify is EOF, a fatal alert an error; both are permanent.
RecordEnds(r) ==
    /\ TakeRecord(r) /\ Head(inbox) \in {"close", "fatal"}
    /\ inErr' = IF Head(inbox) = "close" THEN "eof" ELSE "err"
    /\ ReadReturn(r)
    /\ UNCHANGED <<hsMu, outMu, hsVars, callVars, rawVars, outVars, sent, peerEOF, input,
                   hand, retryCount, useless, got>>

\* Every other record is answered with a fatal alert.
RecordRefused(r) ==
    /\ TakeRecord(r) /\ Head(inbox) = "bad"
    /\ pc' = [pc EXCEPT ![r] = "alertLock"]
    /\ UNCHANGED <<lockVars, hsVars, callVars, rawVars, outVars, sent, peerEOF, inVars>>

\* sendAlert takes c.out while Read holds c.in.
AlertLock(r) ==
    /\ outMu = Free /\ outMu' = r
    /\ Go(r, "alertLock", "alert") \/ Go(r, "refuseLock", "refuse")
    /\ UNCHANGED <<hsMu, inMu, hsVars, callVars, rawVars, outVars, peerVars, inVars>>

--------------------------------------------------------------------------------
(* Raw writes: they succeed only while the peer reads, and fail on a closed    *)
(* connection or past a deadline                                               *)

RawWrites(a, what) ==
    /\ rawOpen /\ deadline # "past"
    /\ wire' = Append(wire, <<a, what>>)

RawFails == (~rawOpen \/ deadline # "none") /\ wire' = wire

\* sendAlertLocked: whatever the write did, c.out is broken from now on.  For a
\* refused record c.in is broken too; for a refused renegotiation it is not.
AlertSent(r) ==
    /\ pc[r] \in {"alert", "refuse"}
    /\ RawWrites(r, "alert") \/ RawFails
    /\ outErr' = TRUE /\ outMu' = Free
    /\ \/ pc[r] = "alert" /\ inErr' = "err" /\ hand' = hand
       \/ pc[r] = "refuse" /\ inErr' = inErr /\ hand' = hand - 1
    /\ ReadReturn(r)
    /\ UNCHANGED <<hsMu, hsVars, callVars, rawVars, notifySent, left, peerVars, input,
                   retryCount, useless, got>>

--------------------------------------------------------------------------------
(* Write *)

\* The activeCall interlock: refused after Close, else counted.
WriteCall(w) ==
    /\ \/ closed /\ Go(w, "idle", "done") /\ UNCHANGED <<writing, left>>
       \/ /\ ~closed /\ Go(w, "idle", "hs") /\ writing' = writing + 1
          /\ left' = [left EXCEPT ![w] = Records]
    /\ UNCHANGED <<lockVars, hsVars, closed, rawVars, outErr, notifySent, wire, peerVars,
                   inVars>>

\* Under c.out: not after an error, not after close_notify.
WriteLock(w) ==
    /\ w \in Writers /\ outMu = Free
    /\ \/ /\ outErr \/ notifySent
          /\ Go(w, "outLock", "done") /\ outMu' = outMu /\ LeaveWrite(w)
       \/ /\ ~outErr /\ ~notifySent
          /\ Go(w, "outLock", "write") /\ outMu' = w /\ writing' = writing
    /\ UNCHANGED <<hsMu, inMu, hsVars, closed, rawVars, outVars, peerVars, inVars>>

\* Mutant: c.out is released between two records of one Write.
WriteRecordUnlocking(w) ==
    /\ pc[w] = "write" /\ RawWrites(w, "data")
    /\ left' = [left EXCEPT ![w] = @ - 1]
    /\ outMu' = Free
    /\ \/ left[w] = 1 /\ Go(w, "write", "done") /\ LeaveWrite(w)
       \/ left[w] > 1 /\ Go(w, "write", "outLock") /\ writing' = writing
    /\ UNCHANGED <<hsMu, inMu, hsVars, closed, rawVars, outErr, notifySent, peerVars,
                   inVars>>

\* writeRecordLocked: one record after another, c.out held throughout.
WriteRecord(w) ==
    /\ pc[w] = "write" /\ RawWrites(w, "data")
    /\ left' = [left EXCEPT ![w] = @ - 1]
    /\ \/ left[w] = 1 /\ Go(w, "write", "done") /\ outMu' = Free /\ LeaveWrite(w)
       \/ left[w] > 1 /\ UNCHANGED <<pc, outMu, writing>>
    /\ UNCHANGED <<hsMu, inMu, hsVars, closed, rawVars, outErr, notifySent, peerVars,
                   inVars>>

WriteFails(w) ==
    /\ Go(w, "write", "done") /\ RawFails
    /\ outErr' = TRUE /\ outMu' = Free /\ LeaveWrite(w)
    /\ UNCHANGED <<hsMu, inMu, hsVars, closed, rawVars, notifySent, left, peerVars, inVars>>

--------------------------------------------------------------------------------
(* Close and CloseWrite *)

\* Mutant: Close sends close_notify even with a Write in flight.
CloseCallPatient(k) ==
    /\ \/ closed /\ Go(k, "idle", "done") /\ closed' = closed
       \/ ~closed /\ Go(k, "idle", "check") /\ closed' = TRUE
    /\ UNCHANGED <<lockVars, hsVars, writing, rawVars, outVars, peerVars, inVars>>

\* The other side of the interlock: a Write in flight is only to be broken.
CloseCall(k) ==
    /\ \/ closed /\ Go(k, "idle", "done") /\ closed' = closed
       \/ ~closed /\ writing > 0 /\ Go(k, "idle", "raw") /\ closed' = TRUE
       \/ ~closed /\ writing = 0 /\ Go(k, "idle", "check") /\ closed' = TRUE
    /\ UNCHANGED <<lockVars, hsVars, writing, rawVars, outVars, peerVars, inVars>>

\* No Write in flight: close_notify first, if the handshake is complete.
CloseCheck(k) ==
    /\ Go(k, "check", IF hsDone THEN "outLock" ELSE "raw")
    /\ UNCHANGED <<lockVars, hsVars, callVars, rawVars, outVars, peerVars, inVars>>

CloseWriteCall(k) ==
    /\ Go(k, "idle", IF hsDone THEN "outLock" ELSE "done")
    /\ UNCHANGED <<lockVars, hsVars, callVars, rawVars, outVars, peerVars, inVars>>

AfterNotify(k) == IF k \in Closers THEN "raw" ELSE "done"

\* closeNotify under c.out: once, with a deadline.
NotifyLock(k) ==
    /\ k \notin Writers /\ outMu = Free
    /\ \/ notifySent /\ Go(k, "outLock", AfterNotify(k)) /\ UNCHANGED <<outMu, deadline>>
       \/ ~notifySent /\ Go(k, "outLock", "notify") /\ outMu' = k /\ deadline' = "soon"
    /\ UNCHANGED <<hsMu, inMu, hsVars, callVars, rawOpen, outVars, peerVars, inVars>>

\* Mutant: the deadline that makes later writes fail is not set.
NotifySentLate(k) ==
    /\ Go(k, "notify", AfterNotify(k))
    /\ RawWrites(k, "close") \/ RawFails
    /\ notifySent' = TRUE /\ deadline' = "none" /\ outMu' = Free
    /\ UNCHANGED <<hsMu, inMu, hsVars, callVars, rawOpen, outErr, left, peerVars, inVars>>

\* The alert is written or its 5 s pass; "any subsequent writes will fail".
NotifySent(k) ==
    /\ Go(k, "notify", AfterNotify(k))
    /\ RawWrites(k, "close") \/ RawFails
    /\ notifySent' = TRUE /\ deadline' = "past" /\ outMu' = Free
    /\ UNCHANGED <<hsMu, inMu, hsVars, callVars, rawOpen, outErr, left, peerVars, inVars>>

CloseRaw(k) ==
    /\ Go(k, "raw", "done") /\ rawOpen' = FALSE
    /\ UNCHANGED <<lockVars, hsVars, callVars, deadline, outVars, peerVars, inVars>>

--------------------------------------------------------------------------------
HandshakeStep(a) == HandshakeFast(a) \/ HandshakeLock(a) \/ HandshakeCheck(a)

ReadStep(r) ==
    \/ ReadLock(r) \/ ReadLoop(r) \/ ReadLook(r) \/ ReadPost(r) \/ AlertLock(r)
    \/ RecordAdvances(r) \/ RecordRetries(r) \/ RecordEnds(r) \/ RecordRefused(r)

CloseStep(k) == CloseCheck(k) \/ NotifyLock(k) \/ NotifySent(k) \/ CloseRaw(k)

Next ==
    \/ \E a \in Readers \cup Writers : HandshakeStep(a) \/ HandshakeRun(a)
    \/ \E r \in Readers : \/ ReadCall(r) \/ ReadNothing(r) \/ ReadStep(r)
                          \/ RecordFails(r) \/ AlertSent(r)
    \/ \E w \in Writers : WriteCall(w) \/ WriteLock(w) \/ WriteRecord(w) \/ WriteFails(w)
    \/ \E k \in Closers : CloseCall(k)
    \/ \E k \in Shutters : CloseWriteCall(k)
    \/ \E k \in Closers \cup Shutters : CloseStep(k)
    \/ \E k \in Kinds : PeerSends(k)
    \/ PeerCloses

Spec == Init /\ [][Next]_vars

(***************************************************************************)
(* Goroutines run, a call on a closed raw connection fails, and a waiter   *)
(* gets its mutex at last however often others take it (sync.Mutex hands   *)
(* over to a waiter that has starved for 1 ms): strong fairness there.  A  *)
(* write on an open connection ends only if the peer reads or a deadline   *)
(* passes, and a handshake only if the peer answers: neither is assumed.   *)
(***************************************************************************)
ReaderRuns(r) ==
    \/ HandshakeStep(r) \/ ReadStep(r)
    \/ ~rawOpen /\ (HandshakeRun(r) \/ RecordFails(r))
    \/ RawFails /\ AlertSent(r)

WriterRuns(w) ==
    HandshakeStep(w) \/ WriteLock(w) \/ WriteFails(w) \/ (~rawOpen /\ HandshakeRun(w))

Fairness ==
    /\ \A r \in Readers : SF_vars(ReaderRuns(r))
    /\ \A w \in Writers : SF_vars(WriterRuns(w))
    /\ \A k \in Closers \cup Shutters : SF_vars(CloseStep(k))

FairSpec == Spec /\ Fairness

--------------------------------------------------------------------------------
(* Properties *)

\* close_notify is the last thing the peer receives: no Write, and no alert of
\* a Read that was already under way, follows it.
NothingAfterCloseNotify ==
    \A i \in DOMAIN wire : wire[i][2] = "close" => i = Len(wire)

\* The records of one Write are contiguous on the wire: another Write, an alert
\* or close_notify cannot split them.
WritesNotInterleaved ==
    \A i, j, m \in DOMAIN wire :
        i < j /\ j < m /\ wire[i] = wire[m] /\ wire[i][2] = "data" => wire[j] = wire[i]

\* Every byte of data received is returned by one Read or still pending, however
\* short the buffers of the Reads are and also when it came in while looking ahead
\* for a close_notify; and readRecord is never called over pending data, which it
\* would replace (conn.go answers that with an internal error).
NoDataLost ==
    /\ got.received = got.returned + input
    /\ \A r \in Readers : Reading(r) => input = 0

\* A peer cannot keep a Read busy with useless records.
UselessBounded == useless <= MaxUseless + 1

\* Close returns although a Write is blocked on a peer that does not read; only
\* an alert that a Read is writing, which has no deadline, can hold it up.
CloseReturns ==
    \A k \in Closers : closed /\ pc[k] # "idle" ~>
        pc[k] = "done" \/ \E r \in Readers : pc[r] \in {"alert", "refuse"}

\* Once the raw connection is closed, no Read and no Write stays blocked.
CallsReturn ==
    /\ \A r \in Readers : (~rawOpen /\ pc[r] # "idle") ~> pc[r] = "idle"
    /\ \A w \in Writers : (~rawOpen /\ pc[w] # "idle") ~> pc[w] = "done"
================================================================================
