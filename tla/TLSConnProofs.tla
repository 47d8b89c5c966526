------------------------------ MODULE TLSConnProofs ------------------------------
(***************************************************************************)
(* What TLSConn promises for any number of goroutines, any record count    *)
(* and any bound: proofs of its type invariant and of its four safety      *)
(* invariants from one inductive invariant.                                *)
(***************************************************************************)
EXTENDS TLSConn, FiniteSetTheorems, TLAPS

\* Where the holder of each mutex is.
HoldsHs(a)  == pc[a] \in {"hsCheck", "hsRun"}
HoldsIn(a)  == pc[a] \in {"hsRun", "loop", "record", "post", "look", "lookRecord",
                          "alertLock", "alert", "refuseLock", "refuse"}
HoldsOut(a) == pc[a] \in {"alert", "refuse", "write", "notify"}

\* A goroutine inside a critical section holds its mutex.
Owners ==
    \A a \in Actors : /\ HoldsHs(a)  => hsMu = a
                      /\ HoldsIn(a)  => inMu = a
                      /\ HoldsOut(a) => outMu = a

\* Each kind of goroutine stays on its own path.
Paths ==
    /\ \A r \in Readers : pc[r] \in {"idle", "hs", "hsLock", "hsCheck", "hsRun", "inLock",
                                     "loop", "record", "post", "look", "lookRecord", "alertLock",
                                     "alert", "refuseLock", "refuse"}
    /\ \A w \in Writers : pc[w] \in {"idle", "hs", "hsLock", "hsCheck", "hsRun", "outLock",
                                     "write", "done"}
    /\ \A k \in Closers : pc[k] \in {"idle", "check", "outLock", "notify", "raw", "done"}
    /\ \A k \in Shutters : pc[k] \in {"idle", "outLock", "notify", "done"}

\* The writers activeCall counts.
InFlight == {w \in Writers : pc[w] \notin {"idle", "done"}}
Counted == writing = Cardinality(InFlight)

\* A Write in flight has records left; data is on the wire only of a Write that
\* got c.out; and nothing follows the records of the one that is writing.
Unsent == \A w \in InFlight : left[w] \in 1 .. Records
Authors ==
    \A i \in DOMAIN wire : wire[i][2] = "data" =>
        wire[i][1] \in Writers /\ pc[wire[i][1]] \in {"write", "done"}
OwnTail ==
    \A w \in Writers : pc[w] = "write" =>
        \A i, j \in DOMAIN wire : i < j /\ wire[i] = <<w, "data">> => wire[j] = wire[i]
Tails == Unsent /\ Authors /\ OwnTail

\* A close_notify on the wire was sent under c.out and left its deadline behind.
Notified ==
    /\ \A i \in DOMAIN wire : wire[i][2] = "close" => notifySent
    /\ notifySent => deadline = "past"
    /\ \A a \in Actors : pc[a] = "notify" => ~notifySent

\* What Read took from the inbox, and where it stops taking.
Counts ==
    /\ useless = retryCount
    /\ useless + Len(inbox) <= sent /\ hand + Len(inbox) <= sent
    /\ \A r \in Readers : pc[r] \in {"record", "lookRecord"} => input = 0
    /\ \A r \in Readers : pc[r] = "refuseLock" \/ pc[r] = "refuse" => hand > 0
    /\ retryCount > MaxUseless =>
           \/ inErr # "none"
           \/ \E r \in Readers : pc[r] \in {"alertLock", "alert"}
    /\ got.received = got.returned + input

IInv == TypeOK /\ Owners /\ Paths /\ Counted /\ Tails /\ Notified /\ Counts
        /\ NothingAfterCloseNotify /\ WritesNotInterleaved

--------------------------------------------------------------------------------
(* Lemmas *)

\* Nobody is inside the connection at first.
LEMMA InitIInv == Init => IInv
  <1> SUFFICES ASSUME Init PROVE IInv
    OBVIOUS
  <1> USE ConnAssumption DEF Init
  <1>1. InFlight = {} /\ Cardinality(InFlight) = 0
    BY FS_EmptySet DEF InFlight, Actors
  <1>2. Cardinality(Writers) \in Nat
    BY FS_CardinalityType
  <1>3. TypeOK
    <2>1. CallType
      BY <1>2 DEF CallType
    <2>2. FlagType
      BY DEF FlagType
    <2>3. OutType
      BY DEF OutType
    <2>4. InType
      BY DEF InType
    <2> QED
      BY <2>1, <2>2, <2>3, <2>4 DEF TypeOK
  <1>4. Owners /\ Paths /\ Counted
    BY <1>1 DEF Owners, Paths, Counted, HoldsHs, HoldsIn, HoldsOut, Actors
  <1>5. Tails /\ Notified /\ Counts /\ NothingAfterCloseNotify /\ WritesNotInterleaved
    BY <1>1 DEF Tails, Unsent, Authors, OwnTail, Notified, Counts, NothingAfterCloseNotify,
                WritesNotInterleaved, Actors
  <1> QED
    BY <1>3, <1>4, <1>5 DEF IInv

\* activeCall counts the Writes in flight, however one of them moves.
LEMMA CountKept ==
    ASSUME TypeOK, Counted, NEW a \in Actors, NEW to,
           pc' = [pc EXCEPT ![a] = to],
           \/ writing' = writing /\ (a \notin Writers \/
                  (pc[a] \in {"idle", "done"} <=> to \in {"idle", "done"}))
           \/ writing' = writing - 1 /\ a \in Writers
                  /\ pc[a] \notin {"idle", "done"} /\ to \in {"idle", "done"}
           \/ writing' = writing + 1 /\ a \in Writers
                  /\ pc[a] \in {"idle", "done"} /\ to \notin {"idle", "done"}
    PROVE  Counted' /\ writing' \in 0 .. Cardinality(Writers)
  <1>1. IsFiniteSet(Writers) /\ InFlight \subseteq Writers /\ InFlight' \subseteq Writers
    BY ConnAssumption DEF InFlight
  <1>2. IsFiniteSet(InFlight) /\ Cardinality(InFlight') \in 0 .. Cardinality(Writers)
    BY <1>1, FS_Subset, FS_CardinalityType
  <1>3. CASE writing' = writing
    <2>1. a \notin Writers \/ (pc[a] \in {"idle", "done"} <=> to \in {"idle", "done"})
      BY <1>3 DEF TypeOK, CallType
    <2>2. InFlight' = InFlight
      BY <2>1 DEF InFlight, TypeOK, CallType, Actors
    <2> QED
      BY <1>2, <1>3, <2>2 DEF Counted
  <1>4. CASE a \in InFlight /\ to \in {"idle", "done"} /\ writing' = writing - 1
    <2>1. InFlight' = InFlight \ {a}
      BY <1>4 DEF InFlight, TypeOK, CallType, Actors
    <2> QED
      BY <1>2, <1>4, <2>1, FS_RemoveElement DEF Counted
  <1>5. CASE a \in Writers \ InFlight /\ to \notin {"idle", "done"} /\ writing' = writing + 1
    <2>1. InFlight' = InFlight \cup {a}
      BY <1>5 DEF InFlight, TypeOK, CallType, Actors
    <2> QED
      BY <1>2, <1>5, <2>1, FS_AddElement DEF Counted
  <1> QED
    BY <1>3, <1>4, <1>5 DEF InFlight

\* A step that writes nothing, of a Write that has not got c.out or that ends, or
\* of any other goroutine that is not about to send close_notify.
LEMMA OutKept ==
    ASSUME IInv, NEW a \in Actors, NEW to, pc' = [pc EXCEPT ![a] = to], to # "notify",
           UNCHANGED <<deadline, notifySent, wire, left>>,
           a \in Writers => (to = "done" \/
                             (pc[a] \notin {"idle", "write", "done"} /\ to # "idle"))
    PROVE  OutType' /\ Tails' /\ Notified' /\ NothingAfterCloseNotify' /\ WritesNotInterleaved'
  <1> USE DEF IInv, TypeOK, CallType, OutType, Actors
  <1>1. OutType' /\ NothingAfterCloseNotify' /\ WritesNotInterleaved'
    BY DEF NothingAfterCloseNotify, WritesNotInterleaved
  <1>2. Notified'
    BY DEF Notified
  <1>3. Unsent'
    BY DEF Tails, Unsent, InFlight
  <1>4. Authors'
    BY DEF Tails, Authors
  <1>5. OwnTail'
    <2> SUFFICES ASSUME NEW w \in Writers, pc'[w] = "write", NEW i \in DOMAIN wire,
                        NEW j \in DOMAIN wire, i < j, wire[i] = <<w, "data">>
                 PROVE  wire[j] = wire[i]
      BY DEF OwnTail
    <2>1. pc[w] = "write"
      BY DEF Tails, Authors, Paths
    <2> QED
      BY <2>1 DEF Tails, OwnTail
  <1> QED
    BY <1>1, <1>2, <1>3, <1>4, <1>5 DEF Tails

\* A step that consumes nothing, of a goroutine that does not start a record, find
\* pending handshake bytes or end with an alert.
LEMMA InKept ==
    ASSUME IInv, NEW a \in Actors, NEW to, pc' = [pc EXCEPT ![a] = to],
           UNCHANGED <<peerVars, inVars>>,
           a \in Readers =>
               /\ to \notin {"record", "lookRecord", "refuseLock", "refuse"}
               /\ pc[a] \notin {"alertLock", "alert"}
    PROVE  InType' /\ Counts'
  BY DEF IInv, TypeOK, CallType, InType, Counts, Actors, peerVars, inVars

\* What one more record on the wire looks like.
LEMMA WireGrows ==
    ASSUME TypeOK, NEW a \in Actors, NEW what \in {"data", "alert", "close"},
           wire' = Append(wire, <<a, what>>)
    PROVE  /\ wire' \in Seq(Actors \X {"data", "alert", "close"})
           /\ Len(wire) \in Nat /\ Len(wire') = Len(wire) + 1
           /\ DOMAIN wire = 1 .. Len(wire) /\ DOMAIN wire' = 1 .. Len(wire) + 1
           /\ \A i \in 1 .. Len(wire) : wire'[i] = wire[i]
           /\ wire'[Len(wire) + 1] = <<a, what>>
  BY DEF TypeOK, OutType

\* The holder of c.out may write before the deadline of a close_notify: there is
\* none on the wire, and no other Write is between two of its records.
LEMMA WireKept ==
    ASSUME IInv, NEW a \in Actors, NEW what \in {"data", "alert", "close"}, HoldsOut(a),
           deadline # "past", wire' = Append(wire, <<a, what>>),
           what = "data" => a \in Writers /\ pc[a] = "write"
    PROVE  /\ NothingAfterCloseNotify' /\ WritesNotInterleaved'
           /\ \A i \in DOMAIN wire' : wire'[i][2] = "close" => what = "close"
           /\ \A i \in DOMAIN wire' : wire'[i][2] = "data" =>
                  wire'[i][1] \in Writers /\ pc[wire'[i][1]] \in {"write", "done"}
           /\ \A w \in Writers : pc[w] = "write" => w = a
           /\ what = "data" => \A i, j \in DOMAIN wire' :
                  i < j /\ wire'[i] = <<a, "data">> => wire'[j] = wire'[i]
  <1> DEFINE n == Len(wire)
  <1>1. /\ n \in Nat /\ Len(wire') = n + 1
        /\ DOMAIN wire = 1 .. n /\ DOMAIN wire' = 1 .. n + 1
        /\ \A i \in 1 .. n : wire'[i] = wire[i]
        /\ wire'[n + 1] = <<a, what>>
    BY WireGrows DEF IInv
  <1> HIDE DEF n
  <1>2. \A i \in 1 .. n : wire[i][2] # "close"
    BY <1>1 DEF IInv, Notified
  <1>3. \A w \in Writers : pc[w] = "write" => w = a
    BY DEF IInv, Owners, HoldsOut, Actors
  <1>4. what = "data" => \A i, j \in 1 .. n + 1 :
            i < j /\ wire'[i] = <<a, "data">> => wire'[j] = wire'[i]
    <2> SUFFICES ASSUME what = "data", NEW i \in 1 .. n + 1, NEW j \in 1 .. n + 1, i < j,
                        wire'[i] = <<a, "data">>
                 PROVE  wire'[j] = wire'[i]
      OBVIOUS
    <2>1. CASE j = n + 1
      BY <1>1, <2>1
    <2>2. CASE j # n + 1
      <3>1. i \in 1 .. n /\ j \in 1 .. n
        BY <1>1, <2>2
      <3>2. wire[j] = wire[i]
        BY <1>1, <3>1 DEF IInv, Tails, OwnTail
      <3> QED
        BY <1>1, <3>1, <3>2
    <2> QED
      BY <2>1, <2>2
  <1>5. NothingAfterCloseNotify'
    BY <1>1, <1>2 DEF NothingAfterCloseNotify
  <1>6. WritesNotInterleaved'
    <2> SUFFICES ASSUME NEW i \in 1 .. n + 1, NEW j \in 1 .. n + 1, NEW m \in 1 .. n + 1,
                        i < j, j < m, wire'[i] = wire'[m], wire'[i][2] = "data"
                 PROVE  wire'[j] = wire'[i]
      BY <1>1 DEF WritesNotInterleaved
    <2>1. CASE m = n + 1
      BY <1>1, <1>4, <2>1
    <2>2. CASE m # n + 1
      <3>1. i \in 1 .. n /\ j \in 1 .. n /\ m \in 1 .. n
        BY <1>1, <2>2
      <3>2. wire[i] = wire[m] /\ wire[i][2] = "data"
        BY <1>1, <3>1
      <3>3. wire[j] = wire[i]
        BY <1>1, <3>1, <3>2 DEF IInv, WritesNotInterleaved
      <3> QED
        BY <1>1, <3>1, <3>3
    <2> QED
      BY <2>1, <2>2
  <1>7. \A i \in 1 .. n + 1 : wire'[i][2] = "data" =>
            wire'[i][1] \in Writers /\ pc[wire'[i][1]] \in {"write", "done"}
    BY <1>1 DEF IInv, Tails, Authors
  <1>8. \A i \in 1 .. n + 1 : wire'[i][2] = "close" => what = "close"
    BY <1>1, <1>2
  <1> QED
    BY <1>1, <1>3, <1>4, <1>5, <1>6, <1>7, <1>8

\* The record a Read takes leaves the inbox one shorter.
LEMMA TakeShortens ==
    ASSUME InType, NEW r, TakeRecord(r)
    PROVE  /\ inbox' \in Seq(Kinds) /\ Len(inbox) \in Nat \ {0}
           /\ Len(inbox') = Len(inbox) - 1 /\ Head(inbox) \in Kinds
  BY DEF InType, TakeRecord

\* Every step of every goroutine, and of the peer, keeps the invariant.
LEMMA NextIInv == IInv /\ [Next]_vars => IInv'
  <1> SUFFICES ASSUME IInv, [Next]_vars PROVE IInv'
    OBVIOUS
  <1> USE ConnAssumption, IInv
      DEF IInv, lockVars, hsVars, callVars, rawVars, outVars, peerVars, inVars
  <1>1. ASSUME NEW a \in Readers \cup Writers, HandshakeFast(a) PROVE IInv'
    <2> USE <1>1 DEF HandshakeFast, Go, AfterHandshake
    <2>1. Owners' /\ Paths'
      BY DEF TypeOK, CallType, Owners, Paths, HoldsHs, HoldsIn, HoldsOut, Actors
    <2>2. Counted' /\ CallType'
      BY CountKept DEF TypeOK, CallType, Paths, Actors
    <2>3. FlagType'
      BY DEF TypeOK, FlagType
    <2>4. OutType' /\ Tails' /\ Notified' /\ NothingAfterCloseNotify' /\ WritesNotInterleaved'
      BY OutKept DEF Paths, Actors
    <2>5. InType' /\ Counts'
      BY InKept DEF Paths, Actors
    <2> QED
      BY <2>1, <2>2, <2>3, <2>4, <2>5 DEF TypeOK
  <1>2. ASSUME NEW a \in Readers \cup Writers, HandshakeLock(a) PROVE IInv'
    <2> USE <1>2 DEF HandshakeLock, Go
    <2>1. Owners' /\ Paths'
      BY DEF TypeOK, CallType, Owners, Paths, HoldsHs, HoldsIn, HoldsOut, Actors
    <2>2. Counted' /\ CallType'
      BY CountKept DEF TypeOK, CallType, Paths, Actors
    <2>3. FlagType'
      BY DEF TypeOK, FlagType
    <2>4. OutType' /\ Tails' /\ Notified' /\ NothingAfterCloseNotify' /\ WritesNotInterleaved'
      BY OutKept DEF Paths, Actors
    <2>5. InType' /\ Counts'
      BY InKept DEF Paths, Actors
    <2> QED
      BY <2>1, <2>2, <2>3, <2>4, <2>5 DEF TypeOK
  <1>3. ASSUME NEW a \in Readers \cup Writers, HandshakeCheck(a) PROVE IInv'
    <2> USE <1>3 DEF HandshakeCheck, Go, Ended, AfterHandshake, LeaveWrite
    <2>1. Owners' /\ Paths'
      BY DEF TypeOK, CallType, Owners, Paths, HoldsHs, HoldsIn, HoldsOut, Actors
    <2>2. Counted' /\ CallType'
      BY CountKept DEF TypeOK, CallType, Paths, Actors
    <2>3. FlagType'
      BY DEF TypeOK, FlagType
    <2>4. OutType' /\ Tails' /\ Notified' /\ NothingAfterCloseNotify' /\ WritesNotInterleaved'
      BY OutKept DEF Paths, Actors
    <2>5. InType' /\ Counts'
      BY InKept DEF Paths, Actors
    <2> QED
      BY <2>1, <2>2, <2>3, <2>4, <2>5 DEF TypeOK
  <1>4. ASSUME NEW a \in Readers \cup Writers, HandshakeRun(a) PROVE IInv'
    <2> USE <1>4 DEF HandshakeRun, Go, Ended, AfterHandshake, LeaveWrite
    <2>1. Owners' /\ Paths'
      BY DEF TypeOK, CallType, Owners, Paths, HoldsHs, HoldsIn, HoldsOut, Actors
    <2>2. Counted' /\ CallType'
      BY CountKept DEF TypeOK, CallType, Paths, Actors
    <2>3. FlagType'
      BY DEF TypeOK, FlagType
    <2>4. OutType' /\ Tails' /\ Notified' /\ NothingAfterCloseNotify' /\ WritesNotInterleaved'
      BY OutKept DEF Paths, Actors
    <2>5. InType' /\ Counts'
      BY InKept DEF Paths, Actors
    <2> QED
      BY <2>1, <2>2, <2>3, <2>4, <2>5 DEF TypeOK
  <1>5. ASSUME NEW a \in Readers, ReadCall(a) PROVE IInv'
    <2> USE <1>5 DEF ReadCall, Go
    <2>1. Owners' /\ Paths'
      BY DEF TypeOK, CallType, Owners, Paths, HoldsHs, HoldsIn, HoldsOut, Actors
    <2>2. Counted' /\ CallType'
      BY CountKept DEF TypeOK, CallType, Paths, Actors
    <2>3. FlagType'
      BY DEF TypeOK, FlagType
    <2>4. OutType' /\ Tails' /\ Notified' /\ NothingAfterCloseNotify' /\ WritesNotInterleaved'
      BY OutKept DEF Paths, Actors
    <2>5. InType' /\ Counts'
      BY InKept DEF Paths, Actors
    <2> QED
      BY <2>1, <2>2, <2>3, <2>4, <2>5 DEF TypeOK
  <1>6. ASSUME NEW a \in Readers, ReadLock(a) PROVE IInv'
    <2> USE <1>6 DEF ReadLock, Go
    <2>1. Owners' /\ Paths'
      BY DEF TypeOK, CallType, Owners, Paths, HoldsHs, HoldsIn, HoldsOut, Actors
    <2>2. Counted' /\ CallType'
      BY CountKept DEF TypeOK, CallType, Paths, Actors
    <2>3. FlagType'
      BY DEF TypeOK, FlagType
    <2>4. OutType' /\ Tails' /\ Notified' /\ NothingAfterCloseNotify' /\ WritesNotInterleaved'
      BY OutKept DEF Paths, Actors
    <2>5. InType' /\ Counts'
      BY InKept DEF Paths, Actors
    <2> QED
      BY <2>1, <2>2, <2>3, <2>4, <2>5 DEF TypeOK
  <1>7. ASSUME NEW a \in Readers, ReadLoop(a) PROVE IInv'
    <2> USE <1>7
    <2>1. /\ pc[a] = "loop" /\ UNCHANGED <<inMu, outMu, hsMu, inbox, sent, inErr, hand>>
          /\ UNCHANGED <<retryCount, useless>>
      BY DEF ReadLoop, Go
    <2>2. PICK to \in {"record", "look"} : pc' = [pc EXCEPT ![a] = to]
      BY DEF ReadLoop, Go
    <2>3. Owners' /\ Paths'
      BY <2>1, <2>2 DEF TypeOK, CallType, Owners, Paths, HoldsHs, HoldsIn, HoldsOut, Actors
    <2>4. Counted' /\ CallType'
      BY <2>1, <2>2, CountKept DEF ReadLoop, TypeOK, CallType, Paths, Actors
    <2>5. FlagType'
      BY DEF ReadLoop, TypeOK, FlagType
    <2>6. OutType' /\ Tails' /\ Notified' /\ NothingAfterCloseNotify' /\ WritesNotInterleaved'
      BY <2>1, <2>2, OutKept DEF ReadLoop, Paths, Actors
    <2>7. \A r \in Readers : HoldsIn(r) => r = a
      BY <2>1 DEF Owners, HoldsIn, Actors
    <2>8. /\ input' \in 0 .. Size /\ got' \in [returned : Nat, received : Nat]
          /\ got'.received = got'.returned + input'
          /\ pc'[a] = "record" => input' = 0
      <3>1. CASE input = 0 /\ UNCHANGED <<input, got>>
        BY <3>1 DEF TypeOK, InType, Counts
      <3>2. CASE \E n \in 1 .. input :
                    /\ pc' = [pc EXCEPT ![a] = "look"]
                    /\ input' = input - n /\ got' = [got EXCEPT !.returned = @ + n]
        <4>1. PICK n \in 1 .. input :
                    /\ pc' = [pc EXCEPT ![a] = "look"]
                    /\ input' = input - n /\ got' = [got EXCEPT !.returned = @ + n]
          BY <3>2
        <4>2. input \in Nat /\ n \in Nat /\ n <= input /\ input <= Size
          BY DEF TypeOK, InType
        <4>3. got' = [returned |-> got.returned + n, received |-> got.received]
          BY <4>1 DEF TypeOK, InType
        <4>4. /\ got.returned \in Nat /\ got.received \in Nat
              /\ got.received = got.returned + input
          BY DEF TypeOK, InType, Counts
        <4>5. pc'[a] # "record"
          BY <4>1 DEF TypeOK, CallType, Actors
        <4>6. /\ got'.returned = got.returned + n /\ got'.received = got.received
              /\ got.returned + n \in Nat
          BY <4>2, <4>3, <4>4
        <4>7. input' \in 0 .. Size /\ got'.received = got'.returned + input'
          BY <4>1, <4>2, <4>4, <4>6
        <4>8. got' \in [returned : Nat, received : Nat]
          BY <4>3, <4>4, <4>6
        <4> QED
          BY <4>5, <4>7, <4>8
      <3> QED
        BY <3>1, <3>2 DEF ReadLoop, Go
    <2>9. InType'
      BY <2>1, <2>8 DEF TypeOK, InType
    <2>10. Counts'
      BY <2>1, <2>2, <2>7, <2>8
         DEF TypeOK, CallType, InType, Counts, HoldsIn, Actors
    <2> QED
      BY <2>3, <2>4, <2>5, <2>6, <2>9, <2>10 DEF TypeOK
  <1>8. ASSUME NEW a \in Readers, ReadLook(a) PROVE IInv'
    <2> USE <1>8 DEF ReadLook, Go
    <2>1. Owners' /\ Paths'
      BY DEF TypeOK, CallType, Owners, Paths, HoldsHs, HoldsIn, HoldsOut, Actors
    <2>2. Counted' /\ CallType'
      BY CountKept DEF TypeOK, CallType, Paths, Actors
    <2>3. FlagType'
      BY DEF TypeOK, FlagType
    <2>4. OutType' /\ Tails' /\ Notified' /\ NothingAfterCloseNotify' /\ WritesNotInterleaved'
      BY OutKept DEF Paths, Actors
    <2>5. InType'
      BY DEF TypeOK, InType
    <2>6. Counts'
      BY DEF TypeOK, CallType, InType, Counts, Paths, Owners, HoldsIn, Actors
    <2> QED
      BY <2>1, <2>2, <2>3, <2>4, <2>5, <2>6 DEF TypeOK
  <1>9. ASSUME NEW a \in Readers, RecordFails(a) PROVE IInv'
    <2> USE <1>9 DEF RecordFails, Reading, ReadReturn
    <2>1. Owners' /\ Paths'
      BY DEF TypeOK, CallType, Owners, Paths, HoldsHs, HoldsIn, HoldsOut, Actors
    <2>2. Counted' /\ CallType'
      BY CountKept DEF TypeOK, CallType, Paths, Actors
    <2>3. FlagType'
      BY DEF TypeOK, FlagType
    <2>4. OutType' /\ Tails' /\ Notified' /\ NothingAfterCloseNotify' /\ WritesNotInterleaved'
      BY OutKept DEF Paths, Actors
    <2>5. InType'
      BY DEF TypeOK, InType
    <2>6. Counts'
      BY DEF TypeOK, CallType, InType, Counts, Paths, Owners, HoldsIn, Actors
    <2> QED
      BY <2>1, <2>2, <2>3, <2>4, <2>5, <2>6 DEF TypeOK
  <1>10. ASSUME NEW a \in Readers, RecordAdvances(a) PROVE IInv'
    <2> USE <1>10 DEF RecordAdvances, ReadReturn
    <2>1. TakeRecord(a) /\ pc[a] \in {"record", "lookRecord"}
      BY DEF TakeRecord, Reading
    <2>2. PICK to \in {"idle", "post"} : pc' = [pc EXCEPT ![a] = to]
      OBVIOUS
    <2>3. Owners' /\ Paths'
      BY <2>1 DEF TypeOK, CallType, Owners, Paths, HoldsHs, HoldsIn, HoldsOut, Actors
    <2>4. Counted' /\ CallType'
      BY <2>2, CountKept DEF TypeOK, CallType, Actors
    <2>5. FlagType'
      BY DEF TypeOK, FlagType
    <2>6. OutType' /\ Tails' /\ Notified' /\ NothingAfterCloseNotify' /\ WritesNotInterleaved'
      BY <2>2, OutKept DEF Actors
    <2>7. /\ inbox' \in Seq(Kinds) /\ Len(inbox) \in Nat \ {0}
          /\ Len(inbox') = Len(inbox) - 1
      BY <2>1, TakeShortens DEF TypeOK
    <2>8. input = 0 /\ hand + 1 <= MaxInbox
      <3>1. input = 0
        BY <2>1 DEF Counts
      <3>2. /\ hand \in Nat /\ sent \in Nat /\ sent <= MaxInbox /\ hand + Len(inbox) <= sent
            /\ Len(inbox) \in Nat /\ Len(inbox) # 0
        BY <2>7 DEF TypeOK, InType, Counts
      <3> QED
        BY <3>1, <3>2
    <2>9. InType' /\ Counts'
      <3>0. retryCount' = 0 /\ useless' = 0 /\ sent' = sent /\ inErr' = inErr
        OBVIOUS
      <3>1. CASE /\ input' = Size /\ hand' = hand
                 /\ got' = [got EXCEPT !.received = @ + Size]
        <4>1. got' \in [returned : Nat, received : Nat]
          <5> HIDE <1>10
          <5>1. /\ got \in [returned : Nat, received : Nat]
                /\ got' = [got EXCEPT !.received = @ + Size]
            BY <3>1 DEF TypeOK, InType
          <5>2. got.received + Size \in Nat
            BY <5>1, ConnAssumption DEF ConnAssumption
          <5> QED
            BY <5>1, <5>2
        <4>2. InType'
          <5> HIDE <1>10
          <5>1. /\ hand' \in 0 .. MaxInbox /\ sent' \in 0 .. MaxInbox
                /\ inErr' \in {"none", "eof", "err"}
            BY <3>0, <3>1 DEF TypeOK, InType
          <5>2. 0 \in 0 .. MaxUseless + 1 /\ 0 \in 0 .. MaxInbox /\ Size \in 0 .. Size
            BY ConnAssumption DEF ConnAssumption
          <5>3. /\ input' \in 0 .. Size
                /\ retryCount' \in 0 .. MaxUseless + 1 /\ useless' \in 0 .. MaxInbox
            BY <3>0, <3>1, <5>2, Zenon
          <5> QED
            BY <2>7, <4>1, <5>1, <5>3, Zenon DEF InType
        <4>3. got'.received = got'.returned + input'
          BY <2>8, <3>1 DEF TypeOK, InType, Counts
        <4>4. \A r \in Readers : pc'[r] \notin {"record", "lookRecord"}
          BY <2>1, <2>2 DEF TypeOK, CallType, Owners, HoldsIn, Actors
        <4>5. /\ useless' = retryCount' /\ retryCount' <= MaxUseless
              /\ useless' + Len(inbox') <= sent' /\ hand' + Len(inbox') <= sent'
          <5>1. /\ Len(inbox) \in Nat /\ Len(inbox') = Len(inbox) - 1
                /\ Len(inbox) # 0 /\ hand + Len(inbox) <= sent
                /\ hand \in Nat /\ sent \in Nat
            BY <2>7 DEF TypeOK, InType, Counts
          <5>2. retryCount' = 0 /\ useless' = 0 /\ sent' = sent /\ hand' = hand
            BY <3>1
          <5> QED
            BY <5>1, <5>2
        <4>6. \A r \in Readers : pc'[r] \notin {"refuseLock", "refuse"}
          BY <2>1, <2>2 DEF TypeOK, CallType, Owners, HoldsIn, Actors
        <4> QED
          BY <4>2, <4>3, <4>4, <4>5, <4>6 DEF InType, Counts
      <3>2. CASE hand' = hand + 1 /\ UNCHANGED <<input, got>>
        <4>1. InType'
          BY <2>7, <2>8, <3>2 DEF TypeOK, InType
        <4>2. \A r \in Readers : pc'[r] \notin {"record", "lookRecord", "refuseLock", "refuse"}
          BY <2>1, <2>2 DEF TypeOK, CallType, Owners, HoldsIn, Actors
        <4>3. /\ useless' = retryCount' /\ retryCount' <= MaxUseless
              /\ useless' + Len(inbox') <= sent' /\ hand' + Len(inbox') <= sent'
          <5>1. /\ Len(inbox) \in Nat /\ Len(inbox') = Len(inbox) - 1
                /\ Len(inbox) # 0 /\ hand + Len(inbox) <= sent
                /\ hand \in Nat /\ sent \in Nat
            BY <2>7 DEF TypeOK, InType, Counts
          <5>2. retryCount' = 0 /\ useless' = 0 /\ sent' = sent /\ hand' = hand + 1
            BY <3>2
          <5> HIDE <1>10
          <5> QED
            BY <5>1, <5>2
        <4>4. got'.received = got'.returned + input'
          BY <3>2 DEF Counts
        <4> HIDE <1>10
        <4>5. MaxUseless \in Nat /\ retryCount' \in Nat
          BY <4>1, ConnAssumption DEF InType, ConnAssumption
        <4> QED
          BY <4>1, <4>2, <4>3, <4>4, <4>5 DEF Counts
      <3> QED
        BY <3>1, <3>2
    <2> QED
      BY <2>3, <2>4, <2>5, <2>6, <2>8, <2>9 DEF TypeOK
  <1>11. ASSUME NEW a \in Readers, ReadPost(a) PROVE IInv'
    <2> USE <1>11 DEF ReadPost, Go
    <2>1. Owners' /\ Paths'
      BY DEF TypeOK, CallType, Owners, Paths, HoldsHs, HoldsIn, HoldsOut, Actors
    <2>2. Counted' /\ CallType'
      BY CountKept DEF TypeOK, CallType, Paths, Actors
    <2>3. FlagType'
      BY DEF TypeOK, FlagType
    <2>4. OutType' /\ Tails' /\ Notified' /\ NothingAfterCloseNotify' /\ WritesNotInterleaved'
      BY OutKept DEF Paths, Actors
    <2>5. InType'
      BY DEF TypeOK, InType
    <2>6. Counts'
      BY DEF TypeOK, CallType, InType, Counts, Paths, Owners, HoldsIn, Actors
    <2> QED
      BY <2>1, <2>2, <2>3, <2>4, <2>5, <2>6 DEF TypeOK
  <1>12. ASSUME NEW a \in Readers, RecordRetries(a) PROVE IInv'
    <2> USE <1>12 DEF RecordRetries
    <2>1. TakeRecord(a) /\ pc[a] \in {"record", "lookRecord"}
      BY DEF TakeRecord, Reading
    <2>2. PICK to \in {pc[a], "alertLock"} : pc' = [pc EXCEPT ![a] = to]
      BY DEF TypeOK, CallType
    <2>3. Owners' /\ Paths'
      BY <2>1 DEF TypeOK, CallType, Owners, Paths, HoldsHs, HoldsIn, HoldsOut, Actors
    <2>4. Counted' /\ CallType'
      BY <2>1, <2>2, CountKept DEF TypeOK, CallType, Actors
    <2>5. FlagType'
      BY DEF TypeOK, FlagType
    <2>6. OutType' /\ Tails' /\ Notified' /\ NothingAfterCloseNotify' /\ WritesNotInterleaved'
      BY <2>1, <2>2, OutKept DEF Actors
    <2>7. /\ inbox' \in Seq(Kinds) /\ Len(inbox) \in Nat \ {0}
          /\ Len(inbox') = Len(inbox) - 1
      BY <2>1, TakeShortens DEF TypeOK
    <2>8. retryCount <= MaxUseless
      BY <2>1 DEF TypeOK, InType, Counts, Owners, HoldsIn, Actors, TakeRecord
    <2>9. InType'
      BY <2>7, <2>8 DEF TypeOK, InType, Counts
    <2>10. Counts'
      BY <2>1, <2>7, <2>8 DEF TypeOK, CallType, InType, Counts, Actors
    <2> QED
      BY <2>3, <2>4, <2>5, <2>6, <2>9, <2>10 DEF TypeOK
  <1>13. ASSUME NEW a \in Readers, RecordEnds(a) PROVE IInv'
    <2> USE <1>13 DEF RecordEnds, TakeRecord, Reading, ReadReturn
    <2>1. Owners' /\ Paths'
      BY DEF TypeOK, CallType, Owners, Paths, HoldsHs, HoldsIn, HoldsOut, Actors
    <2>2. Counted' /\ CallType'
      BY CountKept DEF TypeOK, CallType, Paths, Actors
    <2>3. FlagType'
      BY DEF TypeOK, FlagType
    <2>4. OutType' /\ Tails' /\ Notified' /\ NothingAfterCloseNotify' /\ WritesNotInterleaved'
      BY OutKept DEF Paths, Actors
    <2>5. /\ inbox' \in Seq(Kinds) /\ Len(inbox) \in Nat \ {0}
          /\ Len(inbox') = Len(inbox) - 1
      BY TakeShortens DEF TypeOK
    <2>6. InType'
      BY <2>5 DEF TypeOK, InType, Counts
    <2>7. Counts'
      BY <2>5 DEF TypeOK, CallType, InType, Counts, Owners, HoldsIn, Actors
    <2> QED
      BY <2>1, <2>2, <2>3, <2>4, <2>6, <2>7 DEF TypeOK
  <1>14. ASSUME NEW a \in Readers, RecordRefused(a) PROVE IInv'
    <2> USE <1>14 DEF RecordRefused, TakeRecord, Reading
    <2>1. Owners' /\ Paths'
      BY DEF TypeOK, CallType, Owners, Paths, HoldsHs, HoldsIn, HoldsOut, Actors
    <2>2. Counted' /\ CallType'
      BY CountKept DEF TypeOK, CallType, Paths, Actors
    <2>3. FlagType'
      BY DEF TypeOK, FlagType
    <2>4. OutType' /\ Tails' /\ Notified' /\ NothingAfterCloseNotify' /\ WritesNotInterleaved'
      BY OutKept DEF Paths, Actors
    <2>5. /\ inbox' \in Seq(Kinds) /\ Len(inbox) \in Nat \ {0}
          /\ Len(inbox') = Len(inbox) - 1
      BY TakeShortens DEF TypeOK
    <2>6. InType'
      BY <2>5 DEF TypeOK, InType, Counts
    <2>7. Counts'
      BY <2>5 DEF TypeOK, CallType, InType, Counts, Owners, HoldsIn, Actors
    <2> QED
      BY <2>1, <2>2, <2>3, <2>4, <2>6, <2>7 DEF TypeOK
  <1>15. ASSUME NEW a \in Readers, AlertLock(a) PROVE IInv'
    <2> USE <1>15 DEF AlertLock, Go
    <2>1. Owners' /\ Paths'
      BY DEF TypeOK, CallType, Owners, Paths, HoldsHs, HoldsIn, HoldsOut, Actors
    <2>2. Counted' /\ CallType'
      BY CountKept DEF TypeOK, CallType, Paths, Actors
    <2>3. FlagType'
      BY DEF TypeOK, FlagType
    <2>4. OutType' /\ Tails' /\ Notified' /\ NothingAfterCloseNotify' /\ WritesNotInterleaved'
      BY OutKept DEF Paths, Actors
    <2>5. InType'
      BY DEF TypeOK, InType
    <2>6. Counts'
      BY DEF TypeOK, CallType, InType, Counts, Paths, Owners, HoldsIn, Actors
    <2> QED
      BY <2>1, <2>2, <2>3, <2>4, <2>5, <2>6 DEF TypeOK
  <1>16. ASSUME NEW a \in Readers, AlertSent(a) PROVE IInv'
    <2> USE <1>16 DEF AlertSent, ReadReturn
    <2>1. Owners' /\ Paths'
      BY DEF TypeOK, CallType, Owners, Paths, HoldsHs, HoldsIn, HoldsOut, Actors
    <2>2. Counted' /\ CallType'
      BY CountKept DEF TypeOK, CallType, Paths, Actors
    <2>3. FlagType'
      BY DEF TypeOK, FlagType
    <2>4. OutType'
      BY WireGrows DEF TypeOK, OutType, Actors, RawWrites, RawFails
    <2>5. HoldsOut(a) /\ a \in Actors
      BY DEF HoldsOut, Actors
    <2>6. Tails' /\ Notified' /\ NothingAfterCloseNotify' /\ WritesNotInterleaved'
      <3>1. CASE RawFails
        BY <3>1, OutKept DEF RawFails, Actors
      <3>2. CASE RawWrites(a, "alert")
        <4>1. deadline # "past" /\ wire' = Append(wire, <<a, "alert">>)
          BY <3>2 DEF RawWrites
        <4> HIDE <1>16
        <4>2. /\ NothingAfterCloseNotify' /\ WritesNotInterleaved'
              /\ \A i \in DOMAIN wire' : wire'[i][2] # "close"
              /\ \A i \in DOMAIN wire' : wire'[i][2] = "data" =>
                    wire'[i][1] \in Writers /\ pc[wire'[i][1]] \in {"write", "done"}
              /\ \A w \in Writers : pc[w] # "write"
          BY <4>1, <2>5, WireKept DEF Paths
        <4>3. Tails'
          BY <4>2, <1>16 DEF Tails, Unsent, Authors, OwnTail, InFlight, TypeOK, CallType, Actors
        <4>4. Notified'
          BY <4>2, <1>16 DEF Notified, TypeOK, CallType, Actors
        <4> QED
          BY <4>2, <4>3, <4>4
      <3> QED
        BY <3>1, <3>2
    <2>7. InType'
      BY DEF TypeOK, InType, Counts
    <2>8. Counts'
      BY DEF TypeOK, CallType, InType, Counts, Paths, Owners, HoldsIn, Actors
    <2> QED
      BY <2>1, <2>2, <2>3, <2>4, <2>6, <2>7, <2>8 DEF TypeOK
  <1>17. ASSUME NEW a \in Writers, WriteCall(a) PROVE IInv'
    <2> USE <1>17 DEF WriteCall, Go
    <2>1. Owners' /\ Paths'
      BY DEF TypeOK, CallType, Owners, Paths, HoldsHs, HoldsIn, HoldsOut, Actors
    <2>2. Counted' /\ CallType'
      BY CountKept DEF TypeOK, CallType, Paths, Actors, LeaveWrite
    <2>3. FlagType'
      BY DEF TypeOK, FlagType
    <2>4. OutType'
      BY DEF TypeOK, OutType
    <2>5. Tails'
      <3>1. Unsent'
        BY DEF TypeOK, CallType, OutType, Tails, Unsent, InFlight, Actors
      <3>2. Authors' /\ OwnTail'
        BY DEF TypeOK, CallType, Tails, Authors, OwnTail, Actors
      <3> QED
        BY <3>1, <3>2 DEF Tails
    <2>6. Notified' /\ NothingAfterCloseNotify' /\ WritesNotInterleaved'
      BY DEF TypeOK, CallType, Notified, NothingAfterCloseNotify, WritesNotInterleaved, Actors
    <2>7. InType' /\ Counts'
      BY InKept DEF Paths, Actors
    <2> QED
      BY <2>1, <2>2, <2>3, <2>4, <2>5, <2>6, <2>7 DEF TypeOK
  <1>18. ASSUME NEW a \in Writers, WriteLock(a) PROVE IInv'
    <2> USE <1>18 DEF WriteLock, Go, LeaveWrite
    <2>1. Owners' /\ Paths'
      BY DEF TypeOK, CallType, Owners, Paths, HoldsHs, HoldsIn, HoldsOut, Actors
    <2>2. Counted' /\ CallType'
      BY CountKept DEF TypeOK, CallType, Paths, Actors
    <2>3. FlagType'
      BY DEF TypeOK, FlagType
    <2>4. OutType' /\ Tails' /\ Notified' /\ NothingAfterCloseNotify' /\ WritesNotInterleaved'
      BY OutKept DEF Paths, Actors
    <2>5. InType' /\ Counts'
      BY InKept DEF Paths, Actors
    <2> QED
      BY <2>1, <2>2, <2>3, <2>4, <2>5 DEF TypeOK
  <1>19. ASSUME NEW a \in Writers, WriteRecord(a) PROVE IInv'
    <2> USE <1>19 DEF WriteRecord, Go, LeaveWrite
    <2>1. Owners' /\ Paths'
      BY DEF TypeOK, CallType, Owners, Paths, HoldsHs, HoldsIn, HoldsOut, Actors
    <2>2. Counted' /\ CallType'
      <3>1. CASE left[a] = 1
        BY <3>1, CountKept DEF TypeOK, CallType, Actors
      <3>2. CASE left[a] > 1
        <4>1. UNCHANGED <<pc, outMu, writing>>
          BY <3>2 DEF TypeOK, OutType
        <4>2. InFlight' = InFlight
          BY <4>1 DEF InFlight
        <4> QED
          BY <4>1, <4>2 DEF TypeOK, CallType, Counted
      <3> QED
        BY <3>1, <3>2
    <2>3. FlagType'
      BY DEF TypeOK, FlagType
    <2>4. deadline # "past" /\ wire' = Append(wire, <<a, "data">>) /\ HoldsOut(a) /\ a \in Actors
      BY DEF RawWrites, HoldsOut, Actors
    <2>5. OutType'
      BY <2>4, WireGrows DEF TypeOK, OutType, Tails, Unsent, InFlight
    <2>6. Tails' /\ Notified' /\ NothingAfterCloseNotify' /\ WritesNotInterleaved'
      <3>1. /\ NothingAfterCloseNotify' /\ WritesNotInterleaved'
            /\ \A i \in DOMAIN wire' : wire'[i][2] # "close"
            /\ \A i \in DOMAIN wire' : wire'[i][2] = "data" =>
                  wire'[i][1] \in Writers /\ pc[wire'[i][1]] \in {"write", "done"}
            /\ \A w \in Writers : pc[w] = "write" => w = a
            /\ \A i, j \in DOMAIN wire' :
                  i < j /\ wire'[i] = <<a, "data">> => wire'[j] = wire'[i]
        BY <2>4, WireKept
      <3>2. Unsent'
        BY DEF TypeOK, CallType, OutType, Tails, Unsent, InFlight, Actors
      <3>3. Authors' /\ OwnTail'
        BY <3>1 DEF TypeOK, CallType, Authors, OwnTail, Actors
      <3>4. Notified'
        BY <3>1 DEF TypeOK, CallType, Notified, Actors
      <3> QED
        BY <3>1, <3>2, <3>3, <3>4 DEF Tails
    <2>7. InType' /\ Counts'
      BY DEF TypeOK, CallType, InType, Counts, Actors
    <2> QED
      BY <2>1, <2>2, <2>3, <2>5, <2>6, <2>7 DEF TypeOK
  <1>20. ASSUME NEW a \in Writers, WriteFails(a) PROVE IInv'
    <2> USE <1>20 DEF WriteFails, Go, RawFails, LeaveWrite
    <2>1. Owners' /\ Paths'
      BY DEF TypeOK, CallType, Owners, Paths, HoldsHs, HoldsIn, HoldsOut, Actors
    <2>2. Counted' /\ CallType'
      BY CountKept DEF TypeOK, CallType, Paths, Actors
    <2>3. FlagType'
      BY DEF TypeOK, FlagType
    <2>4. OutType' /\ Tails' /\ Notified' /\ NothingAfterCloseNotify' /\ WritesNotInterleaved'
      BY OutKept DEF Paths, Actors
    <2>5. InType' /\ Counts'
      BY InKept DEF Paths, Actors
    <2> QED
      BY <2>1, <2>2, <2>3, <2>4, <2>5 DEF TypeOK
  <1>21. ASSUME NEW a \in Closers, CloseCall(a) PROVE IInv'
    <2> USE <1>21 DEF CloseCall, Go
    <2>1. Owners' /\ Paths'
      BY DEF TypeOK, CallType, Owners, Paths, HoldsHs, HoldsIn, HoldsOut, Actors
    <2>2. Counted' /\ CallType'
      BY CountKept DEF TypeOK, CallType, Paths, Actors
    <2>3. FlagType'
      BY DEF TypeOK, FlagType
    <2>4. OutType' /\ Tails' /\ Notified' /\ NothingAfterCloseNotify' /\ WritesNotInterleaved'
      BY OutKept DEF Paths, Actors
    <2>5. InType' /\ Counts'
      BY InKept DEF Paths, Actors
    <2> QED
      BY <2>1, <2>2, <2>3, <2>4, <2>5 DEF TypeOK
  <1>22. ASSUME NEW a \in Shutters, CloseWriteCall(a) PROVE IInv'
    <2> USE <1>22 DEF CloseWriteCall, Go
    <2>1. Owners' /\ Paths'
      BY DEF TypeOK, CallType, Owners, Paths, HoldsHs, HoldsIn, HoldsOut, Actors
    <2>2. Counted' /\ CallType'
      BY CountKept DEF TypeOK, CallType, Paths, Actors
    <2>3. FlagType'
      BY DEF TypeOK, FlagType
    <2>4. OutType' /\ Tails' /\ Notified' /\ NothingAfterCloseNotify' /\ WritesNotInterleaved'
      BY OutKept DEF Paths, Actors
    <2>5. InType' /\ Counts'
      BY InKept DEF Paths, Actors
    <2> QED
      BY <2>1, <2>2, <2>3, <2>4, <2>5 DEF TypeOK
  <1>23. ASSUME NEW a \in Closers \cup Shutters, CloseCheck(a) PROVE IInv'
    <2> USE <1>23 DEF CloseCheck, Go
    <2>1. Owners' /\ Paths'
      BY DEF TypeOK, CallType, Owners, Paths, HoldsHs, HoldsIn, HoldsOut, Actors
    <2>2. Counted' /\ CallType'
      BY CountKept DEF TypeOK, CallType, Paths, Actors
    <2>3. FlagType'
      BY DEF TypeOK, FlagType
    <2>4. OutType' /\ Tails' /\ Notified' /\ NothingAfterCloseNotify' /\ WritesNotInterleaved'
      BY OutKept DEF Paths, Actors
    <2>5. InType' /\ Counts'
      BY InKept DEF Paths, Actors
    <2> QED
      BY <2>1, <2>2, <2>3, <2>4, <2>5 DEF TypeOK
  <1>24. ASSUME NEW a \in Closers \cup Shutters, NotifyLock(a) PROVE IInv'
    <2> USE <1>24 DEF NotifyLock, Go, AfterNotify
    <2>1. Owners' /\ Paths'
      BY DEF TypeOK, CallType, Owners, Paths, HoldsHs, HoldsIn, HoldsOut, Actors
    <2>2. Counted' /\ CallType'
      BY CountKept DEF TypeOK, CallType, Paths, Actors
    <2>3. FlagType'
      BY DEF TypeOK, FlagType
    <2>4. OutType' /\ NothingAfterCloseNotify' /\ WritesNotInterleaved'
      BY DEF TypeOK, OutType, NothingAfterCloseNotify, WritesNotInterleaved
    <2>5. Tails'
      BY DEF TypeOK, CallType, Tails, Unsent, Authors, OwnTail, InFlight, Actors
    <2>6. Notified'
      BY DEF TypeOK, CallType, Notified, Owners, HoldsOut, Actors
    <2>7. InType' /\ Counts'
      BY InKept DEF Paths, Actors
    <2> QED
      BY <2>1, <2>2, <2>3, <2>4, <2>5, <2>6, <2>7 DEF TypeOK
  <1>25. ASSUME NEW a \in Closers \cup Shutters, NotifySent(a) PROVE IInv'
    <2> USE <1>25 DEF NotifySent, Go, AfterNotify
    <2>1. Owners' /\ Paths'
      BY DEF TypeOK, CallType, Owners, Paths, HoldsHs, HoldsIn, HoldsOut, Actors
    <2>2. Counted' /\ CallType'
      BY CountKept DEF TypeOK, CallType, Paths, Actors
    <2>3. FlagType'
      BY DEF TypeOK, FlagType
    <2>4. OutType'
      BY WireGrows DEF TypeOK, OutType, Actors, RawWrites, RawFails
    <2>5. /\ HoldsOut(a) /\ a \in Actors /\ a \notin Writers
          /\ \A b \in Actors : pc[b] = "notify" => b = a
      BY DEF HoldsOut, Actors, Owners
    <2>6. Tails' /\ Notified' /\ NothingAfterCloseNotify' /\ WritesNotInterleaved'
      <3>1. CASE RawFails
        BY <3>1, <2>5 DEF RawFails, TypeOK, CallType, Tails, Unsent, Authors, OwnTail, InFlight,
           Notified, NothingAfterCloseNotify, WritesNotInterleaved, Actors
      <3>2. CASE RawWrites(a, "close")
        <4>1. deadline # "past" /\ wire' = Append(wire, <<a, "close">>)
          BY <3>2 DEF RawWrites
        <4>2. /\ NothingAfterCloseNotify' /\ WritesNotInterleaved'
              /\ \A i \in DOMAIN wire' : wire'[i][2] = "data" =>
                    wire'[i][1] \in Writers /\ pc[wire'[i][1]] \in {"write", "done"}
              /\ \A w \in Writers : pc[w] # "write"
          BY <4>1, <2>5, WireKept
        <4>3. Tails'
          BY <2>5, <4>2 DEF Tails, Unsent, Authors, OwnTail, InFlight, TypeOK, CallType, Actors
        <4>4. Notified'
          BY <2>5 DEF Notified, TypeOK, CallType, Actors
        <4> QED
          BY <4>2, <4>3, <4>4
      <3> QED
        BY <3>1, <3>2
    <2>7. InType' /\ Counts'
      BY InKept DEF Paths, Actors
    <2> QED
      BY <2>1, <2>2, <2>3, <2>4, <2>6, <2>7 DEF TypeOK
  <1>26. ASSUME NEW a \in Closers \cup Shutters, CloseRaw(a) PROVE IInv'
    <2> USE <1>26 DEF CloseRaw, Go
    <2>1. Owners' /\ Paths'
      BY DEF TypeOK, CallType, Owners, Paths, HoldsHs, HoldsIn, HoldsOut, Actors
    <2>2. Counted' /\ CallType'
      BY CountKept DEF TypeOK, CallType, Paths, Actors
    <2>3. FlagType'
      BY DEF TypeOK, FlagType
    <2>4. OutType' /\ Tails' /\ Notified' /\ NothingAfterCloseNotify' /\ WritesNotInterleaved'
      BY OutKept DEF Paths, Actors
    <2>5. InType' /\ Counts'
      BY InKept DEF Paths, Actors
    <2> QED
      BY <2>1, <2>2, <2>3, <2>4, <2>5 DEF TypeOK
  <1>27. ASSUME NEW k \in Kinds, PeerSends(k) PROVE IInv'
    <2> USE <1>27 DEF PeerSends
    <2>1. Owners' /\ Paths' /\ Counted' /\ CallType'
      BY DEF TypeOK, CallType, Owners, Paths, HoldsHs, HoldsIn, HoldsOut, Counted, InFlight
    <2>2. FlagType'
      BY DEF TypeOK, FlagType
    <2>3. OutType' /\ Tails' /\ Notified' /\ NothingAfterCloseNotify' /\ WritesNotInterleaved'
      BY DEF TypeOK, OutType, Tails, Unsent, Authors, OwnTail, InFlight, Notified,
         NothingAfterCloseNotify, WritesNotInterleaved
    <2>4. inbox' \in Seq(Kinds) /\ Len(inbox') = Len(inbox) + 1 /\ Len(inbox) \in Nat
      BY DEF TypeOK, InType
    <2>5. InType' /\ Counts'
      BY <2>4 DEF TypeOK, InType, Counts
    <2> QED
      BY <2>1, <2>2, <2>3, <2>5 DEF TypeOK
  <1>28. CASE PeerCloses \/ UNCHANGED vars
    <2>1. UNCHANGED <<pc, lockVars, writing, deadline, outVars, inbox, sent, inVars>>
      BY <1>28 DEF PeerCloses, vars
    <2>2. FlagType'
      BY <1>28 DEF TypeOK, FlagType, PeerCloses, vars
    <2>3. Owners' /\ Paths' /\ Counted' /\ CallType'
      BY <2>1 DEF TypeOK, CallType, Owners, Paths, HoldsHs, HoldsIn, HoldsOut, Counted, InFlight
    <2>4. OutType' /\ Tails' /\ Notified' /\ NothingAfterCloseNotify' /\ WritesNotInterleaved'
      BY <2>1 DEF TypeOK, OutType, Tails, Unsent, Authors, OwnTail, InFlight, Notified,
         NothingAfterCloseNotify, WritesNotInterleaved
    <2>5. InType' /\ Counts'
      BY <2>1 DEF TypeOK, InType, Counts
    <2> QED
      BY <2>2, <2>3, <2>4, <2>5 DEF TypeOK
  <1>29. ASSUME NEW a \in Readers, ReadNothing(a) PROVE IInv'
    <2> USE <1>29 DEF ReadNothing, Go
    <2>1. Owners' /\ Paths'
      BY DEF TypeOK, CallType, Owners, Paths, HoldsHs, HoldsIn, HoldsOut, Actors
    <2>2. Counted' /\ CallType'
      BY CountKept DEF TypeOK, CallType, Paths, Actors
    <2>3. FlagType'
      BY DEF TypeOK, FlagType
    <2>4. OutType' /\ Tails' /\ Notified' /\ NothingAfterCloseNotify' /\ WritesNotInterleaved'
      BY OutKept DEF Paths, Actors
    <2>5. InType' /\ Counts'
      BY InKept DEF Paths, Actors
    <2> QED
      BY <2>1, <2>2, <2>3, <2>4, <2>5 DEF TypeOK
  <1> QED
    BY <1>1, <1>2, <1>3, <1>4, <1>5, <1>6, <1>7, <1>8, <1>9, <1>10, <1>11, <1>12, <1>13,
       <1>14, <1>15, <1>16, <1>17, <1>18, <1>19, <1>20, <1>21, <1>22, <1>23, <1>24, <1>25,
       <1>26, <1>27, <1>28, <1>29
       DEF Next, HandshakeStep, ReadStep, CloseStep

--------------------------------------------------------------------------------
(* Theorems *)

\* The inductive invariant holds: goroutines inside a critical section hold its
\* mutex, activeCall is exact, a Write's records are the tail of the wire.
THEOREM ConnInductive == Spec => []IInv
  BY InitIInv, NextIInv, PTL DEF Spec

\* Every variable keeps its type: in particular activeCall never counts more
\* Writes than there are, and retryCount stops one above maxUselessRecords.
THEOREM ConnTypeCorrect == Spec => []TypeOK
  <1>1. IInv => TypeOK
    BY DEF IInv
  <1> QED
    BY <1>1, ConnInductive, PTL

\* Nothing follows a close_notify on the wire, however Read, Write, Close and
\* CloseWrite overlap.
THEOREM ConnNothingAfterCloseNotify == Spec => []NothingAfterCloseNotify
  <1>1. IInv => NothingAfterCloseNotify
    BY DEF IInv
  <1> QED
    BY <1>1, ConnInductive, PTL

\* The records of one Write are contiguous, for any number of Writes of any size.
THEOREM ConnWritesNotInterleaved == Spec => []WritesNotInterleaved
  <1>1. IInv => WritesNotInterleaved
    BY DEF IInv
  <1> QED
    BY <1>1, ConnInductive, PTL

\* No byte of data is lost, returned twice or overwritten, for any number of Reads
\* with buffers of any length and records of any size.
THEOREM ConnNoDataLost == Spec => []NoDataLost
  <1>1. IInv => NoDataLost
    BY DEF IInv, Counts, NoDataLost, Reading
  <1> QED
    BY <1>1, ConnInductive, PTL

\* Useless records in a row are bounded, for any maxUselessRecords.
THEOREM ConnUselessBounded == Spec => []UselessBounded
  <1>1. IInv => UselessBounded
    BY ConnAssumption DEF IInv, TypeOK, InType, Counts, UselessBounded
  <1> QED
    BY <1>1, ConnInductive, PTL
================================================================================
