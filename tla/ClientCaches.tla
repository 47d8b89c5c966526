------------------------------ MODULE ClientCaches ------------------------------
(***************************************************************************)
(* What client connections share: the session cache (lruSessionCache,      *)
(* gotls/common.go) and the table of parsed certificates (certCache,       *)
(* gotls/cache.go).                                                        *)
(*                                                                         *)
(* A connection looks its server up in the session cache, shakes hands,    *)
(* which without a session brings the server's certificate through the     *)
(* certificate table, and stores the session it is given.  The session and *)
(* the connection hold a handle to the certificate; once neither does, the *)
(* garbage collector may run the handle's finalizer, which counts the      *)
(* reference down and evicts the certificate from the table.  Every call   *)
(* of the session cache is atomic (its Mutex); the table is a sync.Map and *)
(* its reference counts are atomics, each operation a step of its own.     *)
(***************************************************************************)
EXTENDS Naturals, Sequences, FiniteSets

CONSTANTS
    Conns,     \* client connections
    Keys,      \* clientSessionCacheKey of the servers they connect to
    Certs,     \* certificates, by their DER encoding
    CertOf,    \* CertOf[k]: the certificate server k sends
    Capacity,  \* argument of NewLRUClientSessionCache
    Nil        \* a nil *ClientSessionState, and no connection, key or entry

\* A connection establishes at most one session and parses one certificate, so its
\* name also names them: the session, its handle, and the cacheEntry it may add.
Sessions == [by : Conns, server : Keys]

ASSUME ClientCachesAssumption ==
    /\ Capacity \in Nat
    /\ CertOf \in [Keys -> Certs]
    /\ Nil \notin Conns \cup Keys \cup Sessions

VARIABLES
    m,        \* lruSessionCache.m: keys to list elements
    q,        \* lruSessionCache.q: list elements, front first
    entry,    \* the lruSessionCacheEntry of each list element
    table,    \* certCache: each certificate's cacheEntry, or Nil
    refs,     \* cacheEntry.refs
    pc,       \* per connection, where it is
    server,   \* per connection, the key of its server
    offered,  \* per connection, the session it loaded, or Nil
    ent,      \* per connection, the cacheEntry its handle counts in
    handle,   \* per connection, its activeCert: none, live, evicting, gone
    dropped   \* history: sessions whose resumption failed and were dropped

lruVars  == <<m, q, entry>>
certVars == <<table, refs, ent, handle>>
vars == <<lruVars, certVars, pc, server, offered, dropped>>

LruType ==
    /\ DOMAIN m \subseteq Keys /\ m \in [DOMAIN m -> DOMAIN entry]
    /\ q \in Seq(DOMAIN entry)
    /\ entry \in [DOMAIN entry -> [key : Keys, state : Sessions \cup {Nil}]]

CertType ==
    /\ table \in [Certs -> Conns \cup {Nil}] /\ refs \in [Conns -> Nat]
    /\ ent \in [Conns -> Conns \cup {Nil}]
    /\ handle \in [Conns -> {"none", "live", "evicting", "gone"}]

ConnType ==
    /\ pc \in [Conns -> {"new", "expired", "hello", "store", "activate", "finish", "save",
                         "open", "drop", "closed"}]
    /\ server \in [Conns -> Keys \cup {Nil}]
    /\ offered \in [Conns -> Sessions \cup {Nil}]
    /\ dropped \subseteq Sessions

\* Every variable has its type.
TypeOK == LruType /\ CertType /\ ConnType

--------------------------------------------------------------------------------
(* lruSessionCache *)

DefaultCapacity == 64   \* defaultSessionCacheCapacity
EffectiveCapacity == IF Capacity < 1 THEN DefaultCapacity ELSE Capacity

\* The elements of a list, and the list with e unlinked.
Elements(s) == {s[i] : i \in DOMAIN s}
Without(s, e) ==
    LET p == CHOOSE p \in DOMAIN s : s[p] = e IN
    [i \in 1 .. Len(s) - 1 |-> s[IF i < p THEN i ELSE i + 1]]
MoveToFront(e) == q' = <<e>> \o Without(q, e)
Entry(k, cs) == [key |-> k, state |-> cs]

\* Put of a key the cache has: a nil state removes it.
PutKnown(k, cs) ==
    /\ k \in DOMAIN m
    /\ IF cs = Nil
       THEN /\ q' = Without(q, m[k])
            /\ m' = [j \in DOMAIN m \ {k} |-> m[j]]
            /\ UNCHANGED entry
       ELSE /\ entry' = [entry EXCEPT ![m[k]].state = cs]
            /\ MoveToFront(m[k])
            /\ UNCHANGED m

\* Put of a new key while there is room: a nil state is stored like any other.
PutNew(k, cs) ==
    /\ k \notin DOMAIN m /\ Len(q) < EffectiveCapacity
    /\ LET e == CHOOSE e \in 1 .. EffectiveCapacity : e \notin Elements(q) IN
       /\ entry' = [x \in DOMAIN entry \cup {e} |-> IF x = e THEN Entry(k, cs) ELSE entry[x]]
       /\ m' = [j \in DOMAIN m \cup {k} |-> IF j = k THEN e ELSE m[j]]
       /\ q' = <<e>> \o q

\* Mutant: the reused element keeps the session of the evicted key.
PutEvictsKeepsState(k, cs) ==
    /\ k \notin DOMAIN m /\ Len(q) >= EffectiveCapacity
    /\ LET e == q[Len(q)]
           kept == DOMAIN m \ {entry[e].key} IN
       /\ m' = [j \in kept \cup {k} |-> IF j = k THEN e ELSE m[j]]
       /\ entry' = [entry EXCEPT ![e].key = k]
       /\ MoveToFront(e)

\* Put of a new key in a full cache: the least recently used element is reused.
PutEvicts(k, cs) ==
    /\ k \notin DOMAIN m /\ Len(q) >= EffectiveCapacity
    /\ LET e == q[Len(q)]
           kept == DOMAIN m \ {entry[e].key} IN
       /\ m' = [j \in kept \cup {k} |-> IF j = k THEN e ELSE m[j]]
       /\ entry' = [entry EXCEPT ![e] = Entry(k, cs)]
       /\ MoveToFront(e)

Put(k, cs) == PutKnown(k, cs) \/ PutNew(k, cs) \/ PutEvicts(k, cs)

\* What Get returns; a nil state that was stored counts as none for loadSession.
Cached(k) == IF k \in DOMAIN m THEN entry[m[k]].state ELSE Nil
GetTouches(k) ==
    /\ IF k \in DOMAIN m THEN MoveToFront(m[k]) ELSE UNCHANGED q
    /\ UNCHANGED <<m, entry>>

--------------------------------------------------------------------------------
(* certCache *)

Der(c) == CertOf[server[c]]

\* newCert finds the certificate.
CertLoaded(c) == table[Der(c)] # Nil /\ ent' = [ent EXCEPT ![c] = table[Der(c)]]

\* newCert's LoadOrStore, once the certificate is parsed.
LoadOrStore(c) ==
    LET e == IF table[Der(c)] = Nil THEN c ELSE table[Der(c)] IN
    /\ table' = [table EXCEPT ![Der(c)] = e]
    /\ ent' = [ent EXCEPT ![c] = e]

\* certCache.active: count, then hand out the handle.
Active(c) ==
    /\ refs' = [refs EXCEPT ![ent[c]] = @ + 1]
    /\ handle' = [handle EXCEPT ![c] = "live"]

\* The handle of connection c is held by c, by c's session in the cache or by a
\* connection that is resuming that session.
Reachable(c) ==
    \/ pc[c] # "closed"
    \/ \E k \in DOMAIN m : entry[m[k]].state # Nil /\ entry[m[k]].state.by = c
    \/ \E d \in Conns : offered[d] # Nil /\ offered[d].by = c

\* The finalizer set by active counts down ...
FinalizerCounts(c) ==
    /\ handle[c] = "live" /\ ~Reachable(c)
    /\ refs' = [refs EXCEPT ![ent[c]] = @ - 1]
    /\ handle' = [handle EXCEPT ![c] = IF refs[ent[c]] = 1 THEN "evicting" ELSE "gone"]
    /\ UNCHANGED <<lruVars, table, ent, pc, server, offered, dropped>>

\* Mutant: an entry nobody counts is left in the table.
FinalizerForgets(c) ==
    /\ handle[c] = "evicting"
    /\ handle' = [handle EXCEPT ![c] = "gone"]
    /\ table' = [table EXCEPT ![Der(c)] = IF refs[ent[c]] = 0 THEN @ ELSE Nil]
    /\ UNCHANGED <<lruVars, refs, ent, pc, server, offered, dropped>>

\* ... and at zero evicts by the certificate's bytes, whatever entry is there by now.
FinalizerEvicts(c) ==
    /\ handle[c] = "evicting"
    /\ handle' = [handle EXCEPT ![c] = "gone"]
    /\ table' = [table EXCEPT ![Der(c)] = Nil]
    /\ UNCHANGED <<lruVars, refs, ent, pc, server, offered, dropped>>

--------------------------------------------------------------------------------
(* A client handshake, as far as it touches the caches *)

Go(c, from, to) == pc[c] = from /\ pc' = [pc EXCEPT ![c] = to]

\* loadSession: nothing cached.
LoadNothing(c, k) ==
    /\ Go(c, "new", "hello")
    /\ server' = [server EXCEPT ![c] = k]
    /\ GetTouches(k)
    /\ Cached(k) = Nil
    /\ UNCHANGED <<certVars, offered, dropped>>

\* loadSession: a session that this connection may not offer (its version, its
\* suite, its name), or whose certificate has expired and is to be deleted.
LoadUnusable(c, k) ==
    /\ Go(c, "new", "hello") \/ Go(c, "new", "expired")
    /\ server' = [server EXCEPT ![c] = k]
    /\ GetTouches(k)
    /\ Cached(k) # Nil
    /\ UNCHANGED <<certVars, offered, dropped>>

DeleteExpired(c) ==
    /\ Go(c, "expired", "hello")
    /\ Put(server[c], Nil)
    /\ UNCHANGED <<certVars, server, offered, dropped>>

LoadOffered(c, k) ==
    /\ Go(c, "new", "hello")
    /\ server' = [server EXCEPT ![c] = k]
    /\ GetTouches(k)
    /\ Cached(k) # Nil
    /\ offered' = [offered EXCEPT ![c] = Cached(k)]
    /\ UNCHANGED <<certVars, dropped>>

\* The server resumes the session: no certificate message, no handle.
Resumed(c) ==
    /\ Go(c, "hello", "finish")
    /\ offered[c] # Nil
    /\ UNCHANGED <<lruVars, certVars, server, offered, dropped>>

\* verifyServerCertificate looks the certificate up ...
CertificateKnown(c) ==
    /\ Go(c, "hello", "activate")
    /\ CertLoaded(c)
    /\ UNCHANGED <<lruVars, table, refs, handle, server, offered, dropped>>

CertificateUnknown(c) ==
    /\ Go(c, "hello", "store")
    /\ table[Der(c)] = Nil
    /\ UNCHANGED <<lruVars, certVars, server, offered, dropped>>

\* ... adds it if it parses ...
CertificateStored(c) ==
    /\ Go(c, "store", "activate")
    /\ LoadOrStore(c)
    /\ UNCHANGED <<lruVars, refs, handle, server, offered, dropped>>

\* ... and takes a handle.
CertificateActive(c) ==
    /\ Go(c, "activate", "finish")
    /\ Active(c)
    /\ UNCHANGED <<lruVars, table, ent, server, offered, dropped>>

\* The handshake ends: with a new ticket, without one, or with an error, at any
\* message or because the certificate does not parse.
Completed(c) ==
    /\ Go(c, "finish", "save") \/ Go(c, "finish", "open")
    /\ offered' = [offered EXCEPT ![c] = IF pc'[c] = "open" THEN Nil ELSE @]
    /\ UNCHANGED <<lruVars, certVars, server, dropped>>

Failed(c) ==
    /\ \E from \in {"hello", "store", "finish"} :
          Go(c, from, IF offered[c] # Nil THEN "drop" ELSE "closed")
    /\ UNCHANGED <<lruVars, certVars, server, offered, dropped>>

\* saveSessionTicket
SaveSession(c) ==
    /\ Go(c, "save", "open")
    /\ Put(server[c], [by |-> c, server |-> server[c]])
    /\ offered' = [offered EXCEPT ![c] = Nil]
    /\ UNCHANGED <<certVars, server, dropped>>

\* Mutant: a full cache is left alone.
DropSessionUnlessFull(c) ==
    /\ Go(c, "drop", "closed")
    /\ IF Len(q) = EffectiveCapacity THEN UNCHANGED lruVars ELSE Put(server[c], Nil)
    /\ dropped' = dropped \cup {offered[c]}
    /\ offered' = [offered EXCEPT ![c] = Nil]
    /\ UNCHANGED <<certVars, server>>

\* The deferred function of clientHandshake: a session that failed is thrown away.
DropSession(c) ==
    /\ Go(c, "drop", "closed")
    /\ Put(server[c], Nil)
    /\ dropped' = dropped \cup {offered[c]}
    /\ offered' = [offered EXCEPT ![c] = Nil]
    /\ UNCHANGED <<certVars, server>>

CloseConn(c) ==
    /\ Go(c, "open", "closed")
    /\ UNCHANGED <<lruVars, certVars, server, offered, dropped>>

--------------------------------------------------------------------------------
Init ==
    /\ m = << >> /\ q = << >> /\ entry = << >>
    /\ table = [x \in Certs |-> Nil]
    /\ refs = [e \in Conns |-> 0]
    /\ pc = [c \in Conns |-> "new"]
    /\ server = [c \in Conns |-> Nil]
    /\ offered = [c \in Conns |-> Nil]
    /\ ent = [c \in Conns |-> Nil]
    /\ handle = [c \in Conns |-> "none"]
    /\ dropped = {}

ConnStep(c) ==
    \/ DeleteExpired(c) \/ Resumed(c) \/ CertificateKnown(c) \/ CertificateUnknown(c)
    \/ CertificateStored(c) \/ CertificateActive(c) \/ Completed(c) \/ Failed(c)
    \/ SaveSession(c) \/ DropSession(c)

Next ==
    \/ \E c \in Conns, k \in Keys : LoadNothing(c, k) \/ LoadUnusable(c, k) \/ LoadOffered(c, k)
    \/ \E c \in Conns : ConnStep(c) \/ CloseConn(c)
    \/ \E c \in Conns : FinalizerCounts(c) \/ FinalizerEvicts(c)

Spec == Init /\ [][Next]_vars

--------------------------------------------------------------------------------
(* Properties *)

\* lruSessionCache keeps the promise of ClientSessionCache: reusing the element of
\* an evicted key never gives one server's session to another.
SC == INSTANCE SessionCache WITH store <- [k \in Keys |-> Cached(k)]
ImplementsSessionCache == SC!Spec

\* A session whose resumption failed is not in the cache once clientHandshake has
\* dropped it, whatever other connections put or dropped in between.
DroppedStaysDropped ==
    \A k \in Keys : Cached(k) \notin dropped

\* The comment on certCache.active calls its race with the finalizer safe: the count
\* is exact and no certificate stays in the table for good.  An entry in the table
\* is counted, or about to be counted or evicted.
NoCertificateLeak ==
    /\ \A e \in Conns :
          refs[e] = Cardinality({c \in Conns : ent[c] = e /\ handle[c] = "live"})
    /\ \A x \in Certs : table[x] # Nil =>
          \/ refs[table[x]] > 0
          \/ \E c \in Conns : ent[c] = table[x] /\ (pc[c] = "activate" \/ handle[c] = "evicting")
================================================================================
