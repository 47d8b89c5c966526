--------------------------- MODULE ClientCachesProofs ---------------------------
(***************************************************************************)
(* What ClientCaches promises for any number of connections, servers and   *)
(* certificates and for every capacity: proofs of its two safety           *)
(* invariants and that lruSessionCache implements SessionCache.            *)
(***************************************************************************)
EXTENDS ClientCaches, FiniteSetTheorems, FunctionTheorems, TLAPS

Distinct(s) == \A i, j \in DOMAIN s : s[i] = s[j] => i = j

\* The list has no element twice and holds every element the map points to, and
\* an element names the key it is filed under, so that m is injective.
Filed ==
    /\ Distinct(q)
    /\ \A k \in DOMAIN m : m[k] \in Elements(q) /\ entry[m[k]].key = k

\* A session exists only once its connection has saved it, and is filed under and
\* offered to its own server.
Saved(s) == pc[s.by] \in {"open", "closed"}
Issued ==
    /\ \A k \in Keys : Cached(k) # Nil => Saved(Cached(k)) /\ Cached(k).server = k
    /\ \A s \in dropped : Saved(s)
    /\ \A c \in Conns : offered[c] # Nil => Saved(offered[c]) /\ offered[c].server = server[c]

\* Where a connection is says what it has: a server, an offer to drop, a handle.
Staged ==
    \A c \in Conns :
        /\ pc[c] # "new" => server[c] \in Keys
        /\ pc[c] \in {"new", "expired"} => offered[c] = Nil
        /\ pc[c] = "drop" => offered[c] # Nil
        /\ pc[c] \in {"new", "expired", "hello", "store"} => ent[c] = Nil
        /\ pc[c] \in {"new", "expired", "hello", "store", "activate"} => handle[c] = "none"
        /\ ent[c] = Nil => handle[c] = "none"
        /\ pc[c] = "activate" => ent[c] # Nil

\* An entry of the table, and the entry a connection counts in, are of the
\* certificate they are filed and counted under.
OwnCert ==
    /\ \A x \in Certs : table[x] # Nil => pc[table[x]] # "new" /\ Der(table[x]) = x
    /\ \A c \in Conns : ent[c] # Nil => pc[ent[c]] # "new" /\ Der(ent[c]) = Der(c)

\* The handles counted in an entry.
Live(e) == {c \in Conns : ent[c] = e /\ handle[c] = "live"}
Counted == \A e \in Conns : IsFiniteSet(Live(e)) /\ refs[e] = Cardinality(Live(e))
Kept ==
    \A x \in Certs : table[x] # Nil =>
        \/ refs[table[x]] > 0
        \/ \E c \in Conns : ent[c] = table[x] /\ (pc[c] = "activate" \/ handle[c] = "evicting")

IInv == /\ TypeOK /\ Filed /\ Issued /\ Staged /\ OwnCert /\ Counted /\ Kept
        /\ DroppedStaysDropped
--------------------------------------------------------------------------------
(* Lemmas about the list *)

\* Unlinking one element of a list without duplicates takes that element away.
LEMMA WithoutFacts ==
    ASSUME NEW S, NEW s \in Seq(S), Distinct(s), NEW e \in Elements(s)
    PROVE  /\ Without(s, e) \in Seq(S) /\ Distinct(Without(s, e))
           /\ Elements(Without(s, e)) = Elements(s) \ {e}
  <1> DEFINE p == CHOOSE p \in DOMAIN s : s[p] = e
             t == [i \in 1 .. Len(s) - 1 |-> s[IF i < p THEN i ELSE i + 1]]
  <1>1. /\ Without(s, e) = t /\ Len(s) \in Nat /\ DOMAIN s = 1 .. Len(s)
        /\ p \in 1 .. Len(s) /\ s[p] = e
    BY DEF Without, Elements
  <1>2. \A i \in 1 .. Len(s) - 1 : t[i] = s[IF i < p THEN i ELSE i + 1]
    OBVIOUS
  <1>3. t \in Seq(S) /\ DOMAIN t = 1 .. Len(s) - 1
    BY <1>1
  <1> HIDE DEF p, t
  <1> DEFINE at(i) == IF i < p THEN i ELSE i + 1
  <1>4. \A i \in 1 .. Len(s) - 1 : t[i] = s[at(i)] /\ at(i) \in 1 .. Len(s) /\ at(i) # p
    BY <1>1, <1>2
  <1>5. \A i, j \in 1 .. Len(s) - 1 : at(i) = at(j) => i = j
    BY <1>1
  <1> HIDE DEF at
  <1>6. Distinct(t)
    BY <1>1, <1>3, <1>4, <1>5 DEF Distinct
  <1>7. ASSUME NEW x \in Elements(t) PROVE x \in Elements(s) \ {e}
    <2>1. PICK i \in 1 .. Len(s) - 1 : t[i] = x
      BY <1>3 DEF Elements
    <2>2. x = s[at(i)] /\ at(i) \in DOMAIN s /\ s[at(i)] # s[p]
      BY <1>1, <1>4, <2>1 DEF Distinct
    <2> QED
      BY <1>1, <2>2 DEF Elements
  <1>8. ASSUME NEW x \in Elements(s) \ {e} PROVE x \in Elements(t)
    <2>1. PICK i \in 1 .. Len(s) : s[i] = x
      BY <1>1 DEF Elements
    <2>2. CASE i < p
      <3>1. i \in 1 .. Len(s) - 1 /\ t[i] = x
        BY <1>1, <1>2, <2>1, <2>2
      <3> QED
        BY <1>3, <3>1 DEF Elements
    <2>3. CASE i > p
      <3>1. i - 1 \in 1 .. Len(s) - 1 /\ t[i - 1] = x
        BY <1>1, <1>2, <2>1, <2>3
      <3> QED
        BY <1>3, <3>1 DEF Elements
    <2> QED
      BY <1>1, <1>8, <2>1, <2>2, <2>3
  <1> QED
    BY <1>1, <1>3, <1>6, <1>7, <1>8

\* A new element in front is one more element.
LEMMA FrontFacts ==
    ASSUME NEW S, NEW s \in Seq(S), Distinct(s), NEW e \in S \ Elements(s)
    PROVE  /\ <<e>> \o s \in Seq(S) /\ Distinct(<<e>> \o s)
           /\ Elements(<<e>> \o s) = Elements(s) \cup {e}
  <1> DEFINE t == <<e>> \o s
  <1>1. /\ t \in Seq(S) /\ Len(s) \in Nat /\ DOMAIN s = 1 .. Len(s)
        /\ DOMAIN t = 1 .. Len(s) + 1
        /\ \A i \in 1 .. Len(s) + 1 : t[i] = IF i = 1 THEN e ELSE s[i - 1]
    OBVIOUS
  <1> HIDE DEF t
  <1>2. Distinct(t)
    <2> SUFFICES ASSUME NEW i \in 1 .. Len(s) + 1, NEW j \in 1 .. Len(s) + 1, t[i] = t[j]
                 PROVE  i = j
      BY <1>1 DEF Distinct
    <2>1. \A n \in 1 .. Len(s) + 1 : n # 1 => n - 1 \in DOMAIN s /\ t[n] = s[n - 1]
      BY <1>1
    <2>2. \A n \in 1 .. Len(s) + 1 : n # 1 => t[n] # e
      BY <2>1 DEF Elements
    <2>3. CASE i = 1 \/ j = 1
      BY <1>1, <2>2, <2>3
    <2>4. CASE i # 1 /\ j # 1
      <3>1. i - 1 = j - 1
        BY <2>1, <2>4 DEF Distinct
      <3> QED
        BY <1>1, <3>1
    <2> QED
      BY <2>3, <2>4
  <1>3. \A x \in Elements(t) : x \in Elements(s) \cup {e}
    BY <1>1 DEF Elements
  <1>4. e \in Elements(t)
    BY <1>1 DEF Elements
  <1>5. ASSUME NEW x \in Elements(s) PROVE x \in Elements(t)
    <2>1. PICK i \in 1 .. Len(s) : s[i] = x
      BY <1>1 DEF Elements
    <2>2. i + 1 \in 1 .. Len(s) + 1 /\ t[i + 1] = x
      BY <1>1, <2>1
    <2> QED
      BY <1>1, <2>2 DEF Elements
  <1> QED
    BY <1>1, <1>2, <1>3, <1>4, <1>5 DEF t

\* A list shorter than the capacity leaves an element free.
LEMMA FreeElement ==
    ASSUME NEW S, NEW s \in Seq(S), Len(s) < EffectiveCapacity
    PROVE  \E e \in 1 .. EffectiveCapacity : e \notin Elements(s)
  <1> SUFFICES ASSUME 1 .. EffectiveCapacity \subseteq Elements(s) PROVE FALSE
    OBVIOUS
  <1>1. EffectiveCapacity \in Nat /\ Len(s) \in Nat /\ DOMAIN s = 1 .. Len(s)
    BY ClientCachesAssumption DEF EffectiveCapacity, DefaultCapacity
  <1>2. s \in Surjection(1 .. Len(s), Elements(s))
    BY <1>1 DEF Surjection, Elements
  <1> DEFINE n == Len(s)
  <1>3. n \in Nat => IsFiniteSet(1 .. n) /\ Cardinality(1 .. n) = n
    <2> HIDE DEF n
    <2> QED
      BY FS_Interval
  <1>4. IsFiniteSet(Elements(s)) /\ Cardinality(Elements(s)) <= Len(s)
    BY <1>1, <1>2, <1>3, FS_Surjection
  <1>5. Cardinality(1 .. EffectiveCapacity) = EffectiveCapacity
    BY <1>1, FS_Interval
  <1>6. Cardinality(1 .. EffectiveCapacity) <= Cardinality(Elements(s))
    BY <1>4, FS_Subset
  <1>7. Cardinality(Elements(s)) \in Nat
    BY <1>4, FS_CardinalityType
  <1> QED
    BY <1>1, <1>4, <1>5, <1>6, <1>7

\* MoveToFront keeps the elements.
LEMMA MoveFacts ==
    ASSUME NEW S, q \in Seq(S), Distinct(q), NEW e \in Elements(q), MoveToFront(e)
    PROVE  q' \in Seq(S) /\ Distinct(q') /\ Elements(q') = Elements(q)
  <1>1. e \in S
    BY DEF Elements
  <1>2. /\ Without(q, e) \in Seq(S) /\ Distinct(Without(q, e))
        /\ Elements(Without(q, e)) = Elements(q) \ {e}
    BY WithoutFacts
  <1>3. /\ <<e>> \o Without(q, e) \in Seq(S) /\ Distinct(<<e>> \o Without(q, e))
        /\ Elements(<<e>> \o Without(q, e)) = (Elements(q) \ {e}) \cup {e}
    BY <1>1, <1>2, FrontFacts
  <1> QED
    BY <1>3 DEF MoveToFront

--------------------------------------------------------------------------------
(* Lemmas about the session cache *)

\* Put files the session under its key, and may at most forget others.
LEMMA PutFacts ==
    ASSUME LruType, Filed, NEW k \in Keys, NEW cs \in Sessions \cup {Nil}, Put(k, cs)
    PROVE  /\ LruType' /\ Filed' /\ Cached(k)' = cs
           /\ \A j \in Keys \ {k} : Cached(j)' \in {Cached(j), Nil}
  <1> USE DEF LruType, Filed
  <1>1. CASE PutKnown(k, cs) /\ cs = Nil
    <2>1. /\ k \in DOMAIN m /\ entry' = entry /\ q' = Without(q, m[k])
          /\ m' = [j \in DOMAIN m \ {k} |-> m[j]]
      BY <1>1 DEF PutKnown
    <2>2. q' \in Seq(DOMAIN entry) /\ Distinct(q') /\ Elements(q') = Elements(q) \ {m[k]}
      BY <2>1, WithoutFacts
    <2>3. LruType'
      BY <2>1, <2>2
    <2>4. Filed'
      BY <2>1, <2>2
    <2> QED
      BY <1>1, <2>1, <2>3, <2>4 DEF Cached
  <1>2. CASE PutKnown(k, cs) /\ cs # Nil
    <2>1. /\ k \in DOMAIN m /\ m' = m /\ MoveToFront(m[k])
          /\ entry' = [entry EXCEPT ![m[k]].state = cs]
      BY <1>2 DEF PutKnown
    <2>2. q' \in Seq(DOMAIN entry) /\ Distinct(q') /\ Elements(q') = Elements(q)
      BY <2>1, MoveFacts
    <2>3. LruType'
      BY <2>1, <2>2
    <2>4. Filed'
      BY <2>1, <2>2
    <2>5. \A j \in DOMAIN m \ {k} : m[j] # m[k]
      BY <2>1
    <2> QED
      BY <2>1, <2>3, <2>4, <2>5 DEF Cached
  <1>3. CASE PutNew(k, cs)
    <2> DEFINE e == CHOOSE e \in 1 .. EffectiveCapacity : e \notin Elements(q)
    <2>1. e \notin Elements(q)
      BY <1>3, FreeElement DEF PutNew
    <2>2. /\ k \notin DOMAIN m /\ q' = <<e>> \o q
          /\ entry' = [x \in DOMAIN entry \cup {e} |->
                          IF x = e THEN Entry(k, cs) ELSE entry[x]]
          /\ m' = [j \in DOMAIN m \cup {k} |-> IF j = k THEN e ELSE m[j]]
      BY <1>3 DEF PutNew
    <2> HIDE DEF e
    <2>3. q \in Seq(DOMAIN entry') /\ e \in DOMAIN entry'
      BY <2>2
    <2>4. q' \in Seq(DOMAIN entry') /\ Distinct(q') /\ Elements(q') = Elements(q) \cup {e}
      BY <2>1, <2>2, <2>3, FrontFacts
    <2>5. \A j \in DOMAIN m : m[j] # e
      BY <2>1
    <2>6. LruType'
      BY <2>2, <2>4 DEF Entry
    <2>7. Filed'
      BY <2>2, <2>4, <2>5 DEF Entry
    <2> QED
      BY <2>2, <2>5, <2>6, <2>7 DEF Cached, Entry
  <1>4. CASE PutEvicts(k, cs)
    <2> DEFINE e == q[Len(q)]
               kept == DOMAIN m \ {entry[e].key}
    <2>1. /\ k \notin DOMAIN m /\ Len(q) >= EffectiveCapacity /\ MoveToFront(e)
          /\ entry' = [entry EXCEPT ![e] = Entry(k, cs)]
          /\ m' = [j \in kept \cup {k} |-> IF j = k THEN e ELSE m[j]]
      BY <1>4 DEF PutEvicts
    <2>2. EffectiveCapacity \in Nat \ {0}
      BY ClientCachesAssumption DEF EffectiveCapacity, DefaultCapacity
    <2>3. e \in Elements(q) /\ e \in DOMAIN entry
      BY <2>1, <2>2 DEF Elements
    <2> HIDE DEF e
    <2>4. q' \in Seq(DOMAIN entry) /\ Distinct(q') /\ Elements(q') = Elements(q)
      BY <2>1, <2>3, MoveFacts
    <2>5. \A j \in kept : m[j] # e
      OBVIOUS
    <2>6. LruType'
      BY <2>1, <2>3, <2>4 DEF Entry
    <2>7. Filed'
      BY <2>1, <2>3, <2>4, <2>5 DEF Entry
    <2> QED
      BY <2>1, <2>3, <2>5, <2>6, <2>7 DEF Cached, Entry
  <1> QED
    BY <1>1, <1>2, <1>3, <1>4 DEF Put

\* Get only moves an element.
LEMMA GetFacts ==
    ASSUME LruType, Filed, NEW k \in Keys, GetTouches(k)
    PROVE  LruType' /\ Filed' /\ \A j \in Keys : Cached(j)' = Cached(j)
  <1>1. q' \in Seq(DOMAIN entry) /\ Distinct(q') /\ Elements(q') = Elements(q)
    BY MoveFacts DEF GetTouches, LruType, Filed
  <1> QED
    BY <1>1 DEF GetTouches, LruType, Filed, Cached

--------------------------------------------------------------------------------
(* The inductive invariant *)

\* What a step leaves alone stays as it is.
LEMMA Frames ==
    ASSUME IInv
    PROVE  /\ UNCHANGED <<m, q, entry>> => LruType'
           /\ UNCHANGED <<table, refs, ent, handle>> => CertType'
           /\ UNCHANGED <<pc, server, offered, dropped>> => ConnType'
           /\ UNCHANGED <<m, q, entry>> => Filed'
           /\ UNCHANGED <<m, entry, pc, server, offered, dropped>> => Issued'
           /\ UNCHANGED <<pc, server, offered, ent, handle>> => Staged'
           /\ UNCHANGED <<table, ent, pc, server>> => OwnCert'
           /\ UNCHANGED <<refs, ent, handle>> => Counted'
           /\ UNCHANGED <<table, refs, ent, handle, pc>> => Kept'
           /\ UNCHANGED <<m, entry, dropped>> => DroppedStaysDropped'
  <1>1. UNCHANGED <<m, q, entry>> => LruType'
    BY DEF IInv, TypeOK, LruType
  <1>2. UNCHANGED <<table, refs, ent, handle>> => CertType'
    BY DEF IInv, TypeOK, CertType
  <1>3. UNCHANGED <<pc, server, offered, dropped>> => ConnType'
    BY DEF IInv, TypeOK, ConnType
  <1>4. UNCHANGED <<m, q, entry>> => Filed'
    BY DEF IInv, Filed
  <1>5. UNCHANGED <<m, entry, pc, server, offered, dropped>> => Issued'
    BY DEF IInv, TypeOK, ConnType, Issued, Saved, Cached
  <1>6. UNCHANGED <<pc, server, offered, ent, handle>> => Staged'
    BY DEF IInv, TypeOK, CertType, ConnType, Staged
  <1>7. UNCHANGED <<table, ent, pc, server>> => OwnCert'
    BY DEF IInv, TypeOK, CertType, ConnType, Staged, OwnCert, Der
  <1>8. UNCHANGED <<refs, ent, handle>> => Counted'
    BY DEF IInv, TypeOK, CertType, Counted, Live
  <1>9. UNCHANGED <<table, refs, ent, handle, pc>> => Kept'
    BY DEF IInv, TypeOK, CertType, ConnType, Kept, Staged
  <1>10. UNCHANGED <<m, entry, dropped>> => DroppedStaysDropped'
    BY DEF IInv, DroppedStaysDropped, Cached
  <1> QED
    BY <1>1, <1>2, <1>3, <1>4, <1>5, <1>6, <1>7, <1>8, <1>9, <1>10

\* A session is named by its connection.
LEMMA SessionBy == \A s \in Sessions : s.by \in Conns /\ s.server \in Keys
  BY DEF Sessions

\* A session that was saved stays so.
LEMMA SavedKept ==
    ASSUME ConnType, NEW c \in Conns, NEW to, pc' = [pc EXCEPT ![c] = to],
           pc[c] \in {"open", "closed"} => to \in {"open", "closed"}
    PROVE  \A s \in Sessions : Saved(s) => Saved(s)'
  BY SessionBy DEF ConnType, Saved

\* Every step of a connection and of a finalizer keeps the invariant.
LEMMA NextIInv == IInv /\ [Next]_vars => IInv'
  <1> SUFFICES ASSUME IInv, [Next]_vars PROVE IInv'
    OBVIOUS
  <1> USE ClientCachesAssumption, IInv DEF IInv, lruVars, certVars
  <1>1. ASSUME NEW c \in Conns, NEW k \in Keys, LoadNothing(c, k) PROVE IInv'
    <2>1. LruType' /\ Filed' /\ \A j \in Keys : Cached(j)' = Cached(j)
      BY <1>1, GetFacts DEF LoadNothing, Go, TypeOK
    <2>2. LruType'
      BY <2>1
    <2>3. ConnType'
      BY <1>1 DEF LoadNothing, Go, TypeOK, ConnType
    <2>4. Filed'
      BY <2>1
    <2>5. Issued'
      BY <1>1, <2>1 DEF LoadNothing, Go, TypeOK, ConnType, Issued, Saved, Staged
    <2>6. Staged'
      BY <1>1 DEF LoadNothing, Go, TypeOK, CertType, ConnType, Staged
    <2>7. OwnCert'
      BY <1>1 DEF LoadNothing, Go, TypeOK, CertType, ConnType, Staged, OwnCert, Der
    <2>8. Kept'
      BY <1>1 DEF LoadNothing, Go, TypeOK, CertType, ConnType, Kept, Staged
    <2> QED
      BY <1>1, <2>2, <2>3, <2>4, <2>5, <2>6, <2>7, <2>8, Frames DEF TypeOK, LoadNothing,
         GetTouches
  <1>2. ASSUME NEW c \in Conns, NEW k \in Keys, LoadUnusable(c, k) PROVE IInv'
    <2>1. LruType' /\ Filed' /\ \A j \in Keys : Cached(j)' = Cached(j)
      BY <1>2, GetFacts DEF LoadUnusable, Go, TypeOK
    <2>2. LruType'
      BY <2>1
    <2>3. ConnType'
      BY <1>2 DEF LoadUnusable, Go, TypeOK, ConnType
    <2>4. Filed'
      BY <2>1
    <2>5. Issued'
      <3>1. \A s \in Sessions : Saved(s) => Saved(s)'
        BY <1>2, SavedKept DEF LoadUnusable, Go, TypeOK
      <3> QED
        BY <1>2, <2>1, <3>1 DEF LoadUnusable, Go, TypeOK, LruType, ConnType, Issued, Staged,
           Cached
    <2>6. Staged'
      BY <1>2 DEF LoadUnusable, Go, TypeOK, CertType, ConnType, Staged
    <2>7. OwnCert'
      BY <1>2 DEF LoadUnusable, Go, TypeOK, CertType, ConnType, Staged, OwnCert, Der
    <2>8. Kept'
      BY <1>2 DEF LoadUnusable, Go, TypeOK, CertType, ConnType, Kept, Staged
    <2> QED
      BY <1>2, <2>2, <2>3, <2>4, <2>5, <2>6, <2>7, <2>8, Frames DEF TypeOK, LoadUnusable,
         GetTouches
  <1>3. ASSUME NEW c \in Conns, DeleteExpired(c) PROVE IInv'
    <2>1. /\ LruType' /\ Filed' /\ Cached(server[c])' = Nil
          /\ \A j \in Keys \ {server[c]} : Cached(j)' \in {Cached(j), Nil}
      BY <1>3, PutFacts DEF DeleteExpired, Go, TypeOK, ConnType, Staged, Sessions
    <2>2. LruType'
      BY <2>1
    <2>3. ConnType'
      BY <1>3 DEF DeleteExpired, Go, TypeOK, ConnType
    <2>4. Filed'
      BY <2>1
    <2>5. Issued'
      BY <1>3, <2>1 DEF DeleteExpired, Go, TypeOK, ConnType, Issued, Saved, Staged, Sessions
    <2>6. Staged'
      BY <1>3 DEF DeleteExpired, Go, TypeOK, CertType, ConnType, Staged
    <2>7. OwnCert'
      BY <1>3 DEF DeleteExpired, Go, TypeOK, CertType, ConnType, Staged, OwnCert, Der
    <2>8. Kept'
      BY <1>3 DEF DeleteExpired, Go, TypeOK, CertType, ConnType, Kept, Staged
    <2>9. DroppedStaysDropped'
      BY <1>3, <2>1 DEF DeleteExpired, Go, TypeOK, ConnType, DroppedStaysDropped, Issued,
         Saved, Staged, Sessions
    <2> QED
      BY <1>3, <2>2, <2>3, <2>4, <2>5, <2>6, <2>7, <2>8, <2>9, Frames DEF TypeOK,
         DeleteExpired
  <1>4. ASSUME NEW c \in Conns, NEW k \in Keys, LoadOffered(c, k) PROVE IInv'
    <2>1. LruType' /\ Filed' /\ \A j \in Keys : Cached(j)' = Cached(j)
      BY <1>4, GetFacts DEF LoadOffered, Go, TypeOK
    <2>2. LruType'
      BY <2>1
    <2>3. ConnType'
      BY <1>4 DEF LoadOffered, Go, TypeOK, LruType, ConnType, Cached
    <2>4. Filed'
      BY <2>1
    <2>5. Issued'
      BY <1>4, <2>1 DEF LoadOffered, Go, TypeOK, ConnType, Issued, Saved, Staged
    <2>6. Staged'
      BY <1>4 DEF LoadOffered, Go, TypeOK, CertType, ConnType, Staged
    <2>7. OwnCert'
      BY <1>4 DEF LoadOffered, Go, TypeOK, CertType, ConnType, Staged, OwnCert, Der
    <2>8. Kept'
      BY <1>4 DEF LoadOffered, Go, TypeOK, CertType, ConnType, Kept, Staged
    <2> QED
      BY <1>4, <2>2, <2>3, <2>4, <2>5, <2>6, <2>7, <2>8, Frames DEF TypeOK, LoadOffered,
         GetTouches
  <1>5. ASSUME NEW c \in Conns, Resumed(c) PROVE IInv'
    <2>1. ConnType'
      BY <1>5 DEF Resumed, Go, TypeOK, ConnType
    <2>2. Issued'
      BY <1>5 DEF Resumed, Go, TypeOK, ConnType, Issued, Saved, Cached
    <2>3. Staged'
      BY <1>5 DEF Resumed, Go, TypeOK, CertType, ConnType, Staged
    <2>4. OwnCert'
      BY <1>5 DEF Resumed, Go, TypeOK, CertType, ConnType, Staged, OwnCert, Der
    <2>5. Kept'
      BY <1>5 DEF Resumed, Go, TypeOK, CertType, ConnType, Kept, Staged
    <2> QED
      BY <1>5, <2>1, <2>2, <2>3, <2>4, <2>5, Frames DEF TypeOK, Resumed
  <1>6. ASSUME NEW c \in Conns, CertificateKnown(c) PROVE IInv'
    <2>1. Der(c) \in Certs
      BY <1>6 DEF CertificateKnown, Go, CertLoaded, Der, TypeOK, ConnType, Staged
    <2>2. CertType'
      BY <1>6, <2>1 DEF CertificateKnown, Go, CertLoaded, TypeOK, CertType
    <2>3. ConnType'
      BY <1>6 DEF CertificateKnown, Go, CertLoaded, TypeOK, ConnType
    <2>4. Issued'
      BY <1>6 DEF CertificateKnown, Go, CertLoaded, TypeOK, ConnType, Issued, Saved, Cached
    <2>5. Staged'
      BY <1>6 DEF CertificateKnown, Go, CertLoaded, TypeOK, CertType, ConnType, Staged
    <2>6. OwnCert'
      <3>1. \A d \in Conns : Der(d)' = Der(d) /\ (pc[d] # "new" => pc'[d] # "new")
        BY <1>6 DEF CertificateKnown, Go, CertLoaded, Der, TypeOK, ConnType
      <3>2. pc'[c] # "new"
        BY <1>6 DEF CertificateKnown, Go, CertLoaded, TypeOK, ConnType
      <3> QED
        BY <1>6, <2>1, <3>1, <3>2 DEF CertificateKnown, Go, CertLoaded, TypeOK, CertType,
           OwnCert
    <2>7. Counted'
      <3>1. \A e \in Conns : Live(e)' = Live(e)
        BY <1>6 DEF CertificateKnown, Go, CertLoaded, TypeOK, CertType, Live, Staged
      <3> QED
        BY <1>6, <3>1 DEF CertificateKnown, Go, CertLoaded, Counted
    <2>8. Kept'
      BY <1>6 DEF CertificateKnown, Go, CertLoaded, TypeOK, CertType, ConnType, Kept,
         Staged
    <2> QED
      BY <1>6, <2>2, <2>3, <2>4, <2>5, <2>6, <2>7, <2>8, Frames DEF TypeOK,
         CertificateKnown
  <1>7. ASSUME NEW c \in Conns, CertificateUnknown(c) PROVE IInv'
    <2>1. ConnType'
      BY <1>7 DEF CertificateUnknown, Go, TypeOK, ConnType
    <2>2. Issued'
      BY <1>7 DEF CertificateUnknown, Go, TypeOK, ConnType, Issued, Saved, Cached
    <2>3. Staged'
      BY <1>7 DEF CertificateUnknown, Go, TypeOK, CertType, ConnType, Staged
    <2>4. OwnCert'
      BY <1>7 DEF CertificateUnknown, Go, TypeOK, CertType, ConnType, Staged, OwnCert, Der
    <2>5. Kept'
      BY <1>7 DEF CertificateUnknown, Go, TypeOK, CertType, ConnType, Kept, Staged
    <2> QED
      BY <1>7, <2>1, <2>2, <2>3, <2>4, <2>5, Frames DEF TypeOK, CertificateUnknown
  <1>8. ASSUME NEW c \in Conns, CertificateStored(c) PROVE IInv'
    <2>1. Der(c) \in Certs
      BY <1>8 DEF CertificateStored, Go, LoadOrStore, Der, TypeOK, ConnType, Staged
    <2>2. CertType'
      BY <1>8, <2>1 DEF CertificateStored, Go, LoadOrStore, TypeOK, CertType
    <2>3. ConnType'
      BY <1>8 DEF CertificateStored, Go, LoadOrStore, TypeOK, ConnType
    <2>4. Issued'
      BY <1>8 DEF CertificateStored, Go, LoadOrStore, TypeOK, ConnType, Issued, Saved,
         Cached
    <2>5. Staged'
      BY <1>8 DEF CertificateStored, Go, LoadOrStore, TypeOK, CertType, ConnType, Staged
    <2>6. OwnCert'
      <3>1. \A d \in Conns : Der(d)' = Der(d) /\ (pc[d] # "new" => pc'[d] # "new")
        BY <1>8 DEF CertificateStored, Go, LoadOrStore, Der, TypeOK, ConnType
      <3>2. pc'[c] # "new"
        BY <1>8 DEF CertificateStored, Go, LoadOrStore, TypeOK, ConnType
      <3> QED
        BY <1>8, <2>1, <3>1, <3>2 DEF CertificateStored, Go, LoadOrStore, TypeOK, CertType,
           OwnCert
    <2>7. Counted'
      <3>1. \A e \in Conns : Live(e)' = Live(e)
        BY <1>8 DEF CertificateStored, Go, LoadOrStore, TypeOK, CertType, Live, Staged
      <3> QED
        BY <1>8, <3>1 DEF CertificateStored, Go, LoadOrStore, Counted
    <2>8. Kept'
      BY <1>8 DEF CertificateStored, Go, LoadOrStore, TypeOK, CertType, ConnType, Kept,
         Staged
    <2> QED
      BY <1>8, <2>2, <2>3, <2>4, <2>5, <2>6, <2>7, <2>8, Frames DEF TypeOK,
         CertificateStored
  <1>9. ASSUME NEW c \in Conns, CertificateActive(c) PROVE IInv'
    <2>1. ent[c] \in Conns /\ handle[c] = "none"
      BY <1>9 DEF CertificateActive, Go, Active, TypeOK, CertType, Staged
    <2>2. CertType'
      BY <1>9, <2>1 DEF CertificateActive, Go, Active, TypeOK, CertType
    <2>3. ConnType'
      BY <1>9 DEF CertificateActive, Go, Active, TypeOK, ConnType
    <2>4. Issued'
      BY <1>9 DEF CertificateActive, Go, Active, TypeOK, ConnType, Issued, Saved, Cached
    <2>5. Staged'
      BY <1>9 DEF CertificateActive, Go, Active, TypeOK, CertType, ConnType, Staged
    <2>6. OwnCert'
      BY <1>9 DEF CertificateActive, Go, Active, TypeOK, CertType, ConnType, Staged,
         OwnCert, Der
    <2>7. Counted'
      <3>1. \A e \in Conns \ {ent[c]} : Live(e)' = Live(e)
        BY <1>9, <2>1 DEF CertificateActive, Go, Active, TypeOK, CertType, Live
      <3>2. Live(ent[c])' = Live(ent[c]) \cup {c} /\ c \notin Live(ent[c])
        BY <1>9, <2>1 DEF CertificateActive, Go, Active, TypeOK, CertType, Live
      <3>3. /\ IsFiniteSet(Live(ent[c])')
            /\ Cardinality(Live(ent[c])') = Cardinality(Live(ent[c])) + 1
        BY <2>1, <3>2, FS_AddElement DEF Counted
      <3> QED
        BY <1>9, <2>1, <3>1, <3>3 DEF CertificateActive, Go, Active, TypeOK, CertType, Counted
    <2>8. Kept'
      BY <1>9 DEF CertificateActive, Go, Active, TypeOK, CertType, ConnType, Kept, Staged
    <2> QED
      BY <1>9, <2>2, <2>3, <2>4, <2>5, <2>6, <2>7, <2>8, Frames DEF TypeOK,
         CertificateActive
  <1>10. ASSUME NEW c \in Conns, Completed(c) PROVE IInv'
    <2>1. ConnType'
      BY <1>10 DEF Completed, Go, TypeOK, ConnType
    <2>2. Issued'
      <3>1. \A s \in Sessions : Saved(s) => Saved(s)'
        BY <1>10, SavedKept DEF Completed, Go, TypeOK
      <3>2. \A k \in Keys : Cached(k)' = Cached(k) /\ Cached(k) \in Sessions \cup {Nil}
        BY <1>10 DEF Completed, Go, TypeOK, LruType, Cached
      <3>3. \A d \in Conns : offered'[d] \in {offered[d], Nil}
        BY <1>10 DEF Completed, Go, TypeOK, ConnType
      <3> QED
        BY <1>10, <3>1, <3>2, <3>3 DEF Completed, Go, TypeOK, ConnType, Issued
    <2>3. Staged'
      BY <1>10 DEF Completed, Go, TypeOK, CertType, ConnType, Staged
    <2>4. OwnCert'
      BY <1>10 DEF Completed, Go, TypeOK, CertType, ConnType, Staged, OwnCert, Der
    <2>5. Kept'
      BY <1>10 DEF Completed, Go, TypeOK, CertType, ConnType, Kept, Staged
    <2> QED
      BY <1>10, <2>1, <2>2, <2>3, <2>4, <2>5, Frames DEF TypeOK, Completed
  <1>11. ASSUME NEW c \in Conns, Failed(c) PROVE IInv'
    <2>1. ConnType'
      BY <1>11 DEF Failed, Go, TypeOK, ConnType
    <2>2. Issued'
      BY <1>11 DEF Failed, Go, TypeOK, ConnType, Issued, Saved, Cached
    <2>3. Staged'
      BY <1>11 DEF Failed, Go, TypeOK, CertType, ConnType, Staged
    <2>4. OwnCert'
      BY <1>11 DEF Failed, Go, TypeOK, CertType, ConnType, Staged, OwnCert, Der
    <2>5. Kept'
      BY <1>11 DEF Failed, Go, TypeOK, CertType, ConnType, Kept, Staged
    <2> QED
      BY <1>11, <2>1, <2>2, <2>3, <2>4, <2>5, Frames DEF TypeOK, Failed
  <1>12. ASSUME NEW c \in Conns, SaveSession(c) PROVE IInv'
    <2>1. /\ LruType' /\ Filed' /\ Cached(server[c])' = [by |-> c, server |-> server[c]]
          /\ \A j \in Keys \ {server[c]} : Cached(j)' \in {Cached(j), Nil}
      BY <1>12, PutFacts DEF SaveSession, Go, TypeOK, ConnType, Staged, Sessions
    <2>2. LruType'
      BY <2>1
    <2>3. ConnType'
      BY <1>12 DEF SaveSession, Go, TypeOK, ConnType
    <2>4. Filed'
      BY <2>1
    <2>5. Issued'
      BY <1>12, <2>1 DEF SaveSession, Go, TypeOK, ConnType, Issued, Saved, Staged, Sessions
    <2>6. Staged'
      BY <1>12 DEF SaveSession, Go, TypeOK, CertType, ConnType, Staged
    <2>7. OwnCert'
      BY <1>12 DEF SaveSession, Go, TypeOK, CertType, ConnType, Staged, OwnCert, Der
    <2>8. Kept'
      BY <1>12 DEF SaveSession, Go, TypeOK, CertType, ConnType, Kept, Staged
    <2>9. DroppedStaysDropped'
      BY <1>12, <2>1 DEF SaveSession, Go, TypeOK, ConnType, DroppedStaysDropped, Issued,
         Saved, Staged, Sessions
    <2> QED
      BY <1>12, <2>2, <2>3, <2>4, <2>5, <2>6, <2>7, <2>8, <2>9, Frames DEF TypeOK,
         SaveSession
  <1>13. ASSUME NEW c \in Conns, DropSession(c) PROVE IInv'
    <2>1. /\ LruType' /\ Filed' /\ Cached(server[c])' = Nil
          /\ \A j \in Keys \ {server[c]} : Cached(j)' \in {Cached(j), Nil}
      BY <1>13, PutFacts DEF DropSession, Go, TypeOK, ConnType, Staged, Sessions
    <2>2. LruType'
      BY <2>1
    <2>3. ConnType'
      BY <1>13 DEF DropSession, Go, TypeOK, ConnType, Staged
    <2>4. Filed'
      BY <2>1
    <2>5. Issued'
      BY <1>13, <2>1 DEF DropSession, Go, TypeOK, ConnType, Issued, Saved, Staged, Sessions
    <2>6. Staged'
      BY <1>13 DEF DropSession, Go, TypeOK, CertType, ConnType, Staged
    <2>7. OwnCert'
      BY <1>13 DEF DropSession, Go, TypeOK, CertType, ConnType, Staged, OwnCert, Der
    <2>8. Kept'
      BY <1>13 DEF DropSession, Go, TypeOK, CertType, ConnType, Kept, Staged
    <2>9. DroppedStaysDropped'
      BY <1>13, <2>1 DEF DropSession, Go, TypeOK, ConnType, DroppedStaysDropped, Issued,
         Saved, Staged, Sessions
    <2> QED
      BY <1>13, <2>2, <2>3, <2>4, <2>5, <2>6, <2>7, <2>8, <2>9, Frames DEF TypeOK,
         DropSession
  <1>14. ASSUME NEW c \in Conns, CloseConn(c) PROVE IInv'
    <2>1. ConnType'
      BY <1>14 DEF CloseConn, Go, TypeOK, ConnType
    <2>2. Issued'
      BY <1>14 DEF CloseConn, Go, TypeOK, ConnType, Issued, Saved, Cached
    <2>3. Staged'
      BY <1>14 DEF CloseConn, Go, TypeOK, CertType, ConnType, Staged
    <2>4. OwnCert'
      BY <1>14 DEF CloseConn, Go, TypeOK, CertType, ConnType, Staged, OwnCert, Der
    <2>5. Kept'
      BY <1>14 DEF CloseConn, Go, TypeOK, CertType, ConnType, Kept, Staged
    <2> QED
      BY <1>14, <2>1, <2>2, <2>3, <2>4, <2>5, Frames DEF TypeOK, CloseConn
  <1>15. ASSUME NEW c \in Conns, FinalizerCounts(c) PROVE IInv'
    <2>1. ent[c] \in Conns
      BY <1>15 DEF FinalizerCounts, TypeOK, CertType, Staged
    <2>2. /\ c \in Live(ent[c]) /\ IsFiniteSet(Live(ent[c]))
          /\ refs[ent[c]] = Cardinality(Live(ent[c]))
      BY <1>15, <2>1 DEF FinalizerCounts, Live, Counted
    <2>3. /\ IsFiniteSet(Live(ent[c]) \ {c}) /\ refs[ent[c]] \in Nat \ {0}
          /\ Cardinality(Live(ent[c]) \ {c}) = refs[ent[c]] - 1
      BY <2>2, FS_RemoveElement, FS_EmptySet, FS_CardinalityType
    <2>4. CertType'
      BY <1>15, <2>1, <2>3 DEF FinalizerCounts, TypeOK, CertType
    <2>5. Staged'
      BY <1>15 DEF FinalizerCounts, TypeOK, CertType, ConnType, Staged
    <2>6. Counted'
      <3>1. \A e \in Conns \ {ent[c]} : Live(e)' = Live(e)
        BY <1>15 DEF FinalizerCounts, TypeOK, CertType, Live
      <3>2. Live(ent[c])' = Live(ent[c]) \ {c}
        BY <1>15 DEF FinalizerCounts, TypeOK, CertType, Live
      <3> QED
        BY <1>15, <2>1, <2>3, <3>1, <3>2 DEF FinalizerCounts, TypeOK, CertType, Counted
    <2>7. Kept'
      BY <1>15, <2>1, <2>3 DEF FinalizerCounts, TypeOK, CertType, Kept, Staged
    <2> QED
      BY <1>15, <2>4, <2>5, <2>6, <2>7, Frames DEF TypeOK, FinalizerCounts
  <1>16. ASSUME NEW c \in Conns, FinalizerEvicts(c) PROVE IInv'
    <2>1. CertType'
      BY <1>16 DEF FinalizerEvicts, TypeOK, CertType
    <2>2. Staged'
      BY <1>16 DEF FinalizerEvicts, TypeOK, CertType, ConnType, Staged
    <2>3. OwnCert'
      BY <1>16 DEF FinalizerEvicts, TypeOK, CertType, ConnType, Staged, OwnCert, Der
    <2>4. Counted'
      BY <1>16 DEF FinalizerEvicts, TypeOK, CertType, Counted, Live
    <2>5. Kept'
      BY <1>16 DEF FinalizerEvicts, TypeOK, CertType, ConnType, Kept, Staged, OwnCert
    <2> QED
      BY <1>16, <2>1, <2>2, <2>3, <2>4, <2>5, Frames DEF TypeOK, FinalizerEvicts
  <1>17. CASE UNCHANGED vars
    BY <1>17, Frames DEF vars, TypeOK
  <1> QED
    BY <1>1, <1>2, <1>3, <1>4, <1>5, <1>6, <1>7, <1>8, <1>9, <1>10, <1>11, <1>12, <1>13,
       <1>14, <1>15, <1>16, <1>17 DEF Next, ConnStep

\* Nothing is cached and no connection has started.
LEMMA InitIInv == Init => IInv
  <1> SUFFICES ASSUME Init PROVE IInv
    OBVIOUS
  <1> USE ClientCachesAssumption DEF Init
  <1>1. LruType /\ Filed
    BY DEF LruType, Filed, Distinct, Elements
  <1>2. CertType /\ ConnType
    BY DEF CertType, ConnType
  <1>3. \A k \in Keys : Cached(k) = Nil
    BY DEF Cached
  <1>4. Issued /\ Staged /\ OwnCert /\ Kept /\ DroppedStaysDropped
    BY <1>3 DEF Issued, Staged, OwnCert, Kept, DroppedStaysDropped
  <1>5. \A e \in Conns : Live(e) = {}
    BY DEF Live
  <1>6. Counted
    BY <1>5, FS_EmptySet DEF Counted
  <1> QED
    BY <1>1, <1>2, <1>4, <1>6 DEF IInv, TypeOK

--------------------------------------------------------------------------------
(* Theorems *)

\* The inductive invariant holds: every element of the list is filed under its own
\* key, every session is its server's, every handle is counted once.
THEOREM CachesInductive == Spec => []IInv
  BY InitIInv, NextIInv, PTL DEF Spec

\* Every variable keeps its type.
THEOREM CachesTypeCorrect == Spec => []TypeOK
  <1>1. IInv => TypeOK
    BY DEF IInv
  <1> QED
    BY <1>1, CachesInductive, PTL

\* A session that failed to resume never comes back, for any capacity and any
\* number of connections to any servers.
THEOREM CachesDroppedStaysDropped == Spec => []DroppedStaysDropped
  <1>1. IInv => DroppedStaysDropped
    BY DEF IInv
  <1> QED
    BY <1>1, CachesInductive, PTL

\* The reference counts are exact and no certificate is left behind, however
\* finalizers, LoadOrStore and active interleave.
THEOREM CachesNoCertificateLeak == Spec => []NoCertificateLeak
  <1>1. IInv => NoCertificateLeak
    BY DEF IInv, NoCertificateLeak, Counted, Kept, Live
  <1> QED
    BY <1>1, CachesInductive, PTL

\* lruSessionCache implements ClientSessionCache: a Put is a Put of SessionCache
\* that may forget one other key, every other step leaves what Get returns alone.
THEOREM CachesImplementSessionCache == Spec => ImplementsSessionCache
  <1>1. Init => SC!Init
    BY DEF Init, SC!Init, Cached
  <1>2. ASSUME IInv, [Next]_vars
        PROVE  [SC!Next]_([k \in Keys |-> Cached(k)])
    <2> USE <1>2 DEF IInv, lruVars, certVars
    <2> DEFINE store == [k \in Keys |-> Cached(k)]
    <2>1. ASSUME NEW k \in Keys, NEW s \in Sessions \cup {Nil}, s # Nil => s.server = k,
                 Put(k, s)
          PROVE  SC!Next
      <3> DEFINE F == {j \in Keys : Cached(j)' = Nil}
      <3>1. /\ Cached(k)' = s
            /\ \A j \in Keys \ {k} : Cached(j)' \in {Cached(j), Nil}
        BY <2>1, PutFacts DEF TypeOK
      <3>2. store' = [j \in Keys |-> IF j = k THEN s ELSE IF j \in F THEN Nil ELSE store[j]]
        BY <3>1
      <3>3. SC!Put(k, s, F)
        BY <2>1, <3>2 DEF SC!Put
      <3> QED
        BY <2>1, <3>3 DEF SC!Next
    <2>2. ASSUME NEW c \in Conns, DeleteExpired(c) \/ SaveSession(c) \/ DropSession(c)
          PROVE  SC!Next
      <3>1. server[c] \in Keys
        BY <2>2 DEF DeleteExpired, SaveSession, DropSession, Go, Staged
      <3>2. [by |-> c, server |-> server[c]] \in Sessions
        BY <3>1 DEF Sessions
      <3> QED
        BY <2>1, <2>2, <3>1, <3>2 DEF DeleteExpired, SaveSession, DropSession
    <2>3. ASSUME UNCHANGED <<m, entry>> PROVE UNCHANGED store
      BY <2>3 DEF Cached
    <2>4. ASSUME NEW c \in Conns, NEW k \in Keys,
                 LoadNothing(c, k) \/ LoadUnusable(c, k) \/ LoadOffered(c, k)
          PROVE  UNCHANGED store
      BY <2>3, <2>4 DEF LoadNothing, LoadUnusable, LoadOffered, GetTouches
    <2>5. ASSUME NEW c \in Conns,
                 \/ Resumed(c) \/ CertificateKnown(c) \/ CertificateUnknown(c)
                 \/ CertificateStored(c) \/ CertificateActive(c) \/ Completed(c) \/ Failed(c)
                 \/ CloseConn(c) \/ FinalizerCounts(c) \/ FinalizerEvicts(c)
          PROVE  UNCHANGED store
      BY <2>3, <2>5 DEF Resumed, CertificateKnown, CertificateUnknown, CertificateStored,
         CertificateActive, Completed, Failed, CloseConn, FinalizerCounts, FinalizerEvicts
    <2>6. CASE UNCHANGED vars
      BY <2>3, <2>6 DEF vars
    <2> QED
      BY <2>2, <2>4, <2>5, <2>6 DEF Next, ConnStep
  <1> QED
    BY <1>1, <1>2, CachesInductive, PTL DEF Spec, ImplementsSessionCache, SC!Spec
================================================================================
