---------------------------- MODULE TicketKeysProofs ----------------------------
(***************************************************************************)
(* What TicketKeys promises for any number of goroutines and for every     *)
(* rotation period and lifetime: proofs that one key is made per period,   *)
(* that a rotation turns no live ticket away, and that the keys of         *)
(* SetSessionTicketKeys are used from its return on.                       *)
(***************************************************************************)
EXTENDS TicketKeys, FiniteSetTheorems, FunctionTheorems, TLAPS

\* The automatic keys are the server's own, made one period or more apart.
Spaced(s) == \A i, j \in DOMAIN s : i < j => s[i].created - s[j].created >= Rotation
Aged ==
    /\ auto["forClient"] = <<>>
    /\ \A i \in DOMAIN auto["own"] :
          /\ auto["own"][i].kind = "auto" /\ auto["own"][i].cfg = "own"
          /\ auto["own"][i].created <= now
    /\ Spaced(auto["own"])

\* The keys a configuration was given: none, the legacy one, or those of a set.
Given ==
    \A c \in Configs : explicit[c] # <<>> =>
        /\ Len(explicit[c]) = 1
        /\ explicit[c][1].cfg = c /\ explicit[c][1].kind \in {"legacy", "set"}
        /\ explicit[c][1].kind = "set" => explicit[c][1].n <= sets

\* What is true of a key that some call has returned: a live automatic key is still
\* there, a key of a set is of a set that was made, and once a legacy key is in use
\* its configuration has keys.
Known(k) ==
    /\ k.kind = "auto" =>
          k.cfg = "own" /\ (now - k.created < Lifetime => Opens(k, auto["own"]))
    /\ k.kind = "set" => k.n <= sets
    /\ k.kind = "legacy" => explicit[k.cfg] # <<>>
Returned ==
    /\ Known(held)
    /\ \A t \in Handshakes : Known(ticket[t]) /\ \A i \in DOMAIN ks[t] : Known(ks[t][i])

\* A call on its way to a rotation found no set to respect, and its ticket is of no
\* key that was set since; what it began with is never newer than what is there.
Begun(t) ==
    /\ at[t] \in {"lockRotate", "writeRotate", "last"} =>
          on[t] = "own" /\ asOf[t]["own"] = 0 /\ asOf[t]["forClient"] = 0
    /\ at[t] \in {"lockRotate", "writeRotate"} /\ ticket[t].kind # "auto" =>
          explicit["own"] # <<ticket[t]>>
    /\ asOf[t]["forClient"] > 0 => on[t] = "forClient"
    /\ \A c \in Configs : asOf[t][c] <= SetOf(c)

\* TicketsStillOpen and SetTakesEffect of one call, from the moment it has its keys.
OpensTicket(t) ==
    LET k == ticket[t] IN
    at[t] \in {"last", "have"} /\ k # NoTicket /\ k.cfg = on[t] /\ on[t] \notin disabled
      /\ (IF k.kind = "auto" THEN explicit[on[t]] = <<>> /\ now - k.created < Lifetime
          ELSE explicit[on[t]] = <<k>>)
    => Opens(k, ks[t])
SeesSet(t, c) ==
    Head(ks[t]).kind = "set" /\ Head(ks[t]).cfg = c /\ Head(ks[t]).n >= asOf[t][c]
HeedsSet(t) ==
    at[t] = "have" /\ ks[t] # <<>> =>
        /\ asOf[t]["forClient"] > 0 => SeesSet(t, "forClient")
        /\ asOf[t]["own"] > 0 /\ on[t] = "own" => SeesSet(t, "own")
Called == \A t \in Handshakes : Begun(t) /\ OpensTicket(t) /\ HeedsSet(t)

\* The inductive invariant.
IInv == TypeOK /\ Aged /\ Given /\ Returned /\ Called

--------------------------------------------------------------------------------
(* Lemmas about the keys that are kept *)

UpTo(I, i) == {j \in I : j <= i}

\* Every number up to the size of a set of indices is the rank of exactly one of them,
\* and ranks are in the order of the indices.
LEMMA RankFacts ==
    ASSUME NEW m \in Nat, NEW I \in SUBSET (1 .. m)
    PROVE  /\ Cardinality(I) \in Nat
           /\ \A i \in I : Cardinality(UpTo(I, i)) \in 1 .. Cardinality(I)
           /\ \A i, j \in I : i < j => Cardinality(UpTo(I, i)) < Cardinality(UpTo(I, j))
           /\ \A n \in 1 .. Cardinality(I) : \E i \in I : Cardinality(UpTo(I, i)) = n
  <1>1. IsFiniteSet(I) /\ Cardinality(I) \in Nat
    <2>1. IsFiniteSet(1 .. m)
      BY FS_Interval
    <2> QED
      BY <2>1, FS_Subset, FS_CardinalityType
  <1>2. ASSUME NEW i \in I
        PROVE  IsFiniteSet(UpTo(I, i)) /\ Cardinality(UpTo(I, i)) \in 1 .. Cardinality(I)
    <2>1. UpTo(I, i) \in SUBSET I /\ i \in UpTo(I, i)
      BY DEF UpTo
    <2>2. /\ IsFiniteSet(UpTo(I, i)) /\ Cardinality(UpTo(I, i)) <= Cardinality(I)
          /\ Cardinality(UpTo(I, i)) \in Nat
      BY <1>1, <2>1, FS_Subset, FS_CardinalityType
    <2>3. Cardinality(UpTo(I, i)) # 0
      BY <2>1, <2>2, FS_EmptySet
    <2> QED
      BY <1>1, <2>2, <2>3
  <1>3. ASSUME NEW i \in I, NEW j \in I, i < j
        PROVE  Cardinality(UpTo(I, i)) < Cardinality(UpTo(I, j))
    <2>1. UpTo(I, i) \in SUBSET UpTo(I, j) /\ UpTo(I, i) # UpTo(I, j)
      <3>1. j \in UpTo(I, j) /\ j \notin UpTo(I, i)
        BY <1>3 DEF UpTo
      <3>2. \A l \in I : l <= i => l <= j
        BY <1>3
      <3>3. UpTo(I, i) \in SUBSET UpTo(I, j)
        BY <3>2 DEF UpTo
      <3> QED
        BY <3>1, <3>3
    <2>2. /\ Cardinality(UpTo(I, i)) <= Cardinality(UpTo(I, j))
          /\ Cardinality(UpTo(I, i)) # Cardinality(UpTo(I, j))
      BY <1>2, <2>1, FS_Subset
    <2> QED
      BY <1>1, <1>2, <2>2
  <1> DEFINE rank == [i \in I |-> Cardinality(UpTo(I, i))]
             N == 1 .. Cardinality(I)
  <1>4. rank \in Injection(I, N)
    <2>1. rank \in [I -> N]
      BY <1>2
    <2>2. ASSUME NEW i \in I, NEW j \in I, i # j PROVE rank[i] # rank[j]
      <3>1. i \in Nat /\ j \in Nat /\ (i < j \/ j < i)
        BY <2>2
      <3> QED
        BY <1>1, <1>2, <1>3, <3>1
    <2> QED
      BY <2>1, <2>2 DEF Injection, IsInjective
  <1>5. IsFiniteSet(N) /\ Cardinality(N) = Cardinality(I)
    BY <1>1, FS_Interval
  <1>6. rank \in Surjection(I, N)
    BY <1>4, <1>5, FS_Injection
  <1>7. \A n \in N : \E i \in I : rank[i] = n
    BY <1>6 DEF Surjection
  <1> QED
    BY <1>1, <1>2, <1>3, <1>7

\* The elements that are selected are elements at indices of the set, in order, and
\* none of them is missing.
LEMMA SelectedFacts ==
    ASSUME NEW S, NEW s \in Seq(S), NEW I \in SUBSET DOMAIN s
    PROVE  /\ Selected(s, I) \in Seq(S)
           /\ \E f \in [DOMAIN Selected(s, I) -> I] :
                 /\ \A n \in DOMAIN Selected(s, I) : Selected(s, I)[n] = s[f[n]]
                 /\ \A n, l \in DOMAIN Selected(s, I) : n < l => f[n] < f[l]
           /\ \A i \in I : \E n \in DOMAIN Selected(s, I) : Selected(s, I)[n] = s[i]
  <1> DEFINE N == 1 .. Cardinality(I)
             f == [n \in N |-> CHOOSE i \in I : Cardinality(UpTo(I, i)) = n]
             r == Selected(s, I)
  <1>1. Len(s) \in Nat /\ DOMAIN s = 1 .. Len(s)
    OBVIOUS
  <1>2. /\ Cardinality(I) \in Nat
        /\ \A i \in I : Cardinality(UpTo(I, i)) \in N
        /\ \A i, j \in I : i < j => Cardinality(UpTo(I, i)) < Cardinality(UpTo(I, j))
        /\ \A n \in N : \E i \in I : Cardinality(UpTo(I, i)) = n
    BY <1>1, RankFacts
  <1>3. r = [n \in N |-> s[f[n]]]
    BY DEF Selected, UpTo
  <1>4. \A n \in N : f[n] \in I /\ Cardinality(UpTo(I, f[n])) = n
    BY <1>2
  <1>5. f \in [N -> I]
    BY <1>4
  <1> HIDE DEF f, r
  <1>6. r \in Seq(S) /\ DOMAIN r = N
    <2>1. \A n \in N : s[f[n]] \in S
      BY <1>1, <1>4
    <2>2. r \in [N -> S]
      BY <1>3, <2>1
    <2> QED
      BY <1>2, <2>2
  <1>7. ASSUME NEW n \in N, NEW l \in N, n < l PROVE f[n] < f[l]
    <2>1. f[n] \in I /\ f[l] \in I /\ f[n] \in Nat /\ f[l] \in Nat
      BY <1>1, <1>4
    <2>2. f[n] # f[l]
      BY <1>4, <1>7
    <2>3. ~(f[l] < f[n])
      BY <1>2, <1>4, <1>7, <2>1
    <2> QED
      BY <2>1, <2>2, <2>3
  <1>8. ASSUME NEW i \in I PROVE \E n \in N : r[n] = s[i]
    <2> DEFINE n == Cardinality(UpTo(I, i))
    <2>1. n \in N /\ f[n] \in I /\ Cardinality(UpTo(I, f[n])) = n
      BY <1>2, <1>4
    <2>2. i \in Nat /\ f[n] \in Nat
      BY <1>1, <2>1
    <2>3. ~(i < f[n]) /\ ~(f[n] < i)
      BY <1>2, <2>1
    <2>4. f[n] = i
      BY <2>2, <2>3
    <2> QED
      BY <1>3, <2>1, <2>4
  <1> QED
    <2>1. \E g \in [DOMAIN r -> I] :
             /\ \A n \in DOMAIN r : r[n] = s[g[n]]
             /\ \A n, l \in DOMAIN r : n < l => g[n] < g[l]
      <3> f \in [DOMAIN r -> I]
        BY <1>5, <1>6
      <3> WITNESS f \in [DOMAIN r -> I]
      <3> QED
        BY <1>3, <1>6, <1>7
    <2>2. \A i \in I : \E n \in DOMAIN r : r[n] = s[i]
      BY <1>6, <1>8
    <2> QED
      BY <1>6, <2>1, <2>2 DEF r

\* The keys after a rotation that was due: spaced again, all automatic keys of the
\* server, the new one in front, and every key that still lives among them.
LEMMA RotatedFacts ==
    ASSUME TypeOK, Aged, ~Fresh("own")
    PROVE  /\ Rotated("own") \in Seq(Keys) /\ Rotated("own") # <<>>
           /\ Rotated("own")[1].created = now
           /\ \A i \in DOMAIN Rotated("own") :
                 /\ Rotated("own")[i].kind = "auto" /\ Rotated("own")[i].cfg = "own"
                 /\ Rotated("own")[i].created <= now
           /\ Spaced(Rotated("own"))
           /\ \A k \in Keys : Opens(k, auto["own"]) /\ now - k.created < Lifetime
                             => Opens(k, Rotated("own"))
  <1> DEFINE a == auto["own"]
             I == Younger("own", Lifetime)
             k0 == NewKey("own")
             r == Selected(a, I)
             q == <<k0>> \o r
  <1>1. /\ a \in Seq(Keys) /\ Len(a) \in Nat /\ DOMAIN a = 1 .. Len(a) /\ now \in Nat
        /\ I \in SUBSET DOMAIN a
    BY DEF TypeOK, DataType, Configs, Younger
  <1>2. k0 \in Keys /\ k0.kind = "auto" /\ k0.cfg = "own" /\ k0.created = now
    <2>1. {i \in DOMAIN a : a[i].created = now} \in SUBSET (1 .. Len(a))
      BY <1>1
    <2>2. Cardinality({i \in DOMAIN a : a[i].created = now}) \in Nat
      BY <1>1, <2>1, RankFacts
    <2> QED
      BY <1>1, <2>2 DEF NewKey, Key, Keys, Configs
  <1> HIDE DEF a, I
  <1>3. r \in Seq(Keys)
    BY <1>1, SelectedFacts
  <1>4. PICK f \in [DOMAIN r -> I] :
            /\ \A n \in DOMAIN r : r[n] = a[f[n]]
            /\ \A n, l \in DOMAIN r : n < l => f[n] < f[l]
    BY <1>1, SelectedFacts
  <1>5. \A i \in I : \E n \in DOMAIN r : r[n] = a[i]
    BY <1>1, SelectedFacts
  <1> USE DEF a, I
  <1>6. Rotated("own") = q
    BY DEF Rotated
  <1> HIDE DEF k0, r
  <1>7. /\ q \in Seq(Keys) /\ Len(r) \in Nat /\ DOMAIN r = 1 .. Len(r)
        /\ DOMAIN q = 1 .. Len(r) + 1 /\ q # <<>>
        /\ \A i \in 1 .. Len(r) + 1 : q[i] = IF i = 1 THEN k0 ELSE r[i - 1]
    BY <1>2, <1>3
  <1> HIDE DEF q
  <1>8. \A i \in 1 .. Len(r) + 1 :
            i # 1 => i - 1 \in DOMAIN r /\ f[i - 1] \in DOMAIN a /\ q[i] = a[f[i - 1]]
    BY <1>1, <1>4, <1>7
  <1>9. \A i \in DOMAIN a : a[i] \in Keys /\ a[i].created \in Nat /\ a[i].created <= now
                             /\ now - a[i].created >= Rotation
    <2>1. \A i \in DOMAIN a : a[i] \in Keys /\ a[i].created \in Nat /\ a[i].created <= now
      <3>1. \A i \in DOMAIN a : a[i] \in Keys
        BY <1>1
      <3>2. \A k \in Keys : k.created \in Nat
        BY DEF Keys
      <3> QED
        BY <3>1, <3>2 DEF Aged
    <2>2. ASSUME NEW i \in DOMAIN a PROVE now - a[i].created >= Rotation
      <3>1. a # <<>> /\ 1 \in DOMAIN a /\ Head(a) = a[1]
        BY <1>1, <2>2
      <3>2. now - a[1].created >= Rotation
        BY <1>1, <2>1, <3>1, TicketKeysAssumption DEF Fresh
      <3>3. CASE i = 1
        BY <3>2, <3>3
      <3>4. CASE i # 1
        <4>1. a[1].created - a[i].created >= Rotation
          BY <1>1, <2>2, <3>1, <3>4 DEF Aged, Spaced
        <4> QED
          BY <1>1, <2>1, <3>1, <3>2, <4>1, TicketKeysAssumption
      <3> QED
        BY <3>3, <3>4
    <2> QED
      BY <2>1, <2>2
  <1>10. \A i \in DOMAIN q : q[i].kind = "auto" /\ q[i].cfg = "own" /\ q[i].created <= now
    <2> SUFFICES ASSUME NEW i \in 1 .. Len(r) + 1
                 PROVE  q[i].kind = "auto" /\ q[i].cfg = "own" /\ q[i].created <= now
      BY <1>7
    <2>1. CASE i = 1
      <3>1. q[i] = k0
        BY <1>7, <2>1
      <3>2. now <= now
        BY <1>1
      <3> QED
        BY <1>2, <3>1, <3>2, Zenon
    <2>2. CASE i # 1
      <3>1. f[i - 1] \in DOMAIN a /\ q[i] = a[f[i - 1]]
        BY <1>8, <2>2
      <3> QED
        BY <1>1, <3>1 DEF Aged
    <2> QED
      BY <2>1, <2>2
  <1>11. Spaced(q)
    <2> SUFFICES ASSUME NEW i \in 1 .. Len(r) + 1, NEW j \in 1 .. Len(r) + 1, i < j
                 PROVE  q[i].created - q[j].created >= Rotation
      BY <1>7 DEF Spaced
    <2>1. j # 1 /\ q[j] = a[f[j - 1]] /\ f[j - 1] \in DOMAIN a /\ j - 1 \in DOMAIN r
      BY <1>7, <1>8
    <2>2. CASE i = 1
      BY <1>2, <1>7, <1>9, <2>1, <2>2
    <2>3. CASE i # 1
      <3>1. q[i] = a[f[i - 1]] /\ f[i - 1] \in DOMAIN a /\ i - 1 \in DOMAIN r
        BY <1>8, <2>3
      <3>2. f[i - 1] < f[j - 1]
        <4>1. i - 1 < j - 1
          BY <1>7
        <4> QED
          BY <1>4, <2>1, <3>1, <4>1
      <3> QED
        BY <2>1, <3>1, <3>2 DEF Aged, Spaced
    <2> QED
      BY <2>2, <2>3
  <1>12. ASSUME NEW k \in Keys, Opens(k, a), now - k.created < Lifetime
         PROVE  Opens(k, q)
    <2>1. PICK i \in DOMAIN a : a[i] = k
      BY <1>12 DEF Opens
    <2>2. i \in I
      BY <1>12, <2>1 DEF Younger
    <2>3. PICK n \in DOMAIN r : r[n] = k
      BY <1>5, <2>1, <2>2
    <2>4. n + 1 \in DOMAIN q /\ q[n + 1] = k
      BY <1>7, <2>3
    <2> QED
      BY <2>4 DEF Opens
  <1>13. q[1].created = now
    BY <1>2, <1>7
  <1> QED
    BY <1>6, <1>7, <1>10, <1>11, <1>12, <1>13

\* What WriteRotate leaves, whether another call has rotated before it or not.
KeysDue == IF Fresh("own") THEN auto["own"] ELSE Rotated("own")

\* The keys due are spaced, the first is fresh, and every live key is among them.
LEMMA KeysDueFacts ==
    ASSUME TypeOK, Aged
    PROVE  /\ KeysDue \in Seq(Keys) /\ KeysDue # <<>>
           /\ now - KeysDue[1].created < Rotation
           /\ \A i \in DOMAIN KeysDue :
                 /\ KeysDue[i].kind = "auto" /\ KeysDue[i].cfg = "own"
                 /\ KeysDue[i].created <= now
           /\ Spaced(KeysDue)
           /\ \A k \in Keys : Opens(k, auto["own"]) /\ now - k.created < Lifetime
                             => Opens(k, KeysDue)
  <1>1. CASE Fresh("own")
    <2>1. auto["own"] \in Seq(Keys)
      BY DEF TypeOK, DataType, Configs
    <2>2. auto["own"] # <<>> /\ now - auto["own"][1].created < Rotation
      BY <1>1, <2>1 DEF Fresh
    <2> QED
      BY <1>1, <2>1, <2>2 DEF KeysDue, Aged
  <1>2. CASE ~Fresh("own")
    <2>1. now - now < Rotation
      BY TicketKeysAssumption DEF TypeOK, DataType
    <2> QED
      BY <1>2, <2>1, RotatedFacts DEF KeysDue
  <1> QED
    BY <1>1, <1>2

--------------------------------------------------------------------------------
(* What any step does to the keys *)

\* Time goes on, explicit keys are only replaced by those of a new set or, where
\* there are none, by the legacy one, and no live automatic key goes away.
Grows ==
    /\ now' >= now /\ sets' >= sets /\ disabled' = disabled
    /\ \A c \in Configs :
          \/ explicit'[c] = explicit[c]
          \/ explicit'[c] = <<Key("set", c, sets + 1, 0)>> /\ sets' = sets + 1
          \/ explicit[c] = <<>> /\ explicit'[c] = <<Key("legacy", c, 0, 0)>>
    /\ \A k \in Keys : Opens(k, auto["own"]) /\ now - k.created < Lifetime
                      => Opens(k, auto'["own"])

\* Nothing about a handshake's call changes.
Unmoved(t) ==
    /\ at'[t] = at[t] /\ on'[t] = on[t] /\ ks'[t] = ks[t]
    /\ ticket'[t] = ticket[t] /\ asOf'[t] = asOf[t]

\* The keys the model makes are Keys.
LEMMA KeyType ==
    /\ NoTicket \in Keys
    /\ \A c \in Configs : Key("legacy", c, 0, 0) \in Keys
    /\ \A c \in Configs, n \in Nat : Key("set", c, n, 0) \in Keys
  BY DEF NoTicket, Key, Keys, Configs

\* With such a step the invariants about explicit keys and about returned keys hold
\* on, and no configuration goes back to an earlier set.
LEMMA GrowsKeeps ==
    ASSUME TypeOK, TypeOK', Given, Grows
    PROVE  /\ Given'
           /\ \A c \in Configs : explicit[c] # <<>> => explicit'[c] # <<>>
           /\ \A k \in Keys : Known(k) => Known(k)'
           /\ \A c \in Configs : SetOf(c)' >= SetOf(c) /\ SetOf(c) \in Nat
  <1> DEFINE ks0(c) == Key("set", c, sets + 1, 0)
             kl0(c) == Key("legacy", c, 0, 0)
  <1>0. /\ now \in Nat /\ now' \in Nat /\ sets \in Nat /\ sets' \in Nat
        /\ now' >= now /\ sets' >= sets
        /\ \A c \in Configs : explicit[c] \in Seq(Keys) /\ explicit'[c] \in Seq(Keys)
    BY DEF TypeOK, DataType, HistType, Grows
  <1>1. \A c \in Configs :
            /\ ks0(c).kind = "set" /\ ks0(c).cfg = c /\ ks0(c).n = sets + 1
            /\ kl0(c).kind = "legacy" /\ kl0(c).cfg = c
    BY DEF Key
  <1>2. \A c \in Configs :
            \/ explicit'[c] = explicit[c]
            \/ explicit'[c] = <<ks0(c)>> /\ sets' = sets + 1
            \/ explicit[c] = <<>> /\ explicit'[c] = <<kl0(c)>>
    BY DEF Grows
  <1> HIDE DEF ks0, kl0
  <1>3. \A c \in Configs : explicit[c] # <<>> => explicit'[c] # <<>>
    BY <1>2
  <1>4. Given'
    <2> SUFFICES ASSUME NEW c \in Configs, explicit'[c] # <<>>
                 PROVE  /\ Len(explicit'[c]) = 1
                        /\ explicit'[c][1].cfg = c /\ explicit'[c][1].kind \in {"legacy", "set"}
                        /\ explicit'[c][1].kind = "set" => explicit'[c][1].n <= sets'
      BY DEF Given
    <2>1. CASE explicit'[c] = explicit[c]
      <3>1. /\ Len(explicit[c]) = 1
            /\ explicit[c][1].cfg = c /\ explicit[c][1].kind \in {"legacy", "set"}
            /\ explicit[c][1].kind = "set" => explicit[c][1].n <= sets
        BY <2>1 DEF Given
      <3>2. explicit[c][1] \in Keys
        BY <1>0, <3>1
      <3>3. explicit[c][1].n \in Nat
        BY <3>2 DEF Keys
      <3> QED
        BY <1>0, <2>1, <3>1, <3>3
    <2>2. CASE explicit'[c] = <<ks0(c)>> /\ sets' = sets + 1
      BY <1>0, <1>1, <2>2
    <2>3. CASE explicit'[c] = <<kl0(c)>>
      BY <1>1, <2>3
    <2> QED
      BY <1>2, <2>1, <2>2, <2>3
  <1>5. ASSUME NEW k \in Keys, Known(k) PROVE Known(k)'
    <2>1. k.created \in Nat /\ k.n \in Nat /\ k.cfg \in Configs
      BY DEF Keys
    <2>2. k.kind = "auto" /\ now' - k.created < Lifetime => Opens(k, auto'["own"])
      <3>1. now' - k.created < Lifetime => now - k.created < Lifetime
        BY <1>0, <2>1, TicketKeysAssumption
      <3> QED
        BY <1>5, <3>1 DEF Known, Grows
    <2>3. k.kind = "set" => k.n <= sets'
      BY <1>0, <1>5, <2>1 DEF Known
    <2>4. k.kind = "legacy" => explicit'[k.cfg] # <<>>
      BY <1>3, <1>5, <2>1 DEF Known
    <2> QED
      BY <1>5, <2>2, <2>3, <2>4 DEF Known, Opens
  <1>6. ASSUME NEW c \in Configs PROVE SetOf(c)' >= SetOf(c) /\ SetOf(c) \in Nat
    <2>1. explicit[c] # <<>> => /\ Head(explicit[c]) = explicit[c][1]
                                /\ Head(explicit[c]) \in Keys
      BY <1>0
    <2>2. explicit[c] # <<>> => Head(explicit[c]).n \in Nat
      BY <2>1 DEF Keys
    <2>3. SetOf(c) \in Nat /\ SetOf(c) <= sets
      BY <1>0, <2>1, <2>2 DEF SetOf, Given
    <2>4. CASE explicit'[c] = explicit[c]
      BY <2>3, <2>4 DEF SetOf
    <2>5. CASE explicit'[c] = <<ks0(c)>> /\ sets' = sets + 1
      <3>1. SetOf(c)' = sets + 1
        BY <1>1, <2>5 DEF SetOf
      <3> QED
        BY <1>0, <2>3, <3>1
    <2>6. CASE explicit[c] = <<>> /\ explicit'[c] = <<kl0(c)>>
      <3>1. SetOf(c)' = 0 /\ SetOf(c) = 0
        BY <1>1, <2>6 DEF SetOf
      <3> QED
        BY <3>1
    <2> QED
      BY <1>2, <2>3, <2>4, <2>5, <2>6
  <1> QED
    BY <1>3, <1>4, <1>5, <1>6

\* A call that does not move keeps its part of the invariant through such a step.
LEMMA CallKept ==
    ASSUME IInv, TypeOK', Grows, NEW t \in Handshakes, Unmoved(t)
    PROVE  Begun(t)' /\ OpensTicket(t)' /\ HeedsSet(t)'
  <1> DEFINE k == ticket[t]
  <1>1. /\ k \in Keys /\ Known(k) /\ on[t] \in Configs /\ asOf[t] \in [Configs -> Nat]
        /\ Begun(t) /\ OpensTicket(t) /\ HeedsSet(t)
    BY DEF IInv, TypeOK, CallType, HistType, Threads, Returned, Called
  <1>2. /\ now \in Nat /\ now' \in Nat /\ now' >= now /\ sets \in Nat /\ disabled' = disabled
        /\ k.created \in Nat /\ k.n \in Nat /\ k.cfg \in Configs
    BY <1>1 DEF IInv, TypeOK, DataType, HistType, Grows, Keys
  <1>3. \A c \in Configs : SetOf(c)' >= SetOf(c) /\ SetOf(c) \in Nat /\ SetOf(c)' \in Nat
    <2>1. \A c \in Configs : SetOf(c)' >= SetOf(c) /\ SetOf(c) \in Nat
      BY GrowsKeeps DEF IInv
    <2>2. ASSUME NEW c \in Configs PROVE SetOf(c)' \in Nat
      <3>1. explicit'[c] # <<>> => Head(explicit'[c]) \in Keys
        BY DEF TypeOK, DataType
      <3> QED
        BY <3>1 DEF SetOf, Keys
    <2> QED
      BY <2>1, <2>2
  <1>4. \A c \in Configs : explicit'[c] = <<>> => explicit[c] = <<>>
    BY GrowsKeeps DEF IInv
  <1>5. \A c \in Configs : k.kind # "auto" /\ explicit'[c] = <<k>> => explicit[c] = <<k>>
    <2> SUFFICES ASSUME NEW c \in Configs, k.kind # "auto", explicit'[c] = <<k>>,
                        explicit[c] # <<k>>
                 PROVE  FALSE
      OBVIOUS
    <2>1. CASE k = Key("set", c, sets + 1, 0)
      <3>1. k.kind = "set" /\ k.n = sets + 1
        BY <2>1 DEF Key
      <3> QED
        BY <1>1, <1>2, <3>1 DEF Known
    <2>2. CASE explicit[c] = <<>> /\ k = Key("legacy", c, 0, 0)
      <3>1. k.kind = "legacy" /\ k.cfg = c
        BY <2>2 DEF Key
      <3> QED
        BY <1>1, <2>2, <3>1 DEF Known
    <2>3. \/ explicit'[c] = <<Key("set", c, sets + 1, 0)>>
          \/ explicit[c] = <<>> /\ explicit'[c] = <<Key("legacy", c, 0, 0)>>
      BY DEF Grows
    <2>4. \A x, y : <<x>> = <<y>> => x = y
      OBVIOUS
    <2> QED
      BY <2>1, <2>2, <2>3, <2>4
  <1>6. now' - k.created < Lifetime => now - k.created < Lifetime
    BY <1>2, TicketKeysAssumption
  <1>7. /\ at'[t] = at[t] /\ on'[t] = on[t] /\ ks'[t] = ks[t]
        /\ ticket'[t] = k /\ asOf'[t] = asOf[t]
    BY DEF Unmoved
  <1>8. Begun(t)'
    <2>1. \A c \in Configs : asOf[t][c] <= SetOf(c)'
      BY <1>1, <1>3 DEF Begun
    <2>2. at[t] \in {"lockRotate", "writeRotate"} /\ k.kind # "auto" => explicit'["own"] # <<k>>
      BY <1>1, <1>5 DEF Begun, Configs
    <2> QED
      BY <1>1, <1>7, <2>1, <2>2 DEF Begun
  <1>9. OpensTicket(t)'
    BY <1>1, <1>2, <1>4, <1>5, <1>6, <1>7 DEF OpensTicket, Opens
  <1>10. HeedsSet(t)'
    BY <1>1, <1>7 DEF HeedsSet, SeesSet
  <1> QED
    BY <1>8, <1>9, <1>10

\* The part of the invariant that is about one call.
CallInv(t) ==
    /\ Known(ticket[t]) /\ \A i \in DOMAIN ks[t] : Known(ks[t][i])
    /\ Begun(t) /\ OpensTicket(t) /\ HeedsSet(t)

\* A step keeps the invariant when it only grows the keys and leaves what it
\* returns, and the calls it moves, as the invariant says.
LEMMA StepKeeps ==
    ASSUME IInv, TypeOK', Aged', Grows, Known(held)',
           \A t \in Handshakes : Unmoved(t) \/ CallInv(t)'
    PROVE  IInv'
  <1>1. Given' /\ \A k \in Keys : Known(k) => Known(k)'
    BY GrowsKeeps DEF IInv
  <1>2. ASSUME NEW t \in Handshakes, Unmoved(t) PROVE CallInv(t)'
    <2>1. Begun(t)' /\ OpensTicket(t)' /\ HeedsSet(t)'
      BY <1>2, CallKept
    <2>2. /\ ticket[t] \in Keys /\ Known(ticket[t]) /\ ks[t] \in Seq(Keys)
          /\ \A i \in DOMAIN ks[t] : ks[t][i] \in Keys /\ Known(ks[t][i])
      BY DEF IInv, TypeOK, CallType, Returned
    <2>3. ticket'[t] = ticket[t] /\ ks'[t] = ks[t]
      BY <1>2 DEF Unmoved
    <2>4. Known(ticket[t])'
      BY <1>1, <2>2, <2>3 DEF Known
    <2>5. ASSUME NEW i \in DOMAIN ks[t] PROVE Known(ks[t][i])'
      BY <1>1, <2>2, <2>3 DEF Known
    <2> QED
      BY <2>1, <2>3, <2>4, <2>5 DEF CallInv
  <1>3. \A t \in Handshakes : CallInv(t)'
    BY <1>2
  <1>4. Returned' /\ Called'
    BY <1>3 DEF CallInv, Returned, Called
  <1> QED
    BY <1>1, <1>4 DEF IInv

\* Where the explicit and the automatic keys stay as they are, so does the rest.
LEMMA Quiet ==
    ASSUME IInv, TypeOK', UNCHANGED <<dataVars, sets>>, now' >= now
    PROVE  Aged' /\ Grows
  <1>1. Grows
    BY DEF Grows, dataVars, Opens, IInv, TypeOK, HistType
  <1>2. now \in Nat /\ now' \in Nat
    BY DEF IInv, TypeOK, DataType
  <1>3. \A i \in DOMAIN auto["own"] : auto["own"][i] \in Keys
    BY DEF IInv, TypeOK, DataType, Configs
  <1>4. \A i \in DOMAIN auto["own"] : auto["own"][i].created \in Nat
    BY <1>3 DEF Keys
  <1>5. Aged'
    BY <1>2, <1>4 DEF IInv, Aged, Spaced, dataVars
  <1> QED
    BY <1>1, <1>5

\* The keys of a configuration are keys as the invariant describes returned ones.
LEMMA SourcesKnown ==
    ASSUME IInv
    PROVE  /\ \A c \in Configs : \A i \in DOMAIN explicit[c] : Known(explicit[c][i])
           /\ \A i \in DOMAIN auto["own"] : Known(auto["own"][i])
           /\ Known(NoTicket)
  <1>1. ASSUME NEW c \in Configs, NEW i \in DOMAIN explicit[c] PROVE Known(explicit[c][i])
    <2>1. explicit[c] # <<>> /\ explicit[c] \in Seq(Keys)
      BY <1>1 DEF IInv, TypeOK, DataType
    <2>2. i = 1
      BY <2>1 DEF IInv, Given
    <2> QED
      BY <2>1, <2>2 DEF IInv, Given, Known
  <1>2. ASSUME NEW i \in DOMAIN auto["own"] PROVE Known(auto["own"][i])
    BY DEF IInv, Aged, Known, Opens
  <1>3. Known(NoTicket)
    BY DEF Known, NoTicket, Key
  <1> QED
    BY <1>1, <1>2, <1>3

--------------------------------------------------------------------------------
(* The inductive invariant *)

\* The initial states satisfy the invariant.
LEMMA InitIInv == Init => IInv
  <1> SUFFICES ASSUME Init PROVE IInv
    OBVIOUS
  <1>1. TypeOK
    <2>1. PICK s \in Setups : disabled = s.disabled /\ legacy = s.legacy
      BY DEF Init
    <2>2. disabled \subseteq Configs /\ legacy \in [Configs -> {"zero", "user", "deprecated"}]
      BY <2>1, TicketKeysAssumption
    <2> QED
      BY <2>2, KeyType DEF Init, TypeOK, DataType, LockType, CallType, HistType, Configs
  <1>2. Aged /\ Given
    BY DEF Init, Aged, Given, Spaced, Configs
  <1>3. Known(NoTicket)
    BY DEF Known, NoTicket, Key
  <1>4. Returned
    BY <1>3 DEF Init, Returned
  <1>5. Called
    BY DEF Init, Called, Begun, OpensTicket, HeedsSet, SetOf, Threads, Configs
  <1> QED
    BY <1>1, <1>2, <1>4, <1>5 DEF IInv

\* The steps of a goroutine that is no handshake, and the clock.
LEMMA AdminStep ==
    ASSUME IInv,
           \/ Tick
           \/ \E t \in Setters, c \in Configs : BeginSet(t, c)
           \/ \E t \in Setters : SetterStep(t)
           \/ \E t \in Cloners, c \in Configs : BeginClone(t, c)
           \/ \E t \in Cloners : ClonerStep(t)
    PROVE  IInv'
  <1>1. (\A t \in Setters \cup Cloners : t \in Threads /\ t \notin Handshakes) /\ TypeOK
    BY TicketKeysAssumption DEF IInv, Threads
  <1>2. held \in Keys /\ Known(held) /\ now \in Nat /\ sets \in Nat
    BY DEF IInv, Returned, TypeOK, HistType, DataType
  <1>3. \A k \in Keys : Grows /\ TypeOK' /\ Known(k) => Known(k)'
    BY GrowsKeeps DEF IInv
  <1>4. CASE Tick
    <2>1. TypeOK' /\ now' >= now /\ held' = held
      BY <1>1, <1>2, <1>4 DEF Tick, TypeOK, DataType, LockType, CallType, HistType, dataVars,
                              lockVars,
                              histVars
    <2>2. Aged' /\ Grows
      BY <1>4, <2>1, Quiet DEF Tick, histVars
    <2>3. \A t \in Handshakes : Unmoved(t)
      BY <1>4 DEF Tick, Unmoved, histVars
    <2>4. Known(held)'
      BY <1>2, <1>3, <2>1, <2>2 DEF Known
    <2> QED
      BY <2>1, <2>2, <2>3, <2>4, StepKeeps
  <1>5. ASSUME NEW t \in Setters, NEW c \in Configs, BeginSet(t, c) PROVE IInv'
    <2>1. TypeOK' /\ now' >= now /\ held' = held
      BY <1>1, <1>2, <1>5 DEF BeginSet, Go, TypeOK, DataType, LockType, CallType, HistType,
                              dataVars,
                              lockVars, histVars
    <2>2. Aged' /\ Grows
      BY <1>5, <2>1, Quiet DEF BeginSet, histVars
    <2>3. \A u \in Handshakes : Unmoved(u)
      BY <1>1, <1>5 DEF BeginSet, Go, Unmoved, histVars, TypeOK, CallType
    <2>4. Known(held)'
      BY <1>2, <1>3, <2>1, <2>2 DEF Known
    <2> QED
      BY <2>1, <2>2, <2>3, <2>4, StepKeeps
  <1>6. ASSUME NEW t \in Setters, Lock(t) PROVE IInv'
    <2>0. \E to \in {"writeLegacy", "writeRotate", "writeSet"} : at' = [at EXCEPT ![t] = to]
      BY <1>6 DEF Lock, Go
    <2>1. TypeOK' /\ now' >= now /\ held' = held
      BY <1>1, <1>2, <1>6, <2>0 DEF Lock, TypeOK, DataType, LockType, CallType, HistType, dataVars,
                                    lockVars, histVars
    <2>2. Aged' /\ Grows
      BY <1>6, <2>1, Quiet DEF Lock, histVars
    <2>3. \A u \in Handshakes : Unmoved(u)
      BY <1>1, <1>6, <2>0 DEF Lock, Unmoved, histVars, TypeOK, CallType
    <2>4. Known(held)'
      BY <1>2, <1>3, <2>1, <2>2 DEF Known
    <2> QED
      BY <2>1, <2>2, <2>3, <2>4, StepKeeps
  <1>7. ASSUME NEW t \in Setters, WriteSet(t) PROVE IInv'
    <2> DEFINE k == Key("set", on[t], sets + 1, 0)
    <2>1. on[t] \in Configs /\ k \in Keys /\ sets' = sets + 1 /\ sets' \in Nat /\ sets' >= sets
      BY <1>1, <1>2, <1>7, KeyType DEF WriteSet, TypeOK, CallType
    <2>2. explicit' = [explicit EXCEPT ![on[t]] = <<k>>]
      BY <1>7 DEF WriteSet
    <2> HIDE DEF k
    <2>3. explicit' \in [Configs -> Seq(Keys)]
      BY <1>1, <2>1, <2>2 DEF TypeOK, DataType
    <2>4. TypeOK' /\ now' = now /\ held' = held /\ auto' = auto
      BY <1>1, <1>2, <1>7, <2>1, <2>3
         DEF WriteSet, Go, Unlock, TypeOK, DataType, LockType, CallType,
                                          HistType
    <2>5. \A c \in Configs : \/ explicit'[c] = explicit[c]
                             \/ explicit'[c] = <<Key("set", c, sets + 1, 0)>> /\ sets' = sets + 1
      BY <1>1, <2>1, <2>2 DEF TypeOK, DataType, k
    <2>6. Grows
      BY <1>2, <1>7, <2>1, <2>4, <2>5 DEF Grows, WriteSet, Opens
    <2>7. Aged'
      BY <2>4 DEF IInv, Aged, Spaced
    <2>8. \A u \in Handshakes : Unmoved(u)
      BY <1>1, <1>7 DEF WriteSet, Go, Unmoved, TypeOK, CallType
    <2>9. Known(held)'
      BY <1>2, <1>3, <2>4, <2>6 DEF Known
    <2> QED
      BY <2>4, <2>6, <2>7, <2>8, <2>9, StepKeeps
  <1>8. ASSUME NEW t \in Cloners, NEW c \in Configs, BeginClone(t, c) PROVE IInv'
    <2>1. TypeOK' /\ now' >= now /\ held' = held
      BY <1>1, <1>2, <1>8 DEF BeginClone, Go, TypeOK, DataType, LockType, CallType, HistType,
                              dataVars,
                              lockVars, histVars
    <2>2. Aged' /\ Grows
      BY <1>8, <2>1, Quiet DEF BeginClone
    <2>3. \A u \in Handshakes : Unmoved(u)
      BY <1>1, <1>8 DEF BeginClone, Go, Unmoved, TypeOK, CallType
    <2>4. Known(held)'
      BY <1>2, <1>3, <2>1, <2>2 DEF Known
    <2> QED
      BY <2>1, <2>2, <2>3, <2>4, StepKeeps
  <1>9. ASSUME NEW t \in Cloners, Clone(t) PROVE IInv'
    <2>1. TypeOK' /\ now' >= now /\ held' = held
      BY <1>1, <1>2, <1>9 DEF Clone, RLocked, Go, TypeOK, DataType, LockType, CallType, HistType,
                              dataVars, histVars
    <2>2. Aged' /\ Grows
      BY <1>9, <2>1, Quiet DEF Clone, histVars
    <2>3. \A u \in Handshakes : Unmoved(u)
      BY <1>1, <1>9 DEF Clone, Go, Unmoved, histVars, TypeOK, CallType
    <2>4. Known(held)'
      BY <1>2, <1>3, <2>1, <2>2 DEF Known
    <2> QED
      BY <2>1, <2>2, <2>3, <2>4, StepKeeps
  <1> QED
    BY <1>4, <1>5, <1>6, <1>7, <1>8, <1>9 DEF SetterStep, ClonerStep

\* The steps of a handshake that leave the keys of the configurations alone.
LEMMA ReadingStep ==
    ASSUME IInv, NEW t \in Handshakes,
           \/ \E c \in Configs : BeginTicketKeys(t, c)
           \/ ReadKeys(t) \/ Lock(t) \/ LastRLock(t) \/ SealTicket(t)
    PROVE  IInv'
  <1>1. /\ t \in Threads /\ TypeOK /\ on[t] \in Configs /\ DOMAIN at = Threads
        /\ held \in Keys /\ Known(held) /\ now \in Nat /\ sets \in Nat
        /\ ticket[t] \in Keys /\ Known(ticket[t]) /\ ks[t] \in Seq(Keys)
        /\ \A i \in DOMAIN ks[t] : Known(ks[t][i])
        /\ asOf[t] \in [Configs -> Nat]
        /\ Begun(t) /\ OpensTicket(t) /\ HeedsSet(t)
    BY DEF IInv, Threads, TypeOK, DataType, CallType, HistType, Returned, Called
  <1>2. UNCHANGED <<now, dataVars, sets>> => \A k : Known(k)' <=> Known(k)
    BY DEF Known, dataVars, Opens
  <1>3. UNCHANGED dataVars => \A c \in Configs : SetOf(c)' = SetOf(c)
    BY DEF SetOf, dataVars
  <1>4. ASSUME TypeOK', UNCHANGED <<now, dataVars, sets>>, Known(held'), Known(ticket'[t]),
               \A i \in DOMAIN ks'[t] : Known(ks'[t][i]),
               Begun(t)', OpensTicket(t)', HeedsSet(t)',
               \A u \in Handshakes \ {t} : Unmoved(u)
        PROVE  IInv'
    <2>1. Aged' /\ Grows
      BY <1>1, <1>4, Quiet
    <2>2. Known(held)' /\ Known(ticket[t])' /\ (\A i \in DOMAIN ks[t] : Known(ks[t][i]))'
      BY <1>2, <1>4 DEF Known
    <2>3. CallInv(t)'
      BY <1>4, <2>2 DEF CallInv
    <2>4. \A u \in Handshakes : Unmoved(u) \/ CallInv(u)'
      BY <1>4, <2>3
    <2> QED
      BY <1>4, <2>1, <2>2, <2>4, StepKeeps
  <1>5. ASSUME NEW c \in Configs, BeginTicketKeys(t, c) PROVE IInv'
    <2>1. \A d \in Configs : SetOf(d) \in Nat
      <3>1. \A d \in Configs : explicit[d] # <<>> => Head(explicit[d]) \in Keys
        BY <1>1 DEF TypeOK, DataType
      <3> QED
        BY <3>1 DEF SetOf, Keys
    <2>2. asOf'[t] = [d \in Configs |-> IF c = "own" /\ d # c THEN 0 ELSE SetOf(d)]
      BY <1>1, <1>5 DEF BeginTicketKeys, TypeOK, HistType
    <2>3. asOf'[t] \in [Configs -> Nat] /\ asOf' \in [Handshakes -> [Configs -> Nat]]
      BY <1>1, <1>5, <2>1, <2>2 DEF BeginTicketKeys, TypeOK, HistType
    <2>4. TypeOK'
      BY <1>1, <1>5, <2>3 DEF BeginTicketKeys, Go, TypeOK, DataType, LockType, CallType, HistType,
                              dataVars, lockVars, histVars
    <2>5. /\ at'[t] = "read" /\ on'[t] = c /\ ks' = ks /\ held' = held /\ ticket'[t] = held
          /\ UNCHANGED <<now, dataVars, sets>>
      BY <1>1, <1>5 DEF BeginTicketKeys, Go, TypeOK, CallType
    <2>6. \A u \in Handshakes \ {t} : Unmoved(u)
      BY <1>1, <1>5 DEF BeginTicketKeys, Go, Unmoved, TypeOK, CallType, HistType
    <2>7. Begun(t)'
      BY <1>3, <2>1, <2>2, <2>5 DEF Begun, Configs
    <2>8. OpensTicket(t)' /\ HeedsSet(t)'
      BY <2>5 DEF OpensTicket, HeedsSet
    <2> QED
      BY <1>1, <1>4, <2>4, <2>5, <2>6, <2>7, <2>8
  <1>6. CASE ReadKeys(t)
    <2>1. /\ UNCHANGED <<now, dataVars, sets>> /\ ticket' = ticket /\ asOf' = asOf /\ held' = held
          /\ calls' = calls /\ clones' = clones /\ writer' = writer
      BY <1>6 DEF ReadKeys, histVars
    <2>2. disabled' = disabled /\ explicit' = explicit /\ auto' = auto /\ now' = now
      BY <2>1 DEF dataVars
    <2>3. \A a : at' = [at EXCEPT ![t] = a] => at'[t] = a
      BY <1>1
    <2>4. ASSUME TypeOK', Begun(t)', OpensTicket(t)', HeedsSet(t)',
                 \A i \in DOMAIN ks'[t] : Known(ks'[t][i]),
                 \A u \in Handshakes \ {t} : Unmoved(u)
          PROVE  IInv'
      BY <1>1, <1>4, <2>1, <2>4
    <2>5. CASE ReadDisabled(t)
      <3>1. /\ on[t] \in disabled /\ at[t] = "read" /\ at'[t] = "have" /\ on' = on
            /\ ks'[t] = <<>>
        BY <1>1, <2>3, <2>5 DEF ReadDisabled, Returns, Go, TypeOK, CallType
      <3>2. TypeOK'
        <4>1. readers' \in [Configs -> Nat]
          BY <1>1, <2>5 DEF ReadDisabled, RLocked, RLockKept, TypeOK, LockType
        <4> QED
          BY <1>1, <2>1, <2>5, <4>1 DEF ReadDisabled, Returns, Go, TypeOK, DataType, LockType,
                                        CallType, HistType, dataVars, lockVars, histVars
      <3>3. \A u \in Handshakes \ {t} : Unmoved(u)
        BY <1>1, <2>1, <2>5 DEF ReadDisabled, Returns, Go, Unmoved, TypeOK, CallType
      <3>4. Begun(t)'
        BY <1>1, <1>3, <2>1, <3>1 DEF Begun
      <3>5. OpensTicket(t)' /\ HeedsSet(t)'
        BY <2>2, <3>1 DEF OpensTicket, HeedsSet
      <3>6. \A i \in DOMAIN ks'[t] : Known(ks'[t][i])
        BY <3>1
      <3> QED
        BY <2>4, <3>2, <3>3, <3>4, <3>5, <3>6
    <2>6. CASE ReadNeedsLegacy(t)
      <3>1. at[t] = "read" /\ at'[t] = "lockLegacy" /\ on' = on /\ ks' = ks
        BY <1>1, <2>3, <2>6 DEF ReadNeedsLegacy, Go
      <3>2. TypeOK'
        BY <1>1, <2>1, <2>6 DEF ReadNeedsLegacy, RLocked, Go, TypeOK, DataType, LockType, CallType,
                                HistType, dataVars, lockVars, histVars
      <3>3. \A u \in Handshakes \ {t} : Unmoved(u)
        BY <1>1, <2>1, <2>6 DEF ReadNeedsLegacy, Go, Unmoved, TypeOK, CallType
      <3>4. Begun(t)'
        BY <1>1, <1>3, <2>1, <3>1 DEF Begun
      <3>5. OpensTicket(t)' /\ HeedsSet(t)'
        BY <3>1 DEF OpensTicket, HeedsSet
      <3> QED
        BY <1>1, <2>4, <3>1, <3>2, <3>3, <3>4, <3>5
    <2>7. CASE ReadExplicit(t)
      <3> DEFINE c == on[t]
      <3>1. /\ at[t] = "read" /\ at'[t] = "have" /\ on' = on
            /\ explicit[c] # <<>> /\ ks'[t] = explicit[c]
        BY <1>1, <2>3, <2>7 DEF ReadExplicit, Returns, Go, TypeOK, CallType
      <3>2. TypeOK'
        <4>1. explicit[c] \in Seq(Keys)
          BY <1>1 DEF TypeOK, DataType
        <4> QED
          BY <1>1, <2>1, <2>7, <4>1 DEF ReadExplicit, RLocked, Returns, Go, TypeOK, DataType,
                                        LockType, CallType, HistType, dataVars, lockVars, histVars
      <3>3. \A u \in Handshakes \ {t} : Unmoved(u)
        BY <1>1, <2>1, <2>7 DEF ReadExplicit, Returns, Go, Unmoved, TypeOK, CallType
      <3>4. Begun(t)'
        BY <1>1, <1>3, <2>1, <3>1 DEF Begun
      <3>5. OpensTicket(t)'
        <4>1. \A k : explicit[c] = <<k>> => Opens(k, explicit[c])
          BY DEF Opens
        <4> QED
          BY <2>1, <2>2, <3>1, <4>1 DEF OpensTicket, Opens
      <3>6. HeedsSet(t)'
        <4>1. \A d \in Configs : asOf[t][d] <= SetOf(d) /\ asOf[t][d] \in Nat
          BY <1>1 DEF Begun
        <4>2. asOf[t]["forClient"] > 0 => c = "forClient"
          BY <1>1 DEF Begun
        <4>3. asOf[t][c] > 0 => /\ Head(explicit[c]).kind = "set" /\ Head(explicit[c]).cfg = c
                                /\ Head(explicit[c]).n >= asOf[t][c]
          <5>1. explicit[c] \in Seq(Keys) /\ Head(explicit[c]) = explicit[c][1]
            BY <1>1, <3>1 DEF TypeOK, DataType
          <5>2. Head(explicit[c]) \in Keys
            BY <1>1, <3>1, <5>1
          <5>3. Head(explicit[c]).n \in Nat
            BY <5>2 DEF Keys
          <5>4. Head(explicit[c]).cfg = c
            BY <1>1, <3>1, <5>1 DEF IInv, Given
          <5> QED
            BY <1>1, <3>1, <4>1, <5>3, <5>4 DEF SetOf
        <4> QED
          BY <2>1, <3>1, <4>2, <4>3 DEF HeedsSet, SeesSet
      <3>7. \A i \in DOMAIN ks'[t] : Known(ks'[t][i])
        BY <1>1, <3>1, SourcesKnown
      <3> QED
        BY <2>4, <3>2, <3>3, <3>4, <3>5, <3>6, <3>7
    <2>8. CASE ReadFallsBack(t)
      <3>1. /\ at[t] = "read" /\ at'[t] = "read" /\ on[t] = "forClient" /\ on'[t] = "own"
            /\ ks' = ks /\ explicit["forClient"] = <<>>
        BY <1>1, <2>3, <2>8 DEF ReadFallsBack, Go, TypeOK, CallType
      <3>2. TypeOK'
        BY <1>1, <2>1, <2>8 DEF ReadFallsBack, RLocked, Go, Configs, TypeOK, DataType, LockType,
                                CallType, HistType, dataVars, lockVars, histVars
      <3>3. \A u \in Handshakes \ {t} : Unmoved(u)
        BY <1>1, <2>1, <2>8 DEF ReadFallsBack, Go, Unmoved, TypeOK, CallType
      <3>4. Begun(t)'
        <4>1. SetOf("forClient") = 0
          BY <3>1 DEF SetOf
        <4>2. ~(asOf[t]["forClient"] > 0)
          BY <1>1, <4>1 DEF Begun, Configs
        <4> QED
          BY <1>1, <1>3, <2>1, <3>1, <4>2 DEF Begun
      <3>5. OpensTicket(t)' /\ HeedsSet(t)'
        BY <3>1 DEF OpensTicket, HeedsSet
      <3> QED
        BY <1>1, <2>4, <3>1, <3>2, <3>3, <3>4, <3>5
    <2>9. CASE ReadAuto(t)
      <3>1. at[t] = "read" /\ on[t] = "own" /\ on' = on /\ explicit["own"] = <<>>
        BY <1>1, <2>9 DEF ReadAuto, Returns, Go
      <3>2. asOf[t]["own"] = 0 /\ asOf[t]["forClient"] = 0
        <4>1. SetOf("own") = 0
          BY <3>1 DEF SetOf
        <4>2. ~(asOf[t]["forClient"] > 0) /\ asOf[t]["own"] <= 0
          BY <1>1, <3>1, <4>1 DEF Begun, Configs
        <4>3. asOf[t]["own"] \in Nat /\ asOf[t]["forClient"] \in Nat
          BY <1>1 DEF Configs
        <4> QED
          BY <4>2, <4>3
      <3>3. CASE Fresh("own")
        <4>1. at'[t] = "have" /\ ks'[t] = auto["own"]
          BY <1>1, <2>3, <2>9, <3>1, <3>3 DEF ReadAuto, Returns, Go, TypeOK, CallType
        <4>2. TypeOK'
          <5>1. auto["own"] \in Seq(Keys)
            BY <1>1 DEF TypeOK, DataType, Configs
          <5> QED
            BY <1>1, <2>1, <2>9, <3>1, <3>3, <5>1
               DEF ReadAuto, RLocked, Returns, Go, TypeOK, DataType, LockType, CallType, HistType,
                   dataVars, lockVars, histVars
        <4>3. \A u \in Handshakes \ {t} : Unmoved(u)
          <5>1. ks' = [ks EXCEPT ![t] = auto["own"]] /\ at' = [at EXCEPT ![t] = "have"]
            BY <2>9, <3>1, <3>3 DEF ReadAuto, Returns, Go
          <5> QED
            BY <1>1, <2>1, <3>1, <5>1 DEF Unmoved, TypeOK, CallType
        <4>4. Begun(t)'
          BY <1>1, <1>3, <2>1, <3>1, <4>1 DEF Begun
        <4>5. OpensTicket(t)'
          <5>1. explicit["own"] # <<ticket[t]>>
            BY <3>1
          <5>2. ticket[t].kind = "auto" /\ now - ticket[t].created < Lifetime
                => Opens(ticket[t], auto["own"])
            BY <1>1 DEF Known
          <5> QED
            BY <1>1, <2>1, <2>2, <3>1, <4>1, <5>1, <5>2 DEF OpensTicket, Opens
        <4>6. HeedsSet(t)'
          BY <2>1, <3>2 DEF HeedsSet
        <4>7. \A i \in DOMAIN ks'[t] : Known(ks'[t][i])
          BY <4>1, SourcesKnown
        <4> QED
          BY <2>4, <4>2, <4>3, <4>4, <4>5, <4>6, <4>7
      <3>4. CASE ~Fresh("own")
        <4>1. at'[t] = "lockRotate" /\ ks' = ks
          BY <1>1, <2>3, <2>9, <3>1, <3>4 DEF ReadAuto, Go
        <4>2. TypeOK'
          BY <1>1, <2>1, <2>9, <3>1, <3>4
             DEF ReadAuto, RLocked, Go, TypeOK, DataType, LockType, CallType, HistType, dataVars,
                 lockVars, histVars
        <4>3. \A u \in Handshakes \ {t} : Unmoved(u)
          <5>1. at' = [at EXCEPT ![t] = "lockRotate"]
            BY <2>9, <3>1, <3>4 DEF ReadAuto, Go
          <5> QED
            BY <1>1, <2>1, <3>1, <4>1, <5>1 DEF Unmoved, TypeOK, CallType
        <4>4. Begun(t)'
          <5>1. \A k : <<k>> # <<>>
            OBVIOUS
          <5> QED
            BY <1>1, <1>3, <2>1, <2>2, <3>1, <3>2, <4>1, <5>1 DEF Begun
        <4>5. OpensTicket(t)' /\ HeedsSet(t)'
          BY <4>1 DEF OpensTicket, HeedsSet
        <4> QED
          BY <1>1, <2>4, <4>1, <4>2, <4>3, <4>4, <4>5
      <3> QED
        BY <3>3, <3>4
    <2> QED
      BY <1>6, <2>5, <2>6, <2>7, <2>8, <2>9 DEF ReadKeys
  <1>7. CASE Lock(t)
    <2>1. /\ UNCHANGED <<now, dataVars, sets>> /\ ticket' = ticket /\ asOf' = asOf /\ held' = held
          /\ on' = on /\ ks' = ks
          /\ \/ at[t] = "lockLegacy" /\ at'[t] = "writeLegacy"
             \/ at[t] = "lockRotate" /\ at'[t] = "writeRotate"
             \/ at[t] = "lockSet" /\ at'[t] = "writeSet"
      BY <1>1, <1>7 DEF Lock, Go, histVars
    <2>0. \E to \in {"writeLegacy", "writeRotate", "writeSet"} : at' = [at EXCEPT ![t] = to]
      BY <1>7 DEF Lock, Go
    <2>2. TypeOK'
      BY <1>1, <1>7, <2>0 DEF Lock, TypeOK, DataType, LockType, CallType, HistType, dataVars,
                              lockVars, histVars
    <2>3. \A u \in Handshakes \ {t} : Unmoved(u)
      BY <1>1, <1>7, <2>0 DEF Lock, Unmoved, histVars, TypeOK, CallType
    <2>4. Begun(t)'
      BY <1>1, <1>3, <2>1 DEF Begun, dataVars
    <2>5. OpensTicket(t)' /\ HeedsSet(t)'
      BY <2>1 DEF OpensTicket, HeedsSet
    <2> QED
      BY <1>1, <1>4, <2>1, <2>2, <2>3, <2>4, <2>5
  <1>8. CASE LastRLock(t)
    <2>1. /\ UNCHANGED <<now, dataVars, sets>> /\ ticket' = ticket /\ asOf' = asOf /\ held' = held
          /\ on' = on /\ ks' = ks /\ at[t] = "last" /\ at'[t] = "have"
      BY <1>1, <1>8 DEF LastRLock, Go, histVars
    <2>2. TypeOK'
      BY <1>1, <1>8 DEF LastRLock, Go, TypeOK, DataType, LockType, CallType, HistType, dataVars,
                        lockVars, histVars
    <2>3. \A u \in Handshakes \ {t} : Unmoved(u)
      BY <1>1, <1>8 DEF LastRLock, Go, Unmoved, histVars, TypeOK, CallType
    <2>4. Begun(t)'
      BY <1>1, <1>3, <2>1 DEF Begun
    <2>5. OpensTicket(t)'
      BY <1>1, <2>1 DEF OpensTicket, Opens, dataVars
    <2>6. HeedsSet(t)'
      BY <1>1, <2>1 DEF HeedsSet, Begun
    <2> QED
      BY <1>1, <1>4, <2>1, <2>2, <2>3, <2>4, <2>5, <2>6
  <1>9. CASE SealTicket(t)
    <2>1. /\ UNCHANGED <<now, dataVars, sets>> /\ ticket'[t] = NoTicket /\ ks'[t] = <<>>
          /\ at'[t] = "idle" /\ asOf'[t] = [c \in Configs |-> 0] /\ on'[t] = "own"
      BY <1>1, <1>9 DEF SealTicket, Go, TypeOK, CallType, HistType
    <2>2. held' \in Keys /\ Known(held')
      <3>1. CASE held' = held
        BY <1>1, <3>1
      <3>2. CASE ks[t] # <<>> /\ held' = Head(ks[t])
        <4>1. 1 \in DOMAIN ks[t] /\ Head(ks[t]) = ks[t][1] /\ ks[t][1] \in Keys
          BY <1>1, <3>2
        <4> QED
          BY <1>1, <3>2, <4>1
      <3> QED
        BY <1>9, <3>1, <3>2 DEF SealTicket
    <2>3. TypeOK'
      <3>1. asOf' \in [Handshakes -> [Configs -> Nat]]
        BY <1>1, <1>9 DEF SealTicket, TypeOK, HistType
      <3> QED
        BY <1>1, <1>9, <2>2, <3>1, KeyType
           DEF SealTicket, Go, Configs, TypeOK, DataType, LockType, CallType, HistType, dataVars,
               lockVars, histVars
    <2>4. \A u \in Handshakes \ {t} : Unmoved(u)
      BY <1>1, <1>9 DEF SealTicket, Go, Unmoved, TypeOK, CallType, HistType
    <2>5. Begun(t)'
      <3>1. \A c \in Configs : SetOf(c) >= 0
        <4>1. \A c \in Configs : explicit[c] # <<>> => Head(explicit[c]) \in Keys
          BY <1>1 DEF TypeOK, DataType
        <4> QED
          BY <4>1 DEF SetOf, Keys
      <3> QED
        BY <1>3, <2>1, <3>1 DEF Begun, Configs
    <2>6. OpensTicket(t)' /\ HeedsSet(t)'
      BY <2>1 DEF OpensTicket, HeedsSet
    <2> QED
      BY <1>4, <2>1, <2>2, <2>3, <2>4, <2>5, <2>6, SourcesKnown
  <1> QED
    BY <1>5, <1>6, <1>7, <1>8, <1>9

\* The steps of a handshake under the write lock.
LEMMA WritingStep ==
    ASSUME IInv, NEW t \in Handshakes, WriteLegacy(t) \/ WriteRotate(t)
    PROVE  IInv'
  <1>1. /\ t \in Threads /\ TypeOK /\ on[t] \in Configs /\ DOMAIN at = Threads
        /\ held \in Keys /\ Known(held) /\ now \in Nat /\ sets \in Nat
        /\ ticket[t] \in Keys /\ Known(ticket[t]) /\ ks[t] \in Seq(Keys)
        /\ \A i \in DOMAIN ks[t] : ks[t][i] \in Keys /\ Known(ks[t][i])
        /\ asOf[t] \in [Configs -> Nat] /\ Begun(t)
    BY DEF IInv, Threads, TypeOK, DataType, CallType, HistType, Returned, Called
  <1>2. /\ now' = now /\ disabled' = disabled /\ readers' = readers /\ on' = on
        /\ ticket' = ticket /\ held' = held /\ calls' = calls /\ sets' = sets
        /\ clones' = clones /\ asOf' = asOf /\ writer' = [writer EXCEPT ![on[t]] = Nobody]
    BY DEF WriteLegacy, WriteRotate, Unlock, histVars
  <1>3. \A k \in Keys : Grows /\ TypeOK' /\ Known(k) => Known(k)'
    BY GrowsKeeps DEF IInv
  <1>4. CASE WriteLegacy(t)
    <2> DEFINE c == on[t]
               k == Key("legacy", c, 0, 0)
    <2>1. /\ at[t] = "writeLegacy" /\ at' = [at EXCEPT ![t] = "read"] /\ ks' = ks /\ auto' = auto
          /\ legacy' = [legacy EXCEPT ![c] = IF @ = "zero" THEN "deprecated" ELSE @]
          /\ \/ explicit' = explicit
             \/ explicit[c] = <<>> /\ explicit' = [explicit EXCEPT ![c] = <<k>>]
      <3>1. explicit' = [explicit EXCEPT ![c] = IF legacy[c] = "user" /\ explicit[c] = <<>>
                                                THEN <<k>> ELSE explicit[c]]
        BY <1>4 DEF WriteLegacy
      <3>2. explicit \in [Configs -> Seq(Keys)]
        BY <1>1 DEF TypeOK, DataType
      <3> HIDE DEF k
      <3>3. \/ explicit' = explicit
            \/ explicit[c] = <<>> /\ explicit' = [explicit EXCEPT ![c] = <<k>>]
        BY <1>1, <3>1, <3>2
      <3> QED
        BY <1>4, <3>3 DEF WriteLegacy, Go
    <2>2. k \in Keys
      BY <1>1, KeyType
    <2>3. explicit' \in [Configs -> Seq(Keys)]
      <3>1. explicit \in [Configs -> Seq(Keys)] /\ c \in Configs
        BY <1>1 DEF TypeOK, DataType
      <3> HIDE DEF c, k
      <3>2. <<k>> \in Seq(Keys)
        BY <2>2
      <3> QED
        BY <2>1, <3>1, <3>2
    <2>4. legacy' \in [Configs -> {"zero", "user", "deprecated"}]
      <3>1. legacy \in [Configs -> {"zero", "user", "deprecated"}]
        BY <1>1 DEF TypeOK, DataType
      <3> QED
        BY <1>1, <2>1, <3>1
    <2>5. TypeOK'
      <3> HIDE DEF c, k
      <3> QED
        BY <1>1, <1>2, <2>1, <2>3, <2>4 DEF TypeOK, DataType, LockType, CallType, HistType
    <2>6. Grows
      <3>1. \A d \in Configs : \/ explicit'[d] = explicit[d]
                               \/ explicit[d] = <<>> /\ explicit'[d] = <<Key("legacy", d, 0, 0)>>
        BY <1>1, <2>1 DEF TypeOK, DataType
      <3> QED
        BY <1>1, <1>2, <2>1, <3>1 DEF Grows, Opens
    <2>7. Aged'
      BY <1>2, <2>1 DEF IInv, Aged, Spaced
    <2>8. \A u \in Handshakes \ {t} : Unmoved(u)
      BY <1>1, <1>2, <2>1 DEF Unmoved
    <2>9. CallInv(t)'
      <3>1. Known(ticket[t])' /\ (\A i \in DOMAIN ks[t] : Known(ks[t][i]))'
        BY <1>1, <1>2, <1>3, <2>1, <2>5, <2>6 DEF Known
      <3>2. at'[t] = "read"
        BY <1>1, <2>1
      <3>3. \A d \in Configs : asOf[t][d] <= SetOf(d)'
        <4>1. \A d \in Configs : SetOf(d)' >= SetOf(d) /\ SetOf(d) \in Nat
          BY <2>5, <2>6, GrowsKeeps DEF IInv
        <4>2. \A d \in Configs : SetOf(d)' \in Nat
          <5>1. \A d \in Configs : explicit'[d] # <<>> => Head(explicit'[d]) \in Keys
            BY <2>3
          <5> QED
            BY <5>1 DEF SetOf, Keys
        <4>3. \A d \in Configs : asOf[t][d] <= SetOf(d) /\ asOf[t][d] \in Nat
          BY <1>1 DEF Begun
        <4> QED
          BY <4>1, <4>2, <4>3
      <3>4. Begun(t)'
        BY <1>1, <1>2, <3>2, <3>3 DEF Begun
      <3> QED
        BY <3>1, <3>2, <3>4 DEF CallInv, OpensTicket, HeedsSet
    <2>10. Known(held)'
      BY <1>1, <1>2, <1>3, <2>5, <2>6 DEF Known
    <2> QED
      BY <2>5, <2>6, <2>7, <2>8, <2>9, <2>10, StepKeeps
  <1>5. CASE WriteRotate(t)
    <2>1. at[t] = "writeRotate" /\ at' = [at EXCEPT ![t] = "last"]
      BY <1>5 DEF WriteRotate, Go
    <2>2. /\ on[t] = "own" /\ asOf[t]["own"] = 0 /\ asOf[t]["forClient"] = 0
          /\ ticket[t].kind # "auto" => explicit["own"] # <<ticket[t]>>
      BY <1>1, <2>1 DEF Begun
    <2>3. /\ auto' = [auto EXCEPT !["own"] = KeysDue] /\ ks' = [ks EXCEPT ![t] = KeysDue]
          /\ legacy' = legacy /\ explicit' = explicit
      BY <1>5, <2>2 DEF WriteRotate, KeysDue
    <2>4. /\ KeysDue \in Seq(Keys) /\ KeysDue # <<>>
          /\ \A i \in DOMAIN KeysDue :
                KeysDue[i].kind = "auto" /\ KeysDue[i].cfg = "own" /\ KeysDue[i].created <= now
          /\ Spaced(KeysDue)
          /\ \A k \in Keys : Opens(k, auto["own"]) /\ now - k.created < Lifetime
                            => Opens(k, KeysDue)
      BY KeysDueFacts DEF IInv
    <2>5. TypeOK'
      BY <1>1, <1>2, <2>1, <2>3, <2>4 DEF TypeOK, DataType, LockType, CallType, HistType
    <2>6. auto'["own"] = KeysDue /\ auto'["forClient"] = auto["forClient"] /\ ks'[t] = KeysDue
      BY <1>1, <2>3 DEF TypeOK, DataType, CallType, Configs
    <2>7. Grows
      BY <1>1, <1>2, <2>3, <2>4, <2>6 DEF Grows
    <2>8. Aged'
      BY <1>2, <2>4, <2>6 DEF IInv, Aged, Spaced
    <2>9. \A u \in Handshakes \ {t} : Unmoved(u)
      BY <1>1, <1>2, <2>1, <2>3 DEF Unmoved, TypeOK, CallType
    <2>10. CallInv(t)'
      <3>1. at'[t] = "last"
        BY <1>1, <2>1
      <3>2. Known(ticket[t])'
        BY <1>1, <1>2, <1>3, <2>5, <2>7 DEF Known
      <3>3. (\A i \in DOMAIN ks[t] : Known(ks[t][i]))'
        BY <2>4, <2>6 DEF Known, Opens
      <3>4. \A d \in Configs : SetOf(d)' = SetOf(d)
        BY <2>3 DEF SetOf
      <3>5. Begun(t)'
        BY <1>1, <1>2, <2>2, <3>1, <3>4 DEF Begun
      <3>6. OpensTicket(t)'
        <4>1. ticket[t].kind = "auto" /\ now - ticket[t].created < Lifetime
              => Opens(ticket[t], KeysDue)
          BY <1>1, <2>4 DEF Known
        <4> QED
          BY <1>2, <2>2, <2>3, <2>6, <3>1, <4>1 DEF OpensTicket, Opens
      <3>7. HeedsSet(t)'
        BY <3>1 DEF HeedsSet
      <3> QED
        BY <3>2, <3>3, <3>5, <3>6, <3>7 DEF CallInv
    <2>11. Known(held)'
      BY <1>1, <1>2, <1>3, <2>5, <2>7 DEF Known
    <2> QED
      BY <2>5, <2>7, <2>8, <2>9, <2>10, <2>11, StepKeeps
  <1> QED
    BY <1>4, <1>5

\* Every step preserves the invariant.
LEMMA NextIInv == IInv /\ [Next]_vars => IInv'
  <1> SUFFICES ASSUME IInv, [Next]_vars PROVE IInv'
    OBVIOUS
  <1>1. CASE UNCHANGED vars
    <2>1. /\ UNCHANGED <<now, disabled, legacy, explicit, auto, readers, writer>>
          /\ UNCHANGED <<at, on, ks, ticket, held, calls, sets, clones, asOf>>
      BY <1>1 DEF vars, dataVars, lockVars, histVars
    <2>2. TypeOK'
      BY <2>1 DEF IInv, TypeOK, DataType, LockType, CallType, HistType
    <2>3. Aged' /\ Grows
      BY <2>1, <2>2, Quiet DEF dataVars, IInv, TypeOK, DataType
    <2>4. Known(held)'
      BY <2>1 DEF IInv, Returned, Known, Opens
    <2>5. \A t \in Handshakes : Unmoved(t)
      BY <2>1 DEF Unmoved
    <2> QED
      BY <2>2, <2>3, <2>4, <2>5, StepKeeps
  <1>2. CASE \E t \in Handshakes, c \in Configs : BeginTicketKeys(t, c)
    BY <1>2, ReadingStep
  <1>3. ASSUME NEW t \in Handshakes, HandshakeStep(t) PROVE IInv'
    BY <1>3, ReadingStep, WritingStep DEF HandshakeStep
  <1> QED
    BY <1>1, <1>2, <1>3, AdminStep DEF Next

--------------------------------------------------------------------------------
(* Theorems *)

\* The invariant holds in every reachable state.
THEOREM TicketsInductive == Spec => []IInv
  BY InitIInv, NextIInv, PTL DEF Spec

\* Every variable keeps its type.
THEOREM TicketsTypeCorrect == Spec => []TypeOK
  <1>1. IInv => TypeOK
    BY DEF IInv
  <1> QED
    BY <1>1, TicketsInductive, PTL

\* A returning client's live ticket opens with the keys ticketKeys returns, however
\* many handshakes, rotations and sets run at once.
THEOREM TicketsOpen == Spec => []TicketsStillOpen
  <1>1. IInv => TicketsStillOpen
    BY DEF IInv, Called, OpensTicket, TicketsStillOpen
  <1> QED
    BY <1>1, TicketsInductive, PTL

\* A handshake that begins after SetSessionTicketKeys has returned gets its keys, or
\* those of a later call.
THEOREM TicketsSetTakesEffect == Spec => []SetTakesEffect
  <1>1. IInv => SetTakesEffect
    BY DEF IInv, Called, HeedsSet, SeesSet, SetTakesEffect
  <1> QED
    BY <1>1, TicketsInductive, PTL

\* The keys a step returns to a handshake are, if they are automatic, current ones.
LEMMA ReturnsFresh ==
    ASSUME IInv, Next, NEW t \in Handshakes,
           ks'[t] # ks[t], ks'[t] # <<>>, ks'[t][1].kind = "auto"
    PROVE  now - ks'[t][1].created < Rotation
  <1>1. TypeOK /\ DOMAIN ks = Handshakes /\ Handshakes \subseteq Threads
    BY DEF IInv, TypeOK, CallType, Threads
  <1>2. CASE ReadKeys(t)
    <2>1. CASE ReadDisabled(t)
      BY <1>1, <2>1 DEF ReadDisabled, Returns
    <2>2. CASE ReadExplicit(t)
      <3>1. ks'[t] = explicit[on[t]] /\ explicit[on[t]] # <<>>
        BY <1>1, <2>2 DEF ReadExplicit, Returns
      <3>2. on[t] \in Configs
        BY <1>1 DEF TypeOK, CallType
      <3> QED
        BY <3>1, <3>2 DEF IInv, Given
    <2>3. CASE ReadAuto(t)
      <3>1. ks' # ks
        OBVIOUS
      <3>2. Fresh("own") /\ ks'[t] = auto["own"]
        BY <1>1, <2>3, <3>1 DEF ReadAuto, Returns
      <3>3. auto["own"] \in Seq(Keys)
        BY <1>1 DEF TypeOK, DataType, Configs
      <3> QED
        BY <3>2, <3>3 DEF Fresh
    <2> QED
      BY <1>2, <2>1, <2>2, <2>3 DEF ReadKeys, ReadNeedsLegacy, ReadFallsBack
  <1>3. CASE WriteRotate(t)
    <2>1. on[t] = "own"
      BY <1>3 DEF IInv, Called, Begun, WriteRotate, Go
    <2>2. ks'[t] = KeysDue
      BY <1>1, <1>3, <2>1 DEF WriteRotate, KeysDue
    <2> QED
      BY <2>2, KeysDueFacts DEF IInv
  <1>4. CASE SealTicket(t)
    BY <1>1, <1>4 DEF SealTicket
  <1>5. ASSUME NEW u \in Handshakes \ {t}, HandshakeStep(u) PROVE ks'[t] = ks[t]
    <2>1. \/ ks' = ks
          \/ \E x : ks' = [ks EXCEPT ![u] = x]
      BY <1>5 DEF HandshakeStep, ReadKeys, ReadDisabled, ReadNeedsLegacy, ReadExplicit,
                  ReadFallsBack,
                  ReadAuto, Returns, Lock, WriteLegacy, WriteRotate, LastRLock, SealTicket
    <2> QED
      BY <1>1, <2>1
  <1>6. HandshakeStep(t) /\ ~ReadKeys(t) /\ ~WriteRotate(t) /\ ~SealTicket(t) => ks' = ks
    BY DEF HandshakeStep, Lock, WriteLegacy, LastRLock
  <1>7. (\A u \in Handshakes : ~HandshakeStep(u)) => ks' = ks
    BY DEF Next, Tick, BeginTicketKeys, BeginSet, SetterStep, Lock, WriteSet, BeginClone,
           ClonerStep, Clone
  <1> QED
    BY <1>2, <1>3, <1>4, <1>5, <1>6, <1>7

\* However many handshakes find the key too old at once, keys are made a period or
\* more apart, and no handshake is given a key that is due.
THEOREM TicketsRotateOncePerPeriod == Spec => RotatesOncePerPeriod
  <1> DEFINE A ==
        /\ \A i, j \in DOMAIN auto'["own"] :
              i < j => auto'["own"][i].created - auto'["own"][j].created >= Rotation
        /\ \A t \in Handshakes :
              LET keys == ks'[t] IN
              keys # ks[t] /\ keys # <<>> /\ keys[1].kind = "auto"
              => now - keys[1].created < Rotation
  <1>1. IInv /\ IInv' /\ [Next]_vars => [A]_vars
    <2> SUFFICES ASSUME IInv, IInv', Next PROVE A
      OBVIOUS
    <2>1. \A i, j \in DOMAIN auto'["own"] :
              i < j => auto'["own"][i].created - auto'["own"][j].created >= Rotation
      BY DEF IInv, Aged, Spaced
    <2> QED
      BY <2>1, ReturnsFresh
  <1> QED
    BY <1>1, TicketsInductive, PTL DEF Spec, RotatesOncePerPeriod
================================================================================
