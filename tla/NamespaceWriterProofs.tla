-------------------------- MODULE NamespaceWriterProofs --------------------------
(***************************************************************************)
(* What NamespaceWriter promises for every handler, of any number of       *)
(* calls, for every body cut in any way into Writes and for every Accept   *)
(* header: the client of a 2013 namespace gets the response the handler    *)
(* would have sent without the middleware, renamed and of the right length.*)
(***************************************************************************)
EXTENDS NamespaceWriter, FiniteSetTheorems, FunctionTheorems, TLAPS

\* What the handlers write: the pieces of the bodies and the text of http.Error.
Pieces == {"text"} \cup UNION {{d[i] : i \in DOMAIN d} : d \in Bodies}

\* The values the handlers give headers, and the headers they make of them.
Values == {"text/plain", "sep+xml", "GET", "HEAD", 3}
Headers == [Keys -> Seq(Values)]

\* The calls a handler makes.
HeaderCalls ==
    [op : {"set"}, key : Keys, vals : {<<>>} \cup {<<v>> : v \in Values}]
    \cup [op : {"add"}, key : Keys, vals : {<<v>> : v \in Values}]
StatusCalls == [op : {"status"}, code : {200, 201, 404, 405, 500}]
WriteCalls == [op : {"write"}, data : Seq(Pieces)]
Calls == HeaderCalls \cup StatusCalls \cup WriteCalls

TypeOK ==
    /\ at \in {"idle", "serving", "sent"} /\ tidy \in BOOLEAN
    /\ todo \in Seq(Calls)
    /\ buffered \in [buf : Seq(Pieces), status : Nat, headers : Headers]
    /\ direct \in [headers : Headers, status : Nat, sent : Headers, body : Seq(Pieces)]

\* A tidy handler leaves the buffer with what it would have sent: the status, but for
\* one that a Write implies, and at most one value of each header, none of them set
\* after the status.
Alike ==
    /\ buffered.status = direct.status \/ (buffered.status = 0 /\ direct.status = 200)
    /\ buffered.headers = direct.headers
    /\ \A k \in Keys : direct.headers[k] = <<>> \/ \E v \in Values : direct.headers[k] = <<v>>
    /\ direct.status # 0 => direct.sent = direct.headers

\* Nothing reaches the client of the 2013 namespace before the handler returns, and
\* everything reaches the others at once.
Kept ==
    /\ at = "idle" => /\ buffered = NewBuffer /\ real = NewResponse /\ direct = NewResponse
                      /\ tidy = TRUE
    /\ at = "serving" /\ mode = 2018 => real = direct
    /\ at = "serving" /\ mode = 2013 => /\ real = NewResponse /\ buffered.buf = direct.body
                                        /\ tidy = TRUE => Alike

\* The inductive invariant.
IInv == TypeOK /\ Kept /\ ResponseUnchanged

--------------------------------------------------------------------------------
(* Lemmas about what a replacement leaves *)

UpTo(I, i) == {j \in I : j <= i}

\* Every number up to the size of a set of indices is the rank of exactly one of them,
\* and ranks are in the order of the indices.
LEMMA RankFacts ==
    ASSUME NEW m \in Nat, NEW I \in SUBSET (1 .. m)
    PROVE  /\ Cardinality(I) \in Nat
           /\ \A i \in I : Cardinality(UpTo(I, i)) \in 1 .. Cardinality(I)
           /\ \A i, j \in I : i < j => Cardinality(UpTo(I, i)) < Cardinality(UpTo(I, j))
           /\ \A n \in 1 .. Cardinality(I) : \E i \in I : Cardinality(UpTo(I, i)) = n
  <1>1. IsFiniteSet(I) /\ Cardinality(I) \in Nat
    <2>1. IsFiniteSet(1 .. m)
      BY FS_Interval
    <2> QED
      BY <2>1, FS_Subset, FS_CardinalityType
  <1>2. ASSUME NEW i \in I
        PROVE  IsFiniteSet(UpTo(I, i)) /\ Cardinality(UpTo(I, i)) \in 1 .. Cardinality(I)
    <2>1. UpTo(I, i) \in SUBSET I /\ i \in UpTo(I, i)
      BY DEF UpTo
    <2>2. /\ IsFiniteSet(UpTo(I, i)) /\ Cardinality(UpTo(I, i)) <= Cardinality(I)
          /\ Cardinality(UpTo(I, i)) \in Nat
      BY <1>1, <2>1, FS_Subset, FS_CardinalityType
    <2>3. Cardinality(UpTo(I, i)) # 0
      BY <2>1, <2>2, FS_EmptySet
    <2> QED
      BY <1>1, <2>2, <2>3
  <1>3. ASSUME NEW i \in I, NEW j \in I, i < j
        PROVE  Cardinality(UpTo(I, i)) < Cardinality(UpTo(I, j))
    <2>1. UpTo(I, i) \in SUBSET UpTo(I, j) /\ UpTo(I, i) # UpTo(I, j)
      <3>1. j \in UpTo(I, j) /\ j \notin UpTo(I, i)
        BY <1>3 DEF UpTo
      <3>2. \A l \in I : l <= i => l <= j
        BY <1>3
      <3>3. UpTo(I, i) \in SUBSET UpTo(I, j)
        BY <3>2 DEF UpTo
      <3> QED
        BY <3>1, <3>3
    <2>2. /\ Cardinality(UpTo(I, i)) <= Cardinality(UpTo(I, j))
          /\ Cardinality(UpTo(I, i)) # Cardinality(UpTo(I, j))
      BY <1>2, <2>1, FS_Subset
    <2> QED
      BY <1>1, <1>2, <2>2
  <1> DEFINE rank == [i \in I |-> Cardinality(UpTo(I, i))]
             N == 1 .. Cardinality(I)
  <1>4. rank \in Injection(I, N)
    <2>1. rank \in [I -> N]
      BY <1>2
    <2>2. ASSUME NEW i \in I, NEW j \in I, i # j PROVE rank[i] # rank[j]
      <3>1. i \in Nat /\ j \in Nat /\ (i < j \/ j < i)
        BY <2>2
      <3> QED
        BY <1>1, <1>2, <1>3, <3>1
    <2> QED
      BY <2>1, <2>2 DEF Injection, IsInjective
  <1>5. IsFiniteSet(N) /\ Cardinality(N) = Cardinality(I)
    BY <1>1, FS_Interval
  <1>6. rank \in Surjection(I, N)
    BY <1>4, <1>5, FS_Injection
  <1>7. \A n \in N : \E i \in I : rank[i] = n
    BY <1>6 DEF Surjection
  <1> QED
    BY <1>1, <1>2, <1>3, <1>7

\* However the name is cut into Writes, a replacement leaves none of it, and adds nothing
\* but the other name.
LEMMA ReplacedFacts ==
    ASSUME NEW S, NEW data \in Seq(S)
    PROVE  /\ Replaced(data) \in Seq(S \cup {"zigbee"})
           /\ ~\E n \in 1 .. Len(Replaced(data)) - 1 :
                  Replaced(data)[n] = "urn" /\ Replaced(data)[n + 1] = "ns"
  <1> DEFINE left == {i \in DOMAIN data : i - 1 \notin Named(data)}
             N == 1 .. Cardinality(left)
             from == [n \in N |-> CHOOSE i \in left : Cardinality(UpTo(left, i)) = n]
             piece(i) == IF i \in Named(data) THEN "zigbee" ELSE data[i]
             out == Replaced(data)
  <1>1. Len(data) \in Nat /\ DOMAIN data = 1 .. Len(data)
    OBVIOUS
  <1>2. left \in SUBSET (1 .. Len(data))
    BY <1>1
  <1>3. /\ Cardinality(left) \in Nat
        /\ \A i, j \in left : i < j => Cardinality(UpTo(left, i)) < Cardinality(UpTo(left, j))
        /\ \A i \in left : Cardinality(UpTo(left, i)) \in N
        /\ \A n \in N : \E i \in left : Cardinality(UpTo(left, i)) = n
    <2> HIDE DEF left
    <2> QED
      BY <1>1, <1>2, RankFacts
  <1>4. \A n \in N : from[n] \in left /\ Cardinality(UpTo(left, from[n])) = n
    <2> HIDE DEF left
    <2> QED
      BY <1>3
  <1>5. out = [n \in N |-> piece(from[n])]
    BY DEF Replaced, UpTo
  <1> HIDE DEF from, out
  <1>6. \A n \in N : from[n] \in 1 .. Len(data) /\ from[n] - 1 \notin Named(data)
    BY <1>1, <1>4
  <1>7. out \in Seq(S \cup {"zigbee"}) /\ Len(out) = Cardinality(left)
    <2>1. \A n \in N : piece(from[n]) \in S \cup {"zigbee"}
      BY <1>1, <1>6
    <2> HIDE DEF left
    <2>2. out \in [N -> S \cup {"zigbee"}]
      BY <1>5, <2>1
    <2> QED
      BY <1>3, <2>2
  <1>8. ASSUME NEW n \in 1 .. Len(out) - 1, out[n] = "urn", out[n + 1] = "ns"
        PROVE  FALSE
    <2>1. n \in N /\ n + 1 \in N
      BY <1>3, <1>7, <1>8
    <2> DEFINE i == from[n]
               j == from[n + 1]
    <2>2. /\ i \in left /\ j \in left /\ i \in 1 .. Len(data) /\ j \in 1 .. Len(data)
          /\ Cardinality(UpTo(left, i)) = n /\ Cardinality(UpTo(left, j)) = n + 1
          /\ i - 1 \notin Named(data) /\ j - 1 \notin Named(data)
      BY <1>4, <1>6, <2>1
    <2>3. out[n] = piece(i) /\ out[n + 1] = piece(j)
      BY <1>5, <2>1
    <2> HIDE DEF i, j
    <2>4. /\ i \notin Named(data) /\ data[i] = "urn"
          /\ j \notin Named(data) /\ data[j] = "ns"
      BY <1>8, <2>3
    <2>5. i < j
      <3>1. ~(j < i) /\ i # j
        <4> HIDE DEF left
        <4> QED
          BY <1>3, <2>1, <2>2
      <3> QED
        BY <1>1, <2>2, <3>1
    <2>6. ASSUME NEW l \in 1 .. Len(data), i < l, l < j PROVE l - 1 \in Named(data)
      <3>1. l \notin left
        <4>1. ASSUME l \in left PROVE FALSE
          <5>1. /\ n < Cardinality(UpTo(left, l)) /\ Cardinality(UpTo(left, l)) < n + 1
                /\ Cardinality(UpTo(left, l)) \in N
            <6> HIDE DEF left
            <6> QED
              BY <1>3, <2>2, <2>6, <4>1
          <5> QED
            BY <1>3, <2>1, <5>1
        <4> QED
          BY <4>1
      <3> QED
        BY <1>1, <3>1
    <2>7. i + 1 \in 1 .. Len(data) /\ i < i + 1
      BY <1>1, <2>2, <2>5
    <2>8. CASE j = i + 1
      BY <1>1, <2>2, <2>4, <2>7, <2>8 DEF Named
    <2>9. CASE j # i + 1
      <3>1. i + 1 < j
        BY <1>1, <2>2, <2>5, <2>9
      <3>2. (i + 1) - 1 \in Named(data) /\ (i + 1) - 1 = i
        BY <1>1, <2>2, <2>6, <2>7, <3>1
      <3> QED
        BY <2>4, <3>2
    <2> QED
      BY <2>8, <2>9
  <1> QED
    BY <1>7, <1>8 DEF out

--------------------------------------------------------------------------------
(* What the handlers do *)

\* The bodies are sequences of pieces.
LEMMA BodyFacts == Bodies \subseteq Seq(Pieces)
  <1> SUFFICES ASSUME NEW d \in Bodies PROVE d \in Seq(Pieces)
    OBVIOUS
  <1>1. d \in Seq({d[i] : i \in DOMAIN d})
    BY NamespaceWriterAssumption
  <1>2. Len(d) \in Nat /\ DOMAIN d = 1 .. Len(d) /\ d = [i \in 1 .. Len(d) |-> d[i]]
    BY <1>1
  <1>3. \A i \in 1 .. Len(d) : d[i] \in Pieces
    BY <1>2 DEF Pieces
  <1>4. d \in [1 .. Len(d) -> Pieces]
    BY <1>2, <1>3
  <1> QED
    BY <1>2, <1>4

\* The helpers and calls a handler chooses from are sequences of calls.
LEMMA HandlerCallsFacts == HandlerCalls \subseteq Seq(Calls)
  <1>1. ASSUME NEW k \in Keys, NEW v \in Values
        PROVE  Set(k, v) \in Calls /\ Add(k, v) \in Calls
    BY DEF Set, Add, Calls, HeaderCalls
  <1>2. ASSUME NEW code \in {200, 201, 404, 405, 500} PROVE WriteHeader(code) \in Calls
    BY DEF WriteHeader, Calls, StatusCalls
  <1>3. ASSUME NEW data \in Seq(Pieces) PROVE Write(data) \in Calls
    BY DEF Write, Calls, WriteCalls
  <1>4. <<>> \in Seq(Pieces) /\ <<"text">> \in Seq(Pieces)
    BY DEF Pieces
  <1>5. ASSUME NEW code \in {405, 500} PROVE Error(code) \in Seq(Calls)
    <2>1. Del("Content-Length") \in Calls
      BY DEF Del, Calls, HeaderCalls, Keys
    <2>2. Set("Content-Type", "text/plain") \in Calls
      BY <1>1 DEF Keys, Values
    <2>3. WriteHeader(code) \in Calls
      BY <1>2
    <2>4. Write(<<"text">>) \in Calls
      BY <1>3, <1>4
    <2> QED
      BY <2>1, <2>2, <2>3, <2>4 DEF Error
  <1>6. ASSUME NEW code \in {200, 201}, NEW data \in Seq(Pieces)
        PROVE  WriteXML(code, data) \in Seq(Calls)
    <2>1. /\ Set("Content-Type", "sep+xml") \in Calls /\ WriteHeader(code) \in Calls
          /\ Write(data) \in Calls
      BY <1>1, <1>2, <1>3 DEF Keys, Values
    <2> QED
      BY <2>1 DEF WriteXML
  <1>7. MethodNotAllowed("GET") \in Seq(Calls)
    <2>1. Set("Allow", "GET") \in Calls /\ Error(405) \in Seq(Calls)
      BY <1>1, <1>5 DEF Keys, Values
    <2>2. <<Set("Allow", "GET")>> \in Seq(Calls)
      BY <2>1
    <2> QED
      BY <2>1, <2>2 DEF MethodNotAllowed
  <1>8. /\ <<Set("Content-Type", "text/plain")>> \in Seq(Calls)
        /\ <<Set("Content-Length", 3)>> \in Seq(Calls)
        /\ <<Add("Allow", "GET")>> \in Seq(Calls) /\ <<Add("Allow", "HEAD")>> \in Seq(Calls)
        /\ <<WriteHeader(200)>> \in Seq(Calls) /\ <<WriteHeader(404)>> \in Seq(Calls)
    <2>1. /\ Set("Content-Type", "text/plain") \in Calls /\ Set("Content-Length", 3) \in Calls
          /\ Add("Allow", "GET") \in Calls /\ Add("Allow", "HEAD") \in Calls
          /\ WriteHeader(200) \in Calls /\ WriteHeader(404) \in Calls
      BY <1>1, <1>2 DEF Keys, Values
    <2> QED
      BY <2>1
  <1>9. ASSUME NEW data \in Seq(Pieces) PROVE <<Write(data)>> \in Seq(Calls)
    BY <1>3
  <1>10. WriteXMLFails \in Seq(Calls)
    BY <1>5 DEF WriteXMLFails
  <1>11. /\ \A data \in Bodies : WriteXML(200, data) \in Seq(Calls)
         /\ WriteXML(201, <<>>) \in Seq(Calls)
         /\ \A data \in Bodies : <<Write(data)>> \in Seq(Calls)
    <2>1. \A data \in Seq(Pieces) : /\ WriteXML(200, data) \in Seq(Calls)
                                    /\ WriteXML(201, data) \in Seq(Calls)
      BY <1>6
    <2>2. \A data \in Bodies : data \in Seq(Pieces)
      BY BodyFacts, Zenon
    <2>3. \A data \in Bodies : WriteXML(200, data) \in Seq(Calls)
      BY <2>1, <2>2, Zenon
    <2>4. WriteXML(201, <<>>) \in Seq(Calls)
      BY <1>4, <2>1, Zenon
    <2>5. \A data \in Bodies : <<Write(data)>> \in Seq(Calls)
      BY <1>9, <2>2, Zenon
    <2> QED
      BY <2>3, <2>4, <2>5
  <1>12. ASSUME NEW cs \in HandlerCalls PROVE cs \in Seq(Calls)
    <2>1. \/ \E data \in Bodies : cs = WriteXML(200, data)
          \/ cs \in {WriteXML(201, <<>>), WriteXMLFails, MethodNotAllowed("GET")}
          \/ cs = <<Set("Content-Type", "text/plain")>> \/ cs = <<Set("Content-Length", 3)>>
          \/ cs = <<Add("Allow", "GET")>> \/ cs = <<Add("Allow", "HEAD")>>
          \/ cs = <<WriteHeader(200)>> \/ cs = <<WriteHeader(404)>>
          \/ \E data \in Bodies : cs = <<Write(data)>>
      BY <1>12, Zenon DEF HandlerCalls
    <2>2. CASE \E data \in Bodies : cs = WriteXML(200, data)
      BY <1>11, <2>2, Zenon
    <2>3. CASE cs \in {WriteXML(201, <<>>), WriteXMLFails, MethodNotAllowed("GET")}
      BY <1>7, <1>10, <1>11, <2>3, Zenon
    <2>4. CASE cs = <<Set("Content-Type", "text/plain")>> \/ cs = <<Set("Content-Length", 3)>>
      BY <1>8, <2>4, Zenon
    <2>6. CASE cs = <<Add("Allow", "GET")>> \/ cs = <<Add("Allow", "HEAD")>>
      BY <1>8, <2>6, Zenon
    <2>7. CASE cs = <<WriteHeader(200)>> \/ cs = <<WriteHeader(404)>>
      <3> DEFINE ok == <<WriteHeader(200)>>
                 notFound == <<WriteHeader(404)>>
      <3>1. ok \in Seq(Calls) /\ notFound \in Seq(Calls) /\ (cs = ok \/ cs = notFound)
        BY <1>8, <2>7
      <3> HIDE DEF ok, notFound
      <3> QED
        BY <3>1
    <2>5. CASE \E data \in Bodies : cs = <<Write(data)>>
      BY <1>11, <2>5, Zenon
    <2> QED
      BY <2>1, <2>2, <2>3, <2>4, <2>5, <2>6, <2>7
  <1> QED
    BY <1>12

\* A header call changes the values of one header.
LEMMA ChangedFacts ==
    ASSUME NEW h \in Headers, NEW c \in HeaderCalls
    PROVE  Changed(h, c) \in Headers
  <1>1. c.key \in Keys /\ c.vals \in Seq(Values)
    <2>1. c.key \in Keys /\ (c.vals = <<>> \/ \E v \in Values : c.vals = <<v>>)
      BY DEF HeaderCalls
    <2>2. CASE c.vals = <<>>
      BY <2>1, <2>2
    <2>3. CASE \E v \in Values : c.vals = <<v>>
      <3>1. PICK v \in Values : c.vals = <<v>>
        BY <2>3
      <3>2. <<v>> \in Seq(Values)
        OBVIOUS
      <3> QED
        BY <2>1, <3>1, <3>2
    <2> QED
      BY <2>1, <2>2, <2>3
  <1>2. h[c.key] \in Seq(Values)
    BY <1>1 DEF Headers
  <1>3. h[c.key] \o c.vals \in Seq(Values)
    BY <1>1, <1>2
  <1> QED
    BY <1>1, <1>3 DEF Changed, Headers

Buffers == [buf : Seq(Pieces), status : Nat, headers : Headers]
Responses == [headers : Headers, status : Nat, sent : Headers, body : Seq(Pieces)]

\* Committing a response leaves a response.
LEMMA CommitFacts ==
    ASSUME NEW w \in Responses
    PROVE  Commit(w, 200) \in Responses
  <1>1. CASE w.status # 0
    BY <1>1 DEF Commit
  <1>2. CASE w.status = 0
    <2>1. Commit(w, 200) = [w EXCEPT !.status = 200, !.sent = w.headers]
      BY <1>2 DEF Commit
    <2>2. w.headers \in Headers
      BY DEF Responses
    <2>3. [w EXCEPT !.status = 200] \in Responses
      BY DEF Responses
    <2>4. [[w EXCEPT !.status = 200] EXCEPT !.sent = w.headers] \in Responses
      BY <2>2, <2>3 DEF Responses
    <2> QED
      BY <2>1, <2>4
  <1> QED
    BY <1>1, <1>2

\* What each kind of call does to the two writers.
LEMMA HeaderCallFacts ==
    ASSUME NEW b \in Buffers, NEW w \in Responses, NEW c \in HeaderCalls
    PROVE  /\ OnBuffer(b, c) = [b EXCEPT !.headers = Changed(@, c)]
           /\ OnResponse(w, c) = [w EXCEPT !.headers = Changed(@, c)]
           /\ OnBuffer(b, c) \in Buffers /\ OnResponse(w, c) \in Responses
           /\ Proper(w, c) => w.status = 0 /\ (c.op = "add" => w.headers[c.key] = <<>>)
  <1>1. c.op \in {"set", "add"}
    BY DEF HeaderCalls
  <1>2. Changed(b.headers, c) \in Headers /\ Changed(w.headers, c) \in Headers
    BY ChangedFacts DEF Buffers, Responses
  <1>3. /\ OnBuffer(b, c) = [b EXCEPT !.headers = Changed(@, c)]
        /\ OnResponse(w, c) = [w EXCEPT !.headers = Changed(@, c)]
    BY <1>1 DEF OnBuffer, OnResponse
  <1>4. OnBuffer(b, c) \in Buffers /\ OnResponse(w, c) \in Responses
    BY <1>2, <1>3 DEF Buffers, Responses
  <1>5. Proper(w, c) => w.status = 0 /\ (c.op = "add" => w.headers[c.key] = <<>>)
    BY <1>1 DEF Proper
  <1> QED
    BY <1>3, <1>4, <1>5

\* WriteHeader.
LEMMA StatusCallFacts ==
    ASSUME NEW b \in Buffers, NEW w \in Responses, NEW c \in StatusCalls
    PROVE  /\ OnBuffer(b, c) = [b EXCEPT !.status = c.code] /\ c.code \in Nat \ {0}
           /\ OnResponse(w, c) = Commit(w, c.code)
           /\ OnBuffer(b, c) \in Buffers /\ OnResponse(w, c) \in Responses
           /\ Proper(w, c) => w.status = 0
  <1>1. c.op = "status" /\ c.code \in Nat \ {0}
    BY DEF StatusCalls
  <1>2. OnBuffer(b, c) = [b EXCEPT !.status = c.code] /\ OnResponse(w, c) = Commit(w, c.code)
    BY <1>1 DEF OnBuffer, OnResponse
  <1> QED
    BY <1>1, <1>2 DEF Buffers, Responses, Commit, Proper

\* Write.
LEMMA WriteCallFacts ==
    ASSUME NEW b \in Buffers, NEW w \in Responses, NEW c \in WriteCalls
    PROVE  /\ OnBuffer(b, c) = [b EXCEPT !.buf = @ \o c.data]
           /\ OnResponse(w, c) = [Commit(w, 200) EXCEPT !.body = @ \o c.data]
           /\ Commit(w, 200) \in Responses /\ Commit(w, 200).body = w.body
           /\ OnBuffer(b, c) \in Buffers /\ OnResponse(w, c) \in Responses
  <1>1. c.op = "write" /\ c.data \in Seq(Pieces)
    BY DEF WriteCalls
  <1>2. /\ OnBuffer(b, c) = [b EXCEPT !.buf = @ \o c.data]
        /\ OnResponse(w, c) = [Commit(w, 200) EXCEPT !.body = @ \o c.data]
    BY <1>1 DEF OnBuffer, OnResponse
  <1>3. Commit(w, 200) \in Responses /\ Commit(w, 200).body = w.body
    BY DEF Commit, Responses
  <1>4. b.buf \o c.data \in Seq(Pieces) /\ w.body \o c.data \in Seq(Pieces)
    BY <1>1 DEF Buffers, Responses
  <1>5. OnBuffer(b, c) \in Buffers
    BY <1>2, <1>4 DEF Buffers
  <1>6. OnResponse(w, c) \in Responses
    <2> DEFINE v == Commit(w, 200)
    <2>1. v \in Responses /\ v.body \o c.data \in Seq(Pieces)
      BY <1>3, <1>4
    <2> HIDE DEF v
    <2>2. [v EXCEPT !.body = @ \o c.data] \in Responses
      BY <2>1 DEF Responses
    <2> QED
      BY <1>2, <2>2 DEF v
  <1> QED
    BY <1>2, <1>3, <1>5, <1>6

--------------------------------------------------------------------------------
(* The invariant holds initially and every step keeps it *)

\* The middleware knows two namespaces.
LEMMA ModeFacts == \A lines : DetectNamespace(lines) \in {2013, 2018}
  BY DEF DetectNamespace

\* The writers are made empty.
LEMMA NewFacts == NoHeaders \in Headers /\ NewBuffer \in Buffers /\ NewResponse \in Responses
  <1>1. NoHeaders \in Headers
    BY DEF NoHeaders, Headers
  <1> QED
    BY <1>1 DEF NewBuffer, NewResponse, Buffers, Responses

\* A call keeps a tidy handler's buffer like its response.
LEMMA AlikeStep ==
    ASSUME NEW b \in Buffers, NEW w \in Responses, NEW c \in Calls,
           b.buf = w.body,
           b.status = w.status \/ (b.status = 0 /\ w.status = 200),
           b.headers = w.headers,
           \A k \in Keys : w.headers[k] = <<>> \/ \E v \in Values : w.headers[k] = <<v>>,
           w.status # 0 => w.sent = w.headers,
           Proper(w, c)
    PROVE  LET d == OnBuffer(b, c)
               z == OnResponse(w, c)
           IN /\ d.status = z.status \/ (d.status = 0 /\ z.status = 200)
              /\ d.headers = z.headers
              /\ \A k \in Keys : z.headers[k] = <<>> \/ \E v \in Values : z.headers[k] = <<v>>
              /\ z.status # 0 => z.sent = z.headers
  <1>1. CASE c \in HeaderCalls
    <2>1. /\ OnBuffer(b, c) = [b EXCEPT !.headers = Changed(@, c)]
          /\ OnResponse(w, c) = [w EXCEPT !.headers = Changed(@, c)]
          /\ w.status = 0 /\ (c.op = "add" => w.headers[c.key] = <<>>)
      BY <1>1, HeaderCallFacts
    <2>2. /\ OnBuffer(b, c).status = b.status /\ OnResponse(w, c).status = 0
          /\ OnBuffer(b, c).headers = Changed(w.headers, c)
          /\ OnResponse(w, c).headers = Changed(w.headers, c)
      BY <2>1 DEF Buffers, Responses
    <2>3. ASSUME NEW k \in Keys
          PROVE  Changed(w.headers, c)[k] = <<>> \/ \E v \in Values : Changed(w.headers, c)[k] = <<v>>
      <3>1. /\ c.key \in Keys /\ (c.vals = <<>> \/ \E v \in Values : c.vals = <<v>>)
            /\ w.headers \in Headers
        BY <1>1 DEF HeaderCalls, Responses
      <3>2. CASE k # c.key
        <4>1. Changed(w.headers, c)[k] = w.headers[k]
          BY <3>1, <3>2 DEF Changed, Headers
        <4> QED
          BY <4>1
      <3>3. CASE k = c.key
        <4>1. Changed(w.headers, c)[k] = IF c.op = "add" THEN w.headers[k] \o c.vals ELSE c.vals
          BY <3>1, <3>3 DEF Changed, Headers
        <4>2. c.op = "add" => <<>> \o c.vals = c.vals
          BY <3>1
        <4>3. Changed(w.headers, c)[k] = c.vals
          BY <2>1, <3>3, <4>1, <4>2
        <4> QED
          BY <3>1, <4>3
      <3> QED
        BY <3>2, <3>3
    <2> QED
      BY <2>1, <2>2, <2>3
  <1>2. CASE c \in StatusCalls
    <2>1. /\ OnBuffer(b, c) = [b EXCEPT !.status = c.code] /\ c.code \in Nat \ {0}
          /\ OnResponse(w, c) = Commit(w, c.code) /\ w.status = 0
      BY <1>2, StatusCallFacts
    <2>2. OnResponse(w, c) = [w EXCEPT !.status = c.code, !.sent = w.headers]
      BY <2>1 DEF Commit
    <2> QED
      BY <2>1, <2>2 DEF Buffers, Responses
  <1>3. CASE c \in WriteCalls
    <2>1. /\ OnBuffer(b, c) = [b EXCEPT !.buf = @ \o c.data]
          /\ OnResponse(w, c) = [Commit(w, 200) EXCEPT !.body = @ \o c.data]
      <3>1. c.op = "write"
        BY <1>3 DEF WriteCalls
      <3> QED
        BY <3>1 DEF OnBuffer, OnResponse
    <2>5. Commit(w, 200) \in Responses
      BY CommitFacts
    <2>2. /\ OnBuffer(b, c).status = b.status /\ OnBuffer(b, c).headers = b.headers
          /\ OnResponse(w, c).status = Commit(w, 200).status
          /\ OnResponse(w, c).headers = Commit(w, 200).headers
          /\ OnResponse(w, c).sent = Commit(w, 200).sent
      BY <2>1, <2>5 DEF Buffers, Responses
    <2>3. CASE w.status = 0
      <3>1. /\ Commit(w, 200).status = 200 /\ Commit(w, 200).headers = w.headers
            /\ Commit(w, 200).sent = w.headers
        BY <2>3 DEF Commit, Responses
      <3> QED
        BY <2>2, <2>3, <3>1
    <2>4. CASE w.status # 0
      <3>1. Commit(w, 200) = w
        BY <2>4 DEF Commit
      <3> QED
        BY <2>2, <2>4, <3>1
    <2> QED
      BY <2>3, <2>4
  <1> QED
    BY <1>1, <1>2, <1>3 DEF Calls

\* A call leaves the buffer's body the one the handler would have sent.
LEMMA BodyStep ==
    ASSUME NEW b \in Buffers, NEW w \in Responses, NEW c \in Calls, b.buf = w.body
    PROVE  /\ OnBuffer(b, c) \in Buffers /\ OnResponse(w, c) \in Responses
           /\ OnBuffer(b, c).buf = OnResponse(w, c).body
  <1>1. CASE c \in HeaderCalls
    <2>1. /\ OnBuffer(b, c) = [b EXCEPT !.headers = Changed(@, c)]
          /\ OnResponse(w, c) = [w EXCEPT !.headers = Changed(@, c)]
          /\ OnBuffer(b, c) \in Buffers /\ OnResponse(w, c) \in Responses
      BY <1>1, HeaderCallFacts
    <2> QED
      BY <2>1 DEF Buffers, Responses
  <1>2. CASE c \in StatusCalls
    <2>1. /\ OnBuffer(b, c) = [b EXCEPT !.status = c.code]
          /\ OnResponse(w, c) = Commit(w, c.code)
          /\ OnBuffer(b, c) \in Buffers /\ OnResponse(w, c) \in Responses
      BY <1>2, StatusCallFacts
    <2> QED
      BY <2>1 DEF Buffers, Responses, Commit
  <1>3. CASE c \in WriteCalls
    <2>1. /\ OnBuffer(b, c) = [b EXCEPT !.buf = @ \o c.data]
          /\ OnResponse(w, c) = [Commit(w, 200) EXCEPT !.body = @ \o c.data]
          /\ Commit(w, 200) \in Responses /\ Commit(w, 200).body = w.body
          /\ OnBuffer(b, c) \in Buffers /\ OnResponse(w, c) \in Responses
      BY <1>3, WriteCallFacts
    <2>2. /\ OnBuffer(b, c).buf = b.buf \o c.data
          /\ OnResponse(w, c).body = Commit(w, 200).body \o c.data
      BY <2>1 DEF Buffers, Responses
    <2> QED
      BY <2>1, <2>2
  <1> QED
    BY <1>1, <1>2, <1>3 DEF Calls

\* What flush leaves on an untouched writer: everything it sends is sent at once.
LEMMA FlushFacts ==
    ASSUME NEW b \in Buffers
    PROVE  LET z == Commit(flush(b, NewResponse), 200)
               data == RewriteNamespace(b.buf)
           IN /\ z.status = IF b.status = 0 THEN 200 ELSE b.status
              /\ z.sent["Content-Length"] = <<Length(data)>>
              /\ \A k \in Keys \ {"Content-Length"} :
                    z.sent[k] = IF b.headers[k] = <<>> THEN <<>> ELSE <<Last(b.headers[k])>>
              /\ z.body = <<>> \o data
  <1> DEFINE data == RewriteNamespace(b.buf)
             size == Length(data)
             length == Set("Content-Length", size)
             heads == Changed(Copied(NoHeaders, b), length)
             ready == [NewResponse EXCEPT !.headers = heads]
             status == IF b.status = 0 THEN 200 ELSE b.status
             told == OnResponse(ready, WriteHeader(status))
             done == OnResponse(told, Write(data))
  <1>1. flush(b, NewResponse) = done
    <2>1. NewResponse.headers = NoHeaders
      BY DEF NewResponse
    <2>2. [NewResponse EXCEPT !.headers = Changed(Copied(@, b), length)] = ready
      BY <2>1
    <2> QED
      BY <2>2 DEF flush
  <1>2. status \in Nat \ {0}
    BY DEF Buffers
  <1>3. ready = [headers |-> heads, status |-> 0, sent |-> NoHeaders, body |-> <<>>]
    <2> HIDE DEF heads
    <2> QED
      BY DEF NewResponse
  <1>4. /\ heads["Content-Length"] = <<size>>
        /\ \A k \in Keys \ {"Content-Length"} :
              heads[k] = IF b.headers[k] = <<>> THEN <<>> ELSE <<Last(b.headers[k])>>
    <2>1. length.op = "set" /\ length.key = "Content-Length" /\ length.vals = <<size>>
      BY DEF Set
    <2>2. heads = [Copied(NoHeaders, b) EXCEPT !["Content-Length"] = <<size>>]
      <3> HIDE DEF length
      <3> QED
        BY <2>1 DEF Changed
    <2>3. /\ DOMAIN Copied(NoHeaders, b) = Keys /\ "Content-Length" \in Keys
          /\ \A k \in Keys \ {"Content-Length"} : Copied(NoHeaders, b)[k] =
                 IF b.headers[k] = <<>> THEN <<>> ELSE <<Last(b.headers[k])>>
      BY DEF Copied, NoHeaders, Keys
    <2> HIDE DEF heads, size
    <2> QED
      BY <2>2, <2>3
  <1> HIDE DEF data, size, length, heads, ready, status, told, done
  <1>5. told = [headers |-> heads, status |-> status, sent |-> heads, body |-> <<>>]
    <2>1. told = Commit(ready, status)
      BY DEF told, OnResponse, WriteHeader
    <2> QED
      BY <1>3, <2>1 DEF Commit
  <1>6. done = [headers |-> heads, status |-> status, sent |-> heads, body |-> <<>> \o data]
    <2>1. Commit(told, 200) = told
      BY <1>2, <1>5 DEF Commit
    <2>2. done = [told EXCEPT !.body = @ \o data]
      BY <2>1 DEF done, OnResponse, Write
    <2> QED
      BY <1>5, <2>2
  <1>7. Commit(done, 200) = done
    BY <1>2, <1>6 DEF Commit
  <1>8. /\ done.status = status /\ done.sent = heads /\ done.body = <<>> \o data
    BY <1>6
  <1> QED
    BY <1>1, <1>4, <1>7, <1>8 DEF status, data, size

\* Initially nothing is written.
LEMMA InitInv == WriterInit => IInv
  <1> SUFFICES ASSUME WriterInit PROVE IInv
    OBVIOUS
  <1>1. TypeOK
    BY NewFacts DEF WriterInit, TypeOK, Buffers, Responses
  <1>2. Kept
    BY DEF WriterInit, Kept
  <1>3. ResponseUnchanged
    BY DEF WriterInit, ResponseUnchanged
  <1> QED
    BY <1>1, <1>2, <1>3 DEF IInv

\* NamespaceMiddleware gives the handler its writer.
LEMMA RequestStep ==
    ASSUME IInv, NEW lines, Request(lines)
    PROVE  IInv'
  <1>1. /\ at = "idle" /\ at' = "serving" /\ todo' = todo /\ buffered' = buffered
        /\ real' = real /\ direct' = direct /\ tidy' = tidy
    BY DEF Request
  <1>2. buffered = NewBuffer /\ real = NewResponse /\ direct = NewResponse
    BY <1>1 DEF IInv, Kept
  <1>3. TypeOK'
    BY <1>1 DEF IInv, TypeOK
  <1>4. Alike'
    <2>1. NewBuffer.status = 0 /\ NewBuffer.headers = NoHeaders
      BY DEF NewBuffer
    <2>2. NewResponse.status = 0 /\ NewResponse.headers = NoHeaders
      BY DEF NewResponse
    <2>3. \A k \in Keys : NoHeaders[k] = <<>>
      BY DEF NoHeaders
    <2> QED
      BY <1>1, <1>2, <2>1, <2>2, <2>3 DEF Alike
  <1>5. NewBuffer.buf = NewResponse.body
    BY DEF NewBuffer, NewResponse
  <1>6. Kept'
    BY <1>1, <1>2, <1>4, <1>5 DEF Kept
  <1>7. ResponseUnchanged'
    BY <1>1 DEF ResponseUnchanged
  <1> QED
    BY <1>3, <1>6, <1>7 DEF IInv

\* The handler turns to its next calls.
LEMMA HandleStep ==
    ASSUME IInv, NEW cs \in HandlerCalls, Handle(cs)
    PROVE  IInv'
  <1>1. /\ at = "serving" /\ at' = at /\ accept' = accept /\ todo' = cs /\ buffered' = buffered
        /\ real' = real /\ direct' = direct /\ tidy' = tidy
    BY DEF Handle
  <1>2. cs \in Seq(Calls)
    BY HandlerCallsFacts
  <1>3. TypeOK'
    BY <1>1, <1>2 DEF IInv, TypeOK
  <1>4. mode' = mode /\ Alike' = Alike
    BY <1>1 DEF mode, Alike
  <1>5. Kept'
    BY <1>1, <1>4 DEF IInv, Kept
  <1>6. ResponseUnchanged'
    BY <1>1 DEF ResponseUnchanged
  <1> QED
    BY <1>3, <1>5, <1>6 DEF IInv

\* The handler makes a call on its writer.
LEMMA CallStep ==
    ASSUME IInv, Call
    PROVE  IInv'
  <1> DEFINE c == Head(todo)
  <1>1. /\ at = "serving" /\ at' = at /\ accept' = accept /\ todo # <<>> /\ todo' = Tail(todo)
        /\ buffered' = IF mode # 2018 THEN OnBuffer(buffered, c) ELSE buffered
        /\ real' = IF mode # 2018 THEN real ELSE OnResponse(real, c)
        /\ direct' = OnResponse(direct, c)
        /\ tidy' = (tidy /\ Proper(direct, c))
    BY DEF Call
  <1>2. /\ todo \in Seq(Calls) /\ buffered \in Buffers /\ direct \in Responses /\ tidy \in BOOLEAN
    BY DEF IInv, TypeOK, Buffers, Responses
  <1>3. c \in Calls /\ Tail(todo) \in Seq(Calls)
    BY <1>1, <1>2
  <1>4. mode' = mode /\ mode \in {2013, 2018}
    BY <1>1, ModeFacts DEF mode
  <1> HIDE DEF c
  <1>5. OnResponse(direct, c) \in Responses
    <2>1. NewBuffer \in Buffers /\ [NewBuffer EXCEPT !.buf = direct.body] \in Buffers
      BY <1>2, NewFacts DEF Buffers, Responses
    <2>2. [NewBuffer EXCEPT !.buf = direct.body].buf = direct.body
      BY <2>1 DEF Buffers
    <2> QED
      BY <1>2, <1>3, <2>1, <2>2, BodyStep
  <1>6. tidy' \in BOOLEAN /\ (tidy' = TRUE => tidy = TRUE /\ Proper(direct, c))
    BY <1>1, <1>2, Zenon
  <1>7. at' = "serving"
    BY <1>1
  <1>8. CASE mode = 2018
    <2>1. buffered' = buffered /\ real' = OnResponse(real, c) /\ real = direct
      BY <1>1, <1>8 DEF IInv, Kept
    <2>2. TypeOK'
      BY <1>1, <1>2, <1>3, <1>5, <1>6, <2>1 DEF TypeOK, Buffers, Responses
    <2>3. Kept'
      BY <1>1, <1>4, <1>7, <1>8, <2>1 DEF Kept
    <2> QED
      BY <1>7, <2>2, <2>3 DEF IInv, ResponseUnchanged
  <1>9. CASE mode = 2013
    <2>1. /\ buffered' = OnBuffer(buffered, c) /\ real' = real /\ real = NewResponse
          /\ buffered.buf = direct.body /\ (tidy = TRUE => Alike)
      BY <1>1, <1>9 DEF IInv, Kept
    <2>2. OnBuffer(buffered, c) \in Buffers /\ OnBuffer(buffered, c).buf = OnResponse(direct, c).body
      BY <1>2, <1>3, <2>1, BodyStep
    <2>3. TypeOK'
      BY <1>1, <1>3, <1>5, <1>6, <1>7, <2>1, <2>2 DEF TypeOK, Buffers, Responses
    <2>4. ASSUME tidy' = TRUE PROVE Alike'
      <3>1. Alike /\ Proper(direct, c)
        BY <1>6, <2>1, <2>4
      <3>2. LET d == OnBuffer(buffered, c)
                z == OnResponse(direct, c)
            IN /\ d.status = z.status \/ (d.status = 0 /\ z.status = 200)
               /\ d.headers = z.headers
               /\ \A k \in Keys : z.headers[k] = <<>> \/ \E v \in Values : z.headers[k] = <<v>>
               /\ z.status # 0 => z.sent = z.headers
        BY <1>2, <1>3, <2>1, <3>1, AlikeStep DEF Alike
      <3> QED
        BY <1>1, <2>1, <3>2 DEF Alike
    <2>5. Kept'
      <3>1. mode' = 2013 /\ real' = NewResponse /\ (buffered.buf)' = (direct.body)'
        BY <1>1, <1>4, <1>9, <2>1, <2>2
      <3>2. tidy' = TRUE => Alike'
        BY <2>4
      <3> HIDE DEF c
      <3> QED
        BY <1>7, <3>1, <3>2, SMT DEF Kept
    <2> QED
      BY <1>7, <2>3, <2>5 DEF IInv, ResponseUnchanged
  <1> QED
    BY <1>4, <1>8, <1>9

\* The handler returns and the middleware flushes.
LEMMA ReturnStep ==
    ASSUME IInv, Return
    PROVE  IInv'
  <1>1. /\ at = "serving" /\ at' = "sent" /\ accept' = accept /\ todo' = todo
        /\ buffered' = buffered /\ tidy' = tidy
        /\ real' = Commit(IF mode # 2018 THEN flush(buffered, real) ELSE real, 200)
        /\ direct' = Commit(direct, 200)
    BY DEF Return
  <1>2. buffered \in Buffers /\ direct \in Responses /\ tidy \in BOOLEAN
    BY DEF IInv, TypeOK, Buffers, Responses
  <1>3. mode' = mode /\ mode \in {2013, 2018}
    BY <1>1, ModeFacts DEF mode
  <1>4. direct' \in Responses /\ (direct.body)' = direct.body
    BY <1>1, <1>2 DEF Commit, Responses
  <1>5. TypeOK'
    BY <1>1, <1>2, <1>4 DEF IInv, TypeOK, Buffers, Responses
  <1>6. Kept'
    BY <1>1 DEF Kept
  <1>7. CASE mode = 2018
    <2>1. real' = direct' /\ mode' = 2018
      BY <1>1, <1>3, <1>7 DEF IInv, Kept
    <2>2. RewriteNamespace(direct.body)' = (direct.body)'
      BY <2>1 DEF RewriteNamespace
    <2>3. ResponseUnchanged'
      BY <2>1, <2>2 DEF ResponseUnchanged
    <2> QED
      BY <1>5, <1>6, <2>3 DEF IInv
  <1>8. CASE mode = 2013
    <2>1. real = NewResponse /\ buffered.buf = direct.body /\ (tidy = TRUE => Alike)
      BY <1>1, <1>8 DEF IInv, Kept
    <2>2. real' = Commit(flush(buffered, NewResponse), 200)
      BY <1>1, <1>8, <2>1
    <2> DEFINE data == Replaced(direct.body)
    <2>3. RewriteNamespace(buffered.buf) = data /\ RewriteNamespace(direct.body)' = data
      BY <1>3, <1>4, <1>8, <2>1 DEF RewriteNamespace
    <2>4. /\ (real.status)' = IF buffered.status = 0 THEN 200 ELSE buffered.status
          /\ (real.sent["Content-Length"])' = <<Length(data)>>
          /\ \A k \in Keys \ {"Content-Length"} : (real.sent)'[k] =
                IF buffered.headers[k] = <<>> THEN <<>> ELSE <<Last(buffered.headers[k])>>
          /\ (real.body)' = <<>> \o data
      BY <1>2, <2>2, <2>3, FlushFacts
    <2>5. /\ data \in Seq(Pieces \cup {"zigbee"})
          /\ ~\E i \in 1 .. Len(data) - 1 : data[i] = "urn" /\ data[i + 1] = "ns"
      BY <1>2, ReplacedFacts DEF Responses
    <2> HIDE DEF data
    <2>6. (real.body)' = data
      BY <2>4, <2>5
    <2>7. ASSUME tidy = TRUE
          PROVE  /\ (real.status)' = (direct.status)'
                 /\ \A k \in Keys \ {"Content-Length"} : (real.sent)'[k] = (direct.sent)'[k]
      <3>1. Alike
        BY <2>1, <2>7
      <3>2. (direct.sent)' = direct.headers
        BY <1>1, <1>2, <3>1 DEF Alike, Commit, Responses
      <3>3. (direct.status)' = IF direct.status = 0 THEN 200 ELSE direct.status
        BY <1>1, <1>2 DEF Commit, Responses
      <3>4. (real.status)' = (direct.status)'
        BY <2>4, <3>1, <3>3 DEF Alike
      <3>5. ASSUME NEW k \in Keys \ {"Content-Length"} PROVE (real.sent)'[k] = direct.headers[k]
        <4>1. direct.headers[k] = <<>> \/ \E v \in Values : direct.headers[k] = <<v>>
          BY <3>1 DEF Alike
        <4>2. (real.sent)'[k] =
                 IF direct.headers[k] = <<>> THEN <<>> ELSE <<Last(direct.headers[k])>>
          BY <2>4, <3>1 DEF Alike
        <4>3. CASE direct.headers[k] = <<>>
          BY <4>2, <4>3
        <4>4. ASSUME NEW v \in Values, direct.headers[k] = <<v>>
              PROVE  (real.sent)'[k] = direct.headers[k]
          <5>1. Last(<<v>>) = v /\ <<v>> # <<>>
            BY DEF Last
          <5> QED
            BY <4>2, <4>4, <5>1
        <4> QED
          BY <4>1, <4>3, <4>4
      <3> QED
        BY <3>2, <3>4, <3>5
    <2>8. ResponseUnchanged'
      <3>1. (real.sent["Content-Length"] = <<Length(real.body)>>)'
        BY <2>4, <2>6
      <3>2. ~\E i \in 1 .. Len((real.body)') - 1 :
                 (real.body)'[i] = "urn" /\ (real.body)'[i + 1] = "ns"
        BY <2>5, <2>6
      <3>3. ((real.body) = RewriteNamespace(direct.body))'
        BY <2>3, <2>6
      <3>4. tidy' => tidy = TRUE
        BY <1>1, <1>2
      <3>5. (/\ real.sent["Content-Length"] = <<Length(real.body)>>
             /\ ~\E i \in 1 .. Len(real.body) - 1 :
                    real.body[i] = "urn" /\ real.body[i + 1] = "ns")'
        BY <3>1, <3>2
      <3>6. (tidy => /\ real.status = direct.status
                     /\ \A k \in Keys \ {"Content-Length"} : real.sent[k] = direct.sent[k]
                     /\ real.body = RewriteNamespace(direct.body))'
        BY <2>7, <3>3, <3>4
      <3> QED
        BY <3>5, <3>6 DEF ResponseUnchanged
    <2> QED
      BY <1>5, <1>6, <2>8 DEF IInv
  <1> QED
    BY <1>3, <1>7, <1>8

\* The server is ready for another request.
LEMMA NextRequestStep ==
    ASSUME NextRequest
    PROVE  IInv'
  <1>1. /\ at' = "idle" /\ todo' = <<>> /\ buffered' = NewBuffer /\ real' = NewResponse
        /\ direct' = NewResponse /\ tidy' = TRUE
    BY DEF NextRequest
  <1>2. TypeOK'
    BY <1>1, NewFacts DEF TypeOK, Buffers, Responses
  <1>3. Kept'
    BY <1>1 DEF Kept
  <1>4. ResponseUnchanged'
    BY <1>1 DEF ResponseUnchanged
  <1> QED
    BY <1>2, <1>3, <1>4 DEF IInv

\* The response is the handler's own, whoever the client is: NamespaceMiddleware's
\* buffer and its flush change nothing but the name of the namespace and the length, for
\* every sequence of calls.
THEOREM ResponsesUnchanged == WriterSpec => []ResponseUnchanged
  <1>1. IInv /\ [WriterNext]_writerVars => IInv'
    <2> SUFFICES ASSUME IInv, [WriterNext]_writerVars PROVE IInv'
      OBVIOUS
    <2>1. CASE UNCHANGED writerVars
      <3>1. /\ at' = at /\ accept' = accept /\ todo' = todo /\ buffered' = buffered
            /\ real' = real /\ direct' = direct /\ tidy' = tidy
        BY <2>1 DEF writerVars
      <3>2. TypeOK'
        BY <3>1 DEF IInv, TypeOK
      <3>3. mode' = mode /\ Alike' = Alike
        BY <3>1 DEF mode, Alike
      <3>4. Kept'
        BY <3>1, <3>3 DEF IInv, Kept
      <3>5. ResponseUnchanged'
        BY <3>1, <3>3 DEF IInv, ResponseUnchanged, RewriteNamespace
      <3> QED
        BY <3>2, <3>4, <3>5 DEF IInv
    <2>2. CASE \E lines \in Accepts : Request(lines)
      BY <2>2, RequestStep
    <2>3. CASE \E cs \in HandlerCalls : Handle(cs)
      BY <2>3, HandleStep
    <2>4. CASE Call
      BY <2>4, CallStep
    <2>5. CASE Return
      BY <2>5, ReturnStep
    <2>6. CASE NextRequest
      BY <2>6, NextRequestStep
    <2> QED
      BY <2>1, <2>2, <2>3, <2>4, <2>5, <2>6 DEF WriterNext
  <1>2. IInv => ResponseUnchanged
    BY DEF IInv
  <1> QED
    BY <1>1, <1>2, InitInv, PTL DEF WriterSpec
================================================================================
