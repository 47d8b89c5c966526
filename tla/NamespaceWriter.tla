---------------------------- MODULE NamespaceWriter ----------------------------
(***************************************************************************)
(* pkg/sep2/encoding: the response of one handler behind                   *)
(* NamespaceMiddleware, which buffers what the handler writes for a client *)
(* of the 2013 namespace and rewrites it.  A body is a sequence of pieces; *)
(* the 2018 namespace is two pieces, so that two Writes can part it.       *)
(* net/http's own response writer is external and modelled as used.        *)
(***************************************************************************)
EXTENDS Naturals, SequencesExt, FiniteSetsExt

CONSTANTS
    Accepts,          \* the Accept headers a client sends: lines of pieces, see Piece
    maxMediaRanges,
    Bodies,           \* what a handler writes at a time
    MaxCalls          \* bound: how often a handler calls

\* A body is a sequence.
ASSUME NamespaceWriterAssumption == \A d \in Bodies : d \in Seq({d[i] : i \in DOMAIN d})

VARIABLES
    at,        \* where the request is: "idle", "serving" or "sent"
    accept,    \* the request's Accept header lines
    calls,     \* how many helpers and calls of its own the handler has begun
    todo,      \* the calls on its writer it is yet to make for the last of them
    buffered,  \* the nsBufferedWriter
    real,      \* net/http's response writer: what the client gets
    direct,    \* history: what the client would have got without the middleware
    tidy       \* history: every call of the handler so far has been Proper

writerVars == <<at, accept, calls, todo, buffered, real, direct, tidy>>

--------------------------------------------------------------------------------
(* The namespace the client asks for *)

\* What stands between two commas of an Accept line: an odd number of quotation marks
\* or not, and, outside them, a media type, a quality of zero, a level.
Piece(odd, sep, zero, level) == [odd |-> odd, sep |-> sep, zero |-> zero, level |-> level]

\* How many pieces the next media range takes: a comma inside quotes does not end it.
nextMediaRange(line) ==
    LET even == {k \in 1 .. Len(line) :
                    Cardinality({i \in 1 .. k : line[i].odd}) % 2 = 0}
    IN IF even = {} THEN Len(line) ELSE Min(even)

\* The ranges of a line, each the pieces it is made of.
Ranges(line) ==
    LET f[rest \in {SubSeq(line, i, Len(line)) : i \in 1 .. Len(line) + 1}] ==
            IF rest = <<>> THEN <<>>
            ELSE LET k == nextMediaRange(rest)
                 IN <<SubSeq(rest, 1, k)>> \o f[SubSeq(rest, k + 1, Len(rest))]
    IN f[line]

\* mime.ParseMediaType succeeds and the type is one of the two.
Parsed(range) == Cardinality({i \in DOMAIN range : range[i].odd}) % 2 = 0 /\ range[1].sep

\* Parameters outside the quotes: in the first piece and in the last.
Ends(range) == {range[1], range[Len(range)]}
Signals(range, level) ==
    /\ Parsed(range)
    /\ \A p \in Ends(range) : ~p.zero
    /\ \E p \in Ends(range) : p.level = level

DetectNamespace(lines) ==
    LET ranges == FlattenSeq([i \in DOMAIN lines |-> Ranges(lines[i])])
        saw(level) == \E i \in DOMAIN ranges : i <= maxMediaRanges /\ Signals(ranges[i], level)
    IN IF saw("S0") /\ ~saw("S1") THEN 2013 ELSE 2018

\* The value NamespaceMiddleware puts into the context and GetNamespace reads.
mode == DetectNamespace(accept)

--------------------------------------------------------------------------------
(* Writers *)

Keys == {"Content-Type", "Content-Length", "Allow"}
NoHeaders == [k \in Keys |-> <<>>]

Bytes(piece) == CASE piece = "urn" -> 2 [] piece = "ns" -> 2 [] piece = "zigbee" -> 3 [] OTHER -> 1
Length(data) == MapThenSumSet(LAMBDA i : Bytes(data[i]), DOMAIN data)

\* Where the 2018 name stands in a body.
Named(data) == {i \in DOMAIN data : i < Len(data) /\ data[i] = "urn" /\ data[i + 1] = "ns"}

\* bytes.ReplaceAll of the one name by the other: the second piece of the name is left
\* out, and what remains is placed by rank.
Replaced(data) ==
    LET left == {i \in DOMAIN data : i - 1 \notin Named(data)}
        from(n) == CHOOSE i \in left : Cardinality({j \in left : j <= i}) = n
        piece(i) == IF i \in Named(data) THEN "zigbee" ELSE data[i]
    IN [n \in 1 .. Cardinality(left) |-> piece(from(n))]

RewriteNamespace(data) == IF mode = 2013 THEN Replaced(data) ELSE data

\* The calls on a ResponseWriter and its Header.
Set(k, v) == [op |-> "set", key |-> k, vals |-> <<v>>]
Add(k, v) == [op |-> "add", key |-> k, vals |-> <<v>>]
Del(k) == [op |-> "set", key |-> k, vals |-> <<>>]
WriteHeader(code) == [op |-> "status", code |-> code]
Write(data) == [op |-> "write", data |-> data]

Changed(headers, c) ==
    [headers EXCEPT ![c.key] = IF c.op = "add" THEN @ \o c.vals ELSE c.vals]

\* http.Error
Error(code) == <<Del("Content-Length"), Set("Content-Type", "text/plain"),
                 WriteHeader(code), Write(<<"text">>)>>

\* WriteXML of a resource, and of a value that cannot be marshalled.
WriteXML(code, data) ==
    <<Set("Content-Type", "sep+xml"), WriteHeader(code), Write(data)>>
WriteXMLFails == Error(500)

MethodNotAllowed(allowed) == <<Set("Allow", allowed)>> \o Error(405)

\* nsBufferedWriter: Header, WriteHeader, Write
NewBuffer == [buf |-> <<>>, status |-> 0, headers |-> NoHeaders]
OnBuffer(w, c) ==
    CASE c.op = "status" -> [w EXCEPT !.status = c.code]
      [] c.op = "write" -> [w EXCEPT !.buf = @ \o c.data]
      [] OTHER -> [w EXCEPT !.headers = Changed(@, c)]

\* net/http's writer: the first WriteHeader, or a Write before it, sends the status and
\* the headers set so far.
NewResponse == [headers |-> NoHeaders, status |-> 0, sent |-> NoHeaders, body |-> <<>>]
Commit(w, code) ==
    IF w.status # 0 THEN w ELSE [w EXCEPT !.status = code, !.sent = w.headers]
OnResponse(w, c) ==
    CASE c.op = "status" -> Commit(w, c.code)
      [] c.op = "write" -> [Commit(w, 200) EXCEPT !.body = @ \o c.data]
      [] OTHER -> [w EXCEPT !.headers = Changed(@, c)]

\* What net/http asks, that headers and status come before the first byte and the
\* status once, and that no header is given a second value: the middleware keeps one.
Proper(w, c) ==
    CASE c.op = "status" -> w.status = 0
      [] c.op = "write" -> TRUE
      [] c.op = "add" -> w.status = 0 /\ w.headers[c.key] = <<>>
      [] OTHER -> w.status = 0

\* The headers the real writer is left with: the last value of each that the handler
\* has set, but for the length.
Copied(headers, w) ==
    [k \in Keys |-> IF k = "Content-Length" \/ w.headers[k] = <<>> THEN headers[k]
                    ELSE <<Last(w.headers[k])>>]

\* Mutant: the length of what the handler wrote is announced.
flushLengthFirst(w, r) ==
    LET data == RewriteNamespace(w.buf)
        length == Set("Content-Length", Length(w.buf))
        ready == [r EXCEPT !.headers = Changed(Copied(@, w), length)]
        status == IF w.status = 0 THEN 200 ELSE w.status
    IN OnResponse(OnResponse(ready, WriteHeader(status)), Write(data))

flush(w, r) ==
    LET data == RewriteNamespace(w.buf)
        length == Set("Content-Length", Length(data))
        ready == [r EXCEPT !.headers = Changed(Copied(@, w), length)]
        status == IF w.status = 0 THEN 200 ELSE w.status
    IN OnResponse(OnResponse(ready, WriteHeader(status)), Write(data))

--------------------------------------------------------------------------------
(* A request *)

\* What a handler does at a time: one of the package's helpers, or its own calls.
HandlerCalls ==
    {WriteXML(200, data) : data \in Bodies}
    \cup {WriteXML(201, <<>>), WriteXMLFails, MethodNotAllowed("GET")}
    \cup {<<Set("Content-Type", "text/plain")>>, <<Set("Content-Length", 3)>>,
          <<Add("Allow", "GET")>>, <<Add("Allow", "HEAD")>>,
          <<WriteHeader(200)>>, <<WriteHeader(404)>>}
    \cup {<<Write(data)>> : data \in Bodies}

WriterInit ==
    /\ at = "idle" /\ accept = <<>> /\ calls = 0 /\ todo = <<>>
    /\ buffered = NewBuffer /\ real = NewResponse /\ direct = NewResponse /\ tidy = TRUE

\* NamespaceMiddleware, up to next.ServeHTTP
Request(lines) ==
    /\ at = "idle" /\ at' = "serving" /\ accept' = lines
    /\ UNCHANGED <<calls, todo, buffered, real, direct, tidy>>

\* The handler turns to the calls cs.
Handle(cs) ==
    /\ at = "serving" /\ todo = <<>> /\ calls < MaxCalls
    /\ calls' = calls + 1 /\ todo' = cs
    /\ UNCHANGED <<at, accept, buffered, real, direct, tidy>>

\* It makes the next of them on the writer it was given.
Call ==
    /\ at = "serving" /\ todo # <<>> /\ todo' = Tail(todo)
    /\ LET c == Head(todo) IN
       /\ buffered' = IF mode # 2018 THEN OnBuffer(buffered, c) ELSE buffered
       /\ real' = IF mode # 2018 THEN real ELSE OnResponse(real, c)
       /\ direct' = OnResponse(direct, c)
       /\ tidy' = (tidy /\ Proper(direct, c))
    /\ UNCHANGED <<at, accept, calls>>

\* The handler returns; what it left open net/http closes.
Return ==
    /\ at = "serving" /\ todo = <<>> /\ at' = "sent"
    /\ real' = Commit(IF mode # 2018 THEN flush(buffered, real) ELSE real, 200)
    /\ direct' = Commit(direct, 200)
    /\ UNCHANGED <<accept, calls, todo, buffered, tidy>>

NextRequest ==
    /\ at = "sent" /\ at' = "idle" /\ accept' = <<>> /\ calls' = 0 /\ todo' = <<>>
    /\ buffered' = NewBuffer /\ real' = NewResponse /\ direct' = NewResponse /\ tidy' = TRUE

WriterNext ==
    \/ \E lines \in Accepts : Request(lines)
    \/ \E cs \in HandlerCalls : Handle(cs)
    \/ Call
    \/ Return
    \/ NextRequest

WriterSpec == WriterInit /\ [][WriterNext]_writerVars

--------------------------------------------------------------------------------
(* Properties *)

\* The client gets one whole response: a length that was announced by the middleware is
\* the body's, and no 2018 namespace is left for a client of 2013, however the handler
\* cut its output into Writes.  A handler that calls its ResponseWriter in the order
\* net/http asks, and gives no header two values, need not know of the middleware: the status, the headers and the body are those it
\* would have sent without it, but for the name of the namespace and the length.
ResponseUnchanged ==
    at = "sent" =>
        /\ mode = 2013 =>
              /\ real.sent["Content-Length"] = <<Length(real.body)>>
              /\ ~\E i \in 1 .. Len(real.body) - 1 :
                     real.body[i] = "urn" /\ real.body[i + 1] = "ns"
        /\ tidy =>
              /\ real.status = direct.status
              /\ \A k \in Keys \ {"Content-Length"} : real.sent[k] = direct.sent[k]
              /\ real.body = RewriteNamespace(direct.body)
================================================================================
