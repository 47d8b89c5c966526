--------------------------------- MODULE MCGate ---------------------------------
(* XSDGate for TLC: a schema with the shapes sep.xsd has, struct definitions with and
   without the defects the gate looks for, and the children of a peer's document.
   NamespaceWriter shares no state with the gate: the same run explores its requests,
   next to a process that loads no schema, because its environment is wrong. *)
EXTENDS XSDGate, NamespaceWriter

LOCAL P(odd, sep, zero, level) == [odd |-> odd, sep |-> sep, zero |-> zero, level |-> level]
S0 == P(FALSE, TRUE, FALSE, "S0")
S1 == P(FALSE, TRUE, FALSE, "S1")
S2 == P(FALSE, TRUE, FALSE, "other")
Html == P(FALSE, FALSE, FALSE, "S0")
Refused == P(FALSE, TRUE, TRUE, "S1")
Opens == P(TRUE, TRUE, FALSE, "other")      \* application/sep+xml;x="a
Closes == P(TRUE, FALSE, FALSE, "S0")       \* b";level=-S0

SomeAccepts ==
    {<<>>, <<<<S0>>>>, <<<<S1>>>>, <<<<S2>>, <<S0>>>>, <<<<S0, S1>>>>, <<<<Html>>>>,
     <<<<Refused, S0>>>>, <<<<S0>>, <<S2, S1>>>>, <<<<Opens, Closes>>>>, <<<<Opens, S0>>>>,
     <<<<Opens, S1, Closes>>, <<S0>>>>}

SomeBodies == {<<"urn">>, <<"ns">>, <<"urn", "ns", "x">>}

\* A test that parses a schema of its own looks at no file: one environment is enough.
GateStep ==
    /\ Next /\ at = "idle" /\ UNCHANGED writerVars
    /\ gate'.ok /\ once' = NotRun => files.path = "unset" /\ files.default = "sep"
ServerStep ==
    /\ files.required = "ture" /\ once = NotRun /\ outcome = "running" /\ ~gate.ok
    /\ WriterNext /\ UNCHANGED vars

DocumentsInit == Init /\ WriterInit

DocumentsSpec == DocumentsInit /\ [][GateStep \/ ServerStep]_<<vars, writerVars>>

Simple(name, base, max) ==
    [name |-> name, derivation |-> "restriction", base |-> base, maxLength |-> max, facetOK |-> TRUE]
El(name, type, min, max) ==
    [name |-> name, type |-> type, min |-> min, max |-> max, inline |-> FALSE]
Seqn(els, nested) == [els |-> els, nested |-> nested, unsupported |-> FALSE]
Attr(name, type, required) == [name |-> name, type |-> type, required |-> required, ref |-> FALSE]
Complex(name, content, base, seq, attrs) ==
    [name |-> name, content |-> content, base |-> base, seq |-> seq, attrs |-> attrs,
     derivation |-> "extension", abstract |-> FALSE, unsupported |-> FALSE]

Nested == Seqn(<<El("power", "Power", "0", "")>>, <<>>)

SchemaDoc ==
    [ns |-> "sep", imports |-> FALSE, malformed |-> FALSE,
     simpleTypes |-> <<Simple("HexBinary8", "hexBinary", 1), Simple("Flags", "HexBinary8", 4),
                       Simple("UInt8", "unsignedByte", -1), Simple("Int16", "short", -1)>>,
     complexTypes |->
       <<Complex("Event", "complexContent", "Identified",
                 Seqn(<<El("count", "UInt8", "0", "1"), El("interval", "Interval", "0", "unbounded")>>,
                      <<Nested>>),
                 <<Attr("version", "UInt8", TRUE)>>),
         Complex("Identified", "complexContent", "Resource", Seqn(<<El("mRID", "Flags", "", "")>>, <<>>), <<>>),
         Complex("Resource", "plain", "", Seqn(<<>>, <<>>), <<Attr("href", "anyURI", FALSE)>>),
         Complex("Interval", "plain", "",
                 Seqn(<<El("duration", "UInt8", "1", ""), El("start", "Int16", "0", "")>>, <<>>), <<>>),
         Complex("Power", "simpleContent", "Int16", Seqn(<<>>, <<>>), <<Attr("active", "boolean", FALSE)>>),
         Complex("Tree", "plain", "",
                 Seqn(<<El("n", "UInt8", "", ""), El("child", "Tree", "0", "")>>, <<>>), <<>>)>>,
     elements |-> <<[name |-> "Event", type |-> "Event"], [name |-> "Interval", type |-> "Interval"]>>]

\* Documents ParseSchema refuses, and one it takes.
OtherSchemaDocs ==
    {[SchemaDoc EXCEPT !.malformed = TRUE], [SchemaDoc EXCEPT !.elements[2].type = ""],
     [SchemaDoc EXCEPT !.simpleTypes[1].facetOK = FALSE], [SchemaDoc EXCEPT !.ns = ""], [SchemaDoc EXCEPT !.imports = TRUE],
     [SchemaDoc EXCEPT !.complexTypes[3] = Complex("Resource", "complexContent", "Event", Seqn(<<>>, <<>>), <<>>)],
     [SchemaDoc EXCEPT !.complexTypes[1].derivation = "restriction"],
     [SchemaDoc EXCEPT !.complexTypes[1].seq.nested[1].unsupported = TRUE],
     [SchemaDoc EXCEPT !.complexTypes[4].name = "Event"],
     [SchemaDoc EXCEPT !.simpleTypes[1].derivation = "union"],
     [SchemaDoc EXCEPT !.simpleTypes[1].base = "Flags", !.ns = "other"]}

GoInt(w) == [kind |-> "int", width |-> w]
Str(v) == [kind |-> "string", text |-> v]
Struct(n) == [kind |-> "struct", name |-> n]
Field(name, tag, options, wrap, type) ==
    [name |-> name, tag |-> tag, options |-> options, wrap |-> wrap, type |-> type,
     embedded |-> FALSE, exported |-> TRUE]
Embed(n) == [Field(n, "", {}, "none", Struct(n)) EXCEPT !.embedded = TRUE]

Env(path, default, required) == [path |-> path, default |-> default, required |-> required]
SomeEnvironments ==
    {Env("unset", "gone", ""), Env("unset", "gone", "1"), Env("unset", "gone", "ture"),
     Env("unset", "wrong", ""), Env("unset", "sep", "0"), Env("unset", "dir", ""),
     Env("unset", "unreadable", ""), Env("gone", "sep", ""), Env("gone", "gone", ""),
     Env("dir", "sep", ""), Env("wrong", "sep", "0"), Env("sep", "gone", "1")}

Ident == <<Field("Href", "href", {"attr", "omitempty"}, "none", Str(Text(4, FALSE))),
           Field("MRID", "mRID", {}, "none", Str(Text(2, TRUE)))>>
Version == Field("Version", "version", {"attr"}, "none", GoInt(Unsigned(8)))
Count(w) == Field("Count", "count", {"omitempty"}, "pointer", GoInt(w))
Powered(n) == Field("Power", "power", {"omitempty"}, "pointer", Struct(n))
Intervals(n) == Field("Intervals", "interval", {"omitempty"}, "slice", Struct(n))

GoStructs ==
    [Ident |-> Ident,
     Interval |-> <<Field("Duration", "duration", {}, "none", GoInt(Unsigned(8))),
                    Field("Start", "start", {}, "pointer", GoInt(Signed(16)))>>,
     Unsign |-> <<Field("Duration", "duration", {}, "none", GoInt(Unsigned(8))),
                  Field("Start", "start", {}, "pointer", GoInt(Unsigned(16)))>>,
     Tree |-> <<Field("N", "n", {}, "none", GoInt(Unsigned(8))),
                Field("Child", "child", {"omitempty"}, "pointer", Struct("Tree"))>>,
     Power |-> <<Field("Value", "", {"chardata"}, "none", Str(Text(2, FALSE)))>>,
     WidePower |-> <<Field("Value", "", {"chardata"}, "none", GoInt(Signed(32)))>>,
     Named |-> <<Field("XMLName", "mRID", {}, "none", Str(Text(0, TRUE)))>>,
     Good |-> <<Field("XMLName", "Event", {}, "none", Str(Text(0, TRUE))), Embed("Ident"), Version, Count(Unsigned(8)), Intervals("Interval")>>,
     Swapped |-> <<Version, Count(Unsigned(8)), Embed("Ident")>>,
     Wide |-> <<Embed("Ident"), Version, Count(Unsigned(16))>>,
     Negative |-> <<Embed("Ident"), Version, Count(Signed(8))>>,
     Deep |-> <<Embed("Ident"), Version, Intervals("Unsign")>>,
     Lacking |-> <<Version, Count(Unsigned(8)), 
                  [Field("hidden", "x", {}, "none", GoInt(Signed(64))) EXCEPT !.exported = FALSE]>>,
     Crossed |-> <<Field("MRID", "mRID", {"attr"}, "none", Str(Text(2, TRUE))),
                   Field("Version", "version", {}, "none", GoInt(Unsigned(8)))>>,
     Strange |-> <<Embed("Ident"), Field("Extra", "", {}, "none", GoInt(Unsigned(8))),
                   Field("Dropped", "-", {}, "none", GoInt(Signed(64)))>>,
     Charged |-> <<Embed("Ident"), Version, Powered("Power")>>,
     Overcharged |-> <<Embed("Ident"), Version, Powered("WidePower")>>,
     Tagged |-> <<Version, Count(Unsigned(8)), [Embed("Ident") EXCEPT !.tag = "interval"]>>,
     Renamed |-> <<Embed("Ident"), Version, Count(Unsigned(8)), Intervals("Named")>>,
     Shadowing |-> <<Ident[2], Embed("Ident"), Version>>,
     Shadowed |-> <<Embed("Ident"), Version, Count(Unsigned(8)), Ident[2]>>,
     Doubled |-> <<Embed("Ident"), Version, Count(Unsigned(8)), Count(Unsigned(8))>>]

GoBindings ==
    [struct : {"Good", "Swapped", "Wide", "Negative", "Deep", "Lacking", "Crossed", "Strange",
               "Charged", "Overcharged", "Tagged", "Renamed", "Shadowing", "Shadowed", "Doubled"},
     type : {"Event"}]
    \cup {[struct |-> "Tree", type |-> "Tree"], [struct |-> "Interval", type |-> "Interval"],
          [struct |-> "Interval", type |-> "Tree"]}

Given(name, v) == [name |-> name, value |-> v, namespaceDecl |-> FALSE]
One == Number(FALSE, 1)
PeerAttrs ==
    {<<>>, <<Given("version", One)>>,
     <<Given("version", One), Given("schemaVer", One), [Given("xsi", One) EXCEPT !.namespaceDecl = TRUE]>>,
     <<Given("version", Number(FALSE, 9)), Given("count", One)>>}

Interval(children) == [Leaf("interval", Text(0, TRUE)) EXCEPT !.children = children]
Dur == Leaf("duration", Number(FALSE, 8))
PeerChildren ==
    {Leaf("mRID", Text(2, TRUE)), Leaf("mRID", Text(4, TRUE)), Leaf("count", Number(FALSE, 8)),
     Leaf("count", Number(FALSE, 9)), Interval(<<Dur>>), Interval(<<Leaf("start", Number(TRUE, 15)), Dur>>),
     Leaf("power", Number(TRUE, 15)), [Leaf("count", One) EXCEPT !.attrs = <<Given("schemaVer", One)>>],
     [Leaf("power", One) EXCEPT !.attrs = <<Given("schemaVer", One)>>], Dur, Leaf("version", One)}
================================================================================
