--------------------------------- MODULE XSDGate ---------------------------------
(***************************************************************************)
(* The wire-format gate (internal/xsdgate) and the schema it loads         *)
(* (schema/schema.go): a schema document is located, checked and parsed    *)
(* once per process; Validate judges a document against a complex type and *)
(* CheckStruct a Go struct definition; a gated test skips, fails or passes.*)
(*                                                                         *)
(* An XML document is a tree of nodes.  A value is what the lexical checks *)
(* can see of it: its length, whether it is made of hex digits, whether it *)
(* is a boolean, and, for an integer, its sign and the magnitude m of      *)
(* 2^m - 1 or -2^m, the values at which integer types end.  A Go struct    *)
(* type is a name and its fields.  Problems are a set of kind and path.    *)
(***************************************************************************)
EXTENDS Integers, Sequences, FiniteSets, SequencesExt

CONSTANTS
    SepXSD,      \* the expected schema document, as encoding/xml decodes it
    Environments,\* what the files and variables may hold at first
    OtherXSDs,   \* other documents ParseSchema is called with
    Structs,     \* Go struct types: from a name to the sequence of fields
    Bindings,    \* pairs of a struct and the complex type it models
    Attrs,       \* attributes a peer's root element may carry
    Children,    \* child elements a peer's root element may carry
    MaxChildren, \* bound: children of a peer's root element
    Depth        \* bound: nesting of the structs that are marshalled

VARIABLES
    files,    \* what SEP2_SCHEMA_PATH, the default path and SEP2_SCHEMA_REQUIRED hold
    once,     \* Load's memo: NotRun, or what the first call returned
    gate,     \* what MustLoad, or ParseSchema, gave the test
    report,   \* CheckStruct's problems, or NoReport
    bound,    \* the binding under test, or a peer's document
    doc,      \* the document: the root node, with its namespace
    problems, \* Validate's result, or NoReport
    outcome   \* of the test: "running", "skip", "fail" or "pass"

vars == <<files, once, gate, report, bound, doc, problems, outcome>>

NotRun    == [state |-> "notRun"]
NoReport  == {[kind |-> "none", path |-> <<>>]}
NoSchema  == [ok |-> FALSE]
NoDoc     == [name |-> ""]
NoBinding == [struct |-> "", type |-> ""]

Init ==
    /\ files \in Environments
    /\ once = NotRun /\ gate = NoSchema /\ report = NoReport /\ bound = NoBinding
    /\ doc = NoDoc /\ problems = NoReport /\ outcome = "running"

--------------------------------------------------------------------------------
(* Values *)

Digits(mag) == (3 * mag) \div 10 + 1
Number(neg, mag) ==
    [len |-> Digits(mag) + (IF neg THEN 1 ELSE 0), hex |-> ~neg, bool |-> ~neg /\ mag <= 1,
     int |-> TRUE, neg |-> neg, mag |-> mag, trimmed |-> TRUE]
Text(len, hex) ==
    [len |-> len, hex |-> hex, bool |-> FALSE, int |-> FALSE, neg |-> FALSE, mag |-> 0,
     trimmed |-> TRUE]

Signed(b)   == [bits |-> b, signed |-> TRUE]
Unsigned(b) == [bits |-> b, signed |-> FALSE]

\* xsdIntRanges, xsdIntWidths
IntWidths ==
    [byte |-> Signed(8), short |-> Signed(16), int |-> Signed(32), long |-> Signed(64),
     unsignedByte |-> Unsigned(8), unsignedShort |-> Unsigned(16), unsignedInt |-> Unsigned(32),
     unsignedLong |-> Unsigned(64)]

isXSDBuiltin(name) ==
    name \in DOMAIN IntWidths
          \cup {"hexBinary", "string", "boolean", "anyURI", "decimal", "float", "double"}

InRange(v, w) ==
    IF w.signed THEN v.mag <= w.bits - 1 ELSE ~v.neg /\ v.mag <= w.bits

\* The first and last value of an integer type, and zero.
Extremes(w) ==
    IF w.signed THEN {Number(TRUE, w.bits - 1), Number(FALSE, w.bits - 1), Number(FALSE, 0)}
    ELSE {Number(FALSE, w.bits), Number(FALSE, 0)}

--------------------------------------------------------------------------------
(* schema.go: ParseSchema *)

\* The names reached from one by a function, up to a name it does not have or to
\* the first that comes again.
RECURSIVE Walk(_, _, _)
Walk(next, name, seen) ==
    IF name \in DOMAIN next /\ ~Contains(seen, name)
    THEN Walk(next, next[name], Append(seen, name)) ELSE Append(seen, name)

Cyclic(walk) == Contains(Front(walk), Last(walk))

Bases(types) == [t \in DOMAIN types |-> types[t].base]

convertSimpleType(in) ==
    IF in.derivation # "restriction" \/ ~in.facetOK THEN NoSchema
    ELSE [ok |-> TRUE, base |-> in.base, maxLength |-> in.maxLength]

RECURSIVE flattenSequence(_)
flattenSequence(seq) ==
    LET nested == [i \in DOMAIN seq.nested |-> flattenSequence(seq.nested[i])]
        own(e) == [name |-> e.name, type |-> e.type, required |-> e.min # "0",
                   repeatable |-> e.max \notin {"", "1"}] IN
    IF \/ seq.unsupported \/ \E n \in Range(nested) : ~n.ok
       \/ \E e \in Range(seq.els) : e.inline \/ e.name = "" \/ e.type = ""
    THEN NoSchema
    ELSE [ok |-> TRUE, els |-> [i \in DOMAIN seq.els |-> own(seq.els[i])]
                               \o FlattenSeq([i \in DOMAIN nested |-> nested[i].els])]

convertComplexType(in) ==
    LET flat == IF in.content = "simpleContent" THEN [ok |-> TRUE, els |-> <<>>]
                ELSE flattenSequence(in.seq) IN
    IF \/ in.name = "" \/ in.abstract \/ in.unsupported
       \/ in.content # "plain" /\ in.derivation # "extension"
       \/ ~flat.ok \/ \E a \in Range(in.attrs) : a.ref
    THEN NoSchema
    ELSE [ok |-> TRUE, base |-> IF in.content = "plain" THEN "" ELSE in.base,
          simpleContent |-> in.content = "simpleContent", els |-> flat.els, attrs |-> in.attrs]

\* baseChain: derived type first.
baseChain(s, t) == Walk(Bases(s.complex), t, <<>>)

\* Mutant: a derived type's own particles lead.
EffectiveElementsOwnFirst(s, t) ==
    FlattenSeq([i \in DOMAIN Front(baseChain(s, t)) |-> s.complex[baseChain(s, t)[i]].els])

EffectiveElements(s, t) ==
    FlattenSeq(Reverse([i \in DOMAIN Front(baseChain(s, t)) |-> s.complex[baseChain(s, t)[i]].els]))

EffectiveAttributes(s, t) ==
    FlattenSeq(Reverse([i \in DOMAIN Front(baseChain(s, t)) |-> s.complex[baseChain(s, t)[i]].attrs]))

NamesOf(seq) == {x.name : x \in Range(seq)}

\* elemIndex, elemByName, attrByName: a map keeps the last of two entries of one name.
Index(seq, n) == CHOOSE i \in DOMAIN seq :
    seq[i].name = n /\ \A j \in DOMAIN seq : seq[j].name = n => j <= i
ByName(seq, n) == seq[Index(seq, n)]
Unique(seq) == \A i, j \in DOMAIN seq : seq[i].name = seq[j].name => i = j

ParseSchema(x) ==
    LET simple  == [n \in NamesOf(x.simpleTypes) |-> convertSimpleType(ByName(x.simpleTypes, n))]
        complex == [n \in NamesOf(x.complexTypes) |-> convertComplexType(ByName(x.complexTypes, n))]
        s == [ok |-> TRUE, ns |-> x.ns, simple |-> simple, complex |-> complex,
              elements |-> [n \in NamesOf(x.elements) |-> ByName(x.elements, n).type]] IN
    IF \/ x.malformed \/ x.ns = "" \/ x.imports
       \/ ~Unique(x.simpleTypes) \/ ~Unique(x.complexTypes)
       \/ \E n \in DOMAIN simple : ~simple[n].ok
       \/ \E n \in DOMAIN complex : ~complex[n].ok
       \/ \E e \in Range(x.elements) : e.name = "" \/ e.type = ""
    THEN NoSchema
    ELSE IF \E n \in DOMAIN complex : Cyclic(baseChain(s, n)) THEN NoSchema ELSE s

\* resolveBuiltin: the built-in a simple type ends at, or "", and the tightest
\* maxLength on the way.
resolveBuiltin(s, t) ==
    LET walk == Walk(Bases(s.simple), t, <<>>)
        facets == {s.simple[n].maxLength : n \in Range(walk) \cap DOMAIN s.simple} \cap Nat IN
    [builtin |-> IF ~Cyclic(walk) /\ isXSDBuiltin(Last(walk)) THEN Last(walk) ELSE "",
     maxLen  |-> IF facets = {} THEN -1 ELSE CHOOSE n \in facets : \A o \in facets : n <= o]

--------------------------------------------------------------------------------
(* validate.go, lexical.go: Validate *)

Problem(kind, path) == {[kind |-> kind, path |-> path]}

checkHexBinary(v, maxLen) ==
    \/ v.len = 0
    \/ v.len % 2 = 0 /\ v.hex /\ (maxLen >= 0 => v.len \div 2 <= maxLen)

LexicalOK(s, t, v) ==
    LET r == resolveBuiltin(s, t) IN
    CASE r.builtin = "hexBinary" -> checkHexBinary(v, r.maxLen)
      [] r.builtin = "boolean" -> v.bool
      [] r.builtin \in DOMAIN IntWidths ->
             v.trimmed /\ v.len > 0 /\ v.int /\ InRange(v, IntWidths[r.builtin])
      [] OTHER -> TRUE

checkLexical(s, t, v, path) ==
    IF LexicalOK(s, t, v) THEN {}
    ELSE {[kind |-> "lexical", path |-> path, builtin |-> resolveBuiltin(s, t).builtin, int |-> v.int]}

rootTolerated == {"schemaVer"}

checkAttributes(s, n, path, elems, attrs, isRoot) ==
    LET given == {a \in Range(n.attrs) : ~a.namespaceDecl}
        judge(a) ==
            IF a.name \in NamesOf(attrs)
            THEN checkLexical(s, ByName(attrs, a.name).type, a.value, Append(path, a.name))
            ELSE IF a.name \in NamesOf(elems) THEN Problem("placement", Append(path, a.name))
            ELSE IF isRoot /\ a.name \in rootTolerated THEN {}
            ELSE Problem("unknown-attribute", Append(path, a.name)) IN
    UNION {judge(a) : a \in given}
    \cup UNION {Problem("missing-attribute", Append(path, a.name)) :
                a \in {b \in {ByName(attrs, d) : d \in NamesOf(attrs)} :
                         b.required /\ b.name \notin {g.name : g \in given}}}

\* Positions of a sequence of names that come after a name of a later position; names
\* that are not declared take no part.
OutOfOrder(elems, names) ==
    LET known == {i \in DOMAIN names : names[i] \in NamesOf(elems)} IN
    {i \in known : \E j \in known : j < i /\ Index(elems, names[i]) < Index(elems, names[j])}

\* What is wrong with the children as such; inside is what validateNode finds in them.
checkChildren(n, path, elems, attrs, inside) ==
    LET names == [i \in DOMAIN n.children |-> n.children[i].name]
        count(e) == Cardinality({i \in DOMAIN names : names[i] = e})
        at(e) == Append(path, e) IN
    inside
    \cup UNION {Problem(IF e \in NamesOf(attrs) THEN "placement" ELSE "unknown-element", at(e)) :
                e \in Range(names) \ NamesOf(elems)}
    \cup UNION {Problem("order", at(names[i])) : i \in OutOfOrder(elems, names)}
    \cup UNION {Problem("repetition", at(e)) :
                e \in {x \in NamesOf(elems) : count(x) > 1 /\ ~ByName(elems, x).repeatable}}
    \cup UNION {Problem("missing-element", at(e.name)) :
                e \in {x \in Range(elems) : x.required /\ count(x.name) = 0}}

RECURSIVE validateNode(_, _, _, _, _)
validateNode(s, n, t, path, isRoot) ==
    LET elems == EffectiveElements(s, t)
        attrs == EffectiveAttributes(s, t)
        known == {c \in Range(n.children) : c.name \in NamesOf(elems)}
        inside == UNION {validateNode(s, c, ByName(elems, c.name).type, Append(path, c.name), FALSE) :
                         c \in known} IN
    IF t \notin DOMAIN s.complex
    THEN checkLexical(s, t, n.text, path)
         \cup UNION {Problem("unknown-element", Append(path, c.name)) : c \in Range(n.children)}
    ELSE checkAttributes(s, n, path, elems, attrs, isRoot)
         \cup (IF s.complex[t].simpleContent THEN checkLexical(s, s.complex[t].base, n.text, path)
               ELSE {})
         \cup checkChildren(n, path, elems, attrs, inside)

Validate(s, t, root) ==
    (IF root.ns # s.ns THEN Problem("namespace", <<root.name>>) ELSE {})
    \cup validateNode(s, root, t, <<root.name>>, TRUE)

--------------------------------------------------------------------------------
(* structcheck.go: CheckStruct *)

\* Mutant: an unsigned type fits the signed one of its own width.
fitsInSameWidth(w, x) == ~(w.signed /\ ~x.signed) /\ w.bits <= x.bits

fitsIn(w, x) ==
    /\ ~(w.signed /\ ~x.signed)
    /\ IF ~w.signed /\ x.signed THEN w.bits < x.bits ELSE w.bits <= x.bits

\* Mutant: the fields of embedded structs lead, wherever they are embedded.
RECURSIVE flattenFieldsEmbeddedFirst(_)
flattenFieldsEmbeddedFirst(struct) ==
    LET embeds(f) == f.embedded /\ f.tag = "" /\ f.options = {} IN
    FlattenSeq([i \in DOMAIN Structs[struct] |->
                   IF embeds(Structs[struct][i])
                   THEN flattenFieldsEmbeddedFirst(Structs[struct][i].type.name) ELSE <<>>])
    \o SelectSeq(Structs[struct], LAMBDA f : ~embeds(f) /\ f.exported)

\* flattenFields: embedded structs in declaration position, unexported fields left out.
RECURSIVE flattenFields(_)
flattenFields(struct) ==
    LET expand(f) == IF f.embedded /\ f.type.kind = "struct" /\ f.tag = "" /\ f.options = {}
                     THEN flattenFields(f.type.name)
                     ELSE IF f.exported THEN <<f>> ELSE <<>> IN
    FlattenSeq([i \in DOMAIN Structs[struct] |-> expand(Structs[struct][i])])

\* parseXMLTag
Skipped(f) == f.name = "XMLName" \/ f.tag = "-"
              \/ f.options \cap {"chardata", "innerxml", "comment", "cdata", "any"} # {}
NameOf(f) == IF f.tag = "" THEN f.name ELSE f.tag
isAttr(f) == "attr" \in f.options
Fields(struct) == SelectSeq(flattenFields(struct), LAMBDA f : ~Skipped(f))

\* integerBase: through restrictions and simpleContent extensions.
integerBase(s, t) ==
    LET next == [n \in DOMAIN s.simple \cup {c \in DOMAIN s.complex : s.complex[c].simpleContent} |->
                    IF n \in DOMAIN s.simple THEN s.simple[n].base ELSE s.complex[n].base]
        walk == Walk(next, t, <<>>) IN
    IF ~Cyclic(walk) /\ isXSDBuiltin(Last(walk)) THEN Last(walk) ELSE ""

checkIntegerWidth(s, path, f, xsdType) ==
    LET base == integerBase(s, xsdType) IN
    IF f.type.kind # "int" THEN {}
    ELSE IF base = "" THEN Problem("integer-unresolved", path)
    ELSE IF base \in DOMAIN IntWidths /\ ~fitsIn(f.type.width, IntWidths[base])
    THEN Problem("integer-width", path) ELSE {}

RECURSIVE holdsInteger(_, _)
holdsInteger(type, seen) ==
    \/ type.kind = "int"
    \/ /\ type.kind = "struct" /\ type.name \notin seen
       /\ \E f \in Range(Fields(type.name)) : holdsInteger(f.type, seen \cup {type.name})

reportUndeclaredIntegers(path, f) ==
    IF holdsInteger(f.type, {}) THEN Problem("integer-unresolved", path) ELSE {}

\* checkChildIntegers: every struct below is paired with the type of its element; a
\* pair being walked already is not entered again.
RECURSIVE checkChildIntegers(_, _, _, _, _)
checkChildIntegers(s, path, type, xsdType, active) ==
    LET elems == EffectiveElements(s, xsdType)
        attrs == EffectiveAttributes(s, xsdType)
        judge(f) ==
            LET at == Append(path, f.name)
                decls == IF isAttr(f) THEN attrs ELSE elems IN
            IF NameOf(f) \notin NamesOf(decls) THEN reportUndeclaredIntegers(at, f)
            ELSE checkIntegerWidth(s, at, f, ByName(decls, NameOf(f)).type)
                 \cup (IF isAttr(f) THEN {}
                       ELSE checkChildIntegers(s, at, f.type, ByName(decls, NameOf(f)).type,
                                               active \cup {<<type.name, xsdType>>})) IN
    IF type.kind # "struct" THEN {}
    ELSE IF <<type.name, xsdType>> \in active THEN {}
    ELSE IF xsdType \notin DOMAIN s.complex
    THEN IF holdsInteger(type, {}) THEN Problem("integer-unresolved", path) ELSE {}
    ELSE UNION {judge(f) : f \in Range(Fields(type.name))}

\* Misplaced: the problem with a field bound to a name of the other axis, or of none.
Misplaced(f, path, other, unknown) ==
    IF NameOf(f) \in NamesOf(other) THEN Problem("placement", path) ELSE Problem(unknown, path)

CheckStruct(s, t, struct) ==
    LET elems  == EffectiveElements(s, t)
        attrs  == EffectiveAttributes(s, t)
        fields == Fields(struct)
        names  == [i \in DOMAIN fields |-> IF isAttr(fields[i]) THEN "" ELSE NameOf(fields[i])]
        judgeAttr(f, path) ==
            IF NameOf(f) \in NamesOf(attrs)
            THEN checkIntegerWidth(s, path, f, ByName(attrs, NameOf(f)).type)
            ELSE Misplaced(f, path, elems, "unknown-attribute")
        judgeElem(f, path) ==
            IF NameOf(f) \notin NamesOf(elems) THEN Misplaced(f, path, attrs, "unknown-element")
            ELSE LET e == ByName(elems, NameOf(f)) IN
                 (IF e.required /\ "omitempty" \in f.options THEN Problem("omitempty-required", path)
                  ELSE {})
                 \cup checkIntegerWidth(s, path, f, e.type)
                 \cup checkChildIntegers(s, path, f.type, e.type, {<<struct, t>>}) IN
    UNION {LET path == <<t, f.name>> IN
           IF isAttr(f) THEN judgeAttr(f, path) ELSE judgeElem(f, path) : f \in Range(fields)}
    \cup UNION {Problem("struct-order", <<t, fields[i].name>>) : i \in OutOfOrder(elems, names)}

--------------------------------------------------------------------------------
(* encoding/xml: the documents a struct can be marshalled to, with the values at
   which its integers end.  Comments, CDATA, raw XML, ",any" fields and embedded
   pointers are left out; an XMLName is a field of the struct itself. *)

Leaf(name, v) == [name |-> name, attrs |-> <<>>, children |-> <<>>, text |-> v]

\* All concatenations of one member of each set.
Products(sets) == FoldLeft(LAMBDA acc, S : {a \o b : a \in acc, b \in S}, {<<>>}, sets)

Values(type) == IF type.kind = "int" THEN Extremes(type.width) ELSE {type.text}

\* The name a struct gives its own element, or "".
XMLNameOf(struct) ==
    LET own == {f \in Range(Structs[struct]) : f.name = "XMLName"} IN
    IF own = {} THEN "" ELSE (CHOOSE f \in own : TRUE).tag
TypeName(f) == IF f.type.kind = "struct" THEN XMLNameOf(f.type.name) ELSE ""

\* A field's name, and the one written: that of the value's type goes before it.
InfoName(f) == IF f.tag # "" THEN f.tag ELSE IF TypeName(f) # "" THEN TypeName(f) ELSE f.name
WireName(f) == IF TypeName(f) # "" THEN TypeName(f) ELSE InfoName(f)

Mode(f) == IF "attr" \in f.options THEN "attr"
           ELSE IF "chardata" \in f.options THEN "chardata" ELSE "element"

\* getTypeInfo: fields with how deep they are embedded.  A struct is embedded whatever
\* its tag says, unless it says "-".
RECURSIVE TypeInfo(_, _)
TypeInfo(struct, level) ==
    LET info(f) == IF f.tag = "-" \/ f.name = "XMLName" \/ ~(f.exported \/ f.embedded) THEN <<>>
                   ELSE IF f.embedded THEN TypeInfo(f.type.name, level + 1)
                   ELSE <<[field |-> f, level |-> level]>> IN
    FlattenSeq([i \in DOMAIN Structs[struct] |-> info(Structs[struct][i])])

\* addFieldInfo: of two fields of one name the one embedded less deep stays, and two at
\* the same level are an error, as is a field whose type has another name.
Same(x, y) == Mode(x.field) = Mode(y.field) /\ InfoName(x.field) = InfoName(y.field)

Written(struct) ==
    LET info == TypeInfo(struct, 0)
        stays(x) == \A y \in Range(info) : Same(x, y) => x.level <= y.level
        kept == SelectSeq(info, stays) IN
    [i \in DOMAIN kept |-> kept[i].field]

Conflicting(struct) ==
    LET info == TypeInfo(struct, 0)
        field(i) == info[i].field IN
    \/ \E i, j \in DOMAIN info :
          /\ i < j /\ Same(info[i], info[j]) /\ info[i].level = info[j].level
          /\ \A k \in 1 .. j - 1 : Same(info[k], info[j]) => info[k].level >= info[j].level
    \/ \E i \in DOMAIN info : /\ field(i).wrap # "slice" /\ field(i).tag # ""
                              /\ TypeName(field(i)) \notin {"", field(i).tag}

RECURSIVE Marshalled(_, _, _)
FieldNodes(f, depth) ==
    LET one == IF f.type.kind = "struct" THEN Marshalled(WireName(f), f.type.name, depth - 1)
               ELSE {Leaf(WireName(f), v) : v \in Values(f.type)} IN
    CASE f.wrap = "pointer" -> {<<>>} \cup {<<n>> : n \in one}
      [] f.wrap = "slice" -> {<<>>} \cup {<<n>> : n \in one} \cup {<<n, n>> : n \in one}
      [] "omitempty" \in f.options -> {<<>>} \cup {<<n>> : n \in one}
      [] OTHER -> {<<n>> : n \in one}
FieldAttrs(f) ==
    {<<[name |-> WireName(f), value |-> v, namespaceDecl |-> FALSE]>> : v \in Values(f.type)}
    \cup (IF "omitempty" \in f.options \/ f.wrap = "pointer" THEN {<<>>} ELSE {})

Marshalled(name, struct, depth) ==
    LET of(mode) == SelectSeq(Written(struct), LAMBDA f : Mode(f) = mode)
        elems == of("element")
        attrs == of("attr")
        texts == of("chardata") IN
    IF depth = 0 \/ Conflicting(struct) THEN {}
    ELSE [name : {name}, attrs : Products([i \in DOMAIN attrs |-> FieldAttrs(attrs[i])]),
          children : Products([i \in DOMAIN elems |-> FieldNodes(elems[i], depth)]),
          text : IF texts = <<>> THEN {Text(0, TRUE)} ELSE Values(texts[1].type)]

Rooted(n, ns) == [name |-> n.name, attrs |-> n.attrs, children |-> n.children, text |-> n.text,
                  ns |-> ns]

--------------------------------------------------------------------------------
(* gate.go and schema/schema.go: the life of a gated test *)

\* schema.Required: on, off, or an error.
Required == CASE files.required = "1" -> "on" [] files.required = "ture" -> "error" [] OTHER -> "off"

\* checkFile: there is nothing, stat fails, or there is a directory.
NoFile == {"gone", "dir"}

\* Mutant: a configured path that does not resolve counts as no copy.
ResolveLenient ==
    IF files.path \in NoFile \cup {"unset"}
    THEN IF files.default \in NoFile THEN "ErrNotFound" ELSE files.default
    ELSE files.path

\* schema.Resolve: the file to read, or the error.
Resolve ==
    IF files.path # "unset" THEN IF files.path \in NoFile THEN "misconfigured" ELSE files.path
    ELSE IF files.default \in NoFile THEN "ErrNotFound" ELSE files.default

\* schema.Load reads the file and checks the digest; xsdgate.Load parses, and remembers
\* what it got.
Loaded ==
    CASE Resolve = "sep" -> [state |-> "ok", schema |-> ParseSchema(SepXSD)]
      [] Resolve = "wrong" -> [state |-> "IntegrityError", schema |-> NoSchema]
      [] Resolve = "unreadable" -> [state |-> "readError", schema |-> NoSchema]
      [] OTHER -> [state |-> Resolve, schema |-> NoSchema]

\* An operator puts a copy in the default place, or takes it away, after the process
\* has looked.
Place(file) ==
    /\ outcome = "running" /\ once # NotRun /\ ~gate.ok /\ files.default # file
    /\ files' = [files EXCEPT !.default = file]
    /\ UNCHANGED <<once, gate, report, bound, doc, problems, outcome>>

MustLoad ==
    LET result == IF once = NotRun THEN Loaded ELSE once IN
    /\ outcome = "running" /\ ~gate.ok
    /\ IF Required = "error" THEN outcome' = "fail" /\ UNCHANGED <<once, gate>>
       ELSE /\ once' = result
            /\ CASE result.state = "ok" /\ result.schema.ok ->
                       gate' = result.schema /\ UNCHANGED outcome
                 [] result.state = "ErrNotFound" /\ Required = "off" ->
                       outcome' = "skip" /\ UNCHANGED gate
                 [] OTHER -> outcome' = "fail" /\ UNCHANGED gate
    /\ UNCHANGED <<files, report, bound, doc, problems>>

\* Another test of the process, which begins without a schema of its own.
NextTest ==
    /\ outcome # "running"
    /\ gate' = NoSchema /\ report' = NoReport /\ bound' = NoBinding /\ doc' = NoDoc
    /\ problems' = NoReport /\ outcome' = "running"
    /\ UNCHANGED <<files, once>>

\* ParseSchema called with a document of the test's own.
ParseOther(x) ==
    /\ outcome = "running" /\ ~gate.ok /\ once = NotRun
    /\ gate' = ParseSchema(x)
    /\ outcome' = IF gate'.ok THEN "running" ELSE "fail"
    /\ UNCHANGED <<files, once, report, bound, doc, problems>>

CollectStructProblems(b) ==
    /\ outcome = "running" /\ gate.ok /\ bound = NoBinding /\ b.type \in DOMAIN gate.complex
    /\ bound' = b
    /\ report' = CheckStruct(gate, b.type, b.struct)
    /\ UNCHANGED <<files, once, gate, doc, problems, outcome>>

\* The same, but with problems the test has failed, whatever it does from here on.
AssertStructValid(b) ==
    /\ outcome = "running" /\ gate.ok /\ bound = NoBinding /\ b.type \in DOMAIN gate.complex
    /\ bound' = b
    /\ report' = CheckStruct(gate, b.type, b.struct)
    /\ outcome' = IF report' = {} THEN "running" ELSE "fail"
    /\ UNCHANGED <<files, once, gate, doc, problems>>

\* AssertValid, CollectProblems: marshal, then validate.
Marshal(root) ==
    /\ outcome = "running" /\ report # NoReport /\ doc = NoDoc
    /\ doc' = Rooted(root, gate.ns)
    /\ UNCHANGED <<files, once, gate, report, bound, problems, outcome>>

\* A struct encoding/xml refuses fails the test.
MarshalFails ==
    /\ outcome = "running" /\ report # NoReport /\ doc = NoDoc /\ Conflicting(bound.struct)
    /\ outcome' = "fail"
    /\ UNCHANGED <<files, once, gate, report, bound, doc, problems>>

\* A peer's document, its root first.
StartPeer(name, ns, attrs) ==
    /\ outcome = "running" /\ gate.ok /\ bound = NoBinding /\ doc = NoDoc
    /\ doc' = [name |-> name, attrs |-> attrs, children |-> <<>>, text |-> Text(0, TRUE), ns |-> ns]
    /\ bound' = [struct |-> "peer", type |-> name]
    /\ UNCHANGED <<files, once, gate, report, problems, outcome>>

PeerChild(c) ==
    /\ outcome = "running" /\ bound.struct = "peer" /\ Len(doc.children) < MaxChildren
    /\ doc' = [doc EXCEPT !.children = Append(@, c)]
    /\ UNCHANGED <<files, once, gate, report, bound, problems, outcome>>

\* ValidateElement, and the assertion on its result.
AssertValid ==
    /\ outcome = "running" /\ doc # NoDoc
    /\ problems' = IF bound.struct = "peer" THEN Validate(gate, gate.elements[bound.type], doc)
                   ELSE Validate(gate, bound.type, doc)
    /\ outcome' = IF problems' = {} THEN "pass" ELSE "fail"
    /\ UNCHANGED <<files, once, gate, report, bound, doc>>

Next ==
    \/ \E f \in {"gone", "wrong", "sep"} : Place(f)
    \/ MustLoad
    \/ NextTest
    \/ \E x \in OtherXSDs : ParseOther(x)
    \/ \E b \in Bindings : CollectStructProblems(b)
    \/ \E b \in Bindings : AssertStructValid(b)
    \/ MarshalFails
    \/ /\ bound.struct \in DOMAIN Structs
       /\ \E n \in Marshalled(bound.type, bound.struct, Depth) : Marshal(n)
    \/ \E name \in NamesOf(SepXSD.elements), ns \in {SepXSD.ns, "other"}, as \in Attrs :
           gate.ok /\ name \in DOMAIN gate.elements /\ StartPeer(name, ns, as)
    \/ \E c \in Children : PeerChild(c)
    \/ AssertValid

Spec == Init /\ [][Next]_vars

--------------------------------------------------------------------------------
(* Properties *)

\* What XSD says of a type, type by type and particle by particle: the particles of
\* the base come first, every child is matched to one of them without going back, a
\* required particle has a child and one that does not repeat has no second.
RECURSIVE Particles(_, _)
Particles(s, t) ==
    IF t \in DOMAIN s.complex THEN Particles(s, s.complex[t].base) \o s.complex[t].els ELSE <<>>

RECURSIVE Declared(_, _)
Declared(s, t) ==
    IF t \in DOMAIN s.complex
    THEN Declared(s, s.complex[t].base) \cup Range(s.complex[t].attrs) ELSE {}

\* A value of a derived simple type is one of every type it derives from.  The length
\* of strings, and types that reach no known built-in, are outside what the gate checks.
ValueOf(s, t, v) ==
    LET types == Walk(Bases(s.simple), t, <<>>) IN
    CASE Last(types) = "hexBinary" ->
             /\ v.len % 2 = 0 /\ (v.len > 0 => v.hex)
             /\ \A d \in Range(Front(types)) :
                   s.simple[d].maxLength >= 0 => v.len <= 2 * s.simple[d].maxLength
      [] Last(types) = "boolean" -> v.bool
      [] Last(types) \in DOMAIN IntWidths -> v.int /\ v.trimmed /\ InRange(v, IntWidths[Last(types)])
      [] OTHER -> TRUE

RECURSIVE Conforms(_, _, _, _)
Conforms(s, n, t, isRoot) ==
    LET ps == Particles(s, t)
        given == {a \in Range(n.attrs) : ~a.namespaceDecl}
        match(f) ==
            /\ \A i \in DOMAIN f : ps[f[i]].name = n.children[i].name
            /\ \A i \in DOMAIN f : Conforms(s, n.children[i], ps[f[i]].type, FALSE)
            /\ \A i, j \in DOMAIN f :
                  i < j => f[i] < f[j] \/ (f[i] = f[j] /\ ps[f[i]].repeatable)
            /\ \A p \in DOMAIN ps : ps[p].required => p \in Range(f) IN
    IF t \notin DOMAIN s.complex THEN n.children = <<>> /\ given = {} /\ ValueOf(s, t, n.text)
    ELSE /\ \A a \in given :
               \/ \E d \in Declared(s, t) : d.name = a.name /\ ValueOf(s, d.type, a.value)
               \/ isRoot /\ a.name \in rootTolerated
         /\ \A d \in Declared(s, t) : d.required => \E a \in given : a.name = d.name
         /\ s.complex[t].simpleContent => ValueOf(s, s.complex[t].base, n.text)
         /\ \E f \in [DOMAIN n.children -> DOMAIN ps] : match(f)

\* The document without the attributes of its simple-typed elements, which
\* validateNode returns too early to look at.
RECURSIVE Bare(_, _, _)
Bare(s, n, t) ==
    IF t \notin DOMAIN s.complex THEN [n EXCEPT !.attrs = <<>>]
    ELSE [n EXCEPT !.children = [i \in DOMAIN @ |->
             IF @[i].name \in NamesOf(Particles(s, t))
             THEN Bare(s, @[i], ByName(Particles(s, t), @[i].name).type) ELSE @[i]]]

\* A document that conforms has no problems, and one without problems conforms but for
\* attributes of simple-typed elements: Validate's one pass over the children, with the
\* last position seen and the counts by name, accepts the language of the content model
\* and the value spaces of the simple types.  No type declares a name twice.
ValidateExact ==
    LET type == IF bound.struct = "peer" THEN gate.elements[bound.type] ELSE bound.type IN
    problems # NoReport =>
        /\ doc.ns = gate.ns /\ Conforms(gate, doc, type, TRUE) => problems = {}
        /\ problems = {} => doc.ns = gate.ns /\ Conforms(gate, Bare(gate, doc, type), type, TRUE)

\* Fields encoding/xml writes otherwise than CheckStruct reads them: an integer as
\* character data and a tagged embedded struct, both named by checkChildIntegers'
\* comment, and an element named by its type instead of by its field.
Unreached(f) ==
    \/ Mode(f) = "chardata" /\ f.type.kind = "int"
    \/ f.embedded /\ (f.tag # "" \/ f.options # {})
    \/ ~f.embedded /\ WireName(f) # (IF f.tag = "" THEN f.name ELSE f.tag)

\* The struct, and those of its fields, at any depth.
RECURSIVE Parts(_)
Parts(structs) ==
    LET more == structs \cup {f.type.name : f \in {g \in UNION {Range(Structs[n]) : n \in structs} :
                                                    g.type.kind = "struct"}} IN
    IF more = structs THEN structs ELSE Parts(more)

Reached(struct) == \A n \in Parts({struct}) : \A f \in Range(Structs[n]) : ~Unreached(f)

\* A struct definition CheckStruct has no complaint about, all of whose fields it
\* reaches, never marshals to a document whose elements are out of order, misplaced or
\* unknown at its own level, nor, at any depth, to an integer outside its schema type,
\* whatever values its fields hold: what CheckStruct's comment promises over validating
\* samples.
StructCheckPrevents ==
    report = {} /\ problems # NoReport /\ Reached(bound.struct) =>
        \A p \in problems :
            /\ Len(p.path) = 2 =>
                   p.kind \notin {"order", "placement", "unknown-element", "unknown-attribute"}
            /\ p.kind = "lexical" /\ p.int => p.builtin \notin DOMAIN IntWidths

\* The gate is never disarmed by accident: a test skips only when nobody asked for the
\* schema, no path was configured, and no file was found when the process first looked;
\* and it passes only on the expected document, or on one it parsed itself.
GateNeverDisarmed ==
    /\ outcome = "skip" => /\ files.required \in {"", "0"} /\ files.path = "unset"
                           /\ once.state = "ErrNotFound"
    /\ outcome = "pass" =>
           \/ once = NotRun
           \/ once.state = "ok" /\ gate = ParseSchema(SepXSD) /\ files.path \in {"unset", "sep"}
================================================================================
