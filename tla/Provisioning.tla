------------------------------ MODULE Provisioning ------------------------------
(***************************************************************************)
(* Certificates from generation to use (pkg/sep2cert, and verify.go,       *)
(* identity.go and client_cas.go of pkg/sep2tls): an operator generates or *)
(* brings a CA, LoadCA accepts or refuses the pair, certificates are       *)
(* issued under it, and a server whose pool LoadClientCAs built verifies   *)
(* the chain a peer shows, while the clock runs: nothing, bytes that are   *)
(* no certificate, the leaf, or the leaf with its CA as an intermediate.   *)
(* Longer chains are left out.                                             *)
(*                                                                         *)
(* A certificate is the record of the fields some check reads.  Signatures *)
(* are perfect: what verifies under a key was signed with it.              *)
(***************************************************************************)
EXTENDS Integers, Sequences, FiniteSets, SequencesExt

CONSTANTS
    Imports,     \* CA pairs an operator may bring, see CAPair
    Leaves,      \* subject alternative names of leaves issued by other tools
    Files,       \* what LoadClientCAs may find in a file
    Margins,     \* values of ValidateCAOptions.MinRemaining
    Years,       \* values of ValidYears; 0 means maxValidity
    Prints,      \* SHA-256 fingerprints, as sequences of nibbles
    Skew,        \* one minute, by which NotBefore is set back
    MaxTime      \* bound: instants of the clock

Forever == MaxTime + 10      \* maxValidity

\* General names of a subject alternative name.
Names == {"hmn", "badHMN", "otherName", "dns"}

CACert ==
    [key : [alg : {"P256", "P384", "rsa"}, id : STRING], signer : STRING, isCA : BOOLEAN,
     usage : {"certSign", "other", "absent"}, eku : SUBSET {"client", "server", "any"},
     unknownEKU : BOOLEAN, critical : BOOLEAN, notBefore : Int, notAfter : Int]

ASSUME ProvisioningAssumption ==
    /\ \A p \in Imports : p.cert \in CACert /\ p.key \in [alg : {"P256", "P384", "rsa"}, id : STRING]
    /\ Leaves \subseteq Seq(Names)
    /\ Files \subseteq {"", "missing", "noCerts", "root", "ca"}
    /\ Margins \subseteq Nat /\ Years \subseteq Nat
    /\ Prints \subseteq [1 .. 64 -> 0 .. 15]
    /\ Skew \in Nat \ {0} /\ MaxTime \in Nat

VARIABLES
    now,     \* time.Now
    ca,      \* the CA pair in the operator's files, or NoPair
    made,    \* the pair came from GenerateCA
    load,    \* the last LoadCA of this pair: its options and what it returned
    leaf,    \* the certificate issued last, or NoLeaf
    pool,    \* what LoadClientCAs returned: trust anchors, or its error
    verdict  \* what VerifyPeerCertWithHardwareModuleSAN said of the leaf, and when

vars == <<now, ca, made, load, leaf, pool, verdict>>

NoKey  == [alg |-> "rsa", id |-> "none"]
NoPair == [cert |-> [key |-> NoKey], key |-> NoKey]
NoLeaf == [kind |-> "none"]
NoLoad == [result |-> "none", at |-> 0, margin |-> 0, selfSigned |-> FALSE]
NoVerdict == [result |-> "none", at |-> 0, shown |-> <<>>, lfdi |-> <<>>, sfdi |-> <<>>]

Init ==
    /\ now = 0
    /\ ca = NoPair /\ made = FALSE
    /\ load = NoLoad
    /\ leaf = NoLeaf
    /\ pool = [ok |-> FALSE, anchors |-> {}]
    /\ verdict = NoVerdict

--------------------------------------------------------------------------------
(* sep2cert: generation *)

NotAfter(years) == IF years > 0 THEN now + years ELSE Forever

OwnKey == [alg |-> "P256", id |-> "ca"]

GenerateCA(years) ==
    LET cert == [key |-> OwnKey, signer |-> "ca", isCA |-> TRUE, usage |-> "certSign", eku |-> {},
                 unknownEKU |-> FALSE, critical |-> FALSE, notBefore |-> now - Skew,
                 notAfter |-> NotAfter(years)] IN
    /\ ca = NoPair
    /\ ca' = [cert |-> cert, key |-> OwnKey] /\ made' = TRUE /\ load' = NoLoad
    /\ UNCHANGED <<now, leaf, pool, verdict>>

\* An operator's own pair.
ImportCA(pair) ==
    /\ ca = NoPair
    /\ ca' = pair /\ made' = FALSE /\ load' = NoLoad
    /\ UNCHANGED <<now, leaf, pool, verdict>>

\* buildCriticalSAN: a critical extension of these names, possibly of none.
CriticalSAN(names) ==
    [present |-> TRUE, critical |-> TRUE, names |-> names, hwType |-> "", serial |-> ""]

\* buildHardwareModuleNameSAN: a nil hwType becomes OIDIeee20305.
HardwareModuleSAN(names, hwType, serial) ==
    [CriticalSAN(names) EXCEPT !.hwType = IF hwType = "" THEN "ieee20305" ELSE hwType,
                               !.serial = serial]
NoSAN == [present |-> FALSE]

Leaf(kind, san, eku, notAfter) ==
    [kind |-> kind, signer |-> ca.key.id, san |-> san, eku |-> eku, notBefore |-> now - Skew,
     notAfter |-> notAfter]

\* x509.CreateCertificate refuses a key that is not the parent's.
Issues(l) ==
    /\ load.result = "nil" /\ leaf = NoLeaf
    /\ ca.key = ca.cert.key
    /\ leaf' = l
    /\ UNCHANGED <<now, ca, made, load, pool, verdict>>

\* No serial number, no certificate.
GenerateDeviceCert(hwType, serial) ==
    /\ serial # ""
    /\ Issues(Leaf("device", HardwareModuleSAN(<<"hmn">>, hwType, serial), {"client"}, Forever))

GenerateServerCert(hosts, years) ==
    Issues(Leaf("server", CriticalSAN(hosts), {"server", "client"}, NotAfter(years)))

GenerateAdminCert(years) == Issues(Leaf("admin", NoSAN, {"client"}, NotAfter(years)))

\* A self-signed certificate for the HTTPS admin page; no peer of the CA signed it.
GenerateSelfSignedTLS ==
    Issues([Leaf("selfSigned", [CriticalSAN(<<"dns">>) EXCEPT !.critical = FALSE],
                 {"server"}, now + 1) EXCEPT !.signer = "itself"])

\* A device certificate of another manufacturer's tool under the same CA.
ForeignLeaf(names) ==
    Issues(Leaf("foreign", HardwareModuleSAN(names, "vendor", "sn"), {"client"}, Forever))

--------------------------------------------------------------------------------
(* sep2cert: ValidateCA, ParseCAPair, LoadCA *)

\* Mutant: the last instant of the validity counts as expired.
ExpiredInclusive(c, t) == t >= c.notAfter

Expired(c, t) == t > c.notAfter

\* Mutant: one instant less than the required validity will do.
TooLittleLeftByOne(c, t, margin) == margin > 0 /\ c.notAfter - t < margin - 1

TooLittleLeft(c, t, margin) == margin > 0 /\ c.notAfter - t < margin

\* The checks of validateCA in order: each with the error it returns.
Checks(c, k, t, margin, selfSigned) ==
    << <<"ErrCAKeyType", c.key.alg = "rsa">>,
       <<"ErrCAKeyMismatch", k # c.key>>,
       <<"ErrCACurve", k.alg # "P256">>,
       <<"ErrCANotCA", ~c.isCA>>,
       <<"ErrCAKeyUsage", c.usage # "certSign">>,
       <<"ErrCACriticalExtension", c.critical>>,
       <<"ErrCAExtKeyUsage", (c.eku # {} \/ c.unknownEKU) /\ c.eku \cap {"client", "any"} = {}>>,
       <<"ErrCANotYetValid", t < c.notBefore>>,
       <<"ErrCAExpired", Expired(c, t)>>,
       <<"ErrCAExpiringSoon", TooLittleLeft(c, t, margin)>>,
       <<"ErrCANotSelfSigned", selfSigned /\ c.signer # c.key.id>> >>

FirstFailing(checks) ==
    LET failing == {i \in DOMAIN checks : checks[i][2]} IN
    IF failing = {} THEN "nil" ELSE checks[CHOOSE i \in failing : \A j \in failing : i <= j][1]

\* ParseKeyPEM refuses what is not an ECDSA key before the pair is looked at.
ParseCAPair(pair, t, margin, selfSigned) ==
    IF pair.key.alg = "rsa" THEN "parse"
    ELSE FirstFailing(Checks(pair.cert, pair.key, t, margin, selfSigned))

\* With no options, the time of the call, no margin and any issuer.
LoadCA(opts) ==
    LET o == IF opts = <<>> THEN [at |-> now, margin |-> 0, selfSigned |-> FALSE] ELSE opts[1]
        result == IF Len(opts) > 1 THEN "ErrLoadCATooManyOptions"
                  ELSE IF ca = NoPair THEN "read"
                  ELSE ParseCAPair(ca, o.at, o.margin, o.selfSigned) IN
    /\ leaf = NoLeaf /\ verdict = NoVerdict
    /\ load' = [result |-> result, at |-> o.at, margin |-> o.margin, selfSigned |-> o.selfSigned]
    /\ UNCHANGED <<now, ca, made, leaf, pool, verdict>>

--------------------------------------------------------------------------------
(* sep2tls: LFDI and SFDI of a fingerprint *)

\* The leading 36 bits, beyond TLC's integers: the first twenty of them and the others.
High(fp) == fp[1] * 65536 + fp[2] * 4096 + fp[3] * 256 + fp[4] * 16 + fp[5]
Low(fp) == fp[6] * 4096 + fp[7] * 256 + fp[8] * 16 + fp[9]

\* High * 2^16 + Low in eleven decimal digits: seven of one part, four of the other.
Decimal(fp) ==
    LET tens == <<1000000, 100000, 10000, 1000, 100, 10, 1>>
        lower == (High(fp) % 10000) * 65536 + Low(fp)
        upper == (High(fp) \div 10000) * 65536 + lower \div 10000
    IN [i \in 1 .. 11 |-> IF i <= 7 THEN (upper \div tens[i]) % 10 ELSE (lower \div tens[i - 4]) % 10]

\* The sum of the eleven digits before the check digit.
SumOf(s) == s[1] + s[2] + s[3] + s[4] + s[5] + s[6] + s[7] + s[8] + s[9] + s[10] + s[11]

sfdiFromHash(fp) == Append(Decimal(fp), (10 - (SumOf(Decimal(fp)) % 10)) % 10)

LFDI(fp) == SubSeq(fp, 1, 40)
SFDI(fp) == sfdiFromHash(fp)

\* The five leading bytes of the LFDI, and zeros for what it does not hold.
SFDIFromLFDI(lfdi) ==
    IF Len(lfdi) = 40 /\ \A i \in DOMAIN lfdi : lfdi[i] \in 0 .. 15
    THEN sfdiFromHash(SubSeq(lfdi, 1, 10) \o [i \in 1 .. 54 |-> 0])
    ELSE <<>>

ValidateSFDI(s) ==
    Len(s) = 12 /\ (\A i \in DOMAIN s : s[i] \in 0 .. 9) /\ (SumOf(s) + s[12]) % 10 = 0

--------------------------------------------------------------------------------
(* sep2tls: LoadClientCAs and the verification hook *)

\* appendPEMFile: the anchors a file adds, the CA's own certificate or that of the root
\* some CAs are signed by, or nothing when it fails.
Readable(f) == f \in {"ca", "root"}

LoadClientCAs(primary, extras) ==
    LET named == {f \in extras : f # ""} \cup {primary} IN
    /\ ca # NoPair /\ verdict = NoVerdict /\ ~pool.ok
    /\ pool' = IF \A f \in named : Readable(f) THEN [ok |-> TRUE, anchors |-> named]
               ELSE [ok |-> FALSE, anchors |-> {}]
    /\ UNCHANGED <<now, ca, made, load, leaf, verdict>>

\* SANAllOtherNamesAreHardwareModuleName
AllHMN(san) ==
    san.present /\ san.names # <<>> /\ \A i \in DOMAIN san.names : san.names[i] = "hmn"

\* ExtractHardwareModuleName: the first name that is one, unless a malformed one
\* comes before it.
HMNs(san) == {i \in DOMAIN san.names : san.names[i] \in {"hmn", "badHMN"}}
Extract(san) ==
    IF san.present /\ \E i \in HMNs(san) : san.names[i] = "hmn" /\ \A j \in HMNs(san) : i <= j
    THEN [ok |-> TRUE, hwType |-> san.hwType, serial |-> san.serial] ELSE [ok |-> FALSE]

\* x509's parser lists a critical SAN none of whose names it understands.
Unhandled(l) ==
    IF l.san.present /\ l.san.critical /\ \A i \in DOMAIN l.san.names : l.san.names[i] # "dns"
    THEN {"SAN"} ELSE {}

\* Mutant: one HardwareModuleName is enough.
AcknowledgedByOne(l) == IF Extract(l.san).ok THEN Unhandled(l) \ {"SAN"} ELSE Unhandled(l)

\* AcknowledgeHardwareModuleSAN
Acknowledged(l) == IF AllHMN(l.san) THEN Unhandled(l) \ {"SAN"} ELSE Unhandled(l)

\* Certificate.Verify for client authentication of a leaf under the CA: both inside
\* their validity, nothing critical unhandled, the CA able to sign and its extended
\* key usage, when it has one, not excluding clients.
Usable(eku, unknown) == (eku = {} /\ ~unknown) \/ eku \cap {"client", "any"} # {}

CAVerifies(c, t) ==
    /\ c.isCA /\ c.usage # "other" /\ ~c.critical
    /\ c.notBefore <= t /\ t <= c.notAfter
    /\ Usable(c.eku, c.unknownEKU)

\* What a peer may send as its certificates, by what x509 makes of each.
Chains == {<<>>, <<"bad">>, <<"leaf">>, <<"leaf", "bad">>, <<"leaf", "ca">>}

\* The leaf's issuer is an anchor, or is shown and signed by one; the root is good.
Anchored(chain, anchors) ==
    \/ "ca" \in anchors
    \/ "root" \in anchors /\ ca.cert.signer = "root" /\ "ca" \in Range(Tail(chain))

Verifies(l, chain, anchors, t) ==
    /\ Anchored(chain, anchors) /\ CAVerifies(ca.cert, t)
    /\ l.signer = ca.cert.key.id
    /\ l.notBefore <= t /\ t <= l.notAfter
    /\ "client" \in l.eku

\* The hook, and the identifiers the server takes from the certificate when it is
\* accepted; fp is the leaf's fingerprint.
VerifyPeer(chain, fp) ==
    LET ok == /\ chain # <<>> /\ "bad" \notin Range(chain)
              /\ Acknowledged(leaf) = {} /\ Verifies(leaf, chain, pool.anchors, now) IN
    /\ leaf # NoLeaf /\ pool.ok /\ verdict = NoVerdict
    /\ verdict' = [result |-> IF ok THEN "ok" ELSE "refused", at |-> now, shown |-> chain,
                   lfdi |-> IF ok THEN LFDI(fp) ELSE <<>>, sfdi |-> IF ok THEN SFDI(fp) ELSE <<>>]
    /\ UNCHANGED <<now, ca, made, load, leaf, pool>>

--------------------------------------------------------------------------------
Tick ==
    /\ now < MaxTime
    /\ now' = now + 1
    /\ UNCHANGED <<ca, made, load, leaf, pool, verdict>>

Next ==
    \/ Tick
    \/ \E y \in Years : GenerateCA(y)
    \/ \E p \in Imports : ImportCA(p)
    \/ LoadCA(<<>>)
    \/ \E o \in [at : 0 .. MaxTime, margin : Margins, selfSigned : BOOLEAN], n \in 1 .. 2 :
           LoadCA([i \in 1 .. n |-> o])
    \/ \E h \in {"", "vendor"}, s \in {"", "sn"} : GenerateDeviceCert(h, s)
    \/ \E hosts \in {<<>>, <<"dns">>}, y \in Years : GenerateServerCert(hosts, y)
    \/ \E y \in Years : GenerateAdminCert(y)
    \/ GenerateSelfSignedTLS
    \/ \E names \in Leaves : ForeignLeaf(names)
    \/ \E p \in Files, e \in SUBSET Files : LoadClientCAs(p, e)
    \/ \E chain \in Chains, fp \in Prints : VerifyPeer(chain, fp)

Spec == Init /\ [][Next]_vars

--------------------------------------------------------------------------------
(* Properties *)

\* A CA that LoadCA accepted with a required remaining validity serves for that
\* long: every device certificate issued under it passes the verification hook at
\* every instant from the one it was judged at to the end of that validity, both
\* ends included, before a pool that holds the CA, or the root that signed it when
\* the device shows the CA with its own certificate.
AcceptedCAServes ==
    /\ load.result = "nil" /\ leaf # NoLeaf /\ leaf.kind = "device"
    /\ \/ verdict.shown \in {<<"leaf">>, <<"leaf", "ca">>} /\ "ca" \in pool.anchors
       \/ verdict.shown = <<"leaf", "ca">> /\ ca.cert.signer = "root" /\ "root" \in pool.anchors
    /\ load.at <= verdict.at /\ verdict.at <= load.at + load.margin
    => verdict.result # "refused"

\* Where ValidateCA is stricter than the chain walk, which reads none of this: the key
\* is the certificate's own and on P-256, a key usage is there, and a CA asked to be
\* self-signed is.
StricterThanWalk(pair, selfSigned) ==
    \/ pair.key # pair.cert.key \/ pair.key.alg # "P256"
    \/ pair.cert.usage = "absent"
    \/ selfSigned /\ pair.cert.signer # pair.cert.key.id

\* A pair that was read is accepted when the chain walk would accept its CA at the
\* instant asked about and at the end of the required validity, unless one of the
\* stricter rules refuses it, and is refused otherwise.  The CA GenerateCA makes is
\* refused for its validity alone.
RefusedForCause ==
    load.result \notin {"none", "read", "ErrLoadCATooManyOptions"} =>
        /\ load.result = "nil" <=>
              /\ CAVerifies(ca.cert, load.at) /\ CAVerifies(ca.cert, load.at + load.margin)
              /\ ~StricterThanWalk(ca, load.selfSigned)
        /\ made /\ load.result # "nil" =>
              load.at < ca.cert.notBefore \/ load.at + load.margin > ca.cert.notAfter

\* The checks at load time predict the chain walk at run time: a CA is accepted only if
\* it serves, and refused only if the walk would refuse it too or for one of the rules
\* in which ValidateCA is stricter than the walk.
CAJudgedExactly == AcceptedCAServes /\ RefusedForCause

\* Whoever passes the hook with a critical SAN x509 does not understand is a
\* device whose HardwareModuleName can be read back, the one it was issued with, and
\* whose short identifier is twelve digits that check, the same from its certificate
\* and from its long identifier.
VerifiedDeviceHasIdentity ==
    verdict.result = "ok" =>
        /\ Unhandled(leaf) # {} => Extract(leaf.san).ok /\ Range(leaf.san.names) = {"hmn"}
        /\ leaf.kind = "device" => Extract(leaf.san) =
               [ok |-> TRUE, hwType |-> leaf.san.hwType, serial |-> leaf.san.serial]
        /\ ValidateSFDI(verdict.sfdi) /\ SFDIFromLFDI(verdict.lfdi) = verdict.sfdi
================================================================================
