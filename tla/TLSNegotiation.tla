----------------------------- MODULE TLSNegotiation -----------------------------
(***************************************************************************)
(* What the two sides of a TLS 1.0-1.2 handshake choose and accept, as     *)
(* functions of a gotls.Config and of the peer's hello                     *)
(* (pkg/sep2tls/gotls: common.go, cipher_suites*.go, auth.go,              *)
(* key_agreement.go; pkg/sep2tls: verify.go and the CCM configurations).   *)
(*                                                                         *)
(* Suites, curves, keys and names are tokens.  A signature scheme is the   *)
(* key family it needs; a certificate chain is its leaf and its issuer.    *)
(* Config callbacks other than VerifyPeerCertificate are unset, as they    *)
(* are in every configuration of the repository.                           *)
(***************************************************************************)
EXTENDS Naturals, Sequences

Elems(s) == {s[i] : i \in DOMAIN s}

\* The first element of s that is in S, or none.
First(s, S, none) ==
    IF Elems(s) \cap S = {} THEN none
    ELSE s[CHOOSE i \in DOMAIN s : s[i] \in S /\ \A j \in 1 .. (i - 1) : s[j] \notin S]

--------------------------------------------------------------------------------
(* Tables *)

\* One suite stands for each class that the code tells apart: by its flags, by
\* whether it is a default and by its rank.  Only the classes that
\* disabledCipherSuites names are left out.
\* hasAESGCMHardwareSupport is false in this build (stubs/cpu), so the other
\* order is never used.
cipherSuitesPreferenceOrderNoAES ==
    <<"CHACHA_EC", "GCM_EC", "GCM_RSA", "CBC_EC", "CBC_RSA", "RSA_GCM", "RSA_CBC">>

\* The init() of cipher_suites_ccm.go puts CCM_8 in front.
PreferenceOrder == <<"CCM8">> \o cipherSuitesPreferenceOrderNoAES
Suites == Elems(PreferenceOrder)

\* The suites with the static RSA key exchange.
rsaKexCiphers == {"RSA_GCM", "RSA_CBC"}

suiteECDHE  == Suites \ rsaKexCiphers
suiteECSign == {"CCM8", "CHACHA_EC", "GCM_EC", "CBC_EC"}
suiteTLS12  == {"CCM8", "CHACHA_EC", "GCM_EC", "GCM_RSA", "RSA_GCM"}

\* Built by init() in cipher_suites.go, which runs before the init() that
\* registers CCM_8, and without the static RSA suites.
defaultCipherSuites == Suites \ ({"CCM8"} \cup rsaKexCiphers)

defaultCurvePreferences == <<"X25519", "P256", "P384", "P521">>

Keys == {"P256", "P384", "ed25519", "rsa"}

NoCert == [id |-> "none"]

CertType ==
    [id : STRING, key : Keys, issuer : STRING, names : SUBSET STRING,
     san : {"plain", "hmn", "mixed"}, usage : SUBSET {"client", "server"},
     notAfter : Nat, staple : BOOLEAN]

ConfigType ==
    [min : {0, 10, 11, 12}, max : {10, 11, 12}, suites : SUBSET Suites,
     curves : Seq(STRING), protos : Seq(STRING), tickets : BOOLEAN,
     cache : BOOLEAN, auth : 0 .. 4, roots : SUBSET STRING, hook : BOOLEAN,
     skipVerify : BOOLEAN, name : STRING, certs : Seq(CertType)]

--------------------------------------------------------------------------------
(* Config: versions, suites, curves *)

\* The versions a configuration allows; an unset MinVersion means TLS 1.2.
Allowed(cfg) ==
    {v \in {10, 11, 12} : v <= cfg.max /\ v >= (IF cfg.min = 0 THEN 12 ELSE cfg.min)}

\* The versions of S in the order of the table: the newest first.
Newest(S) ==
    LET only(v) == IF v \in S THEN <<v>> ELSE <<>>
    IN only(12) \o only(11) \o only(10)

supportedVersions(cfg) == Newest(Allowed(cfg))

maxSupportedVersion(cfg) ==
    IF supportedVersions(cfg) = <<>> THEN 0 ELSE supportedVersions(cfg)[1]

\* In the peer's order; 0 when there is none.
mutualVersion(cfg, peerVersions) == First(peerVersions, Allowed(cfg), 0)

\* What a hello offers: its supported_versions, or all up to its version field.
helloVersions(hello) ==
    IF hello.versions # <<>> THEN hello.versions
    ELSE Newest({v \in {10, 11, 12} : v <= hello.vers})

\* A nil list means the default; the model writes nil as {}.
cipherSuites(cfg) == IF cfg.suites = {} THEN defaultCipherSuites ELSE cfg.suites

curvePreferences(cfg) ==
    IF cfg.curves = <<>> THEN defaultCurvePreferences ELSE cfg.curves

supportsCurve(cfg, curve) == curve \in Elems(curvePreferences(cfg))

\* No point formats extension, or one that has the uncompressed format.
supportsECDHE(cfg, curves, points) ==
    /\ \E c \in Elems(curves) : supportsCurve(cfg, c)
    /\ points \in {"none", "uncompressed"}

requiresClientCert(cfg) == cfg.auth \in {2, 4}   \* RequireAny, RequireAndVerify

\* The names that may go into the SNI extension: an IP address may not.
hostnameInSNI(name) == IF name = "192.0.2.1" THEN "" ELSE name

--------------------------------------------------------------------------------
(* Signatures and certificates *)

Family(key) == IF key \in {"P256", "P384"} THEN "ecdsa" ELSE key
supportedSignatureAlgorithms == {"ecdsa", "rsa", "ed25519"}

\* selectSignatureScheme: whether some scheme of the peer fits the key.
CanSign(vers, cert, peerAlgs) ==
    Family(cert.key) \in IF peerAlgs = {} /\ vers = 12 THEN {"rsa", "ecdsa"} ELSE peerAlgs

\* The key exchange parameters can be signed: by a negotiated scheme from
\* TLS 1.2 on, by any key but Ed25519 before.
CanSignKeyExchange(vers, cert, peerAlgs) ==
    IF vers >= 12 THEN CanSign(vers, cert, peerAlgs)
                  ELSE Family(cert.key) # "ed25519"

\* The suites of hello that a certificate can serve at this version.
suiteOkForCert(suite, vers, cert) ==
    /\ suite \in suiteECDHE
    /\ suite \in suiteECSign <=> Family(cert.key) # "rsa"
    /\ vers < 12 => suite \notin suiteTLS12

\* ClientHelloInfo.SupportsCertificate
HelloSupportsCertificate(cfg, hello, cert) ==
    LET vers == mutualVersion(cfg, helloVersions(hello))
        mutual == Elems(hello.suites) \cap cipherSuites(cfg)
        rsaFallback == /\ cert.key = "rsa"
                       /\ \E s \in mutual \ suiteECDHE : vers < 12 => s \notin suiteTLS12
        ecdhe == supportsECDHE(cfg, hello.curves, hello.points)
        curveOk == Family(cert.key) = "ecdsa" =>
                       cert.key \in Elems(hello.curves) /\ supportsCurve(cfg, cert.key)
        edOk == cert.key = "ed25519" => vers >= 12 /\ hello.sigAlgs # {}
        suiteOk == \E s \in mutual : suiteOkForCert(s, vers, cert)
    IN /\ vers # 0
       /\ hello.sni # "" => hello.sni \in cert.names
       /\ \/ /\ hello.sigAlgs # {} => CanSign(vers, cert, hello.sigAlgs)
             /\ ecdhe /\ curveOk /\ edOk /\ suiteOk
          \/ rsaFallback

\* Config.getCertificate: the only certificate, or the first that the client
\* supports, or the first.
getCertificate(cfg, hello) ==
    LET good == {i \in DOMAIN cfg.certs : HelloSupportsCertificate(cfg, hello, cfg.certs[i])}
    IN IF cfg.certs = <<>> THEN NoCert
       ELSE IF Len(cfg.certs) = 1 \/ good = {} THEN cfg.certs[1]
       ELSE cfg.certs[CHOOSE i \in good : \A j \in good : i <= j]

\* certificateRequestInfoFromMsg: before TLS 1.2 the schemes follow from the
\* certificate types, of which gotls servers send both.
RequestedFamilies(vers, req) == IF vers >= 12 THEN req.sigAlgs ELSE {"ecdsa", "rsa"}

\* CertificateRequestInfo.SupportsCertificate
RequestSupportsCertificate(vers, req, cert) ==
    /\ CanSign(vers, cert, RequestedFamilies(vers, req))
    /\ req.cas = {} \/ cert.issuer \in req.cas

getClientCertificate(cfg, vers, req) ==
    LET good == {i \in DOMAIN cfg.certs : RequestSupportsCertificate(vers, req, cfg.certs[i])}
    IN IF good = {} THEN NoCert
       ELSE cfg.certs[CHOOSE i \in good : \A j \in good : i <= j]

(* x509.Certificate.Verify: external, as the two sides use it. *)
Verifies(cert, roots, purpose, day) ==
    /\ cert.issuer \in roots
    /\ purpose \in cert.usage
    /\ day <= cert.notAfter
    /\ cert.san = "plain"          \* no unhandled critical extension

\* AcknowledgeHardwareModuleSAN: a critical SAN that is nothing but
\* HardwareModuleNames counts as handled.
AcknowledgeHardwareModuleSAN(cert) ==
    IF cert.san = "hmn" THEN [cert EXCEPT !.san = "plain"] ELSE cert

\* The VerifyPeerCertificate hook of the CCM server.
VerifyPeerCertWithHardwareModuleSAN(cert, roots, day) ==
    /\ cert # NoCert
    /\ Verifies(AcknowledgeHardwareModuleSAN(cert), roots, "client", day)

HookAccepts(cfg, cert, day) ==
    cfg.hook => VerifyPeerCertWithHardwareModuleSAN(cert, cfg.roots, day)

\* processCertsFromClient
ClientCertAccepted(cfg, cert, day) ==
    /\ requiresClientCert(cfg) => cert # NoCert
    /\ cfg.auth >= 3 /\ cert # NoCert => Verifies(cert, cfg.roots, "client", day)
    /\ HookAccepts(cfg, cert, day)

\* verifyServerCertificate; VerifyHostname checks the full ServerName.
ServerCertAccepted(cfg, cert, day) ==
    \/ cfg.skipVerify
    \/ Verifies(cert, cfg.roots, "server", day) /\ cfg.name \in cert.names

--------------------------------------------------------------------------------
(* ALPN *)

\* "" when either side has no list, or for an http/1.1 client of an h2 server.
negotiateALPN(serverProtos, clientProtos) ==
    IF serverProtos = <<>> \/ clientProtos = <<>> THEN ""
    ELSE First(serverProtos, Elems(clientProtos),
               IF "h2" \in Elems(serverProtos) /\ "http/1.1" \in Elems(clientProtos)
               THEN "" ELSE "refused")

checkALPN(clientProtos, proto) == proto = "" \/ proto \in Elems(clientProtos)

--------------------------------------------------------------------------------
(* Cipher suite *)

\* makeClientHello: the configured suites in preference order, without the
\* TLS 1.2 ones when TLS 1.2 is not attempted.
offeredSuites(cfg) ==
    SelectSeq(PreferenceOrder,
              LAMBDA s : s \in cipherSuites(cfg)
                         /\ (maxSupportedVersion(cfg) < 12 => s \notin suiteTLS12))

\* serverHandshakeState.cipherSuiteOk
cipherSuiteOk(cfg, vers, cert, hello, suite) ==
    /\ IF suite \in suiteECDHE
       THEN /\ supportsECDHE(cfg, hello.curves, hello.points)
            /\ suite \in suiteECSign <=> Family(cert.key) # "rsa"
       ELSE cert.key = "rsa"
    /\ vers < 12 => suite \notin suiteTLS12

\* serverHandshakeState.pickCipherSuite: the server's order decides.
pickCipherSuite(cfg, vers, cert, hello) ==
    First(PreferenceOrder,
          {s \in Elems(hello.suites) \cap cipherSuites(cfg) :
              cipherSuiteOk(cfg, vers, cert, hello, s)}, "refused")

\* TLS_FALLBACK_SCSV from a client that could have offered more.
InappropriateFallback(cfg, hello) ==
    "SCSV" \in Elems(hello.suites) /\ hello.vers < maxSupportedVersion(cfg)

--------------------------------------------------------------------------------
(* The CCM configurations *)

\* Mutant: a CCM server that lets clients resume.
CCMServerWithTickets(cert, roots) ==
    [min |-> 12, max |-> 12, suites |-> {"CCM8"}, curves |-> <<"P256">>,
     protos |-> <<>>, tickets |-> TRUE, cache |-> FALSE, auth |-> 2,
     roots |-> roots, hook |-> TRUE, skipVerify |-> FALSE, name |-> "",
     certs |-> <<cert>>]

\* newCCMServerConfigFromMaterial
CCMServer(cert, roots) ==
    [min |-> 12, max |-> 12, suites |-> {"CCM8"}, curves |-> <<"P256">>,
     protos |-> <<>>, tickets |-> FALSE, cache |-> FALSE, auth |-> 2,
     roots |-> roots, hook |-> TRUE, skipVerify |-> FALSE, name |-> "",
     certs |-> <<cert>>]

\* newCCMClientConfigFromMaterial; Dial sets the server's name.
CCMClient(cert, roots, name) ==
    [min |-> 12, max |-> 12, suites |-> {"CCM8"}, curves |-> <<"P256">>,
     protos |-> <<>>, tickets |-> TRUE, cache |-> FALSE, auth |-> 0,
     roots |-> roots, hook |-> FALSE, skipVerify |-> FALSE, name |-> name,
     certs |-> <<cert>>]
================================================================================
