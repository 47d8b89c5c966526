------------------------------ MODULE Handshake12 ------------------------------
(***************************************************************************)
(* The TLS 1.0-1.2 handshake of pkg/sep2tls/gotls (handshake_client.go,    *)
(* handshake_server.go) between a client and a server, on one connection   *)
(* after another: session tickets, ticket keys and the client's session    *)
(* cache outlive a connection.  One action per message a side waits for.   *)
(*                                                                         *)
(* A side may also be Free: a peer that sends any record at any time.      *)
(*                                                                         *)
(* Cryptography is symbolic: a signature, a Finished value or a key is the *)
(* tuple of what it is computed from, and verifying is comparing.  A       *)
(* record is protected by a key and refused under any other.  Each record  *)
(* holds one message, as gotls writes them.                                *)
(***************************************************************************)
EXTENDS TLSNegotiation

CONSTANTS
    Setups,                        \* for each connection in turn, what it may be set
                                   \* up with, see SetupType; the servers have one set
                                   \* of ticket keys, as the Configs that one
                                   \* GetConfigForClient returns do
    Owned,                         \* ids of certificates whose key a Free side has
    MaxDay,                        \* bound: days that pass
    Lifetime, Rotation             \* ticketKeyLifetime (= maxSessionTicketLifetime)
                                   \* and ticketKeyRotation, in days

Sides == {"client", "server"}
Peer(s) == IF s = "client" THEN "server" ELSE "client"

\* The two configurations, and the sides that need not follow the protocol.
SetupType == [client : ConfigType, server : ConfigType, free : SUBSET Sides]

AllSetups == UNION Elems(Setups)
MaxConns == Len(Setups)

ASSUME HandshakeAssumption ==
    /\ MaxDay \in Nat \ {0} /\ Lifetime \in Nat /\ Rotation \in Nat \ {0}
    \* one entry of the cache is modelled: its key is the server's name
    /\ \A u, v \in AllSetups :
          u.client.cache /\ v.client.cache => u.client.name = v.client.name
    /\ Setups \in Seq(SUBSET SetupType) /\ Setups # <<>>
    \* nothing else sets VerifyPeerCertificate
    /\ \A u \in AllSetups :
          u.server.hook => u.server = CCMServer(u.server.certs[1], u.server.roots)

VARIABLES
    n,        \* number of the current connection; 0 before the first
    cfg,      \* the configuration of each side and the Free sides, from Setups
    pc,       \* the message each side waits for
    hs,       \* the handshake state of each side, see Blank
    wire,     \* records on their way to each side
    open,     \* whether each side's end of the connection is open
    buffering,\* c.buffering of each side
    end,      \* history: how each side's handshake ended
    cut,      \* history: the network broke the connection
    day,      \* the clock
    keys,     \* autoSessionTicketKeys: creation days, newest first
    cache     \* the client's session cache for this server name

vars == <<n, cfg, pc, hs, wire, open, buffering, end, cut, day, keys, cache>>

Free == cfg.free

NoKey == <<"plain">>
NoMsg == [t |-> "none"]
NoSession == [vers |-> 0]
NoTicket == [key |-> 0, state |-> NoSession]
NoEntry == [ticket |-> NoTicket, session |-> NoSession]

\* What Conn and the handshake states hold: negotiated parameters, the peer's
\* leaf certificate and whether it was verified, the own certificate in use and
\* whether the client was asked for one, the two hellos, the server's key share,
\* the transcript, the master secret, the session being resumed, the ticket
\* received, and the keys in and out with the ones the next ChangeCipherSpec
\* switches to.
Blank ==
    [vers |-> 0, suite |-> "none", alpn |-> "", ems |-> FALSE, didResume |-> FALSE,
     peer |-> NoCert, verified |-> FALSE, cert |-> NoCert, asked |-> FALSE,
     hello |-> NoMsg, serverHello |-> NoMsg, share |-> <<"none">>,
     tr |-> <<>>, secret |-> <<"none">>, sess |-> NoSession, ticket |-> NoTicket,
     in |-> NoKey, inNext |-> NoKey, out |-> NoKey, outNext |-> NoKey]

Waits == {"start", "hello", "cert", "status", "verify", "certReq", "helloDone", "ckx",
          "certVerify", "ticket", "ccs", "finished", "free", "ended"}

\* Every variable has its type.
TypeOK ==
    /\ n \in 0 .. MaxConns /\ day \in 1 .. MaxDay
    /\ pc \in [Sides -> Waits]
    /\ end \in [Sides -> {"none", "done", "refused", "alert", "eof", "error"}]
    /\ cfg \in AllSetups
    /\ open \in [Sides -> BOOLEAN] /\ buffering \in [Sides -> BOOLEAN]
    /\ cut \in BOOLEAN
    /\ \A s \in Sides :
          /\ DOMAIN hs[s] = DOMAIN Blank
          /\ hs[s].vers \in {0, 10, 11, 12} /\ hs[s].suite \in Suites \cup {"none"}
          /\ hs[s].alpn \in {""} \cup Elems(cfg["client"].protos)
    /\ \A s \in Sides : \A i \in DOMAIN wire[s] :
          wire[s][i].typ \in {"handshake", "ccs", "alert", "warning"}
    /\ Elems(keys) \subseteq 1 .. day
    /\ DOMAIN cache = DOMAIN NoEntry

Init ==
    /\ n = 0 /\ day = 1 /\ keys = <<>> /\ cache = NoEntry
    /\ cfg \in {CHOOSE u \in Setups[1] : u.free = f : f \in {v.free : v \in Setups[1]}}
    /\ pc = [s \in Sides |-> "ended"] /\ hs = [s \in Sides |-> Blank]
    /\ wire = [s \in Sides |-> <<>>] /\ open = [s \in Sides |-> FALSE]
    /\ buffering = [s \in Sides |-> FALSE]
    /\ end = [s \in Sides |-> "none"] /\ cut = FALSE

--------------------------------------------------------------------------------
(* Records, keys, transcripts *)

Rec(typ, key, m) == [typ |-> typ, key |-> key, m |-> m]
Records(key, msgs) == [i \in DOMAIN msgs |-> Rec("handshake", key, msgs[i])]

\* What a side that has been told to close, or a Free one, no longer reads.
Deliver(s, recs) == IF open[s] /\ s \notin Free THEN wire[s] \o recs ELSE wire[s]

\* extMasterFromPreMasterSecret, masterFromPreMasterSecret
Master(h, pms) ==
    IF h.serverHello.ems THEN <<"ems", pms, h.tr>>
    ELSE <<"ms", pms, h.hello.random, h.serverHello.random>>

\* keysFromMasterSecret and prepareCipherSpec: traffic sent by side `from`.
TrafficKey(from, h) == <<from, h.secret, h.hello.random, h.serverHello.random>>
establishKeys(s, h) ==
    [h EXCEPT !.inNext = TrafficKey(Peer(s), h), !.outNext = TrafficKey(s, h)]

\* clientSum and serverSum of the Finished hash.
VerifyData(from, h) == <<"finished", from, h.secret, h.tr>>

\* hashForClientCertificate, signed with the key of cert.
Signature(cert, tr) == <<"signature", cert.id, tr>>

\* A Free side's proof is good ("match") or not, see FreeMessages.
Proves(proof, expected) == proof = <<"match">> \/ proof = expected

\* Messages `pre`, ChangeCipherSpec and Finished: the state after and the records.
FinishedState(s, h, pre) ==
    LET h1 == [h EXCEPT !.tr = @ \o pre]
    IN [h1 EXCEPT !.tr = Append(@, [t |-> "finished", verify |-> VerifyData(s, h1)]),
                  !.out = h.outNext, !.outNext = NoKey]

\* Mutant: the client's Finished is not flushed.
FinishedRecordsUnflushed(s, h, pre) ==
    LET f == FinishedState(s, h, pre)
    IN IF s = "client" THEN <<>>
       ELSE Records(h.out, pre) \o <<Rec("ccs", h.out, NoMsg)>>
               \o <<Rec("handshake", f.out, f.tr[Len(f.tr)])>>

FinishedRecords(s, h, pre) ==
    LET f == FinishedState(s, h, pre)
    IN Records(h.out, pre) \o <<Rec("ccs", h.out, NoMsg)>>
          \o <<Rec("handshake", f.out, f.tr[Len(f.tr)])>>

--------------------------------------------------------------------------------
(* Steps of one side *)

Reading(s) == pc[s] \notin {"start", "free", "ended"} /\ wire[s] # <<>>
Incoming(s) == Head(wire[s])
Intact(s) == Incoming(s).key = hs[s].in
Msg(s) == Incoming(s).m

\* s has read a handshake message of type t where it waits for w.
Reads(s, W, t) ==
    /\ pc[s] \in W /\ Reading(s) /\ Intact(s)
    /\ Incoming(s).typ = "handshake" /\ Msg(s).t = t

\* s moves on to wait for w, having sent recs.
Advance(s, h, recs, w, buf) ==
    /\ hs' = [hs EXCEPT ![s] = h]
    /\ pc' = [pc EXCEPT ![s] = w]
    /\ wire' = [wire EXCEPT ![s] = IF @ = <<>> THEN @ ELSE Tail(@),
                            ![Peer(s)] = Deliver(Peer(s), recs)]
    /\ buffering' = [buffering EXCEPT ![s] = buf]
    /\ end' = [end EXCEPT ![s] = IF w = "ended" THEN "done" ELSE @]
    /\ UNCHANGED <<n, cfg, open, cut, day>>

\* The handshake function returns an error: what is buffered is flushed, and
\* the caller closes the connection.  A client that offered a session drops it.
Fails(s, why, recs) ==
    /\ pc' = [pc EXCEPT ![s] = "ended"]
    /\ end' = [end EXCEPT ![s] = why]
    /\ open' = [open EXCEPT ![s] = FALSE]
    /\ wire' = [wire EXCEPT ![s] = <<>>, ![Peer(s)] = Deliver(Peer(s), recs)]
    /\ cache' = IF s = "client" /\ hs[s].sess # NoSession THEN NoEntry ELSE cache
    /\ UNCHANGED <<n, cfg, hs, buffering, cut, day>>

\* Mutant: the alert left in the buffer is not flushed.
RefuseUnflushed(s, key, recs) ==
    Fails(s, "refused", IF buffering[s] THEN <<>> ELSE Append(recs, Rec("alert", key, NoMsg)))

\* sendAlert and return an error; key protects the alert, recs precede it.
Refuse(s, key, recs) == Fails(s, "refused", Append(recs, Rec("alert", key, NoMsg)))

RefuseMsg(s) == Refuse(s, hs[s].out, <<>>) /\ UNCHANGED keys

Stay == UNCHANGED <<keys, cache>>

--------------------------------------------------------------------------------
(* The record layer below both sides: readRecordOrCCS, readHandshake *)

Expected(s) ==
    CASE pc[s] = "hello" -> IF s = "server" THEN {"clientHello"} ELSE {"serverHello"}
      [] pc[s] = "cert" -> {"certificate"}
      [] pc[s] = "status" -> {"certificateStatus", "serverKeyExchange",
                              "certificateRequest", "serverHelloDone"}
      [] pc[s] = "verify" -> {"serverKeyExchange", "certificateRequest", "serverHelloDone"}
      [] pc[s] = "certReq" -> {"certificateRequest", "serverHelloDone"}
      [] pc[s] = "helloDone" -> {"serverHelloDone"}
      [] pc[s] = "ckx" -> {"clientKeyExchange"}
      [] pc[s] = "certVerify" -> {"certificateVerify"}
      [] pc[s] = "ticket" -> {"newSessionTicket"}
      [] pc[s] = "finished" -> {"finished"}
      [] OTHER -> {}

\* A record under another key (or of another version, too long, of no type), a
\* ChangeCipherSpec or a handshake message out of place, a wrong message.
RecordRefused(s) ==
    /\ Reading(s)
    /\ \/ ~Intact(s)
       \/ Incoming(s).typ = "ccs" /\ (pc[s] # "ccs" \/ hs[s].inNext = NoKey)
       \/ Incoming(s).typ = "handshake" /\ Msg(s).t \notin Expected(s)
    /\ RefuseMsg(s)

AlertReceived(s) ==
    /\ Reading(s) /\ Intact(s) /\ Incoming(s).typ = "alert"
    /\ Fails(s, "alert", <<>>) /\ UNCHANGED keys

\* retryReadRecord: dropped, but not more than maxUselessRecords in a row.  The
\* count is left out: any warning may be the one too many.
WarningDropped(s) ==
    /\ Reading(s) /\ Intact(s) /\ Incoming(s).typ = "warning"
    /\ \/ Advance(s, hs[s], <<>>, pc[s], buffering[s]) /\ Stay
       \/ RefuseMsg(s)

EndOfFile(s) ==
    /\ pc[s] \notin {"start", "free", "ended"} /\ wire[s] = <<>> /\ ~open[Peer(s)]
    /\ Fails(s, "eof", <<>>) /\ UNCHANGED keys

\* changeCipherSpec of the incoming half.
ReadChangeCipherSpec(s) ==
    /\ pc[s] = "ccs" /\ Reading(s) /\ Intact(s) /\ Incoming(s).typ = "ccs"
    /\ hs[s].inNext # NoKey
    /\ Advance(s, [hs[s] EXCEPT !.in = hs[s].inNext, !.inNext = NoKey], <<>>,
               "finished", buffering[s])
    /\ Stay

--------------------------------------------------------------------------------
(* Sessions and tickets *)

\* Conn.sessionState with the master secret; born is history: the day of the
\* full handshake the session comes from.
SessionState(h, createdAt, born) ==
    [vers |-> h.vers, suite |-> h.suite, createdAt |-> createdAt, alpn |-> h.alpn,
     peer |-> h.peer, verified |-> h.verified, ems |-> h.ems, secret |-> h.secret,
     born |-> born]

\* Config.ticketKeys: a key that is not fresh is replaced, old ones expire.
RotatedKeys ==
    IF keys # <<>> /\ day - keys[1] < Rotation THEN keys
    ELSE <<day>> \o SelectSeq(keys, LAMBDA d : day - d < Lifetime)

ticketKeys(c) == IF c.tickets THEN RotatedKeys ELSE keys

\* Mutant: the ticket sent on resumption counts as new.
TicketMsgRenewed(h) ==
    [t |-> "newSessionTicket",
     ticket |-> [key |-> keys'[1],
                 state |-> SessionState(h, day, IF h.didResume THEN h.sess.born ELSE day)]]

\* sendSessionTicket: a re-wrapped session keeps the time it was created.
TicketMsg(h) ==
    [t |-> "newSessionTicket",
     ticket |-> [key |-> keys'[1],
                 state |-> IF h.didResume
                           THEN SessionState(h, h.sess.createdAt, h.sess.born)
                           ELSE SessionState(h, day, day)]]

\* Mutant: a certificate counts however it was accepted.
SessionCertOkUnverified(c, st) ==
    IF st.peer = NoCert THEN ~requiresClientCert(c) ELSE c.auth # 0 /\ day <= st.peer.notAfter

\* The certificate a session carries for the client is one this configuration
\* could still accept.
SessionCertOk(c, st) ==
    IF st.peer = NoCert THEN ~requiresClientCert(c)
    ELSE c.auth # 0 /\ day <= st.peer.notAfter /\ (c.auth >= 3 => st.verified)

\* checkForResumption up to the extended master secret.
Resumable(c, h, m, usable) ==
    LET st == m.ticket.state
    IN /\ c.tickets /\ m.ticket # NoTicket /\ m.ticket.key \in usable
       /\ day - st.createdAt <= Lifetime
       /\ h.vers = st.vers
       /\ st.suite \in Elems(m.suites) \cap cipherSuites(c)
       /\ cipherSuiteOk(c, h.vers, h.cert, m, st.suite)
       /\ SessionCertOk(c, st)
       /\ m.ems => st.ems

--------------------------------------------------------------------------------
(* The server *)

\* Mutant: a resumption announces the protocol of the old session.
ServerHelloMsgOldProtocol(c, h, m, suite, resumed) ==
    [t |-> "serverHello", vers |-> h.vers, random |-> <<"server", n>>, echo |-> resumed,
     suite |-> suite, ems |-> m.ems, plain |-> TRUE,
     alpn |-> IF resumed THEN m.ticket.state.alpn ELSE h.alpn,
     tickets |-> resumed \/ (m.ticketSupported /\ c.tickets),
     ocsp |-> ~resumed /\ m.ocsp /\ h.cert.staple,
     canary |-> maxSupportedVersion(c) >= 12 /\ h.vers < maxSupportedVersion(c)]

ServerHelloMsg(c, h, m, suite, resumed) ==
    [t |-> "serverHello", vers |-> h.vers, random |-> <<"server", n>>, echo |-> resumed,
     suite |-> suite, ems |-> m.ems, alpn |-> h.alpn, plain |-> TRUE,
     tickets |-> resumed \/ (m.ticketSupported /\ c.tickets),
     ocsp |-> ~resumed /\ m.ocsp /\ h.cert.staple,
     canary |-> maxSupportedVersion(c) >= 12 /\ h.vers < maxSupportedVersion(c)]

\* readClientHello and processClientHello: what follows from the hello alone.
HelloState(c, m) ==
    [Blank EXCEPT !.hello = m, !.vers = mutualVersion(c, helloVersions(m)),
                  !.alpn = negotiateALPN(c.protos, m.protos),
                  !.cert = getCertificate(c, m), !.ems = m.ems]

HelloAcceptable(h, m) ==
    h.vers # 0 /\ m.plain /\ h.alpn # "refused" /\ h.cert # NoCert

\* The first flight of a full handshake before the key exchange.
CertFlight(h, sh) ==
    <<sh, [t |-> "certificate", cert |-> h.cert]>>
    \o IF sh.ocsp THEN <<[t |-> "certificateStatus"]>> ELSE <<>>

\* ecdheKeyAgreement.generateServerKeyExchange; static RSA sends none.
KeyExchange(c, h, m, sh) ==
    LET curve == First(m.curves, Elems(curvePreferences(c)), "none")
    IN IF sh.suite \notin suiteECDHE THEN <<>>
       ELSE <<[t |-> "serverKeyExchange", curve |-> curve, share |-> <<"server", n, curve>>,
               sig |-> <<"signature", h.cert.id, m.random, sh.random, curve>>]>>

CertRequest(c) ==
    IF c.auth = 0 THEN <<>>
    ELSE <<[t |-> "certificateRequest", cas |-> c.roots,
            sigAlgs |-> supportedSignatureAlgorithms]>>

ServerRefusesHello ==
    /\ Reads("server", {"hello"}, "clientHello")
    /\ keys' = ticketKeys(cfg["server"])
    /\ ~HelloAcceptable(HelloState(cfg["server"], Msg("server")), Msg("server"))
    /\ Refuse("server", NoKey, <<>>)

\* doResumeHandshake: ServerHello, a new ticket, ChangeCipherSpec and Finished
\* in one flight.  A session with extended master secret from a client without
\* it ends the handshake, with no alert.
ServerResumes ==
    LET c == cfg["server"]
        m == Msg("server")
        h0 == HelloState(c, m)
        st == m.ticket.state
        sh == ServerHelloMsg(c, h0, m, st.suite, TRUE)
        h == establishKeys("server",
               [h0 EXCEPT !.didResume = TRUE, !.suite = st.suite, !.peer = st.peer,
                          !.verified = st.verified, !.ems = st.ems, !.secret = st.secret,
                          !.sess = st, !.serverHello = sh, !.tr = <<m, sh>>])
    IN /\ Reads("server", {"hello"}, "clientHello")
       /\ keys' = ticketKeys(c)
       /\ HelloAcceptable(h0, m) /\ Resumable(c, h0, m, Elems(ticketKeys(c)))
       /\ IF st.ems /\ ~m.ems THEN Fails("server", "error", <<>>)
          ELSE /\ Advance("server", FinishedState("server", h, <<TicketMsg(h)>>),
                          Records(NoKey, <<sh>>)
                             \o FinishedRecords("server", h, <<TicketMsg(h)>>),
                          "ccs", FALSE)
               /\ UNCHANGED cache

\* pickCipherSuite and the first flight of doFullHandshake.
ServerFull ==
    LET c == cfg["server"]
        m == Msg("server")
        h0 == HelloState(c, m)
        suite == pickCipherSuite(c, h0.vers, h0.cert, m)
        sh == ServerHelloMsg(c, h0, m, suite, FALSE)
        skx == KeyExchange(c, h0, m, sh)
        flight == CertFlight(h0, sh) \o skx \o CertRequest(c)
                     \o <<[t |-> "serverHelloDone"]>>
        h == [h0 EXCEPT !.suite = suite, !.serverHello = sh, !.tr = <<m>> \o flight,
                        !.share = IF skx = <<>> THEN @ ELSE skx[1].share]
    IN /\ Reads("server", {"hello"}, "clientHello")
       /\ keys' = ticketKeys(c)
       /\ HelloAcceptable(h0, m) /\ ~Resumable(c, h0, m, Elems(ticketKeys(c)))
       /\ IF suite = "refused" \/ InappropriateFallback(c, m)
          THEN Refuse("server", NoKey, <<>>)
          ELSE IF skx # <<>> /\ ~CanSignKeyExchange(h.vers, h.cert, m.sigAlgs)
          THEN Refuse("server", NoKey, Records(NoKey, CertFlight(h0, sh)))
          ELSE /\ Advance("server", h, Records(NoKey, flight),
                          IF c.auth = 0 THEN "ckx" ELSE "cert", FALSE)
               /\ UNCHANGED cache

\* processCertsFromClient
ServerCertificate ==
    LET m == Msg("server")
    IN /\ Reads("server", {"cert"}, "certificate")
       /\ \/ /\ ClientCertAccepted(cfg["server"], m.cert, day)
             /\ Advance("server",
                   [hs["server"] EXCEPT !.peer = m.cert, !.tr = Append(@, m),
                       !.verified = cfg["server"].auth >= 3 /\ m.cert # NoCert],
                   <<>>, "ckx", FALSE)
             /\ Stay
          \/ ~ClientCertAccepted(cfg["server"], m.cert, day) /\ RefuseMsg("server")

\* Mutant: no CertificateVerify is awaited.
ServerKeyExchangeTrusting ==
    LET m == Msg("server")
        h == [hs["server"] EXCEPT !.tr = Append(@, m)]
        h1 == [h EXCEPT !.secret = Master(h, <<h.share, m.share>>)]
    IN /\ Reads("server", {"ckx"}, "clientKeyExchange")
       /\ Advance("server", establishKeys("server", h1), <<>>, "ccs", FALSE)
       /\ Stay

\* processClientKeyExchange and the master secret; a client certificate must
\* still be proved.
ServerKeyExchange ==
    LET m == Msg("server")
        h == [hs["server"] EXCEPT !.tr = Append(@, m)]
        h1 == [h EXCEPT !.secret = Master(h, <<h.share, m.share>>)]
    IN /\ Reads("server", {"ckx"}, "clientKeyExchange")
       /\ \/ /\ m.valid
             /\ IF h.peer # NoCert
                THEN Advance("server", h1, <<>>, "certVerify", FALSE)
                ELSE Advance("server", establishKeys("server", h1), <<>>, "ccs", FALSE)
             /\ Stay
          \/ ~m.valid /\ RefuseMsg("server")

\* Mutant: the signature is not checked.
ServerCertVerifyUnchecked ==
    /\ Reads("server", {"certVerify"}, "certificateVerify")
    /\ Advance("server",
          establishKeys("server", [hs["server"] EXCEPT !.tr = Append(@, Msg("server"))]),
          <<>>, "ccs", FALSE)
    /\ Stay

\* The signature covers the transcript before the CertificateVerify itself.
ServerCertVerify ==
    LET m == Msg("server")
        h == hs["server"]
        good == Proves(m.sig, Signature(h.peer, h.tr))
    IN /\ Reads("server", {"certVerify"}, "certificateVerify")
       /\ \/ /\ good
             /\ Advance("server", establishKeys("server", [h EXCEPT !.tr = Append(@, m)]),
                        <<>>, "ccs", FALSE)
             /\ Stay
          \/ ~good /\ RefuseMsg("server")

\* readFinished; after a full handshake a ticket, ChangeCipherSpec and Finished.
ServerFinished ==
    LET m == Msg("server")
        h == [hs["server"] EXCEPT !.tr = Append(@, m)]
        pre == IF h.serverHello.tickets THEN <<TicketMsg(h)>> ELSE <<>>
        good == Proves(m.verify, VerifyData("client", hs["server"]))
    IN /\ Reads("server", {"finished"}, "finished")
       /\ UNCHANGED keys
       /\ \/ ~good /\ RefuseMsg("server")
          \/ good /\ h.didResume
             /\ Advance("server", h, <<>>, "ended", FALSE) /\ UNCHANGED cache
          \/ good /\ ~h.didResume
             /\ Advance("server", FinishedState("server", h, pre),
                        FinishedRecords("server", h, pre), "ended", FALSE)
             /\ UNCHANGED cache

--------------------------------------------------------------------------------
(* The client *)

\* loadSession: whether the cached session fits the hello about to be sent.
Offerable(c, entry) ==
    /\ c.tickets /\ c.cache /\ entry # NoEntry
    /\ entry.session.vers \in Elems(supportedVersions(c))
    /\ day <= entry.session.peer.notAfter
    /\ ~c.skipVerify => entry.session.verified /\ c.name \in entry.session.peer.names
    /\ entry.session.suite \in Elems(offeredSuites(c))

\* An expired server certificate deletes the entry.
CacheExpires(c, entry) ==
    /\ c.tickets /\ c.cache /\ entry # NoEntry
    /\ entry.session.vers \in Elems(supportedVersions(c))
    /\ day > entry.session.peer.notAfter

\* makeClientHello; plain stands for null compression and no renegotiation data.
ClientHelloMsg(c, ticket) ==
    [t |-> "clientHello", vers |-> maxSupportedVersion(c),
     versions |-> supportedVersions(c), random |-> <<"client", n>>,
     suites |-> offeredSuites(c), curves |-> curvePreferences(c),
     points |-> "uncompressed", plain |-> TRUE, ems |-> TRUE, ocsp |-> TRUE,
     sni |-> hostnameInSNI(c.name), protos |-> c.protos,
     sigAlgs |-> IF maxSupportedVersion(c) >= 12 THEN supportedSignatureAlgorithms ELSE {},
     ticketSupported |-> c.tickets /\ c.cache, ticket |-> ticket]

ClientUsable(c) == (c.name # "" \/ c.skipVerify) /\ supportedVersions(c) # <<>>

\* A configuration that cannot make a hello: an error, nothing is sent.
ClientCannotStart ==
    /\ pc["client"] = "start" /\ ~ClientUsable(cfg["client"])
    /\ Fails("client", "error", <<>>) /\ UNCHANGED keys

ClientStart ==
    LET c == cfg["client"]
        offer == Offerable(c, cache)
        m == ClientHelloMsg(c, IF offer THEN cache.ticket ELSE NoTicket)
    IN /\ pc["client"] = "start" /\ ClientUsable(c)
       /\ Advance("client",
             [Blank EXCEPT !.hello = m, !.sess = IF offer THEN cache.session ELSE NoSession],
             Records(NoKey, <<m>>), "hello", FALSE)
       /\ cache' = IF CacheExpires(c, cache) THEN NoEntry ELSE cache
       /\ UNCHANGED keys

pickTLSVersion(c, m) == mutualVersion(c, <<m.vers>>)

\* The downgrade check and processServerHello.
ServerHelloAcceptable(c, h, m, vers) ==
    /\ vers # 0
    /\ ~(maxSupportedVersion(c) = 12 /\ vers <= 11 /\ m.canary)
    /\ m.suite \in Elems(h.hello.suites) /\ m.plain
    /\ checkALPN(h.hello.protos, m.alpn)

\* serverResumedSession and the checks that the session is the one offered.
SessionMatches(h, m, vers) ==
    h.sess.vers = vers /\ h.sess.suite = m.suite /\ h.sess.ems = m.ems

ClientServerHello ==
    LET c == cfg["client"]
        m == Msg("client")
        h0 == hs["client"]
        vers == pickTLSVersion(c, m)
        resumed == h0.sess # NoSession /\ m.echo
        h == [h0 EXCEPT !.vers = vers, !.suite = m.suite, !.alpn = m.alpn,
                        !.ems = m.ems, !.serverHello = m, !.tr = <<h0.hello, m>>]
        r == establishKeys("client",
               [h EXCEPT !.didResume = TRUE, !.secret = h0.sess.secret,
                         !.peer = h0.sess.peer, !.verified = h0.sess.verified])
    IN /\ Reads("client", {"hello"}, "serverHello")
       /\ \/ /\ ServerHelloAcceptable(c, h0, m, vers) /\ ~resumed
             /\ Advance("client", h, <<>>, "cert", TRUE) /\ Stay
          \/ /\ ServerHelloAcceptable(c, h0, m, vers) /\ resumed
             /\ SessionMatches(h0, m, vers)
             /\ Advance("client", r, <<>>, IF m.tickets THEN "ticket" ELSE "ccs", TRUE)
             /\ Stay
          \/ /\ ~(/\ ServerHelloAcceptable(c, h0, m, vers)
                  /\ resumed => SessionMatches(h0, m, vers))
             /\ RefuseMsg("client")

\* The server's certificate is kept and verified when the next message is there.
ClientCertificate ==
    LET m == Msg("client")
    IN /\ Reads("client", {"cert"}, "certificate")
       /\ \/ /\ m.cert # NoCert
             /\ Advance("client", [hs["client"] EXCEPT !.peer = m.cert, !.tr = Append(@, m)],
                        <<>>, "status", TRUE)
             /\ Stay
          \/ m.cert = NoCert /\ RefuseMsg("client")

ClientStatus ==
    LET h == hs["client"]
    IN /\ Reads("client", {"status"}, "certificateStatus")
       /\ \/ /\ h.serverHello.ocsp
             /\ Advance("client", [h EXCEPT !.tr = Append(@, Msg("client"))], <<>>,
                        "verify", TRUE)
             /\ Stay
          \/ ~h.serverHello.ocsp /\ RefuseMsg("client")

\* verifyServerCertificate, once, before the first message after the certificate.
Trusted == \/ pc["client"] \in {"certReq", "helloDone"}
           \/ ServerCertAccepted(cfg["client"], hs["client"].peer, day)

\* Mutant: the signature on the key exchange is not checked.
KeyExchangeUnsigned(h, m) == h.suite \in suiteECDHE

\* processServerKeyExchange
KeyExchangeOk(h, m) ==
    /\ h.suite \in suiteECDHE
    /\ CanSignKeyExchange(h.vers, h.peer, h.hello.sigAlgs)
    /\ Family(h.peer.key) = "rsa" <=> h.suite \notin suiteECSign
    /\ Proves(m.sig, <<"signature", h.peer.id, h.hello.random, h.serverHello.random, m.curve>>)

ClientKeyExchange ==
    LET m == Msg("client")
        h == hs["client"]
    IN /\ Reads("client", {"status", "verify"}, "serverKeyExchange")
       /\ \/ /\ Trusted /\ KeyExchangeOk(h, m)
             /\ Advance("client", [h EXCEPT !.share = m.share, !.tr = Append(@, m)], <<>>,
                        "certReq", TRUE)
             /\ Stay
          \/ ~(Trusted /\ KeyExchangeOk(h, m)) /\ RefuseMsg("client")

ClientCertRequest ==
    LET m == Msg("client")
        h == hs["client"]
    IN /\ Reads("client", {"status", "verify", "certReq"}, "certificateRequest")
       /\ \/ /\ Trusted
             /\ Advance("client",
                   [h EXCEPT !.asked = TRUE, !.tr = Append(@, m),
                             !.cert = getClientCertificate(cfg["client"], h.vers, m)],
                   <<>>, "helloDone", TRUE)
             /\ Stay
          \/ ~Trusted /\ RefuseMsg("client")

\* generateClientKeyExchange: a share from the server, or its RSA key.
ClientCanExchange(h) ==
    IF h.suite \in suiteECDHE THEN h.share # <<"none">> ELSE h.peer.key = "rsa"

\* Mutant: a ticket is awaited whenever one was asked for.
AwaitsTicketAsAsked(h) == h.hello.ticketSupported

\* readSessionTicket: a ticket is awaited when the ServerHello announced it.
AwaitsTicket(h) == h.serverHello.tickets

\* The client's second flight: certificate if asked, key exchange, proof of the
\* certificate's key, ChangeCipherSpec, Finished.  A ticket that was not asked
\* for is refused after it.
ClientHelloDone ==
    LET m == Msg("client")
        h0 == [hs["client"] EXCEPT !.tr = Append(@, m),
                                   !.verified = ~cfg["client"].skipVerify]
        certs == IF h0.asked THEN <<[t |-> "certificate", cert |-> h0.cert]>> ELSE <<>>
        ckx == [t |-> "clientKeyExchange", share |-> <<"client", n>>, valid |-> TRUE]
        h1 == [h0 EXCEPT !.tr = @ \o certs \o <<ckx>>]
        h2 == [h1 EXCEPT !.secret = Master(h1, <<h1.share, ckx.share>>)]
        proof == IF h2.cert = NoCert THEN <<>>
                 ELSE <<[t |-> "certificateVerify", sig |-> Signature(h2.cert, h2.tr)]>>
        h == establishKeys("client", h2)
        recs == Records(NoKey, certs \o <<ckx>>) \o FinishedRecords("client", h, proof)
        f == FinishedState("client", h, proof)
    IN /\ Reads("client", {"status", "verify", "certReq", "helloDone"}, "serverHelloDone")
       /\ IF ~Trusted THEN RefuseMsg("client")
          ELSE IF ~ClientCanExchange(h0)
          THEN Refuse("client", NoKey, Records(NoKey, certs)) /\ UNCHANGED keys
          ELSE IF AwaitsTicket(h) /\ ~h.hello.ticketSupported
          THEN Refuse("client", f.out, recs) /\ UNCHANGED keys
          ELSE /\ Advance("client", f, recs, IF AwaitsTicket(h) THEN "ticket" ELSE "ccs",
                          FALSE)
               /\ Stay

ClientTicket ==
    /\ Reads("client", {"ticket"}, "newSessionTicket")
    /\ Advance("client", [hs["client"] EXCEPT !.ticket = Msg("client").ticket,
                                              !.tr = Append(@, Msg("client"))],
               <<>>, "ccs", buffering["client"])
    /\ Stay

\* saveSessionTicket
Saved(h) ==
    IF h.ticket = NoTicket THEN cache
    ELSE [ticket |-> h.ticket,
          session |-> SessionState(h, day, IF h.didResume THEN h.sess.born ELSE day)]

\* readFinished; on resumption the client's own Finished follows.
ClientFinished ==
    LET m == Msg("client")
        h == [hs["client"] EXCEPT !.tr = Append(@, m)]
        good == Proves(m.verify, VerifyData("server", hs["client"]))
    IN /\ Reads("client", {"finished"}, "finished")
       /\ UNCHANGED keys
       /\ \/ ~good /\ RefuseMsg("client")
          \/ good /\ ~h.didResume
             /\ Advance("client", h, <<>>, "ended", FALSE) /\ cache' = Saved(h)
          \/ good /\ h.didResume
             /\ Advance("client", FinishedState("client", h, <<>>),
                        FinishedRecords("client", h, <<>>), "ended", FALSE)
             /\ cache' = Saved(h)

--------------------------------------------------------------------------------
(* Environment *)

\* The setups with the same Free sides: they stay through a behaviour.
SameKind(S) == {u \in S : u.free = Free}

\* There is another connection to make.
More == n < MaxConns /\ SameKind(Setups[n + 1]) # {}

\* A new connection, once the last one is over.
Connect ==
    /\ \A s \in Sides : pc[s] = "ended"
    /\ More
    /\ n' = n + 1
    /\ cfg' \in SameKind(Setups[n + 1])
    /\ pc' = [s \in Sides |-> IF s \in Free THEN "free"
                              ELSE IF s = "client" THEN "start" ELSE "hello"]
    /\ hs' = [s \in Sides |-> Blank]
    /\ wire' = [s \in Sides |-> <<>>] /\ open' = [s \in Sides |-> TRUE]
    /\ buffering' = [s \in Sides |-> FALSE]
    /\ end' = [s \in Sides |-> "none"] /\ cut' = FALSE
    /\ UNCHANGED <<day, keys, cache>>

\* The network breaks the connection; what was in flight is lost.
Cut ==
    /\ \E s \in Sides : pc[s] # "ended"
    /\ ~cut /\ cut' = TRUE
    /\ wire' = [s \in Sides |-> <<>>] /\ open' = [s \in Sides |-> FALSE]
    /\ UNCHANGED <<n, cfg, pc, hs, buffering, end, day, keys, cache>>

\* Days pass between sides that follow the protocol: no property of a Free side
\* depends on the time.
NextDay == Free = {} /\ day < MaxDay /\ day' = day + 1
           /\ UNCHANGED <<n, cfg, pc, hs, wire, open, buffering, end, cut, keys, cache>>

\* Everything the model has to show has happened.
Over == /\ ~More /\ \A s \in Sides : pc[s] = "ended"
        /\ UNCHANGED vars

\* A Free side knows the traffic keys if it made or can decrypt the secret.
Knows(p) ==
    \/ hs[p].in = NoKey
    \/ p = "server" \/ hs[p].suite \in suiteECDHE \/ hs[p].peer.id \in Owned

\* The messages a Free side can make: any, but proofs only with keys it has.
FreeCerts(p) ==
    {NoCert} \cup UNION {Elems(u[Peer(p)].certs) : u \in SameKind(AllSetups)}
FreeHellos ==
    UNION {LET m == ClientHelloMsg(c, cache.ticket)
           IN {m, [m EXCEPT !.ticket = NoTicket], [m EXCEPT !.ems = FALSE],
               [m EXCEPT !.plain = FALSE],
               [m EXCEPT !.versions = <<>>, !.vers = 11],
               [m EXCEPT !.suites = Append(@, "SCSV"), !.vers = 11, !.versions = <<11>>],
               [m EXCEPT !.points = "other"], [m EXCEPT !.sigAlgs = {"rsa"}]}
           : c \in {u.client : u \in SameKind(AllSetups)}}
FreeServerHellos ==
    {m \in [t : {"serverHello"}, vers : {11, 12}, random : {<<"server", n>>},
            echo : BOOLEAN, suite : {"CCM8", "GCM_EC", "RSA_CBC"}, ems : BOOLEAN,
            alpn : {""}, plain : {TRUE}, tickets : BOOLEAN, ocsp : BOOLEAN,
            canary : BOOLEAN]
        : m.canary => m.vers < 12}

Proofs(able) == IF able THEN {<<"match">>, <<"bad">>} ELSE {<<"bad">>}

FreeMessages(p) ==
    {[t |-> "certificate", cert |-> c] : c \in FreeCerts(p)}
    \cup {[t |-> "finished", verify |-> v] : v \in Proofs(Knows(p))}
    \cup IF p = "server"
         THEN (IF pc[p] = "hello" THEN FreeHellos ELSE {})
              \cup {[t |-> "clientKeyExchange", share |-> <<"client", n>>, valid |-> b]
                    : b \in BOOLEAN}
              \cup {[t |-> "certificateVerify", sig |-> v]
                    : v \in Proofs(hs[p].peer.id \in Owned)}
         ELSE (IF pc[p] = "hello" THEN FreeServerHellos ELSE {})
              \cup {[t |-> "serverKeyExchange", curve |-> "P256",
                     share |-> <<"server", n, "P256">>, sig |-> v]
                    : v \in Proofs(hs[p].peer.id \in Owned)}
              \cup {[t |-> "certificateRequest", cas |-> {},
                     sigAlgs |-> supportedSignatureAlgorithms]}
              \cup {[t |-> x] : x \in {"certificateStatus", "serverHelloDone"}}
              \cup {[t |-> "newSessionTicket",
                     ticket |-> [key |-> MaxDay + 1, state |-> NoSession]]}

FreeSends(s) ==
    LET p == Peer(s)
        \* under the right key if it has it, or under another
        right == IF Knows(p) THEN hs[p].in ELSE <<"other">>
    IN /\ pc[s] = "free" /\ open[s] /\ open[p] /\ wire[p] = <<>> /\ pc[p] # "start"
       /\ \/ \E m \in FreeMessages(p) :
                wire' = [wire EXCEPT ![p] = <<Rec("handshake", right, m)>>]
          \/ \E y \in {"ccs", "alert", "warning"} :
                wire' = [wire EXCEPT ![p] = <<Rec(y, right, NoMsg)>>]
          \/ wire' = [wire EXCEPT ![p] = <<Rec("ccs", <<"other">>, NoMsg)>>]
       /\ UNCHANGED <<n, cfg, pc, hs, open, buffering, end, cut, day, keys, cache>>

\* A Free client keeps the ticket of the handshake it has completed.
FreeKeepsTicket ==
    /\ "client" \in Free /\ end["server"] = "done"
    /\ \E m \in Elems(hs["server"].tr) :
          /\ m.t = "newSessionTicket" /\ m.ticket # cache.ticket
          /\ cache' = [ticket |-> m.ticket, session |-> NoSession]
    /\ UNCHANGED <<n, cfg, pc, hs, wire, open, buffering, end, cut, day, keys>>

FreeCloses(s) ==
    /\ pc[s] = "free"
    /\ pc' = [pc EXCEPT ![s] = "ended"] /\ open' = [open EXCEPT ![s] = FALSE]
    /\ UNCHANGED <<n, cfg, hs, wire, buffering, end, cut, day, keys, cache>>

--------------------------------------------------------------------------------
RecordStep(s) ==
    \/ RecordRefused(s) \/ AlertReceived(s) \/ WarningDropped(s) \/ EndOfFile(s)
    \/ ReadChangeCipherSpec(s)

ServerStep ==
    \/ ServerRefusesHello \/ ServerResumes \/ ServerFull \/ ServerCertificate
    \/ ServerKeyExchange \/ ServerCertVerify \/ ServerFinished

ClientStep ==
    \/ ClientCannotStart \/ ClientStart \/ ClientServerHello \/ ClientCertificate
    \/ ClientStatus \/ ClientKeyExchange \/ ClientCertRequest \/ ClientHelloDone
    \/ ClientTicket \/ ClientFinished

Step(s) == RecordStep(s) \/ IF s = "client" THEN ClientStep ELSE ServerStep

Next ==
    \/ \E s \in Sides : s \notin Free /\ Step(s)
    \/ FreeKeepsTicket
    \/ \E s \in Free : FreeSends(s) \/ FreeCloses(s)
    \/ Connect \/ Cut \/ NextDay \/ Over

Spec == Init /\ [][Next]_vars

\* Both sides are goroutines that run: a message that has arrived is read.
FairSpec == Spec /\ \A s \in Sides : WF_vars(s \notin Free /\ Step(s))

--------------------------------------------------------------------------------
(* Properties *)

Done(s) == end[s] = "done"
BothOver == n > 0 /\ \A s \in Sides : pc[s] = "ended"

\* When both sides have completed they agree on everything negotiated: version,
\* suite, protocol, secret, transcript, certificates, whether it was a
\* resumption, and each one's sending key is the other's receiving key.
Agreement ==
    Done("client") /\ Done("server") =>
        LET c == hs["client"]
            s == hs["server"]
        IN /\ c.vers = s.vers /\ c.suite = s.suite /\ c.alpn = s.alpn /\ c.ems = s.ems
           /\ c.didResume = s.didResume /\ c.secret = s.secret /\ c.tr = s.tr
           /\ c.out = s.in /\ s.out = c.in
           /\ ~c.didResume => c.peer = s.cert /\ s.peer = c.cert
           /\ c.didResume => c.peer = c.sess.peer /\ c.sess.secret = s.sess.secret

\* What two configurations should be able to do, said without the order in
\* which the code decides: a common version, a suite that both have and the
\* server's certificate can serve, a common protocol where both ask for one, and
\* certificates each side accepts.
Compatible(cc, cs) ==
    LET versions == Elems(supportedVersions(cc)) \cap Elems(supportedVersions(cs))
        v == CHOOSE x \in versions : \A y \in versions : y <= x
        cert == getCertificate(cs, ClientHelloMsg(cc, NoTicket))
        curves == Elems(curvePreferences(cc)) \cap Elems(curvePreferences(cs))
        shown == IF cs.auth = 0 THEN NoCert
                 ELSE getClientCertificate(cc, v,
                         [cas |-> cs.roots, sigAlgs |-> supportedSignatureAlgorithms])
    IN /\ ClientUsable(cc) /\ versions # {} /\ cert # NoCert
       /\ \E u \in cipherSuites(cc) \cap cipherSuites(cs) :
             /\ u \in suiteTLS12 => v = 12
             /\ IF u \in suiteECDHE
                THEN /\ curves # {}
                     /\ u \in suiteECSign <=> cert.key # "rsa"
                     /\ cert.key = "ed25519" => v = 12
                ELSE cert.key = "rsa"
       /\ \/ cs.protos = <<>> \/ cc.protos = <<>>
          \/ Elems(cs.protos) \cap Elems(cc.protos) # {}
          \/ "h2" \in Elems(cs.protos) /\ "http/1.1" \in Elems(cc.protos)
       /\ ServerCertAccepted(cc, cert, day)
       /\ cs.auth # 0 => ClientCertAccepted(cs, shown, day)

\* An undisturbed handshake succeeds, on both sides, exactly when the two
\* configurations are compatible; a side never completes alone.
OutcomeAsNegotiated ==
    BothOver /\ ~cut =>
        \A s \in Sides : Done(s) <=> Compatible(cfg["client"], cfg["server"])

\* A side that refuses the other with an alert is heard: the alert is not left
\* in the write buffer nor sent under a key the peer cannot read (conn.go,
\* handshakeContext: "try to flush the alert that might be left in the buffer").
RefusalIsTold ==
    BothOver /\ ~cut =>
        \A s \in Sides : end[s] = "refused" => end[Peer(s)] = "alert"

\* A server with the CCM hook that completes has checked this very client, on
\* this connection: no path, resumption included, leads around
\* VerifyPeerCertificate (ccmserver.go: "a resumed session skips
\* VerifyPeerCertificate above").
CCMPeerVerified ==
    Done("server") /\ cfg["server"].hook =>
        LET p == hs["server"].peer
        IN /\ p # NoCert /\ p.issuer \in cfg["server"].roots
           /\ "client" \in p.usage /\ p.san # "mixed"
           /\ ~hs["server"].didResume
           /\ hs["server"].vers = 12 /\ hs["server"].suite = "CCM8"

\* A session is resumed only within Lifetime of the full handshake it comes
\* from, however often its ticket was renewed, only while the certificate that
\* handshake saw is valid, and only by a server that would take the certificate so:
\* one that asks for certificates if there is one, that does without if there is
\* none, and, if it wants them verified, after that handshake verified it
\* (ticket.go, checkForResumption).
ResumptionIsFresh ==
    [][/\ ~hs["server"].didResume /\ hs'["server"].didResume =>
             /\ day - hs'["server"].sess.born <= Lifetime
             /\ IF hs'["server"].peer = NoCert THEN cfg["server"].auth \notin {2, 4}
                ELSE /\ day <= hs'["server"].peer.notAfter
                     /\ cfg["server"].auth # 0
                     /\ cfg["server"].auth >= 3 => hs'["server"].verified
       /\ ~hs["client"].didResume /\ hs'["client"].didResume =>
             hs'["client"].verified \/ cfg["client"].skipVerify]_vars

\* Whatever the other side sends and in whatever order, a side that completes
\* with a certificate of the peer, or resumes a session that has one, has a peer
\* that holds its key: a signature over the transcript or the key exchange was
\* checked, or the certificate's key has opened the premaster secret.
PeerHoldsItsKey ==
    \A s \in Sides :
        Done(s) /\ Peer(s) \in Free /\ hs[s].peer # NoCert => hs[s].peer.id \in Owned

\* Optional message t, present if b.
Opt(b, t) == IF b THEN <<t>> ELSE <<>>

\* The types of the messages side s must have seen: RFC 5246 section 7.3, RFC
\* 5077 section 3.1.  Only CertificateStatus may be left out where announced.
Shape(s) ==
    LET h == hs[s]
        asked == IF s = "server" THEN cfg[s].auth # 0 ELSE h.asked
        proved == IF s = "server" THEN h.peer # NoCert ELSE h.cert # NoCert
        status == h.serverHello.ocsp /\ \E i \in DOMAIN h.tr : h.tr[i].t = "certificateStatus"
        ticket == Opt(h.serverHello.tickets, "newSessionTicket")
    IN IF h.didResume
       THEN <<"clientHello", "serverHello">> \o ticket \o <<"finished", "finished">>
       ELSE <<"clientHello", "serverHello", "certificate">>
            \o Opt(status, "certificateStatus")
            \o Opt(h.suite \in suiteECDHE, "serverKeyExchange")
            \o Opt(asked, "certificateRequest") \o <<"serverHelloDone">>
            \o Opt(asked, "certificate") \o <<"clientKeyExchange">>
            \o Opt(proved, "certificateVerify") \o <<"finished">>
            \o ticket \o <<"finished">>

\* No message of a completed handshake was skipped, repeated or out of place,
\* whatever the peer sent (the chains of type assertions in doFullHandshake).
MessagesInOrder ==
    \A s \in Sides \ Free :
        Done(s) => [i \in DOMAIN hs[s].tr |-> hs[s].tr[i].t] = Shape(s)

\* Every handshake that has begun ends on both sides: neither waits for a
\* message the other does not send.
HandshakeEnds == \A s \in Sides : (Free = {} /\ pc[s] # "ended") ~> pc[s] = "ended"
================================================================================
