------------------------------ MODULE MCHandshake ------------------------------
(* Certificates and configurations for the runs of Handshake12. *)
EXTENDS Handshake12

Pairs(clients, servers, free) == [client : clients, server : servers, free : {free}]

Cert(id, key, issuer, san, usage, notAfter) ==
    [id |-> id, key |-> key, issuer |-> issuer, names |-> {"srv", "192.0.2.1"}, san |-> san,
     usage |-> {usage}, notAfter |-> notAfter, staple |-> FALSE]

S256    == Cert("s256", "P256", "ca", "plain", "server", 9)
S384    == Cert("s384", "P384", "ca", "plain", "server", 9)
SEd     == Cert("sEd", "ed25519", "ca", "plain", "server", 9)
SRsa    == Cert("sRsa", "rsa", "ca", "plain", "server", 9)
SOld    == Cert("sOld", "P256", "ca", "plain", "server", 0)
SRogue  == Cert("sRogue", "P256", "rogue", "plain", "server", 9)
SStaple == [S256 EXCEPT !.staple = TRUE]
SNamed  == [S256 EXCEPT !.names = {"other"}]

DModule == Cert("dModule", "P256", "ca", "hmn", "client", 9)
DMixed  == Cert("dMixed", "P256", "ca", "mixed", "client", 9)
DPlain  == Cert("dPlain", "P256", "ca", "plain", "client", 9)
DRsa    == Cert("dRsa", "rsa", "ca", "plain", "client", 9)
DRogue  == Cert("dRogue", "P256", "rogue", "hmn", "client", 9)
DOld    == Cert("dOld", "P256", "ca", "hmn", "client", 0)
DServer == Cert("dServer", "P256", "ca", "hmn", "server", 9)
DShort  == Cert("dShort", "P256", "ca", "plain", "client", 2)
SShort  == Cert("sShort", "P256", "ca", "plain", "server", 3)

\* Configurations with nothing set but the roots and the largest version.
Client == [CCMClient(DPlain, {"ca"}, "srv")
             EXCEPT !.min = 0, !.suites = {}, !.curves = <<>>, !.certs = <<>>]
Server == [CCMServer(S256, {"ca"})
             EXCEPT !.min = 0, !.suites = {}, !.curves = <<>>, !.auth = 0, !.hook = FALSE,
                    !.tickets = TRUE]

Mixed == {"CCM8", "GCM_EC", "GCM_RSA", "CBC_EC", "RSA_CBC"}
Static == {"CBC_EC", "RSA_GCM"}

(* Run hs_negotiate: one handshake between any two configurations, then one that
   may resume it or a session of its own. *)
NegotiateClients ==
    {CCMClient(d, {"ca"}, "srv") : d \in {DModule, DMixed, DPlain, DRsa, DRogue, DOld, DServer}}
    \cup {CCMClient(DModule, {"rogue"}, "srv"), CCMClient(DModule, {"ca"}, "192.0.2.1"),
          CCMClient(DModule, {"ca"}, ""), Client,
          [Client EXCEPT !.name = "", !.skipVerify = TRUE],
          [Client EXCEPT !.min = 10, !.suites = Mixed \cup Static, !.certs = <<DModule, DPlain>>],
          [Client EXCEPT !.min = 10, !.max = 11, !.certs = <<DRsa>>],
          [Client EXCEPT !.min = 12, !.max = 11],
          [Client EXCEPT !.suites = {"RSA_CBC"}], [Client EXCEPT !.curves = <<"P384">>],
          [Client EXCEPT !.protos = <<"x">>], [Client EXCEPT !.protos = <<"http/1.1">>],
          [Client EXCEPT !.protos = <<"http/1.1", "h2">>, !.cache = TRUE]}

NegotiateServers ==
    {CCMServer(S256, {"ca"}), CCMServer(S384, {"ca"}), CCMServer(SRsa, {"ca"})}
    \cup {[Server EXCEPT !.certs = <<c>>] : c \in {SEd, SRogue, SOld, SStaple, SNamed}}
    \cup {[Server EXCEPT !.auth = a, !.min = 10, !.suites = Mixed] : a \in 0 .. 4}
    \cup {[Server EXCEPT !.min = 10, !.suites = Mixed, !.certs = <<S384, SRsa>>],
          [Server EXCEPT !.min = 10, !.certs = <<SEd, S256>>, !.auth = 1, !.roots = {}],
          [Server EXCEPT !.max = 11, !.min = 10, !.certs = <<SEd>>],
          [Server EXCEPT !.max = 11, !.min = 10, !.suites = Static, !.certs = <<SRsa, S256>>],
          [Server EXCEPT !.suites = Static, !.certs = <<SRsa>>],
          [Server EXCEPT !.certs = <<>>], [Server EXCEPT !.protos = <<"y">>],
          [Server EXCEPT !.protos = <<"h2", "z">>], [Server EXCEPT !.protos = <<"http/1.1">>, !.tickets = FALSE]}

AgainClients == {[Client EXCEPT !.protos = <<"http/1.1", "h2">>, !.cache = TRUE],
                 CCMClient(DModule, {"ca"}, "srv")}
AgainServers == {Server, CCMServer(S256, {"ca"}),
                 [Server EXCEPT !.min = 10, !.suites = Mixed, !.auth = 1]}

NegotiateSetups == <<Pairs(NegotiateClients, NegotiateServers, {}),
                     Pairs(AgainClients, AgainServers, {})>>

(* Run hs_peers: connections that share tickets and the session cache while
   certificates expire and keys rotate, *)
ResumeClients ==
    {[CCMClient(DShort, {"ca"}, "srv") EXCEPT !.cache = TRUE],
     [Client EXCEPT !.cache = TRUE, !.suites = {"CCM8"}, !.protos = <<"a", "b">>]}

Lasting == [Server EXCEPT !.suites = {"CCM8"}, !.certs = <<SShort>>, !.auth = 1, !.protos = <<"b">>]
ResumeServers ==
    {CCMServer(SShort, {"ca"}), Lasting,
     [Server EXCEPT !.suites = {"CCM8"}, !.auth = 3, !.protos = <<"a">>]}

(* and a client, or a server, that sends anything.  It has the keys of some
   certificates and can show the others. *)
FreeClients ==
    {[CCMClient(DPlain, {"ca"}, "srv") EXCEPT !.min = 11, !.cache = TRUE,
         !.certs = <<DPlain, DModule>>, !.suites = {"CCM8", "RSA_CBC"}]}
FreeClientServers ==
    {CCMServer(S256, {"ca"}),
     [Server EXCEPT !.auth = 3, !.suites = {"CCM8"}],
     [Server EXCEPT !.suites = {"RSA_CBC"}, !.certs = <<SRsa>>, !.min = 11]}

FreeServerClients ==
    {[CCMClient(DPlain, {"ca"}, "srv") EXCEPT !.cache = TRUE],
     [Client EXCEPT !.min = 11, !.suites = {"GCM_EC", "RSA_CBC"}]}
FreeServers == {[Server EXCEPT !.certs = <<S256, SRsa, S384>>]}

PeerSetups ==
    LET resume == Pairs(ResumeClients, ResumeServers, {})
        free == Pairs(FreeClients, FreeClientServers, {"client"})
                \cup Pairs(FreeServerClients, FreeServers, {"server"})
    IN <<resume \cup free, resume \cup free, Pairs(ResumeClients, {Lasting}, {})>>
================================================================================
