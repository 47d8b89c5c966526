# Verification of ieee-2030_5-core-go

The repository is the Go core of an IEEE 2030.5 (SEP2) stack: resource types and
their XML form, certificates and identities, TLS with the mandatory
`ECDHE-ECDSA-AES128-CCM-8` suite, which Go's own `crypto/tls` does not offer and
which `pkg/sep2tls/gotls` adds to a copy of it, and a client-side receiver for
notifications. This directory models the parts that keep state and run
concurrently, checks them with TLC and proves the central ones with TLAPS.

## 1. Inventory

| Component | State it keeps | Operations | Who it talks to |
|---|---|---|---|
| CCM listener, `sep2tls/ccmserver.go` | context, WaitGroup, channels `conns`, `errs`, `stopped`, final error | `Accept`, `Close`, accept loop, one handshake goroutine per connection | wraps a `net.Listener`; runs `gotls.Conn.HandshakeContext`; feeds `net/http` |
| Notification receiver, `sep2client/notify/receiver.go` | `srv`, `tlsL`, `doneCh` under a mutex | `Start`, `Addr`, `Stop`, `POST /notify` | `net/http.Server` on a CCM listener; calls the application's `Dispatcher` |
| TLS connection, `gotls/conn.go` | three mutexes, `activeCall`, sticky errors, pending input and handshake bytes | `Read`, `Write`, `Close`, `CloseWrite`, `HandshakeContext`, alerts | raw `net.Conn` below, handshake beside |
| TLS 1.2 handshake, `gotls/handshake_*.go`, `key_agreement.go`, `auth.go`, `cipher_suites*.go`, `ticket.go` | per-side handshake state, transcript, keys, session cache, ticket keys | client and server handshake, resumption | the connection's record layer, the configurations, `verify.go` |
| CCM configurations, `ccmserver.go`, `ccmclient.go` | none | build the `gotls.Config` of each side | decide what the handshake may negotiate |
| Peer verification and identity, `verify.go`, `identity.go` | none | `VerifyPeerCertificate` hook, LFDI and SFDI | called from the handshake |
| Certificates, `sep2cert/`, `client_cas.go` | the files of an operator | generate, `LoadCA`, `LoadClientCAs` | the verification hook |
| XML encoding, `sep2/encoding/` | a buffered response per request | `NamespaceMiddleware`, `WriteXML`, `MethodNotAllowed` | HTTP servers |
| Resource types, `sep2/` | plain data | decoders with boundaries, deep copies | everything |
| XSD gate, `internal/xsdgate`, `schema` | the schema loaded once per process | `MustLoad`, `Validate`, `CheckStruct` | gated tests |
| AES-CCM, `sep2tls/ccm` | key | `Seal`, `Open` | record layer |
| Caches, `gotls/cache.go`, `common.go`, `ticket.go` | reference counts, LRU list, ticket keys, a `RWMutex` per `Config` | get, put, evict, rotate, set, clone | handshakes of many connections |
| TLS 1.3, QUIC | | | unreachable: every configuration here stops at TLS 1.2 |

What is hard in it: `Close`, `Accept`, an accept loop and a goroutine per
handshake meet on unbuffered channels; a timeout races a handshake that has just
succeeded; `Stop` races `Start`, the `Serve` goroutine it must join and handlers
stuck in the dispatcher; `Read`, `Write`, `Close` and the alerts they send share
locks across a raw write that may block as long as the peer likes; the handshake
must refuse everything but the mandatory suite and a verified device
certificate, also when it resumes a session; handshakes share ticket keys, a
session cache and a certificate table, and give up a read lock to take a write
lock, or count references that a finalizer counts down. `PROJECT.json` lists each hazard at
its line with the properties that watch it.

What makes each component correct:

* listener: no connection is leaked, handed out after `Close`, or closed after it
  was handed out; `Close` returns, and then nothing is running; the final error
  ends `net/http`'s loop; the log blames peers only;
* receiver: a returned `Stop` leaves no goroutine, listener or connection and no
  answer is sent after it; `Stop` returns unless a peer leaves an alert unread; no server is out of reach; only whole notifications of
  verified peers are dispatched;
* connection: contiguous writes; nothing after `close_notify`; no
  data lost; `Close` returns although writers block;
* handshake: both sides agree; a CCM server that completes has verified this
  connection's certificate; what should succeed succeeds;
* caches: a cache gives back what was put under that key; keys rotate once a
  period, tickets stay good for their lifetime, no lock is left behind;
* certificates: a CA that is accepted when it is loaded serves in the chain walk
  later, and one that is refused would be refused there too or breaks one of the
  named rules in which the load-time checks are stricter;
* encoders: a handler need not know of the middleware around it;
* the gate: it accepts the documents of the schema, and no others but for attributes
  where the schema allows only text.

## 2. Plan

1. `NetListener`, `CCMListener`: the refinement and all safety properties
   (modelled, checked, proved).
2. `Receiver`, above `NetListener`'s promises (modelled, checked, proved).
3. `TLSConn`, the connection under concurrent callers (modelled, checked, proved).
4. `TLSNegotiation` (pure operators: versions, suites, curves, certificates,
   ALPN) and `Handshake12` (both sides over channels), composed with the two CCM
   configurations; an abstract predicate for what should succeed (modelled and
   checked; the hook, the peer's key, the age of sessions, the order of the messages
   and the agreement of the two sides proved).
5. `TicketKeys`, `SessionCache`, `ClientCaches`: what connections share (modelled,
   checked, proved, with the refinement of `SessionCache`).
6. `Provisioning` (modelled, checked, proved: the two judgements of a CA and the
   identity of a verified device), `NamespaceWriter` (modelled, checked, proved),
   `XSDGate`: decisions and algorithms against a reference definition (modelled and
   checked).
7. Open: of the handshake, proofs of `OutcomeAsNegotiated` and `RefusalIsTold`
   (section 6 says what they would take). `XSDGate` declares RECURSIVE operators and
   stays with TLC.

Compositions: `Receiver` relies on the listener only through `NetListener`'s
promises and `CCMListener!ShutdownCompletes`; `CCMListener` sees the handshake as
"succeeds or fails", which `Handshake12` refines; `TLSConn` sees it as one
critical section. `Handshake12` uses ticket keys and a session cache as if each
call were atomic; `TicketKeys` and `ClientCaches` show what stands behind that.

## 3. Modules

### `CCMListener` (with `NetListener`, `CCMListenerProofs`, `MCListener`)

`acceptLoop` is `loop`, one state per blocking point: `LoopAccept` and
`LoopError` are the return of the inner `Accept`; `LoopCheck`, `LoopCancelled`,
`LoopRecord` are its error branch; `LoopStop` and `LoopExit` the deferred
`close(l.stopped)` and `wg.Done`, in the order Go runs them. `hs[c]` is the
handshake goroutine of connection `c`. `HandshakeContext` starts a second
goroutine, the interrupter (`intr[c]`), which closes the raw connection when the
context ends first and is joined before the call returns: `Interrupt`,
`InterruptQuiet` and `HandshakeReturn`. The contexts form the tree the code
builds, a listener context and a deadline per handshake (`HsCtxDone`). An
unbuffered send and its receive are one action of two parties (`AcceptConn`,
`AcceptTempErr`). `AcceptReturn` is the nested `select` on `l.done`.
`cause` and `handed` are history.

`NetListener` is what `net/http` needs of a listener. `connStatus` maps a
connection to it, and `ImplementsNetListener` is the refinement.

### `Receiver` (with `ReceiverProofs`, `MCReceiver`)

Every successful `Start` is a generation with its own server, listener, `Serve`
goroutine and `doneCh`. `cur` is what the three fields hold, `StopTake` the
critical section that clears them. `net/http` is not part of the repository;
`Serve`, `Shutdown` and `Close` are modelled at the grain on which `Stop`
depends: the `inShutdown` flag set before the mutex, listeners tracked and
counted in `listenerGroup`, the table of connections with their published state,
the poll for idle ones. Closing a connection is not one step: a sweep (`sweep`,
`target`) takes the connections one at a time, and `gotls.Conn.Close` waits for
`c.out`. `alert` says when a Read holds it: a peer sent a record that is answered
with a fatal alert (`ReadAlerts`), and nothing but the peer ends that write, for the
server has no `WriteTimeout`. The handler is one action per blocking point: checks on
method, media type and certificate, the limited body read, decoding, the
dispatcher call, the answer. A request is a record of what the handler can tell
apart; `end` is the byte at which its root element ends, so that "the body is
longer than what was read" and "the document is complete" are separate facts.

### `TLSConn` (with `TLSConnProofs`, `MCConn`)

`hsMu`, `inMu` and `outMu` are the mutexes, `writing` and `closed` the two parts
of `activeCall`. A raw write either completes (the peer has room) or stays: no
fairness makes the peer read. `RecordAdvances`, `RecordRetries`, `RecordEnds`,
`RecordRefused` and `RecordFails` are the outcomes of `readRecordOrCCS` for the
kinds of record it distinguishes. `input` counts the bytes of `c.input`: a data
record has `Size` of them and a Read takes as many as its buffer has room for
(`ReadLoop`; `ReadNothing` is an empty buffer), so that a later Read finds the rest. `ReadLook` is the
look-ahead for `close_notify`, which only a Read that has emptied `c.input` makes.
`hand` is what `c.hand` retains. The look at `isHandshakeComplete`, the lock and the
second look under it are separate steps (`"hs"`, `"hsLock"`, `"hsCheck"`). Nobody
sets a write deadline: only `closeNotify` moves it, and the properties about
`close_notify` rest on that. `net/http` sets one only for a server with a
`WriteTimeout`, which the receiver has not.

### `TLSNegotiation` and `Handshake12` (with `Handshake12Proofs`, `MCHandshake`)

`TLSNegotiation` has what the two sides choose and accept as operators of a
configuration and a hello, one for each function of the code
(`mutualVersion`, `getCertificate`, `pickCipherSuite`, `negotiateALPN`, ...) and
the two CCM configurations. `Allowed` are the versions a configuration permits and
`Newest` the order of the table of versions. Each class of cipher suites that the code tells apart
(key exchange, signature, TLS 1.2 only, default or not) is one suite, the ones
`disabledCipherSuites` names left out; a signature scheme is the family of keys it needs; a chain is its
leaf and its issuer. x509's `Verify` is external (`Verifies`): issuer, purpose,
expiry, no unhandled critical extension.

`Handshake12` runs the client and the server over two channels of records. `pc`
is the message a side waits for, and there is one action per message and side,
which does everything the code does until its next read: check, choose, send,
change keys. `hs` is what `Conn` and the two handshake states hold. Transcripts
are sequences of messages; keys, signatures and Finished values are the tuples
they are computed from, and a record is refused under any key but its own.
`Refuse` is an alert under the key and with the buffering of that moment.
Connections follow one another and share ticket keys, one entry of the session
cache and the clock, whose unit is a day.

A side may be `Free`: a peer of another implementation that sends any message,
ChangeCipherSpec or alert in any order, with proofs only where it has the key.
`Compatible` says without the order of the code's decisions which two
configurations should succeed.

Left out: the encodings of the messages, several messages in one record, records
of a wrong length or version (they fall under "another key"), the limit on
warnings (`TLSConn` has it), `Config` callbacks other than
`VerifyPeerCertificate` (no configuration of the repository sets one),
renegotiation and the key log.

### `TicketKeys` (with `TicketKeysProofs`, `MCTickets`)

Two configurations, the server's own and the one `GetConfigForClient` returns,
each with its `RWMutex`. A `ticketKeys` call is a read under the read lock
(`ReadKeys` and its cases), the wait for the write lock, and the second look under
it (`WriteLegacy`, `WriteRotate`); so are `SetSessionTicketKeys` and `Clone`.
`readers` counts the read locks that nobody will release: only the path of
`common.go:918` leaves one. A waiting writer keeps new readers out, as
`sync.RWMutex` does. A key carries how it came about and when. The keys a rotation
keeps are `Selected` from the old ones by their rank (`Younger` counts those before
a key), so that nothing in the module is recursive.

### `SessionCache` and `ClientCaches` (with `ClientCachesProofs`, `MCCaches`)

`SessionCache` is the promise of `ClientSessionCache`: a key has the session put
last, or none. `ClientCaches` has the list, the map and the reused list element of
`lruSessionCache`, the `sync.Map` of certificates with `LoadOrStore`, the atomic
counts, and finalizers that run at any time once nothing refers to a handle. A
connection loads a session, resumes or shakes hands in full, and stores or drops.

### `Provisioning` (with `ProvisioningProofs`, `MCProvisioning`)

An operator generates a CA or brings one (`ImportCA`), `LoadCA` judges it with the
checks of `validateCA` in their order, leaves are issued, a pool is loaded, and
the hook judges what a peer shows (`Chains`: nothing, something that does not parse,
the leaf alone, followed by its CA or by something that does not parse), while the
clock runs past every boundary. A pool holds the CA, the root that signed it, both or
neither; the root is taken to be good, and longer chains are left out. The short
identifier is computed from the leading 36 bits in two halves, because TLC's integers
have 32, and its eleven digits are written out; `HMNs` are the places of a
HardwareModuleName in the SAN, of which `Extract` reads the first.

### `XSDGate` and `NamespaceWriter` (with `NamespaceWriterProofs`, `MCGate`)

`ParseSchema` turns a schema document into types, or refuses it; `Validate` is the
one pass over the children with the last index and the counts by name;
`CheckStruct` the static check of a Go struct. `Conforms` is the reference: the
language of the content model, particle by particle, with the attributes each type
declares and none on an element of a simple type. `Marshalled` is what
`encoding/xml` can produce from a struct, with integers at the ends of their
types; it shares no operator with `CheckStruct` and follows `encoding/xml`'s own rules
(`TypeInfo`, `Conflicting`, `WireName`, `Mode`): which of two fields of one name wins,
names from an `XMLName`, character data, embedded structs with and without a tag. `MustLoad` and `Place` are the process that loads once and the operator who
moves files.

`NamespaceWriter` is one request: `DetectNamespace` over the pieces between the
commas of an Accept header, a handler that makes any calls on its
`ResponseWriter` (`Handle` says which, `todo` has those still to come, `Call` makes the
next one), the buffer and `flush`. `Replaced` is `bytes.ReplaceAll`: it places each
remaining piece of the body by its rank. `direct` is what the same calls would
have sent without the middleware. The two modules share no state; one run explores
both.

## 4. Runs

| Run | Shows |
|---|---|
| `listener` | two connections, one of them no `*gotls.Conn`, silent peers, an `Accept` and a `Close` caller: ownership, shutdown, final error, logging, the refinement; every handshake ends and every `Close` completes |
| `receiver_life` | two goroutines call `Start`, `Addr`, `Stop` over two generations with a request in flight: a returned `Stop` leaves nothing, no server is out of reach, no answer after `Stop` |
| `receiver_live` | every kind of request around the body limit, with and without a verified certificate: only whole notifications of verified peers reach the dispatcher; `Stop` returns although peers stall and the dispatcher never does, unless a peer leaves an alert unread for ever; a failed `Serve` goroutine ends |
| `conn_write` | two Writes of two records, a Read that answers with alerts, `Close`: contiguous records; `Close` returns unless a Read is stuck writing an alert; after `Close` every call returns |
| `conn_read` | Reads against every sequence of three records, with a Write, `Close` and `CloseWrite` at any time: nothing after `close_notify`, no data lost, useless records bounded |
| `hs_negotiate` | any of 20 client against any of 22 server configurations, then a connection that may resume: both sides succeed exactly when the configurations are compatible, a refusal reaches the peer, every handshake ends |
| `hs_peers` | three connections while certificates expire and ticket keys rotate, and two connections with a client, or a server, that sends anything: completed sides agree, a CCM server never goes around its hook, messages come in order, the peer holds its certificate's key, resumption stays within the session's lifetime and within the `ClientAuth` now configured |
| `tickets_rotate` | two handshake goroutines, one that sets keys or clones, two rotations: one key per period, tickets stay good, set keys win, every call returns |
| `tickets_disabled` | `SetReturns` fails: see section 7 |
| `client_caches` | four connections to three servers, two of which share a certificate, over a cache of two sessions: the cache keeps its promise, dropped sessions stay out, no certificate is leaked |
| `provisioning` | every CA pair, every certificate under it, every pool, every chain, every instant: an accepted CA serves, a refused one would not or breaks a stricter rule, a verified device has its identity |
| `documents` | peers' documents of up to three children, all documents of some structs, good and bad schemas, environments and files that change: validation accepts what conforms and nothing else but attributes of simple-typed elements, the static check prevents what it promises, no test skips by accident; handlers of up to three calls behind the middleware: the client gets the response the handler meant |

**Bounds.** Every interaction in the listener is between one connection's
goroutines, one `Accept` and one `Close`; the second connection shows
interference. The theorems of section 5 remove these bounds, and those on callers,
generations, records, goroutines, capacity, clock and configurations below, for the
properties they state; what is left to the bounds is section 6. `MaxTempErrs = 1` reaches the
temporary-error path before and after `Close`. The receiver's two generations are
the least with a restart. `MaxBody = 2` leaves a body under, at, one above and two
above the limit. `Records = 2` is the least number of records in which two Writes
could interleave; `Size = 2` is the least record of which a short Read leaves some;
three incoming records with `MaxUseless = 1` exceed the limit
and leave room for data before it (one Reader is enough: `c.in` is held through a
Read). The configurations of `hs_negotiate` differ in every field the choices
read. In `hs_peers` a renewed ticket could outlive its session: the keys that seal
tickets expire too, so it takes three connections, and five days with a lifetime of
three and a daily rotation; with a Free side it has two connections, so that
resumption happens, and certificates whose key that side does not have (`Owned`
names the others). Two handshakes on one stale key are what a double rotation
takes, and a third call uses a ticket of the first; three keys over a cache of two
force an eviction, the fourth connection uses what is left. Certificates begin and
end inside the clock's range, so that every boundary is met from both sides. Three
children are the least with a gap between two known ones. Three calls are a header,
a status and a body, or the two halves of a namespace and a late status;
`maxMediaRanges` is two there. A test with a schema of its own reads no file and is
explored in one environment. Symmetry is used in safety runs only; `receiver_life`
also identifies states that differ only in `ret`, the value the last call returned,
which no guard and none of its properties reads.

**Deadlock** is checked in the listener, receiver, connection and handshake runs:
no model stops there, except by a call of the environment that could still come.
The others stop when their bounded calls are used up. `Handshake12!Over` lets the model rest only
when the last connection has ended on both sides.

**Fairness.** Goroutines that can run do run (WF of each goroutine's steps):
Go's scheduler is preemptive. A timer fires. A mutex that is freed again and
again is eventually obtained (SF for lock steps): `sync.Mutex` has a starvation
mode. In the handshake, each side
that follows the protocol reads what has arrived. Nothing is assumed of peers, of the dispatcher, or that anyone calls
anything. `Receiver` assumes that its listener's `Close` returns
(`ListenerClosed`), which is part of `CCMListener!ShutdownCompletes`. That a peer
takes an alert is a premise of `GoroutinesEnd`, not fairness: section 7 says what
happens without it.

## 5. What is proved

Each `...Proofs` module states an inductive invariant `IInv`, proves
`Spec => []IInv` by one step per action, and reads the properties off it; two add a
second one that rests on the first (`Concord`, `Identified`). TLC finds them true on
the instances of the runs (of `NamespaceWriterProofs` without `TypeOK`, whose header
values are strings and numbers that TLC does not compare). The theorems hold for every
value of the constants that satisfies the named assumption.

### `CCMListenerProofs`

Assumed (`ListenerAssumption`): `GoTLS \subseteq Conns`, `NoConn` is no connection,
`Conns` is finite (for the cardinality the WaitGroup counts).

| Theorem | Statement |
|---|---|
| `ListenerInductive` | `Spec => []IInv` |
| `ListenerTypeCorrect` | `Spec => []TypeOK`; with it the WaitGroup is never negative |
| `ListenerHandedIsUsable` | a handed-out connection is open and out of reach of the listener |
| `ListenerCloseLeavesNothing` | a returned `Close` leaves no goroutine |
| `ListenerEveryOpenConnOwned` | no open connection without an owner |
| `ListenerTerminalErrorIsFinal` | the final error is never temporary |
| `ListenerLogTellsPeerFailures` | the log blames peers only, and all of them |
| `ListenerNoHandOutAfterClose` | `Spec => NoHandOutAfterClose`, an action property the refinement also implies |
| `ListenerImplements` | `Spec => NL!Spec`, the refinement |

None of the invariants is inductive alone. `IInv` adds: the WaitGroup counts
exactly the loop until it exits and the handshake goroutines that live (so that
zero means none, which `CloseLeavesNothing` needs); in which states of the
handshake goroutine the interrupter may still fire (so that a connection on offer
can no longer be closed by it); that a connection is held by at most one `Accept`
call and only after its goroutine has let go; that the recorded error agrees with
the context; and that `cause` agrees with how the goroutine failed. The counting
step rests on `FiniteSetTheorems`.

### `ReceiverProofs`

Assumed (`ReceiverAssumption`): the types of the constants; `Nobody` is no caller
and no connection.

| Theorem | Statement |
|---|---|
| `ReceiverInductive`, `ReceiverTypeCorrect` | `Spec => []IInv`, `Spec => []TypeOK` |
| `ReceiverStopLeavesNothing` | a returned `Stop` leaves no `Serve` goroutine, listener or connection of its generation |
| `ReceiverNoOrphanServer` | no server runs out of reach of the fields and of every `Stop` call |
| `ReceiverDispatchIsWhole` | only whole notifications of verified peers are dispatched, and those are acknowledged |
| `ReceiverNoAnswerAfterStop` | no step answers for a generation whose `Stop` has returned |

`IInv` says of every generation that it is current, being stopped by exactly one
caller, or stopped (`Owned`); where its `Serve` goroutine, listener, registration
and `doneCh` can be together (`Served`); that an open connection is in the server's
table or about to be put there by `Serve` (`Linked`); what each stage of `Stop` has
already established (`Stopped`: flag, no tracked listener, no known connection); and
what a handler has read and answered at each step (`Handled`). Without `Linked` a
connection accepted just before `Shutdown` could outlive it.

### `TLSConnProofs`

Assumed (`ConnAssumption`): Readers, Writers, Closers and Shutters are different
goroutines, finitely many Writers, `Free` is none of them, at least one record per
Write.

| Theorem | Statement |
|---|---|
| `ConnInductive`, `ConnTypeCorrect` | `Spec => []IInv`, `Spec => []TypeOK` |
| `ConnNothingAfterCloseNotify` | nothing follows `close_notify` on the wire |
| `ConnWritesNotInterleaved` | the records of a Write are contiguous |
| `ConnNoDataLost` | every byte received was returned once or is pending, for buffers of any length, and nothing is read over pending bytes |
| `ConnUselessBounded` | at most `MaxUseless + 1` useless records in a row |

`IInv`: a goroutine in a critical section holds its mutex (`Owners`); each kind of
goroutine stays on its path (`Paths`); `activeCall` counts exactly the Writes in
flight (`Counted`); a Write in flight has records left, data on the wire has an
author that got `c.out`, and nothing follows the records of the Write that is still
writing (`Tails`); a `close_notify` on the wire has set `notifySent` and left its
deadline behind, which is what keeps a Write that waited for `c.out` from sending
(`Notified`); what a Read took from the inbox, and that a count past the limit means
an error or a Read on its way to the alert (`Counts`).

### `ClientCachesProofs`

Assumed (`ClientCachesAssumption`): a capacity, a certificate for each server, `Nil`
is no connection, server or session.

| Theorem | Statement |
|---|---|
| `CachesInductive`, `CachesTypeCorrect` | `Spec => []IInv`, `Spec => []TypeOK` |
| `CachesDroppedStaysDropped` | a session dropped after a failure never comes back |
| `CachesNoCertificateLeak` | counts are exact, an uncounted entry is about to be counted or evicted |
| `CachesImplementSessionCache` | `Spec => ImplementsSessionCache`, the refinement: map, list and reused element implement `SessionCache` |

`IInv`: no list element twice, each element of the map is in the list and names its
key (`Filed`, without which reusing the oldest element could file two servers under
one); a session in the cache, offered or dropped was saved by its connection and is
its server's (`Issued`); what a connection has at each stage (`Staged`); an entry is
of the certificate it is filed and counted under (`OwnCert`); the count of an entry
is the number of live handles (`Counted`); and the `LoadOrStore` window (`Kept`).

### `TicketKeysProofs`

Assumed (`TicketKeysAssumption`): `Rotation < Lifetime`, as the code's constants of
one and seven days; handshakes are not the goroutines that set or clone.

| Theorem | Statement |
|---|---|
| `TicketsInductive`, `TicketsTypeCorrect` | `Spec => []IInv`, `Spec => []TypeOK` |
| `TicketsOpen` | a key whose tickets are within their lifetime is kept |
| `TicketsSetTakesEffect` | a call after `SetSessionTicketKeys` uses those keys or later ones |
| `TicketsRotateOncePerPeriod` | no step makes a second key within a period |

`IInv`: automatic keys are a period apart, newest first (`Aged`); what keys a
configuration can have been given (`Given`); every key a call has returned is still
accounted for (`Returned`); and, per call, that what it saw under the read lock is
never newer than what it finds under the write lock (`Called`). Lemmas on ranks show
that `Selected` keeps exactly the live keys and their order.

### `ProvisioningProofs`

Assumed (`ProvisioningAssumption`): the types of what an operator brings, and that a
fingerprint is 64 hexadecimal digits, as that of SHA-256 is.

| Theorem | Statement |
|---|---|
| `ProvisioningInductive` | `Spec => []IInv` |
| `ProvisioningCAJudgedExactly` | a CA that is accepted serves its devices for the whole margin; it is accepted exactly when the walk would accept it at both ends of the margin and none of `StricterThanWalk` (the key's own certificate, P-256, a key usage present, self-signed where asked) refuses it; for every CA, margin and validity |
| `ProvisioningVerifiedDeviceHasIdentity` | who passes the hook has the HardwareModuleName it was issued with and a short identifier that checks, the same from its certificate and from its long identifier |

`IInv`: what a generated CA looks like (`Held`), that the last answer of
`LoadCA` is still true of the pair (`Judged`), that a leaf exists only under an
accepted CA and a device's has what the hook asks for (`Issued`), and that a verdict is on a
leaf (`Decided`). `Identified` adds what the SAN of a leaf may hold, and that a verdict's
identifiers are of one fingerprint. The arithmetic is in lemmas: `DecimalFacts` (eleven
digits), `SFDIValid` (the check digit makes their sum a multiple of ten) and
`SFDIOfLFDI` (the long identifier has the nine hexadecimal digits the short one needs).

### `NamespaceWriterProofs`

Assumed (`NamespaceWriterAssumption`): every body is a sequence. Nothing is assumed of the number of calls, of where
bodies are cut or of the Accept header.

`ResponsesUnchanged` is `WriterSpec => []ResponseUnchanged`: the length that `flush` announces
is that of the renamed body and no 2018 name is left in it, for every handler; and a
handler that sets each header once and makes its calls in the order `net/http` asks sends the same status, headers
and renamed body as without the middleware.

`IInv` is `TypeOK`, the property itself and `Kept`: before the handler returns nothing
has reached a client of 2013, the buffer has the body `direct` has and, while the handler is
tidy, the same headers with at most one value each and a status that differs only where a
Write implies one (`Alike`); for a client of 2018 the writer is `direct`. That a
replacement leaves no name needs ranks: `RankFacts` says that the rank is a bijection in
the order of the indices, and `ReplacedFacts` concludes from it that no two neighbours of the
result are a name.

### `Handshake12Proofs`

Assumed (`HandshakeAssumption`): configurations of `ConfigType`, at least one
connection, one server name for all clients with a cache (one entry is modelled),
and that a configuration with the hook is the one
`newCCMServerConfigFromMaterial` builds, since nothing else in the repository sets
`VerifyPeerCertificate`.

| Theorem | Statement |
|---|---|
| `Invariant` | `Spec => []IInv` |
| `CompletedPeerIsVerified` | `Spec => []CCMPeerVerified`: no path around the hook, resumption included |
| `CompletedPeerHasKey` | `Spec => []PeerHoldsItsKey`: a peer that sends anything completes only with a certificate whose key it has |
| `ResumedSessionIsFresh` | `Spec => ResumptionIsFresh`: renewals do not prolong a session, a server resumes only what its present `ClientAuth` would accept, a client only what it verified |
| `CompletedInOrder` | `Spec => []MessagesInOrder`: a completed handshake has every message in its place, whatever the peer sent |
| `CompletedAgree` | `Spec => []Agreement`: two sides that complete have the same parameters, secret, transcript, certificates and keys |

The proof is in two layers. The `...Effect` lemmas reduce each action to its effect:
the side failed and kept its state, or it is in a state that differs in named fields,
waits for a named message and has sent messages of a named set. The `...Step` lemmas
use the effects only. `IInv` is `Frame` (a Free side has no handshake state, a side
that is done has ended) and: what a message in flight carries (`InFlight`: a certificate of a
configuration, a list of versions, a ticket that keeps the day of its full
handshake); the tickets in the server's transcript and in the client's hands
(`Ledger`, `Held`); what a CCM server has negotiated once it has answered the hello
and what the hook let through once it has the certificate (`Hooked`); that a client
holds only sessions it could trust (`Trusting`); and for a Free peer, that a good
signature or Finished is on the wire only under a key it has, one record at a time
(`ClientSigns`, `ServerSigns`), what a server has got past `CertificateVerify`
(`Earned`), and what a client's key share, session and resumption say of the
server's certificate (`Vouched`). The last one is what makes the two ways to
prove a key, a signature on the share and the decryption of the premaster secret,
one argument: without a share the suite is a static RSA one, and then a good Finished
needs the certificate's key.

The last two theorems need a second invariant, `Concord`. `Placed` says for each message
a side can wait for what its transcript is by then, as a prefix of the one shape a full or
a resumed handshake has, which optional messages it has, and that its parameters, keys
and certificates are those its transcript says; `CompletedInOrder` follows from it for one
side, the other being Free or not. `CompletedAgree` has to relate two sides that
never look at each other. `Pledges` does so through the records between them: a Finished
on the wire covers a prefix of what its sender has seen, with the secret its sender has, and if it
is the second one its sender is done. `Joined` says what a side that has checked such a
Finished therefore knows: its transcript is the other's, except that the side which
finishes first is still owed one message. From equal transcripts and secrets `Placed`
gives the rest. One parameter is in no Finished: a resumed session carries its own
extended master secret flag, and `Extended` says that between sides that follow the
protocol every session has it set.

## 6. Only model-checked

* All liveness properties: fairness and `ENABLED` are out of the prover's reach.
* `Handshake12`: `OutcomeAsNegotiated` and `RefusalIsTold`. Both say why a side may
  fail: only for what the two configurations disagree on. That takes an invariant on the
  exact contents of both channels at every pair of positions, so that no side that
  follows the protocol ever refuses what another one sent, and for `OutcomeAsNegotiated` also the
  day on which each certificate was looked at. `Concord` says what is true of the records
  that matter for a side that completes, and is silent on one that fails.
* `XSDGate`: its parser and the language of a content model are RECURSIVE, and what
  they compute for every schema and document is an induction over data.
* `TypeOK` of `Handshake12`: `Frame` is the part of it the theorems need.

## 7. Findings

`Config.ticketKeys` (`common.go:915-918`) takes the read lock of the configuration
`GetConfigForClient` returned and returns without releasing it when that
configuration has tickets disabled. `tickets_disabled` shows that
`SetSessionTicketKeys` on it, which "is safe to call while the server is running",
then never returns; later readers wait behind it. No configuration of this
repository sets `GetConfigForClient`.

Observations made while modelling, without a run of their own:

* `Receiver.Stop` caps the drain at 5 s and then closes every connection "so Stop
  does not block indefinitely" (`receiver.go:273-274`). It can: `Shutdown` and
  `srv.Close` call `gotls.Conn.Close`, which takes `c.out` to send `close_notify`
  (`conn.go:1451`), and a Read that answers a bad record writes its alert under that
  lock without a deadline (`conn.go:855-860`). As long as the peer leaves the alert
  unread and its window is full, `Stop` waits, holding the server's mutex.
  `GoroutinesEnd` therefore has the premise that no alert is left unread for ever.
* `ValidateCA` is stricter than the chain walk: it refuses a CA without a key usage
  extension (`validate.go:93`), with a key on another curve than P-256, with a
  private key of another certificate, and one that is not self-signed when asked. The
  walk reads none of this. `StricterThanWalk` names these rules.
* `Validate` returns from an element of a simple type before it looks at attributes
  (`validate.go:142-156`), although unknown attributes are said to be reported
  (`xsdgate/schema.go:36`) and `schemaVer` to be unknown below the root
  (`validate.go:199-201`). `ValidateExact` says so: what it lets through are such
  attributes only.
* `CheckStruct` does not reach an integer in character data nor a tagged embedded
  struct, as its comment says (`structcheck.go:177-179`), and reads an element's name
  from the field where `encoding/xml` takes it from the `XMLName` of the field's type.
  `Unreached` names these; `StructCheckPrevents` is about structs without them.
* `flattenFields` expands an embedded struct that has an `XMLName`, as `encoding/xml`
  does; its comment says that both treat it as a plain field (`structcheck.go:425-427`).
* On the default path of the schema, a directory or a failing `stat` counts as "not
  found" and skips the test (`schema/schema.go:154`, `170-178`); a file that is
  found and cannot be read fails it. `GateNeverDisarmed` has both.
* `Receiver.Start` is documented as not restartable (`receiver.go:175`), yet a
  `Start` after `Stop` succeeds, even while that `Stop` is still draining. The two
  generations do not disturb each other: `NoOrphanServer` and `StopLeavesNothing`
  hold over both.
* The client's `pickCipherSuite` (`handshake_client.go:523`) looks only at what was
  offered, so a client that offers TLS 1.1 and 1.2 completes with TLS 1.1 and a
  `suiteTLS12` suite if a server picks both; the comment at `cipher_suites.go:124`
  excludes that. The CCM client does not offer TLS 1.1.
* `ParseSchema` refuses an inheritance cycle, but takes a `complexContent` base
  that is declared nowhere for a simple type (`xsdgate/schema.go:532`) where its comment
  (`xsdgate/schema.go:309`) announces an error. `flattenSequence` puts nested sequences
  after the elements around them.
* `CheckStruct` does not report a required element without a field, a slice where
  one element is allowed, or a nil pointer: those are `Validate`'s to find, which is
  why `StructCheckPrevents` names the kinds of problem it does.
* `flush` keeps one value of a header that has several, the last status where
  net/http keeps the first, and headers set after the first byte:
  `ResponseUnchanged` claims equality for handlers that do none of this, as
  `WriteXML` and `MethodNotAllowed` do not.
* `lruSessionCache.Put` with a nil session and an unknown key stores a nil entry,
  which may evict another server's session. A resumed TLS 1.2 client connection
  keeps no handle to the certificate: it assigns its own, empty, list back
  (`handshake_client.go:814`).

## 8. Not modelled

TLS 1.3, QUIC and ECH: no configuration of this repository enables them. What
section 3 lists as left out of the handshake. The arithmetic of AES-CCM, ECDSA and
the PRF: symbolic in every module. Certificate policies, the text of OIDs, PEM and
DER: encodings of what `Provisioning` keeps as fields. The resource structs and
their decoders: data, and pure functions of text, without state or interaction.
Flushing, hijacking and informational statuses behind the middleware. Shell gates
and CI: build tooling.
