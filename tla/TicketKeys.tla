------------------------------- MODULE TicketKeys -------------------------------
(***************************************************************************)
(* The session ticket keys of a server configuration (gotls/common.go) and *)
(* the tickets sealed with them (gotls/ticket.go): Config.ticketKeys with  *)
(* its automatic rotation, SetSessionTicketKeys and Clone, called from any *)
(* number of goroutines while the clock runs.                              *)
(*                                                                         *)
(* Two configurations take part: "own", the one the server was started     *)
(* with, and "forClient", the one its GetConfigForClient callback returns. *)
(* Each has a sync.RWMutex.  A call gives the read lock up to take the     *)
(* write lock and checks again what it saw, so a step of a call is what it *)
(* does with one lock: read under the read lock, ask for the write lock,   *)
(* write under it.  Nothing blocks between an RLock and its RUnlock, so a  *)
(* read is one step, and readers counts the locks that stay behind.        *)
(***************************************************************************)
EXTENDS Naturals, Sequences, FiniteSets

CONSTANTS
    Handshakes,       \* goroutines that call ticketKeys
    Setters,          \* goroutines that call SetSessionTicketKeys
    Cloners,          \* goroutines that call Clone
    Setups,           \* what the application leaves in SessionTicketsDisabled and
                      \* SessionTicketKey of the two configurations
    Rotation,         \* ticketKeyRotation
    Lifetime,         \* ticketKeyLifetime
    MaxTime,          \* bound: instants of the clock
    MaxCalls,         \* bound: ticketKeys calls
    MaxAdmin,         \* bound: SetSessionTicketKeys and Clone calls
    Nobody            \* not a goroutine

Configs == {"own", "forClient"}
Threads == Handshakes \cup Setters \cup Cloners

ASSUME TicketKeysAssumption ==
    /\ Rotation \in Nat \ {0} /\ Lifetime \in Nat /\ Rotation < Lifetime
    /\ MaxTime \in Nat /\ MaxCalls \in Nat /\ MaxAdmin \in Nat
    /\ Setups \subseteq [disabled : SUBSET Configs, legacy : [Configs -> {"zero", "user"}]]
    /\ Nobody \notin Threads /\ Handshakes \cap (Setters \cup Cloners) = {}

VARIABLES
    now,       \* Config.time
    disabled,  \* configurations with SessionTicketsDisabled
    legacy,    \* per configuration, SessionTicketKey: zero, set by the user, or
               \* filled with the DEPRECATED prefix
    explicit,  \* per configuration, sessionTicketKeys
    auto,      \* per configuration, autoSessionTicketKeys
    readers,   \* per configuration, read locks nobody will release
    writer,    \* per configuration, the goroutine that holds or awaits the write lock
    at, on,    \* per goroutine: the step it is at, the configuration it works on
    ks,        \* per goroutine: the keys ticketKeys returned
    ticket,    \* per goroutine: the key of the ticket its ClientHello brings
    held,      \* the key of the ticket a returning client holds
    calls, sets, clones,
               \* calls of ticketKeys, of SetSessionTicketKeys that wrote, of Clone
    asOf       \* history, per handshake: the last set of each configuration when
               \* its call began

dataVars == <<disabled, legacy, explicit, auto>>
lockVars == <<readers, writer>>
histVars == <<held, calls, sets, clones, asOf>>
vars == <<now, dataVars, lockVars, at, on, ks, ticket, histVars>>

\* A key: how it came about, of which configuration, a number that tells the keys
\* of one kind apart and, for the automatic ones, ticketKey.created.
Key(kind, c, n, created) == [kind |-> kind, cfg |-> c, n |-> n, created |-> created]

NoTicket == Key("none", "own", 0, 0)

\* The number of the SetSessionTicketKeys call whose keys c has; 0 if none.
SetOf(c) ==
    IF explicit[c] # <<>> /\ Head(explicit[c]).kind = "set" THEN Head(explicit[c]).n ELSE 0

Init ==
    /\ now = 0
    /\ \E s \in Setups : disabled = s.disabled /\ legacy = s.legacy
    /\ explicit = [c \in Configs |-> <<>>]
    /\ auto = [c \in Configs |-> <<>>]
    /\ readers = [c \in Configs |-> 0]
    /\ writer = [c \in Configs |-> Nobody]
    /\ at = [t \in Threads |-> "idle"]
    /\ on = [t \in Threads |-> "own"]
    /\ ks = [t \in Handshakes |-> <<>>]
    /\ ticket = [t \in Handshakes |-> NoTicket]
    /\ held = NoTicket /\ calls = 0 /\ sets = 0 /\ clones = 0
    /\ asOf = [t \in Handshakes |-> [c \in Configs |-> 0]]

--------------------------------------------------------------------------------
(* sync.RWMutex: a goroutine that asked for the write lock keeps new readers
   out, and has it once the readers that were in have left. *)

Go(t, from, to) == at[t] = from /\ at' = [at EXCEPT ![t] = to]

Unlock(c) == writer' = [writer EXCEPT ![c] = Nobody]

\* RLock, what is done at once under the read lock, and RUnlock.
RLocked(t) == writer[on[t]] = Nobody /\ UNCHANGED readers
\* The same without the RUnlock.
RLockKept(t) == writer[on[t]] = Nobody /\ readers' = [readers EXCEPT ![on[t]] = @ + 1]

Lock(t) ==
    /\ \/ Go(t, "lockLegacy", "writeLegacy")
       \/ Go(t, "lockRotate", "writeRotate")
       \/ Go(t, "lockSet", "writeSet")
    /\ writer[on[t]] = Nobody
    /\ writer' = [writer EXCEPT ![on[t]] = t]
    /\ UNCHANGED <<now, dataVars, readers, on, ks, ticket, histVars>>

Locked(t) == writer[on[t]] = t /\ readers[on[t]] = 0

--------------------------------------------------------------------------------
(* Config.ticketKeys *)

\* readClientHello of a handshake whose ClientHello brings the ticket held; c is
\* "forClient" when GetConfigForClient returned a configuration.  EncryptTicket and
\* DecryptTicket make the call with c = "own".
BeginTicketKeys(t, c) ==
    /\ Go(t, "idle", "read")
    /\ calls < MaxCalls
    /\ calls' = calls + 1
    /\ on' = [on EXCEPT ![t] = c]
    /\ ticket' = [ticket EXCEPT ![t] = held]
    /\ asOf' = [asOf EXCEPT ![t] = [d \in Configs |-> IF c = "own" /\ d # c THEN 0 ELSE SetOf(d)]]
    /\ UNCHANGED <<now, dataVars, lockVars, ks, held, sets, clones>>

\* initLegacySessionTicketKeyRLocked has something to write.
NeedsLegacy(c) ==
    \/ legacy[c] = "zero"
    \/ legacy[c] = "user" /\ explicit[c] = <<>>

Fresh(c) == auto[c] # <<>> /\ now - Head(auto[c]).created < Rotation

\* Each of these is one way through a read section of ticketKeys: a return, or the
\* way to the next lock.
Returns(t, keys) == Go(t, "read", "have") /\ ks' = [ks EXCEPT ![t] = keys]

ReadDisabled(t) ==
    /\ on[t] \in disabled
    /\ Returns(t, <<>>)
    /\ IF on[t] = "own" THEN RLocked(t) ELSE RLockKept(t)
    /\ UNCHANGED on

ReadNeedsLegacy(t) ==
    /\ on[t] \notin disabled /\ NeedsLegacy(on[t])
    /\ Go(t, "read", "lockLegacy")
    /\ RLocked(t)
    /\ UNCHANGED <<on, ks>>

\* Mutant: the read lock is not released before the return.
ReadExplicitKeepsLock(t) ==
    /\ on[t] \notin disabled /\ ~NeedsLegacy(on[t]) /\ explicit[on[t]] # <<>>
    /\ Returns(t, explicit[on[t]])
    /\ RLockKept(t)
    /\ UNCHANGED on

ReadExplicit(t) ==
    /\ on[t] \notin disabled /\ ~NeedsLegacy(on[t]) /\ explicit[on[t]] # <<>>
    /\ Returns(t, explicit[on[t]])
    /\ RLocked(t)
    /\ UNCHANGED on

ReadFallsBack(t) ==
    /\ on[t] = "forClient" /\ on[t] \notin disabled
    /\ ~NeedsLegacy(on[t]) /\ explicit[on[t]] = <<>>
    /\ Go(t, "read", "read")
    /\ RLocked(t)
    /\ on' = [on EXCEPT ![t] = "own"]
    /\ UNCHANGED ks

ReadAuto(t) ==
    /\ on[t] = "own" /\ on[t] \notin disabled
    /\ ~NeedsLegacy(on[t]) /\ explicit[on[t]] = <<>>
    /\ IF Fresh(on[t]) THEN Returns(t, auto[on[t]])
                       ELSE Go(t, "read", "lockRotate") /\ UNCHANGED ks
    /\ RLocked(t)
    /\ UNCHANGED on

ReadKeys(t) ==
    /\ \/ ReadDisabled(t) \/ ReadNeedsLegacy(t) \/ ReadExplicit(t)
       \/ ReadFallsBack(t) \/ ReadAuto(t)
    /\ UNCHANGED <<now, dataVars, writer, ticket, histVars>>

\* Mutant: sessionTicketKeys is not looked at again under the write lock.
WriteLegacyUnchecked(t) ==
    LET c == on[t] IN
    /\ Go(t, "writeLegacy", "read")
    /\ Locked(t)
    /\ legacy' = [legacy EXCEPT ![c] = IF @ = "zero" THEN "deprecated" ELSE @]
    /\ explicit' = [explicit EXCEPT ![c] = IF legacy[c] = "user"
                                           THEN <<Key("legacy", c, 0, 0)>> ELSE @]
    /\ Unlock(c)
    /\ UNCHANGED <<now, disabled, auto, readers, on, ks, ticket, histVars>>

\* initLegacySessionTicketKeyRLocked under the write lock: the conditions are
\* checked again, then the read lock is taken back and the call goes on reading.
\* Nothing makes NeedsLegacy true again, so it may read from the start.
WriteLegacy(t) ==
    LET c == on[t] IN
    /\ Go(t, "writeLegacy", "read")
    /\ Locked(t)
    /\ legacy' = [legacy EXCEPT ![c] = IF @ = "zero" THEN "deprecated" ELSE @]
    /\ explicit' = [explicit EXCEPT ![c] = IF legacy[c] = "user" /\ @ = <<>>
                                           THEN <<Key("legacy", c, 0, 0)>> ELSE @]
    /\ Unlock(c)
    /\ UNCHANGED <<now, disabled, auto, readers, on, ks, ticket, histVars>>

\* The keys after a rotation: a new one first, and the old ones that still live.
\* Random keys differ: n counts the keys created at one instant.
NewKey(c) == Key("auto", c, Cardinality({i \in DOMAIN auto[c] : auto[c][i].created = now}), now)

\* The elements of s at the indices in I, in their order: SelectSeq by rank, so that
\* it can be reasoned about without induction.
Selected(s, I) ==
    [n \in 1 .. Cardinality(I) |-> s[CHOOSE i \in I : Cardinality({j \in I : j <= i}) = n]]

Younger(c, age) == {i \in DOMAIN auto[c] : now - auto[c][i].created < age}

\* Mutant: keys are kept for the rotation period instead of their lifetime.
RotatedForgetful(c) == <<NewKey(c)>> \o Selected(auto[c], Younger(c, Rotation))

Rotated(c) == <<NewKey(c)>> \o Selected(auto[c], Younger(c, Lifetime))

\* Mutant: the age of the key is not looked at again under the write lock.
WriteRotateUnchecked(t) ==
    LET c == on[t] IN
    /\ Go(t, "writeRotate", "last")
    /\ Locked(t)
    /\ auto' = [auto EXCEPT ![c] = Rotated(c)]
    /\ ks' = [ks EXCEPT ![t] = Rotated(c)]
    /\ Unlock(c)
    /\ UNCHANGED <<now, disabled, legacy, explicit, readers, on, ticket, histVars>>

WriteRotate(t) ==
    LET c == on[t]
        keys == IF Fresh(c) THEN auto[c] ELSE Rotated(c) IN
    /\ Go(t, "writeRotate", "last")
    /\ Locked(t)
    /\ auto' = [auto EXCEPT ![c] = keys]
    /\ ks' = [ks EXCEPT ![t] = keys]
    /\ Unlock(c)
    /\ UNCHANGED <<now, disabled, legacy, explicit, readers, on, ticket, histVars>>

\* The deferred RLock and RUnlock: the call waits for a writer and is through.
LastRLock(t) ==
    /\ Go(t, "last", "have")
    /\ writer[on[t]] = Nobody
    /\ UNCHANGED <<now, dataVars, lockVars, on, ks, ticket, histVars>>

\* decryptTicket tries every key.
Opens(k, keys) == \E i \in DOMAIN keys : keys[i] = k

\* encryptTicket seals with the first key, and fails without one; the client keeps
\* the new ticket or the one it had.
SealTicket(t) ==
    /\ Go(t, "have", "idle")
    /\ held' \in {held} \cup (IF ks[t] = <<>> THEN {} ELSE {Head(ks[t])})
    /\ ks' = [ks EXCEPT ![t] = <<>>]
    /\ ticket' = [ticket EXCEPT ![t] = NoTicket]
    /\ asOf' = [asOf EXCEPT ![t] = [c \in Configs |-> 0]]
    /\ on' = [on EXCEPT ![t] = "own"]
    /\ UNCHANGED <<now, dataVars, lockVars, calls, sets, clones>>

--------------------------------------------------------------------------------
(* Config.SetSessionTicketKeys and Config.Clone *)

BeginSet(t, c) ==
    /\ Go(t, "idle", "lockSet")
    /\ sets + clones < MaxAdmin
    /\ on' = [on EXCEPT ![t] = c]
    /\ UNCHANGED <<now, dataVars, lockVars, ks, ticket, histVars>>

WriteSet(t) ==
    LET c == on[t] IN
    /\ Go(t, "writeSet", "idle")
    /\ Locked(t)
    /\ sets' = sets + 1
    /\ explicit' = [explicit EXCEPT ![c] = <<Key("set", c, sets + 1, 0)>>]
    /\ Unlock(c)
    /\ UNCHANGED <<now, disabled, legacy, auto, readers, on, ks, ticket, held, calls, clones, asOf>>

BeginClone(t, c) ==
    /\ Go(t, "idle", "read")
    /\ sets + clones < MaxAdmin
    /\ clones' = clones + 1
    /\ on' = [on EXCEPT ![t] = c]
    /\ UNCHANGED <<now, dataVars, lockVars, ks, ticket, held, calls, sets, asOf>>

\* The fields are copied under the read lock; the copy is a configuration of its
\* own with a mutex of its own.
Clone(t) ==
    /\ Go(t, "read", "idle")
    /\ RLocked(t)
    /\ UNCHANGED <<now, dataVars, writer, on, ks, ticket, histVars>>

--------------------------------------------------------------------------------
Tick ==
    /\ now < MaxTime
    /\ now' = now + 1
    /\ UNCHANGED <<dataVars, lockVars, at, on, ks, ticket, histVars>>

HandshakeStep(t) ==
    \/ ReadKeys(t) \/ Lock(t) \/ WriteLegacy(t) \/ WriteRotate(t)
    \/ LastRLock(t) \/ SealTicket(t)
SetterStep(t) == Lock(t) \/ WriteSet(t)
ClonerStep(t) == Clone(t)

Next ==
    \/ Tick
    \/ \E t \in Handshakes, c \in Configs : BeginTicketKeys(t, c)
    \/ \E t \in Handshakes : HandshakeStep(t)
    \/ \E t \in Setters, c \in Configs : BeginSet(t, c)
    \/ \E t \in Setters : SetterStep(t)
    \/ \E t \in Cloners, c \in Configs : BeginClone(t, c)
    \/ \E t \in Cloners : ClonerStep(t)

Spec == Init /\ [][Next]_vars

\* A goroutine whose next step stays possible takes it; nobody is made to call.
Fairness ==
    /\ \A t \in Handshakes : WF_vars(HandshakeStep(t))
    /\ \A t \in Setters : WF_vars(SetterStep(t))
    /\ \A t \in Cloners : WF_vars(ClonerStep(t))

FairSpec == Spec /\ Fairness

--------------------------------------------------------------------------------
(* Properties *)

Keys == [kind : {"none", "auto", "legacy", "set"}, cfg : Configs, n : Nat, created : Nat]

\* Type invariant.
DataType ==
    /\ now \in Nat /\ disabled \subseteq Configs
    /\ legacy \in [Configs -> {"zero", "user", "deprecated"}]
    /\ explicit \in [Configs -> Seq(Keys)] /\ auto \in [Configs -> Seq(Keys)]
LockType ==
    /\ readers \in [Configs -> Nat] /\ writer \in [Configs -> Threads \cup {Nobody}]
CallType ==
    /\ at \in [Threads -> {"idle", "read", "lockLegacy", "writeLegacy", "lockRotate",
                           "writeRotate", "last", "have", "lockSet", "writeSet"}]
    /\ on \in [Threads -> Configs]
    /\ ks \in [Handshakes -> Seq(Keys)] /\ ticket \in [Handshakes -> Keys]
HistType ==
    /\ held \in Keys /\ calls \in Nat /\ sets \in Nat /\ clones \in Nat
    /\ asOf \in [Handshakes -> [Configs -> Nat]]
TypeOK == DataType /\ LockType /\ CallType /\ HistType

\* However many handshakes find the current key too old at once, one new key is
\* made per period; and no handshake gets a current key that is due for rotation
\* (what the second check under the write lock is for).
RotatesOncePerPeriod ==
    [][/\ \A i, j \in DOMAIN auto'["own"] :
             i < j => auto'["own"][i].created - auto'["own"][j].created >= Rotation
       /\ \A t \in Handshakes :
             LET keys == ks'[t] IN
             keys # ks[t] /\ keys # <<>> /\ keys[1].kind = "auto"
             => now - keys[1].created < Rotation]_vars

\* A client that comes back with a ticket is not turned away by a rotation: an
\* automatic key younger than its lifetime, and the key of the last
\* SetSessionTicketKeys, are among the keys any later handshake on that
\* configuration gets.
TicketsStillOpen ==
    \A t \in Handshakes :
        LET k == ticket[t] IN
        at[t] = "have" /\ k # NoTicket /\ k.cfg = on[t] /\ on[t] \notin disabled
          /\ (IF k.kind = "auto" THEN explicit[on[t]] = <<>> /\ now - k.created < Lifetime
              ELSE explicit[on[t]] = <<k>>)
        => Opens(k, ks[t])

\* A handshake that begins after SetSessionTicketKeys has returned uses the keys of
\* that call or of a later one: neither a rotation in progress nor the legacy
\* SessionTicketKey brings older keys back.
SetTakesEffect ==
    \A t \in Handshakes :
        LET Sees(c) == Head(ks[t]).kind = "set" /\ Head(ks[t]).cfg = c
                       /\ Head(ks[t]).n >= asOf[t][c] IN
        at[t] = "have" /\ ks[t] # <<>> =>
            /\ asOf[t]["forClient"] > 0 => Sees("forClient")
            /\ asOf[t]["own"] > 0 /\ on[t] = "own" => Sees("own")

\* Every call of ticketKeys, SetSessionTicketKeys and Clone returns: the way from
\* the read lock to the write lock and back never leaves a lock behind.
LockCallsReturn ==
    \A t \in Threads : at[t] # "idle" ~> at[t] = "idle"

\* "It is safe to call this function while the server is running in order to rotate
\* the session ticket keys" (common.go): SetSessionTicketKeys returns.
SetReturns ==
    \A t \in Setters : at[t] # "idle" ~> at[t] = "idle"
================================================================================
