--------------------------- MODULE ProvisioningProofs ---------------------------
(***************************************************************************)
(* What Provisioning promises for every CA an operator may bring, every    *)
(* margin, validity and instant: a proof that the checks of ValidateCA     *)
(* predict the chain walk of the verification hook, up to the rules in     *)
(* which they are stricter, and that who passes the hook has an identity,  *)
(* for every fingerprint.                                                  *)
(***************************************************************************)
EXTENDS Provisioning, SequenceTheorems, WellFoundedInduction, TLAPS

\* The checks of validateCA pass at t and leave the margin: what "nil" stands for.
Sound(pair, t, margin) ==
    LET c == pair.cert IN
    /\ pair.key = c.key
    /\ c.isCA /\ c.usage = "certSign" /\ ~c.critical /\ Usable(c.eku, c.unknownEKU)
    /\ c.notBefore <= t /\ t + margin <= c.notAfter

\* The CA is none, an operator's or the one GenerateCA makes.
Held ==
    /\ now \in 0 .. MaxTime
    /\ ca # NoPair => /\ ca.cert.notBefore \in Int /\ ca.cert.notAfter \in Int
                      /\ ca.cert.usage \in {"certSign", "other", "absent"}
    /\ made => /\ ca # NoPair /\ ca.key = OwnKey /\ ca.cert.key = OwnKey /\ ca.cert.signer = "ca"
               /\ ca.cert.isCA /\ ca.cert.usage = "certSign" /\ ca.cert.eku = {}
               /\ ~ca.cert.unknownEKU /\ ~ca.cert.critical

\* What LoadCA last said is still true of the pair.
Judged ==
    /\ load.at \in Nat /\ load.margin \in Nat
    /\ load.result = "nil" => ca # NoPair /\ Sound(ca, load.at, load.margin)

\* A leaf exists only under a CA that was accepted; one of a device passes the
\* hook from its issue on, as far as it goes.
Issued ==
    /\ leaf # NoLeaf => load.result = "nil"
    /\ leaf # NoLeaf /\ leaf.kind = "device" =>
          /\ leaf.signer = ca.cert.key.id /\ Acknowledged(leaf) = {}
          /\ leaf.notBefore \in Int /\ leaf.notBefore <= now /\ leaf.notAfter = Forever
          /\ "client" \in leaf.eku

\* A verdict is given once, on a leaf.
Decided == leaf = NoLeaf => verdict = NoVerdict

\* The inductive invariant.
IInv == Held /\ Judged /\ Issued /\ Decided /\ CAJudgedExactly

--------------------------------------------------------------------------------
(* Lemmas about ValidateCA *)

\* The constants are numbers.
LEMMA Bounds ==
    /\ Skew \in Nat /\ MaxTime \in Nat /\ Years \subseteq Nat /\ Margins \subseteq Nat
    /\ \A t \in 0 .. MaxTime : t \in Nat
  <1>1. Skew \in Nat \ {0} /\ MaxTime \in Nat /\ Years \subseteq Nat /\ Margins \subseteq Nat
    BY ProvisioningAssumption, Zenon
  <1> QED
    BY <1>1

\* Numbers have a least element.
LEMMA Least ==
    ASSUME NEW S \in SUBSET Nat, S # {}
    PROVE  \E i \in S : \A j \in S : i <= j
  <1> DEFINE R == OpToRel(<, Nat)
  <1>1. IsWellFoundedOn(R, Nat)
    BY NatLessThanWellFounded
  <1>2. \A x, y \in Nat : x < y => <<x, y>> \in R
    BY DEF OpToRel
  <1> HIDE DEF R
  <1>3. PICK x \in S : \A y \in S : ~(<<y, x>> \in R)
    BY <1>1, WFMin
  <1>4. \A y \in S : ~(y < x)
    BY <1>2, <1>3
  <1>5. \A y \in S : x <= y
    BY <1>4
  <1> QED
    BY <1>5

\* The first failing check is one that fails, and there is one unless all pass.
LEMMA FirstFailingFacts ==
    ASSUME NEW checks, NEW m \in Nat, DOMAIN checks = 1 .. m, \A i \in 1 .. m : checks[i][1] # "nil"
    PROVE  /\ FirstFailing(checks) = "nil" => \A i \in 1 .. m : ~checks[i][2]
           /\ FirstFailing(checks) # "nil" =>
                 \E i \in 1 .. m : checks[i][2] /\ FirstFailing(checks) = checks[i][1]
  <1> DEFINE failing == {i \in DOMAIN checks : checks[i][2]}
             first == CHOOSE i \in failing : \A j \in failing : i <= j
  <1>1. CASE failing = {}
    BY <1>1 DEF FirstFailing
  <1>2. CASE failing # {}
    <2>1. failing \in SUBSET Nat
      OBVIOUS
    <2>2. \E i \in failing : \A j \in failing : i <= j
      BY <1>2, <2>1, Least
    <2>3. first \in failing
      BY <2>2
    <2>4. FirstFailing(checks) = checks[first][1]
      BY <1>2 DEF FirstFailing
    <2> HIDE DEF first
    <2>5. first \in 1 .. m /\ checks[first][2]
      BY <2>3
    <2> QED
      BY <2>4, <2>5
  <1> QED
    BY <1>1, <1>2

\* validateCA: "nil" means that none of its conditions is met, an error that its own
\* one is.
LEMMA ValidateFacts ==
    ASSUME NEW c, NEW k, NEW t, NEW margin, NEW self,
           NEW r, r = FirstFailing(Checks(c, k, t, margin, self))
    PROVE  /\ r = "nil" =>
                 /\ k = c.key /\ c.isCA /\ c.usage = "certSign" /\ ~c.critical
                 /\ k.alg = "P256" /\ ~(self /\ c.signer # c.key.id)
                 /\ ~((c.eku # {} \/ c.unknownEKU) /\ c.eku \cap {"client", "any"} = {})
                 /\ ~(t < c.notBefore) /\ ~Expired(c, t) /\ ~TooLittleLeft(c, t, margin)
           /\ r # "nil" =>
                 \/ r = "ErrCAKeyType" /\ c.key.alg = "rsa"
                 \/ r = "ErrCAKeyMismatch" /\ k # c.key
                 \/ r = "ErrCACurve" /\ k.alg # "P256"
                 \/ r = "ErrCANotCA" /\ ~c.isCA
                 \/ r = "ErrCAKeyUsage" /\ c.usage # "certSign"
                 \/ r = "ErrCACriticalExtension" /\ c.critical
                 \/ /\ r = "ErrCAExtKeyUsage"
                    /\ (c.eku # {} \/ c.unknownEKU) /\ c.eku \cap {"client", "any"} = {}
                 \/ r = "ErrCANotYetValid" /\ t < c.notBefore
                 \/ r = "ErrCAExpired" /\ Expired(c, t)
                 \/ r = "ErrCAExpiringSoon" /\ TooLittleLeft(c, t, margin)
                 \/ r = "ErrCANotSelfSigned" /\ self /\ c.signer # c.key.id
  <1> DEFINE q == Checks(c, k, t, margin, self)
  <1>1. DOMAIN q = 1 .. 11
    BY DEF Checks
  <1>2. /\ q[1][1] = "ErrCAKeyType" /\ (q[1][2] <=> c.key.alg = "rsa")
        /\ q[2][1] = "ErrCAKeyMismatch" /\ (q[2][2] <=> k # c.key)
        /\ q[3][1] = "ErrCACurve" /\ (q[3][2] <=> k.alg # "P256")
        /\ q[4][1] = "ErrCANotCA" /\ (q[4][2] <=> ~c.isCA)
        /\ q[5][1] = "ErrCAKeyUsage" /\ (q[5][2] <=> c.usage # "certSign")
        /\ q[6][1] = "ErrCACriticalExtension" /\ (q[6][2] <=> c.critical)
        /\ q[7][1] = "ErrCAExtKeyUsage"
        /\ q[7][2] <=> (c.eku # {} \/ c.unknownEKU) /\ c.eku \cap {"client", "any"} = {}
        /\ q[8][1] = "ErrCANotYetValid" /\ (q[8][2] <=> t < c.notBefore)
        /\ q[9][1] = "ErrCAExpired" /\ (q[9][2] <=> Expired(c, t))
        /\ q[10][1] = "ErrCAExpiringSoon" /\ (q[10][2] <=> TooLittleLeft(c, t, margin))
        /\ q[11][1] = "ErrCANotSelfSigned" /\ (q[11][2] <=> (self /\ c.signer # c.key.id))
    BY DEF Checks
  <1> HIDE DEF q
  <1>3. \A i \in 1 .. 11 : i = 1 \/ i = 2 \/ i = 3 \/ i = 4 \/ i = 5 \/ i = 6 \/ i = 7 \/ i = 8
                           \/ i = 9 \/ i = 10 \/ i = 11
    OBVIOUS
  <1>4. \A i \in 1 .. 11 : q[i][1] # "nil"
    BY <1>2, <1>3
  <1>5. /\ r = "nil" => \A i \in 1 .. 11 : ~q[i][2]
        /\ r # "nil" => \E i \in 1 .. 11 : q[i][2] /\ r = q[i][1]
    BY <1>1, <1>4, FirstFailingFacts DEF q
  <1>6. CASE r = "nil"
    <2>1. \A i \in 1 .. 11 : ~q[i][2]
      BY <1>5, <1>6
    <2>2. /\ ~q[2][2] /\ ~q[3][2] /\ ~q[4][2] /\ ~q[5][2] /\ ~q[6][2]
          /\ ~q[7][2] /\ ~q[8][2] /\ ~q[9][2] /\ ~q[10][2] /\ ~q[11][2]
      BY <2>1
    <2> QED
      BY <1>2, <1>6, <2>2, Zenon
  <1>7. CASE r # "nil"
    <2>1. PICK i \in 1 .. 11 : q[i][2] /\ r = q[i][1]
      BY <1>5, <1>7
    <2>2. CASE i = 1
      BY <1>2, <1>7, <2>1, <2>2
    <2>3. CASE i = 2
      BY <1>2, <1>7, <2>1, <2>3
    <2>4. CASE i = 3
      BY <1>2, <1>7, <2>1, <2>4
    <2>5. CASE i = 4
      BY <1>2, <1>7, <2>1, <2>5
    <2>6. CASE i = 5
      BY <1>2, <1>7, <2>1, <2>6
    <2>7. CASE i = 6
      BY <1>2, <1>7, <2>1, <2>7
    <2>8. CASE i = 7
      BY <1>2, <1>7, <2>1, <2>8
    <2>9. CASE i = 8
      BY <1>2, <1>7, <2>1, <2>9
    <2>10. CASE i = 9
      BY <1>2, <1>7, <2>1, <2>10
    <2>11. CASE i = 10
      BY <1>2, <1>7, <2>1, <2>11
    <2>12. CASE i = 11
      BY <1>2, <1>7, <2>1, <2>12
    <2> QED
      BY <1>3, <2>1, <2>2, <2>3, <2>4, <2>5, <2>6, <2>7, <2>8, <2>9, <2>10, <2>11, <2>12
  <1> QED
    BY <1>6, <1>7

\* LoadCA of a readable pair: accepted, it is sound at that time and for the margin
\* and breaks no stricter rule; refused, the chain walk shares the cause or a stricter
\* rule is broken, and GenerateCA's is refused for its validity alone.
LEMMA ParseFacts ==
    ASSUME Held, ca # NoPair, NEW t \in Nat, NEW margin \in Nat, NEW self \in BOOLEAN,
           NEW r, r = ParseCAPair(ca, t, margin, self)
    PROVE  /\ r = "nil" => Sound(ca, t, margin) /\ ~StricterThanWalk(ca, self)
           /\ r # "nil" =>
                 \/ ~CAVerifies(ca.cert, t) \/ ~CAVerifies(ca.cert, t + margin)
                 \/ StricterThanWalk(ca, self)
           /\ r # "nil" /\ made => t < ca.cert.notBefore \/ t + margin > ca.cert.notAfter
  <1> DEFINE c == ca.cert
             k == ca.key
  <1>1. /\ c.notBefore \in Int /\ c.notAfter \in Int
        /\ c.usage \in {"certSign", "other", "absent"}
    BY DEF Held
  <1>2. CASE k.alg = "rsa"
    <2>1. r = "parse"
      BY <1>2 DEF ParseCAPair
    <2>2. ~made
      BY <1>2 DEF Held, OwnKey
    <2>3. StricterThanWalk(ca, self)
      BY <1>2 DEF StricterThanWalk
    <2> QED
      BY <2>1, <2>2, <2>3
  <1>3. CASE k.alg # "rsa"
    <2>1. r = FirstFailing(Checks(c, k, t, margin, self))
      BY <1>3 DEF ParseCAPair
    <2>2. CASE r = "nil"
      <3>1. /\ k = c.key /\ c.isCA /\ c.usage = "certSign" /\ ~c.critical
            /\ k.alg = "P256" /\ ~(self /\ c.signer # c.key.id)
            /\ ~((c.eku # {} \/ c.unknownEKU) /\ c.eku \cap {"client", "any"} = {})
            /\ ~(t < c.notBefore) /\ ~Expired(c, t) /\ ~TooLittleLeft(c, t, margin)
        <4>1. "nil" = FirstFailing(Checks(c, k, t, margin, self))
          BY <2>1, <2>2
        <4> HIDE DEF c, k
        <4>2. /\ k = c.key /\ c.isCA /\ c.usage = "certSign" /\ ~c.critical
              /\ k.alg = "P256" /\ ~(self /\ c.signer # c.key.id)
          BY <4>1, ValidateFacts
        <4>3. ~((c.eku # {} \/ c.unknownEKU) /\ c.eku \cap {"client", "any"} = {})
          BY <4>1, ValidateFacts
        <4>4. ~(t < c.notBefore) /\ ~Expired(c, t) /\ ~TooLittleLeft(c, t, margin)
          BY <4>1, ValidateFacts
        <4> QED
          BY <4>2, <4>3, <4>4
      <3>2. Usable(c.eku, c.unknownEKU)
        BY <3>1, Zenon DEF Usable
      <3>3. c.notBefore <= t /\ t + margin <= c.notAfter
        BY <1>1, <3>1 DEF Expired, TooLittleLeft
      <3>4. Sound(ca, t, margin)
        BY <3>1, <3>2, <3>3 DEF Sound
      <3>5. ~StricterThanWalk(ca, self)
        BY <3>1 DEF StricterThanWalk
      <3> QED
        BY <2>2, <3>4, <3>5
    <2>3. CASE r # "nil"
      <3>1. \/ r = "ErrCAKeyType" /\ c.key.alg = "rsa"
            \/ r = "ErrCAKeyMismatch" /\ k # c.key
            \/ r = "ErrCACurve" /\ k.alg # "P256"
            \/ r = "ErrCANotCA" /\ ~c.isCA
            \/ r = "ErrCAKeyUsage" /\ c.usage # "certSign"
            \/ r = "ErrCACriticalExtension" /\ c.critical
            \/ /\ r = "ErrCAExtKeyUsage"
               /\ (c.eku # {} \/ c.unknownEKU) /\ c.eku \cap {"client", "any"} = {}
            \/ r = "ErrCANotYetValid" /\ t < c.notBefore
            \/ r = "ErrCAExpired" /\ Expired(c, t)
            \/ r = "ErrCAExpiringSoon" /\ TooLittleLeft(c, t, margin)
            \/ r = "ErrCANotSelfSigned" /\ self /\ c.signer # c.key.id
        BY <2>1, <2>3, ValidateFacts
      <3>2. ASSUME made
            PROVE  t < c.notBefore \/ t + margin > c.notAfter
        <4>1. /\ c.key = OwnKey /\ k = OwnKey /\ c.isCA /\ c.usage = "certSign" /\ ~c.critical
              /\ c.eku = {} /\ ~c.unknownEKU /\ c.signer = "ca"
          BY <3>2 DEF Held
        <4>2. OwnKey.alg = "P256" /\ OwnKey.id = "ca"
          BY DEF OwnKey
        <4>3. \/ r = "ErrCANotYetValid" /\ t < c.notBefore
              \/ r = "ErrCAExpired" /\ Expired(c, t)
              \/ r = "ErrCAExpiringSoon" /\ TooLittleLeft(c, t, margin)
          BY <3>1, <4>1, <4>2
        <4> QED
          BY <1>1, <4>3 DEF Expired, TooLittleLeft
      <3>3. CASE t < c.notBefore \/ Expired(c, t) \/ TooLittleLeft(c, t, margin)
        <4>1. ~(c.notBefore <= t /\ t + margin <= c.notAfter)
          BY <1>1, <3>3 DEF Expired, TooLittleLeft
        <4>2. ~CAVerifies(c, t) \/ ~CAVerifies(c, t + margin)
          BY <4>1 DEF CAVerifies
        <4> QED
          BY <2>3, <3>2, <4>2
      <3>4. CASE ~c.isCA \/ c.usage = "other" \/ c.critical
                 \/ ((c.eku # {} \/ c.unknownEKU) /\ c.eku \cap {"client", "any"} = {})
        <4>1. ~c.isCA \/ c.usage = "other" \/ c.critical \/ ~Usable(c.eku, c.unknownEKU)
          BY <3>4 DEF Usable
        <4>2. ~CAVerifies(c, t)
          BY <4>1 DEF CAVerifies
        <4> QED
          BY <2>3, <3>2, <4>2
      <3>5. CASE \/ c.key.alg = "rsa" \/ k # c.key \/ k.alg # "P256" \/ c.usage = "absent"
                 \/ self /\ c.signer # c.key.id
        <4>1. StricterThanWalk(ca, self)
          BY <1>3, <3>5 DEF StricterThanWalk
        <4> QED
          BY <2>3, <3>2, <4>1
      <3> QED
        BY <1>1, <3>1, <3>3, <3>4, <3>5
    <2> QED
      BY <2>2, <2>3
  <1> QED
    BY <1>2, <1>3

--------------------------------------------------------------------------------
(* The inductive invariant *)

\* The initial states satisfy the invariant.
LEMMA InitIInv == Init => IInv
  <1> SUFFICES ASSUME Init PROVE IInv
    OBVIOUS
  <1>1. Held
    BY Bounds DEF Init, Held
  <1>2. Judged /\ Issued /\ Decided
    BY DEF Init, Judged, Issued, Decided, NoLoad
  <1>3. CAJudgedExactly
    BY DEF Init, CAJudgedExactly, AcceptedCAServes, RefusedForCause, NoLoad
  <1> QED
    BY <1>1, <1>2, <1>3 DEF IInv

\* A pair that is not there cannot have been accepted, nor have issued anything.
LEMMA NothingYet ==
    ASSUME IInv, ca = NoPair
    PROVE  load.result # "nil" /\ leaf = NoLeaf /\ verdict = NoVerdict /\ ~made
  BY DEF IInv, Held, Judged, Issued, Decided

\* GenerateCA and ImportCA: the pair is new and not judged yet.
LEMMA NewPair ==
    ASSUME IInv, ca = NoPair, load' = NoLoad, UNCHANGED <<now, leaf, pool, verdict>>, Held'
    PROVE  IInv'
  <1>1. leaf' = NoLeaf /\ verdict' = NoVerdict
    BY NothingYet
  <1>2. Judged' /\ Issued' /\ Decided'
    BY <1>1 DEF Judged, Issued, Decided, NoLoad
  <1>3. CAJudgedExactly'
    BY <1>1 DEF CAJudgedExactly, AcceptedCAServes, RefusedForCause, NoLoad
  <1> QED
    BY <1>2, <1>3 DEF IInv

\* LoadCA with one set of options or none.
LEMMA LoadStep ==
    ASSUME IInv, NEW opts, NEW a \in Nat, NEW margin \in Nat, NEW self \in BOOLEAN, LoadCA(opts),
           load'.at = a, load'.margin = margin, load'.selfSigned = self,
           \/ load'.result \in {"read", "ErrLoadCATooManyOptions"}
           \/ ca # NoPair /\ load'.result = ParseCAPair(ca, a, margin, self)
    PROVE  IInv'
  <1>1. leaf = NoLeaf /\ verdict = NoVerdict /\ UNCHANGED <<now, ca, made, leaf, pool, verdict>>
    BY DEF LoadCA
  <1>2. Held'
    BY <1>1 DEF IInv, Held
  <1>3. Issued' /\ Decided'
    BY <1>1 DEF Issued, Decided
  <1>4. AcceptedCAServes'
    BY <1>1 DEF AcceptedCAServes
  <1>5. CASE load'.result \in {"read", "ErrLoadCATooManyOptions"}
    BY <1>1, <1>2, <1>3, <1>4, <1>5 DEF IInv, Judged, CAJudgedExactly, RefusedForCause
  <1>6. CASE ca # NoPair /\ load'.result = ParseCAPair(ca, a, margin, self)
    <2> DEFINE r == load'.result
    <2>1. a + margin \in Nat
      OBVIOUS
    <2>2. /\ r = "nil" => Sound(ca, a, margin) /\ ~StricterThanWalk(ca, self)
          /\ r # "nil" =>
                \/ ~CAVerifies(ca.cert, a) \/ ~CAVerifies(ca.cert, a + margin)
                \/ StricterThanWalk(ca, self)
          /\ r # "nil" /\ made => a < ca.cert.notBefore \/ a + margin > ca.cert.notAfter
      BY <1>6, ParseFacts DEF IInv
    <2>3. Judged'
      BY <1>1, <1>6, <2>2 DEF Judged, Sound
    <2>4. r = "nil" => CAVerifies(ca.cert, a) /\ CAVerifies(ca.cert, a + margin)
      BY <1>6, <2>1, <2>2 DEF Sound, CAVerifies, IInv, Held
    <2>5. RefusedForCause'
      BY <1>1, <2>2, <2>4 DEF RefusedForCause, CAVerifies, StricterThanWalk
    <2> QED
      BY <1>2, <1>3, <1>4, <2>3, <2>5 DEF IInv, CAJudgedExactly
  <1> QED
    BY <1>5, <1>6

\* A certificate is issued: the CA that was judged stays, and no verdict is there yet.
LEMMA IssueStep ==
    ASSUME IInv, NEW l, Issues(l),
           l.kind = "device" =>
              /\ l.signer = ca.key.id /\ Acknowledged(l) = {} /\ l.notBefore = now - Skew
              /\ l.notAfter = Forever /\ "client" \in l.eku
    PROVE  IInv'
  <1>1. /\ load.result = "nil" /\ leaf = NoLeaf /\ verdict = NoVerdict /\ leaf' = l
        /\ ca.key = ca.cert.key /\ UNCHANGED <<now, ca, made, load, pool, verdict>>
    BY DEF Issues, IInv, Decided
  <1>2. Held' /\ Judged'
    BY <1>1 DEF IInv, Held, Judged, Sound
  <1>3. now \in Nat /\ Skew \in Nat
    BY Bounds DEF IInv, Held
  <1>4. Issued'
    BY <1>1, <1>3 DEF Issued, Acknowledged, Unhandled, AllHMN
  <1>5. Decided'
    BY <1>1 DEF Decided
  <1>6. CAJudgedExactly'
    BY <1>1 DEF IInv, CAJudgedExactly, AcceptedCAServes, RefusedForCause, NoVerdict, CAVerifies,
         StricterThanWalk
  <1> QED
    BY <1>2, <1>4, <1>5, <1>6 DEF IInv

\* The hook: it accepts a device for as long as its CA was accepted for.
LEMMA VerifyStep ==
    ASSUME IInv, NEW chain \in Chains, NEW fp \in Prints, VerifyPeer(chain, fp)
    PROVE  IInv'
  <1>1. /\ leaf # NoLeaf /\ verdict'.at = now /\ verdict'.shown = chain
        /\ UNCHANGED <<now, ca, made, load, leaf, pool>>
    BY DEF VerifyPeer
  <1>2. Held' /\ Judged'
    BY <1>1 DEF IInv, Held, Judged, Sound
  <1>3. Issued'
    BY <1>1 DEF IInv, Issued, Acknowledged, Unhandled, AllHMN
  <1>4. Decided'
    BY <1>1 DEF Decided
  <1>5. RefusedForCause'
    BY <1>1 DEF IInv, CAJudgedExactly, RefusedForCause, CAVerifies, StricterThanWalk
  <1>6. AcceptedCAServes'
    <2> SUFFICES ASSUME leaf.kind = "device",
                        \/ chain \in {<<"leaf">>, <<"leaf", "ca">>} /\ "ca" \in pool.anchors
                        \/ /\ chain = <<"leaf", "ca">> /\ ca.cert.signer = "root"
                           /\ "root" \in pool.anchors,
                        load.at <= now, now <= load.at + load.margin
                 PROVE  verdict'.result # "refused"
      BY <1>1 DEF AcceptedCAServes
    <2>1. /\ load.result = "nil" /\ Sound(ca, load.at, load.margin) /\ ca # NoPair
          /\ load.at \in Nat /\ load.margin \in Nat /\ now \in 0 .. MaxTime
      BY <1>1 DEF IInv, Issued, Judged, Held
    <2>2. ca.cert.notBefore \in Int /\ ca.cert.notAfter \in Int
      BY <2>1 DEF IInv, Held
    <2>3. ca.cert.notBefore <= now /\ now <= ca.cert.notAfter
      BY <2>1, <2>2 DEF Sound
    <2>4. CAVerifies(ca.cert, now)
      BY <2>1, <2>3 DEF Sound, CAVerifies
    <2>5. /\ leaf.signer = ca.cert.key.id /\ Acknowledged(leaf) = {}
          /\ leaf.notBefore <= now /\ leaf.notAfter = Forever /\ "client" \in leaf.eku
      BY <1>1 DEF IInv, Issued
    <2>6. now <= Forever
      BY <2>1, Bounds DEF Forever
    <2>7. /\ chain # <<>> /\ "bad" \notin Range(chain)
          /\ chain = <<"leaf", "ca">> => "ca" \in Range(Tail(chain))
      <3>1. chain = <<"leaf">> \/ chain = <<"leaf", "ca">>
        OBVIOUS
      <3>2. CASE chain = <<"leaf">>
        BY <3>2 DEF Range
      <3>3. CASE chain = <<"leaf", "ca">>
        <4>1. Tail(chain) = <<"ca">>
          BY <3>3
        <4>2. 1 \in DOMAIN <<"ca">> /\ <<"ca">>[1] = "ca"
          OBVIOUS
        <4>3. "ca" \in Range(Tail(chain))
          BY <4>1, <4>2 DEF Range
        <4> QED
          BY <3>3, <4>3 DEF Range
      <3> QED
        BY <3>1, <3>2, <3>3
    <2>8. Verifies(leaf, chain, pool.anchors, now)
      BY <2>4, <2>5, <2>6, <2>7 DEF Verifies, Anchored
    <2>9. verdict'.result = "ok"
      BY <2>5, <2>7, <2>8 DEF VerifyPeer
    <2> QED
      BY <2>9
  <1> QED
    BY <1>2, <1>3, <1>4, <1>5, <1>6 DEF IInv, CAJudgedExactly

\* Every step preserves the invariant.
LEMMA NextIInv == IInv /\ [Next]_vars => IInv'
  <1> SUFFICES ASSUME IInv, [Next]_vars PROVE IInv'
    OBVIOUS
  <1>1. CASE Tick \/ UNCHANGED vars
    <2>1. /\ UNCHANGED <<ca, made, load, leaf, pool, verdict>>
          /\ now \in 0 .. MaxTime /\ now' \in 0 .. MaxTime /\ now' >= now
      BY <1>1, Bounds DEF Tick, vars, IInv, Held
    <2>2. Held' /\ Judged'
      BY <2>1 DEF IInv, Held, Judged, Sound
    <2>3. Issued'
      BY <2>1 DEF IInv, Issued, Acknowledged, Unhandled, AllHMN
    <2>4. Decided' /\ CAJudgedExactly'
      BY <2>1 DEF IInv, Decided, CAJudgedExactly, AcceptedCAServes, RefusedForCause, CAVerifies, StricterThanWalk
    <2> QED
      BY <2>2, <2>3, <2>4 DEF IInv
  <1>2. ASSUME NEW y \in Years, GenerateCA(y) PROVE IInv'
    <2> DEFINE cert == [key |-> OwnKey, signer |-> "ca", isCA |-> TRUE, usage |-> "certSign",
                        eku |-> {}, unknownEKU |-> FALSE, critical |-> FALSE,
                        notBefore |-> now - Skew, notAfter |-> NotAfter(y)]
    <2>1. /\ ca = NoPair /\ ca' = [cert |-> cert, key |-> OwnKey] /\ made' = TRUE
          /\ load' = NoLoad /\ UNCHANGED <<now, leaf, pool, verdict>>
      BY <1>2 DEF GenerateCA
    <2>2. now \in 0 .. MaxTime /\ now - Skew \in Int /\ NotAfter(y) \in Int
      BY Bounds DEF IInv, Held, NotAfter, Forever
    <2>3. /\ ca'.cert.notBefore \in Int /\ ca'.cert.notAfter \in Int
          /\ ca'.cert.usage \in {"certSign", "other", "absent"}
      BY <2>1, <2>2
    <2>4. ca' # NoPair
      <3>1. ca'.key.id = "ca" /\ NoPair.key.id = "none"
        BY <2>1 DEF OwnKey, NoPair, NoKey
      <3> QED
        BY <3>1
    <2>5. Held'
      BY <2>1, <2>2, <2>3, <2>4 DEF Held
    <2> QED
      BY <2>1, <2>5, NewPair
  <1>3. ASSUME NEW pair \in Imports, ImportCA(pair) PROVE IInv'
    <2>1. /\ ca = NoPair /\ ca' = pair /\ made' = FALSE
          /\ load' = NoLoad /\ UNCHANGED <<now, leaf, pool, verdict>>
      BY <1>3 DEF ImportCA
    <2>2. /\ pair.cert.notBefore \in Int /\ pair.cert.notAfter \in Int
          /\ pair.cert.usage \in {"certSign", "other", "absent"}
      <3>1. pair.cert \in CACert
        BY ProvisioningAssumption, Zenon
      <3> QED
        BY <3>1 DEF CACert
    <2>3. Held'
      BY <2>1, <2>2 DEF IInv, Held
    <2> QED
      BY <2>1, <2>3, NewPair
  <1>4. CASE LoadCA(<<>>)
    <2>1. now \in Nat /\ 0 \in Nat
      BY Bounds DEF IInv, Held
    <2> DEFINE r == IF ca = NoPair THEN "read" ELSE ParseCAPair(ca, now, 0, FALSE)
    <2>2. load' = [result |-> r, at |-> now, margin |-> 0, selfSigned |-> FALSE]
      BY <1>4 DEF LoadCA
    <2>3. /\ load'.at = now /\ load'.margin = 0 /\ load'.selfSigned = FALSE
          /\ \/ load'.result \in {"read", "ErrLoadCATooManyOptions"}
             \/ ca # NoPair /\ load'.result = ParseCAPair(ca, now, 0, FALSE)
      BY <2>2
    <2>4. FALSE \in BOOLEAN
      OBVIOUS
    <2> QED
      BY <1>4, <2>1, <2>3, <2>4, LoadStep
  <1>5. ASSUME NEW o \in [at : 0 .. MaxTime, margin : Margins, selfSigned : BOOLEAN],
               NEW m \in 1 .. 2, LoadCA([i \in 1 .. m |-> o])
        PROVE  IInv'
    <2> DEFINE opts == [i \in 1 .. m |-> o]
    <2>1. opts # <<>> /\ opts[1] = o /\ o.selfSigned \in BOOLEAN
      OBVIOUS
    <2>2. o.at \in Nat /\ o.margin \in Nat
      <3>1. o.at \in 0 .. MaxTime /\ o.margin \in Margins
        OBVIOUS
      <3> QED
        BY <3>1, Bounds, Zenon
    <2>3. LoadCA(opts)
      BY <1>5
    <2> HIDE DEF opts
    <2>4. /\ load'.at = o.at /\ load'.margin = o.margin /\ load'.selfSigned = o.selfSigned
          /\ \/ load'.result \in {"read", "ErrLoadCATooManyOptions"}
             \/ ca # NoPair /\ load'.result = ParseCAPair(ca, o.at, o.margin, o.selfSigned)
      BY <2>1, <2>3 DEF LoadCA
    <2> QED
      BY <2>1, <2>2, <2>3, <2>4, LoadStep
  <1>6. ASSUME NEW h, NEW serial, GenerateDeviceCert(h, serial) PROVE IInv'
    <2> DEFINE san == HardwareModuleSAN(<<"hmn">>, h, serial)
               l == Leaf("device", san, {"client"}, Forever)
    <2>1. Issues(l)
      BY <1>6 DEF GenerateDeviceCert
    <2>2. san.present /\ san.names = <<"hmn">>
      BY DEF HardwareModuleSAN, CriticalSAN
    <2>3. AllHMN(san)
      <3> HIDE DEF san
      <3>1. san.names # <<>> /\ \A i \in DOMAIN san.names : san.names[i] = "hmn"
        BY <2>2
      <3> QED
        BY <2>2, <3>1 DEF AllHMN
    <2> HIDE DEF san
    <2>4. /\ l.signer = ca.key.id /\ l.notBefore = now - Skew /\ l.notAfter = Forever
          /\ "client" \in l.eku /\ l.san = san
      BY DEF Leaf
    <2>5. Acknowledged(l) = {}
      BY <2>3, <2>4 DEF Acknowledged, Unhandled
    <2> HIDE DEF l
    <2> QED
      BY <2>1, <2>4, <2>5, IssueStep
  <1>7. ASSUME NEW hosts, NEW y, GenerateServerCert(hosts, y) PROVE IInv'
    <2> DEFINE l == Leaf("server", CriticalSAN(hosts), {"server", "client"}, NotAfter(y))
    <2>1. Issues(l) /\ l.kind = "server"
      BY <1>7 DEF GenerateServerCert, Leaf
    <2> HIDE DEF l
    <2> QED
      BY <2>1, IssueStep
  <1>8. ASSUME NEW y, GenerateAdminCert(y) PROVE IInv'
    <2> DEFINE l == Leaf("admin", NoSAN, {"client"}, NotAfter(y))
    <2>1. Issues(l) /\ l.kind = "admin"
      BY <1>8 DEF GenerateAdminCert, Leaf
    <2> HIDE DEF l
    <2> QED
      BY <2>1, IssueStep
  <1>9. CASE GenerateSelfSignedTLS
    <2> DEFINE l == [Leaf("selfSigned", [CriticalSAN(<<"dns">>) EXCEPT !.critical = FALSE],
                          {"server"}, now + 1) EXCEPT !.signer = "itself"]
    <2>1. Issues(l) /\ l.kind = "selfSigned"
      BY <1>9 DEF GenerateSelfSignedTLS, Leaf
    <2> HIDE DEF l
    <2> QED
      BY <2>1, IssueStep
  <1>10. ASSUME NEW names, ForeignLeaf(names) PROVE IInv'
    <2> DEFINE l == Leaf("foreign", HardwareModuleSAN(names, "vendor", "sn"), {"client"}, Forever)
    <2>1. Issues(l) /\ l.kind = "foreign"
      BY <1>10 DEF ForeignLeaf, Leaf
    <2> HIDE DEF l
    <2> QED
      BY <2>1, IssueStep
  <1>11. ASSUME NEW f, NEW e, LoadClientCAs(f, e) PROVE IInv'
    <2>1. verdict = NoVerdict /\ UNCHANGED <<now, ca, made, load, leaf, verdict>>
      BY <1>11 DEF LoadClientCAs
    <2>2. Held' /\ Judged'
      BY <2>1 DEF IInv, Held, Judged, Sound
    <2>3. Issued' /\ Decided'
      BY <2>1 DEF IInv, Issued, Decided, Acknowledged, Unhandled, AllHMN
    <2>4. CAJudgedExactly'
      BY <2>1 DEF IInv, CAJudgedExactly, AcceptedCAServes, RefusedForCause, CAVerifies, NoVerdict
    <2> QED
      BY <2>2, <2>3, <2>4 DEF IInv
  <1>12. ASSUME NEW chain \in Chains, NEW fp \in Prints, VerifyPeer(chain, fp) PROVE IInv'
    BY <1>12, VerifyStep
  <1> QED
    BY <1>1, <1>2, <1>3, <1>4, <1>5, <1>6, <1>7, <1>8, <1>9, <1>10, <1>11, <1>12 DEF Next

--------------------------------------------------------------------------------
(* Identity *)

\* The names of a leaf, and the fingerprint behind a verdict.
Identified ==
    /\ leaf # NoLeaf =>
          /\ leaf.san.present => leaf.san.names \in Seq(Names)
          /\ leaf.kind = "device" => leaf.san.present /\ leaf.san.names = <<"hmn">>
    /\ verdict.result = "ok" =>
          /\ leaf # NoLeaf /\ Acknowledged(leaf) = {}
          /\ \E fp \in Prints : verdict.lfdi = LFDI(fp) /\ verdict.sfdi = SFDI(fp)

Digit == 0 .. 9
Nibble == 0 .. 15

\* A function on the first numbers is a sequence.
LEMMA FunctionIsSeq ==
    ASSUME NEW S, NEW m \in Nat, NEW f \in [1 .. m -> S]
    PROVE  f \in Seq(S) /\ Len(f) = m /\ DOMAIN f = 1 .. m
  OBVIOUS

\* One element more.
LEMMA AppendFacts ==
    ASSUME NEW S, NEW d \in Seq(S), NEW x \in S
    PROVE  /\ Len(Append(d, x)) = Len(d) + 1 /\ DOMAIN Append(d, x) = 1 .. Len(d) + 1
           /\ Append(d, x)[Len(d) + 1] = x /\ \A i \in 1 .. Len(d) : Append(d, x)[i] = d[i]
  OBVIOUS

\* Eleven decimal digits.
LEMMA DecimalFacts ==
    ASSUME NEW fp \in [1 .. 64 -> 0 .. 15]
    PROVE  /\ Decimal(fp) \in Seq(Digit) /\ Len(Decimal(fp)) = 11
           /\ \A i \in 1 .. 11 : Decimal(fp)[i] \in Digit
  <1> DEFINE tens == <<1000000, 100000, 10000, 1000, 100, 10, 1>>
             lower == (High(fp) % 10000) * 65536 + Low(fp)
             upper == (High(fp) \div 10000) * 65536 + lower \div 10000
             digit(i) == IF i <= 7 THEN (upper \div tens[i]) % 10 ELSE (lower \div tens[i - 4]) % 10
  <1>1. \A i \in 1 .. 64 : fp[i] \in Nat
    OBVIOUS
  <1>2. /\ fp[1] \in Nat /\ fp[2] \in Nat /\ fp[3] \in Nat /\ fp[4] \in Nat /\ fp[5] \in Nat
        /\ fp[6] \in Nat /\ fp[7] \in Nat /\ fp[8] \in Nat /\ fp[9] \in Nat
    BY <1>1
  <1>3. High(fp) \in Nat /\ Low(fp) \in Nat
    BY <1>2 DEF High, Low
  <1>4. lower \in Nat
    BY <1>3
  <1>5. upper \in Nat
    <2> HIDE DEF lower
    <2> QED
      BY <1>3, <1>4
  <1>6. \A i \in 1 .. 7 : tens[i] \in Nat \ {0}
    <2>1. \A i \in 1 .. 7 : i = 1 \/ i = 2 \/ i = 3 \/ i = 4 \/ i = 5 \/ i = 6 \/ i = 7
      OBVIOUS
    <2> QED
      BY <2>1
  <1>7. Decimal(fp) = [i \in 1 .. 11 |-> digit(i)]
    BY DEF Decimal
  <1> HIDE DEF lower, upper, tens
  <1>8. ASSUME NEW i \in 1 .. 11 PROVE digit(i) \in 0 .. 9
    <2>1. \A x, y \in Nat : y # 0 => (x \div y) % 10 \in 0 .. 9
      OBVIOUS
    <2>2. CASE i <= 7
      <3>1. tens[i] \in Nat \ {0}
        BY <1>6, <2>2
      <3> QED
        BY <1>5, <2>1, <2>2, <3>1
    <2>3. CASE ~(i <= 7)
      <3>1. tens[i - 4] \in Nat \ {0}
        BY <1>6, <2>3
      <3> QED
        BY <1>4, <2>1, <2>3, <3>1
    <2> QED
      BY <2>2, <2>3
  <1> HIDE DEF digit
  <1>9. Decimal(fp) \in [1 .. 11 -> Digit]
    BY <1>7, <1>8 DEF Digit
  <1>10. 11 \in Nat
    OBVIOUS
  <1> QED
    BY <1>9, <1>10, FunctionIsSeq

\* The check digit completes the sum to a multiple of ten.
LEMMA SFDIValid ==
    ASSUME NEW fp \in [1 .. 64 -> 0 .. 15]
    PROVE  ValidateSFDI(SFDI(fp))
  <1> DEFINE d == Decimal(fp)
             check == (10 - (SumOf(d) % 10)) % 10
             s == Append(d, check)
  <1>1. d \in Seq(Digit) /\ Len(d) = 11 /\ \A i \in 1 .. 11 : d[i] \in Digit
    BY DecimalFacts
  <1>2. SFDI(fp) = s
    BY DEF SFDI, sfdiFromHash
  <1> HIDE DEF d
  <1>3. \A i \in 1 .. 11 : d[i] \in 0 .. 9
    BY <1>1 DEF Digit
  <1>4. /\ d[1] \in Nat /\ d[2] \in Nat /\ d[3] \in Nat /\ d[4] \in Nat /\ d[5] \in Nat
        /\ d[6] \in Nat /\ d[7] \in Nat /\ d[8] \in Nat /\ d[9] \in Nat /\ d[10] \in Nat
        /\ d[11] \in Nat
    BY <1>3
  <1>5. SumOf(d) \in Nat
    BY <1>4 DEF SumOf
  <1>6. check \in 0 .. 9 /\ (SumOf(d) + check) % 10 = 0
    <2>1. \A x \in Nat : (10 - (x % 10)) % 10 \in 0 .. 9 /\ (x + ((10 - (x % 10)) % 10)) % 10 = 0
      OBVIOUS
    <2> QED
      BY <1>5, <2>1
  <1> HIDE DEF check
  <1>7. /\ Len(s) = Len(d) + 1 /\ DOMAIN s = 1 .. Len(d) + 1 /\ s[Len(d) + 1] = check
        /\ \A i \in 1 .. Len(d) : s[i] = d[i]
    <2>1. check \in Digit
      BY <1>6 DEF Digit
    <2>2. d \in Seq(Digit)
      BY <1>1
    <2> QED
      BY <2>1, <2>2, AppendFacts
  <1>8. Len(s) = 12 /\ DOMAIN s = 1 .. 12 /\ s[12] = check /\ \A i \in 1 .. 11 : s[i] = d[i]
    <2> HIDE DEF s
    <2> QED
      BY <1>1, <1>7
  <1> HIDE DEF s
  <1>9. \A i \in 1 .. 12 : s[i] \in 0 .. 9
    <2>1. \A i \in 1 .. 12 : i \in 1 .. 11 \/ i = 12
      OBVIOUS
    <2> QED
      BY <1>3, <1>6, <1>8, <2>1
  <1>10. SumOf(s) = SumOf(d)
    BY <1>8 DEF SumOf
  <1> QED
    BY <1>2, <1>6, <1>8, <1>9, <1>10 DEF ValidateSFDI

\* The long identifier holds all that the short one is made of.
LEMMA SFDIOfLFDI ==
    ASSUME NEW fp \in [1 .. 64 -> 0 .. 15]
    PROVE  SFDIFromLFDI(LFDI(fp)) = SFDI(fp)
  <1> DEFINE l == LFDI(fp)
             head == SubSeq(l, 1, 10)
             zeros == [i \in 1 .. 54 |-> 0]
             g == head \o zeros
  <1>1. \A i \in 1 .. 64 : fp[i] \in Nibble
    BY DEF Nibble
  <1>11. \A i \in Int : (i \in 1 .. 10 => i \in 1 .. 40) /\ (i \in 1 .. 40 => i \in 1 .. 64)
    OBVIOUS
  <1>12. \A i \in 1 .. 10 : i \in Int
    OBVIOUS
  <1>13. \A i \in 1 .. 40 : i \in Int
    OBVIOUS
  <1>2. l \in Seq(Nibble) /\ Len(l) = 40 /\ \A i \in 1 .. 40 : l[i] = fp[i]
    <2>1. /\ SubSeq(fp, 1, 40) \in Seq(Nibble)
          /\ Len(SubSeq(fp, 1, 40)) = IF 1 <= 40 THEN 40 - 1 + 1 ELSE 0
          /\ \A i \in 1 .. 40 - 1 + 1 : SubSeq(fp, 1, 40)[i] = fp[1 + i - 1]
      <3>1. \A i \in 1 .. 40 : fp[i] \in Nibble
        BY <1>1
      <3>2. 1 \in Int /\ 40 \in Int
        OBVIOUS
      <3> QED
        BY <3>1, <3>2, SubSeqProperties
    <2>2. l = SubSeq(fp, 1, 40)
      BY DEF LFDI
    <2> HIDE DEF l
    <2> QED
      BY <2>1, <2>2
  <1> HIDE DEF l
  <1>3. DOMAIN l = 1 .. 40 /\ \A i \in DOMAIN l : l[i] \in 0 .. 15
    <2>1. DOMAIN l = 1 .. Len(l)
      BY <1>2, LenProperties
    <2> QED
      BY <1>1, <1>2, <1>11, <1>13, <2>1, Zenon DEF Nibble
  <1>4. SFDIFromLFDI(l) = sfdiFromHash(g)
    BY <1>2, <1>3, Zenon DEF SFDIFromLFDI
  <1>5. head \in Seq(Nibble) /\ Len(head) = 10 /\ \A i \in 1 .. 10 : head[i] = l[i]
    <2>1. /\ head \in Seq(Nibble) /\ Len(head) = IF 1 <= 10 THEN 10 - 1 + 1 ELSE 0
          /\ \A i \in 1 .. 10 - 1 + 1 : head[i] = l[1 + i - 1]
      <3>1. \A i \in 1 .. 10 : l[i] \in Nibble
        BY <1>1, <1>2, <1>11, <1>12, Zenon
      <3>2. 1 \in Int /\ 10 \in Int
        OBVIOUS
      <3> QED
        BY <3>1, <3>2, SubSeqProperties
    <2> HIDE DEF head
    <2> QED
      BY <2>1
  <1>6. \A i \in 1 .. 10 : g[i] = head[i]
    <2>1. zeros \in Seq(Nibble) /\ Len(zeros) = 54
      <3>1. zeros \in [1 .. 54 -> Nibble] /\ 54 \in Nat
        BY DEF Nibble
      <3> HIDE DEF zeros
      <3> QED
        BY <3>1, FunctionIsSeq
    <2> HIDE DEF head, zeros
    <2>2. \A i \in 1 .. Len(head) + Len(zeros) :
             g[i] = IF i <= Len(head) THEN head[i] ELSE zeros[i - Len(head)]
      <3>1. head \in Seq(Nibble) /\ zeros \in Seq(Nibble)
        BY <1>5, <2>1
      <3> QED
        BY <3>1, ConcatProperties, Zenon
    <2> HIDE DEF g
    <2> QED
      <3>1. \A i \in 1 .. 10 : i \in 1 .. 10 + 54 /\ i <= 10
        OBVIOUS
      <3> QED
        BY <1>5, <2>1, <2>2, <3>1
  <1>7. \A i \in 1 .. 10 : g[i] = fp[i]
    <2> HIDE DEF g, head
    <2> QED
      BY <1>2, <1>5, <1>6, <1>11, <1>12, Zenon
  <1> HIDE DEF g
  <1>8. High(g) = High(fp) /\ Low(g) = Low(fp)
    BY <1>7 DEF High, Low
  <1>9. Decimal(g) = Decimal(fp)
    BY <1>8 DEF Decimal
  <1>10. sfdiFromHash(g) = sfdiFromHash(fp)
    BY <1>9 DEF sfdiFromHash
  <1> QED
    BY <1>4, <1>10 DEF SFDI, l

\* A certificate is issued: its names are those of the tool that made it.
LEMMA IssueIdentified ==
    ASSUME IInv, NEW l, Issues(l),
           l.san.present => l.san.names \in Seq(Names),
           l.kind = "device" => l.san.present /\ l.san.names = <<"hmn">>
    PROVE  Identified'
  <1>1. leaf = NoLeaf /\ leaf' = l /\ verdict' = verdict
    BY DEF Issues
  <1>2. verdict.result = "none"
    BY <1>1 DEF IInv, Decided, NoVerdict
  <1> QED
    BY <1>1, <1>2 DEF Identified

\* Whatever leaves the certificate and the verdict alone.
LEMMA SameIdentified ==
    ASSUME Identified, leaf' = leaf, verdict' = verdict
    PROVE  Identified'
  <1>1. (Acknowledged(leaf))' = Acknowledged(leaf)
    BY DEF Acknowledged, AllHMN, Unhandled
  <1> QED
    BY <1>1 DEF Identified

\* Every step keeps them.
LEMMA NextIdentified == IInv /\ Identified /\ [Next]_vars => Identified'
  <1> SUFFICES ASSUME IInv, Identified, [Next]_vars PROVE Identified'
    OBVIOUS
  <1>1. CASE \/ Tick \/ UNCHANGED vars \/ \E y \in Years : GenerateCA(y)
             \/ \E p \in Imports : ImportCA(p)
             \/ \E p \in Files, e \in SUBSET Files : LoadClientCAs(p, e)
    <2>1. leaf' = leaf /\ verdict' = verdict
      BY <1>1 DEF Tick, vars, GenerateCA, ImportCA, LoadClientCAs
    <2> QED
      BY <2>1, SameIdentified
  <1>2. ASSUME NEW opts, LoadCA(opts) PROVE Identified'
    <2>1. leaf' = leaf /\ verdict' = verdict
      BY <1>2 DEF LoadCA
    <2> QED
      BY <2>1, SameIdentified
  <1>3. ASSUME NEW h, NEW serial, GenerateDeviceCert(h, serial) PROVE Identified'
    <2> DEFINE san == HardwareModuleSAN(<<"hmn">>, h, serial)
               l == Leaf("device", san, {"client"}, Forever)
    <2>1. Issues(l)
      BY <1>3 DEF GenerateDeviceCert
    <2>2. san.present /\ san.names = <<"hmn">>
      BY DEF HardwareModuleSAN, CriticalSAN
    <2> HIDE DEF san
    <2>3. l.san = san
      BY DEF Leaf
    <2>4. <<"hmn">> \in Seq(Names)
      BY DEF Names
    <2> HIDE DEF l
    <2> QED
      BY <2>1, <2>2, <2>3, <2>4, IssueIdentified
  <1>4. ASSUME NEW hosts \in {<<>>, <<"dns">>}, NEW y, GenerateServerCert(hosts, y)
        PROVE  Identified'
    <2> DEFINE san == CriticalSAN(hosts)
               l == Leaf("server", san, {"server", "client"}, NotAfter(y))
    <2>1. Issues(l)
      BY <1>4 DEF GenerateServerCert
    <2>2. san.names = hosts
      BY DEF CriticalSAN
    <2> HIDE DEF san
    <2>3. l.san = san /\ l.kind = "server"
      BY DEF Leaf
    <2>4. hosts \in Seq(Names)
      <3>1. <<>> \in Seq(Names) /\ <<"dns">> \in Seq(Names)
        BY DEF Names
      <3>2. hosts = <<>> \/ hosts = <<"dns">>
        BY <1>4
      <3> QED
        BY <3>1, <3>2
    <2> HIDE DEF l
    <2> QED
      BY <2>1, <2>2, <2>3, <2>4, IssueIdentified
  <1>5. ASSUME NEW y, GenerateAdminCert(y) PROVE Identified'
    <2> DEFINE l == Leaf("admin", NoSAN, {"client"}, NotAfter(y))
    <2>1. Issues(l) /\ l.kind = "admin" /\ l.san = NoSAN
      BY <1>5 DEF GenerateAdminCert, Leaf
    <2>2. ~NoSAN.present
      BY DEF NoSAN
    <2> HIDE DEF l
    <2> QED
      BY <2>1, <2>2, IssueIdentified
  <1>6. CASE GenerateSelfSignedTLS
    <2> DEFINE san == [CriticalSAN(<<"dns">>) EXCEPT !.critical = FALSE]
               plain == Leaf("selfSigned", san, {"server"}, now + 1)
               l == [plain EXCEPT !.signer = "itself"]
    <2>1. Issues(l)
      BY <1>6 DEF GenerateSelfSignedTLS
    <2>2. san.names = <<"dns">>
      BY DEF CriticalSAN
    <2> HIDE DEF san
    <2>3. l.san = san /\ l.kind = "selfSigned"
      BY DEF Leaf
    <2>4. <<"dns">> \in Seq(Names)
      BY DEF Names
    <2> HIDE DEF l
    <2> QED
      BY <2>1, <2>2, <2>3, <2>4, IssueIdentified
  <1>7. ASSUME NEW names \in Leaves, ForeignLeaf(names) PROVE Identified'
    <2> DEFINE san == HardwareModuleSAN(names, "vendor", "sn")
               l == Leaf("foreign", san, {"client"}, Forever)
    <2>1. Issues(l)
      BY <1>7 DEF ForeignLeaf
    <2>2. san.names = names
      BY DEF HardwareModuleSAN, CriticalSAN
    <2> HIDE DEF san
    <2>3. l.san = san /\ l.kind = "foreign"
      BY DEF Leaf
    <2>4. names \in Seq(Names)
      BY ProvisioningAssumption, Zenon
    <2> HIDE DEF l
    <2> QED
      BY <2>1, <2>2, <2>3, <2>4, IssueIdentified
  <1>8. ASSUME NEW chain \in Chains, NEW fp \in Prints, VerifyPeer(chain, fp) PROVE Identified'
    <2>1. leaf # NoLeaf /\ leaf' = leaf
      BY <1>8 DEF VerifyPeer
    <2>2. verdict'.result = "ok" =>
             /\ Acknowledged(leaf) = {}
             /\ verdict'.lfdi = LFDI(fp) /\ verdict'.sfdi = SFDI(fp)
      BY <1>8 DEF VerifyPeer
    <2>3. (Acknowledged(leaf))' = Acknowledged(leaf)
      BY <2>1 DEF Acknowledged, AllHMN, Unhandled
    <2> QED
      BY <2>1, <2>2, <2>3 DEF Identified
  <1> QED
    BY <1>1, <1>2, <1>3, <1>4, <1>5, <1>6, <1>7, <1>8 DEF Next

\* The names that are read agree with the names that are checked.
LEMMA IdentityFacts ==
    ASSUME Identified
    PROVE  VerifiedDeviceHasIdentity
  <1> SUFFICES ASSUME verdict.result = "ok"
               PROVE  /\ Unhandled(leaf) # {} =>
                            Extract(leaf.san).ok /\ Range(leaf.san.names) = {"hmn"}
                      /\ leaf.kind = "device" => Extract(leaf.san) =
                            [ok |-> TRUE, hwType |-> leaf.san.hwType, serial |-> leaf.san.serial]
                      /\ ValidateSFDI(verdict.sfdi) /\ SFDIFromLFDI(verdict.lfdi) = verdict.sfdi
    BY DEF VerifiedDeviceHasIdentity
  <1>1. leaf # NoLeaf /\ Acknowledged(leaf) = {}
    BY DEF Identified
  <1>2. PICK fp \in Prints : verdict.lfdi = LFDI(fp) /\ verdict.sfdi = SFDI(fp)
    BY DEF Identified
  <1>3. fp \in [1 .. 64 -> 0 .. 15]
    BY ProvisioningAssumption, Zenon
  <1>4. ValidateSFDI(verdict.sfdi) /\ SFDIFromLFDI(verdict.lfdi) = verdict.sfdi
    BY <1>2, <1>3, SFDIValid, SFDIOfLFDI
  <1>5. ASSUME leaf.san.present, leaf.san.names \in Seq(Names), leaf.san.names # <<>>,
               \A i \in DOMAIN leaf.san.names : leaf.san.names[i] = "hmn"
        PROVE  /\ Extract(leaf.san) =
                     [ok |-> TRUE, hwType |-> leaf.san.hwType, serial |-> leaf.san.serial]
               /\ Range(leaf.san.names) = {"hmn"}
    <2> DEFINE names == leaf.san.names
    <2>1. DOMAIN names = 1 .. Len(names) /\ Len(names) \in Nat /\ Len(names) # 0
      BY <1>5
    <2>2. 1 \in DOMAIN names /\ \A j \in DOMAIN names : 1 <= j
      BY <2>1
    <2>3. 1 \in HMNs(leaf.san) /\ names[1] = "hmn" /\ \A j \in HMNs(leaf.san) : 1 <= j
      BY <1>5, <2>2 DEF HMNs
    <2>4. Extract(leaf.san) = [ok |-> TRUE, hwType |-> leaf.san.hwType, serial |-> leaf.san.serial]
      BY <1>5, <2>3, Zenon DEF Extract
    <2>5. Range(names) = {"hmn"}
      BY <1>5, <2>2 DEF Range
    <2> QED
      BY <2>4, <2>5
  <1>6. ASSUME Unhandled(leaf) # {}
        PROVE  Extract(leaf.san).ok /\ Range(leaf.san.names) = {"hmn"}
    <2>1. leaf.san.present /\ Unhandled(leaf) = {"SAN"}
      BY <1>6 DEF Unhandled
    <2>2. AllHMN(leaf.san)
      BY <1>1, <1>6 DEF Acknowledged
    <2>3. leaf.san.names \in Seq(Names)
      BY <1>1, <2>1 DEF Identified
    <2> QED
      BY <1>5, <2>1, <2>2, <2>3 DEF AllHMN
  <1>7. ASSUME leaf.kind = "device"
        PROVE  Extract(leaf.san) =
                  [ok |-> TRUE, hwType |-> leaf.san.hwType, serial |-> leaf.san.serial]
    <2>1. leaf.san.present /\ leaf.san.names = <<"hmn">> /\ leaf.san.names \in Seq(Names)
      BY <1>1, <1>7 DEF Identified
    <2>2. <<"hmn">> # <<>> /\ \A i \in DOMAIN <<"hmn">> : <<"hmn">>[i] = "hmn"
      OBVIOUS
    <2> QED
      BY <1>5, <2>1, <2>2
  <1> QED
    BY <1>4, <1>6, <1>7

--------------------------------------------------------------------------------
(* Theorems *)

\* The invariant holds in every reachable state.
THEOREM ProvisioningInductive == Spec => []IInv
  BY InitIInv, NextIInv, PTL DEF Spec

\* A CA that LoadCA accepted serves every device for the margin it was accepted with,
\* and one it refused the chain walk would refuse too, or breaks one of the rules in
\* which ValidateCA is stricter than the walk.
THEOREM ProvisioningCAJudgedExactly == Spec => []CAJudgedExactly
  <1>1. IInv => CAJudgedExactly
    BY DEF IInv
  <1> QED
    BY <1>1, ProvisioningInductive, PTL

\* Whoever the hook lets through has the identity it was issued with, in whatever order
\* its names stand, and an SFDI that checks, for every fingerprint.
THEOREM ProvisioningVerifiedDeviceHasIdentity == Spec => []VerifiedDeviceHasIdentity
  <1>1. Init => Identified
    BY DEF Init, Identified, NoVerdict
  <1>2. Identified => VerifiedDeviceHasIdentity
    BY IdentityFacts
  <1> QED
    BY <1>1, <1>2, NextIdentified, ProvisioningInductive, PTL DEF Spec
================================================================================
