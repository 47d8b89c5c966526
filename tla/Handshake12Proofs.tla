--------------------------- MODULE Handshake12Proofs ---------------------------
(***************************************************************************)
(* What Handshake12 promises for any configurations, any number of         *)
(* connections and certificates, and any peer: a server with the CCM hook  *)
(* has verified the client of every handshake it completes, a side that    *)
(* completes has a peer that holds its certificate's key and has seen the  *)
(* messages of a handshake in their order, a resumed session is as fresh   *)
(* as the full handshake it comes from, and two sides that complete agree. *)
(*                                                                         *)
(* A step of a side is first reduced to its effect (the lemmas ...Effect:  *)
(* what the side's state becomes, which messages it sends); the effects    *)
(* preserve the inductive invariant IInv (the lemmas ...Step), and with it *)
(* Concord, which says where each side is and what the two have in common. *)
(***************************************************************************)
EXTENDS Handshake12, WellFoundedInduction, TLAPS

IsSeq(s) == s \in Seq(Elems(s))

\* The variables are functions of the sides, and a Free side has no state.
Frame ==
    /\ n \in Nat /\ cfg \in AllSetups
    /\ DOMAIN pc = Sides /\ DOMAIN hs = Sides /\ DOMAIN end = Sides /\ DOMAIN wire = Sides
    /\ \A s \in Sides :
          /\ DOMAIN hs[s] = DOMAIN Blank /\ IsSeq(hs[s].tr) /\ IsSeq(wire[s])
          /\ end[s] = "done" => pc[s] = "ended"
          /\ s \in Free => pc[s] \in {"free", "ended"} /\ hs[s] = Blank /\ end[s] = "none"

--------------------------------------------------------------------------------
(* Lemmas about sequences *)

\* A sequence is one over any set that has its elements.
LEMMA SeqOf ==
    ASSUME NEW S, NEW T, NEW t \in Seq(S), \A i \in 1 .. Len(t) : t[i] \in T
    PROVE  t \in Seq(T)
  <1>1. Len(t) \in Nat /\ t \in [1 .. Len(t) -> S]
    OBVIOUS
  <1>2. t \in [1 .. Len(t) -> T]
    BY <1>1
  <1> QED
    BY <1>1, <1>2

\* Head, Tail and Append of a sequence, and the elements they leave.
LEMMA SeqFacts ==
    ASSUME NEW s, IsSeq(s)
    PROVE  /\ Len(s) \in Nat /\ DOMAIN s = 1 .. Len(s)
           /\ s # <<>> => /\ IsSeq(Tail(s)) /\ Elems(Tail(s)) \subseteq Elems(s)
                          /\ Head(s) \in Elems(s) /\ Len(Tail(s)) = Len(s) - 1
           /\ \A x : /\ IsSeq(Append(s, x)) /\ Elems(Append(s, x)) = Elems(s) \cup {x}
  <1>1. s \in Seq(Elems(s)) /\ Len(s) \in Nat /\ DOMAIN s = 1 .. Len(s)
    BY DEF IsSeq
  <1>2. ASSUME s # <<>> PROVE /\ IsSeq(Tail(s)) /\ Elems(Tail(s)) \subseteq Elems(s)
                              /\ Head(s) \in Elems(s) /\ Len(Tail(s)) = Len(s) - 1
    <2>1. /\ Len(Tail(s)) = Len(s) - 1 /\ DOMAIN Tail(s) = 1 .. Len(s) - 1
          /\ \A i \in 1 .. Len(s) - 1 : Tail(s)[i] = s[i + 1]
          /\ Len(s) >= 1 /\ Head(s) = s[1]
      BY <1>1, <1>2
    <2>2. Elems(Tail(s)) \subseteq Elems(s) /\ Head(s) \in Elems(s)
      BY <1>1, <2>1 DEF Elems
    <2>3. \A i \in 1 .. Len(Tail(s)) : Tail(s)[i] \in Elems(Tail(s))
      BY <2>1 DEF Elems
    <2>4. Tail(s) \in Seq(Elems(Tail(s)))
      <3>1. Tail(s) \in Seq(Elems(s))
        BY <1>1, <1>2
      <3> QED
        BY <2>3, <3>1, SeqOf
    <2> QED
      BY <2>1, <2>2, <2>4 DEF IsSeq
  <1>3. ASSUME NEW x PROVE IsSeq(Append(s, x)) /\ Elems(Append(s, x)) = Elems(s) \cup {x}
    <2>1. Append(s, x) \in Seq(Elems(s) \cup {x})
      BY <1>1
    <2>2. /\ Len(Append(s, x)) = Len(s) + 1
          /\ \A i \in 1 .. Len(s) : Append(s, x)[i] = s[i]
          /\ Append(s, x)[Len(s) + 1] = x
      BY <1>1
    <2>3. Elems(Append(s, x)) = Elems(s) \cup {x}
      BY <1>1, <2>1, <2>2 DEF Elems
    <2> QED
      BY <2>1, <2>3 DEF IsSeq
  <1> QED
    BY <1>1, <1>2, <1>3

\* A concatenation has the elements of both.
LEMMA ConcatFacts ==
    ASSUME NEW s, NEW t, IsSeq(s), IsSeq(t)
    PROVE  IsSeq(s \o t) /\ Elems(s \o t) = Elems(s) \cup Elems(t)
  <1>1. s \o t \in Seq(Elems(s) \cup Elems(t))
    BY DEF IsSeq
  <1>2. /\ Len(s) \in Nat /\ Len(t) \in Nat /\ Len(s \o t) = Len(s) + Len(t)
        /\ \A i \in 1 .. Len(s) + Len(t) :
              (s \o t)[i] = IF i <= Len(s) THEN s[i] ELSE t[i - Len(s)]
        /\ DOMAIN s = 1 .. Len(s) /\ DOMAIN t = 1 .. Len(t)
    BY DEF IsSeq
  <1>3. DOMAIN (s \o t) = 1 .. Len(s) + Len(t)
    BY <1>1, <1>2
  <1>4. Elems(s \o t) = Elems(s) \cup Elems(t)
    <2>1. \A i \in DOMAIN s : i \in 1 .. Len(s) + Len(t) /\ (s \o t)[i] = s[i]
      BY <1>2
    <2>2. \A i \in DOMAIN t : i + Len(s) \in 1 .. Len(s) + Len(t) /\ (s \o t)[i + Len(s)] = t[i]
      BY <1>2
    <2>3. \A i \in 1 .. Len(s) + Len(t) : (s \o t)[i] \in Elems(s) \cup Elems(t)
      BY <1>2 DEF Elems
    <2> QED
      BY <1>3, <2>1, <2>2, <2>3 DEF Elems
  <1> QED
    BY <1>1, <1>4 DEF IsSeq

\* Short tuples are sequences, with these elements.
LEMMA TupleFacts ==
    /\ IsSeq(<<>>) /\ Elems(<<>>) = {}
    /\ \A x : IsSeq(<<x>>) /\ Elems(<<x>>) = {x}
    /\ \A x, y : IsSeq(<<x, y>>) /\ Elems(<<x, y>>) = {x, y}
  <1>1. \A x : Elems(<<x>>) = {x}
    BY DEF Elems
  <1>2. \A x, y : Elems(<<x, y>>) = {x, y}
    BY DEF Elems
  <1> QED
    BY <1>1, <1>2 DEF IsSeq, Elems

\* Sequences are equal that agree at every index.
LEMMA SameSeq ==
    ASSUME NEW s, NEW t, IsSeq(s), IsSeq(t), Len(s) = Len(t),
           \A i \in 1 .. Len(s) : s[i] = t[i]
    PROVE  s = t
  <1>1. s \in [1 .. Len(s) -> Elems(s)] /\ t \in [1 .. Len(s) -> Elems(t)]
    BY DEF IsSeq
  <1> QED
    BY <1>1

\* The transcript of a resumption up to the ticket.
LEMMA Triple ==
    ASSUME NEW x, NEW y, NEW z
    PROVE  <<x, y>> \o <<z>> = <<x, y, z>> /\ IsSeq(<<x, y, z>>)
  <1>1. /\ <<x, y>> \in Seq({x, y}) /\ Len(<<x, y>>) = 2 /\ <<z>> \in Seq({z})
        /\ Len(<<z>>) = 1 /\ Len(<<x, y, z>>) = 3
    OBVIOUS
  <1>2. IsSeq(<<x, y, z>>)
    BY DEF IsSeq, Elems
  <1> DEFINE a == <<x, y>> \o <<z>>
  <1>3. IsSeq(a)
    BY ConcatFacts, TupleFacts
  <1>4. Len(a) = 3 /\ a[1] = x /\ a[2] = y /\ a[3] = z
    BY <1>1
  <1> HIDE DEF a
  <1>5. \A i \in 1 .. Len(a) : a[i] = <<x, y, z>>[i]
    BY <1>4
  <1> QED
    BY <1>1, <1>2, <1>3, <1>4, <1>5, SameSeq DEF a

\* The transcript of a resumption up to the Finished.
LEMMA Quadruple ==
    ASSUME NEW x, NEW y, NEW z, NEW w
    PROVE  Append(<<x, y, z>>, w) = <<x, y, z, w>>
  <1>1. /\ <<x, y, z>> \in Seq({x, y, z}) /\ Len(<<x, y, z>>) = 3
        /\ Len(<<x, y, z, w>>) = 4
    OBVIOUS
  <1>2. IsSeq(<<x, y, z, w>>)
    BY DEF IsSeq, Elems
  <1> DEFINE a == Append(<<x, y, z>>, w)
  <1>3. IsSeq(a)
    BY SeqFacts, Triple
  <1>4. Len(a) = 4 /\ a[1] = x /\ a[2] = y /\ a[3] = z /\ a[4] = w
    BY <1>1
  <1> HIDE DEF a
  <1>5. \A i \in 1 .. Len(a) : a[i] = <<x, y, z, w>>[i]
    BY <1>4
  <1> QED
    BY <1>1, <1>2, <1>3, <1>4, <1>5, SameSeq DEF a

\* The messages of t after the first k are of types T.
After(t, k, T) == IsSeq(t) /\ Len(t) >= k /\ \A i \in DOMAIN t : i > k => t[i].t \in T

\* Later messages of allowed types leave the first k where they are.
LEMMA Grow ==
    ASSUME NEW t, NEW u, NEW k \in Nat, NEW T, After(t, k, T), IsSeq(u),
           \A x \in Elems(u) : x.t \in T
    PROVE  After(t \o u, k, T) /\ \A i \in 1 .. k : (t \o u)[i] = t[i]
  <1>1. /\ Len(t) \in Nat /\ Len(u) \in Nat /\ DOMAIN t = 1 .. Len(t) /\ DOMAIN u = 1 .. Len(u)
        /\ Len(t) >= k
    BY SeqFacts DEF After
  <1>2. IsSeq(t \o u)
    BY ConcatFacts DEF After
  <1>3. /\ Len(t \o u) = Len(t) + Len(u) /\ DOMAIN (t \o u) = 1 .. Len(t) + Len(u)
        /\ \A i \in 1 .. Len(t) + Len(u) :
              (t \o u)[i] = IF i <= Len(t) THEN t[i] ELSE u[i - Len(t)]
    BY DEF After, IsSeq
  <1>4. \A i \in 1 .. Len(u) : u[i].t \in T
    BY <1>1 DEF Elems
  <1>5. ASSUME NEW i \in 1 .. Len(t) + Len(u), i > k PROVE (t \o u)[i].t \in T
    <2>1. CASE i <= Len(t)
      BY <1>1, <1>3, <1>5, <2>1 DEF After
    <2>2. CASE i > Len(t)
      <3>1. i - Len(t) \in 1 .. Len(u) /\ (t \o u)[i] = u[i - Len(t)]
        BY <1>1, <1>3, <2>2
      <3> QED
        BY <1>4, <3>1
    <2> QED
      BY <1>1, <2>1, <2>2
  <1> QED
    BY <1>1, <1>2, <1>3, <1>5 DEF After

\* Records wraps each message in a handshake record.
LEMMA RecordsFacts ==
    ASSUME NEW key, NEW msgs, IsSeq(msgs)
    PROVE  /\ IsSeq(Records(key, msgs))
           /\ Elems(Records(key, msgs)) = {Rec("handshake", key, x) : x \in Elems(msgs)}
  <1>1. Len(msgs) \in Nat /\ DOMAIN msgs = 1 .. Len(msgs)
    BY DEF IsSeq
  <1>2. Elems(Records(key, msgs)) = {Rec("handshake", key, x) : x \in Elems(msgs)}
    BY DEF Records, Elems
  <1>3. \A i \in 1 .. Len(msgs) : Rec("handshake", key, msgs[i]) \in Elems(Records(key, msgs))
    BY <1>1, <1>2 DEF Elems
  <1>4. Records(key, msgs) \in [1 .. Len(msgs) -> Elems(Records(key, msgs))]
    BY <1>1, <1>3 DEF Records
  <1> QED
    BY <1>1, <1>2, <1>4 DEF IsSeq

--------------------------------------------------------------------------------
(* Lemmas about the steps of a side *)

\* The fields of a handshake state.
LEMMA BlankFields ==
    DOMAIN Blank =
        {"vers", "suite", "alpn", "ems", "didResume", "peer", "verified", "cert", "asked",
         "hello", "serverHello", "share", "tr", "secret", "sess", "ticket", "in", "inNext",
         "out", "outNext"}
  BY DEF Blank

\* Every connection has its setups, and they have their type.
LEMMA SetupFacts ==
    /\ \A u \in AllSetups : u \in SetupType
    /\ \A i \in 1 .. MaxConns : Setups[i] \subseteq AllSetups
    /\ MaxConns \in Nat \ {0}
  BY HandshakeAssumption DEF AllSetups, MaxConns, Elems

\* What a side that reads on, or ends, does to the two sides and to the wires.
Others(s) ==
    /\ UNCHANGED <<n, cfg, day>>
    /\ hs'[Peer(s)] = hs[Peer(s)] /\ pc'[Peer(s)] = pc[Peer(s)]
    /\ end'[Peer(s)] = end[Peer(s)]
Sent(s, recs) ==
    /\ Elems(wire'[s]) \subseteq Elems(wire[s])
    /\ Len(wire[s]) <= 1 => wire'[s] = <<>>
    /\ Elems(wire'[Peer(s)]) \subseteq Elems(wire[Peer(s)]) \cup Elems(recs)

\* Advance in terms of the two sides and the two wires.
LEMMA AdvanceFacts ==
    ASSUME Frame, NEW s \in Sides, s \notin Free, NEW h, NEW recs, NEW w, NEW buf,
           Advance(s, h, recs, w, buf), pc[s] # "ended",
           DOMAIN h = DOMAIN Blank, IsSeq(h.tr), IsSeq(recs)
    PROVE  /\ Frame' /\ Others(s) /\ Sent(s, recs)
           /\ hs'[s] = h /\ pc'[s] = w
           /\ end'[s] = IF w = "ended" THEN "done" ELSE end[s]
  <1> DEFINE p == Peer(s)
  <1>1. p \in Sides /\ p # s /\ Sides = {s, p}
    BY DEF Peer, Sides
  <1>2. /\ hs' = [hs EXCEPT ![s] = h] /\ pc' = [pc EXCEPT ![s] = w]
        /\ wire' = [wire EXCEPT ![s] = IF wire[s] = <<>> THEN wire[s] ELSE Tail(wire[s]),
                                ![p] = Deliver(p, recs)]
        /\ end' = [end EXCEPT ![s] = IF w = "ended" THEN "done" ELSE end[s]]
        /\ UNCHANGED <<n, cfg, open, cut, day>>
    BY DEF Advance
  <1>3. /\ hs'[s] = h /\ hs'[p] = hs[p] /\ pc'[s] = w /\ pc'[p] = pc[p]
        /\ end'[s] = (IF w = "ended" THEN "done" ELSE end[s]) /\ end'[p] = end[p]
        /\ wire'[s] = (IF wire[s] = <<>> THEN wire[s] ELSE Tail(wire[s]))
        /\ wire'[p] = Deliver(p, recs)
        /\ DOMAIN hs' = Sides /\ DOMAIN pc' = Sides /\ DOMAIN end' = Sides
        /\ DOMAIN wire' = Sides
    BY <1>1, <1>2 DEF Frame
  <1>4. IsSeq(wire[s]) /\ IsSeq(wire[p])
    BY <1>1 DEF Frame
  <1>5. /\ IsSeq(wire'[s]) /\ Elems(wire'[s]) \subseteq Elems(wire[s])
        /\ Len(wire[s]) <= 1 => wire'[s] = <<>>
    <2>1. CASE wire[s] = <<>>
      BY <1>3, <1>4, <2>1
    <2>2. CASE wire[s] # <<>>
      <3>1. wire'[s] = Tail(wire[s])
        BY <1>3, <2>2
      <3>2. /\ IsSeq(Tail(wire[s])) /\ Elems(Tail(wire[s])) \subseteq Elems(wire[s])
            /\ Len(Tail(wire[s])) = Len(wire[s]) - 1 /\ Len(wire[s]) \in Nat
        BY <1>4, <2>2, SeqFacts
      <3>3. Len(wire[s]) <= 1 => Tail(wire[s]) = <<>>
        BY <1>4, <2>2, <3>2 DEF IsSeq
      <3> QED
        BY <3>1, <3>2, <3>3
    <2> QED
      BY <2>1, <2>2
  <1>6. /\ IsSeq(wire'[p])
        /\ Elems(wire'[p]) \subseteq Elems(wire[p]) \cup Elems(recs)
    BY <1>3, <1>4, ConcatFacts DEF Deliver
  <1>7. Free' = Free
    BY <1>2 DEF Free
  <1>8. Frame'
    BY <1>1, <1>2, <1>3, <1>5, <1>6, <1>7 DEF Frame
  <1> QED
    BY <1>2, <1>3, <1>5, <1>6, <1>8 DEF Others, Sent

\* Fails in terms of the two sides and the two wires.
LEMMA FailsFacts ==
    ASSUME Frame, NEW s \in Sides, s \notin Free, NEW why, why # "done", NEW recs,
           IsSeq(recs), Fails(s, why, recs)
    PROVE  /\ Frame' /\ Others(s) /\ Sent(s, recs) /\ wire'[s] = <<>>
           /\ hs'[s] = hs[s] /\ pc'[s] = "ended" /\ end'[s] = why
           /\ cache' = IF s = "client" /\ hs[s].sess # NoSession THEN NoEntry ELSE cache
  <1> DEFINE p == Peer(s)
  <1>1. p \in Sides /\ p # s /\ Sides = {s, p}
    BY DEF Peer, Sides
  <1>2. /\ pc' = [pc EXCEPT ![s] = "ended"] /\ end' = [end EXCEPT ![s] = why]
        /\ wire' = [wire EXCEPT ![s] = <<>>, ![p] = Deliver(p, recs)]
        /\ UNCHANGED <<n, cfg, hs, buffering, cut, day>>
        /\ cache' = IF s = "client" /\ hs[s].sess # NoSession THEN NoEntry ELSE cache
    BY DEF Fails
  <1>3. /\ pc'[s] = "ended" /\ pc'[p] = pc[p] /\ end'[s] = why /\ end'[p] = end[p]
        /\ wire'[s] = <<>> /\ wire'[p] = Deliver(p, recs)
        /\ DOMAIN pc' = Sides /\ DOMAIN end' = Sides /\ DOMAIN wire' = Sides
    BY <1>1, <1>2 DEF Frame
  <1>4. IsSeq(wire[p]) /\ IsSeq(wire'[s]) /\ Elems(wire'[s]) = {}
    BY <1>1, <1>3, TupleFacts DEF Frame
  <1>5. IsSeq(wire'[p]) /\ Elems(wire'[p]) \subseteq Elems(wire[p]) \cup Elems(recs)
    BY <1>3, <1>4, ConcatFacts DEF Deliver
  <1>6. Free' = Free
    BY <1>2 DEF Free
  <1>7. Frame'
    BY <1>1, <1>2, <1>3, <1>4, <1>5, <1>6 DEF Frame
  <1> QED
    BY <1>2, <1>3, <1>4, <1>5, <1>7 DEF Others, Sent

\* s has moved, and what it has sent are messages of M.
Moved(s, M) ==
    /\ Frame' /\ Others(s)
    /\ Elems(wire'[s]) \subseteq Elems(wire[s]) /\ (Len(wire[s]) <= 1 => wire'[s] = <<>>)
    /\ \A r \in Elems(wire'[Peer(s)]) :
          r \in Elems(wire[Peer(s)]) \/ r.typ # "handshake" \/ r.m \in M

Failed(s) ==
    /\ hs'[s] = hs[s] /\ pc'[s] = "ended" /\ end'[s] # "done"
    /\ cache' = IF s = "client" /\ hs[s].sess # NoSession THEN NoEntry ELSE cache

Goes(s, h, w) ==
    /\ hs'[s] = h /\ pc'[s] = w
    /\ end'[s] = IF w = "ended" THEN "done" ELSE end[s]

\* A side that fails keeps its state, and sends at most msgs and an alert.
LEMMA FailsMoved ==
    ASSUME Frame, NEW s \in Sides, s \notin Free, NEW why, why # "done",
           NEW key, NEW key2, NEW msgs, IsSeq(msgs),
           \/ Fails(s, why, <<>>)
           \/ Fails(s, why, <<Rec("alert", key, NoMsg)>>)
           \/ Fails(s, why, Append(Records(key2, msgs), Rec("alert", key, NoMsg)))
    PROVE  Moved(s, Elems(msgs)) /\ Failed(s)
  <1> DEFINE alert == Rec("alert", key, NoMsg)
             long == Append(Records(key2, msgs), alert)
  <1>1. alert.typ # "handshake" /\ \A x : Rec("handshake", key2, x).m = x
    BY DEF Rec
  <1>2. /\ IsSeq(<<>>) /\ Elems(<<>>) = {} /\ IsSeq(<<alert>>) /\ Elems(<<alert>>) = {alert}
    BY TupleFacts
  <1>3. /\ IsSeq(long)
        /\ Elems(long) = {Rec("handshake", key2, x) : x \in Elems(msgs)} \cup {alert}
    BY RecordsFacts, SeqFacts
  <1>4. PICK recs \in {<<>>, <<alert>>, long} : Fails(s, why, recs)
    OBVIOUS
  <1>5. IsSeq(recs) /\ \A r \in Elems(recs) : r.typ # "handshake" \/ r.m \in Elems(msgs)
    BY <1>1, <1>2, <1>3
  <1>6. /\ Frame' /\ Others(s) /\ Sent(s, recs) /\ hs'[s] = hs[s] /\ pc'[s] = "ended"
        /\ end'[s] = why /\ Failed(s)
    BY <1>4, <1>5, FailsFacts DEF Failed
  <1> QED
    BY <1>5, <1>6 DEF Sent, Moved

\* A side that advances is in the new state, and sends messages of M.
LEMMA AdvanceMoved ==
    ASSUME Frame, NEW s \in Sides, s \notin Free, NEW h, NEW recs, NEW w, NEW buf, NEW M,
           Advance(s, h, recs, w, buf), pc[s] # "ended",
           DOMAIN h = DOMAIN Blank, IsSeq(h.tr), IsSeq(recs),
           \A r \in Elems(recs) : r.typ # "handshake" \/ r.m \in M
    PROVE  Moved(s, M) /\ Goes(s, h, w)
  <1>1. /\ Frame' /\ Others(s) /\ Sent(s, recs)
        /\ hs'[s] = h /\ pc'[s] = w
        /\ end'[s] = IF w = "ended" THEN "done" ELSE end[s]
    BY AdvanceFacts
  <1> QED
    BY <1>1 DEF Sent, Moved, Goes

\* A side that advances without sending.
LEMMA SilentMoved ==
    ASSUME Frame, NEW s \in Sides, s \notin Free, NEW h, NEW w, NEW buf,
           Advance(s, h, <<>>, w, buf), pc[s] # "ended",
           DOMAIN h = DOMAIN Blank, IsSeq(h.tr)
    PROVE  Moved(s, {}) /\ Goes(s, h, w)
  BY AdvanceMoved, TupleFacts

\* A refusal of the message read, with an alert.
LEMMA Refusal ==
    ASSUME Frame, NEW s \in Sides, s \notin Free, RefuseMsg(s)
    PROVE  Moved(s, {}) /\ Failed(s) /\ keys' = keys
  <1>1. Fails(s, "refused", <<Rec("alert", hs[s].out, NoMsg)>>)
    BY DEF RefuseMsg, Refuse
  <1>2. IsSeq(<<>>) /\ Elems(<<>>) = {}
    BY TupleFacts
  <1>3. Moved(s, Elems(<<>>)) /\ Failed(s)
    BY <1>1, <1>2, FailsMoved, "refused" # "done"
  <1> QED
    BY <1>2, <1>3 DEF RefuseMsg

\* The incoming half under its next key.
Switched(h) == [h EXCEPT !.in = h.inNext, !.inNext = NoKey]

\* The record layer: an end, a warning dropped, or the switch to the next key.
LEMMA RecordEffect ==
    ASSUME Frame, NEW s \in Sides, s \notin Free, RecordStep(s)
    PROVE  /\ Moved(s, {}) /\ keys' = keys
           /\ \/ Failed(s)
              \/ Goes(s, hs[s], pc[s]) /\ cache' = cache /\ pc[s] # "ended"
              \/ /\ pc[s] = "ccs" /\ hs[s].inNext # NoKey /\ cache' = cache
                 /\ Goes(s, Switched(hs[s]), "finished")
  <1>1. CASE RecordRefused(s)
    BY <1>1, Refusal DEF RecordRefused
  <1>2. ASSUME NEW why \in {"alert", "eof"}, Fails(s, why, <<>>), keys' = keys
        PROVE  Moved(s, {}) /\ Failed(s)
    <2>1. IsSeq(<<>>) /\ Elems(<<>>) = {} /\ why # "done"
      BY TupleFacts
    <2> QED
      BY <1>2, <2>1, FailsMoved
  <1>3. CASE AlertReceived(s) \/ EndOfFile(s)
    BY <1>2, <1>3 DEF AlertReceived, EndOfFile
  <1>4. CASE WarningDropped(s)
    <2>1. DOMAIN hs[s] = DOMAIN Blank /\ IsSeq(hs[s].tr) /\ pc[s] # "ended"
      BY <1>4 DEF Frame, WarningDropped, Reading
    <2>2. CASE Advance(s, hs[s], <<>>, pc[s], buffering[s]) /\ Stay
      BY <2>1, <2>2, SilentMoved DEF Stay
    <2> QED
      BY <1>4, <2>2, Refusal DEF WarningDropped
  <1>5. CASE ReadChangeCipherSpec(s)
    <2> DEFINE h == [hs[s] EXCEPT !.in = hs[s].inNext, !.inNext = NoKey]
    <2>1. DOMAIN h = DOMAIN Blank /\ IsSeq(h.tr) /\ pc[s] # "ended"
      BY <1>5, BlankFields DEF Frame, ReadChangeCipherSpec
    <2>2. Advance(s, h, <<>>, "finished", buffering[s]) /\ Stay /\ pc[s] = "ccs"
          /\ hs[s].inNext # NoKey
      BY <1>5 DEF ReadChangeCipherSpec
    <2> HIDE DEF h
    <2>3. Moved(s, {}) /\ Goes(s, h, "finished")
      BY <2>1, <2>2, SilentMoved
    <2> QED
      BY <2>2, <2>3 DEF Stay, h, Switched
  <1> QED
    BY <1>1, <1>3, <1>4, <1>5 DEF RecordStep

--------------------------------------------------------------------------------
(* Lemmas about the handshake states *)

\* g differs from h in the fields F at most.
Like(h, g, F) ==
    DOMAIN g = DOMAIN Blank /\ \A f \in DOMAIN Blank \ F : g[f] = h[f]

\* establishKeys sets the two next keys and nothing else; they are no plain keys.
LEMMA EstablishFacts ==
    ASSUME NEW s \in Sides, NEW h, DOMAIN h = DOMAIN Blank
    PROVE  /\ Like(h, establishKeys(s, h), {"inNext", "outNext"})
           /\ establishKeys(s, h).inNext = TrafficKey(Peer(s), h)
           /\ establishKeys(s, h).outNext = TrafficKey(s, h)
           /\ establishKeys(s, h).inNext # NoKey
  BY BlankFields DEF establishKeys, Like, TrafficKey, NoKey

\* The keys that side s in state g switches to are those of its secret.
NextKeys(s, g) == g.inNext = TrafficKey(Peer(s), g) /\ g.outNext = TrafficKey(s, g)

\* establishKeys leaves what the keys are made of.
LEMMA EstablishNext ==
    ASSUME NEW s \in Sides, NEW h, DOMAIN h = DOMAIN Blank
    PROVE  NextKeys(s, establishKeys(s, h))
  <1>1. /\ Like(h, establishKeys(s, h), {"inNext", "outNext"})
        /\ establishKeys(s, h).inNext = TrafficKey(Peer(s), h)
        /\ establishKeys(s, h).outNext = TrafficKey(s, h)
    BY EstablishFacts
  <1> QED
    BY <1>1, BlankFields DEF Like, NextKeys, TrafficKey

\* The Finished message of s in state h after messages pre.
Fin(s, h, pre) == [t |-> "finished", verify |-> <<"finished", s, h.secret, h.tr \o pre>>]

\* What ChangeCipherSpec and Finished add to the state and to the wire.
LEMMA FinishedFacts ==
    ASSUME NEW s \in Sides, NEW h, DOMAIN h = DOMAIN Blank, IsSeq(h.tr),
           NEW pre, IsSeq(pre)
    PROVE  /\ Like(h, FinishedState(s, h, pre), {"tr", "out", "outNext"})
           /\ FinishedState(s, h, pre).out = h.outNext
           /\ FinishedState(s, h, pre).tr = Append(h.tr \o pre, Fin(s, h, pre))
           /\ IsSeq(FinishedState(s, h, pre).tr)
           /\ Elems(FinishedState(s, h, pre).tr) =
                 Elems(h.tr) \cup Elems(pre) \cup {Fin(s, h, pre)}
           /\ IsSeq(FinishedRecords(s, h, pre))
           /\ \A r \in Elems(FinishedRecords(s, h, pre)) :
                 r.typ # "handshake" \/ r.m \in Elems(pre) \cup {Fin(s, h, pre)}
  <1> DEFINE h1  == [h EXCEPT !.tr = h.tr \o pre]
             fin == Fin(s, h, pre)
             f   == FinishedState(s, h, pre)
  <1>1. f = [h1 EXCEPT !.tr = Append(h1.tr, [t |-> "finished", verify |-> VerifyData(s, h1)]),
                       !.out = h.outNext, !.outNext = NoKey]
    BY DEF FinishedState
  <1>2. DOMAIN h1 = DOMAIN Blank /\ h1.tr = h.tr \o pre /\ Like(h, h1, {"tr"})
        /\ h1.secret = h.secret
    BY BlankFields DEF Like
  <1>3. fin = [t |-> "finished", verify |-> VerifyData(s, h1)]
    BY <1>2 DEF VerifyData, Fin
  <1> HIDE DEF h1
  <1>4. Like(h, f, {"tr", "out", "outNext"}) /\ f.out = h.outNext
        /\ f.tr = Append(h.tr \o pre, fin)
    BY <1>1, <1>2, <1>3, BlankFields DEF Like
  <1>5. IsSeq(h.tr \o pre) /\ Elems(h.tr \o pre) = Elems(h.tr) \cup Elems(pre)
    BY ConcatFacts
  <1>6. /\ IsSeq(f.tr) /\ Elems(f.tr) = Elems(h.tr) \cup Elems(pre) \cup {fin}
    <2>1. /\ IsSeq(Append(h.tr \o pre, fin))
          /\ Elems(Append(h.tr \o pre, fin)) = Elems(h.tr \o pre) \cup {fin}
      BY <1>5, SeqFacts
    <2> QED
      BY <1>4, <1>5, <2>1
  <1>7. f.tr[Len(f.tr)] = fin
    BY <1>4, <1>5 DEF IsSeq
  <1> DEFINE ccs == Rec("ccs", h.out, NoMsg)
             last == Rec("handshake", f.out, fin)
  <1>8. FinishedRecords(s, h, pre) = (Records(h.out, pre) \o <<ccs>>) \o <<last>>
    BY <1>7 DEF FinishedRecords
  <1> HIDE DEF f, fin
  <1>9. /\ IsSeq(FinishedRecords(s, h, pre))
        /\ Elems(FinishedRecords(s, h, pre)) =
              {Rec("handshake", h.out, x) : x \in Elems(pre)} \cup {ccs} \cup {last}
    <2>1. /\ IsSeq(Records(h.out, pre)) /\ IsSeq(<<ccs>>) /\ IsSeq(<<last>>)
          /\ Elems(Records(h.out, pre)) = {Rec("handshake", h.out, x) : x \in Elems(pre)}
          /\ Elems(<<ccs>>) = {ccs} /\ Elems(<<last>>) = {last}
      BY RecordsFacts, TupleFacts
    <2> HIDE DEF ccs, last
    <2>2. /\ IsSeq(Records(h.out, pre) \o <<ccs>>)
          /\ Elems(Records(h.out, pre) \o <<ccs>>) = Elems(Records(h.out, pre)) \cup {ccs}
      BY <2>1, ConcatFacts
    <2>3. /\ IsSeq((Records(h.out, pre) \o <<ccs>>) \o <<last>>)
          /\ Elems((Records(h.out, pre) \o <<ccs>>) \o <<last>>)
                = Elems(Records(h.out, pre) \o <<ccs>>) \cup Elems(<<last>>)
      BY <2>1, <2>2, ConcatFacts
    <2> QED
      BY <1>8, <2>1, <2>2, <2>3
  <1>10. /\ ccs.typ # "handshake" /\ last.m = fin
         /\ \A x : Rec("handshake", h.out, x).m = x
    BY DEF Rec
  <1>11. \A r \in Elems(FinishedRecords(s, h, pre)) :
             r.typ # "handshake" \/ r.m \in Elems(pre) \cup {fin}
    BY <1>9, <1>10
  <1> QED
    BY <1>4, <1>6, <1>9, <1>11 DEF f, fin

\* What the server takes from a ClientHello.
LEMMA HelloFacts ==
    ASSUME NEW c, NEW m
    PROVE  /\ Like(Blank, HelloState(c, m), {"hello", "vers", "alpn", "cert", "ems"})
           /\ HelloState(c, m).hello = m
           /\ HelloState(c, m).vers = mutualVersion(c, helloVersions(m))
           /\ HelloState(c, m).alpn = negotiateALPN(c.protos, m.protos)
           /\ HelloState(c, m).cert = getCertificate(c, m)
           /\ HelloState(c, m).ems = m.ems
  BY BlankFields DEF HelloState, Like

--------------------------------------------------------------------------------
(* The steps of the server *)

\* A server that refuses the hello.
LEMMA HelloRefusal ==
    ASSUME Frame, "server" \notin Free, Refuse("server", NoKey, <<>>)
    PROVE  Moved("server", {}) /\ Failed("server")
  <1>1. Fails("server", "refused", <<Rec("alert", NoKey, NoMsg)>>)
    BY DEF Refuse
  <1>2. IsSeq(<<>>) /\ Elems(<<>>) = {} /\ "server" \in Sides
    BY TupleFacts DEF Sides
  <1>3. Moved("server", Elems(<<>>)) /\ Failed("server")
    BY <1>1, <1>2, FailsMoved, "refused" # "done"
  <1> QED
    BY <1>2, <1>3

\* A resumption: the session of the ticket becomes that of the connection, and
\* the ticket is wrapped again with the time it was created.
Resumed(c, m, g, tk, fin) ==
    LET st == m.ticket.state
    IN /\ g.didResume = TRUE /\ g.suite = st.suite /\ g.peer = st.peer
       /\ g.verified = st.verified /\ g.ems = st.ems /\ g.secret = st.secret
       /\ g.sess = st /\ g.hello = m /\ g.tr = <<m, g.serverHello, tk, fin>>
       /\ g.vers = mutualVersion(c, helloVersions(m))
       /\ g.alpn = negotiateALPN(c.protos, m.protos)
       /\ g.serverHello = ServerHelloMsg(c, g, m, st.suite, TRUE)
       /\ g.inNext = TrafficKey("client", g) /\ g.out = TrafficKey("server", g)
       /\ tk.t = "newSessionTicket"
       /\ tk.ticket.state = SessionState(g, st.createdAt, st.born)
       /\ fin = [t |-> "finished",
                 verify |-> <<"finished", "server", g.secret, <<m, g.serverHello, tk>> >>]

\* ServerResumes: it fails, or resumes a fresh session of a ticket it has opened.
LEMMA ResumeEffect ==
    ASSUME Frame, "server" \notin Free, ServerResumes
    PROVE  LET c  == cfg["server"]
               m  == Msg("server")
               st == m.ticket.state
               g  == hs'["server"]
           IN /\ keys' = ticketKeys(c) /\ Reads("server", {"hello"}, "clientHello")
              /\ c.tickets /\ m.ticket # NoTicket /\ day - st.createdAt <= Lifetime
              /\ st.suite \in cipherSuites(c) /\ SessionCertOk(c, st)
              /\ m.ems => st.ems
              /\ \/ Moved("server", {}) /\ Failed("server")
                 \/ /\ ~(st.ems /\ ~m.ems) /\ cache' = cache /\ Goes("server", g, "ccs")
                    /\ \E tk, fin : /\ Resumed(c, m, g, tk, fin)
                                    /\ Moved("server", {g.serverHello, tk, fin})
  <1> DEFINE c  == cfg["server"]
             m  == Msg("server")
             st == m.ticket.state
             h0 == HelloState(c, m)
             sh == ServerHelloMsg(c, h0, m, st.suite, TRUE)
             h1 == [h0 EXCEPT !.didResume = TRUE, !.suite = st.suite, !.peer = st.peer,
                              !.verified = st.verified, !.ems = st.ems, !.secret = st.secret,
                              !.sess = st, !.serverHello = sh, !.tr = <<m, sh>>]
             h  == establishKeys("server", h1)
             tk == TicketMsg(h)
             f  == FinishedState("server", h, <<tk>>)
             fin == Fin("server", h, <<tk>>)
             recs == Records(NoKey, <<sh>>) \o FinishedRecords("server", h, <<tk>>)
  <1>1. /\ Reads("server", {"hello"}, "clientHello") /\ keys' = ticketKeys(c)
        /\ HelloAcceptable(h0, m) /\ Resumable(c, h0, m, Elems(ticketKeys(c)))
        /\ IF st.ems /\ ~m.ems THEN Fails("server", "error", <<>>)
           ELSE Advance("server", f, recs, "ccs", FALSE) /\ cache' = cache
    BY DEF ServerResumes
  <1>2. /\ c.tickets /\ m.ticket # NoTicket /\ day - st.createdAt <= Lifetime
        /\ st.suite \in cipherSuites(c) /\ SessionCertOk(c, st)
        /\ m.ems => st.ems
    BY <1>1 DEF Resumable
  <1>3. "server" \in Sides /\ Peer("server") = "client"
    BY DEF Sides, Peer
  <1>4. CASE st.ems /\ ~m.ems
    <2>1. IsSeq(<<>>) /\ Elems(<<>>) = {}
      BY TupleFacts
    <2>2. Moved("server", Elems(<<>>)) /\ Failed("server")
      BY <1>1, <1>3, <1>4, <2>1, FailsMoved, "error" # "done"
    <2> HIDE DEF m, c
    <2> QED
      BY <1>1, <1>2, <2>1, <2>2 DEF m, c
  <1>5. CASE ~(st.ems /\ ~m.ems)
    <2>1. Like(Blank, h0, {"hello", "vers", "alpn", "cert", "ems"}) /\ h0.hello = m
          /\ h0.vers = mutualVersion(c, helloVersions(m))
          /\ h0.alpn = negotiateALPN(c.protos, m.protos)
      BY HelloFacts
    <2> HIDE DEF h0, sh
    <2>2. /\ DOMAIN h1 = DOMAIN Blank /\ h1.hello = m /\ h1.vers = h0.vers /\ h1.alpn = h0.alpn
          /\ h1.didResume = TRUE /\ h1.suite = st.suite /\ h1.peer = st.peer
          /\ h1.verified = st.verified /\ h1.ems = st.ems /\ h1.secret = st.secret
          /\ h1.sess = st /\ h1.serverHello = sh /\ h1.tr = <<m, sh>> /\ h1.cert = h0.cert
      BY <2>1, BlankFields DEF Like
    <2> HIDE DEF h1
    <2>3. /\ Like(h1, h, {"inNext", "outNext"}) /\ h.inNext = TrafficKey("client", h1)
          /\ h.outNext = TrafficKey("server", h1)
      BY <1>3, <2>2, EstablishFacts
    <2> HIDE DEF h
    <2>4. /\ DOMAIN h = DOMAIN Blank /\ h.hello = m /\ h.vers = h0.vers /\ h.alpn = h0.alpn
          /\ h.didResume = TRUE /\ h.suite = st.suite /\ h.peer = st.peer
          /\ h.verified = st.verified /\ h.ems = st.ems /\ h.secret = st.secret
          /\ h.sess = st /\ h.serverHello = sh /\ h.tr = <<m, sh>> /\ h.cert = h0.cert
      BY <2>2, <2>3, BlankFields DEF Like
    <2>5. tk.t = "newSessionTicket" /\ tk.ticket.state = SessionState(h, st.createdAt, st.born)
      BY <2>4 DEF TicketMsg
    <2> HIDE DEF tk
    <2>6. IsSeq(h.tr) /\ IsSeq(<<tk>>) /\ Elems(<<tk>>) = {tk} /\ h.tr \o <<tk>> = <<m, sh, tk>>
      <3>1. h.tr \o <<tk>> = <<m, sh, tk>>
        <4>1. <<m, sh>> \o <<tk>> = <<m, sh, tk>>
          BY Triple
        <4>2. h.tr = <<m, sh>>
          BY <2>4
        <4> QED
          BY <4>1, <4>2
      <3> QED
        BY <2>4, <3>1, TupleFacts
    <2>7. /\ Like(h, f, {"tr", "out", "outNext"}) /\ f.out = h.outNext /\ IsSeq(f.tr)
          /\ f.tr = Append(<<m, sh, tk>>, fin)
          /\ IsSeq(FinishedRecords("server", h, <<tk>>))
          /\ \A r \in Elems(FinishedRecords("server", h, <<tk>>)) :
                r.typ # "handshake" \/ r.m \in {tk} \cup {fin}
      <3>1. /\ Like(h, f, {"tr", "out", "outNext"}) /\ f.out = h.outNext /\ IsSeq(f.tr)
            /\ f.tr = Append(h.tr \o <<tk>>, fin)
            /\ IsSeq(FinishedRecords("server", h, <<tk>>))
            /\ \A r \in Elems(FinishedRecords("server", h, <<tk>>)) :
                  r.typ # "handshake" \/ r.m \in Elems(<<tk>>) \cup {fin}
        BY <1>3, <2>4, <2>6, FinishedFacts
      <3> HIDE DEF f, fin
      <3> QED
        BY <2>6, <3>1
    <2> HIDE DEF f, fin
    <2>8. /\ DOMAIN f = DOMAIN Blank /\ f.hello = m /\ f.vers = h0.vers /\ f.alpn = h0.alpn
          /\ f.didResume = TRUE /\ f.suite = st.suite /\ f.peer = st.peer
          /\ f.verified = st.verified /\ f.ems = st.ems /\ f.secret = st.secret
          /\ f.sess = st /\ f.serverHello = sh /\ f.cert = h0.cert
          /\ f.inNext = TrafficKey("client", h1) /\ f.out = TrafficKey("server", h1)
      BY <2>3, <2>4, <2>7, BlankFields DEF Like
    <2>9. IsSeq(recs) /\ \A r \in Elems(recs) : r.typ # "handshake" \/ r.m \in {sh, tk, fin}
      <3>1. IsSeq(<<sh>>) /\ Elems(<<sh>>) = {sh}
        BY TupleFacts
      <3>2. /\ IsSeq(Records(NoKey, <<sh>>))
            /\ Elems(Records(NoKey, <<sh>>)) = {Rec("handshake", NoKey, x) : x \in {sh}}
        BY <3>1, RecordsFacts
      <3>3. Rec("handshake", NoKey, sh).m = sh
        BY DEF Rec
      <3>4. IsSeq(recs) /\ Elems(recs) = Elems(Records(NoKey, <<sh>>))
                                         \cup Elems(FinishedRecords("server", h, <<tk>>))
        BY <2>7, <3>2, ConcatFacts
      <3> QED
        BY <2>7, <3>2, <3>3, <3>4
    <2> HIDE DEF recs
    <2>10. pc["server"] # "ended"
      BY <1>1 DEF Reads
    <2>11. Moved("server", {sh, tk, fin}) /\ Goes("server", f, "ccs") /\ cache' = cache
      <3>1. Advance("server", f, recs, "ccs", FALSE) /\ cache' = cache
        BY <1>1, <1>5
      <3> QED
        BY <1>3, <2>7, <2>8, <2>9, <2>10, <3>1, AdvanceMoved
    <2>12. hs'["server"] = f
      BY <2>11 DEF Goes
    <2>13. /\ TrafficKey("client", f) = TrafficKey("client", h1)
           /\ TrafficKey("server", f) = TrafficKey("server", h1)
      BY <2>2, <2>8 DEF TrafficKey
    <2>14. /\ sh = ServerHelloMsg(c, f, m, st.suite, TRUE)
           /\ SessionState(h, st.createdAt, st.born) = SessionState(f, st.createdAt, st.born)
      BY <2>4, <2>8 DEF sh, ServerHelloMsg, SessionState
    <2>15. /\ f.tr = <<m, sh, tk, fin>> /\ f.vers = mutualVersion(c, helloVersions(m))
           /\ f.alpn = negotiateALPN(c.protos, m.protos)
           /\ fin = [t |-> "finished",
                     verify |-> <<"finished", "server", f.secret, <<m, sh, tk>> >>]
      <3>1. f.tr = <<m, sh, tk, fin>>
        BY <2>7, Quadruple
      <3> QED
        BY <2>1, <2>4, <2>6, <2>8, <3>1 DEF fin, Fin
    <2>16. Resumed(c, m, f, tk, fin)
      BY <2>5, <2>8, <2>13, <2>14, <2>15 DEF Resumed
    <2>17. Resumed(c, m, hs'["server"], tk, fin)
           /\ Moved("server", {hs'["server"].serverHello, tk, fin})
      BY <2>8, <2>11, <2>12, <2>16
    <2> HIDE DEF m, c
    <2> QED
      BY <1>1, <1>2, <1>5, <2>11, <2>12, <2>17 DEF m, c
  <1> QED
    BY <1>4, <1>5

\* The messages of the server's first flight after its certificate.
Later == {"certificateStatus", "serverKeyExchange", "certificateRequest", "serverHelloDone"}

\* The server's first flight, from its hello a and its certificate b on.
Flight(t, a, b) == After(t, 2, Later) /\ t[1] = a /\ t[2] = b
Trailing(u) == IsSeq(u) /\ \A x \in Elems(u) : x.t \in Later

\* A flight that begins with ServerHello and Certificate goes on so.
LEMMA GrowFlight ==
    ASSUME NEW t, NEW u, NEW a, NEW b, Flight(t, a, b), Trailing(u)
    PROVE  Flight(t \o u, a, b)
  <1>1. 2 \in Nat /\ After(t, 2, Later) /\ IsSeq(u) /\ \A x \in Elems(u) : x.t \in Later
    BY DEF Flight, Trailing
  <1>2. After(t \o u, 2, Later) /\ \A i \in 1 .. 2 : (t \o u)[i] = t[i]
    BY <1>1, Grow
  <1>3. (t \o u)[1] = t[1] /\ (t \o u)[2] = t[2]
    <2>1. 1 \in 1 .. 2 /\ 2 \in 1 .. 2
      OBVIOUS
    <2> QED
      BY <1>2, <2>1
  <1>4. t[1] = a /\ t[2] = b
    BY DEF Flight
  <1> QED
    BY <1>2, <1>3, <1>4 DEF Flight

\* The transcript of the server after its first flight.
Opened(u, x, a, b) == After(u, 3, Later) /\ u[1] = x /\ u[2] = a /\ u[3] = b

\* With the ClientHello in front of it, it is the transcript.
LEMMA HelloFlight ==
    ASSUME NEW t, NEW a, NEW b, NEW x, Flight(t, a, b), NEW u, u = <<x>> \o t
    PROVE  Opened(u, x, a, b)
  <1>1. /\ IsSeq(t) /\ Len(t) \in Nat /\ DOMAIN t = 1 .. Len(t) /\ Len(t) >= 2
        /\ t[1] = a /\ t[2] = b /\ \A i \in DOMAIN t : i > 2 => t[i].t \in Later
    BY SeqFacts DEF Flight, After
  <1>2. IsSeq(<<x>>) /\ Len(<<x>>) = 1 /\ <<x>>[1] = x
    BY TupleFacts
  <1>3. IsSeq(u)
    BY <1>1, <1>2, ConcatFacts
  <1>4. /\ Len(u) = 1 + Len(t) /\ DOMAIN u = 1 .. 1 + Len(t)
        /\ \A i \in 1 .. 1 + Len(t) : u[i] = IF i <= 1 THEN <<x>>[i] ELSE t[i - 1]
    BY <1>1, <1>2 DEF IsSeq
  <1>5. u[1] = x /\ u[2] = a /\ u[3] = b
    BY <1>1, <1>2, <1>4
  <1>6. ASSUME NEW i \in DOMAIN u, i > 3 PROVE u[i].t \in Later
    <2>1. i - 1 \in DOMAIN t /\ i - 1 > 2 /\ u[i] = t[i - 1]
      BY <1>1, <1>4, <1>6
    <2> QED
      BY <1>1, <2>1
  <1> QED
    BY <1>1, <1>3, <1>4, <1>5, <1>6 DEF After, Opened

\* The first flight of the server is such a flight, whatever it holds after them.
LEMMA FlightFacts ==
    ASSUME NEW c, NEW m, NEW h, NEW sh
    PROVE  LET ce == [t |-> "certificate", cert |-> h.cert]
               first == CertFlight(h, sh)
               flight == first \o KeyExchange(c, h, m, sh) \o CertRequest(c)
                            \o <<[t |-> "serverHelloDone"]>>
           IN Flight(first, sh, ce) /\ Flight(flight, sh, ce)
  <1> DEFINE ce == [t |-> "certificate", cert |-> h.cert]
             st == IF sh.ocsp THEN <<[t |-> "certificateStatus"]>> ELSE <<>>
             skx == KeyExchange(c, h, m, sh)
             cr == CertRequest(c)
             dn == <<[t |-> "serverHelloDone"]>>
             f1 == <<sh, ce>>
             f2 == f1 \o st
             f3 == f2 \o skx
             f4 == f3 \o cr
             f5 == f4 \o dn
  <1>1. Trailing(st)
    BY TupleFacts DEF Later, Trailing
  <1>2. Trailing(skx)
    BY TupleFacts DEF Later, KeyExchange, Trailing
  <1>3. Trailing(cr)
    BY TupleFacts DEF Later, CertRequest, Trailing
  <1>4. Trailing(dn)
    BY TupleFacts DEF Later, Trailing
  <1>5. Flight(f1, sh, ce)
    BY TupleFacts DEF After, Flight
  <1>6. CertFlight(h, sh) = f2
    BY DEF CertFlight
  <1> HIDE DEF st, skx, cr, dn, f1, ce
  <1>8. Flight(f2, sh, ce)
    BY <1>1, <1>5, GrowFlight
  <1> HIDE DEF f2
  <1>9. Flight(f3, sh, ce)
    BY <1>2, <1>8, GrowFlight
  <1> HIDE DEF f3
  <1>10. Flight(f4, sh, ce)
    BY <1>3, <1>9, GrowFlight
  <1> HIDE DEF f4
  <1>11. Flight(f5, sh, ce)
    BY <1>4, <1>10, GrowFlight
  <1> QED
    BY <1>6, <1>8, <1>11 DEF f5, f4, f3, skx, cr, dn, ce

\* The server's first flight as its state h has it.
FirstFlight(c, h, m) ==
    CertFlight(h, h.serverHello) \o KeyExchange(c, h, m, h.serverHello) \o CertRequest(c)
       \o <<[t |-> "serverHelloDone"]>>

\* A full handshake begins: hello, ServerHello and certificate, and what follows.
Begun(c, m, g) ==
    /\ g.didResume = FALSE /\ g.peer = NoCert /\ g.hello = m /\ g.sess = NoSession
    /\ g.vers = mutualVersion(c, helloVersions(m)) /\ g.vers # 0
    /\ g.alpn = negotiateALPN(c.protos, m.protos) /\ g.ems = m.ems
    /\ g.suite = pickCipherSuite(c, g.vers, g.cert, m) /\ g.suite # "refused"
    /\ g.serverHello = ServerHelloMsg(c, g, m, g.suite, FALSE)
    /\ After(g.tr, 3, Later) /\ g.tr[1] = m /\ g.tr[2] = g.serverHello
    /\ g.tr[3] = [t |-> "certificate", cert |-> g.cert]
    /\ g.tr = <<m>> \o FirstFlight(c, g, m)

\* What a server sends before it has read the client's key exchange.
Opening(M) == \A x \in M : x.t \in {"serverHello", "certificate"} \cup Later

\* The types of messages in such a flight.
LEMMA FlightOpening ==
    ASSUME NEW t, NEW a, NEW b, Flight(t, a, b), a.t = "serverHello", b.t = "certificate"
    PROVE  IsSeq(t) /\ Opening(Elems(t))
  <1>1. /\ IsSeq(t) /\ Len(t) \in Nat /\ DOMAIN t = 1 .. Len(t)
        /\ \A i \in DOMAIN t : i > 2 => t[i].t \in Later
        /\ t[1] = a /\ t[2] = b
    BY SeqFacts DEF Flight, After
  <1>2. \A i \in DOMAIN t : i = 1 \/ i = 2 \/ i > 2
    BY <1>1
  <1> QED
    BY <1>1, <1>2 DEF Opening, Elems

\* ServerFull: it fails, or has begun a full handshake with what it chose.
LEMMA FullEffect ==
    ASSUME Frame, "server" \notin Free, ServerFull
    PROVE  /\ keys' = ticketKeys(cfg["server"])
           /\ Reads("server", {"hello"}, "clientHello")
           /\ \E M : Opening(M) /\ Moved("server", M)
           /\ \/ Failed("server")
              \/ /\ Begun(cfg["server"], Msg("server"), hs'["server"]) /\ cache' = cache
                 /\ Goes("server", hs'["server"],
                         IF cfg["server"].auth = 0 THEN "ckx" ELSE "cert")
  <1> DEFINE c  == cfg["server"]
             m  == Msg("server")
             h0 == HelloState(c, m)
             suite == pickCipherSuite(c, h0.vers, h0.cert, m)
             sh == ServerHelloMsg(c, h0, m, suite, FALSE)
             ce == [t |-> "certificate", cert |-> h0.cert]
             skx == KeyExchange(c, h0, m, sh)
             first == CertFlight(h0, sh)
             flight == first \o skx \o CertRequest(c) \o <<[t |-> "serverHelloDone"]>>
             h == [h0 EXCEPT !.suite = suite, !.serverHello = sh, !.tr = <<m>> \o flight,
                             !.share = IF skx = <<>> THEN h0.share ELSE skx[1].share]
  <1>1. /\ Reads("server", {"hello"}, "clientHello") /\ keys' = ticketKeys(c)
        /\ HelloAcceptable(h0, m)
        /\ \/ Refuse("server", NoKey, <<>>)
           \/ Refuse("server", NoKey, Records(NoKey, first))
           \/ /\ Advance("server", h, Records(NoKey, flight),
                         IF c.auth = 0 THEN "ckx" ELSE "cert", FALSE)
              /\ cache' = cache /\ suite # "refused"
    BY DEF ServerFull
  <1>2. "server" \in Sides /\ Peer("server") = "client"
    BY DEF Sides, Peer
  <1>3. sh.t = "serverHello" /\ ce.t = "certificate"
    BY DEF ServerHelloMsg
  <1>4. Flight(first, sh, ce) /\ Flight(flight, sh, ce)
    BY FlightFacts
  <1>5. IsSeq(first) /\ Opening(Elems(first)) /\ IsSeq(flight) /\ Opening(Elems(flight))
    <2> HIDE DEF sh, ce, first, flight
    <2> QED
      BY <1>3, <1>4, FlightOpening
  <1>6. CASE Refuse("server", NoKey, <<>>)
    <2>1. Moved("server", {}) /\ Failed("server")
      BY <1>6, HelloRefusal
    <2>2. Opening({})
      BY DEF Opening
    <2> QED
      BY <1>1, <2>1, <2>2
  <1>7. CASE Refuse("server", NoKey, Records(NoKey, first))
    <2> HIDE DEF first
    <2>1. Fails("server", "refused",
                Append(Records(NoKey, first), Rec("alert", NoKey, NoMsg)))
      BY <1>7 DEF Refuse
    <2>2. Moved("server", Elems(first)) /\ Failed("server")
      BY <1>2, <1>5, <2>1, FailsMoved, "refused" # "done"
    <2> QED
      BY <1>1, <1>5, <2>2
  <1>8. CASE /\ Advance("server", h, Records(NoKey, flight),
                        IF c.auth = 0 THEN "ckx" ELSE "cert", FALSE)
             /\ cache' = cache /\ suite # "refused"
    <2>1. /\ Like(Blank, h0, {"hello", "vers", "alpn", "cert", "ems"}) /\ h0.hello = m
          /\ h0.vers = mutualVersion(c, helloVersions(m)) /\ h0.ems = m.ems
          /\ h0.alpn = negotiateALPN(c.protos, m.protos) /\ h0.vers # 0
      BY <1>1, HelloFacts DEF HelloAcceptable
    <2>2. h0.didResume = FALSE /\ h0.peer = NoCert /\ h0.sess = NoSession
          /\ DOMAIN h0 = DOMAIN Blank
      <3> HIDE DEF h0
      <3>1. Blank.didResume = FALSE /\ Blank.peer = NoCert /\ Blank.sess = NoSession
        BY DEF Blank
      <3> QED
        BY <2>1, <3>1, BlankFields DEF Like
    <2>3. /\ After(flight, 2, Later) /\ flight[1] = sh /\ flight[2] = ce
      BY <1>4 DEF Flight
    <2> HIDE DEF h0, sh, ce, suite, skx, first, flight
    <2>4. /\ DOMAIN h = DOMAIN Blank /\ h.suite = suite /\ h.serverHello = sh
          /\ h.tr = <<m>> \o flight /\ h.didResume = FALSE /\ h.peer = NoCert
          /\ h.sess = NoSession /\ h.hello = m /\ h.vers = h0.vers /\ h.cert = h0.cert
          /\ h.alpn = h0.alpn /\ h.ems = h0.ems
      BY <2>1, <2>2, BlankFields
    <2>5. /\ After(h.tr, 3, Later) /\ h.tr[1] = m /\ h.tr[2] = sh /\ h.tr[3] = ce
      <3>1. Opened(h.tr, m, sh, ce)
        BY <1>4, <2>4, HelloFlight
      <3> QED
        BY <3>1 DEF Opened
    <2>6. Begun(c, m, h)
      <3>1. sh = ServerHelloMsg(c, h, m, h.suite, FALSE)
        BY <2>4 DEF sh, ServerHelloMsg
      <3>2. h.suite = pickCipherSuite(c, h.vers, h.cert, m)
        BY <2>4 DEF suite
      <3>3. h.tr[3] = [t |-> "certificate", cert |-> h.cert]
        BY <2>4, <2>5 DEF ce
      <3>4. h.tr = <<m>> \o FirstFlight(c, h, m)
        <4>1. CertFlight(h, sh) = first
          BY <2>4 DEF first, CertFlight
        <4>2. KeyExchange(c, h, m, sh) = skx
          BY <2>4 DEF skx, KeyExchange
        <4> HIDE DEF h
        <4> QED
          BY <2>4, <4>1, <4>2 DEF FirstFlight, flight
      <3> HIDE DEF h
      <3> QED
        BY <1>8, <2>1, <2>4, <2>5, <3>1, <3>2, <3>3, <3>4 DEF Begun
    <2>7. IsSeq(h.tr) /\ pc["server"] # "ended"
      BY <1>1, <2>5 DEF After, Reads
    <2>8. /\ IsSeq(Records(NoKey, flight))
          /\ \A r \in Elems(Records(NoKey, flight)) : r.typ # "handshake" \/ r.m \in Elems(flight)
      <3>1. \A x : Rec("handshake", NoKey, x).m = x
        BY DEF Rec
      <3> QED
        BY <1>5, <3>1, RecordsFacts
    <2> DEFINE w == IF c.auth = 0 THEN "ckx" ELSE "cert"
    <2> HIDE DEF h
    <2>9. Moved("server", Elems(flight)) /\ Goes("server", h, w)
      <3>1. Advance("server", h, Records(NoKey, flight), w, FALSE)
        BY <1>8
      <3> HIDE DEF w
      <3> QED
        BY <1>2, <2>4, <2>7, <2>8, <3>1, AdvanceMoved
    <2>10. hs'["server"] = h
      BY <2>9 DEF Goes
    <2> QED
      BY <1>1, <1>5, <1>8, <2>6, <2>9, <2>10
  <1> QED
    BY <1>1, <1>6, <1>7, <1>8

\* s has read m into its transcript: fields F of its state have changed, tr too.
Noted(h, g, m, F) == Like(h, g, F \cup {"tr"}) /\ IsSeq(g.tr) /\ g.tr = Append(h.tr, m)

\* A state that has noted m differs from the one before in F and in the transcript.
LEMMA NotedFacts ==
    ASSUME NEW h, DOMAIN h = DOMAIN Blank, IsSeq(h.tr), NEW m, NEW g,
           DOMAIN g = DOMAIN Blank, g.tr = Append(h.tr, m),
           NEW F, \A f \in DOMAIN Blank \ (F \cup {"tr"}) : g[f] = h[f]
    PROVE  Noted(h, g, m, F) /\ Elems(g.tr) = Elems(h.tr) \cup {m}
  BY SeqFacts DEF Noted, Like

\* The message a side reads is in a record on its wire.
LEMMA ReadingFacts ==
    ASSUME Frame, NEW s \in Sides, NEW W, NEW t, Reads(s, W, t)
    PROVE  /\ DOMAIN hs[s] = DOMAIN Blank /\ IsSeq(hs[s].tr) /\ pc[s] # "ended" /\ pc[s] \in W
           /\ Msg(s).t = t
           /\ \E r \in Elems(wire[s]) : r.typ = "handshake" /\ r.m = Msg(s)
  <1>1. IsSeq(wire[s]) /\ wire[s] # <<>>
    BY DEF Frame, Reads, Reading
  <1>2. Head(wire[s]) \in Elems(wire[s])
    BY <1>1, SeqFacts
  <1> QED
    BY <1>2 DEF Frame, Reads, Reading, Msg, Incoming

\* ServerCertificate: it fails, or keeps a certificate that was accepted.
LEMMA CertificateEffect ==
    ASSUME Frame, "server" \notin Free, ServerCertificate
    PROVE  /\ Moved("server", {}) /\ keys' = keys
           /\ Reads("server", {"cert"}, "certificate")
           /\ \/ Failed("server")
              \/ /\ Goes("server", hs'["server"], "ckx") /\ cache' = cache
                 /\ Noted(hs["server"], hs'["server"], Msg("server"), {"peer", "verified"})
                 /\ hs'["server"].peer = Msg("server").cert
                 /\ ClientCertAccepted(cfg["server"], Msg("server").cert, day)
  <1> DEFINE m == Msg("server")
             h == hs["server"]
             g == [h EXCEPT !.peer = m.cert, !.tr = Append(h.tr, m),
                            !.verified = cfg["server"].auth >= 3 /\ m.cert # NoCert]
  <1>1. "server" \in Sides
    BY DEF Sides
  <1>2. Reads("server", {"cert"}, "certificate")
    BY DEF ServerCertificate
  <1>3. DOMAIN h = DOMAIN Blank /\ IsSeq(h.tr) /\ pc["server"] # "ended"
    BY <1>1, <1>2, ReadingFacts
  <1>4. CASE RefuseMsg("server")
    BY <1>1, <1>2, <1>4, Refusal
  <1>5. CASE /\ ClientCertAccepted(cfg["server"], m.cert, day)
             /\ Advance("server", g, <<>>, "ckx", FALSE) /\ Stay
    <2>1. /\ DOMAIN g = DOMAIN Blank /\ g.tr = Append(h.tr, m) /\ g.peer = m.cert
          /\ \A f \in DOMAIN Blank \ {"peer", "verified", "tr"} : g[f] = h[f]
      BY <1>3, BlankFields
    <2> HIDE DEF g
    <2>2. Noted(h, g, m, {"peer", "verified"})
      BY <1>3, <2>1, NotedFacts
    <2>3. Moved("server", {}) /\ Goes("server", g, "ckx")
      BY <1>1, <1>3, <1>5, <2>1, <2>2, SilentMoved DEF Noted
    <2> QED
      BY <1>2, <1>5, <2>1, <2>2, <2>3 DEF Stay, Goes
  <1> QED
    BY <1>4, <1>5 DEF ServerCertificate

\* ServerKeyExchange: it fails, or has keys and asks for proof of a certificate.
LEMMA KeyExchangeEffect ==
    ASSUME Frame, "server" \notin Free, ServerKeyExchange
    PROVE  LET h == hs["server"]
               g == hs'["server"]
           IN /\ Moved("server", {}) /\ keys' = keys
              /\ Reads("server", {"ckx"}, "clientKeyExchange")
              /\ \/ Failed("server")
                 \/ /\ Goes("server", g, IF h.peer # NoCert THEN "certVerify" ELSE "ccs")
                    /\ cache' = cache
                    /\ Noted(h, g, Msg("server"), {"secret", "inNext", "outNext"})
                    /\ h.peer = NoCert => NextKeys("server", g)
  <1> DEFINE m  == Msg("server")
             h  == hs["server"]
             h0 == [h EXCEPT !.tr = Append(h.tr, m)]
             h1 == [h0 EXCEPT !.secret = Master(h0, <<h0.share, m.share>>)]
             g  == establishKeys("server", h1)
             F  == {"secret", "inNext", "outNext"}
  <1>1. "server" \in Sides
    BY DEF Sides
  <1>2. Reads("server", {"ckx"}, "clientKeyExchange")
    BY DEF ServerKeyExchange
  <1>3. DOMAIN h = DOMAIN Blank /\ IsSeq(h.tr) /\ pc["server"] # "ended"
    BY <1>1, <1>2, ReadingFacts
  <1>4. /\ DOMAIN h0 = DOMAIN Blank /\ h0.tr = Append(h.tr, m) /\ h0.peer = h.peer
        /\ \A f \in DOMAIN Blank \ {"tr"} : h0[f] = h[f]
    BY <1>3, BlankFields
  <1>5. \/ RefuseMsg("server")
        \/ h.peer # NoCert /\ Advance("server", h1, <<>>, "certVerify", FALSE) /\ Stay
        \/ h.peer = NoCert /\ Advance("server", g, <<>>, "ccs", FALSE) /\ Stay
    BY <1>4 DEF ServerKeyExchange
  <1> HIDE DEF h0
  <1>6. /\ DOMAIN h1 = DOMAIN Blank /\ h1.tr = Append(h.tr, m)
        /\ \A f \in DOMAIN Blank \ (F \cup {"tr"}) : h1[f] = h[f]
    BY <1>4, BlankFields
  <1> HIDE DEF h1
  <1>7. /\ DOMAIN g = DOMAIN Blank /\ g.tr = Append(h.tr, m)
        /\ \A f \in DOMAIN Blank \ (F \cup {"tr"}) : g[f] = h[f]
    <2>1. Like(h1, g, {"inNext", "outNext"})
      BY <1>1, <1>6, EstablishFacts
    <2> HIDE DEF g
    <2> QED
      BY <1>6, <2>1, BlankFields DEF Like
  <1>12. NextKeys("server", g)
    BY <1>1, <1>6, EstablishNext
  <1> HIDE DEF g, F
  <1>8. Noted(h, h1, m, F) /\ Noted(h, g, m, F)
    BY <1>3, <1>6, <1>7, NotedFacts
  <1>9. CASE RefuseMsg("server")
    BY <1>1, <1>2, <1>9, Refusal
  <1>10. CASE h.peer # NoCert /\ Advance("server", h1, <<>>, "certVerify", FALSE) /\ Stay
    <2>1. Moved("server", {}) /\ Goes("server", h1, "certVerify")
      BY <1>1, <1>3, <1>6, <1>8, <1>10, SilentMoved DEF Noted
    <2> QED
      BY <1>2, <1>8, <1>10, <2>1 DEF Stay, Goes, F
  <1>11. CASE h.peer = NoCert /\ Advance("server", g, <<>>, "ccs", FALSE) /\ Stay
    <2>1. Moved("server", {}) /\ Goes("server", g, "ccs")
      BY <1>1, <1>3, <1>7, <1>8, <1>11, SilentMoved DEF Noted
    <2> QED
      BY <1>2, <1>8, <1>11, <1>12, <2>1 DEF Stay, Goes, F
  <1> QED
    BY <1>5, <1>9, <1>10, <1>11

\* ServerCertVerify: it fails, or the signature was good.
LEMMA CertVerifyEffect ==
    ASSUME Frame, "server" \notin Free, ServerCertVerify
    PROVE  LET h == hs["server"]
               g == hs'["server"]
               m == Msg("server")
           IN /\ Moved("server", {}) /\ keys' = keys
              /\ Reads("server", {"certVerify"}, "certificateVerify")
              /\ \/ Failed("server")
                 \/ /\ Goes("server", g, "ccs") /\ cache' = cache
                    /\ Noted(h, g, m, {"inNext", "outNext"}) /\ NextKeys("server", g)
                    /\ Proves(m.sig, Signature(h.peer, h.tr))
  <1> DEFINE m  == Msg("server")
             h  == hs["server"]
             h0 == [h EXCEPT !.tr = Append(h.tr, m)]
             g  == establishKeys("server", h0)
             F  == {"inNext", "outNext"}
  <1>1. "server" \in Sides
    BY DEF Sides
  <1>2. Reads("server", {"certVerify"}, "certificateVerify")
    BY DEF ServerCertVerify
  <1>3. DOMAIN h = DOMAIN Blank /\ IsSeq(h.tr) /\ pc["server"] # "ended"
    BY <1>1, <1>2, ReadingFacts
  <1>4. \/ RefuseMsg("server")
        \/ /\ Proves(m.sig, Signature(h.peer, h.tr))
           /\ Advance("server", g, <<>>, "ccs", FALSE) /\ Stay
    BY DEF ServerCertVerify
  <1>5. /\ DOMAIN h0 = DOMAIN Blank /\ h0.tr = Append(h.tr, m)
        /\ \A f \in DOMAIN Blank \ (F \cup {"tr"}) : h0[f] = h[f]
    BY <1>3, BlankFields
  <1> HIDE DEF h0
  <1>6. /\ DOMAIN g = DOMAIN Blank /\ g.tr = Append(h.tr, m)
        /\ \A f \in DOMAIN Blank \ (F \cup {"tr"}) : g[f] = h[f]
    <2>1. Like(h0, g, {"inNext", "outNext"})
      BY <1>1, <1>5, EstablishFacts
    <2> HIDE DEF g
    <2> QED
      BY <1>5, <2>1, BlankFields DEF Like
  <1>10. NextKeys("server", g)
    BY <1>1, <1>5, EstablishNext
  <1> HIDE DEF g, F
  <1>7. Noted(h, g, m, F)
    BY <1>3, <1>6, NotedFacts
  <1>8. CASE RefuseMsg("server")
    BY <1>1, <1>2, <1>8, Refusal
  <1>9. CASE /\ Proves(m.sig, Signature(h.peer, h.tr))
             /\ Advance("server", g, <<>>, "ccs", FALSE) /\ Stay
    <2>1. Moved("server", {}) /\ Goes("server", g, "ccs")
      BY <1>1, <1>3, <1>6, <1>7, <1>9, SilentMoved DEF Noted
    <2> QED
      BY <1>2, <1>7, <1>9, <1>10, <2>1 DEF Stay, Goes, F
  <1> QED
    BY <1>4, <1>8, <1>9

\* The ticket a server sends after a full handshake, if any.
Issues(h, pre) ==
    IF h.serverHello.tickets
    THEN \E tk : /\ pre = <<tk>> /\ tk.t = "newSessionTicket"
                 /\ tk.ticket.state = SessionState(h, day, day)
    ELSE pre = <<>>

\* s in state h has read m and sent messages pre and its Finished: g is its state.
Completes(s, h, g, m, pre) ==
    LET fin == [t |-> "finished",
                verify |-> <<"finished", s, h.secret, Append(h.tr, m) \o pre>>]
    IN /\ Like(h, g, {"tr", "out", "outNext"}) /\ g.out = h.outNext
       /\ IsSeq(g.tr) /\ g.tr = Append(Append(h.tr, m) \o pre, fin)
       /\ Elems(g.tr) = Elems(h.tr) \cup {m} \cup Elems(pre) \cup {fin}
       /\ Moved(s, Elems(pre) \cup {fin})

\* A side that sends its Finished last.
LEMMA CompletesFacts ==
    ASSUME Frame, NEW s \in Sides, s \notin Free, NEW m, NEW pre, IsSeq(pre),
           NEW h0, h0 = [hs[s] EXCEPT !.tr = Append(hs[s].tr, m)], pc[s] # "ended",
           Advance(s, FinishedState(s, h0, pre), FinishedRecords(s, h0, pre), "ended", FALSE)
    PROVE  Completes(s, hs[s], hs'[s], m, pre) /\ Goes(s, hs'[s], "ended")
  <1> DEFINE h == hs[s]
             g == FinishedState(s, h0, pre)
             fin == Fin(s, h0, pre)
  <1>1. DOMAIN h = DOMAIN Blank /\ IsSeq(h.tr)
    BY DEF Frame
  <1>2. /\ DOMAIN h0 = DOMAIN Blank /\ h0.tr = Append(h.tr, m)
        /\ \A f \in DOMAIN Blank \ {"tr"} : h0[f] = h[f]
    BY <1>1, BlankFields
  <1>3. IsSeq(h0.tr) /\ Elems(h0.tr) = Elems(h.tr) \cup {m}
    BY <1>1, <1>2, SeqFacts
  <1>4. /\ Like(h0, g, {"tr", "out", "outNext"}) /\ g.out = h0.outNext
        /\ g.tr = Append(h0.tr \o pre, fin) /\ IsSeq(g.tr)
        /\ Elems(g.tr) = Elems(h0.tr) \cup Elems(pre) \cup {fin}
        /\ IsSeq(FinishedRecords(s, h0, pre))
        /\ \A r \in Elems(FinishedRecords(s, h0, pre)) :
              r.typ # "handshake" \/ r.m \in Elems(pre) \cup {fin}
    <2>1. DOMAIN h0 = DOMAIN Blank /\ IsSeq(h0.tr)
      BY <1>2, <1>3
    <2> QED
      BY ONLY s \in Sides, IsSeq(pre), <2>1, FinishedFacts
  <1>5. fin = [t |-> "finished",
               verify |-> <<"finished", s, h.secret, Append(h.tr, m) \o pre>>]
    BY <1>2, BlankFields DEF Fin
  <1> HIDE DEF g, fin
  <1>6. Moved(s, Elems(pre) \cup {fin}) /\ Goes(s, g, "ended")
    <2>1. DOMAIN g = DOMAIN Blank /\ Advance(s, g, FinishedRecords(s, h0, pre), "ended", FALSE)
      BY <1>4 DEF Like, g
    <2> QED
      BY <1>4, <2>1, AdvanceMoved
  <1>7. /\ Like(h, g, {"tr", "out", "outNext"}) /\ g.out = h.outNext
        /\ Elems(g.tr) = Elems(h.tr) \cup {m} \cup Elems(pre) \cup {fin}
    <2>1. Like(h, g, {"tr", "out", "outNext"})
      BY <1>2, <1>4 DEF Like
    <2>2. g.out = h.outNext
      BY <1>2, <1>4, BlankFields
    <2> QED
      BY <1>3, <1>4, <2>1, <2>2
  <1>8. g.tr = Append(Append(h.tr, m) \o pre, fin)
    BY <1>2, <1>4
  <1> QED
    BY <1>4, <1>5, <1>6, <1>7, <1>8 DEF Completes, Goes

\* ServerFinished: it fails, or is done; after a full handshake it sends its own.
LEMMA ServerFinishedEffect ==
    ASSUME Frame, "server" \notin Free, ServerFinished
    PROVE  LET h == hs["server"]
               g == hs'["server"]
               m == Msg("server")
           IN /\ keys' = keys /\ Reads("server", {"finished"}, "finished")
              /\ \/ Moved("server", {}) /\ Failed("server")
                 \/ /\ Goes("server", g, "ended") /\ cache' = cache
                    /\ Proves(m.verify, VerifyData("client", h))
                    /\ \/ Moved("server", {}) /\ Noted(h, g, m, {}) /\ h.didResume
                       \/ /\ ~h.didResume
                          /\ \E pre : Issues(h, pre) /\ Completes("server", h, g, m, pre)
  <1> DEFINE m  == Msg("server")
             h  == hs["server"]
             h0 == [h EXCEPT !.tr = Append(h.tr, m)]
             tk == TicketMsg(h0)
             pre == IF h0.serverHello.tickets THEN <<tk>> ELSE <<>>
  <1>1. "server" \in Sides
    BY DEF Sides
  <1>2. Reads("server", {"finished"}, "finished") /\ keys' = keys
    BY DEF ServerFinished
  <1>3. DOMAIN h = DOMAIN Blank /\ IsSeq(h.tr) /\ pc["server"] # "ended"
    BY <1>1, <1>2, ReadingFacts
  <1>4. /\ DOMAIN h0 = DOMAIN Blank /\ h0.tr = Append(h.tr, m)
        /\ \A f \in DOMAIN Blank \ {"tr"} : h0[f] = h[f]
        /\ h0.didResume = h.didResume
    BY <1>3, BlankFields
  <1>5. \/ RefuseMsg("server")
        \/ /\ Proves(m.verify, VerifyData("client", h)) /\ cache' = cache
           /\ \/ h0.didResume /\ Advance("server", h0, <<>>, "ended", FALSE)
              \/ ~h0.didResume
                 /\ Advance("server", FinishedState("server", h0, pre),
                            FinishedRecords("server", h0, pre), "ended", FALSE)
    BY DEF ServerFinished
  <1>6. CASE RefuseMsg("server")
    BY <1>1, <1>2, <1>6, Refusal
  <1>7. CASE /\ Proves(m.verify, VerifyData("client", h)) /\ cache' = cache
             /\ h0.didResume /\ Advance("server", h0, <<>>, "ended", FALSE)
    <2> HIDE DEF h0
    <2>1. Noted(h, h0, m, {})
      BY <1>3, <1>4, NotedFacts
    <2>2. Moved("server", {}) /\ Goes("server", h0, "ended")
      BY <1>1, <1>3, <1>4, <1>7, <2>1, SilentMoved DEF Noted
    <2> QED
      BY <1>2, <1>4, <1>7, <2>1, <2>2 DEF Goes
  <1>8. CASE /\ Proves(m.verify, VerifyData("client", h)) /\ cache' = cache
             /\ ~h0.didResume
             /\ Advance("server", FinishedState("server", h0, pre),
                        FinishedRecords("server", h0, pre), "ended", FALSE)
    <2>1. SessionState(h0, day, day) = SessionState(h, day, day)
      <3> HIDE DEF h0
      <3> QED
        BY <1>4, BlankFields DEF SessionState
    <2>2. tk.t = "newSessionTicket" /\ tk.ticket.state = SessionState(h, day, day)
      <3> HIDE DEF h0
      <3> QED
        BY <1>8, <2>1 DEF TicketMsg
    <2>3. Issues(h, pre) /\ IsSeq(pre)
      <3> HIDE DEF tk, h0
      <3>1. h0.serverHello = h.serverHello
        BY <1>4, BlankFields
      <3> QED
        BY <2>2, <3>1, TupleFacts DEF Issues
    <2> HIDE DEF pre
    <2>4. Completes("server", h, hs'["server"], m, pre) /\ Goes("server", hs'["server"], "ended")
      <3>1. h0 = [hs["server"] EXCEPT !.tr = Append(hs["server"].tr, m)]
        OBVIOUS
      <3> HIDE DEF h0
      <3> QED
        BY <1>1, <1>3, <1>8, <2>3, <3>1, CompletesFacts
    <2> QED
      BY <1>2, <1>4, <1>8, <2>3, <2>4
  <1> QED
    BY <1>5, <1>6, <1>7, <1>8

--------------------------------------------------------------------------------
(* The steps of the client *)

\* A step that only reads m: fields F change, nothing is sent.
Heard(s, m, F, w) ==
    /\ Moved(s, {}) /\ Goes(s, hs'[s], w) /\ keys' = keys /\ cache' = cache
    /\ Noted(hs[s], hs'[s], m, F)

\* A side that notes a message and sends nothing.
LEMMA HeardFacts ==
    ASSUME Frame, NEW s \in Sides, s \notin Free, NEW g, NEW w, NEW buf, NEW m, NEW F,
           Advance(s, g, <<>>, w, buf), Stay, pc[s] # "ended",
           DOMAIN g = DOMAIN Blank, g.tr = Append(hs[s].tr, m),
           \A f \in DOMAIN Blank \ (F \cup {"tr"}) : g[f] = hs[s][f]
    PROVE  Heard(s, m, F, w) /\ hs'[s] = g
  <1>1. DOMAIN hs[s] = DOMAIN Blank /\ IsSeq(hs[s].tr)
    BY DEF Frame
  <1>2. Noted(hs[s], g, m, F)
    BY <1>1, NotedFacts
  <1>3. Moved(s, {}) /\ Goes(s, g, w)
    BY <1>2, SilentMoved DEF Noted
  <1> QED
    BY <1>2, <1>3 DEF Stay, Goes, Heard

\* ClientStart: a blank state, with a session only if the cache has one to offer.
LEMMA ClientStartEffect ==
    ASSUME Frame, "client" \notin Free, ClientStart
    PROVE  LET g == hs'["client"]
           IN /\ keys' = keys /\ cache' \in {NoEntry, cache}
              /\ Goes("client", g, "hello") /\ Like(Blank, g, {"hello", "sess"})
              /\ \E tk : /\ g.hello = ClientHelloMsg(cfg["client"], tk)
                         /\ Moved("client", {g.hello})
                         /\ \/ tk = NoTicket /\ g.sess = NoSession
                            \/ /\ tk = cache.ticket /\ g.sess = cache.session
                               /\ Offerable(cfg["client"], cache)
  <1> DEFINE c == cfg["client"]
             offer == Offerable(c, cache)
             tk == IF offer THEN cache.ticket ELSE NoTicket
             m == ClientHelloMsg(c, tk)
             se == IF offer THEN cache.session ELSE NoSession
             g == [Blank EXCEPT !.hello = m, !.sess = se]
  <1>1. "client" \in Sides
    BY DEF Sides
  <1>2. /\ pc["client"] = "start" /\ Advance("client", g, Records(NoKey, <<m>>), "hello", FALSE)
        /\ keys' = keys /\ cache' \in {NoEntry, cache}
    BY DEF ClientStart
  <1>3. \/ tk = NoTicket /\ se = NoSession
        \/ tk = cache.ticket /\ se = cache.session /\ Offerable(c, cache)
    OBVIOUS
  <1> HIDE DEF m, se, tk
  <1>4. g.hello = m /\ g.sess = se /\ Like(Blank, g, {"hello", "sess"})
    BY BlankFields DEF Like
  <1>5. IsSeq(g.tr)
    <2>1. g.tr = Blank.tr /\ Blank.tr = <<>>
      BY DEF Blank
    <2> QED
      BY <2>1, TupleFacts
  <1>6. /\ IsSeq(Records(NoKey, <<m>>))
        /\ \A r \in Elems(Records(NoKey, <<m>>)) : r.typ # "handshake" \/ r.m \in {m}
    <2>1. IsSeq(<<m>>) /\ Elems(<<m>>) = {m} /\ Rec("handshake", NoKey, m).m = m
      BY TupleFacts DEF Rec
    <2> QED
      BY <2>1, RecordsFacts
  <1> HIDE DEF g
  <1>7. Moved("client", {m}) /\ Goes("client", g, "hello")
    BY <1>1, <1>2, <1>4, <1>5, <1>6, AdvanceMoved DEF Like
  <1>8. hs'["client"] = g
    BY <1>7 DEF Goes
  <1>9. m = ClientHelloMsg(c, tk)
    BY DEF m
  <1> QED
    BY <1>2, <1>3, <1>4, <1>7, <1>8, <1>9

\* ClientCannotStart: it fails.
LEMMA CannotStartEffect ==
    ASSUME Frame, "client" \notin Free, ClientCannotStart
    PROVE  Moved("client", {}) /\ Failed("client") /\ keys' = keys
  <1>1. IsSeq(<<>>) /\ Elems(<<>>) = {} /\ "client" \in Sides
    BY TupleFacts DEF Sides
  <1>2. Fails("client", "error", <<>>) /\ keys' = keys
    BY DEF ClientCannotStart
  <1> QED
    BY <1>1, <1>2, FailsMoved, "error" # "done"

\* The client takes the parameters of the ServerHello m.
Takes(h, g, m) ==
    /\ g.tr = <<h.hello, m>> /\ g.serverHello = m /\ g.suite = m.suite
    /\ g.alpn = m.alpn /\ g.ems = m.ems
    /\ g.vers = pickTLSVersion(cfg["client"], m) /\ g.vers # 0

\* ClientServerHello: it fails, goes on in full, or resumes the session it offered.
LEMMA ServerHelloEffect ==
    ASSUME Frame, "client" \notin Free, ClientServerHello
    PROVE  LET h == hs["client"]
               g == hs'["client"]
               m == Msg("client")
               base == {"vers", "suite", "alpn", "ems", "serverHello", "tr"}
               more == {"didResume", "secret", "peer", "verified", "inNext", "outNext"}
           IN /\ Moved("client", {}) /\ keys' = keys
              /\ Reads("client", {"hello"}, "serverHello")
              /\ \/ Failed("client")
                 \/ /\ Goes("client", g, "cert") /\ cache' = cache /\ Like(h, g, base)
                    /\ ~(h.sess # NoSession /\ m.echo) /\ Takes(h, g, m)
                 \/ /\ cache' = cache /\ h.sess # NoSession /\ Like(h, g, base \cup more)
                    /\ Goes("client", g, IF m.tickets THEN "ticket" ELSE "ccs")
                    /\ g.didResume = TRUE /\ g.peer = h.sess.peer
                    /\ g.verified = h.sess.verified /\ SessionMatches(h, m, g.vers)
                    /\ Takes(h, g, m) /\ g.secret = h.sess.secret /\ NextKeys("client", g)
  <1> DEFINE c == cfg["client"]
             m == Msg("client")
             h0 == hs["client"]
             vers == pickTLSVersion(c, m)
             h == [h0 EXCEPT !.vers = vers, !.suite = m.suite, !.alpn = m.alpn,
                             !.ems = m.ems, !.serverHello = m, !.tr = <<h0.hello, m>>]
             r0 == [h EXCEPT !.didResume = TRUE, !.secret = h0.sess.secret,
                             !.peer = h0.sess.peer, !.verified = h0.sess.verified]
             r == establishKeys("client", r0)
             base == {"vers", "suite", "alpn", "ems", "serverHello", "tr"}
             more == {"didResume", "secret", "peer", "verified", "inNext", "outNext"}
  <1>1. "client" \in Sides
    BY DEF Sides
  <1>2. Reads("client", {"hello"}, "serverHello")
    BY DEF ClientServerHello
  <1>3. DOMAIN h0 = DOMAIN Blank /\ pc["client"] # "ended"
    BY <1>1, <1>2, ReadingFacts
  <1>4. \/ RefuseMsg("client")
        \/ /\ ~(h0.sess # NoSession /\ m.echo) /\ vers # 0
           /\ Advance("client", h, <<>>, "cert", TRUE) /\ Stay
        \/ /\ h0.sess # NoSession /\ SessionMatches(h0, m, vers) /\ vers # 0
           /\ Advance("client", r, <<>>, IF m.tickets THEN "ticket" ELSE "ccs", TRUE) /\ Stay
    BY DEF ClientServerHello, ServerHelloAcceptable
  <1>5. /\ DOMAIN h = DOMAIN Blank /\ h.tr = <<h0.hello, m>> /\ h.vers = vers
        /\ h.suite = m.suite /\ h.ems = m.ems /\ h.alpn = m.alpn /\ h.serverHello = m
        /\ \A f \in DOMAIN Blank \ base : h[f] = h0[f]
    BY <1>3, BlankFields
  <1>6. IsSeq(h.tr)
    BY <1>5, TupleFacts
  <1> HIDE DEF h
  <1>7. /\ DOMAIN r0 = DOMAIN Blank /\ r0.tr = h.tr /\ r0.vers = vers /\ r0.didResume = TRUE
        /\ r0.peer = h0.sess.peer /\ r0.verified = h0.sess.verified /\ r0.suite = m.suite
        /\ r0.ems = m.ems /\ r0.secret = h0.sess.secret
        /\ r0.alpn = m.alpn /\ r0.serverHello = m
        /\ \A f \in DOMAIN Blank \ more : r0[f] = h[f]
    BY <1>5, BlankFields
  <1> HIDE DEF r0
  <1>8. Like(r0, r, {"inNext", "outNext"}) /\ NextKeys("client", r)
    BY <1>1, <1>7, EstablishFacts, EstablishNext
  <1> HIDE DEF r
  <1>9. /\ DOMAIN r = DOMAIN Blank /\ r.tr = h.tr /\ r.vers = vers /\ r.didResume = TRUE
        /\ r.peer = h0.sess.peer /\ r.verified = h0.sess.verified /\ r.suite = m.suite
        /\ r.ems = m.ems /\ r.secret = h0.sess.secret
        /\ r.alpn = m.alpn /\ r.serverHello = m
    BY <1>7, <1>8, BlankFields DEF Like
  <1>10. Like(h0, h, base) /\ Like(h0, r, base \cup more)
    <2>1. \A f \in DOMAIN Blank \ more : f \notin {"inNext", "outNext"}
      OBVIOUS
    <2> HIDE DEF base, more
    <2> QED
      BY <1>5, <1>7, <1>8, <2>1 DEF Like
  <1> HIDE DEF base, more
  <1>11. CASE RefuseMsg("client")
    BY <1>1, <1>2, <1>11, Refusal
  <1>12. CASE /\ ~(h0.sess # NoSession /\ m.echo) /\ vers # 0
              /\ Advance("client", h, <<>>, "cert", TRUE) /\ Stay
    <2>1. Moved("client", {}) /\ Goes("client", h, "cert")
      BY <1>1, <1>3, <1>5, <1>6, <1>12, SilentMoved
    <2>2. Takes(h0, h, m)
      BY <1>5, <1>12 DEF Takes
    <2> QED
      BY <1>2, <1>10, <1>12, <2>1, <2>2 DEF Stay, Goes, base
  <1>13. CASE /\ h0.sess # NoSession /\ SessionMatches(h0, m, vers) /\ Stay /\ vers # 0
              /\ Advance("client", r, <<>>, IF m.tickets THEN "ticket" ELSE "ccs", TRUE)
    <2> DEFINE w == IF m.tickets THEN "ticket" ELSE "ccs"
    <2>1. Moved("client", {}) /\ Goes("client", r, w)
      <3> HIDE DEF w
      <3>1. Advance("client", r, <<>>, w, TRUE)
        BY <1>13 DEF w
      <3> QED
        BY <1>1, <1>3, <1>6, <1>9, <3>1, SilentMoved
    <2>2. hs'["client"] = r
      BY <2>1 DEF Goes
    <2>3. Takes(h0, r, m)
      BY <1>5, <1>9, <1>13 DEF Takes
    <2> QED
      BY <1>2, <1>8, <1>9, <1>10, <1>13, <2>1, <2>2, <2>3 DEF Stay, base, more
  <1> QED
    BY <1>4, <1>11, <1>12, <1>13

\* The messages a client reads without an answer of its own.
LEMMA ClientReadsEffect ==
    ASSUME Frame, "client" \notin Free,
           \/ ClientCertificate \/ ClientStatus \/ ClientKeyExchange \/ ClientCertRequest
           \/ ClientTicket
    PROVE  LET h == hs["client"]
               g == hs'["client"]
               m == Msg("client")
           IN \/ Moved("client", {}) /\ Failed("client") /\ keys' = keys
              \/ /\ Reads("client", {"cert"}, "certificate") /\ m.cert # NoCert
                 /\ Heard("client", m, {"peer"}, "status") /\ g.peer = m.cert
              \/ /\ Reads("client", {"status"}, "certificateStatus") /\ h.serverHello.ocsp
                 /\ Heard("client", m, {}, "verify")
              \/ /\ Reads("client", {"status", "verify"}, "serverKeyExchange")
                 /\ Heard("client", m, {"share"}, "certReq") /\ KeyExchangeOk(h, m)
                 /\ g.share = m.share
              \/ /\ Reads("client", {"status", "verify", "certReq"}, "certificateRequest")
                 /\ Heard("client", m, {"asked", "cert"}, "helloDone")
                 /\ g.cert = getClientCertificate(cfg["client"], h.vers, m)
                 /\ g.asked = TRUE
              \/ /\ Reads("client", {"ticket"}, "newSessionTicket")
                 /\ Heard("client", m, {"ticket"}, "ccs") /\ g.ticket = m.ticket
  <1> DEFINE h == hs["client"]
             m == Msg("client")
             own == getClientCertificate(cfg["client"], h.vers, m)
             g1 == [h EXCEPT !.peer = m.cert, !.tr = Append(h.tr, m)]
             g2 == [h EXCEPT !.tr = Append(h.tr, m)]
             g3 == [h EXCEPT !.share = m.share, !.tr = Append(h.tr, m)]
             g4 == [h EXCEPT !.asked = TRUE, !.tr = Append(h.tr, m), !.cert = own]
             g5 == [h EXCEPT !.ticket = m.ticket, !.tr = Append(h.tr, m)]
  <1>1. "client" \in Sides /\ DOMAIN h = DOMAIN Blank
    BY DEF Sides, Frame
  <1>2. /\ DOMAIN g1 = DOMAIN Blank /\ g1.tr = Append(h.tr, m) /\ g1.peer = m.cert
        /\ \A f \in DOMAIN Blank \ ({"peer"} \cup {"tr"}) : g1[f] = h[f]
    BY <1>1, BlankFields
  <1>3. /\ DOMAIN g2 = DOMAIN Blank /\ g2.tr = Append(h.tr, m)
        /\ \A f \in DOMAIN Blank \ ({} \cup {"tr"}) : g2[f] = h[f]
    BY <1>1, BlankFields
  <1>4. /\ DOMAIN g3 = DOMAIN Blank /\ g3.tr = Append(h.tr, m) /\ g3.share = m.share
        /\ \A f \in DOMAIN Blank \ ({"share"} \cup {"tr"}) : g3[f] = h[f]
    BY <1>1, BlankFields
  <1>5. /\ DOMAIN g4 = DOMAIN Blank /\ g4.tr = Append(h.tr, m) /\ g4.cert = own
        /\ g4.asked = TRUE
        /\ \A f \in DOMAIN Blank \ ({"asked", "cert"} \cup {"tr"}) : g4[f] = h[f]
    BY <1>1, BlankFields
  <1>6. /\ DOMAIN g5 = DOMAIN Blank /\ g5.tr = Append(h.tr, m) /\ g5.ticket = m.ticket
        /\ \A f \in DOMAIN Blank \ ({"ticket"} \cup {"tr"}) : g5[f] = h[f]
    BY <1>1, BlankFields
  <1>7. CASE RefuseMsg("client")
    BY <1>1, <1>7, Refusal
  <1>8. ASSUME NEW g, NEW w, NEW buf, NEW F, NEW W, NEW t,
               Reads("client", W, t), Advance("client", g, <<>>, w, buf), Stay,
               DOMAIN g = DOMAIN Blank, g.tr = Append(h.tr, m),
               \A f \in DOMAIN Blank \ (F \cup {"tr"}) : g[f] = h[f]
        PROVE  Heard("client", m, F, w) /\ hs'["client"] = g
    <2>1. pc["client"] # "ended"
      BY <1>1, <1>8, ReadingFacts
    <2> QED
      BY <1>1, <1>8, <2>1, HeardFacts
  <1>9. CASE ClientCertificate
    <2>1. \/ RefuseMsg("client")
          \/ /\ Reads("client", {"cert"}, "certificate") /\ m.cert # NoCert
             /\ Advance("client", g1, <<>>, "status", TRUE) /\ Stay
      BY <1>9 DEF ClientCertificate
    <2> HIDE DEF g1
    <2> QED
      BY <1>2, <1>7, <1>8, <2>1
  <1>10. CASE ClientStatus
    <2>1. \/ RefuseMsg("client")
          \/ /\ Reads("client", {"status"}, "certificateStatus") /\ h.serverHello.ocsp
             /\ Advance("client", g2, <<>>, "verify", TRUE) /\ Stay
      BY <1>10 DEF ClientStatus
    <2> HIDE DEF g2
    <2> QED
      BY <1>3, <1>7, <1>8, <2>1
  <1>11. CASE ClientKeyExchange
    <2>1. \/ RefuseMsg("client")
          \/ /\ Reads("client", {"status", "verify"}, "serverKeyExchange")
             /\ KeyExchangeOk(h, m) /\ Advance("client", g3, <<>>, "certReq", TRUE) /\ Stay
      BY <1>11 DEF ClientKeyExchange
    <2> HIDE DEF g3
    <2> QED
      BY <1>4, <1>7, <1>8, <2>1
  <1>12. CASE ClientCertRequest
    <2>1. \/ RefuseMsg("client")
          \/ /\ Reads("client", {"status", "verify", "certReq"}, "certificateRequest")
             /\ Advance("client", g4, <<>>, "helloDone", TRUE) /\ Stay
      BY <1>12 DEF ClientCertRequest
    <2> HIDE DEF g4
    <2> QED
      BY <1>5, <1>7, <1>8, <2>1
  <1>13. CASE ClientTicket
    <2>1. /\ Reads("client", {"ticket"}, "newSessionTicket")
          /\ Advance("client", g5, <<>>, "ccs", buffering["client"]) /\ Stay
      BY <1>13 DEF ClientTicket
    <2> HIDE DEF g5
    <2> QED
      BY <1>6, <1>8, <2>1
  <1> QED
    BY <1>9, <1>10, <1>11, <1>12, <1>13

\* ClientFinished: it fails, or is done and has saved what it got.
LEMMA ClientFinishedEffect ==
    ASSUME Frame, "client" \notin Free, ClientFinished
    PROVE  LET h == hs["client"]
               g == hs'["client"]
               m == Msg("client")
           IN /\ keys' = keys /\ Reads("client", {"finished"}, "finished")
              /\ \/ Moved("client", {}) /\ Failed("client")
                 \/ /\ Goes("client", g, "ended")
                    /\ Proves(m.verify, VerifyData("server", h))
                    /\ \/ cache' = cache
                       \/ \E b : cache' = [ticket |-> h.ticket,
                                           session |-> SessionState(h, day, b)]
                    /\ \/ ~h.didResume /\ Moved("client", {}) /\ Noted(h, g, m, {})
                       \/ h.didResume /\ Completes("client", h, g, m, <<>>)
  <1> DEFINE m  == Msg("client")
             h  == hs["client"]
             h0 == [h EXCEPT !.tr = Append(h.tr, m)]
             good == Proves(m.verify, VerifyData("server", h))
  <1>1. "client" \in Sides
    BY DEF Sides
  <1>2. Reads("client", {"finished"}, "finished") /\ keys' = keys
    BY DEF ClientFinished
  <1>3. DOMAIN h = DOMAIN Blank /\ IsSeq(h.tr) /\ pc["client"] # "ended"
    BY <1>1, <1>2, ReadingFacts
  <1>4. /\ DOMAIN h0 = DOMAIN Blank /\ h0.tr = Append(h.tr, m)
        /\ \A f \in DOMAIN Blank \ {"tr"} : h0[f] = h[f]
        /\ h0.didResume = h.didResume /\ h0.ticket = h.ticket
    BY <1>3, BlankFields
  <1>5. \/ RefuseMsg("client")
        \/ /\ good /\ cache' = Saved(h0)
           /\ \/ ~h0.didResume /\ Advance("client", h0, <<>>, "ended", FALSE)
              \/ h0.didResume
                 /\ Advance("client", FinishedState("client", h0, <<>>),
                            FinishedRecords("client", h0, <<>>), "ended", FALSE)
    BY DEF ClientFinished
  <1>6. h0 = [hs["client"] EXCEPT !.tr = Append(hs["client"].tr, m)]
    OBVIOUS
  <1> HIDE DEF h0
  <1>7. ASSUME cache' = Saved(h0)
        PROVE  \/ cache' = cache
               \/ \E b : cache' = [ticket |-> h.ticket, session |-> SessionState(h, day, b)]
    <2>1. \A b : SessionState(h0, day, b) = SessionState(h, day, b)
      BY <1>4, BlankFields DEF SessionState
    <2> QED
      BY <1>4, <1>7, <2>1 DEF Saved
  <1>8. CASE RefuseMsg("client")
    BY <1>1, <1>2, <1>8, Refusal
  <1>9. CASE /\ good /\ cache' = Saved(h0) /\ ~h0.didResume
             /\ Advance("client", h0, <<>>, "ended", FALSE)
    <2>1. Noted(h, h0, m, {})
      BY <1>3, <1>4, NotedFacts
    <2>2. Moved("client", {}) /\ Goes("client", h0, "ended")
      BY <1>1, <1>3, <1>4, <1>9, <2>1, SilentMoved DEF Noted
    <2> QED
      BY <1>2, <1>4, <1>7, <1>9, <2>1, <2>2 DEF Goes
  <1>10. CASE /\ good /\ cache' = Saved(h0) /\ h0.didResume
              /\ Advance("client", FinishedState("client", h0, <<>>),
                         FinishedRecords("client", h0, <<>>), "ended", FALSE)
    <2>1. IsSeq(<<>>)
      BY TupleFacts
    <2>2. Completes("client", h, hs'["client"], m, <<>>) /\ Goes("client", hs'["client"], "ended")
      BY <1>1, <1>3, <1>6, <1>10, <2>1, CompletesFacts
    <2> QED
      BY <1>2, <1>4, <1>7, <1>10, <2>2
  <1> QED
    BY <1>5, <1>8, <1>9, <1>10

\* The client's second flight: its own certificate, key exchange, proof, Finished.
SecondFlight(h, M) ==
    \A x \in M : /\ x.t \in {"certificate", "clientKeyExchange", "certificateVerify", "finished"}
                 /\ x.t = "certificate" => x.cert = h.cert

\* Parts of a second flight make one.
LEMMA SecondFlightJoins ==
    ASSUME NEW h, NEW A, NEW B, SecondFlight(h, A), SecondFlight(h, B)
    PROVE  SecondFlight(h, A \cup B)
  BY DEF SecondFlight

\* The client has read m and sent certs, its key exchange, proof and Finished.
AnswersWith(h, g, m, M, certs, ckx, proof, fin) ==
    LET x == (Append(h.tr, m) \o certs \o <<ckx>>) \o proof
    IN /\ certs = IF h.asked THEN <<[t |-> "certificate", cert |-> h.cert]>> ELSE <<>>
       /\ ckx.t = "clientKeyExchange"
       /\ IF h.cert = NoCert THEN proof = <<>>
          ELSE \E v : proof = <<v>> /\ v.t = "certificateVerify"
       /\ fin = [t |-> "finished", verify |-> <<"finished", "client", g.secret, x>>]
       /\ g.tr = Append(x, fin)
       /\ \A y \in M : y.t = "finished" => y = fin
Answers(h, g, m, M) ==
    \E certs, ckx, proof, fin : AnswersWith(h, g, m, M, certs, ckx, proof, fin)

\* ClientHelloDone: it fails, or has sent its second flight.
LEMMA HelloDoneEffect ==
    ASSUME Frame, "client" \notin Free, ClientHelloDone
    PROVE  LET h == hs["client"]
               g == hs'["client"]
           IN /\ keys' = keys
              /\ Reads("client", {"status", "verify", "certReq", "helloDone"}, "serverHelloDone")
              /\ \E M : /\ SecondFlight(h, M) /\ Moved("client", M)
                        /\ Failed("client") \/ Answers(h, g, Msg("client"), M)
              /\ \/ Failed("client")
                 \/ /\ Goes("client", g, IF h.serverHello.tickets THEN "ticket" ELSE "ccs")
                    /\ cache' = cache /\ ClientCanExchange(h)
                    /\ Like(h, g, {"tr", "verified", "secret", "inNext", "out", "outNext"})
                    /\ g.inNext = TrafficKey("server", g) /\ g.out = TrafficKey("client", g)
  <1> DEFINE m == Msg("client")
             hc == hs["client"]
             h0 == [hc EXCEPT !.tr = Append(hc.tr, m), !.verified = ~cfg["client"].skipVerify]
             certs == IF h0.asked THEN <<[t |-> "certificate", cert |-> h0.cert]>> ELSE <<>>
             ckx == [t |-> "clientKeyExchange", share |-> <<"client", n>>, valid |-> TRUE]
             h1 == [h0 EXCEPT !.tr = h0.tr \o certs \o <<ckx>>]
             h2 == [h1 EXCEPT !.secret = Master(h1, <<h1.share, ckx.share>>)]
             proof == IF h2.cert = NoCert THEN <<>>
                      ELSE <<[t |-> "certificateVerify", sig |-> Signature(h2.cert, h2.tr)]>>
             h == establishKeys("client", h2)
             fr == FinishedRecords("client", h, proof)
             recs == Records(NoKey, certs \o <<ckx>>) \o fr
             f == FinishedState("client", h, proof)
             w == IF AwaitsTicket(h) THEN "ticket" ELSE "ccs"
             fin == Fin("client", h, proof)
             M == Elems(certs \o <<ckx>>) \cup Elems(proof) \cup {fin}
  <1>1. "client" \in Sides /\ Peer("client") = "server"
    BY DEF Sides, Peer
  <1>2. Reads("client", {"status", "verify", "certReq", "helloDone"}, "serverHelloDone")
    BY DEF ClientHelloDone
  <1>3. DOMAIN hc = DOMAIN Blank /\ IsSeq(hc.tr) /\ pc["client"] # "ended"
    BY <1>1, <1>2, ReadingFacts
  <1>4. \/ RefuseMsg("client")
        \/ Refuse("client", NoKey, Records(NoKey, certs)) /\ keys' = keys
        \/ Refuse("client", f.out, recs) /\ keys' = keys
        \/ ClientCanExchange(h0) /\ Advance("client", f, recs, w, FALSE) /\ Stay
    BY DEF ClientHelloDone
  <1>5. /\ DOMAIN h0 = DOMAIN Blank /\ h0.tr = Append(hc.tr, m)
        /\ \A x \in DOMAIN Blank \ {"tr", "verified"} : h0[x] = hc[x]
    BY <1>3, BlankFields
  <1>6. IsSeq(h0.tr) /\ h0.cert = hc.cert /\ ClientCanExchange(h0) = ClientCanExchange(hc)
    <2>1. IsSeq(h0.tr)
      BY <1>3, <1>5, SeqFacts
    <2> HIDE DEF h0
    <2> QED
      BY <1>5, <2>1, BlankFields DEF ClientCanExchange
  <1> HIDE DEF h0
  <1>7. /\ IsSeq(certs) /\ SecondFlight(hc, Elems(certs))
        /\ \A y \in Elems(certs) : y.t = "certificate"
        /\ certs = IF hc.asked THEN <<[t |-> "certificate", cert |-> hc.cert]>> ELSE <<>>
    <2>1. h0.asked = hc.asked
      BY <1>5, BlankFields
    <2>2. IsSeq(certs) /\ SecondFlight(hc, Elems(certs))
      BY <1>6, TupleFacts DEF SecondFlight
    <2>3. \A y \in Elems(certs) : y.t = "certificate"
      BY TupleFacts
    <2> QED
      BY <1>6, <2>1, <2>2, <2>3
  <1>8. /\ IsSeq(<<ckx>>) /\ Elems(<<ckx>>) = {ckx} /\ SecondFlight(hc, {ckx})
        /\ ckx.t = "clientKeyExchange"
    <2>1. ckx.t = "clientKeyExchange"
      OBVIOUS
    <2> HIDE DEF ckx
    <2> QED
      BY <2>1, TupleFacts DEF SecondFlight
  <1> HIDE DEF certs, ckx
  <1>9. /\ IsSeq(certs \o <<ckx>>) /\ SecondFlight(hc, Elems(certs \o <<ckx>>))
        /\ \A y \in Elems(certs \o <<ckx>>) : y.t # "finished"
    <2>1. IsSeq(certs \o <<ckx>>) /\ Elems(certs \o <<ckx>>) = Elems(certs) \cup Elems(<<ckx>>)
      BY <1>7, <1>8, ConcatFacts
    <2> QED
      BY <1>7, <1>8, <2>1 DEF SecondFlight
  <1>10. IsSeq(h0.tr \o certs \o <<ckx>>)
    <2>1. IsSeq(h0.tr \o certs)
      BY <1>6, <1>7, ConcatFacts
    <2> QED
      BY <1>8, <2>1, ConcatFacts
  <1>11. /\ DOMAIN h1 = DOMAIN Blank /\ h1.tr = h0.tr \o certs \o <<ckx>>
         /\ \A x \in DOMAIN Blank \ {"tr"} : h1[x] = h0[x]
    BY <1>5, BlankFields
  <1> HIDE DEF h1
  <1>12. /\ DOMAIN h2 = DOMAIN Blank /\ h2.tr = h1.tr
         /\ \A x \in DOMAIN Blank \ {"secret"} : h2[x] = h1[x]
    BY <1>11, BlankFields
  <1> HIDE DEF h2
  <1>13. /\ IsSeq(proof) /\ SecondFlight(hc, Elems(proof))
         /\ \A y \in Elems(proof) : y.t # "finished"
         /\ IF hc.cert = NoCert THEN proof = <<>>
            ELSE \E v : proof = <<v>> /\ v.t = "certificateVerify"
    <2> DEFINE cv == [t |-> "certificateVerify", sig |-> Signature(h2.cert, h2.tr)]
    <2>1. cv.t = "certificateVerify" /\ proof = IF h2.cert = NoCert THEN <<>> ELSE <<cv>>
      OBVIOUS
    <2>2. h2.cert = hc.cert
      BY <1>6, <1>11, <1>12, BlankFields
    <2> HIDE DEF cv, proof
    <2> QED
      BY <2>1, <2>2, TupleFacts DEF SecondFlight
  <1> HIDE DEF proof
  <1>14. /\ Like(h2, h, {"inNext", "outNext"}) /\ h.inNext = TrafficKey("server", h2)
         /\ h.outNext = TrafficKey("client", h2)
    BY <1>1, <1>12, EstablishFacts
  <1> HIDE DEF h
  <1>15. DOMAIN h = DOMAIN Blank /\ IsSeq(h.tr)
    BY <1>10, <1>11, <1>12, <1>14, BlankFields DEF Like
  <1>16. /\ Like(h, f, {"tr", "out", "outNext"}) /\ IsSeq(f.tr) /\ f.out = h.outNext
         /\ f.tr = Append(h.tr \o proof, fin) /\ IsSeq(fr)
         /\ \A r \in Elems(fr) : r.typ # "handshake" \/ r.m \in Elems(proof) \cup {fin}
    BY ONLY <1>1, <1>13, <1>15, FinishedFacts
  <1>17. SecondFlight(hc, {fin})
    BY DEF SecondFlight, Fin
  <1>24. /\ h.tr = Append(hc.tr, m) \o certs \o <<ckx>>
         /\ fin = [t |-> "finished", verify |-> <<"finished", "client", f.secret, h.tr \o proof>>]
    <2>1. h.tr = Append(hc.tr, m) \o certs \o <<ckx>>
      BY <1>5, <1>11, <1>12, <1>14, BlankFields DEF Like
    <2>2. f.secret = h.secret
      BY <1>16, BlankFields DEF Like
    <2> QED
      BY <2>1, <2>2 DEF Fin
  <1> HIDE DEF f, fr, fin
  <1>18. /\ IsSeq(recs) /\ \A r \in Elems(recs) : r.typ # "handshake" \/ r.m \in M
    <2>1. /\ IsSeq(Records(NoKey, certs \o <<ckx>>))
          /\ Elems(Records(NoKey, certs \o <<ckx>>))
                = {Rec("handshake", NoKey, x) : x \in Elems(certs \o <<ckx>>)}
      BY <1>9, RecordsFacts
    <2>2. \A x : Rec("handshake", NoKey, x).m = x
      BY DEF Rec
    <2>3. IsSeq(recs) /\ Elems(recs) = Elems(Records(NoKey, certs \o <<ckx>>)) \cup Elems(fr)
      BY <1>16, <2>1, ConcatFacts
    <2> QED
      BY <1>16, <2>1, <2>2, <2>3
  <1>19. SecondFlight(hc, M)
    BY <1>9, <1>13, <1>17, SecondFlightJoins
  <1>25. Answers(hc, f, m, M)
    <2>1. \A y \in M : y.t = "finished" => y = fin
      BY <1>9, <1>13
    <2> DEFINE x == (Append(hc.tr, m) \o certs \o <<ckx>>) \o proof
    <2>2. /\ fin = [t |-> "finished", verify |-> <<"finished", "client", f.secret, x>>]
          /\ f.tr = Append(x, fin)
      BY <1>16, <1>24
    <2> HIDE DEF M, x
    <2>3. AnswersWith(hc, f, m, M, certs, ckx, proof, fin)
      BY <1>7, <1>8, <1>13, <2>1, <2>2 DEF AnswersWith, x
    <2> HIDE DEF m, hc
    <2> QED
      BY <2>3 DEF Answers
  <1> HIDE DEF recs, M
  <1>20. CASE RefuseMsg("client")
    <2>1. SecondFlight(hc, {})
      BY DEF SecondFlight
    <2> QED
      BY <1>1, <1>2, <1>20, <2>1, Refusal
  <1>21. CASE Refuse("client", NoKey, Records(NoKey, certs)) /\ keys' = keys
    <2>1. Fails("client", "refused", Append(Records(NoKey, certs), Rec("alert", NoKey, NoMsg)))
      BY <1>21 DEF Refuse
    <2>2. Moved("client", Elems(certs)) /\ Failed("client")
      BY <1>1, <1>7, <2>1, FailsMoved, "refused" # "done"
    <2> QED
      BY <1>2, <1>7, <1>21, <2>2
  <1>22. CASE Refuse("client", f.out, recs) /\ keys' = keys
    <2> DEFINE alert == Rec("alert", f.out, NoMsg)
               all == Append(recs, alert)
    <2>1. alert.typ # "handshake"
      BY DEF Rec
    <2>2. IsSeq(all) /\ Elems(all) = Elems(recs) \cup {alert}
      BY <1>18, SeqFacts
    <2>3. Fails("client", "refused", all)
      BY <1>22 DEF Refuse
    <2> HIDE DEF alert, all
    <2>4. /\ Frame' /\ Others("client") /\ Sent("client", all) /\ Failed("client")
      BY <1>1, <2>2, <2>3, FailsFacts, "refused" # "done" DEF Failed
    <2>5. Moved("client", M)
      BY <1>18, <2>1, <2>2, <2>4 DEF Sent, Moved
    <2> QED
      BY <1>2, <1>19, <1>22, <2>4, <2>5
  <1>23. CASE ClientCanExchange(h0) /\ Advance("client", f, recs, w, FALSE) /\ Stay
    <2>1. DOMAIN f = DOMAIN Blank
      BY <1>16 DEF Like
    <2>2. Moved("client", M) /\ Goes("client", f, w)
      <3> HIDE DEF w
      <3> QED
        BY <1>1, <1>3, <1>16, <1>18, <1>23, <2>1, AdvanceMoved
    <2>3. Like(hc, f, {"tr", "verified", "secret", "inNext", "out", "outNext"})
      BY <1>5, <1>11, <1>12, <1>14, <1>16 DEF Like
    <2>4. f.inNext = TrafficKey("server", f) /\ f.out = TrafficKey("client", f)
      BY <1>12, <1>14, <1>16, BlankFields DEF Like, TrafficKey
    <2>5. w = IF hc.serverHello.tickets THEN "ticket" ELSE "ccs"
      BY <1>5, <1>11, <1>12, <1>14, BlankFields DEF Like, AwaitsTicket
    <2>6. hs'["client"] = f
      BY <2>2 DEF Goes
    <2> QED
      BY <1>2, <1>6, <1>19, <1>23, <1>25, <2>2, <2>3, <2>4, <2>5, <2>6 DEF Stay
  <1> QED
    BY <1>4, <1>20, <1>21, <1>22, <1>23

--------------------------------------------------------------------------------
(* Lemmas about the negotiation *)

\* Numbers have a least element.
LEMMA LeastOf ==
    ASSUME NEW S \in SUBSET Nat, S # {}
    PROVE  \E i \in S : \A j \in S : i <= j
  <1> DEFINE R == OpToRel(<, Nat)
  <1>1. IsWellFoundedOn(R, Nat)
    BY NatLessThanWellFounded
  <1>2. \A i, j \in Nat : i < j => <<i, j>> \in R
    BY DEF OpToRel
  <1> HIDE DEF R
  <1>3. PICK i \in S : \A j \in S : ~(<<j, i>> \in R)
    BY <1>1, WFMin
  <1>4. \A j \in S : ~(j < i)
    BY <1>2, <1>3
  <1> QED
    BY <1>4

\* First returns an element of the set, or none.
LEMMA FirstFacts ==
    ASSUME NEW s, IsSeq(s), NEW S, NEW none
    PROVE  First(s, S, none) = none \/ First(s, S, none) \in S
  <1>1. CASE Elems(s) \cap S = {}
    BY <1>1 DEF First
  <1>2. CASE Elems(s) \cap S # {}
    <2> DEFINE hits == {i \in DOMAIN s : s[i] \in S}
    <2>1. Len(s) \in Nat /\ DOMAIN s = 1 .. Len(s)
      BY SeqFacts
    <2>2. hits \subseteq Nat /\ hits # {}
      BY <1>2, <2>1 DEF Elems
    <2>3. PICK i \in hits : \A j \in hits : i <= j
      BY <2>2, LeastOf
    <2>4. i \in DOMAIN s /\ s[i] \in S /\ \A j \in 1 .. (i - 1) : s[j] \notin S
      BY <2>1, <2>3
    <2>5. s[CHOOSE k \in DOMAIN s : s[k] \in S /\ \A j \in 1 .. (k - 1) : s[j] \notin S] \in S
      BY <2>4
    <2> QED
      BY <1>2, <2>5 DEF First
  <1> QED
    BY <1>1, <1>2

\* The versions of a hello are a sequence.
LEMMA NewestFacts == ASSUME NEW S PROVE IsSeq(Newest(S))
  <1> DEFINE a == IF 12 \in S THEN <<12>> ELSE <<>>
             b == IF 11 \in S THEN <<11>> ELSE <<>>
             c == IF 10 \in S THEN <<10>> ELSE <<>>
  <1>1. IsSeq(a) /\ IsSeq(b) /\ IsSeq(c)
    BY TupleFacts
  <1>2. Newest(S) = (a \o b) \o c
    BY DEF Newest
  <1> HIDE DEF a, b, c
  <1>3. IsSeq(a \o b)
    BY <1>1, ConcatFacts
  <1>4. IsSeq((a \o b) \o c)
    BY <1>1, <1>3, ConcatFacts
  <1> QED
    BY <1>2, <1>4

\* The suites in order of preference are a sequence.
LEMMA PreferenceFacts == IsSeq(PreferenceOrder)
  <1>1. IsSeq(<<"CCM8">>)
    BY TupleFacts
  <1>2. IsSeq(cipherSuitesPreferenceOrderNoAES)
    BY DEF IsSeq, Elems, cipherSuitesPreferenceOrderNoAES
  <1> QED
    BY <1>1, <1>2, ConcatFacts DEF PreferenceOrder

\* The fields that newCCMServerConfigFromMaterial sets.
LEMMA CCMServerFields ==
    ASSUME NEW a, NEW b
    PROVE  LET c == CCMServer(a, b)
           IN c.min = 12 /\ c.max = 12 /\ c.suites = {"CCM8"} /\ c.tickets = FALSE /\ c.auth = 2
  BY DEF CCMServer

\* A CCM server negotiates TLS 1.2 and CCM_8, asks for a certificate, issues no tickets.
LEMMA CCMFacts ==
    ASSUME NEW u \in AllSetups, u.server.hook
    PROVE  LET c == u.server
           IN /\ Allowed(c) = {12} /\ cipherSuites(c) = {"CCM8"} /\ c.tickets = FALSE
              /\ c.auth = 2
  <1> DEFINE c == u.server
  <1>1. c = CCMServer(c.certs[1], c.roots)
    BY HandshakeAssumption
  <1>2. \E a, b : c = CCMServer(a, b)
    BY <1>1
  <1> HIDE DEF c
  <1>3. PICK a, b : c = CCMServer(a, b)
    BY <1>2
  <1>4. c.min = 12 /\ c.max = 12 /\ c.suites = {"CCM8"} /\ c.tickets = FALSE /\ c.auth = 2
    BY <1>3, CCMServerFields
  <1>5. Allowed(c) = {12}
    BY <1>4 DEF Allowed
  <1>6. cipherSuites(c) = {"CCM8"}
    BY <1>4 DEF cipherSuites
  <1> QED
    BY <1>4, <1>5, <1>6 DEF c

\* The versions the server chooses from are a sequence.
LEMMA HelloSeq ==
    ASSUME NEW m, IsSeq(m.versions)
    PROVE  IsSeq(helloVersions(m))
  BY NewestFacts DEF helloVersions

--------------------------------------------------------------------------------
(* The inductive invariant *)

CertOk(c) == c = NoCert \/ c \in CertType

Bears(c) == c # NoCert => c.id \in Owned

\* A ticket of this server: its session keeps the time of the full handshake it
\* comes from, and a Free client has one only for a certificate it has the key of.
TicketOk(t) ==
    "server" \notin Free /\ t # NoTicket =>
        /\ t.state.createdAt = t.state.born
        /\ "client" \in Free => Bears(t.state.peer)

TicketsOk(M) == \A m \in M : m.t = "newSessionTicket" => TicketOk(m.ticket)

\* What a message to the server carries.
FromClient(m) ==
    /\ m.t = "certificate" => CertOk(m.cert)
    /\ m.t = "clientHello" => IsSeq(m.versions) /\ TicketOk(m.ticket)

\* Messages on their way, and the tickets that the server has sent.
InFlight ==
    /\ \A r \in Elems(wire["server"]) : r.typ = "handshake" => FromClient(r.m)
    /\ \A r \in Elems(wire["client"]) :
          r.typ = "handshake" /\ r.m.t = "newSessionTicket" => TicketOk(r.m.ticket)
Ledger == TicketsOk(Elems(hs["server"].tr))

\* The certificate and the tickets that the client holds.
Held == CertOk(hs["client"].cert) /\ TicketOk(cache.ticket) /\ TicketOk(hs["client"].ticket)

\* Where a server is once it has chosen the parameters, once it has the client's
\* certificate, and once the client has proved it.
Agreed == pc["server"] \in {"cert", "ckx", "certVerify", "ccs", "finished"} \/ Done("server")
Shown == pc["server"] \in {"ckx", "certVerify", "ccs", "finished"} \/ Done("server")
Proved == pc["server"] \in {"ccs", "finished"} \/ Done("server")

\* What the hook has let through.
Consented(c, p) ==
    /\ p # NoCert /\ p.issuer \in c.roots
    /\ "client" \in p.usage /\ p.san # "mixed"

\* A CCM server takes nobody past the certificate without the hook's consent.
Hooked ==
    cfg["server"].hook =>
        LET h == hs["server"]
        IN /\ Agreed => h.didResume = FALSE /\ h.vers = 12 /\ h.suite = "CCM8"
           /\ Shown => Consented(cfg["server"], h.peer)

\* A client holds a session only if it could trust the server's certificate.
Trusting ==
    LET h == hs["client"]
    IN h.sess # NoSession => h.sess.verified \/ cfg["client"].skipVerify

\* A server that faces a Free client: a good signature is there only if the
\* client has the key, and no more than one record is.
FreeClient == "client" \in Free /\ "server" \notin Free
ClientSigns ==
    FreeClient =>
        /\ Len(wire["server"]) <= 1
        /\ \A r \in Elems(wire["server"]) :
              r.typ = "handshake" /\ r.m.t = "certificateVerify" =>
                  r.m.sig \in Proofs(hs["server"].peer.id \in Owned)
Earned == FreeClient /\ Proved => Bears(hs["server"].peer)

\* A client that faces a Free server, likewise.
FreeServer == "server" \in Free /\ "client" \notin Free
ServerSigns ==
    FreeServer =>
        /\ Len(wire["client"]) <= 1
        /\ \A r \in Elems(wire["client"]) :
              /\ r.typ = "handshake" /\ r.m.t = "serverKeyExchange" =>
                     r.m.sig \in Proofs(hs["client"].peer.id \in Owned)
              /\ r.typ = "handshake" /\ r.m.t = "finished" =>
                     r.m.verify \in Proofs(Knows("client"))

NoShare == <<"none">>

\* A client in state h that waits for w: a share of the server is there once its
\* signature was checked, a session once the handshake it comes from was completed.
Sincere(h, w) ==
    /\ h.sess # NoSession => Bears(h.sess.peer)
    /\ w \in {"start", "hello", "cert"} => h.share = NoShare /\ h.didResume = FALSE
    /\ h.share # NoShare => h.peer.id \in Owned
    /\ h.didResume => Bears(h.peer)
    /\ w \in {"ticket", "ccs", "finished"} /\ ~h.didResume /\ h.suite \in suiteECDHE =>
          h.share # NoShare
    /\ w = "finished" => h.in # NoKey

Vouched ==
    FreeServer =>
        /\ cache.session # NoSession => Bears(cache.session.peer)
        /\ Sincere(hs["client"], pc["client"])
        /\ Done("client") => Bears(hs["client"].peer)

IInv == /\ Frame /\ InFlight /\ Ledger /\ Held /\ Hooked /\ Trusting /\ ClientSigns /\ Earned
        /\ ServerSigns /\ Vouched

--------------------------------------------------------------------------------
(* The steps of the server preserve the invariant *)

\* What depends on the configurations only does not change with a step of a side.
LEMMA SameSetup ==
    ASSUME cfg' = cfg
    PROVE  /\ Free' = Free /\ FreeClient' = FreeClient /\ FreeServer' = FreeServer
           /\ \A t : TicketOk(t)' = TicketOk(t)
           /\ \A m : FromClient(m)' = FromClient(m)
           /\ \A M : TicketsOk(M)' = TicketsOk(M)
  <1>1. Free' = Free
    BY DEF Free
  <1>2. \A t : TicketOk(t)' = TicketOk(t)
    BY <1>1 DEF TicketOk, Bears
  <1> QED
    BY <1>1, <1>2 DEF FreeClient, FreeServer, FromClient, TicketsOk, CertOk, IsSeq, Elems

\* What every step of the server has to show: of its own state, and of what it sends.
ServerKeeps ==
    /\ \E M : Moved("server", M) /\ TicketsOk(M)
    /\ cache' = cache /\ Ledger' /\ Hooked' /\ Earned'

\* With that the rest of the invariant holds on.
LEMMA ServerKeepsInv ==
    ASSUME IInv, "server" \notin Free, ServerKeeps
    PROVE  IInv'
  <1>1. PICK M : Moved("server", M) /\ TicketsOk(M)
    BY DEF ServerKeeps
  <1>2. /\ Frame' /\ cfg' = cfg /\ hs'["client"] = hs["client"] /\ pc'["client"] = pc["client"]
        /\ end'["client"] = end["client"] /\ cache' = cache
        /\ Elems(wire'["server"]) \subseteq Elems(wire["server"])
        /\ Len(wire["server"]) <= 1 => wire'["server"] = <<>>
        /\ \A r \in Elems(wire'["client"]) :
              r \in Elems(wire["client"]) \/ r.typ # "handshake" \/ r.m \in M
    BY <1>1 DEF Moved, Others, Peer, ServerKeeps
  <1>3. /\ Free' = Free /\ FreeClient' = FreeClient /\ FreeServer' = FreeServer
        /\ \A t : TicketOk(t)' = TicketOk(t)
        /\ \A m : FromClient(m)' = FromClient(m)
    BY <1>2, SameSetup
  <1>4. InFlight'
    BY <1>1, <1>2, <1>3 DEF IInv, InFlight, TicketsOk
  <1>5. Held' /\ Trusting'
    BY <1>2, <1>3 DEF IInv, Held, Trusting, CertOk
  <1>6. ClientSigns'
    <2>1. FreeClient => wire'["server"] = <<>>
      BY <1>2 DEF IInv, ClientSigns
    <2>2. Len(<<>>) <= 1 /\ Elems(<<>>) = {}
      BY TupleFacts
    <2> QED
      BY <1>3, <2>1, <2>2 DEF ClientSigns
  <1>7. ServerSigns' /\ Vouched'
    BY <1>3 DEF FreeServer, ServerSigns, Vouched
  <1> QED
    BY <1>2, <1>4, <1>5, <1>6, <1>7 DEF IInv, ServerKeeps

\* A server that fails keeps its part.
LEMMA ServerFails ==
    ASSUME IInv, "server" \notin Free, Failed("server"),
           NEW M, Moved("server", M), TicketsOk(M)
    PROVE  ServerKeeps
  <1>1. /\ hs'["server"] = hs["server"] /\ pc'["server"] = "ended" /\ end'["server"] # "done"
        /\ cache' = cache /\ cfg' = cfg
    BY DEF Failed, Moved, Others
  <1>2. ~Agreed' /\ ~Shown' /\ ~Proved'
    BY <1>1 DEF Agreed, Shown, Proved, Done
  <1>3. Ledger'
    BY <1>1, SameSetup DEF IInv, Ledger
  <1> QED
    BY <1>1, <1>2, <1>3 DEF ServerKeeps, Hooked, Earned

\* The parameters and the peer of the server do not change any more.
LEMMA ServerProceeds ==
    ASSUME IInv, "server" \notin Free, NEW g, NEW w, Goes("server", g, w),
           NEW M, Moved("server", M), TicketsOk(M), cache' = cache,
           g.didResume = hs["server"].didResume, g.vers = hs["server"].vers,
           g.suite = hs["server"].suite, g.peer = hs["server"].peer,
           TicketsOk(Elems(g.tr)), w \in {"certVerify", "ccs", "finished", "ended"},
           pc["server"] \in {"ckx", "certVerify", "ccs", "finished"},
           FreeClient => w = "certVerify" \/ Proved \/ Bears(g.peer)
    PROVE  ServerKeeps
  <1>1. hs'["server"] = g /\ pc'["server"] = w /\ cfg' = cfg
    BY DEF Goes, Moved, Others
  <1>2. Ledger'
    BY <1>1, SameSetup DEF Ledger
  <1>3. Agreed /\ Shown
    BY DEF Shown, Agreed
  <1>4. Hooked'
    <2>1. cfg["server"].hook => /\ g.didResume = FALSE /\ g.vers = 12 /\ g.suite = "CCM8"
                                /\ Consented(cfg["server"], g.peer)
      BY <1>3 DEF IInv, Hooked
    <2> QED
      BY <1>1, <2>1 DEF Hooked, Consented
  <1>5. Earned'
    <2>1. CASE w = "certVerify"
      <3>1. ~Proved'
        BY <1>1, <2>1 DEF Proved, Done, Goes, IInv, Frame, Sides
      <3> QED
        BY <3>1 DEF Earned
    <2>2. CASE w # "certVerify"
      <3>1. FreeClient => Bears(g.peer)
        BY <2>2 DEF IInv, Earned
      <3> QED
        BY <1>1, <3>1, SameSetup DEF Earned, Bears
    <2> QED
      BY <2>1, <2>2
  <1> QED
    BY <1>2, <1>4, <1>5 DEF ServerKeeps

\* Reading adds no ticket to the transcript of the server.
LEMMA ServerReadsTicketsOk ==
    ASSUME IInv, NEW h, h = hs["server"], NEW g, NEW m, NEW F, Noted(h, g, m, F),
           m.t # "newSessionTicket", IsSeq(h.tr)
    PROVE  TicketsOk(Elems(g.tr))
  <1>1. Elems(g.tr) = Elems(h.tr) \cup {m}
    BY SeqFacts DEF Noted
  <1> QED
    BY <1>1 DEF IInv, Ledger, TicketsOk

\* The message the server has read.
LEMMA ServerRead ==
    ASSUME IInv, NEW W, NEW t, Reads("server", W, t)
    PROVE  /\ DOMAIN hs["server"] = DOMAIN Blank /\ IsSeq(hs["server"].tr)
           /\ pc["server"] \in W /\ pc["server"] # "ended" /\ end["server"] # "done"
           /\ Msg("server").t = t /\ FromClient(Msg("server"))
           /\ FreeClient /\ t = "certificateVerify" =>
                 Msg("server").sig \in Proofs(hs["server"].peer.id \in Owned)
  <1>1. Frame /\ "server" \in Sides
    BY DEF IInv, Sides
  <1>2. /\ DOMAIN hs["server"] = DOMAIN Blank /\ IsSeq(hs["server"].tr)
        /\ pc["server"] # "ended" /\ pc["server"] \in W /\ Msg("server").t = t
        /\ \E r \in Elems(wire["server"]) : r.typ = "handshake" /\ r.m = Msg("server")
    BY <1>1, ReadingFacts
  <1>3. end["server"] # "done"
    BY <1>1, <1>2 DEF Frame
  <1> QED
    BY <1>2, <1>3 DEF IInv, InFlight, ClientSigns

\* The record layer of the server keeps its part.
LEMMA ServerRecordStep ==
    ASSUME IInv, "server" \notin Free, RecordStep("server")
    PROVE  ServerKeeps
  <1> DEFINE h == hs["server"]
             g == Switched(h)
  <1>1. Frame /\ "server" \in Sides /\ DOMAIN h = DOMAIN Blank
    BY DEF IInv, Frame, Sides
  <1>2. /\ Moved("server", {})
        /\ \/ Failed("server")
           \/ Goes("server", h, pc["server"]) /\ cache' = cache /\ pc["server"] # "ended"
           \/ pc["server"] = "ccs" /\ cache' = cache /\ Goes("server", g, "finished")
    BY <1>1, RecordEffect
  <1>3. TicketsOk({})
    BY DEF TicketsOk
  <1>4. CASE Failed("server")
    BY <1>2, <1>3, <1>4, ServerFails
  <1>5. CASE Goes("server", h, pc["server"]) /\ cache' = cache /\ pc["server"] # "ended"
    <2>1. /\ hs'["server"] = h /\ pc'["server"] = pc["server"] /\ end'["server"] = end["server"]
          /\ cfg' = cfg
      BY <1>2, <1>5 DEF Goes, Moved, Others
    <2>2. Ledger' /\ Earned'
      BY <2>1, SameSetup DEF IInv, Ledger, Earned, Proved, Done, Bears
    <2>3. Hooked'
      BY <2>1 DEF IInv, Hooked, Agreed, Shown, Done, Consented
    <2> QED
      BY <1>2, <1>3, <1>5, <2>2, <2>3 DEF ServerKeeps
  <1>6. CASE pc["server"] = "ccs" /\ cache' = cache /\ Goes("server", g, "finished")
    <2>1. /\ g.didResume = h.didResume /\ g.vers = h.vers /\ g.suite = h.suite
          /\ g.peer = h.peer /\ g.tr = h.tr
      BY <1>1, BlankFields DEF Switched
    <2> HIDE DEF g
    <2>2. TicketsOk(Elems(g.tr)) /\ Proved
      BY <1>6, <2>1 DEF IInv, Ledger, Proved
    <2> QED
      BY <1>2, <1>3, <1>6, <2>1, <2>2, ServerProceeds
  <1> QED
    BY <1>2, <1>4, <1>5, <1>6

\* The hook has seen the certificate.
LEMMA HookConsents ==
    ASSUME NEW c, c.hook, NEW p, CertOk(p), ClientCertAccepted(c, p, day)
    PROVE  Consented(c, p)
  <1>1. p # NoCert /\ Verifies(AcknowledgeHardwareModuleSAN(p), c.roots, "client", day)
    BY DEF ClientCertAccepted, HookAccepts, VerifyPeerCertWithHardwareModuleSAN
  <1>2. p \in CertType
    BY <1>1 DEF CertOk
  <1> DEFINE q == AcknowledgeHardwareModuleSAN(p)
  <1>3. q.issuer = p.issuer /\ q.usage = p.usage /\ (p.san = "mixed" => q.san = "mixed")
    BY <1>2 DEF CertType, AcknowledgeHardwareModuleSAN
  <1>4. q.issuer \in c.roots /\ "client" \in q.usage /\ q.san = "plain"
    BY <1>1 DEF Verifies
  <1> QED
    BY <1>1, <1>3, <1>4 DEF Consented

\* The hook has consented to what ServerCertificate lets through.
LEMMA ServerCertificateStep ==
    ASSUME IInv, "server" \notin Free, ServerCertificate
    PROVE  ServerKeeps
  <1> DEFINE h == hs["server"]
             g == hs'["server"]
             m == Msg("server")
             c == cfg["server"]
  <1>1. /\ Moved("server", {}) /\ Reads("server", {"cert"}, "certificate")
        /\ \/ Failed("server")
           \/ /\ Goes("server", g, "ckx") /\ cache' = cache
              /\ Noted(h, g, m, {"peer", "verified"}) /\ g.peer = m.cert
              /\ ClientCertAccepted(c, m.cert, day)
    BY CertificateEffect DEF IInv
  <1>2. /\ IsSeq(h.tr) /\ pc["server"] = "cert" /\ end["server"] # "done"
        /\ m.t = "certificate" /\ FromClient(m)
    BY <1>1, ServerRead
  <1>3. TicketsOk({})
    BY DEF TicketsOk
  <1>4. CASE Failed("server")
    BY <1>1, <1>3, <1>4, ServerFails
  <1>5. CASE /\ Goes("server", g, "ckx") /\ cache' = cache
             /\ Noted(h, g, m, {"peer", "verified"}) /\ g.peer = m.cert
             /\ ClientCertAccepted(c, m.cert, day)
    <2>1. pc'["server"] = "ckx" /\ end'["server"] # "done" /\ cfg' = cfg
      BY <1>1, <1>2, <1>5 DEF Goes, Moved, Others
    <2>2. /\ g.didResume = h.didResume /\ g.vers = h.vers /\ g.suite = h.suite
      BY <1>5, BlankFields DEF Noted, Like
    <2>3. Ledger'
      <3>1. TicketsOk(Elems(g.tr))
        BY <1>2, <1>5, ServerReadsTicketsOk
      <3> QED
        BY <2>1, <3>1, SameSetup DEF Ledger
    <2>4. Earned'
      BY <2>1 DEF Earned, Proved, Done
    <2>5. Agreed
      BY <1>2 DEF Agreed
    <2>6. ASSUME c.hook
          PROVE  /\ g.didResume = FALSE /\ g.vers = 12 /\ g.suite = "CCM8"
                 /\ Consented(c, g.peer)
      <3>1. h.didResume = FALSE /\ h.vers = 12 /\ h.suite = "CCM8"
        BY <2>5, <2>6 DEF IInv, Hooked
      <3>2. CertOk(m.cert)
        BY <1>2 DEF FromClient
      <3>3. Consented(c, m.cert)
        BY <1>5, <2>6, <3>2, HookConsents
      <3> QED
        BY <1>5, <2>2, <3>1, <3>3
    <2>7. Hooked'
      BY <2>1, <2>6 DEF Hooked, Consented
    <2> QED
      BY <1>1, <1>3, <1>5, <2>3, <2>4, <2>7 DEF ServerKeeps
  <1> QED
    BY <1>1, <1>4, <1>5

\* Only a server without a certificate goes on without CertificateVerify.
LEMMA ServerKeyExchangeStep ==
    ASSUME IInv, "server" \notin Free, ServerKeyExchange
    PROVE  ServerKeeps
  <1> DEFINE h == hs["server"]
             g == hs'["server"]
             m == Msg("server")
             w == IF h.peer # NoCert THEN "certVerify" ELSE "ccs"
  <1>1. /\ Moved("server", {}) /\ Reads("server", {"ckx"}, "clientKeyExchange")
        /\ \/ Failed("server")
           \/ /\ Goes("server", g, w) /\ cache' = cache
              /\ Noted(h, g, m, {"secret", "inNext", "outNext"})
    BY KeyExchangeEffect DEF IInv
  <1>2. IsSeq(h.tr) /\ pc["server"] = "ckx" /\ m.t = "clientKeyExchange"
    BY <1>1, ServerRead
  <1>3. TicketsOk({})
    BY DEF TicketsOk
  <1>4. CASE Failed("server")
    BY <1>1, <1>3, <1>4, ServerFails
  <1>5. CASE /\ Goes("server", g, w) /\ cache' = cache
             /\ Noted(h, g, m, {"secret", "inNext", "outNext"})
    <2>1. /\ g.didResume = h.didResume /\ g.vers = h.vers /\ g.suite = h.suite
          /\ g.peer = h.peer
      BY <1>5, BlankFields DEF Noted, Like
    <2>2. TicketsOk(Elems(g.tr))
      BY <1>2, <1>5, ServerReadsTicketsOk
    <2>3. w \in {"certVerify", "ccs", "finished", "ended"} /\ (w = "certVerify" \/ Bears(g.peer))
      BY <2>1 DEF Bears
    <2> HIDE DEF w
    <2> QED
      BY <1>1, <1>2, <1>3, <1>5, <2>1, <2>2, <2>3, ServerProceeds
  <1> QED
    BY <1>1, <1>4, <1>5

\* A good signature of a Free client is one with a key it has.
LEMMA ServerCertVerifyStep ==
    ASSUME IInv, "server" \notin Free, ServerCertVerify
    PROVE  ServerKeeps
  <1> DEFINE h == hs["server"]
             g == hs'["server"]
             m == Msg("server")
  <1>1. /\ Moved("server", {}) /\ Reads("server", {"certVerify"}, "certificateVerify")
        /\ \/ Failed("server")
           \/ /\ Goes("server", g, "ccs") /\ cache' = cache
              /\ Noted(h, g, m, {"inNext", "outNext"})
              /\ Proves(m.sig, Signature(h.peer, h.tr))
    BY CertVerifyEffect DEF IInv
  <1>2. /\ IsSeq(h.tr) /\ pc["server"] = "certVerify" /\ m.t = "certificateVerify"
        /\ FreeClient => m.sig \in Proofs(h.peer.id \in Owned)
    BY <1>1, ServerRead
  <1>3. TicketsOk({})
    BY DEF TicketsOk
  <1>4. CASE Failed("server")
    BY <1>1, <1>3, <1>4, ServerFails
  <1>5. CASE /\ Goes("server", g, "ccs") /\ cache' = cache
             /\ Noted(h, g, m, {"inNext", "outNext"})
             /\ Proves(m.sig, Signature(h.peer, h.tr))
    <2>1. /\ g.didResume = h.didResume /\ g.vers = h.vers /\ g.suite = h.suite
          /\ g.peer = h.peer
      BY <1>5, BlankFields DEF Noted, Like
    <2>2. TicketsOk(Elems(g.tr))
      BY <1>2, <1>5, ServerReadsTicketsOk
    <2>3. FreeClient => Bears(g.peer)
      <3>1. Signature(h.peer, h.tr) # <<"bad">> /\ <<"bad">> # <<"match">>
        BY DEF Signature
      <3>2. FreeClient => h.peer.id \in Owned
        BY <1>2, <1>5, <3>1 DEF Proves, Proofs
      <3> QED
        BY <2>1, <3>2 DEF Bears
    <2> QED
      BY <1>1, <1>2, <1>3, <1>5, <2>1, <2>2, <2>3, ServerProceeds
  <1> QED
    BY <1>1, <1>4, <1>5

\* The ticket of a full handshake carries today, and a proved certificate.
LEMMA ServerFinishedStep ==
    ASSUME IInv, "server" \notin Free, ServerFinished
    PROVE  ServerKeeps
  <1> DEFINE h == hs["server"]
             g == hs'["server"]
             m == Msg("server")
  <1>1. /\ Reads("server", {"finished"}, "finished")
        /\ \/ Moved("server", {}) /\ Failed("server")
           \/ /\ Goes("server", g, "ended") /\ cache' = cache
              /\ \/ Moved("server", {}) /\ Noted(h, g, m, {})
                 \/ \E pre : Issues(h, pre) /\ Completes("server", h, g, m, pre)
    BY ServerFinishedEffect DEF IInv
  <1>2. IsSeq(h.tr) /\ pc["server"] = "finished" /\ m.t = "finished" /\ Proved
    BY <1>1, ServerRead DEF Proved
  <1>3. TicketsOk({})
    BY DEF TicketsOk
  <1>4. CASE Moved("server", {}) /\ Failed("server")
    BY <1>3, <1>4, ServerFails
  <1>5. CASE /\ Goes("server", g, "ended") /\ cache' = cache
             /\ Moved("server", {}) /\ Noted(h, g, m, {})
    <2>1. /\ g.didResume = h.didResume /\ g.vers = h.vers /\ g.suite = h.suite
          /\ g.peer = h.peer
      BY <1>5, BlankFields DEF Noted, Like
    <2>2. TicketsOk(Elems(g.tr))
      BY <1>2, <1>5, ServerReadsTicketsOk
    <2> QED
      BY <1>2, <1>3, <1>5, <2>1, <2>2, ServerProceeds
  <1>6. ASSUME NEW pre, Issues(h, pre), Completes("server", h, g, m, pre),
               Goes("server", g, "ended"), cache' = cache
        PROVE  ServerKeeps
    <2> DEFINE fin == [t |-> "finished",
                       verify |-> <<"finished", "server", h.secret, Append(h.tr, m) \o pre>>]
    <2>1. /\ Like(h, g, {"tr", "out", "outNext"})
          /\ Elems(g.tr) = Elems(h.tr) \cup {m} \cup Elems(pre) \cup {fin}
          /\ Moved("server", Elems(pre) \cup {fin}) /\ fin.t = "finished"
      BY <1>6 DEF Completes
    <2> HIDE DEF fin
    <2>2. /\ g.didResume = h.didResume /\ g.vers = h.vers /\ g.suite = h.suite
          /\ g.peer = h.peer
      BY <2>1, BlankFields DEF Like
    <2>3. TicketsOk(Elems(pre))
      <3>1. CASE pre = <<>>
        BY <3>1, TupleFacts DEF TicketsOk
      <3>2. ASSUME NEW tk, pre = <<tk>>, tk.t = "newSessionTicket",
                   tk.ticket.state = SessionState(h, day, day)
            PROVE  TicketsOk(Elems(pre))
        <4>1. /\ tk.ticket.state.createdAt = day /\ tk.ticket.state.born = day
              /\ tk.ticket.state.peer = h.peer
          BY <3>2 DEF SessionState
        <4>2. "client" \in Free => Bears(h.peer)
          BY <1>2 DEF IInv, Earned, FreeClient
        <4>3. TicketOk(tk.ticket)
          BY <4>1, <4>2 DEF TicketOk, Bears
        <4> QED
          BY <3>2, <4>3, TupleFacts DEF TicketsOk
      <3> QED
        BY <1>6, <3>1, <3>2 DEF Issues
    <2>4. TicketsOk(Elems(g.tr)) /\ TicketsOk(Elems(pre) \cup {fin})
      BY <1>2, <2>1, <2>3 DEF IInv, Ledger, TicketsOk
    <2> QED
      BY <1>2, <1>6, <2>1, <2>2, <2>4, ServerProceeds
  <1> QED
    BY <1>1, <1>4, <1>5, <1>6

\* A refused hello changes nothing else.
LEMMA ServerRefusesHelloStep ==
    ASSUME IInv, "server" \notin Free, ServerRefusesHello
    PROVE  ServerKeeps
  <1>1. Moved("server", {}) /\ Failed("server")
    BY HelloRefusal DEF ServerRefusesHello, IInv
  <1>2. TicketsOk({})
    BY DEF TicketsOk
  <1> QED
    BY <1>1, <1>2, ServerFails

\* A CCM server does not resume; a renewed ticket keeps its day and its certificate.
LEMMA ServerResumesStep ==
    ASSUME IInv, "server" \notin Free, ServerResumes
    PROVE  ServerKeeps
  <1> DEFINE c  == cfg["server"]
             m  == Msg("server")
             st == m.ticket.state
             g  == hs'["server"]
  <1>1. /\ Reads("server", {"hello"}, "clientHello") /\ c.tickets /\ m.ticket # NoTicket
        /\ \/ Moved("server", {}) /\ Failed("server")
           \/ /\ cache' = cache /\ Goes("server", g, "ccs")
              /\ \E tk, fin : /\ Resumed(c, m, g, tk, fin)
                              /\ Moved("server", {g.serverHello, tk, fin})
    BY ResumeEffect DEF IInv
  <1>2. m.t = "clientHello" /\ FromClient(m)
    BY <1>1, ServerRead
  <1>3. ~c.hook
    BY <1>1, CCMFacts DEF IInv, Frame
  <1>4. st.createdAt = st.born /\ (FreeClient => Bears(st.peer))
    BY <1>1, <1>2 DEF FromClient, TicketOk, FreeClient
  <1>5. CASE Moved("server", {}) /\ Failed("server")
    <2>1. TicketsOk({})
      BY DEF TicketsOk
    <2> QED
      BY <1>5, <2>1, ServerFails
  <1>6. ASSUME NEW tk, NEW fin, Resumed(c, m, g, tk, fin), cache' = cache,
               Moved("server", {g.serverHello, tk, fin}), Goes("server", g, "ccs")
        PROVE  ServerKeeps
    <2> HIDE DEF m, c, g
    <2>1. /\ g.peer = st.peer /\ g.tr = <<m, g.serverHello, tk, fin>>
          /\ tk.t = "newSessionTicket" /\ tk.ticket.state = SessionState(g, st.createdAt, st.born)
          /\ fin.t = "finished" /\ g.serverHello.t = "serverHello"
      <3>1. \A a1, a2, a3, a4 : ServerHelloMsg(a1, a2, a3, a4, TRUE).t = "serverHello"
        BY DEF ServerHelloMsg
      <3>2. /\ g.peer = st.peer /\ g.tr = <<m, g.serverHello, tk, fin>>
            /\ tk.t = "newSessionTicket"
            /\ tk.ticket.state = SessionState(g, st.createdAt, st.born)
            /\ g.serverHello = ServerHelloMsg(c, g, m, st.suite, TRUE)
        BY <1>6 DEF Resumed
      <3>3. fin.t = "finished"
        BY <1>6 DEF Resumed
      <3>4. g.serverHello.t = "serverHello"
        BY <3>1, <3>2
      <3> QED
        BY <3>2, <3>3, <3>4
    <2>2. /\ tk.ticket.state.createdAt = st.createdAt /\ tk.ticket.state.born = st.born
          /\ tk.ticket.state.peer = g.peer
      BY <2>1 DEF SessionState
    <2>3. TicketOk(tk.ticket)
      BY <1>4, <2>1, <2>2 DEF TicketOk, FreeClient, Bears
    <2>4. Elems(g.tr) = {m, g.serverHello, tk, fin}
      <3>1. \A x1, x2, x3, x4 : Elems(<<x1, x2, x3, x4>>) = {x1, x2, x3, x4}
        BY DEF Elems
      <3> QED
        BY <2>1, <3>1
    <2>5. TicketsOk(Elems(g.tr)) /\ TicketsOk({g.serverHello, tk, fin})
      <3>1. m.t = "clientHello"
        BY <1>2
      <3> QED
        BY <2>1, <2>3, <2>4, <3>1 DEF TicketsOk
    <2>6. hs'["server"] = g /\ cfg' = cfg
      BY <1>6 DEF Moved, Others, g
    <2>7. Ledger'
      BY <2>5, <2>6, SameSetup DEF Ledger
    <2>8. Hooked'
      BY <1>3, <2>6 DEF Hooked, c
    <2>9. Earned'
      BY <1>4, <2>1, <2>6, SameSetup DEF Earned, Bears
    <2> QED
      BY <1>6, <2>5, <2>7, <2>8, <2>9 DEF ServerKeeps
  <1> QED
    BY <1>1, <1>5, <1>6

\* A CCM server begins with TLS 1.2, CCM_8 and a request for a certificate.
LEMMA ServerFullStep ==
    ASSUME IInv, "server" \notin Free, ServerFull
    PROVE  ServerKeeps
  <1> DEFINE c == cfg["server"]
             m == Msg("server")
             g == hs'["server"]
             w == IF c.auth = 0 THEN "ckx" ELSE "cert"
  <1>1. /\ Reads("server", {"hello"}, "clientHello")
        /\ \E M : Opening(M) /\ Moved("server", M)
        /\ \/ Failed("server")
           \/ Begun(c, m, g) /\ cache' = cache /\ Goes("server", g, w)
    BY FullEffect DEF IInv
  <1>2. m.t = "clientHello" /\ FromClient(m) /\ end["server"] # "done"
    BY <1>1, ServerRead
  <1>3. PICK M : Moved("server", M) /\ TicketsOk(M)
    BY <1>1 DEF Opening, TicketsOk, Later
  <1>4. CASE Failed("server")
    BY <1>3, <1>4, ServerFails
  <1>5. CASE Begun(c, m, g) /\ cache' = cache /\ Goes("server", g, w)
    <2>1. /\ pc'["server"] = w /\ end'["server"] # "done" /\ cfg' = cfg
      BY <1>2, <1>3, <1>5 DEF Goes, Moved, Others
    <2>2. Ledger'
      <3>1. /\ IsSeq(g.tr) /\ DOMAIN g.tr = 1 .. Len(g.tr) /\ Len(g.tr) \in Nat
            /\ g.tr[1].t = "clientHello" /\ g.tr[2].t = "serverHello"
            /\ g.tr[3].t = "certificate"
            /\ \A i \in DOMAIN g.tr : i > 3 => g.tr[i].t \in Later
        BY <1>2, <1>5, SeqFacts DEF Begun, After, ServerHelloMsg
      <3>2. \A i \in DOMAIN g.tr : i = 1 \/ i = 2 \/ i = 3 \/ i > 3
        BY <3>1
      <3>3. \A x \in Elems(g.tr) : x.t # "newSessionTicket"
        BY <3>1, <3>2 DEF Elems, Later
      <3> QED
        BY <3>3 DEF Ledger, TicketsOk
    <2>3. Earned'
      BY <2>1 DEF Earned, Proved, Done
    <2>4. ASSUME c.hook
          PROVE  w = "cert" /\ g.didResume = FALSE /\ g.vers = 12 /\ g.suite = "CCM8"
      <3>1. /\ Allowed(c) = {12} /\ cipherSuites(c) = {"CCM8"} /\ c.auth = 2
        BY <2>4, CCMFacts DEF IInv, Frame
      <3>2. /\ g.didResume = FALSE /\ g.vers = mutualVersion(c, helloVersions(m)) /\ g.vers # 0
            /\ g.suite = pickCipherSuite(c, g.vers, g.cert, m) /\ g.suite # "refused"
        BY <1>5 DEF Begun
      <3>3. IsSeq(helloVersions(m))
        BY <1>2, HelloSeq DEF FromClient
      <3>4. g.vers = 12
        BY <3>1, <3>2, <3>3, FirstFacts DEF mutualVersion
      <3>5. g.suite \in cipherSuites(c)
        <4> DEFINE S == {s \in Elems(m.suites) \cap cipherSuites(c) :
                            cipherSuiteOk(c, g.vers, g.cert, m, s)}
        <4>1. g.suite = First(PreferenceOrder, S, "refused") /\ S \subseteq cipherSuites(c)
          BY <3>2 DEF pickCipherSuite
        <4> HIDE DEF S
        <4>2. g.suite = "refused" \/ g.suite \in S
          BY <4>1, PreferenceFacts, FirstFacts
        <4> QED
          BY <3>2, <4>1, <4>2
      <3> QED
        BY <3>1, <3>2, <3>4, <3>5
    <2>5. Hooked'
      <3>1. c.hook => ~Shown'
        BY <2>1, <2>4 DEF Shown, Done
      <3> QED
        BY <2>1, <2>4, <3>1 DEF Hooked
    <2> QED
      BY <1>3, <1>5, <2>2, <2>3, <2>5 DEF ServerKeeps
  <1> QED
    BY <1>1, <1>4, <1>5

\* Every step of the server preserves the invariant.
LEMMA ServerStepInv ==
    ASSUME IInv, "server" \notin Free, Step("server")
    PROVE  IInv'
  <1>1. RecordStep("server") \/ ServerStep
    BY DEF Step
  <1>2. ServerKeeps
    BY <1>1, ServerRecordStep, ServerCertificateStep, ServerKeyExchangeStep,
       ServerCertVerifyStep, ServerFinishedStep, ServerRefusesHelloStep, ServerResumesStep,
       ServerFullStep DEF ServerStep
  <1> QED
    BY <1>2, ServerKeepsInv

--------------------------------------------------------------------------------
(* The steps of the client preserve the invariant *)

ClientKeeps ==
    /\ \E M : Moved("client", M) /\ \A x \in M : FromClient(x)
    /\ Held' /\ Trusting' /\ Vouched'

\* With that the rest of the invariant holds on.
LEMMA ClientKeepsInv ==
    ASSUME IInv, "client" \notin Free, ClientKeeps
    PROVE  IInv'
  <1>1. PICK M : Moved("client", M) /\ \A x \in M : FromClient(x)
    BY DEF ClientKeeps
  <1>2. /\ Frame' /\ cfg' = cfg /\ hs'["server"] = hs["server"] /\ pc'["server"] = pc["server"]
        /\ end'["server"] = end["server"]
        /\ Elems(wire'["client"]) \subseteq Elems(wire["client"])
        /\ Len(wire["client"]) <= 1 => wire'["client"] = <<>>
        /\ \A r \in Elems(wire'["server"]) :
              r \in Elems(wire["server"]) \/ r.typ # "handshake" \/ r.m \in M
    BY <1>1 DEF Moved, Others, Peer
  <1>3. /\ Free' = Free /\ FreeClient' = FreeClient /\ FreeServer' = FreeServer
        /\ \A t : TicketOk(t)' = TicketOk(t)
        /\ \A m : FromClient(m)' = FromClient(m)
        /\ \A S : TicketsOk(S)' = TicketsOk(S)
    BY <1>2, SameSetup
  <1>4. InFlight'
    BY <1>1, <1>2, <1>3 DEF IInv, InFlight
  <1>5. Ledger'
    BY <1>2, <1>3 DEF IInv, Ledger
  <1>6. Hooked'
    BY <1>2 DEF IInv, Hooked, Agreed, Shown, Done, Consented
  <1>7. Earned'
    BY <1>2, <1>3 DEF IInv, Earned, Proved, Done, Bears
  <1>8. ClientSigns'
    BY <1>3 DEF ClientSigns, FreeClient
  <1>9. ServerSigns'
    <2>1. FreeServer => wire'["client"] = <<>>
      BY <1>2 DEF IInv, ServerSigns
    <2>2. Len(<<>>) <= 1 /\ Elems(<<>>) = {}
      BY TupleFacts
    <2> QED
      BY <1>3, <2>1, <2>2 DEF ServerSigns
  <1> QED
    BY <1>2, <1>4, <1>5, <1>6, <1>7, <1>8, <1>9 DEF IInv, ClientKeeps

\* An empty entry of the cache.
LEMMA EmptyEntry == NoEntry.ticket = NoTicket /\ NoEntry.session = NoSession
  BY DEF NoEntry

\* A client that fails keeps its part: the cache has the old session, or none.
LEMMA ClientFails ==
    ASSUME IInv, "client" \notin Free, Failed("client"),
           NEW M, Moved("client", M), \A x \in M : FromClient(x)
    PROVE  ClientKeeps
  <1>1. /\ hs'["client"] = hs["client"] /\ pc'["client"] = "ended" /\ end'["client"] # "done"
        /\ cfg' = cfg /\ (cache' = cache \/ cache' = NoEntry)
    BY DEF Failed, Moved, Others
  <1>2. Held'
    <2>1. TicketOk(cache'.ticket)
      BY <1>1, EmptyEntry DEF IInv, Held, TicketOk
    <2> QED
      BY <1>1, <2>1, SameSetup DEF IInv, Held, CertOk
  <1>3. Trusting'
    BY <1>1 DEF IInv, Trusting
  <1>4. Vouched'
    <2>1. ASSUME FreeServer
          PROVE  /\ cache'.session # NoSession => Bears(cache'.session.peer)
                 /\ Sincere(hs["client"], "ended")
      <3>1. Sincere(hs["client"], "ended")
        BY <2>1 DEF IInv, Vouched, Sincere
      <3> QED
        BY <1>1, <2>1, <3>1, EmptyEntry DEF IInv, Vouched
    <2> QED
      BY <1>1, <2>1, SameSetup DEF Vouched, Sincere, Done, Bears
  <1> QED
    BY <1>2, <1>3, <1>4 DEF ClientKeeps

\* A client that goes on, in state g, and what is to be shown of it.
LEMMA ClientGoes ==
    ASSUME IInv, "client" \notin Free, pc["client"] # "ended",
           NEW g, NEW w, Goes("client", g, w),
           NEW M, Moved("client", M), \A x \in M : FromClient(x),
           CertOk(g.cert), TicketOk(g.ticket), TicketOk(cache'.ticket),
           g.sess # NoSession => g.sess.verified \/ cfg["client"].skipVerify,
           FreeServer => /\ cache'.session # NoSession => Bears(cache'.session.peer)
                         /\ Sincere(g, w) /\ (w = "ended" => Bears(g.peer))
    PROVE  ClientKeeps
  <1>1. /\ hs'["client"] = g /\ pc'["client"] = w /\ cfg' = cfg
        /\ end'["client"] = IF w = "ended" THEN "done" ELSE end["client"]
    BY DEF Goes, Moved, Others
  <1>2. Done("client")' = (w = "ended")
    BY <1>1 DEF IInv, Frame, Sides, Done
  <1>3. Held'
    BY <1>1, SameSetup DEF Held, CertOk
  <1>4. Trusting'
    BY <1>1 DEF Trusting
  <1>5. Vouched'
    BY <1>1, <1>2, SameSetup DEF Vouched, Sincere, Bears
  <1> QED
    BY <1>3, <1>4, <1>5 DEF ClientKeeps

\* The message the client has read.
LEMMA ClientRead ==
    ASSUME IInv, NEW W, NEW t, Reads("client", W, t)
    PROVE  /\ DOMAIN hs["client"] = DOMAIN Blank /\ IsSeq(hs["client"].tr)
           /\ pc["client"] \in W /\ pc["client"] # "ended"
           /\ Msg("client").t = t
           /\ t = "newSessionTicket" => TicketOk(Msg("client").ticket)
           /\ FreeServer /\ t = "serverKeyExchange" =>
                 Msg("client").sig \in Proofs(hs["client"].peer.id \in Owned)
           /\ FreeServer /\ t = "finished" =>
                 Msg("client").verify \in Proofs(Knows("client"))
  <1>1. Frame /\ "client" \in Sides
    BY DEF IInv, Sides
  <1>2. /\ DOMAIN hs["client"] = DOMAIN Blank /\ IsSeq(hs["client"].tr)
        /\ pc["client"] # "ended" /\ pc["client"] \in W /\ Msg("client").t = t
        /\ \E r \in Elems(wire["client"]) : r.typ = "handshake" /\ r.m = Msg("client")
    BY <1>1, ReadingFacts
  <1> QED
    BY <1>2 DEF IInv, InFlight, ServerSigns

\* The record layer of the client keeps its part.
LEMMA ClientRecordStep ==
    ASSUME IInv, "client" \notin Free, RecordStep("client")
    PROVE  ClientKeeps
  <1> DEFINE h == hs["client"]
             g == Switched(h)
  <1>1. Frame /\ "client" \in Sides /\ DOMAIN h = DOMAIN Blank
    BY DEF IInv, Frame, Sides
  <1>2. /\ Moved("client", {})
        /\ \/ Failed("client")
           \/ Goes("client", h, pc["client"]) /\ cache' = cache /\ pc["client"] # "ended"
           \/ /\ pc["client"] = "ccs" /\ h.inNext # NoKey /\ cache' = cache
              /\ Goes("client", g, "finished")
    BY <1>1, RecordEffect
  <1>3. /\ CertOk(h.cert) /\ TicketOk(h.ticket) /\ TicketOk(cache.ticket)
        /\ h.sess # NoSession => h.sess.verified \/ cfg["client"].skipVerify
        /\ FreeServer => /\ cache.session # NoSession => Bears(cache.session.peer)
                         /\ Sincere(h, pc["client"])
    BY DEF IInv, Held, Trusting, Vouched
  <1>4. CASE Failed("client")
    BY <1>2, <1>4, ClientFails
  <1>5. CASE Goes("client", h, pc["client"]) /\ cache' = cache /\ pc["client"] # "ended"
    BY <1>2, <1>3, <1>5, ClientGoes
  <1>6. CASE /\ pc["client"] = "ccs" /\ h.inNext # NoKey /\ cache' = cache
             /\ Goes("client", g, "finished")
    <2>1. /\ g.cert = h.cert /\ g.ticket = h.ticket /\ g.sess = h.sess /\ g.share = h.share
          /\ g.peer = h.peer /\ g.didResume = h.didResume /\ g.suite = h.suite
          /\ g.in = h.inNext
      BY <1>1, BlankFields DEF Switched
    <2> HIDE DEF g
    <2>2. FreeServer => Sincere(g, "finished")
      BY <1>3, <1>6, <2>1 DEF Sincere
    <2> QED
      BY <1>2, <1>3, <1>6, <2>1, <2>2, ClientGoes
  <1> QED
    BY <1>2, <1>4, <1>5, <1>6

\* What the invariant says of the client, before a step.
LEMMA ClientBefore ==
    ASSUME IInv
    PROVE  LET h == hs["client"]
           IN /\ CertOk(h.cert) /\ TicketOk(h.ticket) /\ TicketOk(cache.ticket)
              /\ h.sess # NoSession => h.sess.verified \/ cfg["client"].skipVerify
              /\ FreeServer => /\ cache.session # NoSession => Bears(cache.session.peer)
                               /\ Sincere(h, pc["client"])
  BY DEF IInv, Held, Trusting, Vouched

\* A blank state has no certificate, share, session, ticket or key.
LEMMA BlankValues ==
    /\ Blank.cert = NoCert /\ Blank.ticket = NoTicket /\ Blank.share = NoShare
    /\ Blank.didResume = FALSE /\ Blank.sess = NoSession /\ Blank.peer = NoCert
    /\ Blank.in = NoKey /\ Blank.tr = <<>>
  BY DEF Blank, NoShare

\* A hello offers a ticket of the cache, with the session it goes with.
LEMMA ClientStartStep ==
    ASSUME IInv, "client" \notin Free, ClientStart
    PROVE  ClientKeeps
  <1> DEFINE g == hs'["client"]
             c == cfg["client"]
  <1>1. /\ cache' \in {NoEntry, cache} /\ Goes("client", g, "hello")
        /\ Like(Blank, g, {"hello", "sess"})
        /\ \E tk : /\ g.hello = ClientHelloMsg(c, tk) /\ Moved("client", {g.hello})
                   /\ \/ tk = NoTicket /\ g.sess = NoSession
                      \/ tk = cache.ticket /\ g.sess = cache.session /\ Offerable(c, cache)
    BY ClientStartEffect DEF IInv
  <1>2. PICK tk : /\ g.hello = ClientHelloMsg(c, tk) /\ Moved("client", {g.hello})
                  /\ \/ tk = NoTicket /\ g.sess = NoSession
                     \/ tk = cache.ticket /\ g.sess = cache.session /\ Offerable(c, cache)
    BY <1>1
  <1>3. pc["client"] # "ended"
    BY DEF ClientStart
  <1>4. TicketOk(NoTicket) /\ TicketOk(cache.ticket) /\ TicketOk(cache'.ticket)
    BY <1>1, ClientBefore, EmptyEntry DEF TicketOk
  <1>5. FromClient(g.hello)
    <2>1. /\ g.hello.t = "clientHello" /\ g.hello.versions = supportedVersions(c)
          /\ g.hello.ticket = tk
      BY <1>2 DEF ClientHelloMsg
    <2>2. IsSeq(g.hello.versions)
      BY <2>1, NewestFacts DEF supportedVersions
    <2>3. TicketOk(g.hello.ticket)
      BY <1>2, <1>4, <2>1
    <2> QED
      BY <2>1, <2>2, <2>3 DEF FromClient
  <1>6. /\ g.cert = NoCert /\ g.ticket = NoTicket /\ g.share = NoShare /\ g.didResume = FALSE
    BY <1>1, BlankFields, BlankValues DEF Like
  <1>7. g.sess # NoSession => g.sess.verified \/ c.skipVerify
    BY <1>2 DEF Offerable
  <1>8. FreeServer => /\ cache'.session # NoSession => Bears(cache'.session.peer)
                      /\ Sincere(g, "hello")
    <2>1. FreeServer => (cache.session # NoSession => Bears(cache.session.peer))
      BY ClientBefore
    <2>2. FreeServer => (g.sess # NoSession => Bears(g.sess.peer))
      BY <1>2, <2>1
    <2> QED
      BY <1>1, <1>6, <2>1, <2>2, EmptyEntry DEF Sincere
  <1> HIDE DEF g
  <1>9. CertOk(g.cert) /\ TicketOk(g.ticket) /\ \A x \in {g.hello} : FromClient(x)
    BY <1>4, <1>5, <1>6 DEF CertOk
  <1> QED
    BY <1>1, <1>2, <1>3, <1>4, <1>7, <1>8, <1>9, ClientGoes

\* A client that resumes has the certificate of the session.
LEMMA ClientServerHelloStep ==
    ASSUME IInv, "client" \notin Free, ClientServerHello
    PROVE  ClientKeeps
  <1> DEFINE h == hs["client"]
             g == hs'["client"]
             m == Msg("client")
             w == IF m.tickets THEN "ticket" ELSE "ccs"
             base == {"vers", "suite", "alpn", "ems", "serverHello", "tr"}
             more == {"didResume", "secret", "peer", "verified", "inNext", "outNext"}
  <1>1. /\ Moved("client", {}) /\ Reads("client", {"hello"}, "serverHello")
        /\ \/ Failed("client")
           \/ Goes("client", g, "cert") /\ cache' = cache /\ Like(h, g, base)
           \/ /\ cache' = cache /\ h.sess # NoSession /\ Like(h, g, base \cup more)
              /\ Goes("client", g, w) /\ g.didResume = TRUE /\ g.peer = h.sess.peer
    BY ServerHelloEffect DEF IInv
  <1>2. pc["client"] = "hello"
    BY <1>1, ClientRead
  <1>3. CASE Failed("client")
    BY <1>1, <1>3, ClientFails
  <1>4. CASE Goes("client", g, "cert") /\ cache' = cache /\ Like(h, g, base)
    <2>1. /\ g.cert = h.cert /\ g.ticket = h.ticket /\ g.sess = h.sess /\ g.share = h.share
          /\ g.peer = h.peer /\ g.didResume = h.didResume
      BY <1>4, BlankFields DEF Like
    <2>2. FreeServer => Sincere(g, "cert")
      BY <1>2, <2>1, ClientBefore DEF Sincere
    <2> QED
      BY <1>1, <1>2, <1>4, <2>1, <2>2, ClientBefore, ClientGoes
  <1>5. CASE /\ cache' = cache /\ h.sess # NoSession /\ Like(h, g, base \cup more)
             /\ Goes("client", g, w) /\ g.didResume = TRUE /\ g.peer = h.sess.peer
    <2>1. /\ g.cert = h.cert /\ g.ticket = h.ticket /\ g.sess = h.sess /\ g.share = h.share
      BY <1>5, BlankFields DEF Like
    <2>2. w \in {"ticket", "ccs"}
      OBVIOUS
    <2> HIDE DEF w
    <2>3. FreeServer => Sincere(g, w)
      BY <1>2, <1>5, <2>1, <2>2, ClientBefore DEF Sincere
    <2> QED
      BY <1>1, <1>2, <1>5, <2>1, <2>2, <2>3, ClientBefore, ClientGoes
  <1> QED
    BY <1>1, <1>3, <1>4, <1>5

\* The certificate the client picks is one of its own.
LEMMA OwnCertificate ==
    ASSUME NEW u \in AllSetups, NEW v, NEW req
    PROVE  CertOk(getClientCertificate(u.client, v, req))
  <1> DEFINE c == u.client
             good == {i \in DOMAIN c.certs : RequestSupportsCertificate(v, req, c.certs[i])}
  <1>1. c.certs \in Seq(CertType)
    BY SetupFacts DEF SetupType, ConfigType
  <1>2. \A i \in DOMAIN c.certs : c.certs[i] \in CertType /\ i \in Nat
    BY <1>1
  <1>3. CASE good = {}
    BY <1>3 DEF getClientCertificate, CertOk
  <1>4. CASE good # {}
    <2> DEFINE i == CHOOSE i \in good : \A j \in good : i <= j
    <2>1. good \in SUBSET Nat
      BY <1>2
    <2>2. \E k \in good : \A j \in good : k <= j
      BY <1>4, <2>1, LeastOf
    <2>3. i \in good
      BY <2>2
    <2>4. getClientCertificate(c, v, req) = c.certs[i]
      BY <1>4 DEF getClientCertificate
    <2> HIDE DEF i
    <2> QED
      BY <1>2, <2>3, <2>4 DEF CertOk
  <1> QED
    BY <1>3, <1>4

\* A share is there only after a signature; a ticket is the server's.
LEMMA ClientReadsStep ==
    ASSUME IInv, "client" \notin Free,
           \/ ClientCertificate \/ ClientStatus \/ ClientKeyExchange \/ ClientCertRequest
           \/ ClientTicket
    PROVE  ClientKeeps
  <1> DEFINE h == hs["client"]
             g == hs'["client"]
             m == Msg("client")
  <1>1. Frame
    BY DEF IInv
  <1>2. ASSUME NEW F, NEW w, Heard("client", m, F, w), pc["client"] # "ended",
               F \cap {"sess", "didResume", "suite", "in"} = {}, w # "ended",
               CertOk(g.cert), TicketOk(g.ticket), FreeServer => Sincere(g, w)
        PROVE  ClientKeeps
    <2>1. Moved("client", {}) /\ Goes("client", g, w) /\ cache' = cache /\ Noted(h, g, m, F)
      BY <1>2 DEF Heard
    <2>2. g.sess = h.sess
      BY <1>2, <2>1, BlankFields DEF Noted, Like
    <2> QED
      BY <1>2, <2>1, <2>2, ClientBefore, ClientGoes
  <1>3. CASE Moved("client", {}) /\ Failed("client")
    BY <1>3, ClientFails
  <1>4. CASE /\ Reads("client", {"cert"}, "certificate")
             /\ Heard("client", m, {"peer"}, "status") /\ g.peer = m.cert
    <2>1. pc["client"] = "cert"
      BY <1>4, ClientRead
    <2>2. /\ g.cert = h.cert /\ g.ticket = h.ticket /\ g.sess = h.sess /\ g.share = h.share
          /\ g.didResume = h.didResume
      BY <1>4, BlankFields DEF Heard, Noted, Like
    <2>3. FreeServer => Sincere(g, "status")
      BY <2>1, <2>2, ClientBefore DEF Sincere
    <2> QED
      BY <1>2, <1>4, <2>1, <2>2, <2>3, ClientBefore
  <1>5. CASE /\ Reads("client", {"status"}, "certificateStatus")
             /\ Heard("client", m, {}, "verify")
    <2>1. pc["client"] = "status"
      BY <1>5, ClientRead
    <2>2. /\ g.cert = h.cert /\ g.ticket = h.ticket /\ g.sess = h.sess /\ g.share = h.share
          /\ g.didResume = h.didResume /\ g.peer = h.peer
      BY <1>5, BlankFields DEF Heard, Noted, Like
    <2>3. FreeServer => Sincere(g, "verify")
      BY <2>2, ClientBefore DEF Sincere
    <2> QED
      BY <1>2, <1>5, <2>1, <2>2, <2>3, ClientBefore
  <1>6. CASE /\ Reads("client", {"status", "verify"}, "serverKeyExchange")
             /\ Heard("client", m, {"share"}, "certReq") /\ KeyExchangeOk(h, m)
    <2>1. /\ pc["client"] # "ended"
          /\ FreeServer => m.sig \in Proofs(h.peer.id \in Owned)
      BY <1>6, ClientRead
    <2>2. /\ g.cert = h.cert /\ g.ticket = h.ticket /\ g.sess = h.sess
          /\ g.didResume = h.didResume /\ g.peer = h.peer
      BY <1>6, BlankFields DEF Heard, Noted, Like
    <2>3. FreeServer => h.peer.id \in Owned
      <3>1. PICK x1, x2, x3, x4 : Proves(m.sig, <<"signature", x1, x2, x3, x4>>)
        BY <1>6 DEF KeyExchangeOk
      <3>2. <<"signature", x1, x2, x3, x4>> # <<"bad">> /\ <<"bad">> # <<"match">>
        OBVIOUS
      <3> QED
        BY <2>1, <3>1, <3>2 DEF Proves, Proofs
    <2>4. FreeServer => Sincere(g, "certReq")
      BY <2>2, <2>3, ClientBefore DEF Sincere
    <2> QED
      BY <1>2, <1>6, <2>1, <2>2, <2>4, ClientBefore
  <1>7. CASE /\ Reads("client", {"status", "verify", "certReq"}, "certificateRequest")
             /\ Heard("client", m, {"asked", "cert"}, "helloDone")
             /\ g.cert = getClientCertificate(cfg["client"], h.vers, m)
    <2>1. pc["client"] # "ended"
      BY <1>7, ClientRead
    <2>2. /\ g.ticket = h.ticket /\ g.sess = h.sess /\ g.share = h.share
          /\ g.didResume = h.didResume /\ g.peer = h.peer
      BY <1>7, BlankFields DEF Heard, Noted, Like
    <2>3. FreeServer => Sincere(g, "helloDone")
      BY <2>2, ClientBefore DEF Sincere
    <2>4. CertOk(g.cert)
      BY <1>1, <1>7, OwnCertificate DEF Frame
    <2> QED
      BY <1>2, <1>7, <2>1, <2>2, <2>3, <2>4, ClientBefore
  <1>8. CASE /\ Reads("client", {"ticket"}, "newSessionTicket")
             /\ Heard("client", m, {"ticket"}, "ccs") /\ g.ticket = m.ticket
    <2>1. pc["client"] = "ticket" /\ TicketOk(m.ticket)
      BY <1>8, ClientRead
    <2>2. /\ g.cert = h.cert /\ g.sess = h.sess /\ g.share = h.share
          /\ g.didResume = h.didResume /\ g.peer = h.peer /\ g.suite = h.suite
      BY <1>8, BlankFields DEF Heard, Noted, Like
    <2>3. FreeServer => Sincere(g, "ccs")
      BY <2>1, <2>2, ClientBefore DEF Sincere
    <2> QED
      BY <1>2, <1>8, <2>1, <2>2, <2>3, ClientBefore
  <1> QED
    BY <1>1, <1>3, <1>4, <1>5, <1>6, <1>7, <1>8, ClientReadsEffect

\* An ECDHE suite without a share goes no further than ServerHelloDone.
LEMMA ClientHelloDoneStep ==
    ASSUME IInv, "client" \notin Free, ClientHelloDone
    PROVE  ClientKeeps
  <1> DEFINE h == hs["client"]
             g == hs'["client"]
             w == IF h.serverHello.tickets THEN "ticket" ELSE "ccs"
             W == {"status", "verify", "certReq", "helloDone"}
  <1>1. /\ Reads("client", W, "serverHelloDone")
        /\ \E M : SecondFlight(h, M) /\ Moved("client", M)
        /\ \/ Failed("client")
           \/ /\ Goes("client", g, w) /\ cache' = cache /\ ClientCanExchange(h)
              /\ Like(h, g, {"tr", "verified", "secret", "inNext", "out", "outNext"})
    BY HelloDoneEffect DEF IInv
  <1>2. PICK M : Moved("client", M) /\ \A x \in M : FromClient(x)
    <2>1. PICK M : SecondFlight(h, M) /\ Moved("client", M)
      BY <1>1
    <2>2. \A x \in M : FromClient(x)
      BY <2>1, ClientBefore DEF SecondFlight, FromClient
    <2> QED
      BY <2>1, <2>2
  <1>3. pc["client"] # "ended"
    BY <1>1, ClientRead
  <1>4. CASE Failed("client")
    BY <1>2, <1>4, ClientFails
  <1>5. CASE /\ Goes("client", g, w) /\ cache' = cache /\ ClientCanExchange(h)
             /\ Like(h, g, {"tr", "verified", "secret", "inNext", "out", "outNext"})
    <2>1. /\ g.cert = h.cert /\ g.ticket = h.ticket /\ g.sess = h.sess /\ g.share = h.share
          /\ g.peer = h.peer /\ g.didResume = h.didResume /\ g.suite = h.suite
      BY <1>5, BlankFields DEF Like
    <2>2. w \in {"ticket", "ccs"}
      OBVIOUS
    <2> HIDE DEF w
    <2>3. FreeServer => Sincere(g, w)
      BY <1>5, <2>1, <2>2, ClientBefore DEF Sincere, ClientCanExchange, NoShare
    <2> QED
      BY <1>2, <1>3, <1>5, <2>1, <2>2, <2>3, ClientBefore, ClientGoes
  <1> QED
    BY <1>1, <1>4, <1>5

\* A Free server's good Finished: by the share, the session, or the decrypted secret.
LEMMA ClientFinishedStep ==
    ASSUME IInv, "client" \notin Free, ClientFinished
    PROVE  ClientKeeps
  <1> DEFINE h == hs["client"]
             g == hs'["client"]
             m == Msg("client")
  <1>1. /\ Reads("client", {"finished"}, "finished")
        /\ \/ Moved("client", {}) /\ Failed("client")
           \/ /\ Goes("client", g, "ended")
              /\ Proves(m.verify, VerifyData("server", h))
              /\ \/ cache' = cache
                 \/ \E b : cache' = [ticket |-> h.ticket, session |-> SessionState(h, day, b)]
              /\ \/ Moved("client", {}) /\ Noted(h, g, m, {})
                 \/ Completes("client", h, g, m, <<>>)
    BY ClientFinishedEffect DEF IInv
  <1>2. /\ pc["client"] = "finished"
        /\ FreeServer => m.verify \in Proofs(Knows("client"))
    BY <1>1, ClientRead
  <1>3. CASE Moved("client", {}) /\ Failed("client")
    BY <1>3, ClientFails
  <1>4. ASSUME Goes("client", g, "ended"), Proves(m.verify, VerifyData("server", h)),
               \/ cache' = cache
               \/ \E b : cache' = [ticket |-> h.ticket, session |-> SessionState(h, day, b)],
               \/ Moved("client", {}) /\ Noted(h, g, m, {})
               \/ Completes("client", h, g, m, <<>>)
        PROVE  ClientKeeps
    <2>1. PICK M : Moved("client", M) /\ \A x \in M : x.t = "finished"
      BY <1>4, TupleFacts DEF Completes
    <2>2. \A x \in M : FromClient(x)
      BY <2>1 DEF FromClient
    <2>3. /\ g.cert = h.cert /\ g.ticket = h.ticket /\ g.sess = h.sess /\ g.share = h.share
          /\ g.peer = h.peer /\ g.didResume = h.didResume /\ g.suite = h.suite
      BY <1>4, BlankFields DEF Completes, Noted, Like
    <2>4. FreeServer => Bears(h.peer)
      <3>1. VerifyData("server", h) # <<"bad">> /\ <<"bad">> # <<"match">>
        BY DEF VerifyData
      <3>2. FreeServer => Knows("client")
        BY <1>2, <1>4, <3>1 DEF Proves, Proofs
      <3>3. FreeServer => h.in # NoKey /\ (h.suite \in suiteECDHE => Bears(h.peer))
        BY <1>2, ClientBefore DEF Sincere, Bears
      <3> QED
        BY <3>2, <3>3 DEF Knows, Bears
    <2>5. FreeServer => Sincere(g, "ended")
      BY <2>3, ClientBefore DEF Sincere
    <2>6. /\ TicketOk(cache'.ticket)
          /\ FreeServer => (cache'.session # NoSession => Bears(cache'.session.peer))
      <3>1. CASE cache' = cache
        BY <3>1, ClientBefore
      <3>2. ASSUME NEW b, cache' = [ticket |-> h.ticket, session |-> SessionState(h, day, b)]
            PROVE  cache'.ticket = h.ticket /\ cache'.session.peer = h.peer
        BY <3>2 DEF SessionState
      <3> QED
        BY <1>4, <2>4, <3>1, <3>2, ClientBefore
    <2> HIDE DEF g
    <2> QED
      BY <1>2, <1>4, <2>1, <2>2, <2>3, <2>4, <2>5, <2>6, ClientBefore, ClientGoes
  <1> QED
    BY <1>1, <1>3, <1>4

\* Every step of the client preserves the invariant.
LEMMA ClientStepInv ==
    ASSUME IInv, "client" \notin Free, Step("client")
    PROVE  IInv'
  <1>1. RecordStep("client") \/ ClientStep
    BY DEF Step
  <1>2. ASSUME ClientCannotStart PROVE ClientKeeps
    <2>1. Moved("client", {}) /\ Failed("client")
      BY <1>2, CannotStartEffect DEF IInv
    <2> QED
      BY <2>1, ClientFails
  <1>3. ClientKeeps
    BY <1>1, <1>2, ClientRecordStep, ClientStartStep, ClientServerHelloStep, ClientReadsStep,
       ClientHelloDoneStep, ClientFinishedStep DEF ClientStep
  <1> QED
    BY <1>3, ClientKeepsInv

--------------------------------------------------------------------------------
(* The initial states and the steps of the environment *)

\* All sides blank and nothing on the wires, as before and after Connect.
Fresh ==
    /\ n \in Nat /\ cfg \in AllSetups
    /\ hs = [s \in Sides |-> Blank] /\ wire = [s \in Sides |-> <<>>]
    /\ end = [s \in Sides |-> "none"] /\ DOMAIN pc = Sides
    /\ \A s \in Sides : s \in Free => pc[s] \in {"free", "ended"}
    /\ pc["server"] \in {"free", "ended", "hello"}
    /\ pc["client"] \in {"free", "ended", "start"}
    /\ TicketOk(cache.ticket)
    /\ FreeServer => (cache.session # NoSession => Bears(cache.session.peer))

\* A fresh connection satisfies the invariant.
LEMMA FreshInv == Fresh => IInv
  <1> SUFFICES ASSUME Fresh PROVE IInv
    OBVIOUS
  <1>1. /\ hs["client"] = Blank /\ hs["server"] = Blank
        /\ wire["client"] = <<>> /\ wire["server"] = <<>>
        /\ end["client"] = "none" /\ end["server"] = "none"
    BY DEF Fresh, Sides
  <1>2. IsSeq(<<>>) /\ Elems(<<>>) = {} /\ Len(<<>>) = 0
    BY TupleFacts
  <1>3. Frame
    BY <1>2, BlankValues DEF Fresh, Frame
  <1>4. InFlight /\ ClientSigns /\ ServerSigns
    BY <1>1, <1>2 DEF InFlight, ClientSigns, ServerSigns
  <1>5. Ledger
    BY <1>1, <1>2, BlankValues DEF Ledger, TicketsOk
  <1>6. Held /\ Trusting
    BY <1>1, BlankValues DEF Fresh, Held, Trusting, CertOk, TicketOk
  <1>7. ~Agreed /\ ~Shown /\ ~Proved
    BY <1>1 DEF Fresh, Agreed, Shown, Proved, Done
  <1>8. Hooked /\ Earned
    BY <1>7 DEF Hooked, Earned
  <1>9. Sincere(Blank, pc["client"])
    BY BlankValues DEF Sincere, Fresh
  <1>10. Vouched
    BY <1>1, <1>9 DEF Vouched, Done, Fresh
  <1> QED
    BY <1>3, <1>4, <1>5, <1>6, <1>8, <1>10 DEF IInv

\* The initial states are fresh.
LEMMA InitFresh == Init => Fresh
  <1> SUFFICES ASSUME Init PROVE Fresh
    OBVIOUS
  <1>1. cfg \in Setups[1]
    <2>1. \A v \in Setups[1] :
             (CHOOSE u \in Setups[1] : u.free = v.free) \in Setups[1]
      OBVIOUS
    <2> QED
      BY <2>1 DEF Init
  <1>2. cfg \in AllSetups
    <2>1. 1 \in 1 .. MaxConns
      BY SetupFacts
    <2> QED
      BY <1>1, <2>1, SetupFacts
  <1>3. TicketOk(cache.ticket) /\ cache.session = NoSession
    BY EmptyEntry DEF Init, TicketOk
  <1> QED
    BY <1>2, <1>3 DEF Init, Fresh, Sides

\* So they satisfy the invariant.
LEMMA InitInv == Init => IInv
  BY InitFresh, FreshInv

\* A new connection starts from what the last one has left in the cache.
LEMMA ConnectFresh == ASSUME IInv, Connect PROVE Fresh' /\ Free' = Free /\ cache' = cache
  <1>1. n \in Nat /\ cfg' \in AllSetups /\ Free' = Free
    <2>1. n + 1 \in 1 .. MaxConns
      BY SetupFacts DEF IInv, Frame, Connect, More
    <2>2. cfg' \in Setups[n + 1] /\ cfg'.free = cfg.free
      BY DEF Connect, SameKind, Free
    <2> QED
      BY <2>1, <2>2, SetupFacts DEF IInv, Frame, Free
  <1>2. TicketOk(cache.ticket)' /\ cache' = cache /\ FreeServer' = FreeServer
    BY <1>1 DEF IInv, Held, TicketOk, Bears, Connect, FreeServer
  <1>3. FreeServer => (cache.session # NoSession => Bears(cache.session.peer))
    BY DEF IInv, Vouched
  <1>4. Fresh'
    BY <1>1, <1>2, <1>3 DEF Fresh, Connect, Sides, Bears
  <1> QED
    BY <1>1, <1>2, <1>4

\* So it satisfies the invariant.
LEMMA ConnectInv == ASSUME IInv, Connect PROVE IInv'
  <1>1. Fresh'
    BY ConnectFresh
  <1> QED
    BY <1>1, FreshInv, PTL

\* A Free side leaves, the network breaks, or time passes.
LEMMA QuietInv ==
    ASSUME IInv, UNCHANGED <<n, cfg, hs, end, cache>>, DOMAIN wire' = Sides,
           DOMAIN pc' = Sides,
           \A s \in Sides : wire'[s] = wire[s] \/ wire'[s] = <<>>,
           \A s \in Sides : pc'[s] = pc[s] \/ (s \in Free /\ pc'[s] = "ended")
    PROVE  IInv'
  <1>1. /\ Free' = Free /\ FreeClient' = FreeClient /\ FreeServer' = FreeServer
        /\ \A t : TicketOk(t)' = TicketOk(t)
        /\ \A m : FromClient(m)' = FromClient(m)
        /\ \A M : TicketsOk(M)' = TicketsOk(M)
    BY SameSetup
  <1>2. IsSeq(<<>>) /\ Elems(<<>>) = {} /\ Len(<<>>) = 0
    BY TupleFacts
  <1>3. "client" \in Sides /\ "server" \in Sides
    BY DEF Sides
  <1>4. Frame'
    <2>1. \A s \in Sides : IsSeq(wire'[s])
      BY <1>2 DEF IInv, Frame
    <2>2. \A s \in Sides : end'[s] = "done" => pc'[s] = "ended"
      BY DEF IInv, Frame
    <2>3. \A s \in Sides : s \in Free => pc'[s] \in {"free", "ended"}
      BY DEF IInv, Frame
    <2> QED
      BY <1>1, <2>1, <2>2, <2>3 DEF IInv, Frame
  <1>5. InFlight'
    BY <1>1, <1>2, <1>3 DEF IInv, InFlight
  <1>6. Ledger' /\ Held' /\ Trusting'
    BY <1>1 DEF IInv, Ledger, Held, Trusting, CertOk
  <1>7. (Agreed' => Agreed) /\ (Shown' => Shown) /\ (Proved' => Proved)
    BY <1>3 DEF Agreed, Shown, Proved, Done
  <1>8. Hooked' /\ Earned'
    BY <1>1, <1>7 DEF IInv, Hooked, Earned, Consented, Bears
  <1>9. ClientSigns'
    BY <1>1, <1>2, <1>3 DEF IInv, ClientSigns
  <1>10. Knows("client")' = Knows("client")
    BY DEF Knows
  <1>11. ServerSigns'
    BY <1>1, <1>2, <1>3, <1>10 DEF IInv, ServerSigns
  <1>12. FreeServer => pc'["client"] = pc["client"]
    BY <1>3 DEF FreeServer
  <1>13. Vouched'
    BY <1>1, <1>12 DEF IInv, Vouched, Sincere, Done, Bears
  <1> QED
    BY <1>4, <1>5, <1>6, <1>8, <1>9, <1>11, <1>13 DEF IInv


\* A Free client keeps only tickets that the server has made.
LEMMA FreeKeepsTicketInv == ASSUME IInv, FreeKeepsTicket PROVE IInv'
  <1>1. PICK m \in Elems(hs["server"].tr) :
           m.t = "newSessionTicket" /\ cache' = [ticket |-> m.ticket, session |-> NoSession]
    BY DEF FreeKeepsTicket
  <1>2. UNCHANGED <<n, cfg, pc, hs, wire, end>> /\ "client" \in Free
    BY DEF FreeKeepsTicket
  <1>3. /\ Free' = Free /\ FreeClient' = FreeClient /\ ~FreeServer' /\ ~FreeServer
        /\ \A t : TicketOk(t)' = TicketOk(t)
        /\ \A x : FromClient(x)' = FromClient(x)
        /\ \A M : TicketsOk(M)' = TicketsOk(M)
    BY <1>2, SameSetup DEF FreeServer
  <1>4. cache'.ticket = m.ticket /\ TicketOk(m.ticket)
    BY <1>1 DEF IInv, Ledger, TicketsOk
  <1>5. Frame'
    BY <1>2, <1>3 DEF IInv, Frame
  <1>6. InFlight' /\ Ledger' /\ Trusting'
    BY <1>2, <1>3 DEF IInv, InFlight, Ledger, Trusting
  <1>7. Held'
    BY <1>2, <1>3, <1>4 DEF IInv, Held, CertOk
  <1>8. Hooked' /\ Earned'
    BY <1>2, <1>3 DEF IInv, Hooked, Earned, Agreed, Shown, Proved, Done, Consented, Bears
  <1>9. ClientSigns'
    BY <1>2, <1>3 DEF IInv, ClientSigns
  <1>10. ServerSigns' /\ Vouched'
    BY <1>3 DEF ServerSigns, Vouched
  <1> QED
    BY <1>5, <1>6, <1>7, <1>8, <1>9, <1>10 DEF IInv

--------------------------------------------------------------------------------
(* What a Free side can send *)

\* The certificates are ones of the configurations.
LEMMA FreeCertsOk == ASSUME NEW p \in Sides, NEW c \in FreeCerts(p) PROVE CertOk(c)
  <1>1. CASE c = NoCert
    BY <1>1 DEF CertOk
  <1>2. CASE c # NoCert
    <2>1. PICK u \in SameKind(AllSetups) : c \in Elems(u[Peer(p)].certs)
      BY <1>2 DEF FreeCerts
    <2>2. u \in SetupType /\ Peer(p) \in {"client", "server"}
      BY <2>1, SetupFacts DEF SameKind, Peer
    <2>3. u[Peer(p)] \in ConfigType
      BY <2>2 DEF SetupType
    <2>4. u[Peer(p)].certs \in Seq(CertType)
      BY <2>3 DEF ConfigType
    <2> QED
      BY <2>1, <2>4 DEF Elems, CertOk
  <1> QED
    BY <1>1, <1>2

\* Its hellos carry the ticket it keeps, or none.
LEMMA FreeHellosOk ==
    ASSUME TicketOk(cache.ticket), NEW m \in FreeHellos
    PROVE  m.t = "clientHello" /\ IsSeq(m.versions) /\ TicketOk(m.ticket)
  <1> DEFINE k(c) == ClientHelloMsg(c, cache.ticket)
             Forms(c) == {k(c), [k(c) EXCEPT !.ticket = NoTicket], [k(c) EXCEPT !.ems = FALSE],
                          [k(c) EXCEPT !.plain = FALSE],
                          [k(c) EXCEPT !.versions = <<>>, !.vers = 11],
                          [k(c) EXCEPT !.suites = Append(@, "SCSV"), !.vers = 11,
                                       !.versions = <<11>>],
                          [k(c) EXCEPT !.points = "other"], [k(c) EXCEPT !.sigAlgs = {"rsa"}]}
  <1>1. FreeHellos = UNION {Forms(c) : c \in {u.client : u \in SameKind(AllSetups)}}
    BY Zenon DEF FreeHellos
  <1> HIDE DEF Forms
  <1>2. PICK c : m \in Forms(c)
    BY <1>1
  <1> USE DEF Forms
  <1>3. IsSeq(<<>>) /\ IsSeq(<<11>>) /\ IsSeq(supportedVersions(c))
    BY TupleFacts, NewestFacts DEF supportedVersions
  <1>4. TicketOk(NoTicket)
    BY DEF TicketOk
  <1>5. /\ k(c).t = "clientHello" /\ k(c).versions = supportedVersions(c)
        /\ k(c).ticket = cache.ticket
        /\ {"ticket", "versions", "t"} \subseteq DOMAIN k(c)
    BY DEF ClientHelloMsg
  <1> HIDE DEF k
  <1>6. m.t = "clientHello" /\ m.versions \in {k(c).versions, <<>>, <<11>>}
        /\ m.ticket \in {cache.ticket, NoTicket}
    BY <1>2, <1>5
  <1> QED
    BY <1>3, <1>4, <1>5, <1>6

\* To a server: a hello, a certificate, and signatures with the keys it has.
LEMMA FreeToServer ==
    ASSUME TicketOk(cache.ticket), NEW m \in FreeMessages("server")
    PROVE  /\ FromClient(m)
           /\ m.t = "certificateVerify" => m.sig \in Proofs(hs["server"].peer.id \in Owned)
  <1>1. \/ \E c \in FreeCerts("server") : m = [t |-> "certificate", cert |-> c]
        \/ \E v : m = [t |-> "finished", verify |-> v]
        \/ m \in FreeHellos
        \/ \E b : m = [t |-> "clientKeyExchange", share |-> <<"client", n>>, valid |-> b]
        \/ \E v \in Proofs(hs["server"].peer.id \in Owned) :
              m = [t |-> "certificateVerify", sig |-> v]
    BY DEF FreeMessages
  <1>2. CASE \E c \in FreeCerts("server") : m = [t |-> "certificate", cert |-> c]
    BY <1>2, FreeCertsOk DEF FromClient, Sides
  <1>3. CASE m \in FreeHellos
    BY <1>3, FreeHellosOk DEF FromClient
  <1> QED
    BY <1>1, <1>2, <1>3 DEF FromClient

\* To a client: signatures and Finished values with the keys it has.
LEMMA FreeToClient ==
    ASSUME NEW m \in FreeMessages("client")
    PROVE  /\ m.t = "serverKeyExchange" =>
                 m.sig \in Proofs(hs["client"].peer.id \in Owned)
           /\ m.t = "finished" => m.verify \in Proofs(Knows("client"))
  <1>1. \/ \E c : m = [t |-> "certificate", cert |-> c]
        \/ \E v \in Proofs(Knows("client")) : m = [t |-> "finished", verify |-> v]
        \/ m \in FreeServerHellos
        \/ \E v \in Proofs(hs["client"].peer.id \in Owned) :
              m = [t |-> "serverKeyExchange", curve |-> "P256",
                   share |-> <<"server", n, "P256">>, sig |-> v]
        \/ \E a, b : m = [t |-> "certificateRequest", cas |-> a, sigAlgs |-> b]
        \/ \E x \in {"certificateStatus", "serverHelloDone"} : m = [t |-> x]
        \/ \E k : m = [t |-> "newSessionTicket", ticket |-> k]
    BY DEF FreeMessages
  <1>2. CASE m \in FreeServerHellos
    <2>1. m.t = "serverHello"
      BY <1>2, Zenon DEF FreeServerHellos
    <2> QED
      BY <2>1
  <1> QED
    BY <1>1, <1>2

\* What is left to show of a step that only puts one record on a wire.
LEMMA FreeSendsInv ==
    ASSUME IInv, NEW s \in Free, FreeSends(s)
    PROVE  IInv'
  <1> DEFINE p == Peer(s)
  <1>1. s \in Sides /\ p \in Sides /\ p # s /\ Peer(p) = s
    BY SetupFacts DEF IInv, Frame, Free, SetupType, Sides, Peer
  <1>2. /\ UNCHANGED <<n, cfg, pc, hs, end, cache>>
        /\ \E r : /\ wire' = [wire EXCEPT ![p] = <<r>>]
                  /\ r.typ = "handshake" => r.m \in FreeMessages(p)
    <2>1. UNCHANGED <<n, cfg, pc, hs, end, cache>>
      BY DEF FreeSends
    <2>2. PICK k : \/ \E m \in FreeMessages(p) :
                         wire' = [wire EXCEPT ![p] = <<Rec("handshake", k, m)>>]
                   \/ \E y \in {"ccs", "alert", "warning"} :
                         wire' = [wire EXCEPT ![p] = <<Rec(y, k, NoMsg)>>]
      BY DEF FreeSends
    <2>3. CASE \E m \in FreeMessages(p) :
                  wire' = [wire EXCEPT ![p] = <<Rec("handshake", k, m)>>]
      <3>1. PICK m \in FreeMessages(p) :
               wire' = [wire EXCEPT ![p] = <<Rec("handshake", k, m)>>]
        BY <2>3
      <3>2. Rec("handshake", k, m).m = m
        BY DEF Rec
      <3> HIDE DEF p
      <3> QED
        BY <2>1, <3>1, <3>2
    <2>4. CASE \E y \in {"ccs", "alert", "warning"} :
                  wire' = [wire EXCEPT ![p] = <<Rec(y, k, NoMsg)>>]
      <3>1. PICK y \in {"ccs", "alert", "warning"} :
               wire' = [wire EXCEPT ![p] = <<Rec(y, k, NoMsg)>>]
        BY <2>4
      <3>2. Rec(y, k, NoMsg).typ # "handshake"
        BY DEF Rec
      <3> HIDE DEF p
      <3> QED
        BY <2>1, <3>1, <3>2
    <2> QED
      BY <2>2, <2>3, <2>4
  <1>3. PICK r : /\ wire' = [wire EXCEPT ![p] = <<r>>]
                 /\ r.typ = "handshake" => r.m \in FreeMessages(p)
    BY <1>2
  <1>4. /\ IsSeq(<<r>>) /\ Elems(<<r>>) = {r} /\ Len(<<r>>) = 1
    BY TupleFacts DEF Elems
  <1>5. DOMAIN wire' = Sides /\ wire'[p] = <<r>> /\ wire'[s] = wire[s]
    BY <1>1, <1>3 DEF IInv, Frame
  <1>6. /\ Free' = Free /\ FreeClient' = FreeClient /\ FreeServer' = FreeServer
        /\ \A t : TicketOk(t)' = TicketOk(t)
        /\ \A x : FromClient(x)' = FromClient(x)
        /\ \A M : TicketsOk(M)' = TicketsOk(M)
    BY <1>2, SameSetup
  <1>7. Frame'
    <2>1. \A x \in Sides : IsSeq(wire'[x])
      BY <1>1, <1>4, <1>5 DEF IInv, Frame, Sides
    <2> QED
      BY <1>2, <1>5, <1>6, <2>1 DEF IInv, Frame
  <1>8. ASSUME s = "client" PROVE InFlight' /\ ClientSigns' /\ ServerSigns'
    <2>1. p = "server" /\ "client" \in Free
      BY <1>8 DEF Peer
    <2>2. r.typ = "handshake" =>
             /\ FromClient(r.m)
             /\ r.m.t = "certificateVerify" =>
                   r.m.sig \in Proofs(hs["server"].peer.id \in Owned)
      BY <1>3, <2>1, FreeToServer DEF IInv, Held
    <2>3. InFlight'
      BY <1>4, <1>5, <1>6, <1>8, <2>1, <2>2 DEF IInv, InFlight
    <2>4. ClientSigns'
      BY <1>2, <1>4, <1>5, <1>6, <2>1, <2>2 DEF ClientSigns
    <2>5. ServerSigns'
      BY <1>6, <2>1 DEF ServerSigns, FreeServer
    <2> QED
      BY <2>3, <2>4, <2>5
  <1>9. ASSUME s = "server" PROVE InFlight' /\ ClientSigns' /\ ServerSigns'
    <2>1. p = "client" /\ "server" \in Free
      BY <1>9 DEF Peer
    <2>2. r.typ = "handshake" =>
             /\ r.m.t = "serverKeyExchange" =>
                   r.m.sig \in Proofs(hs["client"].peer.id \in Owned)
             /\ r.m.t = "finished" => r.m.verify \in Proofs(Knows("client"))
      BY <1>3, <2>1, FreeToClient
    <2>3. InFlight'
      BY <1>5, <1>6, <1>9, <2>1 DEF IInv, InFlight, TicketOk
    <2>4. Knows("client")' = Knows("client")
      BY <1>2 DEF Knows
    <2>5. ServerSigns'
      <3>1. /\ Elems(wire'["client"]) = {r} /\ Len(wire'["client"]) = 1
            /\ hs' = hs
        BY <1>2, <1>4, <1>5, <2>1
      <3> QED
        BY <2>2, <2>4, <3>1 DEF ServerSigns
    <2>6. ClientSigns'
      BY <1>6, <2>1 DEF ClientSigns, FreeClient
    <2> QED
      BY <2>3, <2>5, <2>6
  <1>10. InFlight' /\ ClientSigns' /\ ServerSigns'
    BY <1>1, <1>8, <1>9 DEF Sides
  <1>11. Ledger' /\ Held' /\ Trusting'
    BY <1>2, <1>6 DEF IInv, Ledger, Held, Trusting, CertOk
  <1>12. Hooked' /\ Earned'
    BY <1>2, <1>6 DEF IInv, Hooked, Earned, Agreed, Shown, Proved, Done, Consented, Bears
  <1>13. Vouched'
    BY <1>2, <1>6 DEF IInv, Vouched, Sincere, Done, Bears
  <1> QED
    BY <1>7, <1>10, <1>11, <1>12, <1>13 DEF IInv


--------------------------------------------------------------------------------
(* The theorems *)

\* Every step preserves the invariant.
LEMMA NextInv == ASSUME IInv, [Next]_vars PROVE IInv'
  <1>1. Frame /\ DOMAIN wire = Sides /\ DOMAIN pc = Sides
    BY DEF IInv, Frame
  <1>2. ASSUME NEW s \in Sides, s \notin Free, Step(s) PROVE IInv'
    BY <1>2, ServerStepInv, ClientStepInv DEF Sides
  <1>3. ASSUME NEW s \in Free, FreeCloses(s) PROVE IInv'
    <2>1. /\ DOMAIN wire' = Sides /\ DOMAIN pc' = Sides
          /\ \A x \in Sides : wire'[x] = wire[x] \/ wire'[x] = <<>>
          /\ \A x \in Sides : pc'[x] = pc[x] \/ (x \in Free /\ pc'[x] = "ended")
      BY <1>1, <1>3 DEF FreeCloses
    <2> QED
      BY <1>3, <2>1, QuietInv DEF FreeCloses
  <1>4. CASE Cut
    <2>1. /\ DOMAIN wire' = Sides /\ DOMAIN pc' = Sides
          /\ \A x \in Sides : wire'[x] = wire[x] \/ wire'[x] = <<>>
          /\ \A x \in Sides : pc'[x] = pc[x] \/ (x \in Free /\ pc'[x] = "ended")
      BY <1>1, <1>4 DEF Cut
    <2> QED
      BY <1>4, <2>1, QuietInv DEF Cut
  <1>5. CASE NextDay
    BY <1>1, <1>5, QuietInv DEF NextDay
  <1>6. CASE UNCHANGED vars
    BY <1>1, <1>6, QuietInv DEF vars
  <1> QED
    BY <1>2, <1>3, <1>4, <1>5, <1>6, FreeKeepsTicketInv, FreeSendsInv, ConnectInv
    DEF Next, Over

\* The inductive invariant holds in every reachable state.
THEOREM Invariant == Spec => []IInv
  <1>1. IInv /\ [Next]_vars => IInv'
    BY NextInv
  <1> QED
    BY InitInv, <1>1, PTL DEF Spec

\* No path leads a server with the CCM hook around VerifyPeerCertificate: whatever
\* the client and the network do, a handshake that it completes is a full one, of
\* TLS 1.2 and CCM_8, with a certificate the hook has let through (ccmserver.go,
\* handshake_server.go).
THEOREM CompletedPeerIsVerified == Spec => []CCMPeerVerified
  <1>1. IInv => CCMPeerVerified
    BY DEF IInv, Hooked, Agreed, Shown, Done, Consented, CCMPeerVerified
  <1> QED
    BY Invariant, <1>1, PTL

\* A side that completes against a peer that sends any record at any time has a
\* certificate whose key that peer has: its signature or its Finished was checked,
\* in this connection or in the one the session comes from (handshake_server.go,
\* processCertsFromClient and doFullHandshake; key_agreement.go).
THEOREM CompletedPeerHasKey == Spec => []PeerHoldsItsKey
  <1>1. IInv => PeerHoldsItsKey
    <2> SUFFICES ASSUME IInv, NEW s \in Sides, Done(s), Peer(s) \in Free, hs[s].peer # NoCert
                 PROVE  hs[s].peer.id \in Owned
      BY DEF PeerHoldsItsKey
    <2>1. s \notin Free
      BY DEF IInv, Frame, Done
    <2>2. CASE s = "server"
      BY <2>1, <2>2 DEF IInv, Earned, FreeClient, Proved, Bears, Peer
    <2>3. CASE s = "client"
      BY <2>1, <2>3 DEF IInv, Vouched, FreeServer, Bears, Peer
    <2> QED
      BY <2>2, <2>3 DEF Sides
  <1> QED
    BY Invariant, <1>1, PTL


\* A side that reads on without a change of didResume.
LEMMA LikeResume ==
    ASSUME NEW h, NEW g, NEW F, Like(h, g, F), "didResume" \notin F
    PROVE  g.didResume = h.didResume
  BY BlankFields DEF Like

\* The server resumes only by ServerResumes, from a ticket of its own.
LEMMA ServerResumption ==
    ASSUME IInv, "server" \notin Free, Step("server")
    PROVE  /\ hs'["client"] = hs["client"]
           /\ LET h == hs["server"]
                  g == hs'["server"]
              IN ~h.didResume /\ g.didResume =>
                    /\ day - g.sess.born <= Lifetime
                    /\ IF g.peer = NoCert THEN cfg["server"].auth \notin {2, 4}
                       ELSE /\ day <= g.peer.notAfter /\ cfg["server"].auth # 0
                            /\ cfg["server"].auth >= 3 => g.verified
  <1> DEFINE h == hs["server"]
             g == hs'["server"]
             m == Msg("server")
             Same == g.didResume = h.didResume \/ g.didResume = FALSE
             Quiet == \E M : Moved("server", M)
  <1>1. Frame /\ "server" \in Sides /\ DOMAIN h = DOMAIN Blank
    BY DEF IInv, Frame, Sides
  <1>2. Quiet => hs'["client"] = hs["client"]
    BY DEF Moved, Others, Peer
  <1>3. Failed("server") => Same
    BY DEF Failed
  <1>4. \A w : Goes("server", h, w) => Same
    BY DEF Goes
  <1>5. \A x, F : Noted(h, g, x, F) /\ "didResume" \notin F => Same
    BY LikeResume DEF Noted
  <1>6. \A x, p : Completes("server", h, g, x, p) => Same /\ Quiet
    BY LikeResume DEF Completes
  <1>7. CASE RecordStep("server")
    <2>1. (\E w : Goes("server", Switched(h), w)) => Same
      BY <1>1, BlankFields DEF Goes, Switched
    <2>2. Same /\ Quiet
      BY <1>1, <1>3, <1>4, <1>7, <2>1, RecordEffect
    <2> QED
      BY <1>2, <2>2
  <1>8. CASE ServerRefusesHello
    <2>1. Moved("server", {}) /\ Failed("server")
      BY <1>1, <1>8, HelloRefusal DEF ServerRefusesHello
    <2> QED
      BY <1>2, <1>3, <2>1
  <1>9. CASE ServerFull
    <2>1. Begun(cfg["server"], m, g) => Same
      BY DEF Begun
    <2>2. Same /\ Quiet
      BY <1>1, <1>3, <1>9, <2>1, FullEffect
    <2> QED
      BY <1>2, <2>2
  <1>10. CASE ServerCertificate \/ ServerKeyExchange \/ ServerCertVerify
    <2>1. Same /\ Quiet
      BY <1>1, <1>3, <1>5, <1>10, CertificateEffect, KeyExchangeEffect, CertVerifyEffect
    <2> QED
      BY <1>2, <2>1
  <1>11. CASE ServerFinished
    <2>1. Same /\ Quiet
      BY <1>1, <1>3, <1>5, <1>6, <1>11, ServerFinishedEffect
    <2> QED
      BY <1>2, <2>1
  <1>12. CASE ServerResumes
    <2> DEFINE st == m.ticket.state
    <2>1. /\ Reads("server", {"hello"}, "clientHello") /\ m.ticket # NoTicket
          /\ day - st.createdAt <= Lifetime /\ SessionCertOk(cfg["server"], st)
          /\ Quiet
          /\ \/ Failed("server")
             \/ \E tk, fin : Resumed(cfg["server"], m, g, tk, fin)
      BY <1>1, <1>12, ResumeEffect
    <2>2. TicketOk(m.ticket)
      BY <2>1, ServerRead DEF FromClient
    <2>3. /\ st.createdAt = st.born
          /\ IF st.peer = NoCert THEN cfg["server"].auth \notin {2, 4}
             ELSE /\ day <= st.peer.notAfter /\ cfg["server"].auth # 0
                  /\ cfg["server"].auth >= 3 => st.verified
      BY <2>1, <2>2 DEF TicketOk, SessionCertOk, requiresClientCert
    <2>4. Failed("server") \/ (g.sess = st /\ g.peer = st.peer /\ g.verified = st.verified)
      BY <2>1 DEF Resumed
    <2> QED
      BY <1>2, <1>3, <2>1, <2>3, <2>4
  <1> QED
    BY <1>7, <1>8, <1>9, <1>10, <1>11, <1>12 DEF Step, ServerStep

\* The client resumes only by ClientServerHello, a session it could trust.
LEMMA ClientResumption ==
    ASSUME IInv, "client" \notin Free, Step("client")
    PROVE  /\ hs'["server"] = hs["server"]
           /\ LET h == hs["client"]
                  g == hs'["client"]
              IN ~h.didResume /\ g.didResume => g.verified \/ cfg["client"].skipVerify
  <1> DEFINE h == hs["client"]
             g == hs'["client"]
             m == Msg("client")
             Same == g.didResume = h.didResume \/ g.didResume = FALSE
             Quiet == \E M : Moved("client", M)
  <1>1. Frame /\ "client" \in Sides /\ DOMAIN h = DOMAIN Blank
    BY DEF IInv, Frame, Sides
  <1>2. Quiet => hs'["server"] = hs["server"]
    BY DEF Moved, Others, Peer
  <1>3. Failed("client") => Same
    BY DEF Failed
  <1>4. \A w : Goes("client", h, w) => Same
    BY DEF Goes
  <1>5. \A x, F : Noted(h, g, x, F) /\ "didResume" \notin F => Same
    BY LikeResume DEF Noted
  <1>6. \A x, p : Completes("client", h, g, x, p) => Same /\ Quiet
    BY LikeResume DEF Completes
  <1>7. \A x, F, w : Heard("client", x, F, w) /\ "didResume" \notin F => Same /\ Quiet
    BY <1>5 DEF Heard
  <1>8. CASE RecordStep("client")
    <2>1. (\E w : Goes("client", Switched(h), w)) => Same
      BY <1>1, BlankFields DEF Goes, Switched
    <2>2. Same /\ Quiet
      BY <1>1, <1>3, <1>4, <1>8, <2>1, RecordEffect
    <2> QED
      BY <1>2, <2>2
  <1>9. CASE ClientCannotStart
    BY <1>1, <1>2, <1>3, <1>9, CannotStartEffect
  <1>10. CASE ClientStart
    <2>1. Like(Blank, g, {"hello", "sess"}) /\ Quiet
      BY <1>1, <1>10, ClientStartEffect
    <2>2. Same
      BY <2>1, LikeResume, BlankValues
    <2> QED
      BY <1>2, <2>1, <2>2
  <1>11. CASE \/ ClientCertificate \/ ClientStatus \/ ClientKeyExchange \/ ClientCertRequest
              \/ ClientTicket
    <2>1. \/ Moved("client", {}) /\ Failed("client")
          \/ \E F \in {{"peer"}, {}, {"share"}, {"asked", "cert"}, {"ticket"}} :
                \E w : Heard("client", m, F, w)
      BY <1>1, <1>11, ClientReadsEffect
    <2>2. Same /\ Quiet
      BY <1>3, <1>7, <2>1
    <2> QED
      BY <1>2, <2>2
  <1>12. CASE ClientHelloDone
    <2>1. /\ Quiet
          /\ \/ Failed("client")
             \/ Like(h, g, {"tr", "verified", "secret", "inNext", "out", "outNext"})
      BY <1>1, <1>12, HelloDoneEffect
    <2>2. Same
      BY <1>3, <2>1, LikeResume
    <2> QED
      BY <1>2, <2>1, <2>2
  <1>13. CASE ClientFinished
    <2>1. Same /\ Quiet
      BY <1>1, <1>3, <1>5, <1>6, <1>13, ClientFinishedEffect
    <2> QED
      BY <1>2, <2>1
  <1>14. CASE ClientServerHello
    <2> DEFINE base == {"vers", "suite", "alpn", "ems", "serverHello", "tr"}
    <2>1. /\ Quiet
          /\ \/ Failed("client") \/ Like(h, g, base)
             \/ h.sess # NoSession /\ g.verified = h.sess.verified
      BY <1>1, <1>14, ServerHelloEffect
    <2>2. h.sess # NoSession => h.sess.verified \/ cfg["client"].skipVerify
      BY ClientBefore
    <2>3. Like(h, g, base) => Same
      BY LikeResume
    <2> QED
      BY <1>2, <1>3, <2>1, <2>2, <2>3
  <1> QED
    BY <1>8, <1>9, <1>10, <1>11, <1>12, <1>13, <1>14 DEF Step, ClientStep

\* A session is resumed only within Lifetime of the full handshake it comes from
\* and while its certificate is valid, by a server whose ClientAuth would take that
\* certificate as the session has it, and a client resumes only a session whose
\* server it has verified: for every number of renewals of the ticket, and every
\* change of configurations between connections (ticket.go, checkForResumption,
\* loadSession).
THEOREM ResumedSessionIsFresh == Spec => ResumptionIsFresh
  <1> DEFINE Fresher ==
        /\ ~hs["server"].didResume /\ hs'["server"].didResume =>
              /\ day - hs'["server"].sess.born <= Lifetime
              /\ IF hs'["server"].peer = NoCert THEN cfg["server"].auth \notin {2, 4}
                 ELSE /\ day <= hs'["server"].peer.notAfter
                      /\ cfg["server"].auth # 0
                      /\ cfg["server"].auth >= 3 => hs'["server"].verified
        /\ ~hs["client"].didResume /\ hs'["client"].didResume =>
              hs'["client"].verified \/ cfg["client"].skipVerify
  <1>1. IInv /\ [Next]_vars => [Fresher]_vars
    <2> SUFFICES ASSUME IInv, Next PROVE Fresher
      OBVIOUS
    <2>1. ASSUME NEW s \in Sides, s \notin Free, Step(s) PROVE Fresher
      BY <2>1, ServerResumption, ClientResumption DEF Sides
    <2>2. CASE Connect
      <3>1. hs'["client"] = Blank /\ hs'["server"] = Blank
        BY <2>2 DEF Connect, Sides
      <3> QED
        BY <3>1, BlankValues
    <2>3. ASSUME hs' = hs PROVE Fresher
      BY <2>3
    <2>4. \/ \E s \in Sides : s \notin Free /\ Step(s)
          \/ Connect \/ hs' = hs
      BY DEF Next, FreeKeepsTicket, FreeSends, FreeCloses, Cut, NextDay, Over, vars
    <2> QED
      BY <2>1, <2>2, <2>3, <2>4
  <1> QED
    BY Invariant, <1>1, PTL DEF Spec, ResumptionIsFresh

--------------------------------------------------------------------------------
(* What each side has seen where it waits *)

\* Where a side is: what it waits for, or done.
At(s) == IF Done(s) THEN "done" ELSE pc[s]

\* The types of the messages of a transcript, and whether one of type x is there.
Types(t) == [i \in DOMAIN t |-> t[i].t]
Has(t, x) == \E i \in DOMAIN t : t[i].t = x

\* No certificate after the server's; the certificate that was sent after it is c.
NoSecond(t) == \A i \in DOMAIN t : i > 3 => t[i].t # "certificate"
Second(t, c) ==
    /\ \A i \in DOMAIN t : i > 3 /\ t[i].t = "certificate" => t[i].cert = c
    /\ NoSecond(t) => c = NoCert

Status(h) == h.serverHello.ocsp /\ Has(h.tr, "certificateStatus")

\* The prefixes of Shape: b for a CertificateStatus, k for a ServerKeyExchange, a
\* for a certificate asked for, p for one that is proved, t for a ticket.
Hellos == <<"clientHello", "serverHello">>
Stem(b) == <<"clientHello", "serverHello", "certificate">> \o Opt(b, "certificateStatus")
Keyed(b, k) == Stem(b) \o Opt(k, "serverKeyExchange")
Asked(b, k, a) == Keyed(b, k) \o Opt(a, "certificateRequest")
Flown(b, k, a) == Asked(b, k, a) \o <<"serverHelloDone">>
Answered(b, k, a) == Flown(b, k, a) \o Opt(a, "certificate")
Exchanged(b, k, a) == Answered(b, k, a) \o <<"clientKeyExchange">>
Signed(b, k, a, p) == Exchanged(b, k, a) \o Opt(p, "certificateVerify")
Closed(b, k, a, p) == Signed(b, k, a, p) \o <<"finished">>
Ticketed(b, k, a, p, t) == Closed(b, k, a, p) \o Opt(t, "newSessionTicket")
Renewed(t) == Hellos \o Opt(t, "newSessionTicket")

\* A side that has chosen the parameters: they are those of the ServerHello.
Settled(h) ==
    /\ Len(h.tr) >= 2 /\ h.tr[1] = h.hello /\ h.tr[2] = h.serverHello
    /\ h.vers = h.serverHello.vers /\ h.suite = h.serverHello.suite
    /\ h.alpn = h.serverHello.alpn /\ h.didResume \in BOOLEAN

\* The server's certificate is the third message of a full handshake.
Third(h, c) == Len(h.tr) >= 3 /\ h.tr[3].t = "certificate" /\ h.tr[3].cert = c

\* The keys of side s that waits for w: the next ones, or the ones in use.
Protected(s, h, w) ==
    /\ IF w \in {"ticket", "ccs"} THEN h.inNext = TrafficKey(Peer(s), h)
       ELSE h.in = TrafficKey(Peer(s), h)
    /\ IF w # "done" /\ (s = "client" <=> h.didResume)
       THEN h.outNext = TrafficKey(s, h) ELSE h.out = TrafficKey(s, h)

Reading1 == {"status", "verify", "certReq", "helloDone"}
Closing == {"ticket", "ccs", "finished"}

\* A client in state h that is at w.
ClientBegins(h) ==
    /\ h.hello.t = "clientHello" /\ h.tr = <<>> /\ h.asked = FALSE /\ h.cert = NoCert
    /\ h.didResume = FALSE /\ h.share = NoShare
ClientReads(h, w) ==
    /\ h.didResume = FALSE /\ NoSecond(h.tr)
    /\ h.asked = (w = "helloDone") /\ (w # "helloDone" => h.cert = NoCert)
    /\ w = "cert" => Types(h.tr) = Hellos /\ h.share = NoShare
    /\ w # "cert" =>
          /\ Types(h.tr) = Asked(Status(h), Has(h.tr, "serverKeyExchange"), h.asked)
          /\ Third(h, h.peer)
          /\ w = "status" => ~Has(h.tr, "certificateStatus")
          /\ w \in {"status", "verify"} => ~Has(h.tr, "serverKeyExchange")
          /\ Has(h.tr, "serverKeyExchange") => h.suite \in suiteECDHE
          /\ h.share # NoShare => Has(h.tr, "serverKeyExchange")
ClientCloses(h, w) ==
    LET t == h.serverHello.tickets
        u == t /\ w # "ticket"
        all(x) == Ticketed(Status(h), h.suite \in suiteECDHE, h.asked, h.cert # NoCert, x)
    IN /\ w = "ticket" => t
       /\ Protected("client", h, w)
       /\ IF h.didResume
          THEN /\ h.peer = h.sess.peer /\ h.secret = h.sess.secret
               /\ Types(h.tr) = IF w = "done" THEN Renewed(t) \o <<"finished", "finished">>
                                ELSE Renewed(u)
          ELSE /\ Third(h, h.peer) /\ Second(h.tr, h.cert)
               /\ Types(h.tr) = IF w = "done" THEN all(t) \o <<"finished">> ELSE all(u)
ClientAt(h, w) ==
    /\ w = "hello" => ClientBegins(h)
    /\ w \in {"cert", "done"} \cup Reading1 \cup Closing =>
          Settled(h) /\ h.ems = h.serverHello.ems
    /\ w \in {"cert"} \cup Reading1 => ClientReads(h, w)
    /\ w \in {"done"} \cup Closing => ClientCloses(h, w)

\* A server in state h that is at w; a says whether it asks for a certificate.
ServerReads(h, w, a) ==
    LET b == Status(h)
        k == h.suite \in suiteECDHE
    IN /\ h.didResume = FALSE
       /\ w = "cert" => a /\ h.peer = NoCert /\ NoSecond(h.tr) /\ Types(h.tr) = Flown(b, k, a)
       /\ w = "ckx" => Types(h.tr) = Answered(b, k, a)
       /\ w = "certVerify" => h.peer # NoCert /\ Types(h.tr) = Exchanged(b, k, a)
       /\ Third(h, h.cert) /\ (w # "cert" => Second(h.tr, h.peer))
ServerCloses(h, w, a) ==
    LET b == Status(h)
        k == h.suite \in suiteECDHE
        p == h.peer # NoCert
        t == h.serverHello.tickets
    IN /\ Protected("server", h, w)
       /\ IF h.didResume
          THEN /\ h.secret = h.sess.secret /\ t
               /\ Len(h.tr) >= 3 /\ h.tr[3].t = "newSessionTicket"
               /\ Types(h.tr) = Renewed(t) \o (IF w = "done" THEN <<"finished", "finished">>
                                               ELSE <<"finished">>)
          ELSE /\ Third(h, h.cert) /\ Second(h.tr, h.peer)
               /\ Types(h.tr) = IF w = "done" THEN Ticketed(b, k, a, p, t) \o <<"finished">>
                                ELSE Signed(b, k, a, p)
ServerAt(h, w, a) ==
    /\ w \in {"cert", "ckx", "certVerify", "ccs", "finished", "done"} => Settled(h)
    /\ w \in {"cert", "ckx", "certVerify"} => ServerReads(h, w, a)
    /\ w \in {"ccs", "finished", "done"} => ServerCloses(h, w, a)

Placed ==
    /\ "client" \notin Free => ClientAt(hs["client"], At("client"))
    /\ "server" \notin Free => ServerAt(hs["server"], At("server"), cfg["server"].auth # 0)

--------------------------------------------------------------------------------
(* What the two sides have in common *)

\* A side that has not failed.
Alive(s) == pc[s] # "ended" \/ Done(s)

\* Where a server is that has chosen the parameters.
Chosen == {"cert", "ckx", "certVerify", "ccs", "finished", "done"}

\* Between sides that follow the protocol every session has the extended master
\* secret.
Marked(t) == t # NoTicket => t.state.ems = TRUE
Extended ==
    Free = {} =>
        /\ \A r \in Elems(wire["server"]) :
              r.typ = "handshake" /\ r.m.t = "clientHello" => r.m.ems = TRUE /\ Marked(r.m.ticket)
        /\ \A r \in Elems(wire["client"]) :
              r.typ = "handshake" /\ r.m.t = "newSessionTicket" => Marked(r.m.ticket)
        /\ Marked(cache.ticket) /\ Marked(hs["client"].ticket)
        /\ At("server") \in Chosen =>
              hs["server"].ems = TRUE /\ hs["server"].serverHello.ems = TRUE

\* u is how t begins.
Begins(u, t) == Len(u) <= Len(t) /\ \A i \in 1 .. Len(u) : t[i] = u[i]

\* Where a side waits that has the keys.
Late(s) == {"ccs", "finished", "done"} \cup (IF s = "client" THEN {"ticket"} ELSE {})

\* m is the Finished of side p: it covers what p had seen, with the secret it has.
\* The side that sends its Finished last has seen nothing after it.
Pledged(p, m) ==
    LET h == hs[p]
        x == m.verify[4]
    IN /\ IsSeq(x) /\ m.verify = <<"finished", p, h.secret, x>>
       /\ Begins(Append(x, m), h.tr)
       /\ At(p) \in Late(p)
       /\ (p = "client" <=> h.didResume) => h.tr = Append(x, m) /\ Done(p)
Pledges ==
    Free = {} =>
        \A s \in Sides : \A r \in Elems(wire[s]) :
            r.typ = "handshake" /\ r.m.t = "finished" /\ Alive(Peer(s)) =>
                Pledged(Peer(s), r.m)

\* A side that is done has heard the other's Finished; the one that hears it last
\* has seen all that the other has.
Joined ==
    Free = {} =>
        LET c == hs["client"]
            s == hs["server"]
        IN /\ Done("client") /\ Alive("server") =>
                 /\ s.didResume = c.didResume /\ At("server") \in {"ccs", "finished", "done"}
                 /\ ~c.didResume => Done("server") /\ c.tr = s.tr /\ c.secret = s.secret
           /\ Done("server") /\ s.didResume /\ Alive("client") =>
                 Done("client") /\ c.tr = s.tr /\ c.secret = s.secret

Concord == Placed /\ Extended /\ Pledges /\ Joined


--------------------------------------------------------------------------------
(* Lemmas about transcripts and their types *)

\* Append and concatenation, index by index.
LEMMA AppendAt ==
    ASSUME NEW t, IsSeq(t), NEW m
    PROVE  /\ Len(t) \in Nat /\ DOMAIN t = 1 .. Len(t)
           /\ Len(Append(t, m)) = Len(t) + 1 /\ DOMAIN Append(t, m) = 1 .. Len(t) + 1
           /\ \A i \in 1 .. Len(t) : Append(t, m)[i] = t[i]
           /\ Append(t, m)[Len(t) + 1] = m
  BY DEF IsSeq

\* A concatenation, index by index.
LEMMA ConcatAt ==
    ASSUME NEW s, NEW t, IsSeq(s), IsSeq(t)
    PROVE  /\ Len(s) \in Nat /\ Len(t) \in Nat /\ Len(s \o t) = Len(s) + Len(t)
           /\ DOMAIN s = 1 .. Len(s) /\ DOMAIN t = 1 .. Len(t)
           /\ DOMAIN (s \o t) = 1 .. Len(s) + Len(t)
           /\ \A i \in 1 .. Len(s) + Len(t) :
                 (s \o t)[i] = IF i <= Len(s) THEN s[i] ELSE t[i - Len(s)]
  BY DEF IsSeq

\* Concatenation is associative.
LEMMA Associative ==
    ASSUME NEW s, NEW t, NEW u, IsSeq(s), IsSeq(t), IsSeq(u)
    PROVE  s \o (t \o u) = (s \o t) \o u
  <1>1. IsSeq(s \o t) /\ IsSeq(t \o u)
    BY ConcatFacts
  <1>2. IsSeq(s \o (t \o u)) /\ IsSeq((s \o t) \o u)
    BY <1>1, ConcatFacts
  <1>3. /\ Len(s) \in Nat /\ Len(t) \in Nat /\ Len(u) \in Nat
        /\ Len(s \o t) = Len(s) + Len(t) /\ Len(t \o u) = Len(t) + Len(u)
    BY ConcatAt
  <1>4. /\ Len(s \o (t \o u)) = Len(s) + (Len(t) + Len(u))
        /\ Len((s \o t) \o u) = Len(s) + (Len(t) + Len(u))
    <2>1. Len(s \o (t \o u)) = Len(s) + Len(t \o u)
      BY <1>1, ConcatAt
    <2>2. Len((s \o t) \o u) = Len(s \o t) + Len(u)
      BY <1>1, ConcatAt
    <2> QED
      BY <1>3, <2>1, <2>2
  <1>5. ASSUME NEW i \in 1 .. Len(s) + (Len(t) + Len(u))
        PROVE  (s \o (t \o u))[i] = ((s \o t) \o u)[i]
    <2>1. (s \o (t \o u))[i] = IF i <= Len(s) THEN s[i] ELSE (t \o u)[i - Len(s)]
      <3>1. i \in 1 .. Len(s) + Len(t \o u)
        BY <1>3
      <3> QED
        BY <1>1, <3>1, ConcatAt
    <2>2. ((s \o t) \o u)[i] =
              IF i <= Len(s \o t) THEN (s \o t)[i] ELSE u[i - Len(s \o t)]
      <3>1. i \in 1 .. Len(s \o t) + Len(u)
        BY <1>3
      <3> QED
        BY <1>1, <3>1, ConcatAt
    <2>3. CASE i <= Len(s)
      <3>1. i \in 1 .. Len(s) + Len(t) /\ i <= Len(s \o t)
        BY <1>3, <2>3
      <3>2. (s \o t)[i] = s[i]
        BY <2>3, <3>1, ConcatAt
      <3> QED
        BY <2>1, <2>2, <2>3, <3>1, <3>2
    <2>4. CASE i > Len(s) /\ i <= Len(s) + Len(t)
      <3>1. /\ i \in 1 .. Len(s) + Len(t) /\ i <= Len(s \o t) /\ ~(i <= Len(s))
            /\ i - Len(s) \in 1 .. Len(t) + Len(u) /\ i - Len(s) <= Len(t)
        BY <1>3, <2>4
      <3>2. (s \o t)[i] = t[i - Len(s)] /\ (t \o u)[i - Len(s)] = t[i - Len(s)]
        BY <3>1, ConcatAt
      <3> QED
        BY <2>1, <2>2, <3>1, <3>2
    <2>5. CASE i > Len(s) + Len(t)
      <3>1. /\ ~(i <= Len(s \o t)) /\ ~(i <= Len(s)) /\ ~(i - Len(s) <= Len(t))
            /\ i - Len(s) \in 1 .. Len(t) + Len(u)
            /\ (i - Len(s)) - Len(t) = i - Len(s \o t)
        BY <1>3, <2>5
      <3>2. (t \o u)[i - Len(s)] = u[(i - Len(s)) - Len(t)]
        BY <3>1, ConcatAt
      <3> QED
        BY <2>1, <2>2, <3>1, <3>2
    <2> QED
      BY <1>3, <2>3, <2>4, <2>5
  <1> HIDE DEF IsSeq
  <1> QED
    BY <1>2, <1>4, <1>5, SameSeq

\* The types of a transcript that grows.
LEMMA TypesFacts ==
    ASSUME NEW t, IsSeq(t)
    PROVE  /\ IsSeq(Types(t)) /\ Len(Types(t)) = Len(t) /\ Len(t) \in Nat
           /\ \A i \in 1 .. Len(t) : Types(t)[i] = t[i].t
  <1>1. Len(t) \in Nat /\ DOMAIN t = 1 .. Len(t)
    BY SeqFacts
  <1>2. Types(t) \in [1 .. Len(t) -> Elems(Types(t))]
    <2>1. DOMAIN Types(t) = 1 .. Len(t) /\ \A i \in 1 .. Len(t) : Types(t)[i] \in Elems(Types(t))
      BY <1>1 DEF Types, Elems
    <2>2. Types(t) = [i \in 1 .. Len(t) |-> Types(t)[i]]
      BY <1>1 DEF Types
    <2> QED
      BY <2>1, <2>2
  <1>3. \A i \in 1 .. Len(t) : Types(t)[i] = t[i].t
    BY <1>1 DEF Types
  <1> QED
    BY <1>1, <1>2, <1>3 DEF IsSeq

\* The types of a concatenation, and of one message more.
LEMMA TypesJoin ==
    ASSUME NEW s, NEW t, IsSeq(s), IsSeq(t)
    PROVE  Types(s \o t) = Types(s) \o Types(t)
  <1> DEFINE a == Types(s \o t)
             b == Types(s) \o Types(t)
  <1>1. IsSeq(s \o t) /\ Len(s \o t) = Len(s) + Len(t)
    BY ConcatFacts, ConcatAt
  <1>2. /\ IsSeq(Types(s)) /\ Len(Types(s)) = Len(s) /\ Len(s) \in Nat
        /\ \A i \in 1 .. Len(s) : Types(s)[i] = s[i].t
    BY TypesFacts
  <1>3. /\ IsSeq(Types(t)) /\ Len(Types(t)) = Len(t) /\ Len(t) \in Nat
        /\ \A i \in 1 .. Len(t) : Types(t)[i] = t[i].t
    BY TypesFacts
  <1>4. /\ IsSeq(a) /\ Len(a) = Len(s) + Len(t)
        /\ \A i \in 1 .. Len(s) + Len(t) : a[i] = (s \o t)[i].t
    BY <1>1, TypesFacts
  <1>5. /\ IsSeq(b) /\ Len(b) = Len(s) + Len(t)
        /\ \A i \in 1 .. Len(s) + Len(t) :
              b[i] = IF i <= Len(s) THEN Types(s)[i] ELSE Types(t)[i - Len(s)]
    <2> DEFINE x == Types(s)
               y == Types(t)
    <2>1. IsSeq(x) /\ IsSeq(y)
      BY <1>2, <1>3
    <2> HIDE DEF x, y
    <2>2. /\ IsSeq(x \o y) /\ Len(x \o y) = Len(x) + Len(y)
          /\ \A i \in 1 .. Len(x) + Len(y) :
                (x \o y)[i] = IF i <= Len(x) THEN x[i] ELSE y[i - Len(x)]
      BY <2>1, ConcatFacts, ConcatAt
    <2>3. Len(x) = Len(s) /\ Len(y) = Len(t)
      BY <1>2, <1>3 DEF x, y
    <2>4. /\ IsSeq(x \o y) /\ Len(x \o y) = Len(s) + Len(t)
          /\ \A i \in 1 .. Len(s) + Len(t) :
                (x \o y)[i] = IF i <= Len(s) THEN x[i] ELSE y[i - Len(s)]
      BY <2>2, <2>3
    <2> QED
      BY <2>4 DEF x, y
  <1>6. \A i \in 1 .. Len(s) + Len(t) :
           (s \o t)[i] = IF i <= Len(s) THEN s[i] ELSE t[i - Len(s)]
    BY ConcatAt
  <1> HIDE DEF a, b
  <1>7. ASSUME NEW i \in 1 .. Len(s) + Len(t) PROVE a[i] = b[i]
    <2>1. CASE i <= Len(s)
      BY <1>2, <1>4, <1>5, <1>6, <2>1
    <2>2. CASE i > Len(s)
      <3>1. i - Len(s) \in 1 .. Len(t) /\ ~(i <= Len(s))
        BY <1>2, <1>3, <2>2
      <3> QED
        BY <1>3, <1>4, <1>5, <1>6, <3>1
    <2> QED
      BY <1>2, <2>1, <2>2
  <1>8. a = b
    BY <1>4, <1>5, <1>7, SameSeq
  <1> QED
    BY <1>8 DEF a, b

\* The types of short tuples.
LEMMA TypesTuples ==
    /\ Types(<<>>) = <<>>
    /\ \A x : Types(<<x>>) = <<x.t>>
    /\ \A x, y : Types(<<x, y>>) = <<x.t, y.t>>
  <1>1. Types(<<>>) = <<>>
    BY DEF Types
  <1>2. ASSUME NEW x PROVE Types(<<x>>) = <<x.t>>
    <2>1. IsSeq(<<x>>) /\ IsSeq(<<x.t>>) /\ Len(<<x>>) = 1 /\ Len(<<x.t>>) = 1
      BY TupleFacts
    <2>2. IsSeq(Types(<<x>>)) /\ Len(Types(<<x>>)) = 1
          /\ \A i \in 1 .. 1 : Types(<<x>>)[i] = <<x>>[i].t
      BY <2>1, TypesFacts
    <2>3. \A i \in 1 .. 1 : Types(<<x>>)[i] = <<x.t>>[i]
      BY <2>2
    <2> QED
      BY <2>1, <2>2, <2>3, SameSeq
  <1>3. ASSUME NEW x, NEW y PROVE Types(<<x, y>>) = <<x.t, y.t>>
    <2>1. /\ IsSeq(<<x, y>>) /\ IsSeq(<<x.t, y.t>>) /\ Len(<<x, y>>) = 2
          /\ Len(<<x.t, y.t>>) = 2
      BY TupleFacts
    <2>2. IsSeq(Types(<<x, y>>)) /\ Len(Types(<<x, y>>)) = 2
          /\ \A i \in 1 .. 2 : Types(<<x, y>>)[i] = <<x, y>>[i].t
      BY <2>1, TypesFacts
    <2>3. \A i \in 1 .. 2 : Types(<<x, y>>)[i] = <<x.t, y.t>>[i]
      BY <2>2
    <2> QED
      BY <2>1, <2>2, <2>3, SameSeq
  <1> QED
    BY <1>1, <1>2, <1>3

\* One message more is a concatenation, and an absent one changes nothing.
LEMMA AppendJoin ==
    ASSUME NEW p, IsSeq(p)
    PROVE  (\A x : p \o <<x>> = Append(p, x)) /\ p \o <<>> = p
  <1>1. ASSUME NEW x PROVE p \o <<x>> = Append(p, x)
    <2> DEFINE a == p \o <<x>>
               b == Append(p, x)
    <2>1. IsSeq(<<x>>) /\ Len(<<x>>) = 1 /\ <<x>>[1] = x
      BY TupleFacts
    <2>2. /\ IsSeq(a) /\ Len(a) = Len(p) + 1 /\ Len(p) \in Nat
          /\ \A i \in 1 .. Len(p) + 1 : a[i] = IF i <= Len(p) THEN p[i] ELSE <<x>>[i - Len(p)]
      BY <2>1, ConcatFacts, ConcatAt
    <2>3. /\ IsSeq(b) /\ Len(b) = Len(p) + 1
          /\ \A i \in 1 .. Len(p) : b[i] = p[i]
          /\ b[Len(p) + 1] = x
      BY SeqFacts, AppendAt
    <2> HIDE DEF a, b
    <2>4. \A i \in 1 .. Len(p) + 1 : a[i] = b[i]
      <3>1. \A i \in 1 .. Len(p) + 1 : i \in 1 .. Len(p) \/ i = Len(p) + 1
        BY <2>2
      <3>2. a[Len(p) + 1] = x
        BY <2>1, <2>2
      <3> QED
        BY <2>2, <2>3, <3>1, <3>2
    <2>5. a = b
      BY <2>2, <2>3, <2>4, SameSeq
    <2> QED
      BY <2>5 DEF a, b
  <1>2. p \o <<>> = p
    <2> DEFINE a == p \o <<>>
    <2>1. IsSeq(<<>>) /\ Len(<<>>) = 0
      BY TupleFacts
    <2>2. /\ IsSeq(a) /\ Len(a) = Len(p) + 0 /\ Len(p) \in Nat
          /\ \A i \in 1 .. Len(p) + 0 : a[i] = IF i <= Len(p) THEN p[i] ELSE <<>>[i - Len(p)]
      BY <2>1, ConcatFacts, ConcatAt
    <2> HIDE DEF a
    <2>3. Len(a) = Len(p) /\ \A i \in 1 .. Len(p) : a[i] = p[i]
      BY <2>2
    <2>4. a = p
      BY <2>2, <2>3, SameSeq
    <2> QED
      BY <2>4 DEF a
  <1> QED
    BY <1>1, <1>2

\* An optional message.
LEMMA OptFacts ==
    ASSUME NEW p, IsSeq(p), NEW b, NEW x
    PROVE  /\ IsSeq(p \o Opt(b, x)) /\ IsSeq(p \o <<x>>)
           /\ b => p \o Opt(b, x) = Append(p, x)
           /\ ~b => p \o Opt(b, x) = p
  <1>1. IsSeq(p \o <<x>>)
    BY TupleFacts, ConcatFacts
  <1>2. p \o <<x>> = Append(p, x) /\ p \o <<>> = p
    BY AppendJoin
  <1> QED
    BY <1>1, <1>2 DEF Opt


\* Every prefix of a handshake is a sequence.
LEMMA ShapeSeqs ==
    ASSUME NEW b, NEW k, NEW a, NEW p, NEW t
    PROVE  /\ IsSeq(Hellos) /\ IsSeq(Stem(b)) /\ IsSeq(Keyed(b, k)) /\ IsSeq(Asked(b, k, a))
           /\ IsSeq(Flown(b, k, a)) /\ IsSeq(Answered(b, k, a)) /\ IsSeq(Exchanged(b, k, a))
           /\ IsSeq(Signed(b, k, a, p)) /\ IsSeq(Closed(b, k, a, p))
           /\ IsSeq(Ticketed(b, k, a, p, t)) /\ IsSeq(Renewed(t))
  <1>1. IsSeq(Hellos)
    BY TupleFacts DEF Hellos
  <1>2. IsSeq(<<"clientHello", "serverHello", "certificate">>)
    BY Triple
  <1>3. IsSeq(Stem(b))
    BY <1>2, OptFacts DEF Stem
  <1>4. IsSeq(Keyed(b, k))
    BY <1>3, OptFacts DEF Keyed
  <1>5. IsSeq(Asked(b, k, a))
    BY <1>4, OptFacts DEF Asked
  <1>6. IsSeq(Flown(b, k, a))
    BY <1>5, OptFacts DEF Flown
  <1>7. IsSeq(Answered(b, k, a))
    BY <1>6, OptFacts DEF Answered
  <1>8. IsSeq(Exchanged(b, k, a))
    BY <1>7, OptFacts DEF Exchanged
  <1>9. IsSeq(Signed(b, k, a, p))
    BY <1>8, OptFacts DEF Signed
  <1>10. IsSeq(Closed(b, k, a, p))
    BY <1>9, OptFacts DEF Closed
  <1>11. IsSeq(Ticketed(b, k, a, p, t))
    BY <1>10, OptFacts DEF Ticketed
  <1>12. IsSeq(Renewed(t))
    BY <1>1, OptFacts DEF Renewed
  <1> QED
    BY <1>1, <1>3, <1>4, <1>5, <1>6, <1>7, <1>8, <1>9, <1>10, <1>11, <1>12

\* What the client's reading of the first flight adds, one message after another.
LEMMA ShapeGrows ==
    /\ Asked(FALSE, FALSE, FALSE) = <<"clientHello", "serverHello", "certificate">>
    /\ Asked(FALSE, FALSE, FALSE) \o <<"certificateStatus">> = Asked(TRUE, FALSE, FALSE)
    /\ \A b : Asked(b, FALSE, FALSE) \o <<"serverKeyExchange">> = Asked(b, TRUE, FALSE)
    /\ \A b, k : Asked(b, k, FALSE) \o <<"certificateRequest">> = Asked(b, k, TRUE)
  <1> DEFINE T == <<"clientHello", "serverHello", "certificate">>
  <1>1. IsSeq(T)
    BY Triple
  <1>2. \A x : Opt(FALSE, x) = <<>> /\ Opt(TRUE, x) = <<x>>
    BY DEF Opt
  <1>3. Stem(FALSE) = T /\ Stem(TRUE) = T \o <<"certificateStatus">>
    BY <1>1, <1>2, AppendJoin DEF Stem
  <1> HIDE DEF T
  <1>4. ASSUME NEW b
        PROVE  Keyed(b, FALSE) = Stem(b) /\ Keyed(b, TRUE) = Stem(b) \o <<"serverKeyExchange">>
    BY <1>2, ShapeSeqs, AppendJoin DEF Keyed
  <1>5. ASSUME NEW b, NEW k
        PROVE  /\ Asked(b, k, FALSE) = Keyed(b, k)
               /\ Asked(b, k, TRUE) = Keyed(b, k) \o <<"certificateRequest">>
    BY <1>2, ShapeSeqs, AppendJoin DEF Asked
  <1>6. /\ Asked(FALSE, FALSE, FALSE) = T
        /\ T \o <<"certificateStatus">> = Asked(TRUE, FALSE, FALSE)
    BY <1>3, <1>4, <1>5
  <1>7. ASSUME NEW b
        PROVE  Asked(b, FALSE, FALSE) \o <<"serverKeyExchange">> = Asked(b, TRUE, FALSE)
    BY <1>4, <1>5
  <1> QED
    BY <1>5, <1>6, <1>7 DEF T

\* A transcript that grows: what was there stays, and only a certificate is one.
LEMMA Longer ==
    ASSUME NEW t, NEW v, IsSeq(t), IsSeq(v)
    PROVE  /\ IsSeq(t \o v) /\ Len(t \o v) >= Len(t) /\ Len(t) \in Nat
           /\ \A i \in 1 .. Len(t) : (t \o v)[i] = t[i]
           /\ Types(t \o v) = Types(t) \o Types(v)
           /\ \A x : Has(t \o v, x) <=> Has(t, x) \/ \E y \in Elems(v) : y.t = x
           /\ (\A y \in Elems(v) : y.t # "certificate") =>
                 /\ NoSecond(t) <=> NoSecond(t \o v)
                 /\ \A c : Second(t, c) => Second(t \o v, c)
  <1> DEFINE w == t \o v
  <1>1. IsSeq(w) /\ Elems(w) = Elems(t) \cup Elems(v)
    BY ConcatFacts
  <1>2. /\ Len(t) \in Nat /\ Len(v) \in Nat /\ Len(w) = Len(t) + Len(v)
        /\ DOMAIN t = 1 .. Len(t) /\ DOMAIN v = 1 .. Len(v) /\ DOMAIN w = 1 .. Len(t) + Len(v)
        /\ \A i \in 1 .. Len(t) + Len(v) :
              w[i] = IF i <= Len(t) THEN t[i] ELSE v[i - Len(t)]
    BY ConcatAt
  <1>3. Types(w) = Types(t) \o Types(v)
    BY TypesJoin
  <1> HIDE DEF w
  <1>4. Len(w) >= Len(t) /\ \A i \in 1 .. Len(t) : i \in DOMAIN w /\ w[i] = t[i]
    BY <1>2
  <1>5. ASSUME NEW x PROVE Has(w, x) <=> Has(t, x) \/ \E y \in Elems(v) : y.t = x
    <2>1. Has(w, x) <=> \E y \in Elems(w) : y.t = x
      BY DEF Has, Elems
    <2>2. Has(t, x) <=> \E y \in Elems(t) : y.t = x
      BY DEF Has, Elems
    <2> QED
      BY <1>1, <2>1, <2>2
  <1>6. ASSUME \A y \in Elems(v) : y.t # "certificate"
        PROVE  /\ NoSecond(t) <=> NoSecond(w)
               /\ \A c : Second(t, c) => Second(w, c)
    <2>1. ASSUME NEW i \in DOMAIN w, w[i].t = "certificate"
          PROVE  i \in DOMAIN t /\ w[i] = t[i]
      <3>1. CASE i <= Len(t)
        BY <1>2, <3>1
      <3>2. CASE i > Len(t)
        <4>1. i - Len(t) \in DOMAIN v /\ w[i] = v[i - Len(t)]
          BY <1>2, <3>2
        <4> QED
          BY <1>6, <2>1, <4>1 DEF Elems
      <3> QED
        BY <1>2, <3>1, <3>2
    <2>2. \A i \in DOMAIN t : i \in DOMAIN w /\ w[i] = t[i]
      BY <1>2, <1>4
    <2>3. NoSecond(t) <=> NoSecond(w)
      BY <2>1, <2>2 DEF NoSecond
    <2>4. ASSUME NEW c, Second(t, c) PROVE Second(w, c)
      BY <2>1, <2>3, <2>4 DEF Second
    <2> QED
      BY <2>3, <2>4
  <1> QED
    BY <1>1, <1>3, <1>4, <1>5, <1>6, <1>2 DEF w

\* The same for one message.
LEMMA LongerByOne ==
    ASSUME NEW t, NEW m, IsSeq(t)
    PROVE  /\ IsSeq(Append(t, m)) /\ Len(Append(t, m)) = Len(t) + 1 /\ Len(t) \in Nat
           /\ \A i \in 1 .. Len(t) : Append(t, m)[i] = t[i]
           /\ Types(Append(t, m)) = Types(t) \o <<m.t>>
           /\ \A x : Has(Append(t, m), x) <=> Has(t, x) \/ m.t = x
           /\ m.t # "certificate" =>
                 /\ NoSecond(t) <=> NoSecond(Append(t, m))
                 /\ \A c : Second(t, c) => Second(Append(t, m), c)
           /\ m.t = "certificate" /\ NoSecond(t) /\ Len(t) >= 3 => Second(Append(t, m), m.cert)
           /\ NoSecond(t) /\ Len(t) < 3 => NoSecond(Append(t, m))
  <1>1. IsSeq(<<m>>) /\ Elems(<<m>>) = {m} /\ t \o <<m>> = Append(t, m) /\ Types(<<m>>) = <<m.t>>
    BY TupleFacts, AppendJoin, TypesTuples
  <1>2. /\ IsSeq(t \o <<m>>) /\ Len(t \o <<m>>) >= Len(t) /\ Len(t) \in Nat
        /\ \A i \in 1 .. Len(t) : (t \o <<m>>)[i] = t[i]
        /\ Types(t \o <<m>>) = Types(t) \o Types(<<m>>)
        /\ \A x : Has(t \o <<m>>, x) <=> Has(t, x) \/ \E y \in Elems(<<m>>) : y.t = x
        /\ (\A y \in Elems(<<m>>) : y.t # "certificate") =>
              /\ NoSecond(t) <=> NoSecond(t \o <<m>>)
              /\ \A c : Second(t, c) => Second(t \o <<m>>, c)
    BY <1>1, Longer
  <1> DEFINE w == Append(t, m)
  <1>3. /\ Len(w) = Len(t) + 1 /\ DOMAIN w = 1 .. Len(t) + 1 /\ DOMAIN t = 1 .. Len(t)
        /\ w[Len(t) + 1] = m /\ \A i \in 1 .. Len(t) : w[i] = t[i]
    BY AppendAt
  <1> HIDE DEF w
  <1>4. ASSUME NEW i \in DOMAIN w
        PROVE  \/ i \in DOMAIN t /\ w[i] = t[i]
               \/ i = Len(t) + 1 /\ w[i] = m
    <2>1. i \in 1 .. Len(t) \/ i = Len(t) + 1
      BY <1>2, <1>3
    <2> QED
      BY <1>3, <2>1
  <1>5. ASSUME m.t = "certificate", NoSecond(t), Len(t) >= 3 PROVE Second(w, m.cert)
    <2>1. ~NoSecond(w)
      BY <1>2, <1>3, <1>5 DEF NoSecond
    <2> QED
      BY <1>4, <1>5, <2>1 DEF Second, NoSecond
  <1>6. ASSUME NoSecond(t), Len(t) < 3 PROVE NoSecond(w)
    BY <1>2, <1>4, <1>6 DEF NoSecond
  <1> QED
    BY <1>1, <1>2, <1>3, <1>5, <1>6 DEF w


\* What a ticket, a proof and a client's certificate add when they are there.
LEMMA ShapeCloses ==
    ASSUME NEW b, NEW k, NEW a, NEW p
    PROVE  /\ Answered(b, k, FALSE) = Flown(b, k, FALSE)
           /\ Answered(b, k, TRUE) = Flown(b, k, TRUE) \o <<"certificate">>
           /\ Signed(b, k, a, FALSE) = Exchanged(b, k, a)
           /\ Signed(b, k, a, TRUE) = Exchanged(b, k, a) \o <<"certificateVerify">>
           /\ Ticketed(b, k, a, p, FALSE) = Closed(b, k, a, p)
           /\ Ticketed(b, k, a, p, TRUE) = Closed(b, k, a, p) \o <<"newSessionTicket">>
           /\ Renewed(FALSE) = Hellos /\ Renewed(TRUE) = Hellos \o <<"newSessionTicket">>
  <1>1. /\ Flown(b, k, FALSE) \o <<>> = Flown(b, k, FALSE)
        /\ Exchanged(b, k, a) \o <<>> = Exchanged(b, k, a)
        /\ Closed(b, k, a, p) \o <<>> = Closed(b, k, a, p) /\ Hellos \o <<>> = Hellos
    BY ShapeSeqs, AppendJoin
  <1>2. \A x : Opt(FALSE, x) = <<>> /\ Opt(TRUE, x) = <<x>>
    BY DEF Opt
  <1>3. /\ Answered(b, k, FALSE) = Flown(b, k, FALSE)
        /\ Answered(b, k, TRUE) = Flown(b, k, TRUE) \o <<"certificate">>
    BY <1>1, <1>2 DEF Answered
  <1>4. /\ Signed(b, k, a, FALSE) = Exchanged(b, k, a)
        /\ Signed(b, k, a, TRUE) = Exchanged(b, k, a) \o <<"certificateVerify">>
    BY <1>1, <1>2 DEF Signed
  <1>5. /\ Ticketed(b, k, a, p, FALSE) = Closed(b, k, a, p)
        /\ Ticketed(b, k, a, p, TRUE) = Closed(b, k, a, p) \o <<"newSessionTicket">>
    BY <1>1, <1>2 DEF Ticketed
  <1>6. Renewed(FALSE) = Hellos /\ Renewed(TRUE) = Hellos \o <<"newSessionTicket">>
    BY <1>1, <1>2 DEF Renewed
  <1> QED
    BY <1>3, <1>4, <1>5, <1>6

\* The two Finished messages of a resumption.
LEMMA TwoMore ==
    ASSUME NEW q, IsSeq(q), NEW x, NEW y
    PROVE  (q \o <<x>>) \o <<y>> = q \o <<x, y>>
  <1>1. IsSeq(<<x>>) /\ IsSeq(<<y>>)
    BY TupleFacts
  <1>2. <<x>> \o <<y>> = <<x, y>>
    <2> DEFINE u == <<x>> \o <<y>>
    <2>1. IsSeq(u) /\ IsSeq(<<x, y>>)
      BY <1>1, ConcatFacts, TupleFacts
    <2>2. Len(u) = 2 /\ u[1] = x /\ u[2] = y /\ Len(<<x, y>>) = 2
      OBVIOUS
    <2> HIDE DEF u
    <2>3. \A i \in 1 .. Len(u) : u[i] = <<x, y>>[i]
      BY <2>2
    <2>4. u = <<x, y>>
      BY <2>1, <2>2, <2>3, SameSeq
    <2> QED
      BY <2>4 DEF u
  <1>3. q \o (<<x>> \o <<y>>) = (q \o <<x>>) \o <<y>>
    BY <1>1, Associative
  <1> QED
    BY <1>2, <1>3

\* The fields that the parameters of a handshake are.
SameCore(h, g) ==
    /\ g.hello = h.hello /\ g.serverHello = h.serverHello /\ g.vers = h.vers
    /\ g.suite = h.suite /\ g.alpn = h.alpn /\ g.didResume = h.didResume

\* They stay with a transcript that grows, and so does the server's certificate.
LEMMA Stays ==
    ASSUME NEW h, NEW g, SameCore(h, g), Begins(h.tr, g.tr), Len(h.tr) \in Nat,
           Len(g.tr) \in Nat
    PROVE  /\ Settled(h) => Settled(g)
           /\ \A c : Third(h, c) => Third(g, c)
           /\ Len(h.tr) >= 3 => Len(g.tr) >= 3 /\ g.tr[3] = h.tr[3]
  <1>1. /\ Len(h.tr) >= 2 => Len(g.tr) >= 2 /\ g.tr[1] = h.tr[1] /\ g.tr[2] = h.tr[2]
        /\ Len(h.tr) >= 3 => Len(g.tr) >= 3 /\ g.tr[3] = h.tr[3]
    BY DEF Begins
  <1>2. Settled(h) => Settled(g)
    BY <1>1 DEF Settled, SameCore
  <1>3. \A c : Third(h, c) => Third(g, c)
    BY <1>1 DEF Third
  <1> QED
    BY <1>1, <1>2, <1>3

\* How a transcript begins, transitively, and with messages added.
LEMMA BeginsFacts ==
    ASSUME NEW t, IsSeq(t)
    PROVE  /\ Begins(t, t)
           /\ \A m : Begins(t, Append(t, m))
           /\ \A v : IsSeq(v) => Begins(t, t \o v)
           /\ \A u, w : IsSeq(u) /\ IsSeq(w) /\ Begins(t, u) /\ Begins(u, w) => Begins(t, w)
  <1>1. Len(t) \in Nat
    BY SeqFacts
  <1>2. Begins(t, t)
    BY <1>1 DEF Begins
  <1>3. ASSUME NEW m PROVE Begins(t, Append(t, m))
    BY <1>1, LongerByOne DEF Begins
  <1>4. ASSUME NEW v, IsSeq(v) PROVE Begins(t, t \o v)
    BY <1>1, <1>4, Longer DEF Begins
  <1>5. ASSUME NEW u, NEW w, IsSeq(u), IsSeq(w), Begins(t, u), Begins(u, w)
        PROVE  Begins(t, w)
    <2>1. Len(u) \in Nat /\ Len(w) \in Nat
      BY <1>5, SeqFacts
    <2> QED
      BY <1>1, <1>5, <2>1 DEF Begins
  <1> QED
    BY <1>2, <1>3, <1>4, <1>5

\* A transcript of the two hellos has no status, key exchange nor certificate.
LEMMA OnlyHellos ==
    ASSUME NEW t, IsSeq(t), Types(t) = Hellos
    PROVE  /\ Len(t) = 2 /\ NoSecond(t) /\ ~Has(t, "certificateStatus")
           /\ ~Has(t, "serverKeyExchange")
  <1>1. Len(t) = 2
    BY TypesFacts DEF Hellos
  <1>2. /\ DOMAIN t = 1 .. 2 /\ t[1].t = "clientHello" /\ t[2].t = "serverHello"
    <2>1. DOMAIN t = 1 .. 2
      BY <1>1, SeqFacts
    <2>2. Types(t)[1] = t[1].t /\ Types(t)[2] = t[2].t
      BY <1>1, TypesFacts
    <2> QED
      BY <2>1, <2>2 DEF Hellos
  <1>3. \A i \in DOMAIN t : i = 1 \/ i = 2
    BY <1>2
  <1> QED
    BY <1>1, <1>2, <1>3 DEF NoSecond, Has

\* The version that a client takes from a ServerHello is the one in it.
LEMMA TakenVersion ==
    ASSUME NEW c, NEW m, pickTLSVersion(c, m) # 0
    PROVE  pickTLSVersion(c, m) = m.vers
  <1> DEFINE s == <<m.vers>>
  <1>1. IsSeq(s) /\ Elems(s) = {m.vers}
    BY TupleFacts
  <1>2. Elems(s) \cap Allowed(c) # {}
    BY DEF pickTLSVersion, mutualVersion, First
  <1>3. DOMAIN s = {1} /\ s[1] = m.vers
    OBVIOUS
  <1>4. \A i \in DOMAIN s : s[i] = m.vers
    BY <1>3
  <1>5. \E i \in DOMAIN s : s[i] \in Allowed(c) /\ \A j \in 1 .. (i - 1) : s[j] \notin Allowed(c)
    <2>1. s[1] \in Allowed(c)
      BY <1>1, <1>2, <1>3
    <2>2. 1 \in DOMAIN s /\ \A j \in 1 .. (1 - 1) : s[j] \notin Allowed(c)
      BY <1>3
    <2> QED
      BY <2>1, <2>2
  <1> HIDE DEF s
  <1>6. s[CHOOSE i \in DOMAIN s : s[i] \in Allowed(c)
             /\ \A j \in 1 .. (i - 1) : s[j] \notin Allowed(c)] = m.vers
    BY <1>4, <1>5
  <1>7. First(s, Allowed(c), 0) = m.vers
    BY <1>2, <1>6 DEF First
  <1> QED
    BY <1>7 DEF pickTLSVersion, mutualVersion, s

\* Where a side is after it has failed, or gone on.
LEMMA AtFacts ==
    ASSUME Frame, NEW s \in Sides, pc[s] # "ended"
    PROVE  /\ At(s) = pc[s] /\ ~Done(s)
           /\ Failed(s) => At(s)' = "ended"
           /\ \A g, w : Goes(s, g, w) =>
                 hs'[s] = g /\ At(s)' = IF w = "ended" THEN "done" ELSE w
  <1>1. ~Done(s)
    BY DEF Frame, Done
  <1>2. Failed(s) => At(s)' = "ended"
    BY DEF Failed, At, Done
  <1>3. ASSUME NEW g, NEW w, Goes(s, g, w)
        PROVE  hs'[s] = g /\ At(s)' = IF w = "ended" THEN "done" ELSE w
    BY <1>1, <1>3 DEF Goes, At, Done
  <1> QED
    BY <1>1, <1>2, <1>3 DEF At

\* Nothing is said of a side before its hello, nor of one that has failed.
LEMMA Nowhere ==
    /\ \A h : ClientAt(h, "ended") /\ ClientAt(h, "start") /\ ClientAt(h, "free")
    /\ \A h, a : ServerAt(h, "ended", a) /\ ServerAt(h, "hello", a) /\ ServerAt(h, "free", a)
  BY DEF ClientAt, ServerAt, Reading1, Closing


--------------------------------------------------------------------------------
(* The steps of the client keep to the order of messages *)

Core == {"hello", "serverHello", "vers", "suite", "alpn", "didResume"}

\* A side that has noted m: its parameters are as before, its transcript has m.
LEMMA NotedMore ==
    ASSUME NEW h, NEW g, NEW m, NEW F, IsSeq(h.tr), Noted(h, g, m, F), \A f \in Core : f \notin F
    PROVE  /\ SameCore(h, g) /\ Begins(h.tr, g.tr) /\ IsSeq(g.tr)
           /\ Len(g.tr) = Len(h.tr) + 1 /\ Len(h.tr) \in Nat
           /\ Settled(h) => Settled(g)
           /\ \A c : Third(h, c) => Third(g, c)
           /\ Len(h.tr) >= 3 => g.tr[3] = h.tr[3]
           /\ Types(g.tr) = Types(h.tr) \o <<m.t>>
           /\ Has(g.tr, m.t) = TRUE
           /\ \A x : x # m.t => Has(g.tr, x) = Has(h.tr, x)
           /\ m.t # "certificateStatus" => Status(g) = Status(h)
           /\ m.t # "certificate" =>
                 /\ NoSecond(h.tr) <=> NoSecond(g.tr)
                 /\ \A c : Second(h.tr, c) => Second(g.tr, c)
           /\ m.t = "certificate" /\ NoSecond(h.tr) /\ Len(h.tr) >= 3 => Second(g.tr, m.cert)
           /\ NoSecond(h.tr) /\ Len(h.tr) < 3 => NoSecond(g.tr)
  <1>1. g.tr = Append(h.tr, m) /\ IsSeq(g.tr)
    BY DEF Noted
  <1>2. SameCore(h, g)
    BY BlankFields DEF Noted, Like, SameCore, Core
  <1>3. /\ Len(g.tr) = Len(h.tr) + 1 /\ Len(h.tr) \in Nat
        /\ Types(g.tr) = Types(h.tr) \o <<m.t>>
        /\ \A x : Has(g.tr, x) <=> Has(h.tr, x) \/ m.t = x
        /\ m.t # "certificate" =>
              /\ NoSecond(h.tr) <=> NoSecond(g.tr)
              /\ \A c : Second(h.tr, c) => Second(g.tr, c)
        /\ m.t = "certificate" /\ NoSecond(h.tr) /\ Len(h.tr) >= 3 => Second(g.tr, m.cert)
        /\ NoSecond(h.tr) /\ Len(h.tr) < 3 => NoSecond(g.tr)
    BY <1>1, LongerByOne
  <1>4. Begins(h.tr, g.tr)
    BY <1>1, BeginsFacts
  <1>5. Len(g.tr) \in Nat
    BY <1>3
  <1>6. /\ Settled(h) => Settled(g)
        /\ \A c : Third(h, c) => Third(g, c)
        /\ Len(h.tr) >= 3 => g.tr[3] = h.tr[3]
    BY <1>2, <1>3, <1>4, <1>5, Stays
  <1>7. m.t # "certificateStatus" => Status(g) = Status(h)
    BY <1>2, <1>3 DEF Status, SameCore
  <1>8. /\ Has(g.tr, m.t) = TRUE
        /\ \A x : x # m.t => Has(g.tr, x) = Has(h.tr, x)
    BY <1>3 DEF Has
  <1> QED
    BY <1>1, <1>2, <1>3, <1>4, <1>6, <1>7, <1>8

\* The types of messages that a side has seen once it has noted m.
LEMMA NotedHas ==
    ASSUME NEW h, NEW g, NEW m, NEW F, IsSeq(h.tr), Noted(h, g, m, F)
    PROVE  Has(g.tr, m.t) = TRUE /\ \A x : x # m.t => Has(g.tr, x) = Has(h.tr, x)
  <1>1. g.tr = Append(h.tr, m)
    BY DEF Noted
  <1>2. Elems(g.tr) = Elems(h.tr) \cup {m}
    BY <1>1, SeqFacts
  <1>3. \A t, x : Has(t, x) = \E y \in Elems(t) : y.t = x
    BY DEF Has, Elems
  <1> QED
    BY <1>2, <1>3

\* Traffic keys depend on the secret and the two hellos.
LEMMA SameTraffic ==
    ASSUME NEW h, NEW g, g.secret = h.secret, g.hello = h.hello, g.serverHello = h.serverHello
    PROVE  \A s : TrafficKey(s, g) = TrafficKey(s, h)
  BY DEF TrafficKey

\* A client that reads on to the Finished is placed as before, with its next key.
LEMMA ClientSwitches ==
    ASSUME NEW h, DOMAIN h = DOMAIN Blank, ClientAt(h, "ccs")
    PROVE  ClientAt(Switched(h), "finished")
  <1> DEFINE g == Switched(h)
  <1>1. /\ DOMAIN g = DOMAIN Blank /\ g.in = h.inNext
        /\ \A f \in DOMAIN Blank \ {"in", "inNext"} : g[f] = h[f]
    BY BlankFields DEF Switched
  <1> HIDE DEF g
  <1>2. /\ g.tr = h.tr /\ g.hello = h.hello /\ g.serverHello = h.serverHello
        /\ g.vers = h.vers /\ g.suite = h.suite /\ g.alpn = h.alpn /\ g.ems = h.ems
        /\ g.didResume = h.didResume /\ g.peer = h.peer /\ g.sess = h.sess
        /\ g.secret = h.secret /\ g.cert = h.cert /\ g.asked = h.asked /\ g.out = h.out
        /\ g.outNext = h.outNext
    BY <1>1, BlankFields
  <1>3. Settled(h) /\ h.ems = h.serverHello.ems /\ ClientCloses(h, "ccs")
    BY DEF ClientAt, Reading1, Closing
  <1>4. Settled(g) /\ g.ems = g.serverHello.ems
    BY <1>2, <1>3 DEF Settled
  <1>5. Protected("client", g, "finished")
    <2>1. Protected("client", h, "ccs")
      BY <1>3 DEF ClientCloses
    <2>2. \A s : TrafficKey(s, g) = TrafficKey(s, h)
      BY <1>2, SameTraffic
    <2> QED
      BY <1>1, <1>2, <2>1, <2>2 DEF Protected
  <1>6. Status(g) = Status(h) /\ (\A c : Third(h, c) => Third(g, c))
    BY <1>2 DEF Status, Third
  <1>7. ClientCloses(g, "finished")
    BY <1>2, <1>3, <1>5, <1>6 DEF ClientCloses
  <1>8. ClientAt(g, "finished")
    BY <1>4, <1>7 DEF ClientAt, Reading1, Closing
  <1> QED
    BY <1>8 DEF g

\* The hello of a client is a ClientHello.
LEMMA ClientStartPlaced ==
    ASSUME IInv, "client" \notin Free, ClientStart
    PROVE  ClientAt(hs'["client"], At("client")')
  <1> DEFINE g == hs'["client"]
  <1>1. /\ Goes("client", g, "hello") /\ Like(Blank, g, {"hello", "sess"})
        /\ \E tk : g.hello = ClientHelloMsg(cfg["client"], tk)
    BY ClientStartEffect DEF IInv
  <1>2. Frame /\ "client" \in Sides /\ pc["client"] # "ended"
    BY DEF IInv, Sides, ClientStart
  <1>3. At("client")' = "hello"
    BY <1>1, <1>2, AtFacts
  <1> HIDE DEF g
  <1>4. g.hello.t = "clientHello"
    BY <1>1 DEF ClientHelloMsg
  <1>5. ClientBegins(g)
    BY <1>1, <1>4, BlankFields, BlankValues DEF Like, ClientBegins, Blank, NoShare
  <1> QED
    BY <1>3, <1>5 DEF ClientAt, Reading1, Closing, g

\* The client that takes a ServerHello: the transcript is the two hellos.
LEMMA ServerHelloPlaced ==
    ASSUME IInv, Placed, "client" \notin Free, ClientServerHello
    PROVE  ClientAt(hs'["client"], At("client")')
  <1> DEFINE h == hs["client"]
             g == hs'["client"]
             m == Msg("client")
             base == {"vers", "suite", "alpn", "ems", "serverHello", "tr"}
             more == {"didResume", "secret", "peer", "verified", "inNext", "outNext"}
  <1>1. /\ Reads("client", {"hello"}, "serverHello")
        /\ \/ Failed("client")
           \/ Goes("client", g, "cert") /\ Like(h, g, base) /\ Takes(h, g, m)
           \/ /\ Like(h, g, base \cup more)
              /\ Goes("client", g, IF m.tickets THEN "ticket" ELSE "ccs")
              /\ g.didResume = TRUE /\ g.peer = h.sess.peer
              /\ Takes(h, g, m) /\ g.secret = h.sess.secret /\ NextKeys("client", g)
    BY ServerHelloEffect DEF IInv
  <1>2. Frame /\ "client" \in Sides
    BY DEF IInv, Sides
  <1>3. /\ pc["client"] = "hello" /\ m.t = "serverHello" /\ IsSeq(h.tr)
    BY <1>1, <1>2, ReadingFacts
  <1>4. At("client") = "hello" /\ ClientBegins(h)
    BY <1>2, <1>3, AtFacts DEF Placed, ClientAt
  <1>5. CASE Failed("client")
    BY <1>2, <1>3, <1>5, AtFacts, Nowhere
  <1> HIDE DEF h, g, m
  <1>6. ASSUME Takes(h, g, m), g.hello = h.hello, g.didResume \in BOOLEAN
        PROVE  /\ Settled(g) /\ g.ems = g.serverHello.ems /\ Types(g.tr) = Hellos
               /\ NoSecond(g.tr)
    <2>1. g.tr = <<h.hello, m>> /\ g.serverHello = m /\ h.hello.t = "clientHello"
      BY <1>4, <1>6 DEF Takes, ClientBegins
    <2>2. Types(g.tr) = Hellos
      BY <1>3, <2>1, TypesTuples DEF Hellos
    <2>3. IsSeq(g.tr) /\ Len(g.tr) = 2 /\ g.tr[1] = h.hello /\ g.tr[2] = m
      BY <2>1, TupleFacts
    <2>4. NoSecond(g.tr)
      BY <2>2, <2>3, OnlyHellos
    <2>5. g.vers = m.vers
      BY <1>6, TakenVersion DEF Takes
    <2> QED
      BY <1>6, <2>1, <2>2, <2>3, <2>4, <2>5 DEF Takes, Settled
  <1>7. CASE Goes("client", g, "cert") /\ Like(h, g, base) /\ Takes(h, g, m)
    <2>1. /\ g.hello = h.hello /\ g.didResume = FALSE /\ g.asked = FALSE /\ g.cert = NoCert
          /\ g.share = NoShare
      BY <1>4, <1>7, BlankFields DEF Like, ClientBegins
    <2>2. /\ Settled(g) /\ g.ems = g.serverHello.ems /\ Types(g.tr) = Hellos
          /\ NoSecond(g.tr)
      BY <1>6, <1>7, <2>1
    <2>3. ClientReads(g, "cert")
      BY <2>1, <2>2 DEF ClientReads
    <2>4. At("client")' = "cert"
      BY <1>2, <1>3, <1>7, AtFacts
    <2> QED
      BY <2>2, <2>3, <2>4 DEF ClientAt, Reading1, Closing, g
  <1>8. CASE /\ Like(h, g, base \cup more)
             /\ Goes("client", g, IF m.tickets THEN "ticket" ELSE "ccs")
             /\ g.didResume = TRUE /\ g.peer = h.sess.peer
             /\ Takes(h, g, m) /\ g.secret = h.sess.secret /\ NextKeys("client", g)
    <2> DEFINE w == IF m.tickets THEN "ticket" ELSE "ccs"
    <2>1. g.hello = h.hello /\ g.sess = h.sess
      BY <1>8, BlankFields DEF Like
    <2>2. /\ Settled(g) /\ g.ems = g.serverHello.ems /\ Types(g.tr) = Hellos
      BY <1>6, <1>8, <2>1
    <2>3. g.serverHello = m
      BY <1>8 DEF Takes
    <2>4. At("client")' = w
      BY <1>2, <1>3, <1>8, AtFacts
    <2>5. Protected("client", g, w)
      BY <1>8 DEF Protected, NextKeys, Peer
    <2>6. (m.tickets /\ w # "ticket") = FALSE
      OBVIOUS
    <2>7. Renewed(m.tickets /\ w # "ticket") = Hellos
      BY <2>6, ShapeCloses
    <2>8. ClientCloses(g, w)
      BY <1>8, <2>1, <2>2, <2>3, <2>5, <2>7 DEF ClientCloses
    <2>9. w \in Closing /\ w \notin {"hello", "cert"} \cup Reading1
      BY DEF Closing, Reading1
    <2> HIDE DEF w
    <2> QED
      BY <2>2, <2>4, <2>8, <2>9 DEF ClientAt, g
  <1> QED
    BY <1>1, <1>5, <1>7, <1>8


\* The certificate of the server is the third message.
LEMMA CertificatePlaced ==
    ASSUME NEW h, NEW g, NEW m, IsSeq(h.tr), ClientAt(h, "cert"), Noted(h, g, m, {"peer"}),
           m.t = "certificate", g.peer = m.cert
    PROVE  ClientAt(g, "status")
  <1>1. Settled(h) /\ h.ems = h.serverHello.ems /\ ClientReads(h, "cert")
    BY DEF ClientAt, Reading1
  <1>2. /\ Types(h.tr) = Hellos /\ h.share = NoShare /\ h.cert = NoCert /\ h.asked = FALSE
        /\ h.didResume = FALSE
    BY <1>1 DEF ClientReads
  <1>3. Len(h.tr) = 2 /\ NoSecond(h.tr) /\ ~Has(h.tr, "certificateStatus")
        /\ ~Has(h.tr, "serverKeyExchange")
    BY <1>2, OnlyHellos
  <1> DEFINE F == {"peer"}
  <1>4. Noted(h, g, m, F) /\ \A f \in Core : f \notin F
    BY DEF Core
  <1> HIDE DEF F
  <1>5. /\ Settled(g)
        /\ Types(g.tr) = Types(h.tr) \o <<m.t>>
        /\ Has(g.tr, m.t) = TRUE
        /\ \A x : x # m.t => Has(g.tr, x) = Has(h.tr, x)
        /\ NoSecond(h.tr) /\ Len(h.tr) < 3 => NoSecond(g.tr)
    BY <1>1, <1>4, NotedMore
  <1>6. /\ g.ems = h.ems /\ g.serverHello = h.serverHello /\ g.share = h.share
        /\ g.cert = h.cert /\ g.asked = h.asked /\ g.didResume = h.didResume
        /\ g.suite = h.suite
    BY BlankFields DEF Noted, Like
  <1>7. Third(g, g.peer)
    <2>1. g.tr = Append(h.tr, m)
      BY DEF Noted
    <2>2. Len(g.tr) = Len(h.tr) + 1 /\ g.tr[Len(h.tr) + 1] = m
      BY <2>1, AppendAt
    <2>3. Len(g.tr) = 3 /\ g.tr[3] = m
      BY <1>3, <2>2
    <2> QED
      BY <2>3 DEF Third
  <1>8. Types(g.tr) = <<"clientHello", "serverHello", "certificate">>
    BY <1>2, <1>5, Triple DEF Hellos
  <1>9. ~Has(g.tr, "certificateStatus") /\ ~Has(g.tr, "serverKeyExchange") /\ ~Status(g)
    BY <1>3, <1>5 DEF Status
  <1>10. Types(g.tr) = Asked(Status(g), Has(g.tr, "serverKeyExchange"), g.asked)
    <2>1. Status(g) = FALSE /\ Has(g.tr, "serverKeyExchange") = FALSE
      BY <1>9 DEF Status, Has
    <2> QED
      BY <1>2, <1>6, <1>8, <2>1, ShapeGrows
  <1>11. NoSecond(g.tr)
    BY <1>3, <1>5
  <1>12. ClientReads(g, "status")
    BY <1>2, <1>6, <1>7, <1>9, <1>10, <1>11 DEF ClientReads
  <1>13. Settled(g) /\ g.ems = g.serverHello.ems
    BY <1>1, <1>5, <1>6
  <1> QED
    BY <1>12, <1>13 DEF ClientAt, Reading1, Closing

\* What a client knows while it reads the server's first flight.
LEMMA ReadsFacts ==
    ASSUME NEW h, NEW w \in Reading1, ClientAt(h, w)
    PROVE  /\ Settled(h) /\ h.ems = h.serverHello.ems /\ ClientReads(h, w)
           /\ w # "cert" /\ Third(h, h.peer) /\ Len(h.tr) >= 3
  BY DEF ClientAt, Reading1, ClientReads, Third

\* A CertificateStatus only where it was announced, and at once.
LEMMA StatusPlaced ==
    ASSUME NEW h, NEW g, NEW m, IsSeq(h.tr), ClientAt(h, "status"), Noted(h, g, m, {}),
           m.t = "certificateStatus", h.serverHello.ocsp
    PROVE  ClientAt(g, "verify")
  <1>1. Settled(h) /\ h.ems = h.serverHello.ems /\ ClientReads(h, "status")
        /\ Third(h, h.peer)
    BY ReadsFacts DEF Reading1
  <1>2. /\ ~Has(h.tr, "certificateStatus") /\ ~Has(h.tr, "serverKeyExchange") /\ h.cert = NoCert
        /\ h.asked = FALSE /\ h.didResume = FALSE /\ NoSecond(h.tr) /\ h.share = NoShare
        /\ Types(h.tr) = Asked(Status(h), Has(h.tr, "serverKeyExchange"), h.asked)
    BY <1>1 DEF ClientReads
  <1> DEFINE F == {}
  <1>3. Noted(h, g, m, F) /\ \A f \in Core : f \notin F
    OBVIOUS
  <1> HIDE DEF F
  <1>4. /\ Settled(g)
        /\ \A c : Third(h, c) => Third(g, c)
        /\ Types(g.tr) = Types(h.tr) \o <<m.t>>
        /\ Has(g.tr, m.t) = TRUE
        /\ \A x : x # m.t => Has(g.tr, x) = Has(h.tr, x)
        /\ NoSecond(h.tr) <=> NoSecond(g.tr)
    <2>1. m.t # "certificate"
      OBVIOUS
    <2>2. Has(g.tr, m.t) = TRUE /\ \A x : x # m.t => Has(g.tr, x) = Has(h.tr, x)
      BY <1>3, NotedHas
    <2>3. /\ Settled(g)
          /\ NoSecond(h.tr) <=> NoSecond(g.tr)
          /\ \A c : Third(h, c) => Third(g, c)
          /\ Types(g.tr) = Types(h.tr) \o <<m.t>>
          /\ m.t # "certificateStatus" => Status(g) = Status(h)
      BY <1>1, <1>3, <2>1, NotedMore
    <2> QED
      BY <2>1, <2>2, <2>3
  <1>5. /\ g.ems = h.ems /\ g.serverHello = h.serverHello /\ g.share = h.share
        /\ g.cert = h.cert /\ g.asked = h.asked /\ g.didResume = h.didResume
        /\ g.peer = h.peer
    BY BlankFields DEF Noted, Like
  <1>6. ~Status(h) /\ Status(g) /\ ~Has(g.tr, "serverKeyExchange")
    BY <1>2, <1>4, <1>5 DEF Status
  <1>7. Types(g.tr) = Asked(Status(g), Has(g.tr, "serverKeyExchange"), g.asked)
    <2>1. Status(h) = FALSE /\ Status(g) = TRUE
      BY <1>2, <1>4, <1>5 DEF Status
    <2>2. Has(h.tr, "serverKeyExchange") = FALSE /\ Has(g.tr, "serverKeyExchange") = FALSE
      BY <1>2, <1>4 DEF Has
    <2> QED
      BY <1>2, <1>4, <1>5, <2>1, <2>2, ShapeGrows
  <1>8. ClientReads(g, "verify")
    BY <1>1, <1>2, <1>4, <1>5, <1>6, <1>7 DEF ClientReads
  <1> QED
    BY <1>1, <1>4, <1>5, <1>8 DEF ClientAt, Reading1, Closing

\* A ServerKeyExchange only in a suite that has one, and only one.
LEMMA KeyExchangePlaced ==
    ASSUME NEW h, NEW g, NEW m, NEW w \in {"status", "verify"}, IsSeq(h.tr), ClientAt(h, w),
           Noted(h, g, m, {"share"}), m.t = "serverKeyExchange", h.suite \in suiteECDHE
    PROVE  ClientAt(g, "certReq")
  <1>1. Settled(h) /\ h.ems = h.serverHello.ems /\ ClientReads(h, w) /\ Third(h, h.peer)
    BY ReadsFacts DEF Reading1
  <1>2. /\ ~Has(h.tr, "serverKeyExchange") /\ h.cert = NoCert
        /\ h.asked = FALSE /\ h.didResume = FALSE /\ NoSecond(h.tr)
        /\ Types(h.tr) = Asked(Status(h), Has(h.tr, "serverKeyExchange"), h.asked)
    BY <1>1 DEF ClientReads
  <1>3. \A f \in Core : f \notin {"share"}
    BY DEF Core
  <1>4. /\ Settled(g)
        /\ \A c : Third(h, c) => Third(g, c)
        /\ Types(g.tr) = Types(h.tr) \o <<m.t>>
        /\ Has(g.tr, m.t) = TRUE
        /\ \A x : x # m.t => Has(g.tr, x) = Has(h.tr, x)
        /\ NoSecond(h.tr) <=> NoSecond(g.tr)
        /\ Status(g) = Status(h)
    BY <1>1, <1>3, NotedMore
  <1>5. /\ g.ems = h.ems /\ g.serverHello = h.serverHello /\ g.suite = h.suite
        /\ g.cert = h.cert /\ g.asked = h.asked /\ g.didResume = h.didResume
        /\ g.peer = h.peer
    BY BlankFields DEF Noted, Like
  <1>6. Has(g.tr, "serverKeyExchange")
    BY <1>4
  <1>7. Types(g.tr) = Asked(Status(g), Has(g.tr, "serverKeyExchange"), g.asked)
    <2>1. Has(h.tr, "serverKeyExchange") = FALSE /\ Has(g.tr, "serverKeyExchange") = TRUE
      BY <1>2, <1>4 DEF Has
    <2> QED
      BY <1>2, <1>4, <1>5, <2>1, ShapeGrows
  <1>8. ClientReads(g, "certReq")
    BY <1>1, <1>2, <1>4, <1>5, <1>6, <1>7 DEF ClientReads
  <1> QED
    BY <1>1, <1>4, <1>5, <1>8 DEF ClientAt, Reading1, Closing

\* A CertificateRequest once, after what there is of the rest.
LEMMA CertRequestPlaced ==
    ASSUME NEW h, NEW g, NEW m, NEW w \in {"status", "verify", "certReq"}, IsSeq(h.tr),
           ClientAt(h, w), Noted(h, g, m, {"asked", "cert"}), m.t = "certificateRequest",
           g.asked = TRUE
    PROVE  ClientAt(g, "helloDone")
  <1>1. Settled(h) /\ h.ems = h.serverHello.ems /\ ClientReads(h, w) /\ Third(h, h.peer)
        /\ w \in Reading1
    BY ReadsFacts DEF Reading1
  <1>2. /\ h.asked = FALSE /\ h.didResume = FALSE /\ NoSecond(h.tr)
        /\ Types(h.tr) = Asked(Status(h), Has(h.tr, "serverKeyExchange"), h.asked)
        /\ Has(h.tr, "serverKeyExchange") => h.suite \in suiteECDHE
        /\ h.share # NoShare => Has(h.tr, "serverKeyExchange")
    BY <1>1 DEF ClientReads
  <1> DEFINE F == {"asked", "cert"}
  <1>3. Noted(h, g, m, F) /\ \A f \in Core : f \notin F
    BY DEF Core
  <1> HIDE DEF F
  <1>4. /\ Settled(g)
        /\ \A c : Third(h, c) => Third(g, c)
        /\ Types(g.tr) = Types(h.tr) \o <<m.t>>
        /\ Has(g.tr, m.t) = TRUE
        /\ \A x : x # m.t => Has(g.tr, x) = Has(h.tr, x)
        /\ NoSecond(h.tr) <=> NoSecond(g.tr)
        /\ Status(g) = Status(h)
    <2>1. m.t # "certificate" /\ m.t # "certificateStatus"
      OBVIOUS
    <2>2. Has(g.tr, m.t) = TRUE /\ \A x : x # m.t => Has(g.tr, x) = Has(h.tr, x)
      BY <1>3, NotedHas
    <2>3. /\ Settled(g)
          /\ NoSecond(h.tr) <=> NoSecond(g.tr)
          /\ \A c : Third(h, c) => Third(g, c)
          /\ Types(g.tr) = Types(h.tr) \o <<m.t>>
          /\ m.t # "certificateStatus" => Status(g) = Status(h)
      BY <1>1, <1>3, <2>1, NotedMore
    <2> QED
      BY <2>1, <2>2, <2>3
  <1>5. /\ g.ems = h.ems /\ g.serverHello = h.serverHello /\ g.suite = h.suite
        /\ g.didResume = h.didResume /\ g.peer = h.peer /\ g.share = h.share
    BY BlankFields DEF Noted, Like
  <1>6. Has(g.tr, "serverKeyExchange") <=> Has(h.tr, "serverKeyExchange")
    BY <1>4
  <1>7. Types(g.tr) = Asked(Status(g), Has(g.tr, "serverKeyExchange"), g.asked)
    <2>1. Has(h.tr, "serverKeyExchange") = Has(g.tr, "serverKeyExchange")
      BY <1>4
    <2> QED
      BY <1>2, <1>4, <2>1, ShapeGrows
  <1>8. ClientReads(g, "helloDone")
    BY <1>1, <1>2, <1>4, <1>5, <1>6, <1>7 DEF ClientReads
  <1> QED
    BY <1>1, <1>4, <1>5, <1>8 DEF ClientAt, Reading1, Closing

\* A ticket where it was announced.
LEMMA TicketPlaced ==
    ASSUME NEW h, NEW g, NEW m, IsSeq(h.tr), ClientAt(h, "ticket"),
           Noted(h, g, m, {"ticket"}), m.t = "newSessionTicket"
    PROVE  ClientAt(g, "ccs")
  <1> DEFINE k == h.suite \in suiteECDHE
             p == h.cert # NoCert
  <1>1. /\ Settled(h) /\ h.ems = h.serverHello.ems /\ ClientCloses(h, "ticket")
        /\ h.serverHello.tickets
    BY DEF ClientAt, Closing, ClientCloses
  <1>2. \A f \in Core : f \notin {"ticket"}
    BY DEF Core
  <1>3. /\ Settled(g)
        /\ \A c : Third(h, c) => Third(g, c)
        /\ Types(g.tr) = Types(h.tr) \o <<m.t>>
        /\ \A c : Second(h.tr, c) => Second(g.tr, c)
        /\ Status(g) = Status(h)
    BY <1>1, <1>2, NotedMore
  <1>4. /\ g.ems = h.ems /\ g.serverHello = h.serverHello /\ g.suite = h.suite
        /\ g.didResume = h.didResume /\ g.peer = h.peer /\ g.secret = h.secret
        /\ g.sess = h.sess /\ g.cert = h.cert /\ g.asked = h.asked /\ g.hello = h.hello
        /\ g.inNext = h.inNext /\ g.in = h.in /\ g.out = h.out /\ g.outNext = h.outNext
    BY BlankFields DEF Noted, Like
  <1>5. Protected("client", g, "ccs")
    <2>1. \A s : TrafficKey(s, g) = TrafficKey(s, h)
      BY <1>4, SameTraffic
    <2>2. Protected("client", h, "ticket")
      BY <1>1 DEF ClientCloses
    <2> QED
      BY <1>4, <2>1, <2>2 DEF Protected
  <1>6. (h.serverHello.tickets /\ "ticket" # "ticket") = FALSE
        /\ (g.serverHello.tickets /\ "ccs" # "ticket") = TRUE
    BY <1>1, <1>4
  <1>7. ASSUME h.didResume PROVE Types(g.tr) = Renewed(TRUE)
    BY <1>1, <1>3, <1>6, <1>7, ShapeCloses DEF ClientCloses
  <1>8. ASSUME ~h.didResume
        PROVE  Types(g.tr) = Ticketed(Status(g), k, h.asked, p, TRUE)
    <2>1. Types(h.tr) = Ticketed(Status(h), k, h.asked, p, FALSE)
      BY <1>1, <1>6, <1>8 DEF ClientCloses
    <2> HIDE DEF k, p
    <2>2. Ticketed(Status(g), k, h.asked, p, FALSE) \o <<"newSessionTicket">> =
              Ticketed(Status(g), k, h.asked, p, TRUE)
      BY ShapeCloses
    <2> QED
      BY <1>3, <2>1, <2>2
  <1>9. ClientCloses(g, "ccs")
    BY <1>1, <1>3, <1>4, <1>5, <1>6, <1>7, <1>8 DEF ClientCloses
  <1> QED
    BY <1>1, <1>3, <1>4, <1>9 DEF ClientAt, Reading1, Closing


\* A message type is in a transcript if a message of it is.
LEMMA HasElems == \A t, x : Has(t, x) = \E y \in Elems(t) : y.t = x
  BY DEF Has, Elems

\* The transcript after the client's second flight.
LEMMA AnswerFacts ==
    ASSUME NEW h, NEW g, NEW m, NEW M, NEW certs, NEW ckx, NEW proof, NEW fin, NEW b, NEW k,
           IsSeq(h.tr), Len(h.tr) >= 3, NoSecond(h.tr), h.asked \in BOOLEAN,
           ~h.asked => h.cert = NoCert, m.t = "serverHelloDone",
           Types(h.tr) = Asked(b, k, h.asked),
           AnswersWith(h, g, m, M, certs, ckx, proof, fin)
    PROVE  /\ IsSeq(g.tr) /\ Begins(h.tr, g.tr) /\ Second(g.tr, h.cert)
           /\ Types(g.tr) = Closed(b, k, h.asked, h.cert # NoCert)
           /\ Has(g.tr, "certificateStatus") = Has(h.tr, "certificateStatus")
  <1> DEFINE ce == [t |-> "certificate", cert |-> h.cert]
             t1 == Append(h.tr, m)
             t2 == t1 \o certs
             t3 == t2 \o <<ckx>>
             x == t3 \o proof
  <1>1. /\ h.asked => certs = <<ce>>
        /\ ~h.asked => certs = <<>>
        /\ ckx.t = "clientKeyExchange"
        /\ h.cert = NoCert => proof = <<>>
        /\ h.cert # NoCert => \E v : proof = <<v>> /\ v.t = "certificateVerify"
        /\ fin.t = "finished" /\ g.tr = Append(x, fin)
    BY DEF AnswersWith
  <1>2. ce.t = "certificate" /\ ce.cert = h.cert
    OBVIOUS
  <1>3. /\ IsSeq(certs) /\ (\A y \in Elems(certs) : y.t = "certificate")
        /\ h.asked => Types(certs) = <<"certificate">>
        /\ ~h.asked => Types(certs) = <<>>
    BY <1>1, <1>2, TupleFacts, TypesTuples
  <1>4. /\ IsSeq(proof) /\ (\A y \in Elems(proof) : y.t = "certificateVerify")
        /\ h.cert = NoCert => Types(proof) = <<>>
        /\ h.cert # NoCert => Types(proof) = <<"certificateVerify">>
    <2>1. CASE h.cert = NoCert
      BY <1>1, <2>1, TupleFacts, TypesTuples
    <2>2. CASE h.cert # NoCert
      <3>1. PICK v : proof = <<v>> /\ v.t = "certificateVerify"
        BY <1>1, <2>2
      <3> QED
        BY <2>2, <3>1, TupleFacts, TypesTuples
    <2> QED
      BY <2>1, <2>2
  <1>5. IsSeq(<<ckx>>) /\ Elems(<<ckx>>) = {ckx} /\ Types(<<ckx>>) = <<"clientKeyExchange">>
    BY <1>1, TupleFacts, TypesTuples
  <1>6. /\ IsSeq(t1) /\ Len(t1) >= 3 /\ NoSecond(t1) /\ Begins(h.tr, t1)
        /\ Elems(t1) = Elems(h.tr) \cup {m} /\ Types(t1) = Flown(b, k, h.asked)
    <2>1. /\ IsSeq(t1) /\ Len(t1) = Len(h.tr) + 1 /\ Len(h.tr) \in Nat
          /\ NoSecond(h.tr) => NoSecond(t1)
      BY LongerByOne
    <2>2. Types(t1) = Types(h.tr) \o <<m.t>>
      BY LongerByOne
    <2>3. Elems(t1) = Elems(h.tr) \cup {m} /\ Begins(h.tr, t1)
      BY SeqFacts, BeginsFacts
    <2> QED
      BY <2>1, <2>2, <2>3 DEF Flown
  <1> HIDE DEF t1, ce
  <1>7. /\ IsSeq(t2) /\ Begins(t1, t2) /\ Second(t2, h.cert)
        /\ Elems(t2) = Elems(t1) \cup Elems(certs) /\ Types(t2) = Answered(b, k, h.asked)
    <2>1. IsSeq(t2) /\ Begins(t1, t2) /\ Elems(t2) = Elems(t1) \cup Elems(certs)
      BY <1>3, <1>6, ConcatFacts, BeginsFacts
    <2>2. Types(t2) = Flown(b, k, h.asked) \o Types(certs)
      BY <1>3, <1>6, TypesJoin
    <2>3. CASE h.asked = TRUE
      <3>1. t2 = Append(t1, ce)
        BY <1>1, <1>6, <2>3, AppendJoin
      <3>2. Second(Append(t1, ce), ce.cert)
        BY <1>2, <1>6, LongerByOne
      <3>3. Types(t2) = Answered(b, k, h.asked)
        BY <1>3, <2>2, <2>3, ShapeCloses
      <3> QED
        BY <1>2, <2>1, <3>1, <3>2, <3>3
    <2>4. CASE h.asked = FALSE
      <3>1. t2 = t1
        BY <1>1, <1>6, <2>4, AppendJoin
      <3>2. Second(t1, NoCert)
        BY <1>6 DEF Second, NoSecond
      <3>3. Types(t2) = Answered(b, k, h.asked)
        BY <1>6, <2>4, <3>1, ShapeCloses
      <3> QED
        BY <2>1, <2>4, <3>1, <3>2, <3>3
    <2> QED
      BY <2>3, <2>4
  <1> HIDE DEF t2
  <1>8. /\ IsSeq(t3) /\ Begins(t2, t3) /\ Second(t3, h.cert)
        /\ Elems(t3) = Elems(t2) \cup {ckx} /\ Types(t3) = Exchanged(b, k, h.asked)
    <2>1. \A y \in Elems(<<ckx>>) : y.t # "certificate"
      BY <1>1, <1>5
    <2>2. IsSeq(t3) /\ Begins(t2, t3) /\ Elems(t3) = Elems(t2) \cup {ckx}
      BY <1>5, <1>7, ConcatFacts, BeginsFacts
    <2>3. Types(t3) = Types(t2) \o Types(<<ckx>>)
      BY <1>5, <1>7, TypesJoin
    <2>4. Second(t3, h.cert)
      BY <1>5, <1>7, <2>1, Longer
    <2> QED
      BY <1>5, <1>7, <2>2, <2>3, <2>4 DEF Exchanged
  <1> HIDE DEF t3
  <1>9. /\ IsSeq(x) /\ Begins(t3, x) /\ Second(x, h.cert)
        /\ Elems(x) = Elems(t3) \cup Elems(proof)
        /\ Types(x) = Signed(b, k, h.asked, h.cert # NoCert)
    <2>1. \A y \in Elems(proof) : y.t # "certificate"
      BY <1>4
    <2>2. IsSeq(x) /\ Begins(t3, x) /\ Elems(x) = Elems(t3) \cup Elems(proof)
      BY <1>4, <1>8, ConcatFacts, BeginsFacts
    <2>3. Types(x) = Types(t3) \o Types(proof)
      BY <1>4, <1>8, TypesJoin
    <2>4. Second(x, h.cert)
      BY <1>4, <1>8, <2>1, Longer
    <2>5. CASE h.cert = NoCert
      <3>1. (h.cert # NoCert) = FALSE /\ x = t3
        BY <1>1, <1>8, <2>5, AppendJoin
      <3> QED
        BY <1>8, <2>2, <2>4, <3>1, ShapeCloses
    <2>6. CASE h.cert # NoCert
      <3>1. (h.cert # NoCert) = TRUE /\ Types(proof) = <<"certificateVerify">>
        BY <1>4, <2>6
      <3>2. Signed(b, k, h.asked, TRUE) = Exchanged(b, k, h.asked) \o <<"certificateVerify">>
        BY ShapeCloses
      <3> QED
        BY <1>8, <2>2, <2>3, <2>4, <3>1, <3>2
    <2> QED
      BY <2>5, <2>6
  <1> HIDE DEF x
  <1>10. /\ IsSeq(g.tr) /\ Begins(x, g.tr) /\ Second(g.tr, h.cert)
         /\ Elems(g.tr) = Elems(x) \cup {fin}
         /\ Types(g.tr) = Closed(b, k, h.asked, h.cert # NoCert)
    <2>1. IsSeq(g.tr) /\ Elems(g.tr) = Elems(x) \cup {fin} /\ Begins(x, g.tr)
      BY <1>1, <1>9, SeqFacts, BeginsFacts
    <2>2. Types(g.tr) = Types(x) \o <<fin.t>> /\ Second(g.tr, h.cert)
      BY <1>1, <1>9, LongerByOne
    <2> QED
      BY <1>1, <1>9, <2>1, <2>2 DEF Closed
  <1>11. Begins(h.tr, g.tr)
    <2>1. Begins(h.tr, t2)
      BY <1>6, <1>7, BeginsFacts
    <2>2. Begins(h.tr, t3)
      BY <1>7, <1>8, <2>1, BeginsFacts
    <2>3. Begins(h.tr, x)
      BY <1>8, <1>9, <2>2, BeginsFacts
    <2> QED
      BY <1>9, <1>10, <2>3, BeginsFacts
  <1>12. Has(g.tr, "certificateStatus") = Has(h.tr, "certificateStatus")
    <2>1. \A y \in Elems(g.tr) : y.t = "certificateStatus" => y \in Elems(h.tr)
      BY <1>1, <1>3, <1>4, <1>6, <1>7, <1>8, <1>9, <1>10
    <2>2. Elems(h.tr) \subseteq Elems(g.tr)
      BY <1>6, <1>7, <1>8, <1>9, <1>10
    <2> QED
      BY <2>1, <2>2, HasElems
  <1> QED
    BY <1>10, <1>11, <1>12

\* The second flight follows a first flight that had what its suite needs.
LEMMA HelloDonePlaced ==
    ASSUME IInv, Placed, "client" \notin Free, ClientHelloDone
    PROVE  ClientAt(hs'["client"], At("client")')
  <1> DEFINE h == hs["client"]
             g == hs'["client"]
             m == Msg("client")
             w == IF h.serverHello.tickets THEN "ticket" ELSE "ccs"
             F == {"tr", "verified", "secret", "inNext", "out", "outNext"}
             k == h.suite \in suiteECDHE
  <1>1. /\ Reads("client", Reading1, "serverHelloDone")
        /\ Failed("client") \/ \E M : Answers(h, g, m, M)
        /\ \/ Failed("client")
           \/ /\ Goes("client", g, w) /\ ClientCanExchange(h) /\ Like(h, g, F)
              /\ g.inNext = TrafficKey("server", g) /\ g.out = TrafficKey("client", g)
    BY HelloDoneEffect DEF IInv, Reading1
  <1>2. Frame /\ "client" \in Sides
    BY DEF IInv, Sides
  <1>3. /\ pc["client"] \in Reading1 /\ pc["client"] # "ended" /\ m.t = "serverHelloDone"
        /\ IsSeq(h.tr)
    BY <1>1, <1>2, ReadingFacts
  <1>4. CASE Failed("client")
    BY <1>2, <1>3, <1>4, AtFacts, Nowhere
  <1>5. CASE ~Failed("client")
    <2>1. /\ Goes("client", g, w) /\ ClientCanExchange(h) /\ Like(h, g, F)
          /\ g.inNext = TrafficKey("server", g) /\ g.out = TrafficKey("client", g)
          /\ \E M : Answers(h, g, m, M)
      BY <1>1, <1>5
    <2>2. At("client")' = w
      BY <1>2, <1>3, <2>1, AtFacts
    <2>3. ClientAt(h, pc["client"])
      BY <1>2, <1>3, AtFacts DEF Placed
    <2>4. /\ Settled(h) /\ h.ems = h.serverHello.ems /\ ClientReads(h, pc["client"])
          /\ pc["client"] # "cert" /\ Third(h, h.peer) /\ Len(h.tr) >= 3
      BY <1>3, <2>3, ReadsFacts
    <2> HIDE DEF h, g, m, w, F
    <2>5. /\ h.didResume = FALSE /\ NoSecond(h.tr) /\ h.asked \in BOOLEAN
          /\ ~h.asked => h.cert = NoCert
          /\ Types(h.tr) = Asked(Status(h), Has(h.tr, "serverKeyExchange"), h.asked)
          /\ Has(h.tr, "serverKeyExchange") => h.suite \in suiteECDHE
          /\ h.share # NoShare => Has(h.tr, "serverKeyExchange")
      BY <2>4 DEF ClientReads
    <2>6. Has(h.tr, "serverKeyExchange") = k
      <3>1. k => h.share # NoShare
        BY <2>1 DEF ClientCanExchange, NoShare
      <3>2. k <=> Has(h.tr, "serverKeyExchange")
        BY <2>5, <3>1
      <3>3. CASE k
        <4>1. Has(h.tr, "serverKeyExchange") = TRUE /\ k = TRUE
          BY <3>2, <3>3 DEF Has
        <4> QED
          BY <4>1
      <3>4. CASE ~k
        <4>1. Has(h.tr, "serverKeyExchange") = FALSE /\ k = FALSE
          BY <3>2, <3>4 DEF Has
        <4> QED
          BY <4>1
      <3> QED
        BY <3>3, <3>4
    <2>7. Types(h.tr) = Asked(Status(h), k, h.asked)
      BY <2>5, <2>6
    <2> HIDE DEF k
    <2>8. PICK M, certs, ckx, proof, fin : AnswersWith(h, g, m, M, certs, ckx, proof, fin)
      BY <2>1 DEF Answers
    <2>9. /\ IsSeq(g.tr) /\ Begins(h.tr, g.tr) /\ Second(g.tr, h.cert)
          /\ Types(g.tr) = Closed(Status(h), k, h.asked, h.cert # NoCert)
          /\ Has(g.tr, "certificateStatus") = Has(h.tr, "certificateStatus")
      BY <1>3, <2>4, <2>5, <2>7, <2>8, AnswerFacts
    <2>10. /\ g.hello = h.hello /\ g.serverHello = h.serverHello /\ g.vers = h.vers
           /\ g.suite = h.suite /\ g.alpn = h.alpn /\ g.didResume = h.didResume
           /\ g.ems = h.ems /\ g.peer = h.peer /\ g.cert = h.cert /\ g.asked = h.asked
      BY <2>1, BlankFields DEF Like, F
    <2>11. Settled(g) /\ Third(g, g.peer)
      <3>1. SameCore(h, g) /\ Len(h.tr) \in Nat /\ Len(g.tr) \in Nat
        BY <1>3, <2>9, <2>10, SeqFacts DEF SameCore
      <3> QED
        BY <2>4, <2>9, <2>10, <3>1, Stays
    <2>12. Status(g) = Status(h)
      BY <2>9, <2>10 DEF Status
    <2>13. w \in Closing /\ w \notin {"hello", "cert", "done"} \cup Reading1
           /\ (g.serverHello.tickets /\ w # "ticket") = FALSE
           /\ (w = "ticket" => g.serverHello.tickets) /\ w \in {"ticket", "ccs"}
      BY <2>10 DEF w, Closing, Reading1
    <2>14. Protected("client", g, w)
      BY <2>1, <2>5, <2>10, <2>13 DEF Protected, Peer
    <2>15. Types(g.tr) = Ticketed(Status(g), g.suite \in suiteECDHE, g.asked, g.cert # NoCert, FALSE)
      <3>1. (g.suite \in suiteECDHE) = k /\ (g.cert # NoCert) = (h.cert # NoCert)
        BY <2>10 DEF k
      <3>2. Ticketed(Status(h), k, h.asked, h.cert # NoCert, FALSE) =
               Closed(Status(h), k, h.asked, h.cert # NoCert)
        BY ShapeCloses
      <3> QED
        BY <2>9, <2>10, <2>12, <3>1, <3>2
    <2>16. ClientCloses(g, w)
      BY <2>5, <2>9, <2>10, <2>11, <2>13, <2>14, <2>15 DEF ClientCloses
    <2>17. ClientAt(g, w)
      BY <2>4, <2>10, <2>11, <2>13, <2>16 DEF ClientAt
    <2> QED
      BY <2>2, <2>17 DEF g
  <1> QED
    BY <1>4, <1>5


\* A side that has read the other's Finished and sent its own, after pre.
LEMMA CompletesMore ==
    ASSUME NEW s, NEW h, NEW g, NEW m, NEW pre, IsSeq(h.tr), m.t = "finished",
           Completes(s, h, g, m, pre), IsSeq(pre),
           \A y \in Elems(pre) : y.t = "newSessionTicket"
    PROVE  /\ SameCore(h, g) /\ Begins(h.tr, g.tr) /\ IsSeq(g.tr)
           /\ Types(g.tr) = ((Types(h.tr) \o <<"finished">>) \o Types(pre)) \o <<"finished">>
           /\ Status(g) = Status(h)
           /\ \A c : Second(h.tr, c) => Second(g.tr, c)
           /\ Settled(h) => Settled(g)
           /\ \A c : Third(h, c) => Third(g, c)
           /\ Len(h.tr) >= 3 => Len(g.tr) >= 3 /\ g.tr[3] = h.tr[3]
           /\ g.secret = h.secret /\ g.ems = h.ems /\ g.peer = h.peer /\ g.sess = h.sess
           /\ g.cert = h.cert /\ g.asked = h.asked /\ g.in = h.in /\ g.out = h.outNext
  <1> DEFINE fin == [t |-> "finished",
                     verify |-> <<"finished", s, h.secret, Append(h.tr, m) \o pre>>]
             t1 == Append(h.tr, m)
             t2 == t1 \o pre
  <1>1. /\ Like(h, g, {"tr", "out", "outNext"}) /\ g.out = h.outNext /\ IsSeq(g.tr)
        /\ g.tr = Append(t2, fin) /\ Elems(g.tr) = Elems(h.tr) \cup {m} \cup Elems(pre) \cup {fin}
    BY DEF Completes
  <1>2. fin.t = "finished"
    OBVIOUS
  <1> HIDE DEF fin
  <1>3. /\ SameCore(h, g)
        /\ g.secret = h.secret /\ g.ems = h.ems /\ g.peer = h.peer /\ g.sess = h.sess
        /\ g.cert = h.cert /\ g.asked = h.asked /\ g.in = h.in
    BY <1>1, BlankFields DEF Like, SameCore
  <1>4. /\ IsSeq(t1) /\ Begins(h.tr, t1) /\ Types(t1) = Types(h.tr) \o <<"finished">>
        /\ \A c : Second(h.tr, c) => Second(t1, c)
    BY LongerByOne, BeginsFacts
  <1> HIDE DEF t1
  <1>5. /\ IsSeq(t2) /\ Begins(t1, t2) /\ Types(t2) = Types(t1) \o Types(pre)
        /\ \A c : Second(t1, c) => Second(t2, c)
    BY <1>4, Longer, BeginsFacts
  <1> HIDE DEF t2
  <1>6. /\ Begins(t2, g.tr) /\ Types(g.tr) = Types(t2) \o <<"finished">>
        /\ \A c : Second(t2, c) => Second(g.tr, c)
    <2>1. Begins(t2, g.tr)
      BY <1>1, <1>5, BeginsFacts
    <2>2. Types(g.tr) = Types(t2) \o <<fin.t>>
      BY <1>1, <1>5, LongerByOne
    <2>3. \A c : Second(t2, c) => Second(g.tr, c)
      <3>1. fin.t # "certificate"
        BY <1>2
      <3>2. \A c : Second(t2, c) => Second(Append(t2, fin), c)
        BY <1>5, <3>1, LongerByOne
      <3> QED
        BY <1>1, <3>2
    <2> QED
      BY <1>2, <2>1, <2>2, <2>3
  <1>7. Begins(h.tr, g.tr)
    <2>1. Begins(h.tr, t2)
      BY <1>4, <1>5, BeginsFacts
    <2> QED
      BY <1>1, <1>5, <1>6, <2>1, BeginsFacts
  <1>8. Status(g) = Status(h)
    <2>1. Has(g.tr, "certificateStatus") = Has(h.tr, "certificateStatus")
      BY <1>1, <1>2, HasElems
    <2> QED
      BY <1>3, <2>1 DEF Status, SameCore
  <1>9. Len(h.tr) \in Nat /\ Len(g.tr) \in Nat
    BY <1>1, SeqFacts
  <1>10. /\ Settled(h) => Settled(g)
         /\ \A c : Third(h, c) => Third(g, c)
         /\ Len(h.tr) >= 3 => Len(g.tr) >= 3 /\ g.tr[3] = h.tr[3]
    BY <1>3, <1>7, <1>9, Stays
  <1> QED
    BY <1>1, <1>3, <1>4, <1>5, <1>6, <1>7, <1>8, <1>10

\* A client that is done has seen the server's Finished where it belongs.
LEMMA ClientFinishedPlaced ==
    ASSUME IInv, Placed, "client" \notin Free, ClientFinished
    PROVE  ClientAt(hs'["client"], At("client")')
  <1> DEFINE h == hs["client"]
             g == hs'["client"]
             m == Msg("client")
             t == h.serverHello.tickets
             k == h.suite \in suiteECDHE
             p == h.cert # NoCert
  <1>1. /\ Reads("client", {"finished"}, "finished")
        /\ \/ Failed("client")
           \/ /\ Goes("client", g, "ended")
              /\ \/ ~h.didResume /\ Noted(h, g, m, {})
                 \/ h.didResume /\ Completes("client", h, g, m, <<>>)
    BY ClientFinishedEffect DEF IInv
  <1>2. Frame /\ "client" \in Sides
    BY DEF IInv, Sides
  <1>3. pc["client"] = "finished" /\ m.t = "finished" /\ IsSeq(h.tr)
    BY <1>1, <1>2, ReadingFacts
  <1>4. CASE Failed("client")
    BY <1>2, <1>3, <1>4, AtFacts, Nowhere
  <1>5. ClientAt(h, "finished")
    BY <1>2, <1>3, AtFacts DEF Placed
  <1>6. /\ Settled(h) /\ h.ems = h.serverHello.ems /\ ClientCloses(h, "finished")
    BY <1>5 DEF ClientAt, Closing
  <1>7. /\ Renewed(t /\ "finished" # "ticket") = Renewed(t)
        /\ Ticketed(Status(h), k, h.asked, p, t /\ "finished" # "ticket") =
              Ticketed(Status(h), k, h.asked, p, t)
    BY DEF Renewed, Ticketed, Opt
  <1>8. ASSUME Goes("client", g, "ended") PROVE At("client")' = "done"
    BY <1>2, <1>3, <1>8, AtFacts
  <1> HIDE DEF h, g, m
  <1>9. Protected("client", h, "finished")
    BY <1>6 DEF ClientCloses
  <1>10. CASE Goes("client", g, "ended") /\ ~h.didResume /\ Noted(h, g, m, {})
    <2> DEFINE F == {}
    <2>1. Noted(h, g, m, F) /\ \A f \in Core : f \notin F
      BY <1>10
    <2> HIDE DEF F
    <2>2. /\ SameCore(h, g) /\ Settled(g)
          /\ \A c : Third(h, c) => Third(g, c)
          /\ Types(g.tr) = Types(h.tr) \o <<m.t>>
          /\ Status(g) = Status(h)
          /\ \A c : Second(h.tr, c) => Second(g.tr, c)
      <3>1. m.t # "certificate" /\ m.t # "certificateStatus"
        BY <1>3
      <3> QED
        BY <1>3, <1>6, <2>1, <3>1, NotedMore
    <2>3. /\ g.secret = h.secret /\ g.ems = h.ems /\ g.peer = h.peer /\ g.cert = h.cert
          /\ g.asked = h.asked /\ g.in = h.in /\ g.out = h.out
      BY <1>10, BlankFields DEF Noted, Like
    <2>4. Protected("client", g, "done")
      <3>1. \A s : TrafficKey(s, g) = TrafficKey(s, h)
        BY <2>2, <2>3, SameTraffic DEF SameCore
      <3> QED
        BY <1>9, <1>10, <2>2, <2>3, <3>1 DEF Protected, SameCore
    <2>5. Types(g.tr) = Ticketed(Status(h), k, h.asked, p, t) \o <<"finished">>
      BY <1>3, <1>6, <1>7, <1>10, <2>2 DEF ClientCloses
    <2>6. ClientCloses(g, "done")
      BY <1>6, <1>10, <2>2, <2>3, <2>4, <2>5 DEF ClientCloses, SameCore
    <2>7. ClientAt(g, "done")
      BY <1>6, <2>2, <2>3, <2>6 DEF ClientAt, Reading1, Closing, SameCore
    <2> QED
      BY <1>8, <1>10, <2>7 DEF g
  <1>11. CASE Goes("client", g, "ended") /\ h.didResume /\ Completes("client", h, g, m, <<>>)
    <2>1. IsSeq(<<>>) /\ (\A y \in Elems(<<>>) : y.t = "newSessionTicket") /\ Types(<<>>) = <<>>
      BY TupleFacts, TypesTuples
    <2> DEFINE e == <<>>
    <2>2. /\ IsSeq(e) /\ (\A y \in Elems(e) : y.t = "newSessionTicket") /\ Types(e) = <<>>
          /\ Completes("client", h, g, m, e)
      BY <1>11, <2>1
    <2> HIDE DEF e
    <2>3. /\ SameCore(h, g) /\ Settled(g)
          /\ Types(g.tr) = ((Types(h.tr) \o <<"finished">>) \o Types(e)) \o <<"finished">>
          /\ g.secret = h.secret /\ g.ems = h.ems /\ g.peer = h.peer /\ g.sess = h.sess
          /\ g.in = h.in /\ g.out = h.outNext
      BY <1>3, <1>6, <2>2, CompletesMore
    <2>4. Types(h.tr) = Renewed(t)
      BY <1>6, <1>7, <1>11 DEF ClientCloses
    <2>5. Types(g.tr) = Renewed(t) \o <<"finished", "finished">>
      <3>1. IsSeq(Renewed(t)) /\ IsSeq(Renewed(t) \o <<"finished">>)
        BY ShapeSeqs, OptFacts
      <3>2. (Renewed(t) \o <<"finished">>) \o <<>> = Renewed(t) \o <<"finished">>
        BY <3>1, AppendJoin
      <3>3. (Renewed(t) \o <<"finished">>) \o <<"finished">> =
                Renewed(t) \o <<"finished", "finished">>
        BY <3>1, TwoMore
      <3> QED
        BY <2>2, <2>3, <2>4, <3>2, <3>3
    <2>6. Protected("client", g, "done")
      <3>1. \A s : TrafficKey(s, g) = TrafficKey(s, h)
        BY <2>3, SameTraffic DEF SameCore
      <3> QED
        BY <1>9, <1>11, <2>3, <3>1 DEF Protected, SameCore
    <2>7. ClientCloses(g, "done")
      BY <1>6, <1>11, <2>3, <2>5, <2>6 DEF ClientCloses, SameCore
    <2>8. ClientAt(g, "done")
      BY <1>6, <2>3, <2>7 DEF ClientAt, Reading1, Closing, SameCore
    <2> QED
      BY <1>8, <1>11, <2>8 DEF g
  <1> QED
    BY <1>1, <1>4, <1>10, <1>11

\* Every step of a client leaves it where its transcript says.
LEMMA ClientPlaced ==
    ASSUME IInv, Placed, "client" \notin Free, Step("client")
    PROVE  ClientAt(hs'["client"], At("client")') /\ Others("client")
  <1> DEFINE h == hs["client"]
             g == hs'["client"]
             m == Msg("client")
  <1>1. Frame /\ "client" \in Sides /\ DOMAIN h = DOMAIN Blank /\ IsSeq(h.tr)
    BY DEF IInv, Frame, Sides
  <1>2. \A M : Moved("client", M) => Others("client")
    BY DEF Moved
  <1>3. ClientAt(h, At("client"))
    BY DEF Placed
  <1>4. CASE RecordStep("client")
    <2>1. /\ Moved("client", {})
          /\ \/ Failed("client")
             \/ Goes("client", h, pc["client"]) /\ pc["client"] # "ended"
             \/ pc["client"] = "ccs" /\ Goes("client", Switched(h), "finished")
      BY <1>1, <1>4, RecordEffect
    <2>2. ASSUME Failed("client") PROVE ClientAt(g, At("client")')
      BY <2>2, Nowhere DEF Failed, At, Done
    <2>3. ASSUME Goes("client", h, pc["client"]), pc["client"] # "ended"
          PROVE  ClientAt(g, At("client")')
      BY <1>1, <1>3, <2>3, AtFacts
    <2>4. ASSUME pc["client"] = "ccs", Goes("client", Switched(h), "finished")
          PROVE  ClientAt(g, At("client")')
      <3>1. At("client") = "ccs" /\ At("client")' = "finished" /\ g = Switched(h)
        BY <1>1, <2>4, AtFacts
      <3> QED
        BY <1>1, <1>3, <3>1, ClientSwitches
    <2>5. Others("client")
      BY <1>2, <2>1
    <2>6. ClientAt(g, At("client")')
      BY <2>1, <2>2, <2>3, <2>4
    <2> QED
      BY <2>5, <2>6
  <1>5. CASE ClientCannotStart
    <2>1. Moved("client", {}) /\ Failed("client")
      BY <1>1, <1>5, CannotStartEffect
    <2>2. At("client")' = "ended"
      BY <2>1 DEF Failed, At, Done
    <2> QED
      BY <1>2, <2>1, <2>2, Nowhere
  <1>6. CASE ClientStart
    <2>1. \E M : Moved("client", M)
      BY <1>1, <1>6, ClientStartEffect
    <2> QED
      BY <1>2, <1>6, <2>1, ClientStartPlaced
  <1>7. CASE ClientServerHello
    <2>1. \E M : Moved("client", M)
      BY <1>1, <1>7, ServerHelloEffect
    <2> QED
      BY <1>2, <1>7, <2>1, ServerHelloPlaced
  <1>8. CASE \/ ClientCertificate \/ ClientStatus \/ ClientKeyExchange \/ ClientCertRequest
             \/ ClientTicket
    <2>1. \/ Moved("client", {}) /\ Failed("client")
          \/ /\ Reads("client", {"cert"}, "certificate")
             /\ Heard("client", m, {"peer"}, "status") /\ g.peer = m.cert
          \/ /\ Reads("client", {"status"}, "certificateStatus") /\ h.serverHello.ocsp
             /\ Heard("client", m, {}, "verify")
          \/ /\ Reads("client", {"status", "verify"}, "serverKeyExchange")
             /\ Heard("client", m, {"share"}, "certReq") /\ KeyExchangeOk(h, m)
          \/ /\ Reads("client", {"status", "verify", "certReq"}, "certificateRequest")
             /\ Heard("client", m, {"asked", "cert"}, "helloDone") /\ g.asked = TRUE
          \/ /\ Reads("client", {"ticket"}, "newSessionTicket")
             /\ Heard("client", m, {"ticket"}, "ccs")
      BY <1>1, <1>8, ClientReadsEffect
    <2>2. ASSUME NEW F, NEW w, Heard("client", m, F, w), w # "ended", NEW W, NEW x,
                 Reads("client", W, x)
          PROVE  /\ Others("client") /\ Noted(h, g, m, F) /\ At("client")' = w
                 /\ pc["client"] \in W /\ m.t = x /\ ClientAt(h, pc["client"])
      <3>1. pc["client"] \in W /\ m.t = x /\ pc["client"] # "ended"
        BY <1>1, <2>2, ReadingFacts
      <3>2. Moved("client", {}) /\ Goes("client", g, w) /\ Noted(h, g, m, F)
        BY <2>2 DEF Heard
      <3> QED
        BY <1>1, <1>2, <1>3, <2>2, <3>1, <3>2, AtFacts
    <2> HIDE DEF h, g, m
    <2>3. CASE Moved("client", {}) /\ Failed("client")
      <3>1. At("client")' = "ended"
        BY <2>3 DEF Failed, At, Done
      <3> QED
        BY <1>2, <2>3, <3>1, Nowhere
    <2>4. CASE /\ Reads("client", {"cert"}, "certificate")
               /\ Heard("client", m, {"peer"}, "status") /\ g.peer = m.cert
      <3>1. /\ Others("client") /\ Noted(h, g, m, {"peer"}) /\ At("client")' = "status"
            /\ pc["client"] = "cert" /\ m.t = "certificate" /\ ClientAt(h, pc["client"])
        BY <2>2, <2>4
      <3> QED
        BY <1>1, <2>4, <3>1, CertificatePlaced DEF g
    <2>5. CASE /\ Reads("client", {"status"}, "certificateStatus") /\ h.serverHello.ocsp
               /\ Heard("client", m, {}, "verify")
      <3>1. /\ Others("client") /\ Noted(h, g, m, {}) /\ At("client")' = "verify"
            /\ pc["client"] = "status" /\ m.t = "certificateStatus"
            /\ ClientAt(h, pc["client"])
        BY <2>2, <2>5
      <3> QED
        BY <1>1, <2>5, <3>1, StatusPlaced DEF g
    <2>6. CASE /\ Reads("client", {"status", "verify"}, "serverKeyExchange")
               /\ Heard("client", m, {"share"}, "certReq") /\ KeyExchangeOk(h, m)
      <3>1. /\ Others("client") /\ Noted(h, g, m, {"share"}) /\ At("client")' = "certReq"
            /\ pc["client"] \in {"status", "verify"} /\ m.t = "serverKeyExchange"
            /\ ClientAt(h, pc["client"]) /\ h.suite \in suiteECDHE
        BY <2>2, <2>6 DEF KeyExchangeOk
      <3> QED
        BY <1>1, <2>6, <3>1, KeyExchangePlaced DEF g
    <2>7. CASE /\ Reads("client", {"status", "verify", "certReq"}, "certificateRequest")
               /\ Heard("client", m, {"asked", "cert"}, "helloDone") /\ g.asked = TRUE
      <3>1. /\ Others("client") /\ Noted(h, g, m, {"asked", "cert"})
            /\ At("client")' = "helloDone" /\ pc["client"] \in {"status", "verify", "certReq"}
            /\ m.t = "certificateRequest" /\ ClientAt(h, pc["client"])
        BY <2>2, <2>7
      <3> QED
        BY <1>1, <2>7, <3>1, CertRequestPlaced DEF g
    <2>8. CASE /\ Reads("client", {"ticket"}, "newSessionTicket")
               /\ Heard("client", m, {"ticket"}, "ccs")
      <3>1. /\ Others("client") /\ Noted(h, g, m, {"ticket"}) /\ At("client")' = "ccs"
            /\ pc["client"] = "ticket" /\ m.t = "newSessionTicket"
            /\ ClientAt(h, pc["client"])
        BY <2>2, <2>8
      <3> QED
        BY <1>1, <2>8, <3>1, TicketPlaced DEF g
    <2> QED
      BY <2>1, <2>3, <2>4, <2>5, <2>6, <2>7, <2>8
  <1>9. CASE ClientHelloDone
    <2>1. \E M : Moved("client", M)
      BY <1>1, <1>9, HelloDoneEffect
    <2> QED
      BY <1>2, <1>9, <2>1, HelloDonePlaced
  <1>10. CASE ClientFinished
    <2>1. \E M : Moved("client", M)
      BY <1>1, <1>10, ClientFinishedEffect DEF Completes
    <2> QED
      BY <1>2, <1>10, <2>1, ClientFinishedPlaced
  <1> QED
    BY <1>4, <1>5, <1>6, <1>7, <1>8, <1>9, <1>10 DEF Step, ClientStep


--------------------------------------------------------------------------------
(* The steps of the server keep to the order of messages *)

\* The types of the server's first flight.
LEMMA FlightTypes ==
    ASSUME NEW c, NEW h, NEW m, NEW sh, sh = h.serverHello, sh.t = "serverHello",
           sh.suite = h.suite, m.t = "clientHello", NEW tr, tr = <<m>> \o FirstFlight(c, h, m)
    PROVE  /\ Types(tr) = Flown(sh.ocsp, h.suite \in suiteECDHE, c.auth # 0)
           /\ sh.ocsp => Has(tr, "certificateStatus")
  <1> DEFINE ce == [t |-> "certificate", cert |-> h.cert]
             cs == IF sh.ocsp THEN <<[t |-> "certificateStatus"]>> ELSE <<>>
             kx == KeyExchange(c, h, m, sh)
             cr == CertRequest(c)
             done == <<[t |-> "serverHelloDone"]>>
             b == sh.ocsp
             k == h.suite \in suiteECDHE
             a == c.auth # 0
  <1>1. /\ IsSeq(<<m>>) /\ IsSeq(<<sh, ce>>)
        /\ Types(<<m>>) = <<"clientHello">> /\ Types(<<sh, ce>>) = <<"serverHello", "certificate">>
    BY TupleFacts, TypesTuples
  <1>2. IsSeq(cs) /\ Types(cs) = Opt(b, "certificateStatus")
    <2>1. [t |-> "certificateStatus"].t = "certificateStatus"
      OBVIOUS
    <2> QED
      BY <2>1, TupleFacts, TypesTuples DEF Opt
  <1>3. IsSeq(kx) /\ Types(kx) = Opt(k, "serverKeyExchange")
    <2>1. ASSUME ~k PROVE kx = <<>>
      BY <2>1 DEF KeyExchange
    <2>2. ASSUME k PROVE \E v : kx = <<v>> /\ v.t = "serverKeyExchange"
      BY <2>2 DEF KeyExchange
    <2> HIDE DEF kx, k
    <2>3. CASE k
      <3>1. PICK v : kx = <<v>> /\ v.t = "serverKeyExchange"
        BY <2>2, <2>3
      <3> QED
        BY <2>3, <3>1, TupleFacts, TypesTuples DEF Opt
    <2>4. CASE ~k
      BY <2>1, <2>4, TupleFacts, TypesTuples DEF Opt
    <2> QED
      BY <2>3, <2>4
  <1>4. IsSeq(cr) /\ Types(cr) = Opt(a, "certificateRequest")
    <2>1. ASSUME ~a PROVE cr = <<>>
      BY <2>1 DEF CertRequest
    <2>2. ASSUME a PROVE \E v : cr = <<v>> /\ v.t = "certificateRequest"
      BY <2>2 DEF CertRequest
    <2> HIDE DEF cr, a
    <2>3. CASE a
      <3>1. PICK v : cr = <<v>> /\ v.t = "certificateRequest"
        BY <2>2, <2>3
      <3> QED
        BY <2>3, <3>1, TupleFacts, TypesTuples DEF Opt
    <2>4. CASE ~a
      BY <2>1, <2>4, TupleFacts, TypesTuples DEF Opt
    <2> QED
      BY <2>3, <2>4
  <1>5. IsSeq(done) /\ Types(done) = <<"serverHelloDone">>
    <2>1. [t |-> "serverHelloDone"].t = "serverHelloDone"
      OBVIOUS
    <2> QED
      BY <2>1, TupleFacts, TypesTuples
  <1>6. tr = <<m>> \o (((( <<sh, ce>> \o cs) \o kx) \o cr) \o done)
    BY DEF FirstFlight, CertFlight
  <1>7. b => \E y \in Elems(cs) : y.t = "certificateStatus"
    BY TupleFacts
  <1> HIDE DEF ce, cs, kx, cr, done, b, k, a
  <1> DEFINE f1 == <<sh, ce>> \o cs
             f2 == f1 \o kx
             f3 == f2 \o cr
             f4 == f3 \o done
             t1 == <<m>> \o <<sh, ce>>
  <1>8. IsSeq(f1) /\ Elems(cs) \subseteq Elems(f1)
    BY <1>1, <1>2, ConcatFacts
  <1>9. IsSeq(f2) /\ Elems(f1) \subseteq Elems(f2)
    BY <1>3, <1>8, ConcatFacts
  <1>10. IsSeq(f3) /\ Elems(f2) \subseteq Elems(f3)
    BY <1>4, <1>9, ConcatFacts
  <1>11. IsSeq(f4) /\ Elems(f3) \subseteq Elems(f4)
    BY <1>5, <1>10, ConcatFacts
  <1>12. IsSeq(t1) /\ IsSeq(t1 \o cs) /\ IsSeq((t1 \o cs) \o kx) /\ IsSeq(((t1 \o cs) \o kx) \o cr)
    <2>1. IsSeq(t1)
      BY <1>1, ConcatFacts
    <2>2. IsSeq(t1 \o cs)
      BY <1>2, <2>1, ConcatFacts
    <2>3. IsSeq((t1 \o cs) \o kx)
      BY <1>3, <2>2, ConcatFacts
    <2> QED
      BY <1>4, <2>1, <2>2, <2>3, ConcatFacts
  <1>13. tr = (((t1 \o cs) \o kx) \o cr) \o done
    <2>1. <<m>> \o f1 = t1 \o cs
      BY <1>1, <1>2, Associative
    <2>2. <<m>> \o f2 = (<<m>> \o f1) \o kx
      BY <1>1, <1>3, <1>8, Associative
    <2>3. <<m>> \o f3 = (<<m>> \o f2) \o cr
      BY <1>1, <1>4, <1>9, Associative
    <2>4. <<m>> \o f4 = (<<m>> \o f3) \o done
      BY <1>1, <1>5, <1>10, Associative
    <2>5. tr = <<m>> \o f4
      BY <1>6
    <2> HIDE DEF f1, f2, f3, f4
    <2> QED
      BY <2>1, <2>2, <2>3, <2>4, <2>5
  <1>14. Types(t1) = <<"clientHello", "serverHello", "certificate">>
    <2>1. t1 = <<m, sh, ce>>
      <3>1. t1 = Append(<<m, sh>>, ce)
        <4>1. <<m, sh>> = <<m>> \o <<sh>> /\ <<sh, ce>> = <<sh>> \o <<ce>>
          <5>1. IsSeq(<<m>>) /\ IsSeq(<<sh>>) /\ IsSeq(<<m, sh>>) /\ IsSeq(<<sh, ce>>)
            BY TupleFacts
          <5>2. \A x, y : <<>> \o <<x, y>> = <<x, y>>
            OBVIOUS
          <5>3. \A x, y : (<<>> \o <<x>>) \o <<y>> = <<>> \o <<x, y>>
            BY TupleFacts, TwoMore
          <5>4. \A x : <<>> \o <<x>> = <<x>>
            OBVIOUS
          <5> QED
            BY <5>2, <5>3, <5>4
        <4>2. <<m>> \o (<<sh>> \o <<ce>>) = (<<m>> \o <<sh>>) \o <<ce>>
          BY TupleFacts, Associative
        <4>3. <<m, sh>> \o <<ce>> = Append(<<m, sh>>, ce)
          BY TupleFacts, AppendJoin
        <4> QED
          BY <4>1, <4>2, <4>3
      <3>2. <<m, sh>> \o <<ce>> = Append(<<m, sh>>, ce)
        BY TupleFacts, AppendJoin
      <3> QED
        BY <3>1, <3>2, Triple
    <2>2. Types(<<m, sh>> \o <<ce>>) = Types(<<m, sh>>) \o Types(<<ce>>)
      BY TupleFacts, TypesJoin
    <2>3. Types(<<m, sh>>) = <<"clientHello", "serverHello">> /\ Types(<<ce>>) = <<"certificate">>
      BY TypesTuples DEF ce
    <2> QED
      BY <2>1, <2>2, <2>3, Triple
  <1> HIDE DEF t1
  <1>15. Types(t1 \o cs) = Stem(b)
    BY <1>2, <1>12, <1>14, TypesJoin DEF Stem
  <1>16. Types((t1 \o cs) \o kx) = Keyed(b, k)
    BY <1>3, <1>12, <1>15, TypesJoin DEF Keyed
  <1>17. Types(((t1 \o cs) \o kx) \o cr) = Asked(b, k, a)
    BY <1>4, <1>12, <1>16, TypesJoin DEF Asked
  <1>18. Types(tr) = Flown(b, k, a)
    BY <1>5, <1>12, <1>13, <1>17, TypesJoin DEF Flown
  <1>19. b => Has(tr, "certificateStatus")
    <2>1. Elems(cs) \subseteq Elems(tr)
      <3>1. tr = <<m>> \o f4 /\ IsSeq(<<m>>) /\ IsSeq(f4)
        BY <1>1, <1>6, <1>11
      <3> HIDE DEF f1, f2, f3, f4
      <3>2. Elems(f4) \subseteq Elems(<<m>> \o f4)
        BY <3>1, ConcatFacts
      <3> QED
        BY <1>8, <1>9, <1>10, <1>11, <3>1, <3>2
    <2> QED
      BY <1>7, <2>1, HasElems
  <1> QED
    BY <1>18, <1>19 DEF b, k, a


\* A server that reads on to the Finished is placed as before, with its next key.
LEMMA ServerSwitches ==
    ASSUME NEW h, NEW a, DOMAIN h = DOMAIN Blank, ServerAt(h, "ccs", a)
    PROVE  ServerAt(Switched(h), "finished", a)
  <1> DEFINE g == Switched(h)
  <1>1. /\ DOMAIN g = DOMAIN Blank /\ g.in = h.inNext
        /\ \A f \in DOMAIN Blank \ {"in", "inNext"} : g[f] = h[f]
    BY BlankFields DEF Switched
  <1> HIDE DEF g
  <1>2. /\ g.tr = h.tr /\ g.hello = h.hello /\ g.serverHello = h.serverHello
        /\ g.vers = h.vers /\ g.suite = h.suite /\ g.alpn = h.alpn
        /\ g.didResume = h.didResume /\ g.peer = h.peer /\ g.sess = h.sess
        /\ g.secret = h.secret /\ g.cert = h.cert /\ g.out = h.out
        /\ g.outNext = h.outNext
    BY <1>1, BlankFields
  <1>3. Settled(h) /\ ServerCloses(h, "ccs", a)
    BY DEF ServerAt
  <1>4. Settled(g)
    BY <1>2, <1>3 DEF Settled
  <1>5. Protected("server", g, "finished")
    <2>1. Protected("server", h, "ccs")
      BY <1>3 DEF ServerCloses
    <2>2. \A s : TrafficKey(s, g) = TrafficKey(s, h)
      BY <1>2, SameTraffic
    <2> QED
      BY <1>1, <1>2, <2>1, <2>2 DEF Protected
  <1>6. Status(g) = Status(h) /\ (\A c : Third(h, c) => Third(g, c))
    BY <1>2 DEF Status, Third
  <1>7. ServerCloses(g, "finished", a)
    BY <1>2, <1>3, <1>5, <1>6 DEF ServerCloses
  <1>8. ServerAt(g, "finished", a)
    BY <1>4, <1>7 DEF ServerAt
  <1> QED
    BY <1>8 DEF g

\* The server that resumes: the transcript is the hellos, a ticket and its Finished.
LEMMA ResumesPlaced ==
    ASSUME NEW c, NEW m, NEW g, NEW tk, NEW fin, NEW a, Resumed(c, m, g, tk, fin),
           m.t = "clientHello"
    PROVE  ServerAt(g, "ccs", a)
  <1> DEFINE sh == g.serverHello
  <1>1. /\ g.didResume = TRUE /\ g.suite = m.ticket.state.suite /\ g.sess = m.ticket.state
        /\ g.secret = g.sess.secret /\ g.hello = m /\ g.tr = <<m, sh, tk, fin>>
        /\ sh = ServerHelloMsg(c, g, m, m.ticket.state.suite, TRUE)
        /\ g.inNext = TrafficKey("client", g) /\ g.out = TrafficKey("server", g)
        /\ tk.t = "newSessionTicket" /\ fin.t = "finished"
    BY DEF Resumed
  <1>2. /\ sh.t = "serverHello" /\ sh.vers = g.vers /\ sh.suite = g.suite
        /\ sh.alpn = g.alpn
    BY <1>1 DEF ServerHelloMsg
  <1>10. sh.tickets = TRUE
    <2>1. sh.tickets = (TRUE \/ (m.ticketSupported /\ c.tickets))
      BY <1>1 DEF ServerHelloMsg
    <2>2. (TRUE \/ (m.ticketSupported /\ c.tickets)) = TRUE
      OBVIOUS
    <2> QED
      BY <2>1, <2>2
  <1>3. /\ <<m, sh>> \o <<tk>> = <<m, sh, tk>> /\ IsSeq(<<m, sh, tk>>)
        /\ Append(<<m, sh, tk>>, fin) = <<m, sh, tk, fin>>
    BY Triple, Quadruple
  <1>4. Types(<<m, sh, tk>>) = Renewed(TRUE)
    <2>1. Types(<<m, sh>> \o <<tk>>) = Types(<<m, sh>>) \o Types(<<tk>>)
      BY TupleFacts, TypesJoin
    <2>2. Types(<<m, sh>>) = <<m.t, sh.t>> /\ Types(<<tk>>) = <<tk.t>>
      BY TypesTuples
    <2>4. m.t = "clientHello" /\ sh.t = "serverHello" /\ tk.t = "newSessionTicket"
      BY <1>1, <1>2
    <2>5. <<m.t, sh.t>> = Hellos
      BY <2>4 DEF Hellos
    <2>3. Renewed(TRUE) = Hellos \o <<"newSessionTicket">>
      BY ShapeCloses
    <2> QED
      BY <1>3, <2>1, <2>2, <2>3, <2>4, <2>5
  <1>5. Types(g.tr) = Renewed(TRUE) \o <<"finished">>
    <2>1. Types(Append(<<m, sh, tk>>, fin)) = Types(<<m, sh, tk>>) \o <<fin.t>>
      BY <1>3, LongerByOne
    <2> QED
      BY <1>1, <1>3, <1>4, <2>1
  <1>6. Len(g.tr) = 4 /\ g.tr[1] = m /\ g.tr[2] = sh /\ g.tr[3] = tk
    BY <1>1
  <1>7. Settled(g)
    <2>1. Len(g.tr) >= 2
      BY <1>6
    <2>3. g.didResume \in BOOLEAN
      BY <1>1
    <2>2. /\ g.tr[1] = g.hello /\ g.tr[2] = sh /\ sh.vers = g.vers /\ sh.suite = g.suite
          /\ sh.alpn = g.alpn
      BY <1>1, <1>2, <1>6
    <2> QED
      BY <2>1, <2>2, <2>3 DEF Settled
  <1>8. Protected("server", g, "ccs")
    BY <1>1 DEF Protected, Peer
  <1>9. ServerCloses(g, "ccs", a)
    <2>1. /\ g.didResume = TRUE /\ g.secret = g.sess.secret
          /\ Len(g.tr) >= 3 /\ g.tr[3].t = "newSessionTicket"
      BY <1>1, <1>6
    <2>2. Renewed(sh.tickets) = Renewed(TRUE)
      BY <1>10
    <2> QED
      BY <1>5, <1>8, <1>10, <2>1, <2>2 DEF ServerCloses
  <1> QED
    BY <1>7, <1>9 DEF ServerAt

\* The server that has sent its first flight.
LEMMA FullPlaced ==
    ASSUME NEW c, NEW m, NEW g, Begun(c, m, g), m.t = "clientHello"
    PROVE  ServerAt(g, IF c.auth = 0 THEN "ckx" ELSE "cert", c.auth # 0)
  <1> DEFINE sh == g.serverHello
             k == g.suite \in suiteECDHE
             a == c.auth # 0
  <1>1. /\ g.didResume = FALSE /\ g.peer = NoCert /\ g.hello = m
        /\ sh = ServerHelloMsg(c, g, m, g.suite, FALSE)
        /\ After(g.tr, 3, Later) /\ g.tr[1] = m /\ g.tr[2] = sh
        /\ g.tr[3] = [t |-> "certificate", cert |-> g.cert]
        /\ g.tr = <<m>> \o FirstFlight(c, g, m)
    BY DEF Begun
  <1>2. /\ sh.t = "serverHello" /\ sh.vers = g.vers /\ sh.suite = g.suite
        /\ sh.alpn = g.alpn
    BY <1>1 DEF ServerHelloMsg
  <1>3. sh.ocsp \in BOOLEAN
    BY <1>1 DEF ServerHelloMsg
  <1>4. Types(g.tr) = Flown(sh.ocsp, k, a) /\ (sh.ocsp => Has(g.tr, "certificateStatus"))
    BY <1>1, <1>2, FlightTypes
  <1>5. Flown(sh.ocsp, k, a) = Flown(Status(g), k, a)
    BY <1>3, <1>4 DEF Flown, Asked, Keyed, Stem, Opt, Status
  <1>6. Len(g.tr) \in Nat /\ Len(g.tr) >= 3 /\ DOMAIN g.tr = 1 .. Len(g.tr)
    BY <1>1 DEF After, IsSeq
  <1>7. NoSecond(g.tr)
    BY <1>1 DEF After, NoSecond, Later
  <1>8. Second(g.tr, NoCert)
    BY <1>7 DEF NoSecond, Second
  <1>9. Third(g, g.cert)
    BY <1>1, <1>6 DEF Third
  <1>10. Settled(g)
    <2>1. Len(g.tr) >= 2
      BY <1>6
    <2>3. g.didResume \in BOOLEAN
      BY <1>1
    <2>2. /\ g.tr[1] = g.hello /\ g.tr[2] = sh /\ sh.vers = g.vers /\ sh.suite = g.suite
          /\ sh.alpn = g.alpn
      BY <1>1, <1>2, <1>6
    <2> QED
      BY <2>1, <2>2, <2>3 DEF Settled
  <1>11. CASE c.auth = 0
    <2>1. a = FALSE
      BY <1>11
    <2>2. Answered(Status(g), k, FALSE) = Flown(Status(g), k, FALSE)
      BY ShapeCloses
    <2>3. Types(g.tr) = Answered(Status(g), k, a)
      BY <1>4, <1>5, <2>1, <2>2
    <2>4. ServerReads(g, "ckx", a)
      BY <1>1, <1>8, <1>9, <2>3 DEF ServerReads
    <2> QED
      BY <1>10, <1>11, <2>4 DEF ServerAt
  <1>12. CASE c.auth # 0
    <2>1. ServerReads(g, "cert", a)
      BY <1>1, <1>4, <1>5, <1>7, <1>9, <1>12 DEF ServerReads
    <2> QED
      BY <1>10, <1>12, <2>1 DEF ServerAt
  <1> QED
    BY <1>11, <1>12

\* The certificate of the client follows the server's first flight.
LEMMA ServerCertificatePlaced ==
    ASSUME NEW h, NEW g, NEW m, NEW a, IsSeq(h.tr), ServerAt(h, "cert", a),
           Noted(h, g, m, {"peer", "verified"}), m.t = "certificate", g.peer = m.cert,
           a \in BOOLEAN
    PROVE  ServerAt(g, "ckx", a)
  <1> DEFINE k == h.suite \in suiteECDHE
  <1>1. /\ Settled(h) /\ h.didResume = FALSE /\ a = TRUE /\ NoSecond(h.tr)
        /\ Types(h.tr) = Flown(Status(h), k, a) /\ Third(h, h.cert)
    BY DEF ServerAt, ServerReads
  <1> DEFINE F == {"peer", "verified"}
  <1>2. Noted(h, g, m, F) /\ \A f \in Core : f \notin F
    BY DEF Core
  <1> HIDE DEF F
  <1>3. Len(h.tr) >= 3
    BY <1>1 DEF Third
  <1>4. /\ SameCore(h, g) /\ Settled(g) /\ Third(g, h.cert)
        /\ Types(g.tr) = Types(h.tr) \o <<m.t>>
        /\ Status(g) = Status(h) /\ Second(g.tr, m.cert)
    <2>1. m.t # "certificateStatus"
      OBVIOUS
    <2> QED
      BY <1>1, <1>2, <1>3, <2>1, NotedMore
  <1>5. g.cert = h.cert
    BY BlankFields DEF Noted, Like
  <1>6. Types(g.tr) = Answered(Status(g), k, a)
    <2>1. Answered(Status(h), k, TRUE) = Flown(Status(h), k, TRUE) \o <<"certificate">>
      BY ShapeCloses
    <2> QED
      BY <1>1, <1>4, <2>1
  <1>7. ServerReads(g, "ckx", a)
    BY <1>1, <1>4, <1>5, <1>6 DEF ServerReads, SameCore
  <1> QED
    BY <1>4, <1>7 DEF ServerAt

\* The key exchange follows, and its keys where there is no proof to wait for.
LEMMA ServerExchangePlaced ==
    ASSUME NEW h, NEW g, NEW m, NEW a, IsSeq(h.tr), ServerAt(h, "ckx", a),
           Noted(h, g, m, {"secret", "inNext", "outNext"}), m.t = "clientKeyExchange",
           h.peer = NoCert => NextKeys("server", g)
    PROVE  ServerAt(g, IF h.peer # NoCert THEN "certVerify" ELSE "ccs", a)
  <1> DEFINE k == h.suite \in suiteECDHE
  <1>1. /\ Settled(h) /\ h.didResume = FALSE /\ Types(h.tr) = Answered(Status(h), k, a)
        /\ Third(h, h.cert) /\ Second(h.tr, h.peer)
    BY DEF ServerAt, ServerReads
  <1> DEFINE F == {"secret", "inNext", "outNext"}
  <1>2. Noted(h, g, m, F) /\ \A f \in Core : f \notin F
    BY DEF Core
  <1> HIDE DEF F
  <1>3. /\ SameCore(h, g) /\ Settled(g) /\ Third(g, h.cert)
        /\ Types(g.tr) = Types(h.tr) \o <<m.t>>
        /\ Status(g) = Status(h) /\ Second(g.tr, h.peer)
    <2>1. m.t # "certificateStatus" /\ m.t # "certificate"
      OBVIOUS
    <2> QED
      BY <1>1, <1>2, <2>1, NotedMore
  <1>4. g.cert = h.cert /\ g.peer = h.peer /\ g.didResume = FALSE /\ g.suite = h.suite
    BY <1>1, BlankFields DEF Noted, Like
  <1>5. Types(g.tr) = Exchanged(Status(g), k, a)
    BY <1>1, <1>3 DEF Exchanged
  <1>6. CASE h.peer # NoCert
    <2>1. ServerReads(g, "certVerify", a)
      BY <1>3, <1>4, <1>5, <1>6 DEF ServerReads
    <2> QED
      BY <1>3, <1>6, <2>1 DEF ServerAt
  <1>7. CASE h.peer = NoCert
    <2>1. Signed(Status(g), k, a, FALSE) = Exchanged(Status(g), k, a)
      BY ShapeCloses
    <2>2. (g.peer # NoCert) = FALSE
      BY <1>4, <1>7
    <2>3. Types(g.tr) = Signed(Status(g), k, a, g.peer # NoCert)
      BY <1>5, <2>1, <2>2
    <2>4. Protected("server", g, "ccs")
      BY <1>4, <1>7 DEF Protected, NextKeys, Peer
    <2>5. ServerCloses(g, "ccs", a)
      BY <1>3, <1>4, <2>3, <2>4 DEF ServerCloses
    <2> QED
      BY <1>3, <1>7, <2>5 DEF ServerAt
  <1> QED
    BY <1>6, <1>7

\* The proof of the client's certificate is the last before its Finished.
LEMMA ServerProofPlaced ==
    ASSUME NEW h, NEW g, NEW m, NEW a, IsSeq(h.tr), ServerAt(h, "certVerify", a),
           Noted(h, g, m, {"inNext", "outNext"}), m.t = "certificateVerify",
           NextKeys("server", g)
    PROVE  ServerAt(g, "ccs", a)
  <1> DEFINE k == h.suite \in suiteECDHE
  <1>1. /\ Settled(h) /\ h.didResume = FALSE /\ Types(h.tr) = Exchanged(Status(h), k, a)
        /\ h.peer # NoCert /\ Third(h, h.cert) /\ Second(h.tr, h.peer)
    BY DEF ServerAt, ServerReads
  <1> DEFINE F == {"inNext", "outNext"}
  <1>2. Noted(h, g, m, F) /\ \A f \in Core : f \notin F
    BY DEF Core
  <1> HIDE DEF F
  <1>3. /\ SameCore(h, g) /\ Settled(g) /\ Third(g, h.cert)
        /\ Types(g.tr) = Types(h.tr) \o <<m.t>>
        /\ Status(g) = Status(h) /\ Second(g.tr, h.peer)
    <2>1. m.t # "certificateStatus" /\ m.t # "certificate"
      OBVIOUS
    <2> QED
      BY <1>1, <1>2, <2>1, NotedMore
  <1>4. g.cert = h.cert /\ g.peer = h.peer /\ g.didResume = FALSE /\ g.suite = h.suite
    BY <1>1, BlankFields DEF Noted, Like
  <1>5. Types(g.tr) = Exchanged(Status(g), k, a) \o <<"certificateVerify">>
    BY <1>1, <1>3
  <1>6. Signed(Status(g), k, a, TRUE) = Exchanged(Status(g), k, a) \o <<"certificateVerify">>
    BY ShapeCloses
  <1>7. (g.peer # NoCert) = TRUE
    BY <1>1, <1>4
  <1>8. Types(g.tr) = Signed(Status(g), k, a, g.peer # NoCert)
    BY <1>5, <1>6, <1>7
  <1>9. Protected("server", g, "ccs")
    BY <1>4 DEF Protected, NextKeys, Peer
  <1>10. ServerCloses(g, "ccs", a)
    BY <1>3, <1>4, <1>8, <1>9 DEF ServerCloses
  <1> QED
    BY <1>3, <1>10 DEF ServerAt

\* A server that is done has seen the client's Finished where it belongs.
LEMMA ServerFinishedPlaced ==
    ASSUME IInv, Placed, "server" \notin Free, ServerFinished
    PROVE  ServerAt(hs'["server"], At("server")', cfg["server"].auth # 0)
  <1> DEFINE h == hs["server"]
             g == hs'["server"]
             m == Msg("server")
             t == h.serverHello.tickets
             k == h.suite \in suiteECDHE
             p == h.peer # NoCert
             a == cfg["server"].auth # 0
  <1>1. /\ Reads("server", {"finished"}, "finished")
        /\ \/ Failed("server")
           \/ /\ Goes("server", g, "ended")
              /\ \/ h.didResume /\ Noted(h, g, m, {})
                 \/ ~h.didResume /\ \E pre : Issues(h, pre) /\ Completes("server", h, g, m, pre)
    BY ServerFinishedEffect DEF IInv
  <1>2. Frame /\ "server" \in Sides
    BY DEF IInv, Sides
  <1>3. pc["server"] = "finished" /\ m.t = "finished" /\ IsSeq(h.tr)
    BY <1>1, <1>2, ReadingFacts
  <1>4. CASE Failed("server")
    BY <1>2, <1>3, <1>4, AtFacts, Nowhere
  <1>5. ServerAt(h, "finished", a)
    BY <1>2, <1>3, AtFacts DEF Placed
  <1>6. Settled(h) /\ ServerCloses(h, "finished", a)
    BY <1>5 DEF ServerAt
  <1>8. ASSUME Goes("server", g, "ended") PROVE At("server")' = "done"
    BY <1>2, <1>3, <1>8, AtFacts
  <1> HIDE DEF h, g, m, a
  <1>9. Protected("server", h, "finished")
    BY <1>6 DEF ServerCloses
  <1>10. CASE Goes("server", g, "ended") /\ h.didResume /\ Noted(h, g, m, {})
    <2> DEFINE F == {}
    <2>1. Noted(h, g, m, F) /\ \A f \in Core : f \notin F
      BY <1>10
    <2> HIDE DEF F
    <2>2. /\ SameCore(h, g) /\ Settled(g)
          /\ Types(g.tr) = Types(h.tr) \o <<m.t>>
          /\ Len(h.tr) >= 3 => g.tr[3] = h.tr[3]
          /\ Len(g.tr) = Len(h.tr) + 1 /\ Len(h.tr) \in Nat
      BY <1>3, <1>6, <2>1, NotedMore
    <2>3. /\ g.secret = h.secret /\ g.sess = h.sess
          /\ g.in = h.in /\ g.out = h.out
      BY <1>10, BlankFields DEF Noted, Like
    <2>4. Protected("server", g, "done")
      <3>1. \A s : TrafficKey(s, g) = TrafficKey(s, h)
        BY <2>2, <2>3, SameTraffic DEF SameCore
      <3> QED
        BY <1>9, <1>10, <2>2, <2>3, <3>1 DEF Protected, SameCore
    <2>5. /\ t /\ Types(h.tr) = Renewed(t) \o <<"finished">> /\ Len(h.tr) >= 3
          /\ h.tr[3].t = "newSessionTicket" /\ h.secret = h.sess.secret
      BY <1>6, <1>10 DEF ServerCloses
    <2>6. Types(g.tr) = Renewed(t) \o <<"finished", "finished">>
      <3>1. (Renewed(t) \o <<"finished">>) \o <<"finished">> =
                Renewed(t) \o <<"finished", "finished">>
        BY ShapeSeqs, TwoMore
      <3> QED
        BY <1>3, <2>2, <2>5, <3>1
    <2>7. Len(g.tr) >= 3 /\ g.tr[3].t = "newSessionTicket"
      BY <2>2, <2>5
    <2>8. ServerCloses(g, "done", a)
      BY <1>10, <2>2, <2>3, <2>4, <2>5, <2>6, <2>7 DEF ServerCloses, SameCore
    <2>9. ServerAt(g, "done", a)
      BY <2>2, <2>8 DEF ServerAt
    <2> QED
      BY <1>8, <1>10, <2>9 DEF g, a
  <1>11. CASE /\ Goes("server", g, "ended") /\ ~h.didResume
              /\ \E pre : Issues(h, pre) /\ Completes("server", h, g, m, pre)
    <2>1. PICK pre : Issues(h, pre) /\ Completes("server", h, g, m, pre)
      BY <1>11
    <2>2. /\ IsSeq(pre) /\ (\A y \in Elems(pre) : y.t = "newSessionTicket")
          /\ Types(pre) = Opt(t, "newSessionTicket")
      <3>1. CASE ~t
        <4>1. pre = <<>>
          BY <2>1, <3>1 DEF Issues
        <4> QED
          BY <3>1, <4>1, TupleFacts, TypesTuples DEF Opt
      <3>2. CASE t
        <4>1. PICK tk : pre = <<tk>> /\ tk.t = "newSessionTicket"
          BY <2>1, <3>2 DEF Issues
        <4> QED
          BY <3>2, <4>1, TupleFacts, TypesTuples DEF Opt
      <3> QED
        BY <3>1, <3>2
    <2>3. /\ SameCore(h, g) /\ Settled(g)
          /\ Types(g.tr) = ((Types(h.tr) \o <<"finished">>) \o Types(pre)) \o <<"finished">>
          /\ Status(g) = Status(h)
          /\ \A c : Second(h.tr, c) => Second(g.tr, c)
          /\ \A c : Third(h, c) => Third(g, c)
          /\ g.secret = h.secret /\ g.peer = h.peer /\ g.cert = h.cert
          /\ g.in = h.in /\ g.out = h.outNext
      <3>1. /\ IsSeq(h.tr) /\ m.t = "finished" /\ Settled(h) /\ IsSeq(pre)
            /\ Completes("server", h, g, m, pre)
        BY <1>3, <1>6, <2>1, <2>2
      <3>2. \A y \in Elems(pre) : y.t = "newSessionTicket"
        BY <2>2
      <3>3. /\ SameCore(h, g) /\ Settled(g)
            /\ Types(g.tr) = ((Types(h.tr) \o <<"finished">>) \o Types(pre)) \o <<"finished">>
            /\ Status(g) = Status(h)
        BY <3>1, <3>2, CompletesMore
      <3>4. /\ \A c : Second(h.tr, c) => Second(g.tr, c)
            /\ \A c : Third(h, c) => Third(g, c)
        BY <3>1, <3>2, CompletesMore
      <3>5. /\ g.secret = h.secret /\ g.peer = h.peer /\ g.cert = h.cert
            /\ g.in = h.in /\ g.out = h.outNext
        BY <3>1, <3>2, CompletesMore
      <3> QED
        BY <3>3, <3>4, <3>5
    <2>4. Types(h.tr) = Signed(Status(h), k, a, p) /\ Third(h, h.cert) /\ Second(h.tr, h.peer)
      BY <1>6, <1>11 DEF ServerCloses
    <2>5. Types(g.tr) = Ticketed(Status(h), k, a, p, t) \o <<"finished">>
      BY <2>2, <2>3, <2>4 DEF Ticketed, Closed
    <2>6. Protected("server", g, "done")
      <3>1. \A s : TrafficKey(s, g) = TrafficKey(s, h)
        BY <2>3, SameTraffic DEF SameCore
      <3> QED
        BY <1>9, <1>11, <2>3, <3>1 DEF Protected, SameCore
    <2>7. ServerCloses(g, "done", a)
      BY <1>11, <2>3, <2>4, <2>5, <2>6 DEF ServerCloses, SameCore
    <2>8. ServerAt(g, "done", a)
      BY <2>3, <2>7 DEF ServerAt
    <2> QED
      BY <1>8, <1>11, <2>8 DEF g, a
  <1> QED
    BY <1>1, <1>4, <1>10, <1>11

\* Every step of a server leaves it where its transcript says.
LEMMA ServerPlaced ==
    ASSUME IInv, Placed, "server" \notin Free, Step("server")
    PROVE  /\ ServerAt(hs'["server"], At("server")', cfg["server"].auth # 0)
           /\ Others("server")
  <1> DEFINE h == hs["server"]
             g == hs'["server"]
             m == Msg("server")
             c == cfg["server"]
             a == c.auth # 0
  <1>1. /\ Frame /\ "server" \in Sides /\ DOMAIN h = DOMAIN Blank /\ IsSeq(h.tr)
        /\ a \in BOOLEAN
    BY DEF IInv, Frame, Sides
  <1>2. \A M : Moved("server", M) => Others("server")
    BY DEF Moved
  <1>3. ServerAt(h, At("server"), a)
    BY DEF Placed
  <1>4. ASSUME Failed("server") PROVE ServerAt(g, At("server")', a)
    <2>1. At("server")' = "ended"
      BY <1>4 DEF Failed, At, Done
    <2> QED
      BY <2>1, Nowhere
  <1>5. CASE RecordStep("server")
    <2>1. /\ Moved("server", {})
          /\ \/ Failed("server")
             \/ Goes("server", h, pc["server"]) /\ pc["server"] # "ended"
             \/ pc["server"] = "ccs" /\ Goes("server", Switched(h), "finished")
      BY <1>1, <1>5, RecordEffect
    <2>3. ASSUME Goes("server", h, pc["server"]), pc["server"] # "ended"
          PROVE  ServerAt(g, At("server")', a)
      BY <1>1, <1>3, <2>3, AtFacts
    <2>4. ASSUME pc["server"] = "ccs", Goes("server", Switched(h), "finished")
          PROVE  ServerAt(g, At("server")', a)
      <3>1. At("server") = "ccs" /\ At("server")' = "finished" /\ g = Switched(h)
        BY <1>1, <2>4, AtFacts
      <3> QED
        BY <1>1, <1>3, <3>1, ServerSwitches
    <2>5. Others("server")
      BY <1>2, <2>1
    <2>6. ServerAt(g, At("server")', a)
      BY <1>4, <2>1, <2>3, <2>4
    <2> QED
      BY <2>5, <2>6
  <1>6. CASE ServerRefusesHello
    <2>1. Moved("server", {}) /\ Failed("server")
      BY <1>1, <1>6, HelloRefusal DEF ServerRefusesHello
    <2> QED
      BY <1>2, <1>4, <2>1
  <1>7. ASSUME NEW W, NEW x, Reads("server", W, x)
        PROVE  /\ pc["server"] \in W /\ m.t = x /\ ServerAt(h, pc["server"], a)
               /\ \A w : w # "ended" /\ Goes("server", g, w) => At("server")' = w
    <2>1. pc["server"] \in W /\ m.t = x /\ pc["server"] # "ended"
      BY <1>1, <1>7, ReadingFacts
    <2> QED
      BY <1>1, <1>3, <2>1, AtFacts
  <1> HIDE DEF h, g, m, c
  <1>8. CASE ServerResumes
    <2>1. /\ Reads("server", {"hello"}, "clientHello")
          /\ \/ Moved("server", {}) /\ Failed("server")
             \/ /\ Goes("server", g, "ccs")
                /\ \E tk, fin : /\ Resumed(c, m, g, tk, fin)
                                /\ Moved("server", {g.serverHello, tk, fin})
      BY <1>1, <1>8, ResumeEffect DEF g, m, c
    <2>2. CASE Moved("server", {}) /\ Failed("server")
      BY <1>2, <1>4, <2>2 DEF g, c
    <2>3. CASE /\ Goes("server", g, "ccs")
               /\ \E tk, fin : /\ Resumed(c, m, g, tk, fin)
                               /\ Moved("server", {g.serverHello, tk, fin})
      <3>1. PICK tk, fin : /\ Resumed(c, m, g, tk, fin)
                           /\ Moved("server", {g.serverHello, tk, fin})
        BY <2>3
      <3>2. m.t = "clientHello" /\ At("server")' = "ccs"
        BY <1>7, <2>1, <2>3
      <3>3. ServerAt(g, "ccs", a)
        BY <3>1, <3>2, ResumesPlaced
      <3>4. Others("server")
        BY <1>2, <3>1
      <3> QED
        BY <3>2, <3>3, <3>4 DEF g, c
    <2> QED
      BY <2>1, <2>2, <2>3
  <1>9. CASE ServerFull
    <2>1. /\ Reads("server", {"hello"}, "clientHello")
          /\ \E M : Moved("server", M)
          /\ \/ Failed("server")
             \/ Begun(c, m, g) /\ Goes("server", g, IF c.auth = 0 THEN "ckx" ELSE "cert")
      BY <1>1, <1>9, FullEffect DEF g, m, c
    <2>2. Others("server")
      BY <1>2, <2>1
    <2>3. CASE Failed("server")
      BY <1>4, <2>2, <2>3 DEF g, c
    <2>4. CASE Begun(c, m, g) /\ Goes("server", g, IF c.auth = 0 THEN "ckx" ELSE "cert")
      <3>1. m.t = "clientHello" /\ At("server")' = IF c.auth = 0 THEN "ckx" ELSE "cert"
        BY <1>7, <2>1, <2>4
      <3>2. ServerAt(g, IF c.auth = 0 THEN "ckx" ELSE "cert", a)
        BY <2>4, <3>1, FullPlaced
      <3> QED
        BY <2>2, <3>1, <3>2 DEF g, c
    <2> QED
      BY <2>1, <2>3, <2>4
  <1>10. CASE ServerCertificate
    <2>1. /\ Reads("server", {"cert"}, "certificate") /\ Moved("server", {})
          /\ \/ Failed("server")
             \/ /\ Goes("server", g, "ckx") /\ Noted(h, g, m, {"peer", "verified"})
                /\ g.peer = m.cert
      BY <1>1, <1>10, CertificateEffect DEF g, m, h
    <2>2. Others("server")
      BY <1>2, <2>1
    <2>3. CASE Failed("server")
      BY <1>4, <2>2, <2>3 DEF g, c
    <2>4. CASE /\ Goes("server", g, "ckx") /\ Noted(h, g, m, {"peer", "verified"})
               /\ g.peer = m.cert
      <3>1. m.t = "certificate" /\ ServerAt(h, "cert", a) /\ At("server")' = "ckx"
        BY <1>7, <2>1, <2>4
      <3>2. ServerAt(g, "ckx", a)
        BY <1>1, <2>4, <3>1, ServerCertificatePlaced
      <3> QED
        BY <2>2, <3>1, <3>2 DEF g, c
    <2> QED
      BY <2>1, <2>3, <2>4
  <1>11. CASE ServerKeyExchange
    <2> DEFINE w == IF h.peer # NoCert THEN "certVerify" ELSE "ccs"
    <2>1. /\ Reads("server", {"ckx"}, "clientKeyExchange") /\ Moved("server", {})
          /\ \/ Failed("server")
             \/ /\ Goes("server", g, w) /\ Noted(h, g, m, {"secret", "inNext", "outNext"})
                /\ h.peer = NoCert => NextKeys("server", g)
      BY <1>1, <1>11, KeyExchangeEffect DEF g, m, h
    <2>2. Others("server")
      BY <1>2, <2>1
    <2>3. CASE Failed("server")
      BY <1>4, <2>2, <2>3 DEF g, c
    <2>4. CASE /\ Goes("server", g, w) /\ Noted(h, g, m, {"secret", "inNext", "outNext"})
               /\ h.peer = NoCert => NextKeys("server", g)
      <3>1. m.t = "clientKeyExchange" /\ ServerAt(h, "ckx", a) /\ At("server")' = w
        BY <1>7, <2>1, <2>4
      <3>2. ServerAt(g, w, a)
        BY <1>1, <2>4, <3>1, ServerExchangePlaced
      <3> QED
        BY <2>2, <3>1, <3>2 DEF g, c
    <2> QED
      BY <2>1, <2>3, <2>4
  <1>12. CASE ServerCertVerify
    <2>1. /\ Reads("server", {"certVerify"}, "certificateVerify") /\ Moved("server", {})
          /\ \/ Failed("server")
             \/ /\ Goes("server", g, "ccs") /\ Noted(h, g, m, {"inNext", "outNext"})
                /\ NextKeys("server", g)
      BY <1>1, <1>12, CertVerifyEffect DEF g, m, h
    <2>2. Others("server")
      BY <1>2, <2>1
    <2>3. CASE Failed("server")
      BY <1>4, <2>2, <2>3 DEF g, c
    <2>4. CASE /\ Goes("server", g, "ccs") /\ Noted(h, g, m, {"inNext", "outNext"})
               /\ NextKeys("server", g)
      <3>1. m.t = "certificateVerify" /\ ServerAt(h, "certVerify", a) /\ At("server")' = "ccs"
        BY <1>7, <2>1, <2>4
      <3>2. ServerAt(g, "ccs", a)
        BY <1>1, <2>4, <3>1, ServerProofPlaced
      <3> QED
        BY <2>2, <3>1, <3>2 DEF g, c
    <2> QED
      BY <2>1, <2>3, <2>4
  <1>13. CASE ServerFinished
    <2>1. \E M : Moved("server", M)
      BY <1>1, <1>13, ServerFinishedEffect DEF Completes
    <2> QED
      BY <1>2, <1>13, <2>1, ServerFinishedPlaced
  <1> QED
    BY <1>5, <1>6, <1>8, <1>9, <1>10, <1>11, <1>12, <1>13 DEF Step, ServerStep

--------------------------------------------------------------------------------
(* The order of messages *)

\* Before its hello a side has seen nothing.
LEMMA FreshPlaced == Fresh => Placed
  <1> SUFFICES ASSUME Fresh PROVE Placed
    OBVIOUS
  <1>1. /\ At("client") \in {"free", "ended", "start"}
        /\ At("server") \in {"free", "ended", "hello"}
    BY DEF Fresh, At, Done, Sides
  <1> QED
    BY <1>1, Nowhere DEF Placed

\* A side that does not step is where it was.
LEMMA StaysAt ==
    ASSUME NEW s, end'[s] = end[s], pc'[s] = pc[s]
    PROVE  At(s)' = At(s) /\ Done(s)' = Done(s) /\ Alive(s)' = Alive(s)
  BY DEF At, Done, Alive

\* A step of one side leaves the other as it is.
LEMMA OthersStay ==
    ASSUME NEW s \in Sides, Others(s)
    PROVE  /\ Free' = Free /\ cfg' = cfg /\ hs'[Peer(s)] = hs[Peer(s)]
           /\ At(Peer(s))' = At(Peer(s)) /\ Done(Peer(s))' = Done(Peer(s))
           /\ Alive(Peer(s))' = Alive(Peer(s))
  <1>1. /\ cfg' = cfg /\ hs'[Peer(s)] = hs[Peer(s)]
        /\ end'[Peer(s)] = end[Peer(s)] /\ pc'[Peer(s)] = pc[Peer(s)]
    BY DEF Others
  <1> QED
    BY <1>1, StaysAt DEF Free

\* Every step leaves the sides that follow the protocol in their places.
LEMMA NextPlaced == ASSUME IInv, Placed, [Next]_vars PROVE Placed'
  <1>1. Frame /\ DOMAIN pc = Sides /\ "client" \in Sides /\ "server" \in Sides
    BY DEF IInv, Frame, Sides
  <1>2. Peer("client") = "server" /\ Peer("server") = "client"
    BY DEF Peer
  <1>3. ASSUME NEW s \in Sides, s \notin Free, Step(s) PROVE Placed'
    <2>1. CASE s = "client"
      <3>1. ClientAt(hs'["client"], At("client")') /\ Others("client")
        BY <1>3, <2>1, ClientPlaced
      <3>2. /\ Free' = Free /\ cfg' = cfg /\ hs'["server"] = hs["server"]
            /\ At("server")' = At("server")
        BY <1>1, <1>2, <3>1, OthersStay
      <3> QED
        BY <3>1, <3>2 DEF Placed
    <2>2. CASE s = "server"
      <3>1. /\ ServerAt(hs'["server"], At("server")', cfg["server"].auth # 0)
            /\ Others("server")
        BY <1>3, <2>2, ServerPlaced
      <3>2. /\ Free' = Free /\ cfg' = cfg /\ hs'["client"] = hs["client"]
            /\ At("client")' = At("client")
        BY <1>1, <1>2, <3>1, OthersStay
      <3> QED
        BY <3>1, <3>2 DEF Placed
    <2> QED
      BY <1>3, <2>1, <2>2 DEF Sides
  <1>4. ASSUME UNCHANGED <<cfg, hs, end>>, \A s \in Sides \ Free : pc'[s] = pc[s]
        PROVE  Placed'
    <2>1. Free' = Free
      BY <1>4 DEF Free
    <2>2. \A s \in Sides \ Free : At(s)' = At(s)
      BY <1>4, StaysAt
    <2> QED
      BY <1>1, <1>4, <2>1, <2>2 DEF Placed
  <1>5. CASE Connect
    <2>1. Fresh'
      BY <1>5, ConnectFresh
    <2> QED
      BY <2>1, FreshPlaced, PTL
  <1>6. ASSUME NEW s \in Free, FreeCloses(s) PROVE Placed'
    <2>1. UNCHANGED <<cfg, hs, end>> /\ pc' = [pc EXCEPT ![s] = "ended"]
      BY <1>6 DEF FreeCloses
    <2>2. \A x \in Sides \ Free : pc'[x] = pc[x]
      BY <1>1, <2>1
    <2> QED
      BY <1>4, <2>1, <2>2
  <1>7. ASSUME NEW s \in Free, FreeSends(s) PROVE Placed'
    BY <1>4, <1>7 DEF FreeSends
  <1>8. CASE FreeKeepsTicket
    BY <1>4, <1>8 DEF FreeKeepsTicket
  <1>9. CASE Cut
    BY <1>4, <1>9 DEF Cut
  <1>10. CASE NextDay
    BY <1>4, <1>10 DEF NextDay
  <1>11. CASE UNCHANGED vars
    BY <1>4, <1>11 DEF vars
  <1> QED
    BY <1>3, <1>5, <1>6, <1>7, <1>8, <1>9, <1>10, <1>11 DEF Next, Over

\* Both invariants hold in every reachable state.
LEMMA InPlace == Spec => [](IInv /\ Placed)
  <1>1. Init => IInv /\ Placed
    BY InitFresh, FreshInv, FreshPlaced
  <1>2. IInv /\ Placed /\ [Next]_vars => IInv' /\ Placed'
    BY NextInv, NextPlaced
  <1> QED
    BY <1>1, <1>2, PTL DEF Spec

\* Whatever the peer sends, the transcript of a side that completes holds the
\* messages of a full or an abbreviated handshake, each in its place: the chains of
\* reads in handshake_client.go and handshake_server.go let none be skipped or
\* repeated.
THEOREM CompletedInOrder == Spec => []MessagesInOrder
  <1>1. IInv /\ Placed => MessagesInOrder
    <2> SUFFICES ASSUME IInv, Placed, NEW s \in Sides \ Free, Done(s)
                 PROVE  Types(hs[s].tr) = Shape(s)
      BY DEF MessagesInOrder, Types
    <2>1. At(s) = "done"
      BY DEF At
    <2>2. CASE s = "client"
      <3> DEFINE h == hs["client"]
      <3>1. ClientCloses(h, "done")
        BY <2>1, <2>2 DEF Placed, ClientAt
      <3>2. CASE h.didResume
        BY <2>2, <3>1, <3>2 DEF ClientCloses, Shape, Renewed, Hellos
      <3>3. CASE ~h.didResume
        BY <2>2, <3>1, <3>3 DEF ClientCloses, Shape, Ticketed, Closed, Signed, Exchanged,
           Answered, Flown, Asked, Keyed, Stem, Status, Has
      <3> QED
        BY <3>2, <3>3
    <2>3. CASE s = "server"
      <3> DEFINE h == hs["server"]
      <3>1. ServerCloses(h, "done", cfg["server"].auth # 0)
        BY <2>1, <2>3 DEF Placed, ServerAt
      <3>2. CASE h.didResume
        BY <2>3, <3>1, <3>2 DEF ServerCloses, Shape, Renewed, Hellos
      <3>3. CASE ~h.didResume
        BY <2>3, <3>1, <3>3 DEF ServerCloses, Shape, Ticketed, Closed, Signed, Exchanged,
           Answered, Flown, Asked, Keyed, Stem, Status, Has
      <3> QED
        BY <3>2, <3>3
    <2> QED
      BY <2>2, <2>3 DEF Sides
  <1> QED
    BY InPlace, <1>1, PTL

--------------------------------------------------------------------------------
(* What a step adds to what the two sides have in common *)

\* m is on its way to s.
Arrived(s, m) == \E r \in Elems(wire[s]) : r.typ = "handshake" /\ r.m = m

\* A side keeps what its Finished covers, and is done once it has heard the other's.
Onward(h, g) == Begins(h.tr, g.tr) /\ g.secret = h.secret /\ g.didResume = h.didResume
GoesOn(s) ==
    LET h == hs[s]
        g == hs'[s]
    IN /\ At(s) \in Late(s) => Onward(h, g) /\ At(s)' \in Late(s)
       /\ Done(s)' =>
             /\ At(s) = "finished"
             /\ \E m : /\ Arrived(s, m) /\ m.t = "finished"
                       /\ Proves(m.verify, VerifyData(Peer(s), h))
                       /\ (s = "client" <=> h.didResume) \/ g.tr = Append(h.tr, m)

\* It has sent messages of M; a Finished among them is its own.
Says(s, M) ==
    Moved(s, M) /\ (Failed(s) \/ \A m \in M : m.t = "finished" => Pledged(s, m)')

\* What a client sends and keeps of hellos and tickets.
ClientTells(M) ==
    LET h == hs["client"]
        g == hs'["client"]
    IN /\ \A m \in M : m.t = "clientHello" => m.ems = TRUE /\ m.ticket \in {NoTicket, cache.ticket}
       /\ cache'.ticket \in {NoTicket, cache.ticket, h.ticket}
       /\ \/ g.ticket \in {NoTicket, h.ticket}
          \/ \E m : Arrived("client", m) /\ m.t = "newSessionTicket" /\ g.ticket = m.ticket
ClientMoves ==
    /\ pc["client"] # "ended" /\ (Failed("client") \/ GoesOn("client"))
    /\ \E M : Says("client", M) /\ ClientTells(M)

\* What a server sends and keeps of hellos and tickets.
ServerTells(M) ==
    LET h == hs["server"]
        g == hs'["server"]
    IN /\ cache' = cache
       /\ \A m \in M : m.t = "newSessionTicket" =>
             At("server")' \in Chosen /\ m.ticket.state.ems = g.ems
       /\ At("server")' \in Chosen =>
             \/ At("server") \in Chosen /\ g.ems = h.ems /\ g.serverHello = h.serverHello
             \/ \E m : /\ Arrived("server", m) /\ m.t = "clientHello"
                       /\ g.serverHello.ems = m.ems
                       /\ \/ g.ems = m.ems
                          \/ m.ticket # NoTicket /\ g.ems = m.ticket.state.ems
ServerMoves ==
    /\ pc["server"] # "ended" /\ (Failed("server") \/ GoesOn("server"))
    /\ \E M : Says("server", M) /\ ServerTells(M)

\* What it takes for m to be the Finished of s after a step.
LEMMA PledgedNext ==
    ASSUME NEW s, NEW m, NEW x, IsSeq(x), m.verify = <<"finished", s, hs'[s].secret, x>>,
           Begins(Append(x, m), hs'[s].tr), At(s)' \in Late(s),
           (s = "client" <=> hs'[s].didResume) => hs'[s].tr = Append(x, m) /\ Done(s)'
    PROVE  Pledged(s, m)'
  <1>1. m.verify[4] = x
    OBVIOUS
  <1> QED
    BY <1>1 DEF Pledged, Late

\* A side that moves without the keys, and stays without.
LEMMA EarlyGoesOn ==
    ASSUME Frame, NEW s \in Sides, pc[s] \notin Late(s) \cup {"ended"}, NEW g, NEW w,
           Goes(s, g, w), w # "ended"
    PROVE  GoesOn(s)
  <1>1. At(s) = pc[s] /\ ~Done(s)
    BY AtFacts
  <1>2. ~Done(s)'
    BY <1>1 DEF Goes, Done
  <1> QED
    BY <1>1, <1>2 DEF GoesOn

\* A side that has the keys, and moves on without a Finished.
LEMMA LateGoesOn ==
    ASSUME Frame, NEW s \in Sides, pc[s] # "ended", NEW g, NEW w, Goes(s, g, w), w # "ended",
           w \in Late(s), Onward(hs[s], g)
    PROVE  GoesOn(s)
  <1>1. hs'[s] = g /\ At(s)' = w /\ ~Done(s)
    BY AtFacts
  <1>2. ~Done(s)'
    BY <1>1 DEF Goes, Done
  <1> QED
    BY <1>1, <1>2 DEF GoesOn

\* To note a message is to keep what was noted before.
LEMMA NotedOnward ==
    ASSUME NEW h, NEW g, NEW m, NEW F, IsSeq(h.tr), Noted(h, g, m, F), "secret" \notin F,
           "didResume" \notin F
    PROVE  Onward(h, g)
  <1>1. g.tr = Append(h.tr, m) /\ g.secret = h.secret /\ g.didResume = h.didResume
    BY BlankFields DEF Noted, Like
  <1>2. Begins(h.tr, Append(h.tr, m))
    BY BeginsFacts
  <1> QED
    BY <1>1, <1>2 DEF Onward

\* The record layer.
LEMMA RecordGoesOn ==
    ASSUME Frame, NEW s \in Sides, s \notin Free, RecordStep(s)
    PROVE  /\ pc[s] # "ended" /\ (Failed(s) \/ GoesOn(s)) /\ Says(s, {})
           /\ Failed(s) \/ (hs'[s].ticket = hs[s].ticket /\ cache' = cache)
           /\ Failed(s) \/ (pc[s] = "ccs" /\ At(s)' = "finished") \/ At(s)' = At(s)
           /\ Failed(s) \/ (hs'[s].ems = hs[s].ems /\ hs'[s].serverHello = hs[s].serverHello)
  <1> DEFINE h == hs[s]
  <1>1. pc[s] # "ended"
    BY DEF RecordStep, RecordRefused, AlertReceived, WarningDropped, EndOfFile,
       ReadChangeCipherSpec, Reading
  <1>2. /\ Moved(s, {})
        /\ \/ Failed(s)
           \/ Goes(s, h, pc[s]) /\ cache' = cache
           \/ pc[s] = "ccs" /\ cache' = cache /\ Goes(s, Switched(h), "finished")
    BY RecordEffect
  <1>3. Says(s, {})
    BY <1>2 DEF Says
  <1>4. IsSeq(h.tr) /\ DOMAIN h = DOMAIN Blank
    BY DEF Frame
  <1>5. CASE Failed(s)
    BY <1>1, <1>3, <1>5
  <1>6. CASE Goes(s, h, pc[s]) /\ cache' = cache
    <2>1. hs'[s] = h /\ At(s)' = pc[s] /\ At(s) = pc[s] /\ ~Done(s)
      BY <1>1, <1>6, AtFacts
    <2>2. ~Done(s)'
      BY <1>1, <1>6, <2>1 DEF Goes, Done
    <2>3. Onward(h, h)
      BY <1>4, BeginsFacts DEF Onward
    <2>4. GoesOn(s)
      BY <2>1, <2>2, <2>3 DEF GoesOn
    <2> QED
      BY <1>1, <1>3, <1>6, <2>1, <2>4
  <1>7. CASE pc[s] = "ccs" /\ cache' = cache /\ Goes(s, Switched(h), "finished")
    <2> DEFINE g == Switched(h)
    <2>1. /\ g.tr = h.tr /\ g.secret = h.secret /\ g.didResume = h.didResume
          /\ g.ticket = h.ticket /\ g.ems = h.ems /\ g.serverHello = h.serverHello
      BY <1>4, BlankFields DEF Switched
    <2> HIDE DEF g
    <2>2. Onward(h, g)
      BY <1>4, <2>1, BeginsFacts DEF Onward
    <2>3. Goes(s, g, "finished")
      BY <1>7 DEF g
    <2>4. GoesOn(s)
      BY <1>1, <2>2, <2>3, LateGoesOn DEF Late
    <2>5. hs'[s] = g /\ At(s)' = "finished"
      BY <1>1, <2>3, AtFacts
    <2> QED
      BY <1>1, <1>3, <1>7, <2>1, <2>4, <2>5
  <1> QED
    BY <1>2, <1>5, <1>6, <1>7

\* A side that sends nothing.
LEMMA SaysNothing == \A s : Moved(s, {}) => Says(s, {})
  BY DEF Says

\* The tickets a client has when it fails.
LEMMA ClientFailsTells ==
    ASSUME Failed("client"), NEW M, \A m \in M : m.t # "clientHello"
    PROVE  ClientTells(M)
  BY EmptyEntry DEF Failed, ClientTells

\* A client that sends nothing and leaves the cache as it is.
LEMMA ClientKeepsTells ==
    ASSUME cache' = cache, hs'["client"].ticket = hs["client"].ticket,
           NEW M, \A m \in M : m.t # "clientHello"
    PROVE  ClientTells(M)
  BY DEF ClientTells

\* The first message of a client.
LEMMA ClientStartMoves ==
    ASSUME IInv, "client" \notin Free, ClientStart
    PROVE  ClientMoves
  <1> DEFINE g == hs'["client"]
  <1>1. /\ cache' \in {NoEntry, cache}
        /\ Goes("client", g, "hello") /\ Like(Blank, g, {"hello", "sess"})
        /\ \E tk : /\ g.hello = ClientHelloMsg(cfg["client"], tk)
                   /\ Moved("client", {g.hello})
                   /\ tk = NoTicket \/ tk = cache.ticket
    BY ClientStartEffect DEF IInv
  <1>2. Frame /\ "client" \in Sides /\ pc["client"] = "start"
    BY DEF IInv, Sides, ClientStart
  <1>3. GoesOn("client")
    BY <1>1, <1>2, EarlyGoesOn DEF Late
  <1>4. PICK tk : /\ g.hello = ClientHelloMsg(cfg["client"], tk)
                  /\ Moved("client", {g.hello})
                  /\ tk = NoTicket \/ tk = cache.ticket
    BY <1>1
  <1>5. g.hello.t = "clientHello" /\ g.hello.ems = TRUE /\ g.hello.ticket = tk
    BY <1>4 DEF ClientHelloMsg
  <1>6. g.ticket = NoTicket
    BY <1>1, BlankFields DEF Like, Blank
  <1> HIDE DEF g
  <1>7. Says("client", {g.hello})
    BY <1>4, <1>5 DEF Says
  <1>8. ClientTells({g.hello})
    <2>1. cache'.ticket \in {NoTicket, cache.ticket}
      BY <1>1, EmptyEntry
    <2> QED
      BY <1>4, <1>5, <1>6, <2>1 DEF ClientTells, g
  <1> QED
    BY <1>2, <1>3, <1>7, <1>8 DEF ClientMoves

\* A client that reads on.
LEMMA ClientHeardMoves ==
    ASSUME Frame, "client" \notin Free, NEW F, NEW w, NEW W, NEW x, NEW m,
           Heard("client", m, F, w), Reads("client", W, x), m = Msg("client"), w # "ended",
           "secret" \notin F, "didResume" \notin F, w \in Late("client") \/ W \cap Late("client") = {},
           "ticket" \notin F \/ (x = "newSessionTicket" /\ hs'["client"].ticket = m.ticket)
    PROVE  ClientMoves
  <1> DEFINE h == hs["client"]
             g == hs'["client"]
  <1>1. /\ "client" \in Sides /\ pc["client"] \in W /\ pc["client"] # "ended" /\ m.t = x
        /\ IsSeq(h.tr) /\ Arrived("client", m)
    BY ReadingFacts DEF Sides, Arrived
  <1>2. Moved("client", {}) /\ Goes("client", g, w) /\ cache' = cache /\ Noted(h, g, m, F)
    BY DEF Heard
  <1>3. GoesOn("client")
    <2>1. CASE w \in Late("client")
      <3>1. Onward(h, g)
        BY <1>1, <1>2, NotedOnward
      <3> QED
        BY <1>1, <1>2, <2>1, <3>1, LateGoesOn
    <2>2. CASE W \cap Late("client") = {}
      BY <1>1, <1>2, <2>2, EarlyGoesOn
    <2> QED
      BY <2>1, <2>2
  <1>4. ClientTells({})
    <2>1. CASE "ticket" \notin F
      <3>1. g.ticket = h.ticket
        BY <1>2, <2>1, BlankFields DEF Noted, Like
      <3> QED
        BY <1>2, <3>1, ClientKeepsTells
    <2>2. CASE x = "newSessionTicket" /\ g.ticket = m.ticket
      BY <1>1, <1>2, <2>2 DEF ClientTells
    <2> QED
      BY <2>1, <2>2
  <1> QED
    BY <1>1, <1>2, <1>3, <1>4, SaysNothing DEF ClientMoves

\* The client that takes a ServerHello.
LEMMA ServerHelloMoves ==
    ASSUME IInv, "client" \notin Free, ClientServerHello
    PROVE  ClientMoves
  <1> DEFINE h == hs["client"]
             g == hs'["client"]
             m == Msg("client")
             base == {"vers", "suite", "alpn", "ems", "serverHello", "tr"}
             more == {"didResume", "secret", "peer", "verified", "inNext", "outNext"}
  <1>1. /\ Moved("client", {}) /\ Reads("client", {"hello"}, "serverHello")
        /\ \/ Failed("client")
           \/ Goes("client", g, "cert") /\ cache' = cache /\ Like(h, g, base)
           \/ /\ cache' = cache /\ Like(h, g, base \cup more)
              /\ Goes("client", g, IF m.tickets THEN "ticket" ELSE "ccs")
    BY ServerHelloEffect DEF IInv
  <1>2. Frame /\ "client" \in Sides /\ pc["client"] = "hello"
    BY <1>1, ReadingFacts DEF IInv, Sides
  <1>3. Says("client", {})
    BY <1>1, SaysNothing
  <1>4. CASE Failed("client")
    BY <1>2, <1>3, <1>4, ClientFailsTells DEF ClientMoves
  <1>5. ASSUME NEW w, Goes("client", g, w), w # "ended", cache' = cache,
               Like(h, g, base \cup more)
        PROVE  ClientMoves
    <2>1. GoesOn("client")
      BY <1>2, <1>5, EarlyGoesOn DEF Late
    <2>2. g.ticket = h.ticket
      BY <1>5, BlankFields DEF Like
    <2>3. ClientTells({})
      BY <1>5, <2>2, ClientKeepsTells
    <2> QED
      BY <1>2, <1>3, <2>1, <2>3 DEF ClientMoves
  <1>6. Like(h, g, base) => Like(h, g, base \cup more)
    BY DEF Like
  <1> HIDE DEF h, g, m, base, more
  <1> QED
    BY <1>1, <1>4, <1>5, <1>6

\* The client that sends its second flight.
LEMMA HelloDoneMoves ==
    ASSUME IInv, Placed, "client" \notin Free, ClientHelloDone
    PROVE  ClientMoves
  <1> DEFINE h == hs["client"]
             g == hs'["client"]
             m == Msg("client")
             w == IF h.serverHello.tickets THEN "ticket" ELSE "ccs"
  <1>1. /\ Reads("client", Reading1, "serverHelloDone")
        /\ \E M : /\ SecondFlight(h, M) /\ Moved("client", M)
                  /\ Failed("client") \/ Answers(h, g, m, M)
        /\ \/ Failed("client")
           \/ /\ Goes("client", g, w) /\ cache' = cache
              /\ Like(h, g, {"tr", "verified", "secret", "inNext", "out", "outNext"})
    BY HelloDoneEffect DEF IInv, Reading1
  <1>2. /\ Frame /\ "client" \in Sides /\ pc["client"] \in Reading1 /\ pc["client"] # "ended"
        /\ IsSeq(h.tr)
    BY <1>1, ReadingFacts DEF IInv, Sides
  <1>3. h.didResume = FALSE
    BY <1>2, AtFacts DEF Placed, ClientAt, ClientReads
  <1>4. PICK M : /\ SecondFlight(h, M) /\ Moved("client", M)
                 /\ Failed("client") \/ Answers(h, g, m, M)
    BY <1>1
  <1>5. \A x \in M : x.t # "clientHello"
    BY <1>4 DEF SecondFlight
  <1> HIDE DEF h, g, m
  <1>6. CASE Failed("client")
    <2>1. Says("client", M)
      BY <1>4, <1>6 DEF Says
    <2> QED
      BY <1>2, <1>5, <1>6, <2>1, ClientFailsTells DEF ClientMoves
  <1>7. CASE /\ ~Failed("client") /\ Goes("client", g, w) /\ cache' = cache
             /\ Like(h, g, {"tr", "verified", "secret", "inNext", "out", "outNext"})
    <2>1. GoesOn("client")
      BY <1>2, <1>7, EarlyGoesOn DEF Late, Reading1
    <2>2. g.ticket = h.ticket /\ g.didResume = FALSE
      BY <1>3, <1>7, BlankFields DEF Like
    <2>3. ClientTells(M)
      BY <1>5, <1>7, <2>2, ClientKeepsTells DEF g, h
    <2>4. PICK certs, ckx, proof, fin : AnswersWith(h, g, m, M, certs, ckx, proof, fin)
      BY <1>4, <1>7 DEF Answers
    <2> DEFINE x == (Append(h.tr, m) \o certs \o <<ckx>>) \o proof
    <2>5. IsSeq(x)
      <3>1. IsSeq(certs)
        BY <2>4, TupleFacts DEF AnswersWith
      <3>2. IsSeq(proof)
        BY <2>4, TupleFacts DEF AnswersWith
      <3>3. IsSeq(Append(h.tr, m)) /\ IsSeq(<<ckx>>)
        BY <1>2, TupleFacts, SeqFacts
      <3>4. IsSeq(Append(h.tr, m) \o certs)
        BY <3>1, <3>3, ConcatFacts
      <3>5. IsSeq(Append(h.tr, m) \o certs \o <<ckx>>)
        BY <3>3, <3>4, ConcatFacts
      <3> QED
        BY <3>2, <3>5, ConcatFacts
    <2>6. /\ fin.verify = <<"finished", "client", g.secret, x>> /\ g.tr = Append(x, fin)
          /\ \A y \in M : y.t = "finished" => y = fin
      BY <2>4 DEF AnswersWith
    <2>7. At("client")' \in Late("client")
      BY <1>2, <1>7, AtFacts DEF Late
    <2>8. PICK z : z = x
      OBVIOUS
    <2> HIDE DEF x
    <2>9. Begins(Append(z, fin), g.tr)
      <3>1. IsSeq(Append(z, fin))
        BY <2>5, <2>8, SeqFacts
      <3> QED
        BY <2>6, <2>8, <3>1, BeginsFacts
    <2>10. Pledged("client", fin)'
      BY <2>2, <2>5, <2>6, <2>7, <2>8, <2>9, PledgedNext DEF g
    <2>11. Says("client", M)
      BY <1>4, <2>6, <2>10 DEF Says
    <2> QED
      BY <1>2, <2>1, <2>3, <2>11 DEF ClientMoves
  <1> QED
    BY <1>1, <1>6, <1>7 DEF h, g

\* A side that sends its Finished last.
LEMMA CompletesSays ==
    ASSUME Frame, NEW s \in Sides, pc[s] # "ended", NEW m, NEW pre, IsSeq(pre),
           \A y \in Elems(pre) : y.t = "newSessionTicket",
           Completes(s, hs[s], hs'[s], m, pre), Goes(s, hs'[s], "ended")
    PROVE  /\ \E M : Says(s, M) /\ \A y \in M : y \in Elems(pre) \/ y.t = "finished"
           /\ Onward(hs[s], hs'[s]) /\ At(s)' = "done" /\ Done(s)'
  <1> DEFINE h == hs[s]
             g == hs'[s]
             t1 == Append(h.tr, m)
             x == t1 \o pre
  <1>1. PICK fin : fin = [t |-> "finished", verify |-> <<"finished", s, h.secret, x>>]
    OBVIOUS
  <1>2. /\ Like(h, g, {"tr", "out", "outNext"}) /\ IsSeq(g.tr) /\ g.tr = Append(x, fin)
        /\ Moved(s, Elems(pre) \cup {fin})
    BY <1>1 DEF Completes
  <1>3. fin.t = "finished" /\ fin.verify = <<"finished", s, h.secret, x>>
    BY <1>1
  <1>4. IsSeq(h.tr) /\ IsSeq(t1) /\ IsSeq(x)
    <2>1. IsSeq(h.tr)
      BY DEF Frame
    <2>2. IsSeq(t1)
      BY <2>1, SeqFacts
    <2> QED
      BY <2>1, <2>2, ConcatFacts
  <1>5. g.secret = h.secret /\ g.didResume = h.didResume
    BY <1>2, BlankFields DEF Like
  <1>6. At(s)' = "done" /\ Done(s)'
    BY AtFacts DEF Goes, Done
  <1>7. Onward(h, g)
    <2>1. Begins(h.tr, t1) /\ Begins(t1, x) /\ Begins(x, Append(x, fin))
      BY <1>4, BeginsFacts
    <2>2. Begins(h.tr, x)
      BY <1>4, <2>1, BeginsFacts
    <2>3. Begins(h.tr, g.tr)
      BY <1>2, <1>4, <2>1, <2>2, BeginsFacts
    <2> QED
      BY <1>5, <2>3 DEF Onward
  <1>8. PICK z : z = x
    OBVIOUS
  <1> HIDE DEF x
  <1>9. Begins(g.tr, g.tr)
    BY <1>2, BeginsFacts
  <1>10. At(s)' \in Late(s)
    BY <1>6 DEF Late
  <1>11. Pledged(s, fin)'
    BY <1>2, <1>3, <1>4, <1>5, <1>6, <1>8, <1>9, <1>10, PledgedNext
  <1>12. Says(s, Elems(pre) \cup {fin})
    BY <1>2, <1>11 DEF Says
  <1> QED
    BY <1>3, <1>6, <1>7, <1>12

\* The client that reads the server's Finished.
LEMMA ClientFinishedMoves ==
    ASSUME IInv, "client" \notin Free, ClientFinished
    PROVE  ClientMoves
  <1> DEFINE h == hs["client"]
             g == hs'["client"]
             m == Msg("client")
  <1>1. /\ Reads("client", {"finished"}, "finished")
        /\ \/ Moved("client", {}) /\ Failed("client")
           \/ /\ Goes("client", g, "ended") /\ Proves(m.verify, VerifyData("server", h))
              /\ \/ cache' = cache
                 \/ \E b : cache' = [ticket |-> h.ticket, session |-> SessionState(h, day, b)]
              /\ \/ ~h.didResume /\ Moved("client", {}) /\ Noted(h, g, m, {})
                 \/ h.didResume /\ Completes("client", h, g, m, <<>>)
    BY ClientFinishedEffect DEF IInv
  <1>2. /\ Frame /\ "client" \in Sides /\ pc["client"] = "finished" /\ m.t = "finished"
        /\ IsSeq(h.tr) /\ Arrived("client", m)
    BY <1>1, ReadingFacts DEF IInv, Sides, Arrived
  <1>3. CASE Moved("client", {}) /\ Failed("client")
    BY <1>2, <1>3, SaysNothing, ClientFailsTells DEF ClientMoves
  <1>4. CASE /\ Goes("client", g, "ended") /\ Proves(m.verify, VerifyData("server", h))
             /\ \/ cache' = cache
                \/ \E b : cache' = [ticket |-> h.ticket, session |-> SessionState(h, day, b)]
             /\ \/ ~h.didResume /\ Moved("client", {}) /\ Noted(h, g, m, {})
                \/ h.didResume /\ Completes("client", h, g, m, <<>>)
    <2>1. cache'.ticket \in {cache.ticket, h.ticket}
      BY <1>4
    <2>2. At("client") = "finished" /\ At("client")' = "done"
      BY <1>2, <1>4, AtFacts
    <2>3. Peer("client") = "server"
      BY DEF Peer
    <2>4. ASSUME Onward(h, g), h.didResume \/ g.tr = Append(h.tr, m)
          PROVE  GoesOn("client")
      BY <1>2, <1>4, <2>2, <2>3, <2>4 DEF GoesOn, Late
    <2>5. ASSUME g.ticket = h.ticket, NEW M, \A y \in M : y.t # "clientHello"
          PROVE  ClientTells(M)
      BY <2>1, <2>5 DEF ClientTells
    <2>6. CASE ~h.didResume /\ Moved("client", {}) /\ Noted(h, g, m, {})
      <3>1. Onward(h, g)
        BY <1>2, <2>6, NotedOnward
      <3>2. g.tr = Append(h.tr, m) /\ g.ticket = h.ticket
        BY <2>6, BlankFields DEF Noted, Like
      <3> QED
        BY <1>2, <2>4, <2>5, <2>6, <3>1, <3>2, SaysNothing DEF ClientMoves
    <2>7. CASE h.didResume /\ Completes("client", h, g, m, <<>>)
      <3>1. IsSeq(<<>>) /\ Elems(<<>>) = {}
        BY TupleFacts
      <3>2. /\ \E M : Says("client", M) /\ \A y \in M : y \in Elems(<<>>) \/ y.t = "finished"
            /\ Onward(h, g)
        BY <1>2, <1>4, <2>7, <3>1, CompletesSays
      <3>3. g.ticket = h.ticket
        BY <2>7, BlankFields DEF Completes, Like
      <3>4. PICK M : Says("client", M) /\ \A y \in M : y.t = "finished"
        BY <3>1, <3>2
      <3>5. ClientTells(M)
        BY <2>5, <3>3, <3>4
      <3> QED
        BY <1>2, <2>4, <2>7, <3>2, <3>4, <3>5 DEF ClientMoves
    <2> QED
      BY <1>4, <2>6, <2>7
  <1> QED
    BY <1>1, <1>3, <1>4

\* Every step of a client is one of these.
LEMMA ClientStepMoves ==
    ASSUME IInv, Placed, "client" \notin Free, Step("client")
    PROVE  ClientMoves
  <1> DEFINE h == hs["client"]
             g == hs'["client"]
             m == Msg("client")
  <1>1. Frame /\ "client" \in Sides
    BY DEF IInv, Sides
  <1>2. ASSUME pc["client"] # "ended", Moved("client", {}), Failed("client")
        PROVE  ClientMoves
    BY <1>2, SaysNothing, ClientFailsTells DEF ClientMoves
  <1>3. CASE RecordStep("client")
    <2>1. /\ pc["client"] # "ended" /\ (Failed("client") \/ GoesOn("client"))
          /\ Says("client", {})
          /\ Failed("client") \/ (g.ticket = h.ticket /\ cache' = cache)
      BY <1>1, <1>3, RecordGoesOn
    <2>2. ClientTells({})
      BY <2>1, ClientFailsTells, ClientKeepsTells
    <2> QED
      BY <2>1, <2>2 DEF ClientMoves
  <1>4. CASE ClientCannotStart
    <2>1. pc["client"] # "ended"
      BY <1>4 DEF ClientCannotStart
    <2> QED
      BY <1>1, <1>2, <1>4, <2>1, CannotStartEffect
  <1>5. CASE \/ ClientCertificate \/ ClientStatus \/ ClientKeyExchange \/ ClientCertRequest
             \/ ClientTicket
    <2>1. pc["client"] # "ended"
      BY <1>5 DEF ClientCertificate, ClientStatus, ClientKeyExchange, ClientCertRequest,
         ClientTicket, Reads
    <2>2. \/ Moved("client", {}) /\ Failed("client")
          \/ /\ Reads("client", {"cert"}, "certificate")
             /\ Heard("client", m, {"peer"}, "status")
          \/ /\ Reads("client", {"status"}, "certificateStatus")
             /\ Heard("client", m, {}, "verify")
          \/ /\ Reads("client", {"status", "verify"}, "serverKeyExchange")
             /\ Heard("client", m, {"share"}, "certReq")
          \/ /\ Reads("client", {"status", "verify", "certReq"}, "certificateRequest")
             /\ Heard("client", m, {"asked", "cert"}, "helloDone")
          \/ /\ Reads("client", {"ticket"}, "newSessionTicket")
             /\ Heard("client", m, {"ticket"}, "ccs") /\ g.ticket = m.ticket
      BY <1>1, <1>5, ClientReadsEffect
    <2> DEFINE L == Late("client")
    <2>3. /\ {"cert"} \cap L = {} /\ {"status"} \cap L = {} /\ {"status", "verify"} \cap L = {}
          /\ {"status", "verify", "certReq"} \cap L = {} /\ "ccs" \in L
      BY DEF Late
    <2> HIDE DEF L
    <2>4. ASSUME NEW F, NEW w, NEW W, NEW x, Heard("client", m, F, w), Reads("client", W, x),
                 w # "ended", "secret" \notin F, "didResume" \notin F, w \in L \/ W \cap L = {},
                 "ticket" \notin F \/ (x = "newSessionTicket" /\ g.ticket = m.ticket)
          PROVE  ClientMoves
      <3>1. PICK y : y = m
        OBVIOUS
      <3> QED
        BY <1>1, <2>4, <3>1, ClientHeardMoves DEF L
    <2> HIDE DEF g, m
    <2>5. CASE /\ Reads("client", {"cert"}, "certificate")
               /\ Heard("client", m, {"peer"}, "status")
      BY <2>3, <2>4, <2>5
    <2>6. CASE /\ Reads("client", {"status"}, "certificateStatus")
               /\ Heard("client", m, {}, "verify")
      BY <2>3, <2>4, <2>6
    <2>7. CASE /\ Reads("client", {"status", "verify"}, "serverKeyExchange")
               /\ Heard("client", m, {"share"}, "certReq")
      BY <2>3, <2>4, <2>7
    <2>8. CASE /\ Reads("client", {"status", "verify", "certReq"}, "certificateRequest")
               /\ Heard("client", m, {"asked", "cert"}, "helloDone")
      BY <2>3, <2>4, <2>8
    <2>9. CASE /\ Reads("client", {"ticket"}, "newSessionTicket")
               /\ Heard("client", m, {"ticket"}, "ccs") /\ g.ticket = m.ticket
      BY <2>3, <2>4, <2>9
    <2> QED
      BY <1>2, <2>1, <2>2, <2>5, <2>6, <2>7, <2>8, <2>9
  <1> QED
    BY <1>3, <1>4, <1>5, ClientStartMoves, ServerHelloMoves, HelloDoneMoves,
       ClientFinishedMoves DEF Step, ClientStep

\* A server that fails, or reads on with the parameters it has.
LEMMA ServerFailsTells ==
    ASSUME Failed("server"), NEW M, \A m \in M : m.t # "newSessionTicket"
    PROVE  ServerTells(M)
  <1>1. cache' = cache /\ At("server")' = "ended"
    BY DEF Failed, At, Done
  <1> QED
    BY <1>1 DEF ServerTells, Chosen

\* A server that reads on keeps the parameters it has chosen.
LEMMA ServerReadsMoves ==
    ASSUME Frame, "server" \notin Free, NEW F, NEW w, NEW W, NEW x,
           Moved("server", {}), cache' = cache, Goes("server", hs'["server"], w),
           Noted(hs["server"], hs'["server"], Msg("server"), F), Reads("server", W, x),
           w # "ended", W \subseteq {"cert", "ckx", "certVerify"},
           "ems" \notin F, "serverHello" \notin F
    PROVE  ServerMoves
  <1> DEFINE h == hs["server"]
             g == hs'["server"]
  <1>1. /\ "server" \in Sides /\ pc["server"] \in W /\ pc["server"] # "ended"
    BY ReadingFacts DEF Sides
  <1>2. GoesOn("server")
    BY <1>1, EarlyGoesOn DEF Late
  <1>3. At("server") \in Chosen
    BY <1>1, AtFacts DEF Chosen
  <1>4. g.ems = h.ems /\ g.serverHello = h.serverHello
    BY BlankFields DEF Noted, Like
  <1>5. ServerTells({})
    BY <1>3, <1>4 DEF ServerTells
  <1> QED
    BY <1>1, <1>2, <1>5, SaysNothing DEF ServerMoves

\* The server that resumes: its Finished covers the hellos and the ticket.
LEMMA ResumesMoves ==
    ASSUME IInv, "server" \notin Free, ServerResumes
    PROVE  ServerMoves
  <1> DEFINE c == cfg["server"]
             m == Msg("server")
             g == hs'["server"]
  <1>1. /\ Reads("server", {"hello"}, "clientHello") /\ m.ticket # NoTicket
        /\ \/ Moved("server", {}) /\ Failed("server")
           \/ /\ cache' = cache /\ Goes("server", g, "ccs")
              /\ \E tk, fin : /\ Resumed(c, m, g, tk, fin)
                              /\ Moved("server", {g.serverHello, tk, fin})
    BY ResumeEffect DEF IInv
  <1>2. /\ Frame /\ "server" \in Sides /\ pc["server"] = "hello" /\ m.t = "clientHello"
        /\ Arrived("server", m)
    BY <1>1, ReadingFacts DEF IInv, Sides, Arrived
  <1>3. CASE Moved("server", {}) /\ Failed("server")
    BY <1>2, <1>3, SaysNothing, ServerFailsTells DEF ServerMoves
  <1>4. CASE /\ cache' = cache /\ Goes("server", g, "ccs")
             /\ \E tk, fin : /\ Resumed(c, m, g, tk, fin)
                             /\ Moved("server", {g.serverHello, tk, fin})
    <2>1. PICK tk, fin : /\ Resumed(c, m, g, tk, fin)
                         /\ Moved("server", {g.serverHello, tk, fin})
      BY <1>4
    <2>2. GoesOn("server")
      BY <1>2, <1>4, EarlyGoesOn DEF Late
    <2>3. At("server")' = "ccs"
      BY <1>2, <1>4, AtFacts
    <2>4. /\ g.didResume = TRUE /\ g.tr = <<m, g.serverHello, tk, fin>>
          /\ g.ems = m.ticket.state.ems /\ tk.t = "newSessionTicket"
          /\ g.serverHello = ServerHelloMsg(c, g, m, m.ticket.state.suite, TRUE)
          /\ tk.ticket.state = SessionState(g, m.ticket.state.createdAt, m.ticket.state.born)
          /\ fin.t = "finished"
          /\ fin.verify = <<"finished", "server", g.secret, <<m, g.serverHello, tk>> >>
      BY <2>1 DEF Resumed
    <2>5. g.serverHello.t = "serverHello" /\ g.serverHello.ems = m.ems
      BY <2>4 DEF ServerHelloMsg
    <2>6. tk.ticket.state.ems = g.ems
      BY <2>4 DEF SessionState
    <2>7. PICK x : x = <<m, g.serverHello, tk>>
      OBVIOUS
    <2> HIDE DEF g, m, c
    <2>8. IsSeq(x) /\ Append(x, fin) = g.tr
      <3>1. /\ IsSeq(<<m, g.serverHello, tk>>)
            /\ Append(<<m, g.serverHello, tk>>, fin) = <<m, g.serverHello, tk, fin>>
        BY Triple, Quadruple
      <3>2. g.tr = <<m, g.serverHello, tk, fin>>
        BY <2>4
      <3> QED
        BY <2>7, <3>1, <3>2
    <2>9. IsSeq(g.tr)
      <3>1. IsSeq(Append(x, fin))
        BY <2>8, SeqFacts
      <3> QED
        BY <2>8, <3>1
    <2>10. Begins(Append(x, fin), g.tr)
      BY <2>8, <2>9, BeginsFacts
    <2>11. "ccs" \in Late("server")
      BY DEF Late
    <2>12. Pledged("server", fin)'
      <3>1. fin.verify = <<"finished", "server", g.secret, x>>
        BY <2>4, <2>7
      <3>2. ~("server" = "client" <=> g.didResume)
        BY <2>4
      <3> QED
        BY <2>3, <2>8, <2>10, <2>11, <3>1, <3>2, PledgedNext DEF g
    <2>13. Says("server", {g.serverHello, tk, fin})
      BY <2>1, <2>4, <2>5, <2>12 DEF Says
    <2>14. ServerTells({g.serverHello, tk, fin})
      BY <1>1, <1>2, <1>4, <2>3, <2>4, <2>5, <2>6 DEF ServerTells, Chosen, g
    <2> QED
      BY <1>2, <2>2, <2>13, <2>14 DEF ServerMoves
  <1> QED
    BY <1>1, <1>3, <1>4

\* The server that begins a full handshake.
LEMMA FullMoves ==
    ASSUME IInv, "server" \notin Free, ServerFull
    PROVE  ServerMoves
  <1> DEFINE c == cfg["server"]
             m == Msg("server")
             g == hs'["server"]
             w == IF c.auth = 0 THEN "ckx" ELSE "cert"
  <1>1. /\ Reads("server", {"hello"}, "clientHello")
        /\ \E M : Opening(M) /\ Moved("server", M)
        /\ Failed("server") \/ (Begun(c, m, g) /\ cache' = cache /\ Goes("server", g, w))
    BY FullEffect DEF IInv
  <1>2. /\ Frame /\ "server" \in Sides /\ pc["server"] = "hello" /\ m.t = "clientHello"
        /\ Arrived("server", m)
    BY <1>1, ReadingFacts DEF IInv, Sides, Arrived
  <1>3. PICK M : Opening(M) /\ Moved("server", M)
    BY <1>1
  <1>4. \A x \in M : x.t # "newSessionTicket" /\ x.t # "finished"
    BY <1>3 DEF Opening, Later
  <1>5. Says("server", M)
    BY <1>3, <1>4 DEF Says
  <1>6. CASE Failed("server")
    BY <1>2, <1>4, <1>5, <1>6, ServerFailsTells DEF ServerMoves
  <1>7. CASE Begun(c, m, g) /\ cache' = cache /\ Goes("server", g, w)
    <2>1. GoesOn("server")
      BY <1>2, <1>7, EarlyGoesOn DEF Late
    <2>2. g.ems = m.ems /\ g.serverHello = ServerHelloMsg(c, g, m, g.suite, FALSE)
      BY <1>7 DEF Begun
    <2>3. g.serverHello.ems = m.ems
      BY <2>2 DEF ServerHelloMsg
    <2>4. ServerTells(M)
      BY <1>2, <1>4, <1>7, <2>2, <2>3 DEF ServerTells
    <2> QED
      BY <1>2, <1>5, <2>1, <2>4 DEF ServerMoves
  <1> QED
    BY <1>1, <1>6, <1>7

\* The server that reads the client's Finished.
LEMMA ServerFinishedMoves ==
    ASSUME IInv, "server" \notin Free, ServerFinished
    PROVE  ServerMoves
  <1> DEFINE h == hs["server"]
             g == hs'["server"]
             m == Msg("server")
  <1>1. /\ Reads("server", {"finished"}, "finished")
        /\ \/ Moved("server", {}) /\ Failed("server")
           \/ /\ Goes("server", g, "ended") /\ cache' = cache
              /\ Proves(m.verify, VerifyData("client", h))
              /\ \/ Moved("server", {}) /\ Noted(h, g, m, {}) /\ h.didResume
                 \/ ~h.didResume /\ \E pre : Issues(h, pre) /\ Completes("server", h, g, m, pre)
    BY ServerFinishedEffect DEF IInv
  <1>2. /\ Frame /\ "server" \in Sides /\ pc["server"] = "finished" /\ m.t = "finished"
        /\ IsSeq(h.tr) /\ Arrived("server", m)
    BY <1>1, ReadingFacts DEF IInv, Sides, Arrived
  <1>3. CASE Moved("server", {}) /\ Failed("server")
    BY <1>2, <1>3, SaysNothing, ServerFailsTells DEF ServerMoves
  <1>4. CASE /\ Goes("server", g, "ended") /\ cache' = cache
             /\ Proves(m.verify, VerifyData("client", h))
             /\ \/ Moved("server", {}) /\ Noted(h, g, m, {}) /\ h.didResume
                \/ ~h.didResume /\ \E pre : Issues(h, pre) /\ Completes("server", h, g, m, pre)
    <2>1. At("server") = "finished" /\ At("server")' = "done"
      BY <1>2, <1>4, AtFacts
    <2>2. Peer("server") = "client"
      BY DEF Peer
    <2>3. ASSUME Onward(h, g), ~h.didResume \/ g.tr = Append(h.tr, m)
          PROVE  GoesOn("server")
      BY <1>2, <1>4, <2>1, <2>2, <2>3 DEF GoesOn, Late
    <2>4. ASSUME g.ems = h.ems, g.serverHello = h.serverHello, NEW M,
                 \A y \in M : y.t = "newSessionTicket" => y.ticket.state.ems = h.ems
          PROVE  ServerTells(M)
      BY <1>4, <2>1, <2>4 DEF ServerTells, Chosen
    <2>5. CASE Moved("server", {}) /\ Noted(h, g, m, {}) /\ h.didResume
      <3>1. Onward(h, g)
        BY <1>2, <2>5, NotedOnward
      <3>2. g.tr = Append(h.tr, m) /\ g.ems = h.ems /\ g.serverHello = h.serverHello
        BY <2>5, BlankFields DEF Noted, Like
      <3> QED
        BY <1>2, <2>3, <2>4, <2>5, <3>1, <3>2, SaysNothing DEF ServerMoves
    <2>6. CASE ~h.didResume /\ \E pre : Issues(h, pre) /\ Completes("server", h, g, m, pre)
      <3>1. PICK pre : Issues(h, pre) /\ Completes("server", h, g, m, pre)
        BY <2>6
      <3>2. /\ IsSeq(pre)
            /\ \A y \in Elems(pre) : y.t = "newSessionTicket" /\ y.ticket.state.ems = h.ems
        <4>1. CASE ~h.serverHello.tickets
          BY <3>1, <4>1, TupleFacts DEF Issues
        <4>2. CASE h.serverHello.tickets
          <5>1. PICK tk : /\ pre = <<tk>> /\ tk.t = "newSessionTicket"
                          /\ tk.ticket.state = SessionState(h, day, day)
            BY <3>1, <4>2 DEF Issues
          <5>2. tk.ticket.state.ems = h.ems
            BY <5>1 DEF SessionState
          <5> QED
            BY <5>1, <5>2, TupleFacts
        <4> QED
          BY <4>1, <4>2
      <3>3. /\ \E M : Says("server", M) /\ \A y \in M : y \in Elems(pre) \/ y.t = "finished"
            /\ Onward(h, g)
        BY <1>2, <1>4, <3>1, <3>2, CompletesSays
      <3>4. g.ems = h.ems /\ g.serverHello = h.serverHello
        BY <3>1, BlankFields DEF Completes, Like
      <3>5. PICK M : Says("server", M) /\ \A y \in M : y \in Elems(pre) \/ y.t = "finished"
        BY <3>3
      <3>6. ServerTells(M)
        BY <2>4, <3>2, <3>4, <3>5
      <3> QED
        BY <1>2, <2>3, <2>6, <3>3, <3>5, <3>6 DEF ServerMoves
    <2> QED
      BY <1>4, <2>5, <2>6
  <1> QED
    BY <1>1, <1>3, <1>4

\* Every step of a server is one of these.
LEMMA ServerStepMoves ==
    ASSUME IInv, "server" \notin Free, Step("server")
    PROVE  ServerMoves
  <1> DEFINE h == hs["server"]
             g == hs'["server"]
             m == Msg("server")
  <1>1. Frame /\ "server" \in Sides
    BY DEF IInv, Sides
  <1>2. ASSUME pc["server"] # "ended", Moved("server", {}), Failed("server")
        PROVE  ServerMoves
    BY <1>2, SaysNothing, ServerFailsTells DEF ServerMoves
  <1>3. CASE RecordStep("server")
    <2>1. /\ pc["server"] # "ended" /\ (Failed("server") \/ GoesOn("server"))
          /\ Says("server", {})
          /\ Failed("server") \/ cache' = cache
          /\ \/ Failed("server")
             \/ pc["server"] = "ccs" /\ At("server")' = "finished"
             \/ At("server")' = At("server")
          /\ Failed("server") \/ (g.ems = h.ems /\ g.serverHello = h.serverHello)
      BY <1>1, <1>3, RecordGoesOn
    <2>2. ServerTells({})
      <3>1. CASE Failed("server")
        BY <3>1, ServerFailsTells
      <3>2. CASE ~Failed("server")
        <4>1. At("server") = pc["server"]
          BY <1>1, <2>1, AtFacts
        <4> QED
          BY <2>1, <3>2, <4>1 DEF ServerTells, Chosen
      <3> QED
        BY <3>1, <3>2
    <2> QED
      BY <2>1, <2>2 DEF ServerMoves
  <1>4. CASE ServerRefusesHello
    <2>1. pc["server"] # "ended"
      BY <1>4 DEF ServerRefusesHello, Reads
    <2> QED
      BY <1>1, <1>2, <1>4, <2>1, HelloRefusal DEF ServerRefusesHello
  <1>5. ASSUME NEW F, NEW w, NEW W, NEW x,
               /\ Reads("server", W, x) /\ Moved("server", {})
               /\ \/ Failed("server")
                  \/ Goes("server", g, w) /\ cache' = cache /\ Noted(h, g, m, F),
               w # "ended", W \subseteq {"cert", "ckx", "certVerify"},
               "ems" \notin F, "serverHello" \notin F
        PROVE  ServerMoves
    <2>1. pc["server"] # "ended"
      BY <1>5 DEF Reads
    <2> QED
      BY <1>1, <1>2, <1>5, <2>1, ServerReadsMoves
  <1>6. CASE ServerCertificate
    <2>1. /\ Reads("server", {"cert"}, "certificate") /\ Moved("server", {})
          /\ \/ Failed("server")
             \/ Goes("server", g, "ckx") /\ cache' = cache /\ Noted(h, g, m, {"peer", "verified"})
      BY <1>1, <1>6, CertificateEffect
    <2> HIDE DEF h, g, m
    <2> QED
      BY <1>5, <2>1
  <1>7. CASE ServerKeyExchange
    <2> DEFINE w == IF h.peer # NoCert THEN "certVerify" ELSE "ccs"
    <2>1. /\ Reads("server", {"ckx"}, "clientKeyExchange") /\ Moved("server", {})
          /\ \/ Failed("server")
             \/ /\ Goes("server", g, w) /\ cache' = cache
                /\ Noted(h, g, m, {"secret", "inNext", "outNext"})
      BY <1>1, <1>7, KeyExchangeEffect
    <2>2. w # "ended"
      OBVIOUS
    <2> HIDE DEF h, g, m, w
    <2> QED
      BY <1>5, <2>1, <2>2
  <1>8. CASE ServerCertVerify
    <2>1. /\ Reads("server", {"certVerify"}, "certificateVerify") /\ Moved("server", {})
          /\ \/ Failed("server")
             \/ Goes("server", g, "ccs") /\ cache' = cache /\ Noted(h, g, m, {"inNext", "outNext"})
      BY <1>1, <1>8, CertVerifyEffect
    <2> HIDE DEF h, g, m
    <2> QED
      BY <1>5, <2>1
  <1> QED
    BY <1>3, <1>4, <1>6, <1>7, <1>8, ResumesMoves, FullMoves, ServerFinishedMoves
    DEF Step, ServerStep

--------------------------------------------------------------------------------
(* Both sides have the same *)

\* What a step does to the Finished messages on their way.
LEMMA PledgesStep ==
    ASSUME Frame, Free = {}, NEW s \in Sides, pc[s] # "ended", Pledges, NEW M, Says(s, M),
           Failed(s) \/ GoesOn(s)
    PROVE  Pledges'
  <1> DEFINE p == Peer(s)
  <1>1. p \in Sides /\ Peer(p) = s /\ Sides = {s, p}
    BY DEF Peer, Sides
  <1>2. /\ Frame' /\ Others(s) /\ Elems(wire'[s]) \subseteq Elems(wire[s])
        /\ \A r \in Elems(wire'[p]) : r \in Elems(wire[p]) \/ r.typ # "handshake" \/ r.m \in M
    BY DEF Says, Moved
  <1>3. /\ Free' = Free /\ hs'[p] = hs[p] /\ At(p)' = At(p) /\ Done(p)' = Done(p)
        /\ Alive(p)' = Alive(p)
    BY <1>2, OthersStay
  <1>4. At(s) = pc[s] /\ ~Done(s) /\ Alive(s)
    BY AtFacts DEF Alive
  <1>5. Failed(s) => ~Alive(s)'
    BY DEF Failed, Alive, Done
  <1> SUFFICES ASSUME NEW x \in Sides, NEW r \in Elems(wire'[x]), r.typ = "handshake",
                      r.m.t = "finished", Alive(Peer(x))'
               PROVE  Pledged(Peer(x), r.m)'
    BY DEF Pledges
  <1> HIDE DEF p
  <1>6. CASE x = s
    <2>1. Peer(x) = p /\ r \in Elems(wire[s]) /\ Alive(p)
      BY <1>2, <1>3, <1>6 DEF p
    <2>2. Pledged(p, r.m)
      BY <1>6, <2>1 DEF Pledges, p
    <2> QED
      BY <1>3, <2>1, <2>2 DEF Pledged
  <1>7. CASE x = p
    <2>1. Peer(x) = s /\ ~Failed(s) /\ GoesOn(s)
      BY <1>1, <1>5, <1>7
    <2>2. CASE r.m \in M
      BY <2>1, <2>2 DEF Says
    <2>3. CASE r \in Elems(wire[p])
      <3> DEFINE h == hs[s]
                 g == hs'[s]
                 m == r.m
                 y == m.verify[4]
      <3>1. Pledged(s, m)
        BY <1>1, <1>4, <2>3 DEF Pledges
      <3>2. /\ IsSeq(y) /\ m.verify = <<"finished", s, h.secret, y>>
            /\ Begins(Append(y, m), h.tr) /\ At(s) \in Late(s)
            /\ ~(s = "client" <=> h.didResume)
        BY <1>4, <3>1 DEF Pledged
      <3>3. Onward(h, g) /\ At(s)' \in Late(s)
        BY <2>1, <3>2 DEF GoesOn
      <3>4. IsSeq(h.tr) /\ IsSeq(g.tr) /\ IsSeq(Append(y, m))
        BY <1>2, <3>2, SeqFacts DEF Frame
      <3>5. g.secret = h.secret /\ g.didResume = h.didResume /\ Begins(h.tr, g.tr)
        BY <3>3 DEF Onward
      <3>6. Begins(Append(y, m), g.tr)
        BY <3>2, <3>4, <3>5, BeginsFacts
      <3>7. Pledged(s, m)'
        BY <3>2, <3>3, <3>5, <3>6, PledgedNext
      <3> QED
        BY <2>1, <3>7
    <2> QED
      BY <1>2, <1>7, <2>2, <2>3
  <1> QED
    BY <1>1, <1>6, <1>7

\* What a step of the client does to the extended master secret.
LEMMA ExtendedClient ==
    ASSUME Free = {}, Extended, NEW M, Moved("client", M), ClientTells(M)
    PROVE  Extended'
  <1> DEFINE h == hs["client"]
             g == hs'["client"]
  <1>1. /\ Others("client") /\ Elems(wire'["client"]) \subseteq Elems(wire["client"])
        /\ \A r \in Elems(wire'["server"]) :
              r \in Elems(wire["server"]) \/ r.typ # "handshake" \/ r.m \in M
    BY DEF Moved, Peer
  <1>2. /\ Free' = Free /\ hs'["server"] = hs["server"] /\ At("server")' = At("server")
    BY <1>1, OthersStay DEF Sides, Peer
  <1>3. Marked(NoTicket) /\ Marked(cache.ticket) /\ Marked(h.ticket)
    BY DEF Extended, Marked
  <1>4. \A r \in Elems(wire'["server"]) :
           r.typ = "handshake" /\ r.m.t = "clientHello" => r.m.ems = TRUE /\ Marked(r.m.ticket)
    BY <1>1, <1>3 DEF Extended, ClientTells
  <1>5. \A r \in Elems(wire'["client"]) :
           r.typ = "handshake" /\ r.m.t = "newSessionTicket" => Marked(r.m.ticket)
    BY <1>1 DEF Extended
  <1>6. Marked(cache'.ticket)
    BY <1>3 DEF ClientTells
  <1>7. Marked(g.ticket)
    BY <1>3 DEF ClientTells, Extended, Arrived
  <1>8. At("server")' \in Chosen => hs'["server"].ems = TRUE /\ hs'["server"].serverHello.ems = TRUE
    BY <1>2 DEF Extended
  <1> QED
    BY <1>4, <1>5, <1>6, <1>7, <1>8 DEF Extended

\* What a step of the server does to it.
LEMMA ExtendedServer ==
    ASSUME Free = {}, Extended, NEW M, Moved("server", M), ServerTells(M)
    PROVE  Extended'
  <1> DEFINE h == hs["server"]
             g == hs'["server"]
  <1>1. /\ Others("server") /\ Elems(wire'["server"]) \subseteq Elems(wire["server"])
        /\ \A r \in Elems(wire'["client"]) :
              r \in Elems(wire["client"]) \/ r.typ # "handshake" \/ r.m \in M
    BY DEF Moved, Peer
  <1>2. Free' = Free /\ hs'["client"] = hs["client"]
    BY <1>1, OthersStay DEF Sides, Peer
  <1>3. At("server")' \in Chosen => g.ems = TRUE /\ g.serverHello.ems = TRUE
    BY DEF ServerTells, Extended, Arrived, Marked
  <1>4. \A r \in Elems(wire'["server"]) :
           r.typ = "handshake" /\ r.m.t = "clientHello" => r.m.ems = TRUE /\ Marked(r.m.ticket)
    BY <1>1 DEF Extended
  <1>5. \A r \in Elems(wire'["client"]) :
           r.typ = "handshake" /\ r.m.t = "newSessionTicket" => Marked(r.m.ticket)
    BY <1>1, <1>3 DEF Extended, ServerTells, Marked
  <1>6. Marked(cache'.ticket) /\ Marked(hs'["client"].ticket)
    BY <1>2 DEF ServerTells, Extended
  <1> QED
    BY <1>3, <1>4, <1>5, <1>6 DEF Extended

\* A Finished that verifies covers what its sender has seen.
LEMMA FinishedMatch ==
    ASSUME NEW p, NEW m, Pledged(p, m), NEW h, Proves(m.verify, VerifyData(p, h))
    PROVE  /\ h.secret = hs[p].secret /\ Begins(Append(h.tr, m), hs[p].tr)
           /\ (p = "client" <=> hs[p].didResume) => hs[p].tr = Append(h.tr, m) /\ Done(p)
           /\ At(p) \in Late(p)
  <1> DEFINE x == m.verify[4]
  <1>1. /\ m.verify = <<"finished", p, hs[p].secret, x>>
        /\ Begins(Append(x, m), hs[p].tr) /\ At(p) \in Late(p)
        /\ (p = "client" <=> hs[p].didResume) => hs[p].tr = Append(x, m) /\ Done(p)
    BY DEF Pledged
  <1> HIDE DEF x
  <1>2. Len(<<"finished", p, hs[p].secret, x>>) = 4 /\ Len(<<"match">>) = 1
    OBVIOUS
  <1>3. m.verify # <<"match">>
    BY <1>1, <1>2
  <1>4. <<"finished", p, hs[p].secret, x>> = <<"finished", p, h.secret, h.tr>>
    BY <1>1, <1>3 DEF Proves, VerifyData
  <1>5. x = h.tr /\ hs[p].secret = h.secret
    BY <1>4
  <1> QED
    BY <1>1, <1>5

\* The third message tells a full handshake from a resumption: at the server,
LEMMA ServerThird ==
    ASSUME NEW h, NEW w \in Late("server"), NEW a, ServerAt(h, w, a)
    PROVE  /\ h.didResume \in BOOLEAN /\ Len(h.tr) >= 3
           /\ h.didResume => h.tr[3].t = "newSessionTicket"
           /\ ~h.didResume => h.tr[3].t = "certificate"
  <1>1. Settled(h) /\ ServerCloses(h, w, a)
    BY DEF ServerAt, Late
  <1>2. h.didResume \in BOOLEAN
    BY <1>1 DEF Settled
  <1>3. CASE h.didResume
    BY <1>1, <1>2, <1>3 DEF ServerCloses
  <1>4. CASE ~h.didResume
    BY <1>1, <1>2, <1>4 DEF ServerCloses, Third
  <1> QED
    BY <1>2, <1>3, <1>4

\* and at the client.
LEMMA ClientThird ==
    ASSUME NEW h, NEW w \in Late("client"), ClientAt(h, w), IsSeq(h.tr)
    PROVE  /\ h.didResume \in BOOLEAN
           /\ ~h.didResume => Len(h.tr) >= 3 /\ h.tr[3].t = "certificate"
           /\ h.didResume /\ w = "finished" =>
                 \A m : m.t = "finished" =>
                    Len(Append(h.tr, m)) >= 3 /\ Append(h.tr, m)[3].t # "certificate"
  <1>1. Settled(h) /\ ClientCloses(h, w)
    BY DEF ClientAt, Late, Closing
  <1>2. h.didResume \in BOOLEAN
    BY <1>1 DEF Settled
  <1>3. ~h.didResume => Len(h.tr) >= 3 /\ h.tr[3].t = "certificate"
    BY <1>1 DEF ClientCloses, Third
  <1>4. ASSUME h.didResume, w = "finished", NEW m, m.t = "finished"
        PROVE  Len(Append(h.tr, m)) >= 3 /\ Append(h.tr, m)[3].t # "certificate"
    <2>1. \E u : Types(h.tr) = Renewed(u)
      BY <1>1, <1>4 DEF ClientCloses
    <2>2. Types(h.tr) \in {Renewed(TRUE), Renewed(FALSE)}
      BY <2>1 DEF Renewed, Opt
    <2>3. Types(h.tr) = Hellos \/ Types(h.tr) = Hellos \o <<"newSessionTicket">>
      BY <2>2, ShapeCloses
    <2>4. /\ Len(Types(h.tr)) = Len(h.tr) /\ Len(h.tr) \in Nat
          /\ \A i \in 1 .. Len(h.tr) : Types(h.tr)[i] = h.tr[i].t
      BY TypesFacts
    <2>5. /\ Len(Append(h.tr, m)) = Len(h.tr) + 1 /\ Append(h.tr, m)[Len(h.tr) + 1] = m
          /\ \A i \in 1 .. Len(h.tr) : Append(h.tr, m)[i] = h.tr[i]
      BY AppendAt
    <2>6. CASE Types(h.tr) = Hellos
      <3>1. Len(h.tr) = 2
        BY <2>4, <2>6 DEF Hellos
      <3> QED
        BY <1>4, <2>5, <3>1
    <2>7. CASE Types(h.tr) = Hellos \o <<"newSessionTicket">>
      <3>1. Types(h.tr) = <<"clientHello", "serverHello", "newSessionTicket">>
        BY <2>7, Triple DEF Hellos
      <3>2. Len(h.tr) = 3 /\ h.tr[3].t = "newSessionTicket"
        <4>1. Len(<<"clientHello", "serverHello", "newSessionTicket">>) = 3
          OBVIOUS
        <4>2. <<"clientHello", "serverHello", "newSessionTicket">>[3] = "newSessionTicket"
          OBVIOUS
        <4>3. Len(h.tr) = 3
          BY <2>4, <3>1, <4>1
        <4> QED
          BY <2>4, <3>1, <4>2, <4>3
      <3> QED
        BY <2>5, <3>2
    <2> QED
      BY <2>3, <2>6, <2>7
  <1> QED
    BY <1>2, <1>3, <1>4

\* A client that is done has what the server has.
LEMMA JoinedClient ==
    ASSUME IInv, Placed, Pledges, Joined, Free = {}, ClientMoves
    PROVE  Joined'
  <1> DEFINE c == hs["client"]
             g == hs'["client"]
             s == hs["server"]
  <1>1. /\ Frame /\ "client" \in Sides /\ pc["client"] # "ended" /\ Others("client")
        /\ Failed("client") \/ GoesOn("client")
    BY DEF IInv, Sides, ClientMoves, Says, Moved
  <1>2. /\ Free' = Free /\ hs'["server"] = s /\ At("server")' = At("server")
        /\ Done("server")' = Done("server") /\ Alive("server")' = Alive("server")
    BY <1>1, OthersStay DEF Peer
  <1>3. ~Done("client") /\ Alive("client")
    BY <1>1, AtFacts DEF Alive
  <1>4. ~(Done("server") /\ s.didResume)
    BY <1>3 DEF Joined
  <1>5. ASSUME Done("client")', Alive("server")
        PROVE  /\ s.didResume = g.didResume /\ At("server") \in {"ccs", "finished", "done"}
               /\ ~g.didResume => Done("server") /\ g.tr = s.tr /\ g.secret = s.secret
    <2>1. GoesOn("client")
      BY <1>1, <1>5 DEF Failed, Done
    <2>2. /\ At("client") = "finished" /\ Onward(c, g)
          /\ \E m : /\ Arrived("client", m) /\ m.t = "finished"
                    /\ Proves(m.verify, VerifyData("server", c))
                    /\ c.didResume \/ g.tr = Append(c.tr, m)
      BY <1>5, <2>1 DEF GoesOn, Late, Peer
    <2>3. PICK m : /\ Arrived("client", m) /\ m.t = "finished"
                   /\ Proves(m.verify, VerifyData("server", c))
                   /\ c.didResume \/ g.tr = Append(c.tr, m)
      BY <2>2
    <2>4. Pledged("server", m)
      <3>1. Peer("client") = "server"
        BY DEF Peer
      <3> QED
        BY <1>1, <1>5, <2>3, <3>1 DEF Pledges, Arrived
    <2>5. PICK k : k = c
      OBVIOUS
    <2>6. /\ c.secret = s.secret /\ Begins(Append(c.tr, m), s.tr)
          /\ ~s.didResume => s.tr = Append(c.tr, m) /\ Done("server")
          /\ At("server") \in Late("server")
      BY <2>3, <2>4, <2>5, FinishedMatch
    <2>7. At("server") \in {"ccs", "finished", "done"}
      BY <2>6 DEF Late
    <2>8. /\ s.didResume \in BOOLEAN /\ Len(s.tr) >= 3
          /\ s.didResume => s.tr[3].t = "newSessionTicket"
          /\ ~s.didResume => s.tr[3].t = "certificate"
      <3>1. ServerAt(s, At("server"), cfg["server"].auth # 0)
        BY DEF Placed
      <3> QED
        BY <2>6, <3>1, ServerThird
    <2>9. /\ c.didResume \in BOOLEAN
          /\ ~c.didResume => Len(c.tr) >= 3 /\ c.tr[3].t = "certificate"
          /\ c.didResume =>
                Len(Append(c.tr, m)) >= 3 /\ Append(c.tr, m)[3].t # "certificate"
      <3>1. ClientAt(c, At("client")) /\ IsSeq(c.tr) /\ "finished" \in Late("client")
        BY DEF Placed, IInv, Frame, Sides, Late
      <3> QED
        BY <2>2, <2>3, <3>1, ClientThird
    <2>10. /\ Len(c.tr) \in Nat /\ Len(Append(c.tr, m)) = Len(c.tr) + 1
           /\ \A i \in 1 .. Len(c.tr) : Append(c.tr, m)[i] = c.tr[i]
      <3>1. IsSeq(c.tr)
        BY DEF IInv, Frame, Sides
      <3> QED
        BY <3>1, AppendAt
    <2>11. \A i \in 1 .. Len(Append(c.tr, m)) : s.tr[i] = Append(c.tr, m)[i]
      BY <2>6 DEF Begins
    <2> HIDE DEF c, g, s
    <2>12. s.didResume = c.didResume
      <3>1. CASE c.didResume
        <4>1. s.tr[3] = Append(c.tr, m)[3]
          BY <2>9, <2>10, <2>11, <3>1
        <4>2. s.didResume
          BY <2>8, <2>9, <3>1, <4>1
        <4> QED
          BY <2>8, <2>9, <3>1, <4>2
      <3>2. CASE ~c.didResume
        <4>1. s.tr[3] = Append(c.tr, m)[3] /\ Append(c.tr, m)[3] = c.tr[3]
          BY <2>9, <2>10, <2>11, <3>2
        <4>2. s.tr[3].t = "certificate"
          BY <2>9, <3>2, <4>1
        <4>3. ~s.didResume
          BY <2>8, <4>2
        <4> QED
          BY <2>8, <2>9, <3>2, <4>3
      <3> QED
        BY <3>1, <3>2
    <2>13. g.didResume = c.didResume /\ g.secret = c.secret
      BY <2>2 DEF Onward
    <2>14. ~g.didResume => Done("server") /\ g.tr = s.tr
      BY <2>3, <2>6, <2>12, <2>13
    <2> QED
      BY <2>6, <2>7, <2>12, <2>13, <2>14
  <1> HIDE DEF c
  <1> QED
    BY <1>2, <1>4, <1>5 DEF Joined

\* A server that is done has what the client has.
LEMMA JoinedServer ==
    ASSUME IInv, Placed, Pledges, Joined, Free = {}, ServerMoves
    PROVE  Joined'
  <1> DEFINE c == hs["client"]
             g == hs'["server"]
             s == hs["server"]
  <1>1. /\ Frame /\ "server" \in Sides /\ pc["server"] # "ended" /\ Others("server")
        /\ Failed("server") \/ GoesOn("server")
    BY DEF IInv, Sides, ServerMoves, Says, Moved
  <1>2. /\ Free' = Free /\ hs'["client"] = c /\ At("client")' = At("client")
        /\ Done("client")' = Done("client") /\ Alive("client")' = Alive("client")
    BY <1>1, OthersStay DEF Peer
  <1>3. ~Done("server") /\ Alive("server")
    BY <1>1, AtFacts DEF Alive
  <1>4. ASSUME Done("client"), Alive("server")'
        PROVE  /\ g.didResume = c.didResume /\ At("server")' \in {"ccs", "finished", "done"}
               /\ c.didResume
    <2>1. GoesOn("server")
      BY <1>1, <1>4 DEF Failed, Alive, Done
    <2>2. /\ s.didResume = c.didResume /\ At("server") \in {"ccs", "finished", "done"}
          /\ c.didResume
      BY <1>3, <1>4 DEF Joined
    <2>3. Onward(s, g) /\ At("server")' \in Late("server")
      BY <2>1, <2>2 DEF GoesOn, Late
    <2> QED
      BY <2>2, <2>3 DEF Onward, Late
  <1>5. ASSUME Done("server")', g.didResume, Alive("client")
        PROVE  Done("client") /\ c.tr = g.tr /\ c.secret = g.secret
    <2>1. GoesOn("server")
      BY <1>1, <1>5 DEF Failed, Done
    <2>2. /\ At("server") = "finished" /\ Onward(s, g)
          /\ \E m : /\ Arrived("server", m) /\ m.t = "finished"
                    /\ Proves(m.verify, VerifyData("client", s))
                    /\ ~s.didResume \/ g.tr = Append(s.tr, m)
      BY <1>5, <2>1 DEF GoesOn, Late, Peer
    <2>3. PICK m : /\ Arrived("server", m) /\ m.t = "finished"
                   /\ Proves(m.verify, VerifyData("client", s))
                   /\ ~s.didResume \/ g.tr = Append(s.tr, m)
      BY <2>2
    <2>4. Pledged("client", m)
      <3>1. Peer("server") = "client"
        BY DEF Peer
      <3> QED
        BY <1>1, <1>5, <2>3, <3>1 DEF Pledges, Arrived
    <2>5. PICK k : k = s
      OBVIOUS
    <2>6. /\ s.secret = c.secret /\ Begins(Append(s.tr, m), c.tr)
          /\ c.didResume => c.tr = Append(s.tr, m) /\ Done("client")
          /\ At("client") \in Late("client")
      BY <2>3, <2>4, <2>5, FinishedMatch
    <2>7. g.didResume = s.didResume /\ g.secret = s.secret
      BY <2>2 DEF Onward
    <2>8. Len(s.tr) >= 3 /\ s.tr[3].t = "newSessionTicket" /\ s.didResume
      <3>1. ServerAt(s, At("server"), cfg["server"].auth # 0) /\ "finished" \in Late("server")
        BY DEF Placed, Late
      <3> QED
        BY <1>5, <2>2, <2>7, <3>1, ServerThird
    <2>9. ~c.didResume => c.tr[3].t = "certificate"
      <3>1. ClientAt(c, At("client")) /\ IsSeq(c.tr)
        BY DEF Placed, IInv, Frame, Sides
      <3> QED
        BY <2>6, <3>1, ClientThird
    <2>10. /\ Len(s.tr) \in Nat /\ Len(Append(s.tr, m)) = Len(s.tr) + 1
           /\ \A i \in 1 .. Len(s.tr) : Append(s.tr, m)[i] = s.tr[i]
      <3>1. IsSeq(s.tr)
        BY DEF IInv, Frame, Sides
      <3> QED
        BY <3>1, AppendAt
    <2>11. \A i \in 1 .. Len(Append(s.tr, m)) : c.tr[i] = Append(s.tr, m)[i]
      BY <2>6 DEF Begins
    <2> HIDE DEF c, g, s
    <2>12. c.tr[3] = s.tr[3]
      BY <2>8, <2>10, <2>11
    <2>13. c.didResume
      BY <2>8, <2>9, <2>12
    <2> QED
      BY <2>3, <2>6, <2>7, <2>8, <2>13
  <1> HIDE DEF s
  <1> QED
    BY <1>2, <1>4, <1>5 DEF Joined

\* A fresh connection: nothing is on its way, and no side is done.
LEMMA FreshConcord ==
    ASSUME Fresh, Free = {} => Marked(cache.ticket)
    PROVE  Concord
  <1>1. /\ hs["client"] = Blank /\ wire["client"] = <<>> /\ wire["server"] = <<>>
        /\ end["client"] = "none" /\ end["server"] = "none"
    BY DEF Fresh, Sides
  <1>2. Elems(<<>>) = {}
    BY TupleFacts
  <1>3. ~Done("client") /\ ~Done("server") /\ At("server") \notin Chosen
    BY <1>1 DEF Done, At, Chosen, Fresh
  <1>4. Marked(Blank.ticket)
    BY DEF Marked, Blank
  <1>5. Extended
    BY <1>1, <1>2, <1>3, <1>4 DEF Extended
  <1>6. Pledges
    BY <1>1, <1>2 DEF Pledges, Sides
  <1>7. Joined
    BY <1>3 DEF Joined
  <1> QED
    BY <1>5, <1>6, <1>7, FreshPlaced DEF Concord

\* Every step preserves what the two sides have in common.
LEMMA NextConcord == ASSUME IInv, Concord, [Next]_vars PROVE Concord'
  <1>1. Placed /\ Extended /\ Pledges /\ Joined /\ Frame
    BY DEF Concord, IInv
  <1>2. Placed'
    BY <1>1, NextPlaced
  <1>3. "client" \in Sides /\ "server" \in Sides
    BY DEF Sides
  <1>4. ASSUME Free' # {} PROVE Concord'
    BY <1>2, <1>4 DEF Concord, Extended, Pledges, Joined
  <1>5. ASSUME Step("client"), Free = {} PROVE Concord'
    <2>1. ClientMoves
      BY <1>1, <1>5, ClientStepMoves
    <2>2. PICK M : Says("client", M) /\ ClientTells(M)
      BY <2>1 DEF ClientMoves
    <2>3. pc["client"] # "ended" /\ (Failed("client") \/ GoesOn("client"))
      BY <2>1 DEF ClientMoves
    <2>4. Pledges'
      BY <1>1, <1>3, <1>5, <2>2, <2>3, PledgesStep
    <2>5. Extended'
      BY <1>1, <1>5, <2>2, ExtendedClient DEF Says
    <2>6. Joined'
      BY <1>1, <1>5, <2>1, JoinedClient
    <2> QED
      BY <1>2, <2>4, <2>5, <2>6 DEF Concord
  <1>6. ASSUME Step("server"), Free = {} PROVE Concord'
    <2>1. ServerMoves
      BY <1>1, <1>6, ServerStepMoves
    <2>2. PICK M : Says("server", M) /\ ServerTells(M)
      BY <2>1 DEF ServerMoves
    <2>3. pc["server"] # "ended" /\ (Failed("server") \/ GoesOn("server"))
      BY <2>1 DEF ServerMoves
    <2>4. Pledges'
      BY <1>1, <1>3, <1>6, <2>2, <2>3, PledgesStep
    <2>5. Extended'
      BY <1>1, <1>6, <2>2, ExtendedServer DEF Says
    <2>6. Joined'
      BY <1>1, <1>6, <2>1, JoinedServer
    <2> QED
      BY <1>2, <2>4, <2>5, <2>6 DEF Concord
  <1>7. ASSUME NEW s \in Sides, s \notin Free, Step(s) PROVE Concord'
    <2>1. Free' = Free
      <3>1. Others(s)
        BY <1>1, <1>7, ClientPlaced, ServerPlaced DEF Sides
      <3> QED
        BY <3>1 DEF Others, Free
    <2> QED
      BY <1>4, <1>5, <1>6, <1>7, <2>1 DEF Sides
  <1>8. CASE Connect
    <2>1. Fresh' /\ Free' = Free /\ cache' = cache
      BY <1>8, ConnectFresh
    <2>2. (Free = {} => Marked(cache.ticket))'
      BY <1>1, <2>1 DEF Extended, Marked
    <2>3. (Fresh /\ (Free = {} => Marked(cache.ticket))) => Concord
      BY FreshConcord
    <2> QED
      BY <2>1, <2>2, <2>3, FreshConcord, PTL
  <1>9. ASSUME UNCHANGED <<cfg, pc, hs, end, cache>>,
               \A s \in Sides : Elems(wire'[s]) \subseteq Elems(wire[s])
        PROVE  Concord'
    <2>1. \A s : At(s)' = At(s) /\ Done(s)' = Done(s) /\ Alive(s)' = Alive(s)
      BY <1>9 DEF At, Done, Alive
    <2>2. Free' = Free
      BY <1>9 DEF Free
    <2>3. Extended'
      BY <1>1, <1>3, <1>9, <2>1, <2>2 DEF Extended, Marked
    <2>4. Pledges'
      <3>1. \A s, m : Pledged(s, m)' = Pledged(s, m)
        BY <1>9, <2>1 DEF Pledged
      <3> QED
        BY <1>1, <1>9, <2>1, <2>2, <3>1 DEF Pledges
    <2>5. Joined'
      BY <1>1, <1>9, <2>1, <2>2 DEF Joined
    <2> QED
      BY <1>2, <2>3, <2>4, <2>5 DEF Concord
  <1>10. CASE Cut
    <2>1. \A s \in Sides : Elems(wire'[s]) \subseteq Elems(wire[s])
      <3>1. \A s \in Sides : wire'[s] = <<>>
        BY <1>10 DEF Cut
      <3> QED
        BY <3>1, TupleFacts
    <2> QED
      BY <1>9, <1>10, <2>1 DEF Cut
  <1>11. CASE NextDay \/ UNCHANGED vars
    BY <1>9, <1>11 DEF NextDay, vars
  <1>12. ASSUME Free # {}, UNCHANGED cfg PROVE Concord'
    BY <1>4, <1>12 DEF Free
  <1>13. CASE FreeKeepsTicket
    BY <1>12, <1>13 DEF FreeKeepsTicket
  <1>14. ASSUME NEW s \in Free, FreeSends(s) \/ FreeCloses(s) PROVE Concord'
    BY <1>12, <1>14 DEF FreeSends, FreeCloses
  <1> QED
    BY <1>7, <1>8, <1>10, <1>11, <1>13, <1>14 DEF Next, Over

\* The invariant and what the two sides have in common hold in every reachable state.
LEMMA Together == Spec => [](IInv /\ Concord)
  <1>1. Init => IInv /\ Concord
    <2>1. Init => Fresh /\ Marked(cache.ticket)
      BY InitFresh, EmptyEntry DEF Init, Marked
    <2> QED
      BY <2>1, FreshInv, FreshConcord
  <1>2. IInv /\ Concord /\ [Next]_vars => IInv' /\ Concord'
    BY NextInv, NextConcord
  <1> QED
    BY <1>1, <1>2, PTL DEF Spec

\* Two sides that both complete agree: on the version, the suite, the protocol, the
\* extended master secret, whether it is a resumption, the secret, the transcript
\* and the certificates, and each one sends with the key the other reads with
\* (establishKeys, readFinished and sendFinished of both handshake states).
THEOREM CompletedAgree == Spec => []Agreement
  <1>1. IInv /\ Concord => Agreement
    <2> SUFFICES ASSUME IInv, Concord, Done("client"), Done("server") PROVE Agreement
      BY DEF Agreement
    <2> DEFINE c == hs["client"]
               s == hs["server"]
    <2>1. Free = {}
      <3>1. "client" \notin Free /\ "server" \notin Free
        BY DEF IInv, Frame, Done, Sides
      <3>2. Free \subseteq Sides
        BY SetupFacts DEF IInv, Frame, Free, SetupType
      <3> QED
        BY <3>1, <3>2 DEF Sides
    <2>2. At("client") = "done" /\ At("server") = "done" /\ Alive("client") /\ Alive("server")
      BY DEF At, Alive
    <2>3. /\ Settled(c) /\ c.ems = c.serverHello.ems /\ ClientCloses(c, "done")
          /\ Settled(s) /\ ServerCloses(s, "done", cfg["server"].auth # 0)
      BY <2>1, <2>2 DEF Concord, Placed, ClientAt, ServerAt
    <2>4. s.ems = TRUE /\ s.serverHello.ems = TRUE
      BY <2>1, <2>2 DEF Concord, Extended, Chosen
    <2>5. s.didResume = c.didResume /\ c.tr = s.tr /\ c.secret = s.secret
      BY <2>1, <2>2 DEF Concord, Joined
    <2>6. c.hello = s.hello /\ c.serverHello = s.serverHello
      BY <2>3, <2>5 DEF Settled
    <2>7. c.vers = s.vers /\ c.suite = s.suite /\ c.alpn = s.alpn
      BY <2>3, <2>6 DEF Settled
    <2>8. c.ems = s.ems
      BY <2>3, <2>4, <2>6
    <2>9. c.out = s.in /\ s.out = c.in
      <3>1. \A x : TrafficKey(x, c) = TrafficKey(x, s)
        BY <2>5, <2>6 DEF TrafficKey
      <3>2. Protected("client", c, "done") /\ Protected("server", s, "done")
        BY <2>3 DEF ClientCloses, ServerCloses
      <3>3. /\ c.in = TrafficKey("server", c) /\ c.out = TrafficKey("client", c)
            /\ s.in = TrafficKey("client", s) /\ s.out = TrafficKey("server", s)
        BY <3>2 DEF Protected, Peer
      <3> QED
        BY <3>1, <3>3
    <2>10. ~c.didResume => c.peer = s.cert /\ s.peer = c.cert
      <3> SUFFICES ASSUME ~c.didResume PROVE c.peer = s.cert /\ s.peer = c.cert
        OBVIOUS
      <3>1. Third(c, c.peer) /\ Second(c.tr, c.cert)
        BY <2>3 DEF ClientCloses
      <3>2. Third(s, s.cert) /\ Second(s.tr, s.peer)
        BY <2>3, <2>5 DEF ServerCloses
      <3>3. c.peer = s.cert
        BY <2>5, <3>1, <3>2 DEF Third
      <3>4. Second(c.tr, c.cert) /\ Second(c.tr, s.peer)
        BY <2>5, <3>1, <3>2
      <3> HIDE DEF c, s
      <3>5. s.peer = c.cert
        BY <3>4 DEF Second, NoSecond
      <3> QED
        BY <3>3, <3>5
    <2>11. c.didResume => c.peer = c.sess.peer /\ c.sess.secret = s.sess.secret
      BY <2>3, <2>5 DEF ClientCloses, ServerCloses
    <2> QED
      BY <2>5, <2>7, <2>8, <2>9, <2>10, <2>11 DEF Agreement
  <1> QED
    BY Together, <1>1, PTL

================================================================================
