------------------------------ MODULE UdSteps -------------------------------
(***************************************************************************)
(* Steps of one of two connected UD endpoints that keep the invariant of    *)
(* both, by what they do to the endpoint and to the network; and what       *)
(* follows from the invariant.                                              *)
(***************************************************************************)
EXTENDS UdReliable, UdEpBasics

LEMMA PeerFacts ==
    ASSUME NEW e \in Eps
    PROVE  /\ Peer(e) \in Eps /\ Peer(e) # e /\ Peer(Peer(e)) = e
           /\ \A f \in Eps : f = e \/ f = Peer(e)
BY UdReliableAssumption DEF Eps, Peer

\* Completions that step s -> t reports to the user of an endpoint whose
\* peer is r.
NewCompsOk(s, t, r) ==
    s.life = "open" /\ t.life \in {"open", "failed"}
    => \A c \in t.comps \ s.comps : c.status = "OK" => c.psn <= r.head_sn

OkStep == \A e \in Eps : NewCompsOk(ep[e], ep'[e], ep[Peer(e)])

\* A packet stays valid while its sender goes on.
LEMMA PacketInvMonotone ==
    ASSUME NEW p \in PacketType, NEW s \in EpType, NEW t \in EpType,
           PacketInv(p, s), s.psn <= t.psn, s.head_sn <= t.head_sn
    PROVE  PacketInv(p, t)
<1>1. p.psn \in Nat /\ p.ack \in Nat
    BY DEF PacketType
<1> QED BY <1>1, EpFields DEF PacketInv

\* One endpoint takes a step: what has to be shown of it and of what it puts
\* on the wire.
LEMMA LocalStep ==
    ASSUME IndInv, NEW e \in Eps, NEW t \in EpType, TxInv(t), RxInv(t),
           ep' = [ep EXCEPT ![e] = t],
           ep[e].psn <= t.psn, ep[e].head_sn <= t.head_sn,
           LinkInv(t, ep[Peer(e)]), LinkInv(ep[Peer(e)], t),
           NewCompsOk(ep[e], t, ep[Peer(e)]),
           net' \in [Eps -> SUBSET PacketType],
           \A p \in net'[e] : p \in net[e],
           \A p \in net'[Peer(e)] : p \in net[Peer(e)] \/ PacketInv(p, t),
           flushes' \in [Eps -> Nat]
    PROVE  IndInv' /\ OkStep
<1> DEFINE f == Peer(e)
<1>1. /\ f \in Eps /\ f # e /\ Peer(f) = e
      /\ \A x \in Eps : x = e \/ x = f
    BY PeerFacts
<1>2. ep \in [Eps -> EpType] /\ ep[e] \in EpType /\ ep[f] \in EpType
    BY <1>1 DEF IndInv, TypeOK
<1>3. ep' \in [Eps -> EpType] /\ ep'[e] = t /\ ep'[f] = ep[f]
    BY <1>1, <1>2
<1>4. TypeOK'
    BY <1>3 DEF TypeOK
<1>5. TxInv(ep[f]) /\ RxInv(ep[f])
    BY <1>1 DEF IndInv
<1>6. \A p \in net'[e] : PacketInv(p, ep[f])
    BY <1>1 DEF IndInv
<1>7. ASSUME NEW p \in net'[f] PROVE PacketInv(p, t)
  <2>1. p \in PacketType
    BY <1>1
  <2>2. CASE p \in net[f]
    <3>1. PacketInv(p, ep[e])
        BY <2>2, <1>1 DEF IndInv
    <3> QED BY <3>1, <2>1, <1>2, PacketInvMonotone
  <2>3. CASE PacketInv(p, t)
    BY <2>3
  <2> QED BY <2>2, <2>3
<1>8. ASSUME NEW x \in Eps
      PROVE  /\ TxInv(ep'[x]) /\ RxInv(ep'[x])
             /\ LinkInv(ep'[x], ep'[Peer(x)])
             /\ \A p \in net'[x] : PacketInv(p, ep'[Peer(x)])
  <2>1. CASE x = e
    BY <2>1, <1>1, <1>3, <1>6
  <2>2. CASE x = f
    BY <2>2, <1>1, <1>3, <1>5, <1>7
  <2> QED BY <2>1, <2>2, <1>1
<1>9. IndInv'
    BY <1>4, <1>8 DEF IndInv
<1>10. OkStep
  <2> SUFFICES ASSUME NEW x \in Eps
               PROVE  NewCompsOk(ep[x], ep'[x], ep[Peer(x)])
    BY DEF OkStep
  <2>1. CASE x = e
    BY <2>1, <1>3
  <2>2. CASE x = f
    BY <2>2, <1>3 DEF NewCompsOk
  <2> QED BY <2>1, <2>2, <1>1
<1> QED BY <1>9, <1>10

\* The facts about endpoint e and its peer that the actions start from.
LEMMA StartFacts ==
    ASSUME IndInv, NEW e \in Eps
    PROVE  /\ ep[e] \in EpType /\ ep[Peer(e)] \in EpType
           /\ TxInv(ep[e]) /\ RxInv(ep[e])
           /\ TxInv(ep[Peer(e)]) /\ RxInv(ep[Peer(e)])
           /\ LinkInv(ep[e], ep[Peer(e)]) /\ LinkInv(ep[Peer(e)], ep[e])
           /\ net[e] \in SUBSET PacketType
           /\ \A p \in net[e] : PacketInv(p, ep[Peer(e)])
           /\ net \in [Eps -> SUBSET PacketType]
           /\ flushes \in [Eps -> Nat] /\ flushes[e] \in Nat
<1>1. Peer(e) \in Eps /\ Peer(Peer(e)) = e
    BY PeerFacts
<1>2. /\ ep \in [Eps -> EpType] /\ net \in [Eps -> SUBSET PacketType]
      /\ flushes \in [Eps -> Nat]
    BY DEF IndInv, TypeOK
<1>3. /\ TxInv(ep[e]) /\ RxInv(ep[e]) /\ LinkInv(ep[e], ep[Peer(e)])
      /\ \A p \in net[e] : PacketInv(p, ep[Peer(e)])
    BY DEF IndInv
<1>4. /\ TxInv(ep[Peer(e)]) /\ RxInv(ep[Peer(e)])
      /\ LinkInv(ep[Peer(e)], ep[e])
    BY <1>1 DEF IndInv
<1> QED BY <1>1, <1>2, <1>3, <1>4

\* What reaches the wire is what was there and what is sent.
LEMMA TransmitFacts ==
    ASSUME IndInv, NEW e \in Eps, NEW out \in SUBSET PacketType,
           Transmit(e, out)
    PROVE  /\ net' \in [Eps -> SUBSET PacketType]
           /\ \A p \in net'[e] : p \in net[e]
           /\ \A p \in net'[Peer(e)] : p \in net[Peer(e)] \/ p \in out
<1>1. Peer(e) \in Eps /\ Peer(e) # e
    BY PeerFacts
<1>2. net \in [Eps -> SUBSET PacketType]
    BY StartFacts
<1>3. PICK lost :
        net' = [net EXCEPT ![Peer(e)] = (net[Peer(e)] \cup out) \ lost]
    BY Zenon DEF Transmit
<1> QED BY <1>1, <1>2, <1>3

-----------------------------------------------------------------------------
(* Kinds of steps. *)

\* A step of one endpoint that leaves psn, acked_psn, head_sn and life alone.
LEMMA SteadyStep ==
    ASSUME IndInv, NEW e \in Eps, NEW t \in EpType, TxInv(t), RxInv(t),
           ep' = [ep EXCEPT ![e] = t],
           t.psn = ep[e].psn, t.head_sn = ep[e].head_sn,
           t.acked_psn = ep[e].acked_psn, t.life = ep[e].life,
           \A c \in t.comps \ ep[e].comps :
                ep[e].life = "open" => c.psn <= ep[e].acked_psn,
           net' \in [Eps -> SUBSET PacketType],
           \A p \in net'[e] : p \in net[e],
           \A p \in net'[Peer(e)] : p \in net[Peer(e)] \/ PacketInv(p, t),
           flushes' \in [Eps -> Nat]
    PROVE  IndInv' /\ OkStep
<1> DEFINE s == ep[e]
           r == ep[Peer(e)]
<1>1. /\ s \in EpType /\ r \in EpType /\ LinkInv(s, r) /\ LinkInv(r, s)
    BY StartFacts
<1>2. LinkInv(t, r) /\ LinkInv(r, t)
    BY <1>1 DEF LinkInv
<1>3. NewCompsOk(s, t, r)
  <2> SUFFICES ASSUME s.life = "open", NEW c \in t.comps \ s.comps
               PROVE  c.psn <= r.head_sn
    BY DEF NewCompsOk
  <2>1. c.psn \in Nat
    BY EpFields DEF CompType
  <2>2. c.psn <= s.acked_psn /\ s.acked_psn <= r.head_sn
    BY <1>1 DEF LinkInv
  <2> QED BY <2>1, <2>2, <1>1, EpFields
<1>4. s.psn <= t.psn /\ s.head_sn <= t.head_sn
    BY <1>1, EpFields
<1> HIDE DEF s, r
<1> QED BY <1>2, <1>3, <1>4, LocalStep, Zenon DEF s, r

LEMMA QuietStep ==
    ASSUME IndInv, NEW e \in Eps, NEW t \in EpType, Quiet(ep[e], t),
           ep' = [ep EXCEPT ![e] = t],
           net' \in [Eps -> SUBSET PacketType],
           \A p \in net'[e] : p \in net[e],
           \A p \in net'[Peer(e)] : p \in net[Peer(e)] \/ PacketInv(p, t),
           flushes' = flushes
    PROVE  IndInv' /\ OkStep
<1>1. /\ ep[e] \in EpType /\ TxInv(ep[e]) /\ RxInv(ep[e])
      /\ flushes \in [Eps -> Nat]
    BY StartFacts
<1>2. TxInv(t) /\ RxInv(t)
    BY <1>1, QuietKeepsTx, QuietKeepsRx DEF Quiet
<1>3. /\ t.psn = ep[e].psn /\ t.head_sn = ep[e].head_sn
      /\ t.acked_psn = ep[e].acked_psn /\ t.life = ep[e].life
      /\ t.comps = ep[e].comps
    BY DEF Quiet, RxSame, CompSame
<1> QED BY <1>1, <1>2, <1>3, SteadyStep, Zenon

\* An endpoint that is closed or has failed: the user is owed nothing more.
LEMMA ClosedStep ==
    ASSUME IndInv, NEW e \in Eps, NEW t \in EpType, TxInv(t), RxInv(t),
           ep' = [ep EXCEPT ![e] = t],
           t.psn = ep[e].psn, t.head_sn = ep[e].head_sn,
           t.acked_psn = t.psn - 1, t.life # "open",
           NewCompsOk(ep[e], t, ep[Peer(e)]),
           net' \in [Eps -> SUBSET PacketType],
           \A p \in net'[e] : p \in net[e],
           \A p \in net'[Peer(e)] : p \in net[Peer(e)] \/ PacketInv(p, t),
           flushes' \in [Eps -> Nat]
    PROVE  IndInv' /\ OkStep
<1> DEFINE s == ep[e]
           r == ep[Peer(e)]
<1>1. /\ s \in EpType /\ r \in EpType /\ LinkInv(s, r) /\ LinkInv(r, s)
    BY StartFacts
<1>2. LinkInv(t, r) /\ LinkInv(r, t)
    BY <1>1 DEF LinkInv
<1>3. s.psn <= t.psn /\ s.head_sn <= t.head_sn
    BY <1>1, EpFields
<1> HIDE DEF s, r
<1> QED BY <1>2, <1>3, LocalStep, Zenon DEF s, r

\* A message enters the window and the network.
LEMMA SentStep ==
    ASSUME IndInv, NEW e \in Eps, NEW t \in EpType, NEW p \in PacketType,
           ep[e].life = "open", TxInv(t), RxInv(t),
           t.psn = ep[e].psn + 1, t.acked_psn = ep[e].acked_psn,
           t.life = ep[e].life, t.head_sn = ep[e].head_sn,
           CompSame(ep[e], t), ep' = [ep EXCEPT ![e] = t],
           p.psn = ep[e].psn, p.ack = ep[e].head_sn,
           Transmit(e, {p}), flushes' = flushes
    PROVE  IndInv' /\ OkStep
<1> DEFINE s == ep[e]
           r == ep[Peer(e)]
<1>1. /\ s \in EpType /\ r \in EpType
      /\ LinkInv(s, r) /\ LinkInv(r, s) /\ flushes \in [Eps -> Nat]
    BY StartFacts
<1>2. LinkInv(t, r)
  <2>1. s.acked_psn <= r.head_sn /\ r.head_sn < s.psn
    BY <1>1 DEF LinkInv
  <2>2. t.psn <= t.acked_psn + MaxWindow + 1
    BY DEF TxInv
  <2>3. /\ s.acked_psn \in Nat /\ r.head_sn \in Nat /\ s.psn \in Nat
        /\ MaxWindow \in Nat
    BY <1>1, EpFields, HalfFacts, SMTT(60)
  <2>4. r.head_sn < t.psn /\ t.psn <= r.head_sn + MaxWindow + 1
    BY <2>1, <2>2, <2>3
  <2> QED BY <2>1, <2>4 DEF LinkInv
<1>3. LinkInv(r, t)
    BY <1>1 DEF LinkInv
<1>4. PacketInv(p, t)
    BY <1>1, EpFields DEF PacketInv
<1>5. /\ net' \in [Eps -> SUBSET PacketType]
      /\ \A q \in net'[e] : q \in net[e]
      /\ \A q \in net'[Peer(e)] : q \in net[Peer(e)] \/ PacketInv(q, t)
  <2>1. {p} \in SUBSET PacketType
    OBVIOUS
  <2> QED BY <2>1, <1>4, TransmitFacts
<1>6. NewCompsOk(s, t, r)
    BY DEF NewCompsOk, CompSame
<1>7. s.psn <= t.psn /\ s.head_sn <= t.head_sn
    BY <1>1, EpFields
<1> QED BY <1>1, <1>2, <1>3, <1>5, <1>6, <1>7, LocalStep, Zenon

\* A packet in flight is in the reach of both circular comparisons.
LEMMA PacketInReach ==
    ASSUME NEW s \in EpType, NEW r \in EpType, NEW p \in PacketType,
           LinkInv(s, r), LinkInv(r, s), PacketInv(p, r), Fresh(s, p)
    PROVE  /\ p.ack \in Nat /\ p.psn \in Nat
           /\ p.ack < s.psn /\ s.psn - p.ack < Half /\ p.ack <= r.head_sn
           /\ p.psn - (s.head_sn + 1) < Half /\ (s.head_sn + 1) - p.psn < Half
           /\ p.am => p.psn < r.psn
<1>1. p.ack \in Nat /\ p.psn \in Nat
    BY DEF PacketType
<1>2. /\ p.psn <= r.psn /\ (p.am => p.psn < r.psn) /\ p.ack <= r.head_sn
      /\ r.head_sn < s.psn /\ r.psn <= s.head_sn + MaxWindow + 1
      /\ s.head_sn - p.psn < Half - 1 /\ s.psn - p.ack < Half
    BY DEF LinkInv, PacketInv, Fresh
<1>3. /\ r.psn \in Nat /\ r.head_sn \in Nat /\ s.psn \in Nat
      /\ s.head_sn \in Nat
    BY EpFields, SMTT(60)
<1> QED BY <1>1, <1>2, <1>3, HalfFacts

\* A packet is taken: acked_psn and head_sn move up to what it says.
LEMMA ReceivedStep ==
    ASSUME IndInv, NEW e \in Eps, NEW p \in net[e], Fresh(ep[e], p),
           NEW t \in EpType, TxInv(t), RxInv(t), RxStep(ep[e], t, p),
           ep' = [ep EXCEPT ![e] = t],
           net' \in [Eps -> SUBSET PacketType],
           \A q \in net'[e] : q \in net[e],
           \A q \in net'[Peer(e)] : q \in net[Peer(e)],
           flushes' = flushes
    PROVE  IndInv' /\ OkStep
<1> DEFINE s == ep[e]
           r == ep[Peer(e)]
<1>1. /\ s \in EpType /\ r \in EpType /\ LinkInv(s, r) /\ LinkInv(r, s)
      /\ flushes \in [Eps -> Nat] /\ p \in PacketType /\ PacketInv(p, r)
    BY StartFacts
<1>2. /\ p.ack \in Nat /\ p.psn \in Nat /\ p.ack <= r.head_sn
      /\ p.ack < s.psn /\ p.am => p.psn < r.psn
    BY <1>1, PacketInReach
<1>3. /\ t.psn = s.psn /\ t.life = s.life
      /\ t.acked_psn = IF s.acked_psn < p.ack THEN p.ack ELSE s.acked_psn
      /\ \/ t.head_sn = s.head_sn
         \/ p.am /\ t.head_sn = p.psn /\ p.psn = s.head_sn + 1
      /\ \A c \in t.comps \ s.comps : c.psn <= t.acked_psn
    BY DEF RxStep
<1>4. /\ s.psn \in Nat /\ s.acked_psn \in Nat /\ s.head_sn \in Nat
      /\ r.psn \in Nat /\ r.acked_psn \in Nat /\ r.head_sn \in Nat
      /\ MaxWindow \in Nat
    BY <1>1, EpFields, HalfFacts, SMTT(60)
<1>5. LinkInv(t, r)
    BY <1>1, <1>2, <1>3, <1>4, SMTT(60) DEF LinkInv
<1>6. s.head_sn <= t.head_sn /\ t.head_sn < r.psn /\ t.head_sn \in Nat
    BY <1>1, <1>2, <1>3, <1>4, SMTT(60) DEF LinkInv
<1>7. LinkInv(r, t)
    BY <1>1, <1>4, <1>6 DEF LinkInv
<1>8. NewCompsOk(s, t, r)
  <2> SUFFICES ASSUME s.life = "open", NEW c \in t.comps \ s.comps
               PROVE  c.psn <= r.head_sn
    BY SMTT(60) DEF NewCompsOk
  <2>1. c.psn \in Nat
    BY EpFields DEF CompType
  <2>2. c.psn <= t.acked_psn
    BY <1>3, SMTT(60)
  <2>3. t.acked_psn <= r.head_sn /\ t.acked_psn \in Nat
    BY <1>2, <1>3, <1>4, <1>5, SMTT(60) DEF LinkInv
  <2> QED BY <2>1, <2>2, <2>3, <1>4
<1>9. s.psn <= t.psn
    BY <1>3, <1>4
<1> HIDE DEF s, r
<1> QED BY <1>1, <1>5, <1>6, <1>7, <1>8, <1>9, LocalStep, Zenon DEF s, r

\* An endpoint that is purged and given the life l of a dead endpoint.
LEMMA PurgedStep ==
    ASSUME IndInv, NEW e \in Eps, NEW a \in EpType, TxInv(a),
           PurgeStep(ep[e], a),
           NEW l \in Lives \ {"open"}, NEW b \in BOOLEAN, NEW k \in Nat,
           ep' = [ep EXCEPT ![e] =
                    [a EXCEPT !.life = l, !.timer = b, !.timeouts = k]],
           UNCHANGED <<net, flushes>>
    PROVE  IndInv' /\ OkStep
<1> DEFINE s == ep[e]
           r == ep[Peer(e)]
           t == [a EXCEPT !.life = l, !.timer = b, !.timeouts = k]
<1>1. /\ s \in EpType /\ r \in EpType /\ RxInv(s) /\ LinkInv(s, r)
      /\ net \in [Eps -> SUBSET PacketType] /\ flushes \in [Eps -> Nat]
    BY StartFacts
<1>2. RxInv(a)
    BY <1>1, QuietKeepsRx DEF PurgeStep
<1>3. LifeStep(a, t, l)
    BY <1>2, LifeFacts, Zenon
<1>4. ep' = [ep EXCEPT ![e] = t]
    OBVIOUS
<1> HIDE DEF t
<1>5. /\ t \in EpType /\ TxInv(t) /\ RxInv(t) /\ t.psn = s.psn
      /\ t.head_sn = s.head_sn /\ t.acked_psn = t.psn - 1 /\ t.life # "open"
      /\ t.comps = a.comps
    BY <1>3 DEF LifeStep, PurgeStep, RxSame
<1>6. NewCompsOk(s, t, r)
  <2> SUFFICES ASSUME s.life = "open", NEW c \in a.comps \ s.comps,
                      c.status = "OK"
               PROVE  c.psn <= r.head_sn
    BY <1>5 DEF NewCompsOk
  <2>1. c.psn \in Nat /\ s.acked_psn \in Nat /\ r.head_sn \in Nat
    BY <1>1, EpFields DEF CompType
  <2>2. c.psn <= s.acked_psn /\ s.acked_psn <= r.head_sn
    BY <1>1 DEF PurgeStep, LinkInv
  <2> QED BY <2>1, <2>2
<1> QED BY <1>1, <1>4, <1>5, <1>6, ClosedStep, Zenon

LEMMA LoseStep ==
    ASSUME IndInv, NEW e \in Eps, NEW p \in net[e], Lose(e, p)
    PROVE  IndInv' /\ OkStep
<1> DEFINE s == ep[e]
<1>1. s \in EpType /\ net \in [Eps -> SUBSET PacketType]
    BY StartFacts
<1>2. /\ net' = [net EXCEPT ![e] = @ \ {p}] /\ flushes' = flushes
      /\ ep' = [ep EXCEPT ![e] = s]
    BY DEF Lose, IndInv, TypeOK
<1>3. /\ net' \in [Eps -> SUBSET PacketType]
      /\ \A q \in net'[e] : q \in net[e]
      /\ \A q \in net'[Peer(e)] : q \in net[Peer(e)]
    BY <1>1, <1>2, PeerFacts
<1>4. Quiet(s, s)
    BY SameIdsRefl DEF Quiet, CompSame, RxSame
<1> QED BY <1>1, <1>2, <1>3, <1>4, QuietStep, Zenon

LEMMA InvalidateStep ==
    ASSUME IndInv, NEW e \in Eps, Invalidate(e)
    PROVE  IndInv' /\ OkStep
<1> DEFINE s == ep[e]
           k == s.timeouts + 1
           t == [s EXCEPT !.timeouts = k]
<1>1. s \in EpType /\ net \in [Eps -> SUBSET PacketType]
    BY StartFacts
<1>2. ep' = [ep EXCEPT ![e] = t] /\ net' = net /\ flushes' = flushes
    BY DEF Invalidate
<1>3. k \in Nat
    BY <1>1, EpFields
<1> HIDE DEF k
<1>4. t \in EpType
    BY <1>1, <1>3, ZenonT(60) DEF EpType
<1>5. Quiet(s, t)
    BY <1>1, SameIdsRefl DEF EpType, Quiet, CompSame, RxSame
<1> HIDE DEF t
<1> QED BY <1>1, <1>2, <1>4, <1>5, QuietStep, Zenon

LEMMA StutterInv ==
    ASSUME IndInv, UNCHANGED vars
    PROVE  IndInv' /\ OkStep
<1>1. ep' = ep /\ net' = net /\ flushes' = flushes
    BY DEF vars
<1>2. IndInv'
    BY <1>1 DEF IndInv, TypeOK
<1>3. OkStep
    BY <1>1 DEF OkStep, NewCompsOk
<1> QED BY <1>2, <1>3

-----------------------------------------------------------------------------
(* Packets and descriptors. *)

\* The packet of an ack request.
LEMMA AckPacketFacts ==
    ASSUME NEW s \in EpType, NEW t, t.psn = s.psn, t.head_sn = s.head_sn
    PROVE  AckPacket(s) \in PacketType /\ PacketInv(AckPacket(s), t)
<1>1. /\ AckPacket(s) \in PacketType /\ ~AckPacket(s).am
      /\ AckPacket(s).psn = s.psn /\ AckPacket(s).ack = s.head_sn
    BY EpFields DEF AckPacket, Packet, PacketType
<1> QED BY <1>1, EpFields, SMTT(60) DEF PacketInv

LEMMA RemoveAtFacts ==
    ASSUME NEW S, NEW seq \in Seq(S), NEW i \in DOMAIN seq
    PROVE  RemoveAt(seq, i) \in Seq(S)
<1>1. SubSeq(seq, 1, i - 1) \in Seq(S)
    OBVIOUS
<1>2. SubSeq(seq, i + 1, Len(seq)) \in Seq(S)
    OBVIOUS
<1> QED BY <1>1, <1>2 DEF RemoveAt

-----------------------------------------------------------------------------
(* The invariant at the start, and what it implies. *)

LEMMA InitInv == Init => IndInv
<1> SUFFICES ASSUME Init PROVE IndInv
    OBVIOUS
<1>1. /\ InitialPsn \in Nat /\ InitialPsn - 1 \in Nat /\ InitialPsn > 0
      /\ MinWindow \in MinWindow..MaxWindow /\ MinWindow \in Nat
      /\ InitialPsn + MinWindow \in Nat /\ MaxWindow \in Nat
      /\ MinWindow <= MaxWindow
    BY HalfFacts
<1>2. << >> \in Seq(SkbType) /\ << >> \in Seq(Nat \X Nat) /\ << >> \in Seq(Nat)
      /\ Begin \in Nat \X Nat /\ "open" \in Lives
    BY SMTT(60) DEF Begin, Lives
<1>3. Reset \in EpType
    BY <1>1, <1>2, SMTT(60) DEF Reset, EpType
<1>4. TxInv(Reset)
  <2>1. \A n \in InitialPsn - 1 + 1 .. InitialPsn - 1 : FALSE
    BY <1>1, SMTT(60)
  <2> QED BY <1>1, <2>1 DEF Reset, TxInv
<1>5. RxInv(Reset)
    BY <1>1, SMTT(60) DEF Reset, RxInv, Run
<1>6. LinkInv(Reset, Reset)
    BY <1>1 DEF Reset, LinkInv
<1>7. TypeOK
    BY <1>3 DEF Init, TypeOK
<1> QED BY <1>4, <1>5, <1>6, <1>7, PeerFacts DEF Init, IndInv

\* What was handed over or waits for it is a run of the messages sent.
LEMMA InvOrder == IndInv => InOrderDelivery
<1> SUFFICES ASSUME IndInv, NEW e \in Eps
             PROVE  LET seen == ep[e].delivered \o ep[e].pending_q
                    IN  /\ Len(seen) = ep[e].head_sn - (InitialPsn - 1)
                        /\ Run(seen, InitialPsn)
                        /\ Len(seen) <= Sent(Peer(e))
    BY Zenon DEF InOrderDelivery
<1> DEFINE s == ep[e]
           r == ep[Peer(e)]
           seen == s.delivered \o s.pending_q
<1>1. s \in EpType /\ r \in EpType /\ RxInv(s) /\ LinkInv(r, s)
    BY StartFacts
<1>2. PICK d, q \in Nat : /\ d = Len(s.delivered) /\ q = Len(s.pending_q)
                          /\ d + q = s.head_sn - (InitialPsn - 1)
    BY <1>1, RxFacts, SMTT(60)
<1>3. Len(seen) = Len(s.delivered) + Len(s.pending_q) /\ Run(seen, InitialPsn)
    BY <1>1, RxFacts, RunConcat, HalfFacts, SMTT(60)
<1>4. Len(seen) = s.head_sn - (InitialPsn - 1)
    BY <1>2, <1>3, Zenon
<1>5. s.head_sn < r.psn /\ s.head_sn \in Nat /\ r.psn \in Nat
    BY <1>1, EpFields DEF LinkInv
<1>6. s.head_sn - (InitialPsn - 1) <= r.psn - InitialPsn
    BY <1>5, HalfFacts, SMTT(60)
<1> QED BY <1>3, <1>4, <1>6, Zenon DEF Sent

\* What is not acknowledged is in the window.
LEMMA InvWindow == IndInv => WindowHoldsUnacked
<1> SUFFICES ASSUME IndInv, NEW e \in Eps
             PROVE  /\ \A n \in ep[e].acked_psn + 1 .. ep[e].psn - 1 :
                          Holds(ep[e].window, n)
                    /\ ep[e].psn - ep[e].acked_psn <= MaxWindow + 1
    BY DEF WindowHoldsUnacked
<1>1. ep[e] \in EpType /\ TxInv(ep[e])
    BY StartFacts
<1> QED BY <1>1, TxFacts, HalfFacts DEF TxInv

=============================================================================
