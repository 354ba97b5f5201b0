-------------------------- MODULE UdReliableProofs --------------------------
(***************************************************************************)
(* The reliability protocol of two UD endpoints is correct for every        *)
(* window, psn space, number of messages, and network capacity.             *)
(***************************************************************************)
EXTENDS UdSteps, UdEpProofs

-----------------------------------------------------------------------------
(* Operations of the user. *)

LEMMA SendStep ==
    ASSUME IndInv, NEW e \in Eps, NEW kind, Send(e, kind)
    PROVE  IndInv' /\ OkStep
<1> DEFINE s == ep[e]
           ackreq == ReqAck(s) \/ kind = "zcopy"
           skb == Skb(s.psn, 0, kind = "bcopy", kind = "zcopy", FALSE)
           t == SendAm(s, skb)
           p == Packet(TRUE, s.psn, s.head_sn, ackreq, FALSE)
<1>1. /\ s.life = "open" /\ ~NoWindow(s)
      /\ ep' = [ep EXCEPT ![e] = t]
      /\ Transmit(e, {p}) /\ flushes' = flushes
    BY DEF Send
<1>2. s \in EpType /\ TxInv(s) /\ RxInv(s)
    BY StartFacts
<1>3. skb \in SkbType /\ skb.psn = s.psn /\ skb.flush = 0
    BY <1>2, EpFields DEF Skb, SkbType
<1>4. ackreq \in BOOLEAN
    OBVIOUS
<1> HIDE DEF skb, ackreq
<1>5. p \in PacketType /\ p.psn = s.psn /\ p.ack = s.head_sn
    BY <1>2, <1>4, EpFields DEF Packet, PacketType
<1>6. /\ t \in EpType /\ TxInv(t) /\ RxInv(t)
      /\ t.psn = s.psn + 1 /\ t.acked_psn = s.acked_psn
      /\ t.life = s.life /\ t.head_sn = s.head_sn /\ CompSame(s, t)
  <2>1. s.psn < s.max_psn
    BY <1>1, <1>2, WindowRoom
  <2> QED BY <2>1, <1>2, <1>3, SendAmFacts, Zenon
<1> HIDE DEF t, p
<1> QED BY <1>1, <1>5, <1>6, SentStep, ZenonT(60)

LEMMA AckReqOutFacts ==
    ASSUME NEW s \in EpType, NEW t, t.psn = s.psn, t.head_sn = s.head_sn
    PROVE  /\ AckReqOut(s) \in SUBSET PacketType
           /\ \A p \in AckReqOut(s) : PacketInv(p, t)
<1> DEFINE a == CtlOpAdd(s, "ACK_REQ")
<1>1. a \in EpType /\ Quiet(s, a)
    BY CtlOpAddFacts DEF Ops
<1> HIDE DEF a
<1>2. AckPacket(a) \in PacketType /\ PacketInv(AckPacket(a), t)
    BY <1>1, AckPacketFacts DEF Quiet, RxSame
<1> QED BY <1>2 DEF AckReqOut, a

LEMMA FlushStep ==
    ASSUME IndInv, NEW e \in Eps, Flush(e)
    PROVE  IndInv' /\ OkStep
<1> DEFINE s    == ep[e]
           n    == flushes[e] + 1
           last == Len(s.window)
           ask  == ~IsLastAckReceived(s) /\ ~s.window[last].ackreq
           asked == IF ask
                    THEN [AckReqDo(s) EXCEPT !.window[last].ackreq = TRUE]
                    ELSE IF IsLastAckReceived(s)
                    THEN [s EXCEPT !.ops = @ \ {"ACK_REQ"}] ELSE s
           out  == IF ask THEN AckReqOut(s) ELSE {}
<1>1. /\ flushes' = [flushes EXCEPT ![e] = n]
      /\ IF FlushIdle(s)
         THEN /\ ep' = [ep EXCEPT ![e] = FlushDone(s, n)]
              /\ net' = net
         ELSE /\ ep' = [ep EXCEPT ![e] = CompSkbAdd(asked, n)]
              /\ Transmit(e, out)
    BY DEF Flush
<1>2. /\ s \in EpType /\ TxInv(s) /\ RxInv(s) /\ n \in Nat
      /\ net \in [Eps -> SUBSET PacketType]
    BY StartFacts, SMTT(60)
<1>3. flushes' \in [Eps -> Nat]
    BY <1>1, <1>2, StartFacts
<1> HIDE DEF n
<1>4. CASE FlushIdle(s)
  <2> DEFINE t == FlushDone(s, n)
  <2>1. /\ t \in EpType /\ TxInv(t) /\ RxInv(t)
        /\ t.psn = s.psn /\ t.acked_psn = s.acked_psn
        /\ t.life = s.life /\ t.head_sn = s.head_sn
        /\ \A c \in t.comps \ s.comps : c.psn <= s.acked_psn
    BY <1>2, <1>4, FlushDoneFacts, ZenonT(60)
  <2> HIDE DEF t
  <2>2. ep' = [ep EXCEPT ![e] = t] /\ net' = net
    BY <1>1, <1>4 DEF t
  <2> QED BY <2>1, <2>2, <1>2, <1>3, SteadyStep, ZenonT(60)
<1>5. CASE ~FlushIdle(s)
  <2>1. Asked(s, asked)
    <3>1. CASE ask
        BY <3>1, <1>2, FlushAskFacts
    <3>2. CASE ~ask /\ IsLastAckReceived(s)
      <4> DEFINE ops == s.ops \ {"ACK_REQ"}
                 u == [s EXCEPT !.ops = ops]
      <4>1. ops \in SUBSET Ops
        BY <1>2, EpFields
      <4>2. asked = u
        BY <3>2
      <4> HIDE DEF ops
      <4>3. u \in EpType
        BY <4>1, <1>2, ZenonT(60) DEF EpType
      <4>4. Quiet(s, u)
        BY <1>2, SameIdsRefl DEF EpType, Quiet, RxSame, CompSame
      <4> HIDE DEF u
      <4>5. TxInv(u) /\ RxInv(u)
        BY <4>3, <4>4, <1>2, QuietKeepsTx, QuietKeepsRx, SMTT(60) DEF Quiet
      <4>6. Asked(s, u)
        BY <4>3, <4>4, <4>5, SMTT(60) DEF Asked, Quiet, RxSame, CompSame
      <4> QED BY <4>2, <4>6, Zenon
    <3>3. CASE ~ask /\ ~IsLastAckReceived(s)
        BY <3>3, <1>2, SMTT(60) DEF Asked
    <3> QED BY <3>1, <3>2, <3>3, SMTT(60)
  <2> DEFINE t == CompSkbAdd(asked, n)
  <2>2. ep' = [ep EXCEPT ![e] = t] /\ Transmit(e, out)
    BY <1>1, <1>5, SMTT(60)
  <2> HIDE DEF asked
  <2>3. Asked(asked, t)
    BY <2>1, <1>2, CompSkbAddFacts, SMTT(60) DEF Asked
  <2> HIDE DEF t
  <2>4. /\ t \in EpType /\ TxInv(t) /\ RxInv(t)
        /\ t.psn = s.psn /\ t.acked_psn = s.acked_psn
        /\ t.life = s.life /\ t.head_sn = s.head_sn
        /\ t.comps = s.comps
    BY <2>1, <2>3, SMTT(60) DEF Asked
  <2>5. out \in SUBSET PacketType /\ \A p \in out : PacketInv(p, t)
    BY <2>4, <1>2, AckReqOutFacts, SMTT(60)
  <2> HIDE DEF out
  <2>6. /\ net' \in [Eps -> SUBSET PacketType]
        /\ \A p \in net'[e] : p \in net[e]
        /\ \A p \in net'[Peer(e)] : p \in net[Peer(e)] \/ PacketInv(p, t)
    BY <2>2, <2>5, TransmitFacts
  <2> QED BY <2>2, <2>4, <2>6, <1>3, SteadyStep, ZenonT(60)
<1> QED BY <1>4, <1>5, SMTT(60)

LEMMA FlushCancelStep ==
    ASSUME IndInv, NEW e \in Eps, FlushCancel(e)
    PROVE  IndInv' /\ OkStep
<1> DEFINE o == ep[e]
           s == CancelAcks(o)
           n == flushes[e] + 1
           u(a, l) == [a EXCEPT !.life = l]
<1>1. /\ o \in EpType /\ TxInv(o) /\ RxInv(o) /\ n \in Nat
      /\ net \in [Eps -> SUBSET PacketType] /\ flushes \in [Eps -> Nat]
    BY StartFacts, SMTT(60)
<1>2. /\ s \in EpType /\ TxInv(s) /\ RxInv(s)
      /\ s.psn = o.psn /\ s.acked_psn = o.psn - 1 /\ s.head_sn = o.head_sn
    BY <1>1, CancelAcksFacts DEF RxSame
<1>3. ASSUME NEW a \in EpType, TxInv(a), RxInv(a),
             a.psn = s.psn, a.acked_psn = s.acked_psn, a.head_sn = s.head_sn,
             NEW l \in {"cancelling", "cancelled"},
             ep' = [ep EXCEPT ![e] = [a EXCEPT !.life = l]],
             net' \in [Eps -> SUBSET PacketType],
             \A p \in net'[e] : p \in net[e],
             \A p \in net'[Peer(e)] : p \in net[Peer(e)] \/ PacketInv(p, a),
             flushes' \in [Eps -> Nat]
      PROVE  IndInv' /\ OkStep
  <2> DEFINE t == [a EXCEPT !.life = l]
  <2>1. l \in Lives \ {"open"} /\ a.timer \in BOOLEAN /\ a.timeouts \in Nat
    BY <1>3, EpFields DEF Lives
  <2> DEFINE v == [a EXCEPT !.life = l, !.timer = a.timer,
                            !.timeouts = a.timeouts]
  <2>2. t = v
    BY <1>3, Zenon DEF EpType
  <2>3. /\ t \in EpType /\ TxInv(t) /\ RxInv(t)
        /\ t.psn = a.psn /\ t.acked_psn = a.acked_psn /\ t.life = l
        /\ t.head_sn = a.head_sn
    <3>1. LifeStep(a, v, l)
        BY <2>1, <1>3, LifeFacts, ZenonT(60)
    <3> HIDE DEF v, t
    <3> QED BY <2>2, <3>1 DEF LifeStep
  <2>4. ep' = [ep EXCEPT ![e] = t]
    BY <1>3
  <2> HIDE DEF t
  <2>5. \A p \in net'[Peer(e)] : p \in net[Peer(e)] \/ PacketInv(p, t)
    BY <2>3, <1>3 DEF PacketInv
  <2>6. NewCompsOk(o, t, ep[Peer(e)])
    BY <2>3, <1>3 DEF NewCompsOk
  <2>7. t.life # "open" /\ t.psn = o.psn /\ t.acked_psn = t.psn - 1
        /\ t.head_sn = o.head_sn
    BY <2>3, <1>2, <1>3, SMTT(60)
  <2> QED BY <2>3, <2>4, <2>5, <2>6, <2>7, <1>3, ClosedStep, ZenonT(60)
<1> HIDE DEF s, n
<1>4. CASE /\ ep' = [ep EXCEPT ![e] = u(s, "cancelling")]
           /\ UNCHANGED <<net, flushes>>
    BY <1>1, <1>2, <1>3, <1>4, ZenonT(60)
<1>5. CASE /\ FlushIdle(s)
           /\ ep' = [ep EXCEPT ![e] = u(FlushDone(s, n), "cancelled")]
           /\ flushes' = [flushes EXCEPT ![e] = n] /\ net' = net
  <2> DEFINE a == FlushDone(s, n)
  <2>1. /\ a \in EpType /\ TxInv(a) /\ RxInv(a)
        /\ a.psn = s.psn /\ a.acked_psn = s.acked_psn
        /\ a.life = s.life /\ a.head_sn = s.head_sn
    BY <1>1, <1>2, <1>5, FlushDoneFacts, ZenonT(60)
  <2>2. ep' = [ep EXCEPT ![e] = [a EXCEPT !.life = "cancelled"]]
    BY <1>5
  <2> HIDE DEF a
  <2>3. flushes' \in [Eps -> Nat]
    BY <1>1, <1>5
  <2> QED BY <2>1, <2>2, <2>3, <1>1, <1>3, <1>5, ZenonT(60)
<1>6. CASE /\ ep' = [ep EXCEPT ![e] =
                        u(CompSkbAdd(AckReqDo(s), n), "cancelled")]
           /\ flushes' = [flushes EXCEPT ![e] = n]
           /\ Transmit(e, AckReqOut(s))
  <2> DEFINE b == AckReqDo(s)
             a == CompSkbAdd(b, n)
  <2>1. /\ b \in EpType /\ TxInv(b) /\ RxInv(b)
        /\ b.psn = s.psn /\ b.acked_psn = s.acked_psn /\ b.head_sn = s.head_sn
    BY <1>2, AckReqDoFacts, Zenon
  <2>2. ep' = [ep EXCEPT ![e] = [a EXCEPT !.life = "cancelled"]]
    BY <1>6
  <2> HIDE DEF b
  <2>3. Asked(b, a)
    BY <2>1, <1>1, CompSkbAddFacts, SMTT(60)
  <2> HIDE DEF a
  <2>4. /\ a \in EpType /\ TxInv(a) /\ RxInv(a)
        /\ a.psn = s.psn /\ a.acked_psn = s.acked_psn /\ a.head_sn = s.head_sn
    BY <2>1, <2>3 DEF Asked
  <2>5. /\ AckReqOut(s) \in SUBSET PacketType
        /\ \A p \in AckReqOut(s) : PacketInv(p, a)
    BY <2>4, <1>2, AckReqOutFacts
  <2>6. /\ net' \in [Eps -> SUBSET PacketType]
        /\ \A p \in net'[e] : p \in net[e]
        /\ \A p \in net'[Peer(e)] : p \in net[Peer(e)] \/ PacketInv(p, a)
    BY <2>5, <1>6, TransmitFacts
  <2>7. flushes' \in [Eps -> Nat]
    BY <1>1, <1>6
  <2> QED BY <2>2, <2>4, <2>6, <2>7, <1>3, ZenonT(60)
<1> QED BY <1>4, <1>5, <1>6 DEF FlushCancel, s, n

LEMMA DisconnectStep ==
    ASSUME IndInv, NEW e \in Eps, Disconnect(e)
    PROVE  IndInv' /\ OkStep
<1> DEFINE o == ep[e]
           s == CancelAcks(o)
           ask == CanTx(s) /\ ~FlushIdle(s)
           a == IF ask THEN AckReqDo(s) ELSE s
           out == IF ask THEN AckReqOut(s) ELSE {}
           b == Purge(a, "CANCELED")
           t == [b EXCEPT !.life = "disconnected", !.timer = TRUE]
           v == [b EXCEPT !.life = "disconnected", !.timer = TRUE,
                          !.timeouts = b.timeouts]
<1>1. /\ o \in EpType /\ TxInv(o) /\ RxInv(o) /\ flushes \in [Eps -> Nat]
    BY StartFacts
<1>2. /\ s \in EpType /\ TxInv(s) /\ RxInv(s)
      /\ s.psn = o.psn /\ s.head_sn = o.head_sn
    BY <1>1, CancelAcksFacts DEF RxSame
<1>3. /\ ep' = [ep EXCEPT ![e] = t] /\ Transmit(e, out) /\ flushes' = flushes
    BY DEF Disconnect
<1> HIDE DEF s
<1>4. /\ a \in EpType /\ TxInv(a) /\ RxInv(a)
      /\ a.psn = o.psn /\ a.head_sn = o.head_sn
  <2> DEFINE c == AckReqDo(s)
  <2>1. /\ c \in EpType /\ TxInv(c) /\ RxInv(c)
        /\ c.psn = s.psn /\ c.head_sn = s.head_sn
    BY <1>2, AckReqDoFacts, Zenon
  <2> HIDE DEF c, ask
  <2>2. a = IF ask THEN c ELSE s
    BY DEF c
  <2> HIDE DEF a
  <2> QED BY <1>2, <2>1, <2>2, SMTT(60)
<1>5. /\ out \in SUBSET PacketType
      /\ \A p \in out : p.psn <= o.psn /\ ~p.am /\ p.ack <= o.head_sn
  <2>1. AckReqOut(s) \in SUBSET PacketType
    BY <1>2, AckReqOutFacts
  <2>2. \A p \in AckReqOut(s) : /\ p.psn = s.psn /\ ~p.am /\ p.ack = s.head_sn
    <3>1. /\ CtlOpAdd(s, "ACK_REQ").psn = s.psn
          /\ CtlOpAdd(s, "ACK_REQ").head_sn = s.head_sn
        BY <1>2, Zenon DEF CtlOpAdd, EpType
    <3> QED BY <3>1 DEF AckReqOut, AckPacket, Packet
  <2> QED BY <2>1, <2>2, <1>1, <1>2, EpFields, SMTT(60)
<1> HIDE DEF a, out
<1>6. b \in EpType /\ TxInv(b) /\ PurgeStep(a, b)
    BY <1>4, PurgeFacts
<1>7. RxInv(b)
    BY <1>4, <1>6, QuietKeepsRx DEF PurgeStep
<1> HIDE DEF b
<1>8. t = v
    BY <1>6, Zenon DEF EpType
<1>9. /\ t \in EpType /\ TxInv(t) /\ RxInv(t)
      /\ t.psn = b.psn /\ t.acked_psn = b.acked_psn /\ t.life = "disconnected"
      /\ t.head_sn = b.head_sn
  <2>1. "disconnected" \in Lives \ {"open"} /\ b.timeouts \in Nat
    BY <1>6, EpFields DEF Lives
  <2>2. LifeStep(b, v, "disconnected")
    BY <2>1, <1>6, <1>7, LifeFacts, ZenonT(60)
  <2> HIDE DEF v, t
  <2> QED BY <2>2, <1>8, SMTT(60) DEF LifeStep
<1> HIDE DEF t, v
<1>10. /\ t.psn = o.psn /\ t.acked_psn = t.psn - 1 /\ t.head_sn = o.head_sn
       /\ t.life # "open"
    BY <1>4, <1>6, <1>9, SMTT(60) DEF PurgeStep, RxSame
<1>11. \A p \in out : PacketInv(p, t)
    BY <1>5, <1>10, SMTT(60) DEF PacketInv
<1>12. /\ net' \in [Eps -> SUBSET PacketType]
       /\ \A p \in net'[e] : p \in net[e]
       /\ \A p \in net'[Peer(e)] : p \in net[Peer(e)] \/ PacketInv(p, t)
    BY <1>3, <1>5, <1>11, TransmitFacts, SMTT(60)
<1>13. NewCompsOk(o, t, ep[Peer(e)])
    BY <1>9 DEF NewCompsOk
<1> QED BY <1>1, <1>3, <1>9, <1>10, <1>12, <1>13, ClosedStep, ZenonT(60)

-----------------------------------------------------------------------------
(* Control operations, network and timer. *)

LEMMA ResendStep ==
    ASSUME IndInv, NEW e \in Eps, Resend(e)
    PROVE  IndInv' /\ OkStep
<1> DEFINE s == ep[e]
<1>1. /\ s \in EpType /\ TxInv(s) /\ RxInv(s)
      /\ net \in [Eps -> SUBSET PacketType] /\ flushes' = flushes
    BY StartFacts, Zenon DEF Resend
<1>2. CASE ep' = [ep EXCEPT ![e] = ResendEnd(s)] /\ net' = net
  <2>1. ResendEnd(s) \in EpType /\ Quiet(s, ResendEnd(s))
    BY <1>1, ResendEndFacts
  <2> QED BY <1>1, <1>2, <2>1, QuietStep, ZenonT(60)
<1>3. ASSUME NEW i \in DOMAIN s.window,
             ep' = [ep EXCEPT ![e] = ResendSkip(s, i)], net' = net
      PROVE  IndInv' /\ OkStep
  <2>1. ResendSkip(s, i) \in EpType /\ Quiet(s, ResendSkip(s, i))
    BY <1>1, ResendSkipFacts
  <2> QED BY <1>1, <1>3, <2>1, QuietStep, ZenonT(60)
<1>4. ASSUME NEW i \in DOMAIN s.window,
             ep' = [ep EXCEPT ![e] = ResendSkb(s, i)],
             Transmit(e, {ResendPacket(s, s.window[i].psn)})
      PROVE  IndInv' /\ OkStep
  <2> DEFINE t == ResendSkb(s, i)
             psn == s.window[i].psn
             p == ResendPacket(s, psn)
  <2>1. t \in EpType /\ Quiet(s, t)
    BY <1>1, ResendSkbFacts, SMTT(60)
  <2>2. psn \in Nat /\ psn < s.psn
    BY <1>1, EpFields, SkbFields, SMTT(60) DEF TxInv
  <2> HIDE DEF psn
  <2>3. /\ p \in PacketType /\ p.am /\ p.psn = psn /\ p.ack = s.rx_acked
    BY <1>1, <2>2, EpFields, SMTT(60) DEF ResendPacket, Packet, PacketType
  <2>4. s.rx_acked <= s.head_sn
    BY <1>1, SMTT(60) DEF RxInv
  <2> HIDE DEF p, t
  <2>5. PacketInv(p, t)
    BY <1>1, <2>1, <2>2, <2>3, <2>4, EpFields, SMTT(60)
       DEF PacketInv, Quiet, RxSame
  <2>6. {p} \in SUBSET PacketType /\ Transmit(e, {p})
    BY <2>3, <1>4, SMTT(60) DEF p, psn
  <2>7. /\ net' \in [Eps -> SUBSET PacketType]
        /\ \A q \in net'[e] : q \in net[e]
        /\ \A q \in net'[Peer(e)] : q \in net[Peer(e)] \/ PacketInv(q, t)
    BY <2>5, <2>6, TransmitFacts, SMTT(60)
  <2>8. ep' = [ep EXCEPT ![e] = t]
    BY <1>4 DEF t
  <2> QED BY <1>1, <2>1, <2>7, <2>8, QuietStep, ZenonT(60)
<1> QED BY <1>2, <1>3, <1>4, Zenon DEF Resend

LEMMA CtlAckSendStep ==
    ASSUME IndInv, NEW e \in Eps, CtlAckSend(e)
    PROVE  IndInv' /\ OkStep
<1> DEFINE s == ep[e]
           t == SendAck(s)
<1>1. /\ s \in EpType /\ TxInv(s) /\ RxInv(s) /\ flushes \in [Eps -> Nat]
    BY StartFacts
<1>2. /\ ep' = [ep EXCEPT ![e] = t] /\ Transmit(e, {AckPacket(s)})
      /\ flushes' = flushes
    BY DEF CtlAckSend
<1>3. /\ t \in EpType /\ RxInv(t)
      /\ t.psn = s.psn /\ t.acked_psn = s.acked_psn
      /\ t.max_psn = s.max_psn /\ t.life = s.life
      /\ t.window = s.window /\ CompSame(s, t) /\ t.head_sn = s.head_sn
    BY <1>1, SendAckFacts, ZenonT(60)
<1> HIDE DEF t
<1>4. TxInv(t) /\ t.comps = s.comps
    BY <1>1, <1>3, SMTT(60) DEF TxInv, CompSame
<1>5. AckPacket(s) \in PacketType /\ PacketInv(AckPacket(s), t)
    BY <1>1, <1>3, AckPacketFacts, SMTT(60)
<1>6. /\ net' \in [Eps -> SUBSET PacketType]
      /\ \A q \in net'[e] : q \in net[e]
      /\ \A q \in net'[Peer(e)] : q \in net[Peer(e)] \/ PacketInv(q, t)
  <2>1. {AckPacket(s)} \in SUBSET PacketType
    BY <1>5
  <2> QED BY <2>1, <1>2, <1>5, TransmitFacts, SMTT(60)
<1> QED BY <1>1, <1>2, <1>3, <1>4, <1>6, SteadyStep, ZenonT(60)

LEMMA ReceiveStep ==
    ASSUME IndInv, NEW e \in Eps, NEW p \in net[e],
           NEW is_async \in BOOLEAN, NEW keep \in BOOLEAN,
           Receive(e, p, is_async, keep)
    PROVE  IndInv' /\ OkStep
<1> DEFINE s == ep[e]
           r == ep[Peer(e)]
           t == ProcessRx(s, p, is_async)
<1>1. /\ s \in EpType /\ r \in EpType /\ TxInv(s) /\ RxInv(s)
      /\ LinkInv(s, r) /\ LinkInv(r, s)
      /\ net \in [Eps -> SUBSET PacketType]
      /\ p \in PacketType /\ PacketInv(p, r)
    BY StartFacts
<1>2. /\ Fresh(s, p) /\ MayPoll(s, is_async) /\ flushes' = flushes
      /\ net' = [net EXCEPT ![e] = IF keep THEN @ ELSE @ \ {p}]
      /\ ep' = IF s.life \in {"disconnected", "freed"} THEN ep
               ELSE [ep EXCEPT ![e] = t]
    BY DEF Receive
<1>3. /\ net' \in [Eps -> SUBSET PacketType]
      /\ \A q \in net'[e] : q \in net[e]
      /\ \A q \in net'[Peer(e)] : q \in net[Peer(e)]
    BY <1>1, <1>2, PeerFacts
<1>4. CASE s.life \in {"disconnected", "freed"}
  <2>1. ep' = [ep EXCEPT ![e] = s]
    BY <1>2, <1>4, SMTT(60) DEF IndInv, TypeOK
  <2>2. Quiet(s, s)
    BY SameIdsRefl DEF Quiet, CompSame, RxSame
  <2> QED BY <1>1, <1>2, <1>3, <2>1, <2>2, QuietStep, ZenonT(60)
<1>5. CASE ~(s.life \in {"disconnected", "freed"})
  <2>1. /\ p.ack \in Nat /\ p.psn \in Nat
        /\ p.ack < s.psn /\ s.psn - p.ack < Half
        /\ p.psn - (s.head_sn + 1) < Half /\ (s.head_sn + 1) - p.psn < Half
    BY <1>1, <1>2, PacketInReach, SMTT(60)
  <2>2. is_async \/ s.pending_q = << >>
    BY <1>2 DEF MayPoll
  <2>3. t \in EpType /\ TxInv(t) /\ RxInv(t) /\ RxStep(s, t, p)
    BY <1>1, <2>1, <2>2, ProcessRxFacts, ZenonT(60)
  <2>4. ep' = [ep EXCEPT ![e] = t]
    BY <1>2, <1>5
  <2> HIDE DEF t
  <2> QED BY <1>2, <1>3, <2>3, <2>4, ReceivedStep, ZenonT(60)
<1> QED BY <1>4, <1>5, SMTT(60)

LEMMA SendCompletionStep ==
    ASSUME IndInv, NEW e \in Eps, NEW i \in DOMAIN ep[e].outstanding,
           NEW is_async \in BOOLEAN, SendCompletion(e, i, is_async)
    PROVE  IndInv' /\ OkStep
<1> DEFINE s == ep[e]
           out == RemoveAt(s.outstanding, i)
           u == [s EXCEPT !.outstanding = out]
           t == CtlSkbComplete(u, s.outstanding[i], is_async)
<1>1. /\ s \in EpType /\ TxInv(s) /\ RxInv(s) /\ flushes \in [Eps -> Nat]
      /\ net \in [Eps -> SUBSET PacketType]
    BY StartFacts
<1>2. ep' = [ep EXCEPT ![e] = t] /\ net' = net /\ flushes' = flushes
    BY DEF SendCompletion
<1>3. out \in Seq(Nat \X Nat)
    BY <1>1, EpFields, RemoveAtFacts, SMTT(60)
<1> HIDE DEF out
<1>4. u \in EpType
    BY <1>1, <1>3, ZenonT(60) DEF EpType
<1>5. Quiet(s, u)
    BY <1>1, SameIdsRefl, SMTT(60) DEF EpType, Quiet, CompSame, RxSame
<1> HIDE DEF u
<1>6. TxInv(u) /\ RxInv(u)
    BY <1>1, <1>4, <1>5, QuietKeepsTx, QuietKeepsRx, SMTT(60) DEF Quiet
<1>7. /\ t \in EpType /\ TxInv(t) /\ Settles(u, t)
      /\ t.acked_psn = u.acked_psn
    BY <1>4, <1>6, CtlSkbCompleteFacts, ZenonT(60)
<1> HIDE DEF t
<1>8. RxInv(t)
    BY <1>6, <1>7, QuietKeepsRx, SMTT(60) DEF Settles
<1>9. /\ t.psn = s.psn /\ t.head_sn = s.head_sn /\ t.life = s.life
      /\ t.acked_psn = s.acked_psn
      /\ \A c \in t.comps \ s.comps : c.psn <= s.acked_psn
    BY <1>5, <1>7 DEF Quiet, Settles, RxSame, CompSame
<1> QED BY <1>1, <1>2, <1>7, <1>8, <1>9, SteadyStep, ZenonT(60)

LEMMA DispatchStep ==
    ASSUME IndInv, NEW e \in Eps, NEW n \in 0..Len(ep[e].pending_q),
           Dispatch(e, n)
    PROVE  IndInv' /\ OkStep
<1> DEFINE s == ep[e]
           a == DispatchAsyncComps(s)
           t == DispatchPendingRx(a, n)
<1>1. /\ s \in EpType /\ TxInv(s) /\ RxInv(s) /\ flushes \in [Eps -> Nat]
      /\ net \in [Eps -> SUBSET PacketType]
    BY StartFacts
<1>2. ep' = [ep EXCEPT ![e] = t] /\ net' = net /\ flushes' = flushes
    BY DEF Dispatch
<1>3. /\ a \in EpType /\ a.psn = s.psn /\ a.acked_psn = s.acked_psn
      /\ a.max_psn = s.max_psn /\ a.life = s.life
      /\ a.window = s.window /\ a.async_comp_q = {}
      /\ a.comps = s.comps \cup s.async_comp_q
      /\ RxSame(s, a)
    BY <1>1, DispatchAsyncCompsFacts, Zenon
<1> HIDE DEF a
<1>4. TxInv(a) /\ RxInv(a) /\ n \in 0..Len(a.pending_q)
    BY <1>1, <1>3, QuietKeepsRx, ZenonT(60) DEF TxInv, RxSame
<1>5. /\ t \in EpType /\ RxInv(t)
      /\ t.psn = a.psn /\ t.acked_psn = a.acked_psn
      /\ t.max_psn = a.max_psn /\ t.life = a.life
      /\ t.window = a.window /\ CompSame(a, t)
      /\ t.head_sn = a.head_sn
    BY <1>3, <1>4, DispatchPendingRxFacts, ZenonT(60)
<1> HIDE DEF t
<1>6. TxInv(t)
    BY <1>4, <1>5, ZenonT(60) DEF TxInv, CompSame
<1>7. \A c \in t.comps \ s.comps : s.life = "open" => c.psn <= s.acked_psn
    BY <1>1, <1>3, <1>5, ZenonT(60) DEF TxInv, CompSame
<1>8. /\ t.psn = s.psn /\ t.head_sn = s.head_sn /\ t.life = s.life
      /\ t.acked_psn = s.acked_psn
    BY <1>3, <1>5 DEF RxSame
<1> QED BY <1>1, <1>2, <1>5, <1>6, <1>7, <1>8, SteadyStep, ZenonT(60)

LEMMA TimerIdleStep ==
    ASSUME IndInv, NEW e \in Eps, TimerIdle(e)
    PROVE  IndInv' /\ OkStep
<1> DEFINE s == ep[e]
<1>1. /\ s \in EpType /\ TxInv(s) /\ net \in [Eps -> SUBSET PacketType]
      /\ UNCHANGED <<net, flushes>>
    BY StartFacts DEF TimerIdle
<1>2. CASE s.life = "disconnected"
  <2> DEFINE a == Purge(s, "CANCELED")
  <2>1. a \in EpType /\ TxInv(a) /\ PurgeStep(s, a)
    BY <1>1, PurgeFacts
  <2>2. ep' = [ep EXCEPT ![e] = [a EXCEPT
                    !.life = "freed", !.timer = FALSE, !.timeouts = 0]]
    BY <1>2 DEF TimerIdle
  <2>3. "freed" \in Lives \ {"open"} /\ FALSE \in BOOLEAN /\ 0 \in Nat
    BY DEF Lives
  <2> HIDE DEF a
  <2> QED BY <1>1, <2>1, <2>2, <2>3, PurgedStep, ZenonT(60)
<1>3. CASE s.life # "disconnected"
  <2> DEFINE t == [s EXCEPT !.timer = FALSE]
  <2>1. ep' = [ep EXCEPT ![e] = t]
    BY <1>3 DEF TimerIdle
  <2>2. t \in EpType
    BY <1>1, Zenon DEF EpType
  <2>3. Quiet(s, t)
    BY <1>1, SameIdsRefl DEF EpType, Quiet, CompSame, RxSame
  <2> HIDE DEF t
  <2> QED BY <1>1, <2>1, <2>2, <2>3, QuietStep, Zenon
<1> QED BY <1>2, <1>3

LEMMA TimeoutHandlerStep ==
    ASSUME IndInv, NEW e \in Eps, TimeoutHandler(e)
    PROVE  IndInv' /\ OkStep
<1> DEFINE s == ep[e]
           a == Purge(s, "TIMEOUT")
           l == IF a.life = "disconnected" THEN a.life ELSE "failed"
           k == s.timeouts - 1
<1>1. /\ s \in EpType /\ TxInv(s) /\ s.timeouts > 0
      /\ UNCHANGED <<net, flushes>>
    BY StartFacts DEF TimeoutHandler
<1>2. a \in EpType /\ TxInv(a) /\ PurgeStep(s, a)
    BY <1>1, PurgeFacts
<1>3. ep' = [ep EXCEPT ![e] = [a EXCEPT !.timeouts = k, !.life = l]]
    BY DEF TimeoutHandler
<1> HIDE DEF a
<1>4. k \in Nat
    BY <1>1, EpFields, SMTT(60)
<1>5. l \in Lives \ {"open"} /\ a.timer \in BOOLEAN
    BY <1>2, EpFields, SMTT(60) DEF Lives
<1> HIDE DEF l, k
<1>6. [a EXCEPT !.timeouts = k, !.life = l]
        = [a EXCEPT !.life = l, !.timer = a.timer, !.timeouts = k]
    BY <1>2, Zenon DEF EpType
<1>7. ep' = [ep EXCEPT ![e] =
                [a EXCEPT !.life = l, !.timer = a.timer, !.timeouts = k]]
    BY <1>3, <1>6, Zenon
<1> QED BY <1>1, <1>2, <1>4, <1>5, <1>7, PurgedStep, Zenon

LEMMA TimerLateStep ==
    ASSUME IndInv, NEW e \in Eps, NEW ticks \in Ticks, TimerLate(e, ticks)
    PROVE  IndInv' /\ OkStep
<1> DEFINE s == ep[e]
           t == AfterTicks(s, ticks)
<1>1. /\ s \in EpType /\ TxInv(s) /\ RxInv(s) /\ flushes \in [Eps -> Nat]
      /\ net \in [Eps -> SUBSET PacketType]
    BY StartFacts
<1>2. ep' = [ep EXCEPT ![e] = t] /\ net' = net /\ flushes' = flushes
    BY DEF TimerLate
<1>3. /\ t \in EpType /\ TxInv(t) /\ RxInv(t)
      /\ t.psn = s.psn /\ t.acked_psn = s.acked_psn
      /\ t.life = s.life /\ t.head_sn = s.head_sn /\ CompSame(s, t)
    BY <1>1, AfterTicksFacts, ZenonT(60)
<1> HIDE DEF t
<1>4. t.comps = s.comps
    BY <1>3 DEF CompSame
<1> QED BY <1>1, <1>2, <1>3, <1>4, SteadyStep, ZenonT(60)

LEMMA TimerExpiredStep ==
    ASSUME IndInv, NEW e \in Eps, NEW ticks \in Ticks, TimerExpired(e, ticks)
    PROVE  IndInv' /\ OkStep
<1> DEFINE s == ep[e]
           a == AfterTicks(s, ticks)
           k == s.timeouts + 1
           t == [a EXCEPT !.timer = FALSE, !.timeouts = k]
<1>1. /\ s \in EpType /\ TxInv(s) /\ RxInv(s) /\ flushes \in [Eps -> Nat]
      /\ net \in [Eps -> SUBSET PacketType]
    BY StartFacts
<1>2. ep' = [ep EXCEPT ![e] = t] /\ net' = net /\ flushes' = flushes
    BY SMTT(60) DEF TimerExpired
<1>3. /\ a \in EpType /\ TxInv(a) /\ RxInv(a)
      /\ a.psn = s.psn /\ a.acked_psn = s.acked_psn
      /\ a.life = s.life /\ a.head_sn = s.head_sn /\ CompSame(s, a)
    BY <1>1, AfterTicksFacts, ZenonT(60)
<1> HIDE DEF a
<1>4. k \in Nat
    BY <1>1, EpFields
<1> HIDE DEF k
<1>5. t \in EpType
    BY <1>3, <1>4, ZenonT(60) DEF EpType
<1>6. Quiet(a, t)
    BY <1>3, SameIdsRefl, ZenonT(60) DEF EpType, Quiet, CompSame, RxSame
<1> HIDE DEF t
<1>7. TxInv(t) /\ RxInv(t)
    BY <1>3, <1>5, <1>6, QuietKeepsTx, QuietKeepsRx, SMTT(60) DEF Quiet
<1>8. /\ t.psn = s.psn /\ t.acked_psn = s.acked_psn /\ t.life = s.life
      /\ t.head_sn = s.head_sn /\ t.comps = s.comps
    BY <1>3, <1>6, Zenon DEF Quiet, CompSame, RxSame
<1> QED BY <1>1, <1>2, <1>5, <1>7, <1>8, SteadyStep, ZenonT(60)

-----------------------------------------------------------------------------
(* The theorems. *)

\* Every step keeps the invariant and reports only what has been received.
LEMMA NextInv ==
    ASSUME IndInv, [Next]_vars
    PROVE  IndInv' /\ OkStep
<1>1. CASE UNCHANGED vars
    BY <1>1, StutterInv, SMTT(60)
<1>2. CASE Next
  <2>1. Threads \subseteq BOOLEAN
    BY UdReliableAssumption, SMTT(60)
  <2>2. PICK e \in Eps :
            \/ UserStep(e) \/ Poll(e) \/ Timer(e) \/ TimeoutHandler(e)
            \/ \E n \in 0..Len(ep[e].pending_q) : Dispatch(e, n)
            \/ DoPendingCtl(e)
            \/ \E p \in net[e] : Lose(e, p)
    BY <1>2 DEF Next
  <2>3. CASE UserStep(e)
    BY <2>3, SendStep, FlushStep, FlushCancelStep, DisconnectStep,
       InvalidateStep, ZenonT(60) DEF UserStep
  <2>4. CASE Poll(e)
    <3>1. ASSUME NEW p \in net[e], NEW is_async \in Threads,
                 NEW keep \in BOOLEAN, Receive(e, p, is_async, keep)
          PROVE  IndInv' /\ OkStep
        BY <2>1, <3>1, ReceiveStep, SMTT(60)
    <3>2. ASSUME NEW i \in DOMAIN ep[e].outstanding, NEW is_async \in Threads,
                 SendCompletion(e, i, is_async)
          PROVE  IndInv' /\ OkStep
        BY <2>1, <3>2, SendCompletionStep
    <3> QED BY <2>4, <3>1, <3>2, SMTT(60) DEF Poll
  <2>5. CASE Timer(e)
    BY <2>5, TimerIdleStep, TimerLateStep, TimerExpiredStep, ZenonT(60)
       DEF Timer
  <2>6. CASE TimeoutHandler(e)
    BY <2>6, TimeoutHandlerStep
  <2>7. CASE \E n \in 0..Len(ep[e].pending_q) : Dispatch(e, n)
    BY <2>7, DispatchStep
  <2>8. CASE DoPendingCtl(e)
    BY <2>8, ResendStep, CtlAckSendStep, SMTT(60) DEF DoPendingCtl
  <2>9. CASE \E p \in net[e] : Lose(e, p)
    BY <2>9, LoseStep
  <2> QED BY <2>2, <2>3, <2>4, <2>5, <2>6, <2>7, <2>8, <2>9, SMTT(60)
<1> QED BY <1>1, <1>2

\* The inductive invariant holds in every reachable state: the bookkeeping of
\* uct_ud_ep_process_ack, uct_ud_ep_process_rx, uct_ud_ep_ca_drop and
\* uct_ud_ep_purge never lets the two ends of a connection disagree.
THEOREM Consistent == Spec => []IndInv
<1>1. IndInv /\ [Next]_vars => IndInv'
    BY NextInv
<1> QED BY <1>1, InitInv, PTL DEF Spec

\* Types; the congestion window stays within [MinWindow, MaxWindow] under any
\* sequence of uct_ud_ep_ca_ack and uct_ud_ep_ca_drop.
THEOREM TypeCorrect == Spec => []TypeOK
<1>1. IndInv => TypeOK
    BY DEF IndInv
<1> QED BY <1>1, Consistent, PTL

\* The messages of the peer are handed over in order, exactly once, for every
\* window and every psn space larger than four windows, whichever thread
\* receives them (uct_ud_ep_process_rx).
THEOREM OrderedDelivery == Spec => []InOrderDelivery
BY InvOrder, Consistent, PTL

\* No endpoint believes in an acknowledgement for something that its peer has
\* not received (uct_ud_ep_process_ack).
THEOREM AcksAreTrue == Spec => []AckedWasReceived
<1>1. IndInv => AckedWasReceived
    BY SMTT(60) DEF IndInv, AckedWasReceived, LinkInv
<1> QED BY <1>1, Consistent, PTL

\* Every unacknowledged message can be retransmitted, and at most a window of
\* them is in flight (uct_ud_ep_window_release, uct_ud_ep_ca_drop).
THEOREM WindowComplete == Spec => []WindowHoldsUnacked
BY InvWindow, Consistent, PTL

\* A completion with UCS_OK is about messages the peer has received
\* (uct_ud_ep_window_release, uct_ud_iface_dispatch_async_comps_do,
\* uct_ud_ep_purge after a peer timeout).
THEOREM OkCompletions == Spec => OkMeansReceived
<1>1. IndInv /\ [Next]_vars
      => [\A e \in Eps :
            /\ ep[e].life = "open"
            /\ ep'[e].life \in {"open", "failed"}
            => \A c \in ep'[e].comps \ ep[e].comps :
                  c.status = "OK" => c.psn <= ep[Peer(e)].head_sn]_vars
    BY NextInv DEF OkStep, NewCompsOk
<1> QED BY <1>1, Consistent, PTL DEF Spec, OkMeansReceived

=============================================================================
