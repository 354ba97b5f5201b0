--------------------------- MODULE UdChannelSteps ----------------------------
(***************************************************************************)
(* The steps of two UD endpoints, as the users of the channels between them *)
(* see them: a step sends a message, takes one, hands some over, or does    *)
(* nothing that they see.                                                   *)
(***************************************************************************)
EXTENDS UdChannel, UdSteps

-----------------------------------------------------------------------------
(* The endpoint, and its operations that the channel does not see. *)

\* What the channel sees of an endpoint.
Seen == {"psn", "head_sn", "delivered"}

\* t shows the users of the channel what s showed them.
Kept(s, t) ==
    /\ DOMAIN t = DOMAIN s
    /\ t.psn = s.psn /\ t.head_sn = s.head_sn /\ t.delivered = s.delivered

-----------------------------------------------------------------------------
(* Operators of an endpoint that the channel does not see. *)

LEMMA KeptTrans ==
    ASSUME NEW s, NEW t, NEW u, Kept(s, t), Kept(t, u)
    PROVE  Kept(s, u)
BY DEF Kept

LEMMA EpSeen ==
    ASSUME NEW s \in EpType
    PROVE  Seen \subseteq DOMAIN s
BY DEF EpType, Seen

LEMMA SmallKept ==
    ASSUME NEW s, Seen \subseteq DOMAIN s, NEW op
    PROVE  /\ Kept(s, CtlOpAdd(s, op)) /\ Kept(s, ResetMaxPsn(s))
           /\ Kept(s, CaDrop(s)) /\ Kept(s, CaAck(s)) /\ Kept(s, ResendStart(s))
           /\ Kept(s, ResendEnd(s)) /\ Kept(s, DispatchAsyncComps(s))
           /\ Kept(s, SendAck(s)) /\ Kept(s, CancelAcks(s))
BY DEF Seen, Kept, CtlOpAdd, ResetMaxPsn, CaDrop, CaAck, ResendStart, ResendEnd,
       DispatchAsyncComps, SendAck, CancelAcks

LEMMA ReleaseKept ==
    ASSUME NEW s, Seen \subseteq DOMAIN s, NEW status, NEW async, NEW inval
    PROVE  Kept(s, WindowRelease(s, status, async, inval))
BY DEF Seen, Kept, WindowRelease

LEMMA ResendAckKept ==
    ASSUME NEW s, Seen \subseteq DOMAIN s
    PROVE  Kept(s, ResendAck(s))
<1> DEFINE u == [s EXCEPT !.resend_psn = s.resend_max + 1]
<1>1. CASE PsnLt(s.resend_max, s.resend_psn)
    BY <1>1 DEF ResendAck, Kept
<1>2. CASE ~PsnLt(s.resend_max, s.resend_psn) /\ PsnLt(s.acked_psn, s.resend_max)
    BY <1>2, Zenon DEF ResendAck, Kept, Seen
<1>3. CASE ~PsnLt(s.resend_max, s.resend_psn) /\ ~PsnLt(s.acked_psn, s.resend_max)
  <2>1. ResendAck(s) = ResendEnd(u)
    BY <1>3 DEF ResendAck
  <2>2. Kept(s, u) /\ Seen \subseteq DOMAIN u
    BY Zenon DEF Kept, Seen
  <2> HIDE DEF u
  <2>3. Kept(u, ResendEnd(u))
    BY <2>2, SmallKept
  <2> QED BY <2>1, <2>2, <2>3, KeptTrans
<1> QED BY <1>1, <1>2, <1>3

LEMMA ProcessAckKept ==
    ASSUME NEW s, Seen \subseteq DOMAIN s, NEW ack, NEW async
    PROVE  Kept(s, ProcessAck(s, ack, async))
<1> DEFINE u == [s EXCEPT !.acked_psn = ack]
           v == WindowRelease(u, "OK", async, FALSE)
           w == CaAck(v)
<1>1. \/ ProcessAck(s, ack, async) = s
      \/ ProcessAck(s, ack, async) = ResendAck(w)
    BY Zenon DEF ProcessAck
<1>2. Kept(s, s)
    BY DEF Kept
<1>3. Kept(s, u) /\ Seen \subseteq DOMAIN u
    BY Zenon DEF Kept, Seen
<1> HIDE DEF u
<1>4. Kept(u, v)
    BY <1>3, ReleaseKept
<1>5. Seen \subseteq DOMAIN v
    BY <1>3, <1>4 DEF Kept
<1> HIDE DEF v
<1>6. Kept(v, w) /\ Seen \subseteq DOMAIN w
    BY <1>5, SmallKept, Zenon DEF Kept
<1> HIDE DEF w
<1>7. Kept(w, ResendAck(w))
    BY <1>6, ResendAckKept
<1>8. Kept(s, ResendAck(w))
    BY <1>3, <1>4, <1>6, <1>7, KeptTrans, Zenon
<1> QED BY <1>1, <1>2, <1>8, Zenon

LEMMA CtlSkbCompleteKept ==
    ASSUME NEW s, Seen \subseteq DOMAIN s, NEW d, NEW async
    PROVE  Kept(s, CtlSkbComplete(s, d, async))
<1> DEFINE u == [s EXCEPT !.window = ClearResending(@, {d}),
                          !.resend_count = IF d = AckDesc THEN @ ELSE @ - 1]
<1>1. CtlSkbComplete(s, d, async) = WindowRelease(u, "OK", async, TRUE)
    BY DEF CtlSkbComplete
<1>2. Kept(s, u) /\ Seen \subseteq DOMAIN u
    BY Zenon DEF Kept, Seen
<1> HIDE DEF u
<1> QED BY <1>1, <1>2, ReleaseKept, KeptTrans, Zenon

LEMMA PurgeKept ==
    ASSUME NEW s, Seen \subseteq DOMAIN s, NEW status
    PROVE  Kept(s, Purge(s, status))
<1> DEFINE a == DispatchAsyncComps(s)
           b == ResetMaxPsn(a)
           resent == SelectSeq(b.outstanding, IsResend)
           u == [b EXCEPT !.window = ClearResending(@, {resent[i] : i \in DOMAIN resent}),
                          !.resend_count = @ - Len(resent),
                          !.outstanding = << >>]
           c == PurgeOutstanding(b)
           d == [c EXCEPT !.ops = {}, !.acked_psn = s.psn - 1]
<1>1. Purge(s, status) = WindowRelease(d, status, FALSE, FALSE)
    BY DEF Purge
<1>2. Kept(s, a) /\ Seen \subseteq DOMAIN a
    BY SmallKept, Zenon DEF Kept
<1> HIDE DEF a
<1>3. Kept(a, b) /\ Seen \subseteq DOMAIN b
    BY <1>2, SmallKept, Zenon DEF Kept
<1> HIDE DEF b
<1>4. c = b \/ c = WindowRelease(u, "OK", FALSE, TRUE)
    BY Zenon DEF PurgeOutstanding
<1>5. Kept(b, u) /\ Seen \subseteq DOMAIN u
    BY <1>3, Zenon DEF Kept, Seen
<1> HIDE DEF u, c
<1>6. Kept(b, WindowRelease(u, "OK", FALSE, TRUE))
    BY <1>5, ReleaseKept, KeptTrans, Zenon
<1>7. Kept(b, c) /\ Seen \subseteq DOMAIN c
    BY <1>3, <1>4, <1>6, Zenon DEF Kept
<1>8. Kept(c, d) /\ Seen \subseteq DOMAIN d
    BY <1>7, Zenon DEF Kept, Seen
<1> HIDE DEF d
<1>9. Kept(d, WindowRelease(d, status, FALSE, FALSE))
    BY <1>8, ReleaseKept
<1> QED BY <1>1, <1>2, <1>3, <1>7, <1>8, <1>9, KeptTrans, Zenon

LEMMA ResendKept ==
    ASSUME NEW s, Seen \subseteq DOMAIN s, NEW i
    PROVE  Kept(s, ResendSkip(s, i)) /\ Kept(s, ResendSkb(s, i))
<1> DEFINE skb == s.window[i]
           last == PsnEq(skb.psn, s.resend_max)
           u == [s EXCEPT !.resend_pos = Id(skb),
                          !.window[i].resending = TRUE,
                          !.resend_psn = IF last THEN s.resend_max + 1
                                                 ELSE skb.psn,
                          !.outstanding = Append(@, Id(skb)),
                          !.resend_count = @ + 1]
<1>1. Kept(s, ResendSkip(s, i))
    BY Zenon DEF ResendSkip, Kept, Seen
<1>2. ResendSkb(s, i) = u \/ ResendSkb(s, i) = ResendEnd(u)
    BY Zenon DEF ResendSkb
<1>3. Kept(s, u) /\ Seen \subseteq DOMAIN u
    BY Zenon DEF Kept, Seen
<1> HIDE DEF u
<1>4. Kept(u, ResendEnd(u))
    BY <1>3, SmallKept
<1>5. Kept(s, ResendEnd(u))
    BY <1>3, <1>4, KeptTrans
<1> QED BY <1>1, <1>2, <1>3, <1>5, Zenon

LEMMA FlushKept ==
    ASSUME NEW s, Seen \subseteq DOMAIN s, NEW n
    PROVE  Kept(s, CompSkbAdd(s, n)) /\ Kept(s, FlushDone(s, n))
BY Zenon DEF CompSkbAdd, FlushDone, Kept, Seen

LEMMA AckReqDoKept ==
    ASSUME NEW s, Seen \subseteq DOMAIN s
    PROVE  Kept(s, AckReqDo(s))
<1> DEFINE u == CtlOpAdd(s, "ACK_REQ")
<1>1. AckReqDo(s) = u \/ AckReqDo(s) = SendAck(u)
    BY Zenon DEF AckReqDo
<1>2. Kept(s, u)
    BY SmallKept
<1>3. Seen \subseteq DOMAIN u
    BY <1>2 DEF Kept
<1> HIDE DEF u
<1>4. Kept(u, SendAck(u))
    BY <1>3, SmallKept
<1>5. Kept(s, SendAck(u))
    BY <1>2, <1>4, KeptTrans
<1> QED BY <1>1, <1>2, <1>5, Zenon

LEMMA AfterTicksKept ==
    ASSUME NEW s, Seen \subseteq DOMAIN s, NEW ticks
    PROVE  Kept(s, AfterTicks(s, ticks))
<1> DEFINE c == CaDrop(s)
           r == ResendStart(c)
           d == IF ticks > 3 THEN r ELSE s
           x == CtlOpAdd(d, "ACK_REQ")
<1>1. AfterTicks(s, ticks) = s \/ AfterTicks(s, ticks) = x
    BY Zenon DEF AfterTicks
<1>2. Kept(s, s)
    BY DEF Kept
<1>3. Kept(s, c)
    BY SmallKept
<1>4. Seen \subseteq DOMAIN c
    BY <1>3 DEF Kept
<1> HIDE DEF c
<1>5. Kept(c, r)
    BY <1>4, SmallKept
<1>6. Kept(s, r)
    BY <1>3, <1>5, KeptTrans
<1> HIDE DEF r
<1>7. Kept(s, d)
    BY <1>2, <1>6, Zenon
<1>8. Seen \subseteq DOMAIN d
    BY <1>7 DEF Kept
<1> HIDE DEF d
<1>9. Kept(d, x)
    BY <1>8, SmallKept
<1> HIDE DEF x
<1>10. Kept(s, x)
    BY <1>7, <1>9, KeptTrans
<1> QED BY <1>1, <1>2, <1>10, Zenon

\* A packet shows itself only when its message is the next one.
LEMMA ProcessRxSeen ==
    ASSUME NEW s, Seen \cup {"pending_q"} \subseteq DOMAIN s, NEW p, NEW async
    PROVE  LET t == ProcessRx(s, p, async)
           IN  \/ Kept(s, t)
               \/ /\ p.am /\ PsnEq(p.psn, s.head_sn + 1)
                  /\ t.psn = s.psn /\ t.head_sn = p.psn
                  /\ t.delivered = IF async THEN s.delivered
                                   ELSE Append(s.delivered, p.psn)
<1> DEFINE a == ProcessAck(s, p.ack, async)
           o == IF p.ackreq THEN {"ACK"} ELSE {}
           k == IF PsnLt(s.head_sn + 1, p.psn) THEN {"NACK"} ELSE {}
           r == [a EXCEPT !.ops = @ \cup o \cup k]
           n == [r EXCEPT !.tx_nacked = @ \/ p.nack]
           d == Deliver(r, p.psn, async)
           t == ProcessRx(s, p, async)
<1>1. t = IF ~p.am THEN n
          ELSE IF FragListInsert(r, p.psn) = "FAST" THEN d ELSE r
    BY DEF ProcessRx
<1>2. Seen \subseteq DOMAIN s
    OBVIOUS
<1>3. Kept(s, a)
    BY <1>2, ProcessAckKept
<1>4. Seen \subseteq DOMAIN a
    BY <1>2, <1>3 DEF Kept
<1> HIDE DEF a
<1>5. Kept(a, r)
    BY <1>4, Zenon DEF Kept, Seen
<1>6. Kept(s, r)
    BY <1>3, <1>5, KeptTrans
<1>7. Seen \subseteq DOMAIN r
    BY <1>2, <1>6 DEF Kept
<1> HIDE DEF r
<1>8. Kept(r, n)
    BY <1>7, Zenon DEF Kept, Seen
<1>9. Kept(s, n)
    BY <1>6, <1>8, KeptTrans
<1> HIDE DEF n
<1>10. CASE p.am /\ FragListInsert(r, p.psn) = "FAST"
  <2>1. PsnEq(p.psn, r.head_sn + 1)
    BY <1>10 DEF FragListInsert
  <2>2. /\ d.psn = r.psn /\ d.head_sn = p.psn
        /\ d.delivered = IF async THEN r.delivered
                         ELSE Append(r.delivered, p.psn)
    BY <1>7, Zenon DEF Deliver, Seen
  <2> QED BY <1>1, <1>6, <1>10, <2>1, <2>2, Zenon DEF Kept
<1> QED BY <1>1, <1>6, <1>9, <1>10, Zenon

-----------------------------------------------------------------------------
(* Steps of the two endpoints that the channel does not see. *)

\* Nothing changes for the users of either endpoint.
Unseen == \A f \in Eps : Kept(ep[f], ep'[f])

LEMMA EpsSeen ==
    ASSUME IndInv, NEW e \in Eps
    PROVE  ep[e] \in EpType /\ Seen \subseteq DOMAIN ep[e]
BY StartFacts, EpSeen

LEMMA UnseenStep ==
    ASSUME IndInv, NEW e \in Eps, NEW t, Kept(ep[e], t),
           ep' = [ep EXCEPT ![e] = t]
    PROVE  Unseen
<1>1. ep \in [Eps -> EpType]
    BY DEF IndInv, TypeOK
<1>2. ASSUME NEW f \in Eps PROVE Kept(ep[f], ep'[f])
  <2>1. CASE f = e
    BY <2>1, <1>1
  <2>2. CASE f # e
    BY <2>2, <1>1 DEF Kept
  <2> QED BY <2>1, <2>2
<1> QED BY <1>2 DEF Unseen

LEMMA SameUnseen ==
    ASSUME ep' = ep
    PROVE  Unseen
BY DEF Unseen, Kept

\* A new life, timer or count of timeouts.
LEMMA LifeKept ==
    ASSUME NEW s, NEW t, Kept(s, t), Seen \subseteq DOMAIN s, NEW l, NEW b, NEW k
    PROVE  /\ Kept(s, [t EXCEPT !.life = l])
           /\ Kept(s, [t EXCEPT !.timeouts = k])
           /\ Kept(s, [t EXCEPT !.timer = b])
           /\ Kept(s, [t EXCEPT !.life = l, !.timer = b])
           /\ Kept(s, [t EXCEPT !.timer = b, !.timeouts = k])
           /\ Kept(s, [t EXCEPT !.timeouts = k, !.life = l])
           /\ Kept(s, [t EXCEPT !.life = l, !.timer = b, !.timeouts = k])
<1>1. Seen \subseteq DOMAIN t
    BY DEF Kept
<1> QED BY <1>1, Zenon DEF Kept, Seen

LEMMA FlushUnseen ==
    ASSUME IndInv, NEW e \in Eps, Flush(e)
    PROVE  Unseen
<1> DEFINE s == ep[e]
           n == flushes[e] + 1
           last == Len(s.window)
           ask == ~IsLastAckReceived(s) /\ ~s.window[last].ackreq
           a == AckReqDo(s)
           b == [a EXCEPT !.window[last].ackreq = TRUE]
           c == [s EXCEPT !.ops = @ \ {"ACK_REQ"}]
           asked == IF ask THEN b ELSE IF IsLastAckReceived(s) THEN c ELSE s
<1>1. \/ ep' = [ep EXCEPT ![e] = FlushDone(s, n)]
      \/ ep' = [ep EXCEPT ![e] = CompSkbAdd(asked, n)]
    BY Zenon DEF Flush
<1>2. Seen \subseteq DOMAIN s
    BY EpsSeen
<1> HIDE DEF s
<1>3. Kept(s, a)
    BY <1>2, AckReqDoKept
<1>4. Seen \subseteq DOMAIN a
    BY <1>2, <1>3 DEF Kept
<1> HIDE DEF a
<1>5. Kept(a, b)
    BY <1>4, Zenon DEF Kept, Seen
<1>6. Kept(s, b)
    BY <1>3, <1>5, KeptTrans
<1>7. Kept(s, c) /\ Kept(s, s)
    BY <1>2, Zenon DEF Kept, Seen
<1> HIDE DEF b, c
<1>8. Kept(s, asked)
    BY <1>6, <1>7, Zenon
<1>9. Seen \subseteq DOMAIN asked
    BY <1>2, <1>8 DEF Kept
<1> HIDE DEF asked, n
<1>10. Kept(asked, CompSkbAdd(asked, n)) /\ Kept(s, FlushDone(s, n))
    BY <1>2, <1>9, FlushKept
<1>11. Kept(s, CompSkbAdd(asked, n))
    BY <1>8, <1>10, KeptTrans
<1> USE DEF s
<1> QED BY <1>1, <1>10, <1>11, UnseenStep

LEMMA CancelUnseen ==
    ASSUME IndInv, NEW e \in Eps, FlushCancel(e) \/ Disconnect(e)
    PROVE  Unseen
<1> DEFINE o == ep[e]
           s == CancelAcks(o)
           n == flushes[e] + 1
           a == AckReqDo(s)
           x == CompSkbAdd(a, n)
           y == FlushDone(s, n)
           ask == CanTx(s) /\ ~FlushIdle(s)
           d == IF ask THEN a ELSE s
           z == Purge(d, "CANCELED")
<1>1. \/ ep' = [ep EXCEPT ![e] = [s EXCEPT !.life = "cancelling"]]
      \/ ep' = [ep EXCEPT ![e] = [y EXCEPT !.life = "cancelled"]]
      \/ ep' = [ep EXCEPT ![e] = [x EXCEPT !.life = "cancelled"]]
      \/ ep' = [ep EXCEPT ![e] = [z EXCEPT !.life = "disconnected",
                                          !.timer = TRUE]]
    BY Zenon DEF FlushCancel, Disconnect
<1>2. Seen \subseteq DOMAIN o
    BY EpsSeen
<1> HIDE DEF o
<1>3. Kept(o, s)
    BY <1>2, SmallKept
<1>4. Seen \subseteq DOMAIN s
    BY <1>2, <1>3 DEF Kept
<1> HIDE DEF s
<1>5. Kept(s, a)
    BY <1>4, AckReqDoKept
<1>6. Kept(o, a)
    BY <1>3, <1>5, KeptTrans
<1>7. Seen \subseteq DOMAIN a
    BY <1>2, <1>6 DEF Kept
<1> HIDE DEF a, n
<1>8. Kept(a, x) /\ Kept(s, y)
    BY <1>4, <1>7, FlushKept
<1> HIDE DEF x, y
<1>9. Kept(o, x)
    BY <1>6, <1>8, KeptTrans
<1>10. Kept(o, y)
    BY <1>3, <1>8, KeptTrans
<1>11. Kept(o, d)
    BY <1>3, <1>6, Zenon
<1>12. Seen \subseteq DOMAIN d
    BY <1>2, <1>11 DEF Kept
<1> HIDE DEF d
<1>13. Kept(d, z)
    BY <1>12, PurgeKept
<1> HIDE DEF z
<1>14. Kept(o, z)
    BY <1>11, <1>13, KeptTrans
<1>15. /\ Kept(o, [s EXCEPT !.life = "cancelling"])
       /\ Kept(o, [y EXCEPT !.life = "cancelled"])
       /\ Kept(o, [x EXCEPT !.life = "cancelled"])
       /\ Kept(o, [z EXCEPT !.life = "disconnected", !.timer = TRUE])
    BY <1>2, <1>3, <1>9, <1>10, <1>14, LifeKept, Zenon
<1> QED BY <1>1, <1>15, UnseenStep, Zenon DEF o

LEMMA CtlUnseen ==
    ASSUME IndInv, NEW e \in Eps, DoPendingCtl(e)
    PROVE  Unseen
<1> DEFINE s == ep[e]
<1>1. \/ ep' = [ep EXCEPT ![e] = ResendEnd(s)]
      \/ \E i : \/ ep' = [ep EXCEPT ![e] = ResendSkip(s, i)]
               \/ ep' = [ep EXCEPT ![e] = ResendSkb(s, i)]
      \/ ep' = [ep EXCEPT ![e] = SendAck(s)]
    BY Zenon DEF DoPendingCtl, Resend, CtlAckSend
<1>2. Seen \subseteq DOMAIN s
    BY EpsSeen
<1>3. Kept(s, ResendEnd(s)) /\ Kept(s, SendAck(s))
    BY <1>2, SmallKept
<1>4. \A i : Kept(s, ResendSkip(s, i)) /\ Kept(s, ResendSkb(s, i))
    BY <1>2, ResendKept
<1> QED BY <1>1, <1>3, <1>4, UnseenStep, Zenon

LEMMA CompletionUnseen ==
    ASSUME IndInv, NEW e \in Eps, NEW i, NEW async, SendCompletion(e, i, async)
    PROVE  Unseen
<1> DEFINE s == ep[e]
           u == [s EXCEPT !.outstanding = RemoveAt(@, i)]
           t == CtlSkbComplete(u, s.outstanding[i], async)
<1>1. ep' = [ep EXCEPT ![e] = t]
    BY DEF SendCompletion
<1>2. Seen \subseteq DOMAIN s
    BY EpsSeen
<1>3. Kept(s, u)
    BY <1>2, Zenon DEF Kept, Seen
<1>4. Seen \subseteq DOMAIN u
    BY <1>2, <1>3 DEF Kept
<1> HIDE DEF u
<1>5. Kept(u, t)
    BY <1>4, CtlSkbCompleteKept
<1> HIDE DEF t
<1>6. Kept(s, t)
    BY <1>3, <1>5, KeptTrans
<1> QED BY <1>1, <1>6, UnseenStep

LEMMA TimerUnseen ==
    ASSUME IndInv, NEW e \in Eps,
           Timer(e) \/ TimeoutHandler(e) \/ Invalidate(e)
    PROVE  Unseen
<1> DEFINE s == ep[e]
<1>1. Seen \subseteq DOMAIN s
    BY EpsSeen
<1>2. Kept(s, s)
    BY DEF Kept
<1>3. Kept(s, Purge(s, "CANCELED")) /\ Kept(s, Purge(s, "TIMEOUT"))
    BY <1>1, PurgeKept
<1>4. \A ticks : Kept(s, AfterTicks(s, ticks))
    BY <1>1, AfterTicksKept
<1>5. CASE TimerIdle(e)
  <2> DEFINE z == Purge(s, "CANCELED")
  <2>1. \/ ep' = [ep EXCEPT ![e] = [z EXCEPT !.life = "freed",
                                    !.timer = FALSE, !.timeouts = 0]]
        \/ ep' = [ep EXCEPT ![e] = [s EXCEPT !.timer = FALSE]]
    BY <1>5, Zenon DEF TimerIdle
  <2> HIDE DEF z
  <2>2. Kept(s, [z EXCEPT !.life = "freed", !.timer = FALSE, !.timeouts = 0])
    BY <1>1, <1>3, LifeKept, Zenon DEF z
  <2>3. Kept(s, [s EXCEPT !.timer = FALSE])
    BY <1>1, <1>2, LifeKept, Zenon
  <2> QED BY <2>1, <2>2, <2>3, UnseenStep, Zenon
<1>6. ASSUME NEW ticks, TimerLate(e, ticks) PROVE Unseen
  <2>1. ep' = [ep EXCEPT ![e] = AfterTicks(s, ticks)]
    BY <1>6, Zenon DEF TimerLate
  <2> QED BY <2>1, <1>4, UnseenStep, Zenon
<1>7. ASSUME NEW ticks, TimerExpired(e, ticks) PROVE Unseen
  <2> DEFINE a == AfterTicks(s, ticks)
             t == [a EXCEPT !.timer = FALSE, !.timeouts = s.timeouts + 1]
  <2>1. ep' = [ep EXCEPT ![e] = t]
    BY <1>7, Zenon DEF TimerExpired
  <2>2. Kept(s, t)
    BY <1>1, <1>4, LifeKept, Zenon
  <2> QED BY <2>1, <2>2, UnseenStep, Zenon
<1>8. CASE TimeoutHandler(e)
  <2> DEFINE z == Purge(s, "TIMEOUT")
             t == [z EXCEPT !.timeouts = s.timeouts - 1,
                            !.life = IF z.life = "disconnected" THEN z.life
                                     ELSE "failed"]
  <2>1. ep' = [ep EXCEPT ![e] = t]
    BY <1>8, Zenon DEF TimeoutHandler
  <2>2. Kept(s, t)
    BY <1>1, <1>3, LifeKept, Zenon
  <2> QED BY <2>1, <2>2, UnseenStep, Zenon
<1>9. CASE Invalidate(e)
  <2> DEFINE t == [s EXCEPT !.timeouts = @ + 1]
  <2>1. ep' = [ep EXCEPT ![e] = t]
    BY <1>9, Zenon DEF Invalidate
  <2>2. Kept(s, t)
    BY <1>1, Zenon DEF Kept, Seen
  <2> QED BY <2>1, <2>2, UnseenStep, Zenon
<1> QED BY <1>5, <1>6, <1>7, <1>8, <1>9, Zenon DEF Timer

-----------------------------------------------------------------------------
(* Steps that the channel sees. *)

\* The state of the channels.
SentC == [e \in Eps |-> Number(ep[Peer(e)].psn - 1)]
TakenC == [e \in Eps |-> Number(ep[e].head_sn)]
HandledC == [e \in Eps |-> [i \in 1..Len(ep[e].delivered) |->
                               Number(ep[e].delivered[i])]]

Count(n) == [i \in 1..n |-> i]

LEMMA CountFacts ==
    ASSUME NEW d \in Nat, NEW n \in Nat
    PROVE  /\ Count(d) \in Seq(Nat) /\ Len(Count(d)) = d
           /\ Append(Count(d), d + 1) = Count(d + 1)
           /\ Count(d) \o [i \in 1..n |-> d + i] = Count(d + n)
<1>1. Count(d) \in Seq(Nat) /\ Len(Count(d)) = d
    BY DEF Count
<1>2. Append(Count(d), d + 1) = Count(d + 1)
    BY DEF Count
<1>3. Count(d) \o [i \in 1..n |-> d + i] = Count(d + n)
    BY DEF Count
<1> QED BY <1>1, <1>2, <1>3

\* The handlers have seen the first messages, by number.
HandledCounts == \A e \in Eps : HandledC[e] = Count(Len(ep[e].delivered))

LEMMA HandledCount == IndInv => HandledCounts
<1> SUFFICES ASSUME IndInv, NEW e \in Eps
             PROVE  HandledC[e] = Count(Len(ep[e].delivered))
    BY DEF HandledCounts
<1> DEFINE d == ep[e].delivered
<1>1. Run(d, InitialPsn) /\ InitialPsn \in Nat
    BY StartFacts, RxFacts, HalfFacts
<1> HIDE DEF d
<1>2. ASSUME NEW i \in 1..Len(d) PROVE Number(d[i]) = i
    BY <1>1, <1>2 DEF Run, Number
<1>3. [i \in 1..Len(d) |-> Number(d[i])] = [i \in 1..Len(d) |-> i]
    BY <1>2, Zenon
<1> QED BY <1>3, Zenon DEF HandledC, Count, d

LEMMA HandledCountNext == IndInv' => HandledCounts'
BY HandledCount, PTL

LEMMA UnseenStutters ==
    ASSUME Unseen
    PROVE  SentC' = SentC /\ TakenC' = TakenC /\ HandledC' = HandledC
<1>1. \A f \in Eps : /\ ep'[f].psn = ep[f].psn
                     /\ ep'[f].head_sn = ep[f].head_sn
                     /\ ep'[f].delivered = ep[f].delivered
    BY DEF Unseen, Kept
<1>2. \A f \in Eps : Peer(f) \in Eps
    BY PeerFacts
<1> QED BY <1>1, <1>2, Zenon DEF SentC, TakenC, HandledC

LEMMA SendSeen ==
    ASSUME IndInv, NEW e \in Eps, NEW kind, Send(e, kind)
    PROVE  Channel!Send(Peer(e))
<1> DEFINE s == ep[e]
           g == Peer(e)
<1>1. PICK skb : ep' = [ep EXCEPT ![e] = SendAm(s, skb)]
    BY Zenon DEF Send
<1>2. ep \in [Eps -> EpType] /\ Seen \subseteq DOMAIN s /\ s \in EpType
    BY EpsSeen DEF IndInv, TypeOK
<1>3. /\ SendAm(s, skb).psn = s.psn + 1
      /\ SendAm(s, skb).head_sn = s.head_sn
      /\ SendAm(s, skb).delivered = s.delivered
    BY <1>2, Zenon DEF SendAm, Seen
<1>4. /\ g \in Eps /\ Peer(g) = e
      /\ \A f \in Eps : Peer(f) \in Eps /\ (f # g => Peer(f) # e)
    BY PeerFacts
<1>5. /\ ep'[e].psn = s.psn + 1
      /\ \A f \in Eps : /\ f # e => ep'[f].psn = ep[f].psn
                        /\ ep'[f].head_sn = ep[f].head_sn
                        /\ ep'[f].delivered = ep[f].delivered
  <2>1. ep'[e] = SendAm(s, skb) /\ \A f \in Eps : f # e => ep'[f] = ep[f]
    BY <1>1, <1>2, Zenon
  <2> QED BY <2>1, <1>3, Zenon
<1>6. TakenC' = TakenC /\ HandledC' = HandledC
  <2>1. \A f \in Eps : ep'[f].head_sn = ep[f].head_sn
    BY <1>5, Zenon
  <2>2. \A f \in Eps : ep'[f].delivered = ep[f].delivered
    BY <1>5, Zenon
  <2>3. TakenC' = TakenC
    BY <2>1, Zenon DEF TakenC
  <2>4. HandledC' = HandledC
    BY <2>2, Zenon DEF HandledC
  <2> QED BY <2>3, <2>4
<1>7. Number((s.psn + 1) - 1) = Number(s.psn - 1) + 1
    BY <1>2, EpFields, HalfFacts DEF Number
<1>8. SentC' = [SentC EXCEPT ![g] = @ + 1]
  <2>1. ASSUME NEW f \in Eps
        PROVE  SentC'[f] = [SentC EXCEPT ![g] = @ + 1][f]
    <3>1. SentC'[f] = Number(ep'[Peer(f)].psn - 1)
        BY DEF SentC
    <3>2. SentC[f] = Number(ep[Peer(f)].psn - 1)
        BY DEF SentC
    <3>3. CASE f = g
      <4>1. [SentC EXCEPT ![g] = @ + 1][f] = SentC[f] + 1
        BY <3>3, <1>4 DEF SentC
      <4>2. ep'[Peer(f)].psn = s.psn + 1 /\ ep[Peer(f)] = s
        BY <3>3, <1>4, <1>5, Zenon
      <4>3. SentC'[f] = Number((s.psn + 1) - 1)
        BY <3>1, <4>2
      <4>4. SentC[f] = Number(s.psn - 1)
        BY <3>2, <4>2
      <4> QED BY <4>1, <4>3, <4>4, <1>7, Zenon
    <3>4. CASE f # g
      <4>1. [SentC EXCEPT ![g] = @ + 1][f] = SentC[f]
        BY <3>4, <1>4 DEF SentC
      <4>2. ep'[Peer(f)].psn = ep[Peer(f)].psn
        BY <3>4, <1>4, <1>5, Zenon
      <4> QED BY <3>1, <3>2, <4>1, <4>2, Zenon
    <3> QED BY <3>3, <3>4
  <2> QED BY <2>1 DEF SentC
<1> QED BY <1>6, <1>8, Zenon DEF Channel!Send, SentC, TakenC, HandledC

LEMMA ReceiveSeen ==
    ASSUME IndInv, IndInv', NEW e \in Eps, NEW p \in net[e],
           NEW async \in BOOLEAN, NEW keep, Receive(e, p, async, keep)
    PROVE  Unseen \/ Channel!Take(e, ~async)
<1> DEFINE s == ep[e]
           r == ep[Peer(e)]
           t == ProcessRx(s, p, async)
           d == Len(s.delivered)
<1>1. /\ s \in EpType /\ r \in EpType /\ RxInv(s)
      /\ LinkInv(s, r) /\ LinkInv(r, s) /\ p \in PacketType /\ PacketInv(p, r)
    BY StartFacts
<1>2. /\ Fresh(s, p) /\ MayPoll(s, async)
      /\ ep' = IF s.life \in {"disconnected", "freed"} THEN ep
               ELSE [ep EXCEPT ![e] = t]
    BY DEF Receive
<1>3. CASE ep' = ep
    BY <1>3, SameUnseen
<1>4. CASE ep' = [ep EXCEPT ![e] = t] /\ Kept(s, t)
    BY <1>4, UnseenStep
<1>5. CASE /\ ep' = [ep EXCEPT ![e] = t]
           /\ p.am /\ PsnEq(p.psn, s.head_sn + 1)
           /\ t.psn = s.psn /\ t.head_sn = p.psn
           /\ t.delivered = IF async THEN s.delivered
                            ELSE Append(s.delivered, p.psn)
  <2> HIDE DEF t
  <2>1. /\ p.psn \in Nat /\ s.head_sn \in Nat /\ r.psn \in Nat
        /\ s.delivered \in Seq(Nat) /\ d \in Nat /\ InitialPsn \in Nat
        /\ p.psn < r.psn
        /\ p.psn - (s.head_sn + 1) < Half /\ (s.head_sn + 1) - p.psn < Half
    <3>1. /\ p.psn \in Nat /\ p.psn < r.psn
          /\ p.psn - (s.head_sn + 1) < Half /\ (s.head_sn + 1) - p.psn < Half
        BY <1>1, <1>2, <1>5, PacketInReach, ZenonT(60)
    <3>2. /\ s.head_sn \in Nat /\ r.psn \in Nat /\ s.delivered \in Seq(Nat)
          /\ InitialPsn \in Nat
        BY <1>1, EpFields, HalfFacts
    <3>3. d \in Nat
        BY <3>2
    <3> QED BY <3>1, <3>2, <3>3
  <2>2. p.psn = s.head_sn + 1
    BY <2>1, <1>5, PsnCompare
  <2>3. ep \in [Eps -> EpType]
    BY DEF IndInv, TypeOK
  <2>4. ep'[e] = t /\ \A f \in Eps : f # e => ep'[f] = ep[f]
    BY <1>5, <2>3, Zenon
  <2>5. SentC' = SentC
    <3>1. \A f \in Eps : ep'[f].psn = ep[f].psn /\ Peer(f) \in Eps
        BY <1>5, <2>4, PeerFacts, Zenon
    <3> QED BY <3>1, Zenon DEF SentC
  <2>6. TakenC[e] < SentC[e] /\ Number(p.psn) = Number(s.head_sn) + 1
    <3>1. TakenC[e] = Number(s.head_sn) /\ SentC[e] = Number(r.psn - 1)
        BY Zenon DEF TakenC, SentC
    <3> HIDE DEF s, r
    <3> QED BY <3>1, <2>1, <2>2 DEF Number
  <2>7. TakenC' = [TakenC EXCEPT ![e] = @ + 1]
    <3>1. ASSUME NEW f \in Eps
          PROVE  TakenC'[f] = [TakenC EXCEPT ![e] = @ + 1][f]
      <4>1. TakenC'[f] = Number(ep'[f].head_sn)
        BY DEF TakenC
      <4>2. TakenC[f] = Number(ep[f].head_sn)
        BY DEF TakenC
      <4>3. CASE f = e
        <5>1. [TakenC EXCEPT ![e] = @ + 1][f] = TakenC[f] + 1
            BY <4>3 DEF TakenC
        <5>2. TakenC'[f] = Number(p.psn)
            BY <4>1, <4>3, <2>4, <1>5, Zenon
        <5> QED BY <5>1, <5>2, <4>2, <4>3, <2>6, Zenon
      <4>4. CASE f # e
        <5>1. [TakenC EXCEPT ![e] = @ + 1][f] = TakenC[f]
            BY <4>4 DEF TakenC
        <5> QED BY <5>1, <4>1, <4>2, <4>4, <2>4, Zenon
      <4> QED BY <4>3, <4>4
    <3> QED BY <3>1 DEF TakenC
  <2>8. CASE async
    <3>1. \A f \in Eps : ep'[f].delivered = ep[f].delivered
        BY <2>8, <1>5, <2>4, Zenon
    <3>2. HandledC' = HandledC
        BY <3>1, Zenon DEF HandledC
    <3> QED BY <2>5, <2>6, <2>7, <2>8, <3>2, Zenon
            DEF Channel!Take, SentC, TakenC, HandledC
  <2>9. CASE ~async
    <3>1. d = TakenC[e]
      <4>1. s.pending_q = << >>
        BY <1>2, <2>9 DEF MayPoll
      <4>2. d + Len(s.pending_q) = s.head_sn - (InitialPsn - 1)
        BY <1>1, Zenon DEF RxInv
      <4>3. d = s.head_sn - (InitialPsn - 1)
        BY <4>1, <4>2, <2>1
      <4> QED BY <4>3, Zenon DEF TakenC, Number
    <3>2. HandledC[e] = Count(d)
        BY HandledCount DEF HandledCounts
    <3>3. HandledC'[e] = Count(Len(ep'[e].delivered))
        BY HandledCountNext DEF HandledCounts
    <3>4. Len(ep'[e].delivered) = d + 1
      <4>1. ep'[e].delivered = Append(s.delivered, p.psn)
        BY <2>9, <2>4, <1>5, Zenon
      <4>2. Len(Append(s.delivered, p.psn)) = Len(s.delivered) + 1
        BY <2>1
      <4> QED BY <4>1, <4>2, Zenon
    <3>5. /\ HandledC'[e] = Append(HandledC[e], TakenC[e] + 1)
          /\ Len(HandledC[e]) = TakenC[e]
      <4> HIDE DEF d
      <4> QED BY <3>1, <3>2, <3>3, <3>4, <2>1, CountFacts, Zenon
    <3>6. HandledC' = [HandledC EXCEPT ![e] = Append(@, TakenC[e] + 1)]
      <4>1. ASSUME NEW f \in Eps, f # e PROVE HandledC'[f] = HandledC[f]
        BY <4>1, <2>4, Zenon DEF HandledC
      <4> QED BY <3>5, <4>1, Zenon DEF HandledC
    <3> QED BY <2>5, <2>6, <2>7, <2>9, <3>5, <3>6, Zenon
            DEF Channel!Take, SentC, TakenC, HandledC
  <2> QED BY <2>8, <2>9
<1>6. \/ Kept(s, t)
      \/ /\ p.am /\ PsnEq(p.psn, s.head_sn + 1)
         /\ t.psn = s.psn /\ t.head_sn = p.psn
         /\ t.delivered = IF async THEN s.delivered
                          ELSE Append(s.delivered, p.psn)
  <2>1. Seen \cup {"pending_q"} \subseteq DOMAIN s
    BY <1>1 DEF EpType, Seen
  <2> HIDE DEF s
  <2> QED BY <2>1, ProcessRxSeen
<1> QED BY <1>2, <1>3, <1>4, <1>5, <1>6, Zenon

\* What the channel sees of a step.
ChannelSame == SentC' = SentC /\ TakenC' = TakenC /\ HandledC' = HandledC

LEMMA ConcatLen ==
    ASSUME NEW a \in Seq(Nat), NEW b \in Seq(Nat)
    PROVE  Len(a \o b) = Len(a) + Len(b)
OBVIOUS

LEMMA DispatchSeen ==
    ASSUME IndInv, IndInv', NEW e \in Eps, NEW n \in 0..Len(ep[e].pending_q),
           Dispatch(e, n)
    PROVE  \/ ChannelSame
           \/ \E k \in 1 .. TakenC[e] - Len(HandledC[e]) : Channel!HandOver(e, k)
<1> DEFINE s == ep[e]
           a == DispatchAsyncComps(s)
           t == DispatchPendingRx(a, n)
           d == Len(s.delivered)
           q == Len(s.pending_q)
<1>1. /\ s \in EpType /\ RxInv(s) /\ ep \in [Eps -> EpType]
    BY StartFacts DEF IndInv, TypeOK
<1>2. ep' = [ep EXCEPT ![e] = t]
    BY DEF Dispatch
<1>3. /\ s.delivered \in Seq(Nat) /\ s.pending_q \in Seq(Nat)
      /\ s.head_sn \in Nat /\ d \in Nat /\ q \in Nat /\ InitialPsn \in Nat
      /\ n \in Nat /\ n <= q
  <2>1. /\ s.delivered \in Seq(Nat) /\ s.pending_q \in Seq(Nat)
        /\ s.head_sn \in Nat /\ InitialPsn \in Nat
    BY <1>1, EpFields, HalfFacts
  <2>2. d \in Nat /\ q \in Nat
    BY <2>1
  <2> QED BY <2>1, <2>2
<1>4. /\ DOMAIN a = DOMAIN s /\ a.psn = s.psn /\ a.head_sn = s.head_sn
      /\ a.delivered = s.delivered /\ a.pending_q = s.pending_q
    BY <1>1 DEF DispatchAsyncComps, EpType
<1> HIDE DEF a
<1>5. /\ t.psn = s.psn /\ t.head_sn = s.head_sn
      /\ t.delivered = s.delivered \o SubSeq(s.pending_q, 1, n)
    BY <1>1, <1>4 DEF DispatchPendingRx, EpType
<1> HIDE DEF t
<1>6. ep'[e] = t /\ \A f \in Eps : f # e => ep'[f] = ep[f]
    BY <1>1, <1>2, Zenon
<1>7. SentC' = SentC /\ TakenC' = TakenC
  <2>1. \A f \in Eps : ep'[f].psn = ep[f].psn /\ Peer(f) \in Eps
    BY <1>5, <1>6, PeerFacts, Zenon
  <2>2. \A f \in Eps : ep'[f].head_sn = ep[f].head_sn
    BY <1>5, <1>6, Zenon
  <2>3. SentC' = SentC
    BY <2>1, Zenon DEF SentC
  <2>4. TakenC' = TakenC
    BY <2>2, Zenon DEF TakenC
  <2> QED BY <2>3, <2>4
<1>8. Len(ep'[e].delivered) = d + n
  <2> DEFINE x == s.pending_q
             h == SubSeq(x, 1, n)
             y == s.delivered
  <2> HIDE DEF x, y
  <2>1. x \in Seq(Nat) /\ n \in 0..Len(x) /\ y \in Seq(Nat) /\ Len(y) = d
    BY <1>3 DEF x, y
  <2>2. h \in Seq(Nat) /\ Len(h) = n
    BY <2>1
  <2> HIDE DEF h
  <2>3. Len(y \o h) = Len(y) + Len(h)
    BY <2>1, <2>2, ConcatLen, Zenon
  <2>4. ep'[e].delivered = y \o h
    BY <1>5, <1>6, Zenon DEF x, y, h
  <2> QED BY <2>1, <2>2, <2>3, <2>4, Zenon
<1>9. HandledC[e] = Count(d) /\ HandledC'[e] = Count(d + n)
  <2>1. HandledC[e] = Count(d)
    BY HandledCount DEF HandledCounts
  <2>2. HandledC'[e] = Count(Len(ep'[e].delivered))
    BY HandledCountNext DEF HandledCounts
  <2> QED BY <2>1, <2>2, <1>8, Zenon
<1>10. ASSUME NEW f \in Eps, f # e PROVE HandledC'[f] = HandledC[f]
    BY <1>6, <1>10, Zenon DEF HandledC
<1>11. Len(HandledC[e]) = d /\ TakenC[e] - d = q
  <2>1. d + q = s.head_sn - (InitialPsn - 1)
    BY <1>1, Zenon DEF RxInv
  <2>2. TakenC[e] = s.head_sn - (InitialPsn - 1)
    BY Zenon DEF TakenC, Number
  <2>3. Len(Count(d)) = d
    BY <1>3, CountFacts
  <2> HIDE DEF d, q, s
  <2> QED BY <2>1, <2>2, <2>3, <1>3, <1>9
<1>12. CASE n = 0
  <2>1. d + n = d
    BY <1>3, <1>12
  <2>2. HandledC'[e] = HandledC[e]
    BY <1>9, <2>1, Zenon
  <2>3. HandledC' = HandledC
    BY <2>2, <1>10, Zenon DEF HandledC
  <2> QED BY <1>7, <2>3 DEF ChannelSame
<1>13. CASE n # 0
  <2>1. n \in 1 .. TakenC[e] - Len(HandledC[e])
    <3> HIDE DEF d, q
    <3> QED BY <1>3, <1>11, <1>13
  <2> DEFINE h == [i \in 1..n |-> Len(HandledC[e]) + i]
  <2>2. HandledC'[e] = HandledC[e] \o h
    <3>1. h = [i \in 1..n |-> d + i]
        BY <1>11, Zenon
    <3>2. Count(d) \o [i \in 1..n |-> d + i] = Count(d + n)
        BY <1>3, CountFacts
    <3> QED BY <1>9, <3>1, <3>2, Zenon
  <2>3. HandledC' = [HandledC EXCEPT ![e] = @ \o h]
    <3> HIDE DEF h
    <3> QED BY <2>2, <1>10, Zenon DEF HandledC
  <2>4. Channel!HandOver(e, n)
    BY <2>3, <1>7, Zenon DEF Channel!HandOver, SentC, TakenC, HandledC
  <2> QED BY <2>1, <2>4, Zenon
<1> QED BY <1>12, <1>13

-----------------------------------------------------------------------------
(* Initial states and steps of the channel. *)

LEMMA ChannelInit ==
    ASSUME Init
    PROVE  Channel!Init
<1>1. \A e \in Eps : Peer(e) \in Eps
    BY PeerFacts
<1>2. \A e \in Eps : ep[e] = Reset
    BY DEF Init
<1>3. /\ Reset.psn = InitialPsn /\ Reset.head_sn = InitialPsn - 1
      /\ Reset.delivered = << >>
    BY DEF Reset
<1>4. Number(InitialPsn - 1) = 0 /\ InitialPsn \in Nat
    BY HalfFacts DEF Number
<1>5. SentC = [e \in Eps |-> 0]
    BY <1>1, <1>2, <1>3, <1>4, Zenon DEF SentC
<1>6. TakenC = [e \in Eps |-> 0]
    BY <1>2, <1>3, <1>4, Zenon DEF TakenC
<1>7. HandledC = [e \in Eps |-> << >>]
  <2>1. ASSUME NEW e \in Eps
        PROVE  [i \in 1..Len(ep[e].delivered) |-> Number(ep[e].delivered[i])]
               = << >>
    <3>1. ep[e].delivered = << >>
        BY <1>2, <1>3, Zenon
    <3>2. [i \in 1..Len(<< >>) |-> Number(<< >>[i])] = << >>
        OBVIOUS
    <3> QED BY <3>1, <3>2, Zenon
  <2> QED BY <2>1, Zenon DEF HandledC
<1> QED BY <1>5, <1>6, <1>7, Zenon DEF Channel!Init, SentC, TakenC, HandledC

LEMMA ChannelStep ==
    ASSUME IndInv, IndInv', [Next]_vars
    PROVE  [Channel!Next]_(Channel!channel)
<1>1. ChannelSame => UNCHANGED Channel!channel
    BY Zenon DEF ChannelSame, Channel!channel, SentC, TakenC, HandledC
<1>2. Unseen => ChannelSame
    BY UnseenStutters DEF ChannelSame
<1>3. SUFFICES \/ Unseen \/ ChannelSame \/ Channel!Next
    BY <1>1, <1>2, Zenon
<1>4. CASE UNCHANGED vars
    BY <1>4, SameUnseen DEF vars
<1>5. CASE Next
  <2>1. PICK e \in Eps :
            \/ UserStep(e) \/ Poll(e) \/ Timer(e) \/ TimeoutHandler(e)
            \/ \E n \in 0..Len(ep[e].pending_q) : Dispatch(e, n)
            \/ DoPendingCtl(e)
            \/ \E p \in net[e] : Lose(e, p)
    BY <1>5 DEF Next
  <2>2. ASSUME NEW kind, Send(e, kind) PROVE Channel!Next
    <3>1. Peer(e) \in Eps
        BY PeerFacts
    <3> QED BY <2>2, <3>1, SendSeen, Zenon DEF Channel!Next
  <2>3. CASE UserStep(e)
    BY <2>3, <2>2, FlushUnseen, CancelUnseen, TimerUnseen, ZenonT(60)
       DEF UserStep
  <2>4. ASSUME NEW p \in net[e], NEW async \in Threads, NEW keep \in BOOLEAN,
               Receive(e, p, async, keep)
        PROVE  Unseen \/ Channel!Next
    <3>1. async \in BOOLEAN /\ (~async) \in BOOLEAN
        BY UdReliableAssumption
    <3>2. Unseen \/ Channel!Take(e, ~async)
        BY <2>4, <3>1, ReceiveSeen, Zenon
    <3> QED BY <3>1, <3>2, Zenon DEF Channel!Next
  <2>5. CASE Poll(e)
    BY <2>5, <2>4, CompletionUnseen, ZenonT(60) DEF Poll
  <2>6. ASSUME NEW n \in 0..Len(ep[e].pending_q), Dispatch(e, n)
        PROVE  ChannelSame \/ Channel!Next
    <3>1. \/ ChannelSame
          \/ \E k \in 1 .. TakenC[e] - Len(HandledC[e]) : Channel!HandOver(e, k)
        BY <2>6, DispatchSeen, Zenon
    <3> QED BY <3>1, Zenon DEF Channel!Next, TakenC, HandledC
  <2>7. CASE Timer(e) \/ TimeoutHandler(e)
    BY <2>7, TimerUnseen
  <2>8. CASE DoPendingCtl(e)
    BY <2>8, CtlUnseen
  <2>9. CASE \E p \in net[e] : Lose(e, p)
    BY <2>9, SameUnseen, Zenon DEF Lose
  <2> QED BY <2>1, <2>3, <2>5, <2>6, <2>7, <2>8, <2>9, Zenon
<1> QED BY <1>4, <1>5

=============================================================================
