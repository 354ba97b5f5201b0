----------------------------- MODULE UdReliable -----------------------------
(***************************************************************************)
(* Two connected UD endpoints over a network that loses, duplicates and     *)
(* reorders packets (ud_ep.c, ud_iface.c).  Every action is one critical    *)
(* section under the interface lock (uct_ud_enter / uct_ud_leave): a send   *)
(* or a flush by the user, one packet or one send completion taken by       *)
(* either the main or the async thread, one expiry of the endpoint's timer, *)
(* one control operation picked by the arbiter.                             *)
(***************************************************************************)
EXTENDS UdEp

CONSTANTS
    EpA, EpB,       \* the two endpoints
    Kinds,          \* kinds of message the users send
    MsgBudget,      \* bound: messages sent by each endpoint
    FlushBudget,    \* bound: flushes started by each endpoint
    FailBudget,     \* bound: peer timeouts of each endpoint
    Closers,        \* endpoints whose user may cancel and destroy them
    NetCap,         \* bound: packets in flight to an endpoint, a full
                    \* network loses an older one
    TxQueueLen,     \* bound: control sends the send queue of the device holds
    Duplicates,     \* may the network duplicate packets?
    Threads,        \* threads that poll: TRUE for async, FALSE for main
    OrderedSendComp \* device reports send completions in order

Eps == {EpA, EpB}

ASSUME UdReliableAssumption ==
    /\ EpA # EpB
    /\ Kinds \subseteq {"short", "bcopy", "zcopy"}
    /\ MsgBudget \in [Eps -> Nat] /\ FlushBudget \in [Eps -> Nat]
    /\ FailBudget \in [Eps -> Nat] /\ Closers \subseteq Eps
    /\ NetCap \in Nat \ {0} /\ TxQueueLen \in Nat \ {0}
    /\ Threads \subseteq BOOLEAN /\ Duplicates \in BOOLEAN
    /\ OrderedSendComp \in BOOLEAN

Peer(e) == IF e = EpA THEN EpB ELSE EpA

VARIABLES
    ep,     \* endpoint records
    net,    \* net[e]: packets on their way to e
    flushes \* flushes[e]: number of flushes e's user has started

vars == <<ep, net, flushes>>

Init ==
    /\ ep = [e \in Eps |-> Reset]
    /\ net = [e \in Eps |-> {}]
    /\ flushes = [e \in Eps |-> 0]

\* Packets out are put on the wire to e's peer.
Transmit(e, out) ==
    LET all    == net[Peer(e)] \cup out
        excess == Cardinality(all) - NetCap
    IN  \E lost \in SUBSET (net[Peer(e)] \ out) :
            /\ Cardinality(lost) = IF excess > 0 THEN excess ELSE 0
            /\ net' = [net EXCEPT ![Peer(e)] = all \ lost]

Sent(e) == ep[e].psn - InitialPsn

\* A control send holds its place in the send queue until its completion is
\* polled; the others are taken to leave it at once.
CanTx(s) == Len(s.outstanding) < TxQueueLen

-----------------------------------------------------------------------------
(* Operations of the user. *)

\* am_short, am_bcopy (its copy may be too large to be resent without a
\* NACK) and am_zcopy (completion and ack request).
Send(e, kind) ==
    LET s == ep[e]
        ackreq == ReqAck(s) \/ kind = "zcopy"
        skb == Skb(s.psn, 0, kind = "bcopy", kind = "zcopy", FALSE)
    IN  /\ s.life = "open"
        /\ Sent(e) < MsgBudget[e]
        /\ ~NoWindow(s) /\ CanTx(s)
        /\ ep' = [ep EXCEPT ![e] = SendAm(s, skb)]
        /\ Transmit(e, {Packet(TRUE, s.psn, s.head_sn, ackreq, FALSE)})
        /\ UNCHANGED flushes

Flush(e) ==
    LET s    == ep[e]
        n    == flushes[e] + 1
        last == Len(s.window)
        ask  == ~IsLastAckReceived(s) /\ ~s.window[last].ackreq
        asked == IF ask THEN [AckReqDo(s) EXCEPT !.window[last].ackreq = TRUE]
                 ELSE IF IsLastAckReceived(s)
                 THEN [s EXCEPT !.ops = @ \ {"ACK_REQ"}] ELSE s
    IN  /\ s.life \in {"open", "failed"}
        /\ n <= FlushBudget[e]
        /\ ~NoWindow(s) /\ CanTx(s)
        /\ flushes' = [flushes EXCEPT ![e] = n]
        /\ IF FlushIdle(s)
           THEN /\ ep' = [ep EXCEPT ![e] = FlushDone(s, n)]
                /\ UNCHANGED net
           ELSE /\ ep' = [ep EXCEPT ![e] = CompSkbAdd(asked, n)]
                /\ Transmit(e, IF ask THEN AckReqOut(s) ELSE {})

\* flush(CANCEL): acks are cancelled even when the rest has to be retried
\* for lack of a place in the send queue.
FlushCancel(e) ==
    LET s == CancelAcks(ep[e])
        n == flushes[e] + 1
    IN  /\ e \in Closers
        /\ ep[e].life \in {"open", "failed", "cancelling"}
        /\ \/ /\ ~CanTx(s)
              /\ ep' = [ep EXCEPT ![e] = [s EXCEPT !.life = "cancelling"]]
              /\ UNCHANGED <<net, flushes>>
           \/ /\ CanTx(s) /\ FlushIdle(s)
              /\ ep' = [ep EXCEPT ![e] =
                          [FlushDone(s, n) EXCEPT !.life = "cancelled"]]
              /\ flushes' = [flushes EXCEPT ![e] = n]
              /\ UNCHANGED net
           \/ /\ CanTx(s) /\ ~FlushIdle(s)
              /\ ep' = [ep EXCEPT ![e] =
                          [CompSkbAdd(AckReqDo(s), n) EXCEPT
                              !.life = "cancelled"]]
              /\ flushes' = [flushes EXCEPT ![e] = n]
              /\ Transmit(e, AckReqOut(s))

\* uct_ud_ep_disconnect: flush(CANCEL) without completion, then purge.
Disconnect(e) ==
    LET s   == CancelAcks(ep[e])
        ask == CanTx(s) /\ ~FlushIdle(s)
    IN  /\ e \in Closers
        /\ ep[e].life \in {"open", "cancelling", "cancelled", "failed"}
        /\ ep' = [ep EXCEPT ![e] =
                    [Purge(IF ask THEN AckReqDo(s) ELSE s, "CANCELED") EXCEPT
                        !.life = "disconnected", !.timer = TRUE]]
        /\ Transmit(e, IF ask THEN AckReqOut(s) ELSE {})
        /\ UNCHANGED flushes

-----------------------------------------------------------------------------
(* Control operations, network and timer. *)

\* The arbiter runs the control operation with the highest priority: one
\* step of uct_ud_ep_resend, otherwise one packet with acks and requests.
Resend(e) ==
    LET s == ep[e]
    IN  /\ "RESEND" \in s.ops /\ CanTx(s)
        /\ \/ /\ ResendDone(s)
              /\ ep' = [ep EXCEPT ![e] = ResendEnd(s)]
              /\ UNCHANGED net
           \/ \E i \in DOMAIN s.window :
                /\ ~ResendDone(s)
                /\ ResendAt(s, i)
                /\ \/ /\ ResendBlocked(s, s.window[i])
                      /\ ep' = [ep EXCEPT ![e] = ResendEnd(s)]
                      /\ UNCHANGED net
                   \/ /\ ~ResendBlocked(s, s.window[i])
                      /\ ResendSkips(s.window[i])
                      /\ ep' = [ep EXCEPT ![e] = ResendSkip(s, i)]
                      /\ UNCHANGED net
                   \/ /\ ~ResendBlocked(s, s.window[i])
                      /\ ~ResendSkips(s.window[i])
                      /\ ep' = [ep EXCEPT ![e] = ResendSkb(s, i)]
                      /\ Transmit(e, {ResendPacket(s, s.window[i].psn)})
        /\ UNCHANGED flushes

CtlAckSend(e) ==
    LET s == ep[e]
    IN  /\ s.ops # {} /\ "RESEND" \notin s.ops /\ CanTx(s)
        /\ ep' = [ep EXCEPT ![e] = SendAck(s)]
        /\ Transmit(e, {AckPacket(s)})
        /\ UNCHANGED flushes

DoPendingCtl(e) == Resend(e) \/ CtlAckSend(e)

\* Mutant: the main thread polls before it has dispatched what is queued.
MayPollAlways(s, is_async) == TRUE

\* The main thread polls only after a pass that had nothing to dispatch.
MayPoll(s, is_async) ==
    is_async \/ (s.async_comp_q = {} /\ s.pending_q = << >>)

\* External: the network does not hold a packet for so long that half of
\* the psn space goes by.
Fresh(s, p) ==
    s.head_sn - p.psn < Half - 1 /\ s.psn - p.ack < Half

\* One packet is taken from the receive queue; keep stands for a duplicate
\* that stays in the network.  An endpoint that was connected to its peer's
\* endpoint drops everything once it is disconnected.
Receive(e, p, is_async, keep) ==
    /\ p \in net[e]
    /\ keep => Duplicates
    /\ Fresh(ep[e], p)
    /\ MayPoll(ep[e], is_async)
    /\ net' = [net EXCEPT ![e] = IF keep THEN @ ELSE @ \ {p}]
    /\ ep' = IF ep[e].life \in {"disconnected", "freed"} THEN ep
             ELSE [ep EXCEPT ![e] = ProcessRx(ep[e], p, is_async)]
    /\ UNCHANGED flushes

\* External: the unreliable datagram service.
Lose(e, p) ==
    /\ p \in net[e]
    /\ net' = [net EXCEPT ![e] = @ \ {p}]
    /\ UNCHANGED <<ep, flushes>>

RemoveAt(seq, i) == SubSeq(seq, 1, i - 1) \o SubSeq(seq, i + 1, Len(seq))

\* One send completion; a device that does not order them reports any.
SendCompletion(e, i, is_async) ==
    LET s == ep[e]
    IN  /\ i \in DOMAIN s.outstanding
        /\ OrderedSendComp => i = 1
        /\ MayPoll(s, is_async)
        /\ ep' = [ep EXCEPT ![e] =
                    CtlSkbComplete([s EXCEPT !.outstanding = RemoveAt(@, i)],
                                   s.outstanding[i], is_async)]
        /\ UNCHANGED <<net, flushes>>

\* The first part of uct_ud_verbs_iface_progress.
Dispatch(e, n) ==
    LET s == ep[e]
    IN  /\ ~MayPoll(s, FALSE)
        /\ n <= Len(s.pending_q) /\ (s.pending_q # << >> => n > 0)
        /\ ep' = [ep EXCEPT ![e] =
                    DispatchPendingRx(DispatchAsyncComps(s), n)]
        /\ UNCHANGED <<net, flushes>>

\* The timer finds everything acknowledged: it is not armed again, and an
\* endpoint that lingered long enough after its disconnect is destroyed.
TimerIdle(e) ==
    LET s == ep[e]
    IN  /\ s.timer
        /\ IsLastAckReceived(s)
        /\ ep' = [ep EXCEPT ![e] =
                    IF s.life = "disconnected"
                    THEN [Purge(s, "CANCELED") EXCEPT
                            !.life = "freed", !.timer = FALSE, !.timeouts = 0]
                    ELSE [s EXCEPT !.timer = FALSE]]
        /\ UNCHANGED <<net, flushes>>

\* Something is unacknowledged and no request or resend is on its way.
TimerActs(s) ==
    /\ s.timer
    /\ ~IsLastAckReceived(s)
    /\ s.ops \cap {"ACK_REQ", "RESEND"} = {} /\ s.resend_count = 0

\* The timer goes on with a backoff.
TimerLate(e, ticks) ==
    /\ TimerActs(ep[e])
    /\ ep' = [ep EXCEPT ![e] = AfterTicks(@, ticks)]
    /\ UNCHANGED <<net, flushes>>

\* No ack until the peer timeout, whatever the time since the last resend:
\* the error is left to the main thread and the timer is not armed again.
TimerExpired(e, ticks) ==
    /\ TimerActs(ep[e])
    /\ ep[e].timeouts < FailBudget[e]
    /\ ep' = [ep EXCEPT ![e] =
                [AfterTicks(ep[e], ticks) EXCEPT
                    !.timer = FALSE, !.timeouts = ep[e].timeouts + 1]]
    /\ UNCHANGED <<net, flushes>>

\* uct_ud_ep_invalidate: the user forces the same error.
Invalidate(e) ==
    /\ ep[e].life = "open"
    /\ ep[e].timeouts < FailBudget[e]
    /\ ep' = [ep EXCEPT ![e].timeouts = @ + 1]
    /\ UNCHANGED <<net, flushes>>

\* The deferred handler purges the endpoint and reports the error, unless
\* the user has destroyed the endpoint already.
TimeoutHandler(e) ==
    LET s == ep[e]
    IN  /\ s.timeouts > 0
        /\ ep' = [ep EXCEPT ![e] =
                    [Purge(s, "TIMEOUT") EXCEPT
                        !.timeouts = s.timeouts - 1,
                        !.life = IF @ = "disconnected" THEN @ ELSE "failed"]]
        /\ UNCHANGED <<net, flushes>>

UserStep(e) ==
    \/ \E kind \in Kinds : Send(e, kind)
    \/ Flush(e)
    \/ FlushCancel(e)
    \/ Disconnect(e)
    \/ Invalidate(e)

Poll(e) ==
    \/ \E p \in net[e], is_async \in Threads, keep \in BOOLEAN :
            Receive(e, p, is_async, keep)
    \/ \E i \in DOMAIN ep[e].outstanding, is_async \in Threads :
            SendCompletion(e, i, is_async)

Timer(e) ==
    \/ TimerIdle(e)
    \/ \E ticks \in Ticks : TimerLate(e, ticks)
    \/ \E ticks \in Ticks : TimerExpired(e, ticks)

Next ==
    \E e \in Eps :
        \/ UserStep(e)
        \/ Poll(e)
        \/ Timer(e)
        \/ TimeoutHandler(e)
        \/ \E n \in 0..Len(ep[e].pending_q) : Dispatch(e, n)
        \/ DoPendingCtl(e)
        \/ \E p \in net[e] : Lose(e, p)

Spec == Init /\ [][Next]_vars

-----------------------------------------------------------------------------
(* Fairness: the interface is progressed for ever, time goes by, and the   *)
(* network delivers a kind of packet it is given again and again.          *)

\* The kinds of packet that matter: a message with a given psn, an
\* acknowledgement of a given psn, a request for one, a NACK.
ReceiveSome(e, Kind(_)) ==
    \E p \in net[e] : Kind(p) /\ Receive(e, p, FALSE, FALSE)

NetworkFairness(e) ==
    /\ \A n \in InitialPsn .. InitialPsn + MsgBudget[Peer(e)] - 1 :
          SF_vars(ReceiveSome(e, LAMBDA p : p.am /\ p.psn = n))
    /\ \A n \in InitialPsn .. InitialPsn + MsgBudget[e] - 1 :
          SF_vars(ReceiveSome(e, LAMBDA p : p.ack = n))
    /\ SF_vars(ReceiveSome(e, LAMBDA p : p.ackreq /\ ~p.am))
    /\ SF_vars(ReceiveSome(e, LAMBDA p : p.nack))

ProgressFairness(e) ==
    /\ WF_vars(DoPendingCtl(e))
    /\ WF_vars(\E n \in 0..Len(ep[e].pending_q) : Dispatch(e, n))
    /\ WF_vars(\E i \in DOMAIN ep[e].outstanding :
                   SendCompletion(e, i, FALSE))
    /\ SF_vars(TimerLate(e, 4))

FairSpec == Spec /\ \A e \in Eps : NetworkFairness(e) /\ ProgressFairness(e)
-----------------------------------------------------------------------------
(* Properties. *)

\* Type invariant; the congestion window stays within its limits.
TypeOK ==
    /\ ep \in [Eps -> EpType]
    /\ net \in [Eps -> SUBSET PacketType]
    /\ flushes \in [Eps -> Nat]

\* The handlers of an endpoint see the messages of its peer in the order
\* they were sent, none missing and none twice, whether the main or the
\* async thread received them (uct_ud_ep_process_rx, rx.pending_q).
InOrderDelivery ==
    \A e \in Eps :
        LET seen == ep[e].delivered \o ep[e].pending_q
        IN  /\ Len(seen) = ep[e].head_sn - (InitialPsn - 1)
            /\ Run(seen, InitialPsn)
            /\ Len(seen) <= Sent(Peer(e))

\* What an open endpoint takes for acknowledged has reached its peer
\* (uct_ud_ep_process_ack trusts any ack between acked_psn and psn).
AckedWasReceived ==
    \A e \in Eps : ep[e].life = "open" =>
        ep[e].acked_psn <= ep[Peer(e)].head_sn

\* A completion that reports UCS_OK to the user of an endpoint that was not
\* cancelled is about a message, or for a flush about messages, that the peer
\* has received; the step that times the endpoint out included.
OkMeansReceived ==
    [][\A e \in Eps :
        /\ ep[e].life = "open"
        /\ ep'[e].life \in {"open", "failed"}
        => \A c \in ep'[e].comps \ ep[e].comps :
              c.status = "OK" => c.psn <= ep[Peer(e)].head_sn]_vars

\* The iterator of a running retransmission never stands behind an skb that
\* was released from the window (resend.pos is a pointer into the skb).
ResendPosValid ==
    \A e \in Eps : "RESEND" \in ep[e].ops =>
        \/ ep[e].resend_pos = Begin
        \/ \E i \in DOMAIN ep[e].window :
               Id(ep[e].window[i]) = ep[e].resend_pos

\* Every retransmission that is still in the send queue refers to an skb
\* that is in the window and marked, once, and resend_count counts them: no
\* buffer is released or completed while the device may still read it, and
\* the assertion after uct_ud_ep_purge_outstanding holds.
ResendAccounting ==
    \A e \in Eps :
        LET s == ep[e]
            descs == {i \in DOMAIN s.outstanding :
                            s.outstanding[i] # AckDesc}
        IN  /\ s.resend_count = Cardinality(descs)
            /\ \A i, j \in descs :
                    s.outstanding[i] = s.outstanding[j] => i = j
            /\ {s.outstanding[i] : i \in descs} =
               {Id(s.window[i]) : i \in {j \in DOMAIN s.window :
                                            s.window[j].resending}}

\* Every message sent and not acknowledged is in the window, so that it can
\* be retransmitted (uct_ud_ep_assert_tx_window_nonempty), and no more than
\* the maximal window is in flight.
WindowHoldsUnacked ==
    \A e \in Eps :
        /\ \A n \in ep[e].acked_psn + 1 .. ep[e].psn - 1 :
              Holds(ep[e].window, n)
        /\ ep[e].psn - ep[e].acked_psn <= MaxWindow + 1

\* The timer is one-shot: while something is unacknowledged it is armed, or
\* the error handler is about to run (uct_ud_ep_timer).
TimerCoversUnacked ==
    \A e \in Eps : ep[e].acked_psn # ep[e].psn - 1 =>
        ep[e].timer \/ ep[e].timeouts > 0

Before(c, d) == c.psn < d.psn \/ (c.psn = d.psn /\ c.flush < d.flush)

\* Completions reach the user in the order the operations were started, each
\* exactly once, a flush after everything it covers: what was delivered comes
\* before what the async thread queued, and that before what the window owes.
CompletionsInOrder ==
    \A e \in Eps :
        LET done == ep[e].comps
            queued == ep[e].async_comp_q
            owed == CompsOf(ep[e].window, "OK")
        IN  /\ \A c \in done, d \in queued \cup owed : Before(c, d)
            /\ \A c \in queued, d \in owed : Before(c, d)
            /\ \A c, d \in done \cup queued :
                  c.psn = d.psn /\ c.flush = d.flush => c = d

FlushDelivered(e) ==
    flushes[e] > 0 => \E c \in ep[e].comps : c.flush = flushes[e]

\* Over a fair lossy network everything that was sent is acknowledged and
\* every flush completes: the timer, the ack requests, the NACKs that large
\* messages wait for and the congestion window never leave the sender stuck.
EverythingSettles ==
    []<>(\A e \in Eps : ep[e].acked_psn = ep[e].psn - 1 /\ FlushDelivered(e))

\* Operations that are outstanding when the user destroys the endpoint
\* complete with an error: "cancel user outstanding operations"
\* (uct_ud_ep_disconnect calls uct_ud_ep_purge with UCS_ERR_CANCELED).
DisconnectCancels ==
    [][\A e \in Eps :
        ep[e].life = "open" /\ ep'[e].life = "disconnected"
        => \A c \in ep'[e].comps \ ep[e].comps :
              c.psn > ep[Peer(e)].head_sn => c.status # "OK"]_vars

-----------------------------------------------------------------------------
(* The inductive invariant behind TypeOK, InOrderDelivery, AckedWasReceived, *)
(* WindowHoldsUnacked and OkMeansReceived.                                   *)

\* Sender s and the endpoint r it sends to.
LinkInv(s, r) ==
    /\ r.head_sn < s.psn /\ s.psn <= r.head_sn + MaxWindow + 1
    /\ IF s.life = "open" THEN s.acked_psn <= r.head_sn
                          ELSE s.acked_psn = s.psn - 1

\* A packet p that s has sent.
PacketInv(p, s) ==
    /\ p.psn <= s.psn /\ (p.am => p.psn < s.psn)
    /\ p.ack <= s.head_sn

\* Messages in flight, windows and receive state agree with each other: no
\* acknowledgement is ahead of the receiver, no message ahead of the sender,
\* and the two never drift further apart than a window (uct_ud_ep_process_ack,
\* uct_ud_ep_process_rx, uct_ud_ep_ca_ack).
IndInv ==
    /\ TypeOK
    /\ \A e \in Eps :
        /\ TxInv(ep[e]) /\ RxInv(ep[e])
        /\ LinkInv(ep[e], ep[Peer(e)])
        /\ \A p \in net[e] : PacketInv(p, ep[Peer(e)])

=============================================================================
