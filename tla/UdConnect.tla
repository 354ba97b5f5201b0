------------------------------ MODULE UdConnect ------------------------------
(***************************************************************************)
(* How two interfaces of the unreliable-datagram transport (uct/ib/ud)      *)
(* connect endpoints: connection requests (CREQ) and replies (CREP) over a  *)
(* network that loses, duplicates and reorders, simultaneous requests, the  *)
(* matching of endpoints by connection sequence number, endpoint ids with a *)
(* generation, private endpoints that no user owns yet, lingering after     *)
(* destruction, and the timeout of a silent peer.                           *)
(*                                                                          *)
(* The congestion window, NACKs, send completions and the async thread are  *)
(* left to UdEp and UdReliable; an endpoint sends less than a window here.  *)
(*                                                                          *)
(* An endpoint is a record:                                                 *)
(*   id, dest      ep_id and dest_ep_id, pairs of index and generation      *)
(*   sn            conn_sn                                                  *)
(*   priv, cep     PRIVATE and ON_CEP                                       *)
(*   disc, flags   DISCONNECTED; CREQ_RCVD, CREP_RCVD, CREP_SENT            *)
(*   psn, acked    tx.psn, tx.acked_psn                                     *)
(*   win           tx.window                                                *)
(*   rpos          psn of the packet at resend.pos                          *)
(*   rpsn, rmax    resend.psn, resend.max_psn                               *)
(*   head, rxack   head_sn of rx.ooo_pkts, rx.acked_psn                     *)
(*   ops           tx.pending.ops                                           *)
(*   aged          have the packets of before the disconnection left the    *)
(*                 network?                                                 *)
(*   timer         is the timer armed?                                      *)
(*   late          is the deferred timeout handler scheduled?               *)
(*   told          has the user been told of a timeout or given it up?      *)
(*   next, rcvd    messages sent, and received                              *)
(***************************************************************************)
EXTENDS Integers, Sequences, SequencesExt, FiniteSets

CONSTANTS
    Ifaces,
    Peer,           \* the other interface
    MaxEps,         \* size of the array of endpoints
    GenMod,         \* 2 ^ UCT_UD_EP_GEN_BITS
    TxQueueLen,     \* packets the device takes
    Bounds          \* bounds on what the users and the network do

InitialPsn == 1
NullId == <<>>

ASSUME UdConnectAssumption ==
    /\ Peer \in [Ifaces -> Ifaces] /\ \A i \in Ifaces : Peer[Peer[i]] = i
    /\ GenMod \in Nat \ {0} /\ MaxEps \in Nat /\ TxQueueLen \in Nat \ {0}
    /\ Bounds \subseteq
          [create : [Ifaces -> Nat], close : [Ifaces -> Nat],
           msg : Nat, probe : Nat, fault : Nat,
           early : BOOLEAN]

VARIABLES
    eps,            \* endpoints of an interface, a function on its indices in use
    gen,            \* iface->ep_gen
    freelist,       \* free indices of iface->eps, the next one to be used first
    nextSn,         \* next_conn_sn of the peer in the matching context
    net,            \* packets on their way to an interface
    used,           \* endpoints closed and network faults so far
    failed,         \* has an assertion of the code failed?
    bound           \* the bounds of this behaviour

vars == <<eps, gen, freelist, nextSn, net, used, failed, bound>>

Init ==
    /\ eps = [i \in Ifaces |-> <<>>]
    /\ gen = [i \in Ifaces |-> [x \in 1 .. MaxEps |-> 0]]
    /\ freelist = [i \in Ifaces |-> [x \in 1 .. MaxEps |-> x]]
    /\ nextSn = [i \in Ifaces |-> 0]
    /\ net = [i \in Ifaces |-> <<>>]
    /\ used = [close |-> [i \in Ifaces |-> 0], fault |-> 0]
    /\ failed = FALSE
    /\ bound \in Bounds

-----------------------------------------------------------------------------
(* Endpoints and packets.                                                   *)

\* The constructor of uct_ud_ep_t with uct_ud_ep_reset.
NewEp(id, sn, dest) ==
    [id |-> id, dest |-> dest, sn |-> sn, priv |-> FALSE, cep |-> TRUE,
     disc |-> FALSE, aged |-> FALSE, flags |-> {}, psn |-> InitialPsn, acked |-> InitialPsn - 1,
     win |-> <<>>, rpos |-> InitialPsn, rpsn |-> InitialPsn,
     rmax |-> InitialPsn - 1, head |-> InitialPsn - 1, rxack |-> InitialPsn - 1,
     ops |-> {}, timer |-> FALSE, late |-> FALSE, told |-> FALSE,
     next |-> 1, rcvd |-> <<>>]

Packet(e, type, dest, areq, msg) ==
    [type |-> type, dest |-> dest, src |-> e.id, sn |-> e.sn, psn |-> e.psn,
     ack |-> e.head, areq |-> areq, msg |-> msg]

\* uct_ud_iface_complete_tx_skb: the packet joins the window.
Sent(e, p) ==
    [e EXCEPT !.psn = @ + 1, !.rxack = e.head, !.win = Append(@, p),
              !.timer = TRUE]

\* What a handler does to its endpoint, the packets it sends, and whether
\* the assertions it makes hold.
Result(e, out, ok) == [e |-> e, out |-> out, ok |-> ok]

SendPacket(e, p) == Result(Sent(e, p), <<p>>, TRUE)

Connected(e) == e.dest # NullId
LastAckReceived(e) == e.acked = e.psn - 1
CanTx(i) == Len(net[Peer[i]]) < TxQueueLen

\* uct_ud_iface_add_ep: the index and the id the next endpoint gets
NewIndex(i) == freelist[i][1]
NewId(i) == <<NewIndex(i), gen[i][NewIndex(i)]>>

Put(i, x, e) ==
    [eps EXCEPT ![i] = [y \in DOMAIN @ \cup {x} |-> IF y = x THEN e ELSE @[y]]]

Forget(i, x) == [eps EXCEPT ![i] = [y \in DOMAIN @ \ {x} |-> @[y]]]

Transmit(i, out) == [net EXCEPT ![Peer[i]] = @ \o out]

\* The step of a handler of endpoint x that results in r.
Handle(i, x, r) ==
    /\ eps' = Put(i, x, r.e)
    /\ net' = Transmit(i, r.out)
    /\ failed' = (failed \/ ~r.ok)

-----------------------------------------------------------------------------
(* Control packets.                                                         *)

\* uct_ud_ep_prepare_creq
SendCreq(e) ==
    [SendPacket(e, Packet(e, "CREQ", NullId, FALSE, <<>>)) EXCEPT
        !.e.ops = @ \ {"CREQ"},
        !.ok = ~Connected(e) /\ "CREP" \notin e.ops /\ "CREP_SENT" \notin e.flags]

\* uct_ud_ep_prepare_crep
SendCrep(e) ==
    [SendPacket(e, Packet(e, "CREP", e.dest, TRUE, <<>>)) EXCEPT
        !.e.ops = @ \ {"CREP"}, !.e.flags = @ \cup {"CREP_SENT"},
        !.ok = Connected(e)]

\* uct_ud_ep_send_ack
SendAck(e) ==
    Result([e EXCEPT !.ops = @ \ {"ACK", "ACK_REQ"},
                     !.rxack = IF Connected(e) THEN e.head ELSE @],
           IF Connected(e)
           THEN <<Packet(e, "ACK", e.dest, "ACK_REQ" \in e.ops, <<>>)>> ELSE <<>>,
           TRUE)

\* uct_ud_ep_resend_start and uct_ud_ep_resend_end
ResendStart(e) ==
    [e EXCEPT !.rmax = e.psn - 1, !.rpsn = e.acked + 1,
              !.rpos = IF e.win = <<>> THEN e.psn ELSE e.win[1].psn,
              !.ops = @ \cup {"RESEND"}]
ResendEnd(e) == [e EXCEPT !.ops = @ \ {"RESEND"}]

\* uct_ud_ep_resend of a packet p of the window
ResendPacket(e, p) ==
    LET last == p.psn = e.rmax
        moved == [e EXCEPT !.rpos = p.psn + 1,
                           !.rpsn = IF last THEN e.rmax + 1 ELSE p.psn]
        copy == [p EXCEPT !.ack = e.rxack,
                          !.areq = p.psn % 4 = 0 \/ p.psn = e.acked + 1]
    IN  Result(IF last THEN ResendEnd(moved) ELSE moved, <<copy>>,
               ~(Connected(e) /\ p.dest = NullId))

Resend(e) ==
    LET todo == SelectSeq(e.win, LAMBDA p : p.psn >= e.rpos)
    IN  IF e.rmax <= e.acked \/ todo = <<>>
        THEN Result(ResendEnd(e), <<>>, TRUE)
        ELSE ResendPacket(e, todo[1])

\* uct_ud_ep_do_pending_ctl
PendingCtl(e) ==
    CASE "CREQ" \in e.ops -> SendCreq(e)
      [] "CREQ" \notin e.ops /\ "CREP" \in e.ops -> SendCrep(e)
      [] e.ops \cap {"CREQ", "CREP"} = {} /\ "RESEND" \in e.ops -> Resend(e)
      [] OTHER -> SendAck(e)

DoPendingCtl(i, x) ==
    /\ eps[i][x].ops # {} /\ CanTx(i)
    /\ Handle(i, x, PendingCtl(eps[i][x]))
    /\ UNCHANGED <<gen, freelist, nextSn, used, bound>>

-----------------------------------------------------------------------------
(* Connection matching and the operations of the user.                      *)

\* Endpoints of queue EXP or UNEXP of the matching context.
Matching(i, sn, priv) ==
    {x \in DOMAIN eps[i] : eps[i][x].cep /\ eps[i][x].sn = sn /\ eps[i][x].priv = priv}

\* Mutant: a private endpoint is taken over only once it has replied.
GetPrivateReplied(i, sn) ==
    {x \in Matching(i, sn, TRUE) : "CREP_SENT" \in eps[i][x].flags}

\* uct_ud_iface_cep_get_ep for a private endpoint
GetPrivate(i, sn) == Matching(i, sn, TRUE)

\* uct_ud_iface_cep_get_ep for any endpoint
GetAny(i, sn) ==
    IF Matching(i, sn, FALSE) # {} THEN Matching(i, sn, FALSE)
    ELSE Matching(i, sn, TRUE)

\* uct_ud_ep_create_connected_common: a private endpoint becomes the user's,
\* a new one requests the connection now or when the device has room.
CreateConnected(i) ==
    LET sn == nextSn[i]
        new == NewEp(NewId(i), sn, NullId)
    IN  /\ sn < bound.create[i]
        /\ nextSn' = [nextSn EXCEPT ![i] = sn + 1]
        /\ IF GetPrivate(i, sn) # {}
           THEN /\ \E x \in GetPrivate(i, sn) :
                      Handle(i, x, Result([eps[i][x] EXCEPT !.priv = FALSE],
                                          <<>>, TRUE))
                /\ UNCHANGED freelist
           ELSE /\ freelist[i] # <<>>
                /\ Handle(i, NewIndex(i),
                          IF CanTx(i) THEN SendCreq(new)
                          ELSE Result([new EXCEPT !.ops = {"CREQ"}], <<>>, TRUE))
                /\ freelist' = [freelist EXCEPT ![i] = Tail(@)]
        /\ UNCHANGED <<gen, used, bound>>

UserOwns(e) == ~e.priv /\ ~e.disc
Open(e) == UserOwns(e) /\ ~e.told

\* Mutant: the user overtakes replies and resends that are pending.
SendOvertaking(i, x) ==
    LET e == eps[i][x]
        p == Packet(e, "AM", e.dest, "ACK_REQ" \in e.ops, <<e.sn, e.next>>)
    IN  /\ Open(e) /\ Connected(e) /\ e.next <= bound.msg /\ CanTx(i)
        /\ Handle(i, x, SendPacket([e EXCEPT !.next = @ + 1,
                                            !.ops = @ \ {"ACK", "ACK_REQ"}], p))
        /\ UNCHANGED <<gen, freelist, nextSn, used, bound>>

\* uct_ud_verbs_ep_am_short on a connected endpoint: an ack that is due rides
\* on the message, a request for one as well.  Replies and resends go first:
\* uct_ud_ep_do_pending sends them whenever the device has room, and the user
\* is held back by async_before_pending until it has run.
Send(i, x) ==
    LET e == eps[i][x]
        p == Packet(e, "AM", e.dest, "ACK_REQ" \in e.ops, <<e.sn, e.next>>)
    IN  /\ Open(e) /\ Connected(e)
        /\ e.ops \cap {"CREQ", "CREP", "RESEND"} = {}
        /\ e.next <= bound.msg /\ CanTx(i)
        /\ Handle(i, x, SendPacket([e EXCEPT !.next = @ + 1,
                                            !.ops = @ \ {"ACK", "ACK_REQ"}], p))
        /\ UNCHANGED <<gen, freelist, nextSn, used, bound>>

\* uct_ud_ep_flush(CANCEL): everything counts as acknowledged; a connected
\* endpoint with a window requests an ack, at once if it has nothing else to do.
FlushCanceled(i, e) ==
    LET c == [e EXCEPT !.acked = e.psn - 1]
        r == [c EXCEPT !.ops = @ \cup {"ACK_REQ"}]
    IN  IF ~Connected(e) \/ ~CanTx(i) \/ e.win = <<>> THEN Result(c, <<>>, TRUE)
        ELSE IF r.ops = {"ACK_REQ"} THEN SendAck(r)
        ELSE Result(r, <<>>, TRUE)

FlushCancel(i, x) ==
    LET e == eps[i][x]
        r == FlushCanceled(i, e)
    IN  /\ Open(e) /\ used.close[i] < bound.close[i]
        /\ Connected(e) \/ bound.early
        /\ Handle(i, x, [r EXCEPT !.e.told = TRUE])
        /\ used' = [used EXCEPT !.close[i] = @ + 1]
        /\ UNCHANGED <<gen, freelist, nextSn, bound>>

\* uct_ud_ep_purge
Purge(e) == [e EXCEPT !.ops = {}, !.acked = e.psn - 1, !.win = <<>>]

\* uct_ud_ep_disconnect
Disconnected(i, e) ==
    LET r == FlushCanceled(i, e)
    IN  [r EXCEPT !.e = [Purge(r.e) EXCEPT !.disc = TRUE, !.timer = TRUE]]

Disconnect(i, x) ==
    LET e == eps[i][x]
    IN  /\ UserOwns(e) /\ (e.told \/ used.close[i] < bound.close[i])
        /\ Handle(i, x, Disconnected(i, e))
        /\ used' = IF e.told THEN used ELSE [used EXCEPT !.close[i] = @ + 1]
        /\ UNCHANGED <<gen, freelist, nextSn, bound>>

-----------------------------------------------------------------------------
(* Timers.                                                                  *)

PeerGone(i, e) ==
    Connected(e) /\ \A y \in DOMAIN eps[Peer[i]] : eps[Peer[i]][y].id # e.dest

\* The linger timeout is longer than the life of a packet.
Linger(i, x) ==
    LET e == eps[i][x]
    IN  /\ e.disc /\ ~e.aged /\ \A j \in Ifaces : net[j] = <<>>
        /\ Handle(i, x, Result([e EXCEPT !.aged = TRUE], <<>>, TRUE))
        /\ UNCHANGED <<gen, freelist, nextSn, used, bound>>

\* uct_ud_ep_timer, nothing to resend: an endpoint that has lingered long
\* enough is freed (uct_ud_ep_free_by_timeout, uct_ud_iface_remove_ep).  The
\* timer of the user's endpoint is not armed again before it sends again,
\* which makes no difference.
CanFree(e) == e.timer /\ e.disc /\ e.aged /\ LastAckReceived(e)

TimerFree(i, x) ==
    LET e == eps[i][x]
    IN  /\ CanFree(e)
        /\ eps' = Forget(i, x)
        /\ gen' = [gen EXCEPT ![i][x] = (@ + 1) % GenMod]
        /\ freelist' = [freelist EXCEPT ![i] = <<x>> \o @]
        /\ UNCHANGED <<nextSn, net, used, failed, bound>>

\* What the network does wrong is bounded.
Fault(n) ==
    /\ used.fault + n <= bound.fault
    /\ used' = [used EXCEPT !.fault = @ + n]

\* The timer is slower than the network and the peer's answer, unless a fault
\* delays them; requests for an ack before the first resend count as one, so
\* that they cannot go on for ever.
Quiet ==
    /\ \A i \in Ifaces : net[i] = <<>>
    /\ \A i \in Ifaces : \A x \in DOMAIN eps[i] :
          eps[i][x].ops = {} /\ ~eps[i][x].late


\* uct_ud_ep_check_peer: probe the silent peer of a private endpoint.
CanProbe(e) ==
    e.timer /\ ~e.disc /\ LastAckReceived(e) /\ e.priv /\ e.psn <= bound.probe

TimerProbe(i, x) ==
    LET e == eps[i][x]
        p == Packet(e, "PUT", e.dest, TRUE, <<>>)
    IN  /\ CanProbe(e)
        /\ Fault(IF Quiet THEN 0 ELSE 1)
        /\ Handle(i, x, IF CanTx(i)
                        THEN SendPacket([e EXCEPT !.ops = @ \ {"ACK", "ACK_REQ"}], p)
                        ELSE Result([e EXCEPT !.ops = @ \cup {"ACK_REQ"}], <<>>, TRUE))
        /\ UNCHANGED <<gen, freelist, nextSn, bound>>

\* Mutant: nothing is resent before the endpoint is connected.
TimerActsConnected(e) ==
    /\ e.timer /\ Connected(e) /\ ~LastAckReceived(e)
    /\ e.ops \cap {"ACK_REQ", "RESEND"} = {}

\* uct_ud_ep_timer with packets to resend: ask for an ack, resend if the last
\* packet is older than three ticks.
TimerActs(e) ==
    e.timer /\ ~LastAckReceived(e) /\ e.ops \cap {"ACK_REQ", "RESEND"} = {}

Retry(e, old) ==
    LET r == IF old THEN ResendStart(e) ELSE e
    IN  IF Connected(e) THEN [r EXCEPT !.ops = @ \cup {"ACK_REQ"}] ELSE r

TimerRetry(i, x, old) ==
    LET e == eps[i][x]
    IN  /\ TimerActs(e) /\ (old \/ Connected(e))
        /\ Fault(IF old /\ Quiet THEN 0 ELSE 1)
        /\ Handle(i, x, Result(Retry(e, old), <<>>, TRUE))
        /\ UNCHANGED <<gen, freelist, nextSn, bound>>

\* uct_ud_ep_handle_timeout; the peer timeout is long enough to expire only
\* when the peer is gone.
HandleTimeout(e) ==
    [e EXCEPT !.cep = @ /\ ~e.priv, !.late = TRUE, !.timer = FALSE]

TimerTimeout(i, x) ==
    LET e == eps[i][x]
    IN  /\ TimerActs(e) /\ PeerGone(i, e)
        /\ Handle(i, x, Result(HandleTimeout(Retry(e, TRUE)), <<>>, TRUE))
        /\ UNCHANGED <<gen, freelist, nextSn, used, bound>>

\* uct_ud_ep_deferred_timeout_handler; a private endpoint is destroyed, the
\* user of another one is told.
TimedOut(i, e) ==
    LET p == [Purge(e) EXCEPT !.late = FALSE]
    IN  IF e.disc THEN Result(p, <<>>, TRUE)
        ELSE IF e.priv THEN Disconnected(i, p)
        ELSE Result([p EXCEPT !.told = TRUE], <<>>, TRUE)

DeferredTimeout(i, x) ==
    /\ eps[i][x].late
    /\ Handle(i, x, TimedOut(i, eps[i][x]))
    /\ UNCHANGED <<gen, freelist, nextSn, used, bound>>

-----------------------------------------------------------------------------
(* Reception.                                                               *)

\* uct_ud_ep_resend_ack
ResendAck(e) ==
    IF e.rpsn > e.rmax THEN e
    ELSE IF e.acked < e.rmax
    THEN [e EXCEPT !.rpos = IF e.rpsn <= e.acked THEN e.acked + 1 ELSE @,
                   !.rpsn = IF e.rpsn <= e.acked THEN e.acked + 1 ELSE @,
                   !.ops = @ \cup {"RESEND"}]
    ELSE [ResendEnd(e) EXCEPT !.rpsn = e.rmax + 1]

\* uct_ud_ep_process_ack
ProcessAck(e, a) ==
    IF a <= e.acked \/ e.psn <= a THEN e
    ELSE ResendAck([e EXCEPT !.acked = a,
                             !.win = SelectSeq(@, LAMBDA p : p.psn > a)])

\* uct_ud_ep_create_passive
PassiveEp(i, p) ==
    [NewEp(NewId(i), p.sn, p.src) EXCEPT !.priv = TRUE, !.head = p.psn,
                                            !.ops = {"CREP"}]

\* Mutant: a request of the peer does not acknowledge our own.
CreqTakenUnacked(e, p) ==
    IF p.src = e.dest THEN e
    ELSE [e EXCEPT !.dest = p.src, !.head = p.psn, !.ops = @ \cup {"CREP"}]

\* uct_ud_ep_rx_creq for the endpoint found: a request of a new peer endpoint
\* acknowledges a request of our own and is replied to.
CreqTaken(e, p) ==
    LET acked == IF ~Connected(e) /\ e.psn > InitialPsn
                 THEN ProcessAck(e, InitialPsn) ELSE e
    IN  IF p.src = e.dest THEN e
        ELSE [acked EXCEPT !.dest = p.src, !.head = p.psn, !.ops = @ \cup {"CREP"}]

\* uct_ud_ep_rx_creq, after the endpoint has been found or created
CreqDone(e, p) ==
    IF p.psn < e.head
    THEN Result(e, <<>>, e.flags \cap {"CREQ_RCVD", "CREP_RCVD"} # {})
    ELSE Result([e EXCEPT !.ops = @ \ {"CREQ"}, !.flags = @ \cup {"CREQ_RCVD"}],
                <<>>, e.head = p.psn)

\* uct_ud_ep_rx_ctl
RxCtl(e, p) ==
    LET same == Connected(e) => e.dest = p.src
    IN  IF p.psn < e.head
        THEN Result(e, <<>>, same /\ "CREP_RCVD" \in e.flags)
        ELSE Result([e EXCEPT !.head = p.psn, !.dest = p.src,
                              !.flags = @ \cup {"CREP_RCVD"}], <<>>, same)

\* Mutant: a duplicate is delivered again.
RxDataAgain(e, p) ==
    IF p.psn > e.head + 1 THEN e
    ELSE [e EXCEPT !.head = p.psn,
                   !.rcvd = IF p.type = "AM" THEN Append(@, p.msg) ELSE @]

\* Data is taken in order, once.
RxData(e, p) ==
    IF p.psn # e.head + 1 THEN e
    ELSE [e EXCEPT !.head = @ + 1,
                   !.rcvd = IF p.type = "AM" THEN Append(@, p.msg) ELSE @]

\* uct_ud_ep_process_rx for the endpoint the packet is addressed to; a request
\* to resend (NACK) is answered with an ack here.
ProcessRx(e, p) ==
    LET acked == ProcessAck(e, p.ack)
        asked == IF p.areq \/ p.psn > e.head + 1
                 THEN [acked EXCEPT !.ops = @ \cup {"ACK"}] ELSE acked
    IN  CASE p.type = "ACK" -> Result(asked, <<>>, TRUE)
          [] p.type = "CREP" -> RxCtl(asked, p)
          [] OTHER -> Result(RxData(asked, p), <<>>, TRUE)

\* Mutant: the generation is not compared.
AddresseeIndex(i, p) == {x \in DOMAIN eps[i] : x = p.dest[1]}

\* uct_ud_ep_process_rx, the lookup of the endpoint by index and generation
Addressee(i, p) == {x \in DOMAIN eps[i] : eps[i][x].id = p.dest}

\* The endpoint that takes packet p, and what it does.
Takers(i, p) ==
    IF p.dest # NullId
    THEN {<<x, ProcessRx(eps[i][x], p)>> : x \in Addressee(i, p)}
    ELSE {<<x, CreqDone(CreqTaken(eps[i][x], p), p)>> : x \in GetAny(i, p.sn)}

\* The k-th packet arrives, ahead of others if k # 1; a duplicate of it may
\* stay behind.
Recv(i, k, dup) ==
    LET p == net[i][k]
        takers == Takers(i, p)
        passive == takers = {} /\ p.dest = NullId /\ freelist[i] # <<>>
    IN  /\ Fault((IF k = 1 THEN 0 ELSE 1) + (IF dup THEN 1 ELSE 0))
        /\ net' = IF dup THEN net ELSE [net EXCEPT ![i] = RemoveAt(@, k)]
        /\ IF passive
           THEN LET r == CreqDone(PassiveEp(i, p), p)
                IN  /\ eps' = Put(i, NewIndex(i), r.e)
                    /\ failed' = (failed \/ ~r.ok)
                    /\ freelist' = [freelist EXCEPT ![i] = Tail(@)]
           ELSE UNCHANGED freelist
        /\ ~passive /\ takers = {} => UNCHANGED <<eps, failed>>
        /\ takers # {} => \E t \in takers : /\ eps' = Put(i, t[1], t[2].e)
                                            /\ failed' = (failed \/ ~t[2].ok)
        /\ UNCHANGED <<gen, nextSn, bound>>

Lose(i, k) ==
    /\ Fault(1)
    /\ net' = [net EXCEPT ![i] = RemoveAt(@, k)]
    /\ UNCHANGED <<eps, gen, freelist, nextSn, failed, bound>>

-----------------------------------------------------------------------------
Packets(i) == 1 .. Len(net[i])

Step(i) ==
    \/ CreateConnected(i)
    \/ \E k \in Packets(i) : Lose(i, k)
    \/ \E k \in Packets(i), dup \in BOOLEAN : Recv(i, k, dup)
    \/ \E x \in DOMAIN eps[i] : DoPendingCtl(i, x)
    \/ \E x \in DOMAIN eps[i] : Send(i, x)
    \/ \E x \in DOMAIN eps[i] : FlushCancel(i, x)
    \/ \E x \in DOMAIN eps[i] : Disconnect(i, x)
    \/ \E x \in DOMAIN eps[i] : Linger(i, x)
    \/ \E x \in DOMAIN eps[i] : TimerFree(i, x)
    \/ \E x \in DOMAIN eps[i] : TimerProbe(i, x)
    \/ \E x \in DOMAIN eps[i], old \in BOOLEAN : TimerRetry(i, x, old)
    \/ \E x \in DOMAIN eps[i] : TimerTimeout(i, x)
    \/ \E x \in DOMAIN eps[i] : DeferredTimeout(i, x)

Next == \E i \in Ifaces : Step(i)

Spec == Init /\ [][Next]_vars

\* The interfaces go on polling and sending control packets; the timers of one
\* expire whatever the other one does, in the end the linger timer of a closed
\* endpoint and the peer timer of one whose peer is gone.
Progress ==
    \E i \in Ifaces :
        \/ Len(net[i]) > 0 /\ Recv(i, 1, FALSE)
        \/ \E x \in DOMAIN eps[i] :
              DoPendingCtl(i, x) \/ DeferredTimeout(i, x)

Retries(i) == \E x \in DOMAIN eps[i] : Quiet /\ TimerRetry(i, x, TRUE)
CanRetry(i) == \E x \in DOMAIN eps[i] : Quiet /\ TimerActs(eps[i][x])

Ends ==
    \E i \in Ifaces : \E x \in DOMAIN eps[i] :
        \/ Linger(i, x) \/ TimerFree(i, x) \/ TimerTimeout(i, x)
        \/ Quiet /\ TimerProbe(i, x)
CanEnd ==
    \E i \in Ifaces : \E x \in DOMAIN eps[i] :
        \/ eps[i][x].disc /\ ~eps[i][x].aged /\ Quiet
        \/ CanFree(eps[i][x])
        \/ PeerGone(i, eps[i][x]) /\ TimerActs(eps[i][x])
        \/ Quiet /\ CanProbe(eps[i][x])

Fairness ==
    /\ <>[]~Quiet => []<><<Progress>>_vars
    /\ \A i \in Ifaces : []<>CanRetry(i) => []<><<Retries(i)>>_vars
    /\ []<>CanEnd => []<><<Ends>>_vars

LiveSpec == Spec /\ Fairness

-----------------------------------------------------------------------------
(* Properties.                                                              *)

Live == UNION {{<<i, x>> : x \in DOMAIN eps[i]} : i \in Ifaces}
Ep(l) == eps[l[1]][l[2]]

\* No assertion of uct_ud_ep_prepare_creq, uct_ud_ep_prepare_crep,
\* uct_ud_ep_rx_creq, uct_ud_ep_rx_ctl and uct_ud_ep_resend fails, whatever the
\* order in which requests, replies and their retransmissions arrive.
NoAssertionFails == ~failed

\* Two endpoints of an interface never wait for the same connection sequence
\* number: a request that arrives before the user connects leaves a private
\* endpoint, which uct_ud_ep_create_connected_common takes over.
OneMatch ==
    \A k, l \in Live :
        k # l /\ k[1] = l[1] /\ Ep(k).cep /\ Ep(l).cep => Ep(k).sn # Ep(l).sn

\* Endpoints that are connected are connected to each other: an endpoint whose
\* destination is a live one has its sequence number and is its destination,
\* or will be.  Indices are used again; the generation in the id keeps the
\* packets of an earlier endpoint away from a later one.
PairsAgree ==
    \A k, l \in Live :
        k[1] = Peer[l[1]] /\ Ep(k).dest = Ep(l).id =>
            /\ Ep(k).sn = Ep(l).sn
            /\ Ep(l).dest \in {NullId, Ep(k).id}


\* An endpoint is given the messages of its own connection, in order and once,
\* even if the network duplicates them or an earlier endpoint had its index.
DeliveredOnce ==
    \A l \in Live : Ep(l).rcvd = [n \in 1 .. Len(Ep(l).rcvd) |-> <<Ep(l).sn, n>>]

\* A message that has left the window of an open endpoint has reached the
\* other one: neither the ack a request or a reply implies nor the sequence
\* number it sets skips a message.
AckedWasDelivered ==
    \A k, l \in Live :
        k[1] = Peer[l[1]] /\ Ep(k).dest = Ep(l).id /\ Open(Ep(k)) /\ ~Ep(k).late =>
            \A n \in 1 .. Ep(k).next - 1 :
                \/ n <= Len(Ep(l).rcvd)
                \/ \E p \in Range(Ep(k).win) : p.msg = <<Ep(k).sn, n>>

\* As long as the user of the other side closes nothing, every endpoint gets
\* connected and has all it sent acknowledged, also if a request or a reply is
\* lost and if both sides request at once.
EveryoneConnects ==
    []<>(\A l \in Live : Open(Ep(l)) /\ used.close[Peer[l[1]]] = 0 =>
                            Connected(Ep(l)) /\ LastAckReceived(Ep(l)))

=============================================================================
