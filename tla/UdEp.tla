-------------------------------- MODULE UdEp --------------------------------
(***************************************************************************)
(* One connected UD endpoint (uct_ud_ep_t) and the code that transforms it: *)
(* sliding window, congestion avoidance, acknowledgement, retransmission,   *)
(* purge.  Every operator takes the endpoint record and returns the new     *)
(* one; the modules that extend this one put them together into handlers.   *)
(*                                                                          *)
(* A packet sequence number is kept as a natural number whose value modulo  *)
(* PsnMod is the 16-bit register of the code.  Comparisons only ever look   *)
(* at the residues, the way UCS_CIRCULAR_COMPARE16 does.                    *)
(***************************************************************************)
EXTENDS Integers, Sequences, FiniteSets

CONSTANTS
    PsnMod,         \* number of values of uct_ud_psn_t (2^16 in the code)
    InitialPsn,     \* psn of the first message of the behaviour
    MinWindow,      \* UCT_UD_CA_MIN_WINDOW
    MaxWindow,      \* ca.wmax, the configured maximal window
    ResendsPerAck   \* UCT_UD_RESENDS_PER_ACK

Half == PsnMod \div 2

ASSUME UdEpAssumption ==
    /\ PsnMod \in Nat /\ InitialPsn \in Nat /\ MinWindow \in Nat
    /\ MaxWindow \in Nat /\ ResendsPerAck \in Nat
    /\ InitialPsn > 0 /\ MinWindow > 1 /\ ResendsPerAck > 0
    /\ MinWindow <= MaxWindow
    /\ 2 * MaxWindow + 2 < Half

\* The signed difference of two 16-bit registers.
PsnDiff(a, b) == ((a - b + Half) % PsnMod) - Half
PsnLt(a, b) == PsnDiff(a, b) < 0
PsnLe(a, b) == PsnDiff(a, b) <= 0
PsnEq(a, b) == PsnDiff(a, b) = 0

-----------------------------------------------------------------------------
(* Buffers of the transmit window and the endpoint itself. *)

Ops == {"ACK", "ACK_REQ", "RESEND", "NACK"}
CtlAck == {"ACK", "ACK_REQ", "NACK"}

\* An skb is known by its psn and, for the dummy skb of a flush, the number
\* of that flush.  Begin stands for the iterator at the head of the window,
\* any other iterator stands behind the skb it names.
Id(skb) == <<skb.psn, skb.flush>>
Begin == <<0, 0>>

\* Control descriptor of a bare acknowledgement: it refers to no sent skb.
AckDesc == <<0, 0>>

Skb(psn, flush, big, comp, ackreq) ==
    [psn |-> psn, flush |-> flush, big |-> big, comp |-> comp,
     ackreq |-> ackreq, resending |-> FALSE]

Reset ==
    [psn |-> InitialPsn, cwnd |-> MinWindow, acked_psn |-> InitialPsn - 1,
     max_psn |-> InitialPsn + MinWindow, ops |-> {}, window |-> << >>,
     resend_pos |-> Begin, resend_psn |-> InitialPsn,
     resend_max |-> InitialPsn - 1, resend_count |-> 0, tx_nacked |-> FALSE,
     rx_acked |-> InitialPsn - 1, head_sn |-> InitialPsn - 1,
     outstanding |-> << >>, async_comp_q |-> {}, comps |-> {},
     pending_q |-> << >>, delivered |-> << >>,
     timer |-> FALSE, timeouts |-> 0, life |-> "open"]

SkbType == [psn : Nat, flush : Nat, big : BOOLEAN, comp : BOOLEAN,
            ackreq : BOOLEAN, resending : BOOLEAN]
CompType == [psn : Nat, flush : Nat, status : {"OK", "TIMEOUT", "CANCELED"}]
PacketType == [am : BOOLEAN, psn : Nat, ack : Nat, ackreq : BOOLEAN,
               nack : BOOLEAN]
Lives == {"open", "cancelling", "cancelled", "failed", "disconnected", "freed"}
EpType ==
    [psn : Nat, cwnd : MinWindow..MaxWindow, acked_psn : Nat, max_psn : Nat,
     ops : SUBSET Ops, window : Seq(SkbType), resend_pos : Nat \X Nat,
     resend_psn : Nat, resend_max : Nat, resend_count : Int,
     tx_nacked : BOOLEAN, rx_acked : Nat, head_sn : Nat,
     outstanding : Seq(Nat \X Nat), async_comp_q : SUBSET CompType,
     comps : SUBSET CompType, pending_q : Seq(Nat), delivered : Seq(Nat),
     timer : BOOLEAN, timeouts : Nat, life : Lives]

\* The sequence numbers seq follow each other, from first on.
Run(seq, first) == \A i \in 1..Len(seq) : seq[i] = first + i - 1

\* The window holds message n.
Holds(window, n) ==
    \E i \in DOMAIN window : window[i].psn = n /\ window[i].flush = 0

-----------------------------------------------------------------------------
(* Control operations, congestion avoidance and window. *)

CtlOpAdd(s, op) == [s EXCEPT !.ops = @ \cup {op}]

NoWindow(s) == ~PsnLt(s.psn, s.max_psn)

\* Mutant: the last message does not count.
IsLastAckReceivedEarly(s) == PsnLe(s.psn - 2, s.acked_psn)

IsLastAckReceived(s) == PsnEq(s.acked_psn, s.psn - 1)

\* The quarter-of-the-window test is done on the 16-bit values.
ReqAck(s) ==
    \/ PsnEq(s.psn, (3 * (s.acked_psn % PsnMod) + (s.max_psn % PsnMod)) \div 4)
    \/ PsnEq(s.psn + 1, s.max_psn)
    \/ "ACK_REQ" \in s.ops

ResetMaxPsn(s) == [s EXCEPT !.max_psn = s.psn + s.cwnd]

\* Mutant: the floor of the congestion window is forgotten.
CaDropNoFloor(s) ==
    LET cwnd == s.cwnd \div 2
        max  == s.acked_psn + cwnd
    IN  [s EXCEPT !.cwnd = cwnd,
                  !.max_psn = IF PsnLt(s.psn, max) THEN s.psn ELSE max]

CaDrop(s) ==
    LET half == s.cwnd \div 2
        cwnd == IF half < MinWindow THEN MinWindow ELSE half
        max  == s.acked_psn + cwnd
    IN  [s EXCEPT !.cwnd = cwnd,
                  !.max_psn = IF PsnLt(s.psn, max) THEN s.psn ELSE max]

CaAck(s) ==
    LET cwnd == IF s.cwnd < MaxWindow THEN s.cwnd + 1 ELSE s.cwnd
    IN  [s EXCEPT !.cwnd = cwnd, !.max_psn = s.acked_psn + cwnd]

ResendStart(s) ==
    [s EXCEPT !.resend_max = s.psn - 1, !.resend_psn = s.acked_psn + 1,
              !.resend_pos = Begin, !.ops = @ \cup {"RESEND"}]

ResendEnd(s) == [s EXCEPT !.ops = @ \ {"RESEND"}, !.tx_nacked = FALSE]

ResendAck(s) ==
    IF PsnLt(s.resend_max, s.resend_psn)
    THEN s
    ELSE IF PsnLt(s.acked_psn, s.resend_max)
    THEN LET behind == PsnLe(s.resend_psn, s.acked_psn)
         IN  [s EXCEPT
                !.resend_pos = IF behind THEN Begin ELSE @,
                !.resend_psn = IF behind THEN s.acked_psn + 1 ELSE @,
                !.ops = @ \cup {"RESEND"}]
    ELSE ResendEnd([s EXCEPT !.resend_psn = s.resend_max + 1])

-----------------------------------------------------------------------------
(* Releasing the window: completions go to the user, or to the queue of    *)
(* completions the main thread dispatches when the caller is the async     *)
(* thread.                                                                 *)

\* Mutants: an skb that is being resent is released; psns are compared as
\* plain 16-bit numbers.
SkbIsCompletedResending(skb, ack) == PsnLe(skb.psn, ack)
SkbIsCompletedLinear(skb, ack) ==
    skb.psn % PsnMod <= ack % PsnMod /\ ~skb.resending

SkbIsCompleted(skb, ack) == PsnLe(skb.psn, ack) /\ ~skb.resending

\* Number of skbs ucs_queue_for_each_extract takes off the head.
NumCompleted(window, ack) ==
    CHOOSE n \in 0..Len(window) :
        /\ \A i \in 1..n : SkbIsCompleted(window[i], ack)
        /\ n < Len(window) => ~SkbIsCompleted(window[n + 1], ack)

Comp(skb, status) ==
    [psn |-> skb.psn, flush |-> skb.flush, status |-> status]

\* Completions of the skbs that carry one.  Those of one release are kept
\* as a set, the order inside it being that of the window.
CompsOf(skbs, status) ==
    {Comp(skbs[i], status) : i \in {j \in DOMAIN skbs : skbs[j].comp}}

WindowRelease(s, status, is_async, invalidate_resend) ==
    LET n      == NumCompleted(s.window, s.acked_psn)
        comps  == CompsOf(SubSeq(s.window, 1, n), status)
        reset  == /\ invalidate_resend
                  /\ \E i \in 1..n : s.resend_pos = Id(s.window[i])
    IN  [s EXCEPT
           !.window = SubSeq(@, n + 1, Len(@)),
           !.resend_pos = IF reset THEN Begin ELSE @,
           !.resend_psn = IF reset THEN s.acked_psn + 1 ELSE @,
           !.async_comp_q = IF is_async THEN @ \cup comps ELSE @,
           !.comps = IF is_async THEN @ ELSE @ \cup comps]

\* Mutant: any acknowledgement is one of everything sent so far.
ProcessAckAll(s, ack_psn, is_async) ==
    IF PsnLe(ack_psn, s.acked_psn) \/ PsnLe(s.psn, ack_psn)
    THEN s
    ELSE ResendAck(CaAck(WindowRelease([s EXCEPT !.acked_psn = s.psn - 1],
                                       "OK", is_async, FALSE)))

ProcessAck(s, ack_psn, is_async) ==
    IF PsnLe(ack_psn, s.acked_psn) \/ PsnLe(s.psn, ack_psn)
    THEN s
    ELSE ResendAck(CaAck(WindowRelease([s EXCEPT !.acked_psn = ack_psn],
                                       "OK", is_async, FALSE)))

\* Send completion of control descriptor d.
ClearResending(window, d) ==
    [i \in DOMAIN window |->
        IF Id(window[i]) \in d THEN [window[i] EXCEPT !.resending = FALSE]
                               ELSE window[i]]

\* Mutant: the release does not reset the resend iterator.
CtlSkbCompleteStalePos(s, d, is_async) ==
    WindowRelease([s EXCEPT !.window = ClearResending(@, {d}),
                            !.resend_count = IF d = AckDesc THEN @ ELSE @ - 1],
                  "OK", is_async, FALSE)

CtlSkbComplete(s, d, is_async) ==
    WindowRelease([s EXCEPT !.window = ClearResending(@, {d}),
                            !.resend_count = IF d = AckDesc THEN @ ELSE @ - 1],
                  "OK", is_async, TRUE)

DispatchAsyncComps(s) ==
    [s EXCEPT !.comps = @ \cup s.async_comp_q, !.async_comp_q = {}]

IsResend(d) == d # AckDesc

\* All control descriptors of the endpoint complete at once; each of them
\* releases what it can, which is the same as one release after the last.
PurgeOutstanding(s) ==
    LET resent == SelectSeq(s.outstanding, IsResend)
        cleared == [s EXCEPT
                      !.window = ClearResending(@,
                                     {resent[i] : i \in DOMAIN resent}),
                      !.resend_count = @ - Len(resent),
                      !.outstanding = << >>]
    IN  IF s.outstanding = << >> THEN s
        ELSE WindowRelease(cleared, "OK", FALSE, TRUE)

\* Mutant: acked_psn is not moved to the last psn.
PurgeKeepsAcked(s, status) ==
    LET cleared == PurgeOutstanding(ResetMaxPsn(DispatchAsyncComps(s)))
    IN  WindowRelease([cleared EXCEPT !.ops = {}], status, FALSE, FALSE)

Purge(s, status) ==
    LET cleared == PurgeOutstanding(ResetMaxPsn(DispatchAsyncComps(s)))
    IN  WindowRelease([cleared EXCEPT !.ops = {}, !.acked_psn = s.psn - 1],
                      status, FALSE, FALSE)

-----------------------------------------------------------------------------
(* Sending.  A packet carries the psn of the sender and acknowledges what  *)
(* the sender has received.                                                *)

Packet(am, psn, ack, ackreq, nack) ==
    [am |-> am, psn |-> psn, ack |-> ack, ackreq |-> ackreq, nack |-> nack]

\* A new active message, pushed on the window; the timer is (re)armed.
SendAm(s, skb) ==
    [s EXCEPT !.rx_acked = s.head_sn, !.ops = @ \ {"ACK", "ACK_REQ"},
              !.psn = @ + 1, !.window = Append(@, skb), !.timer = TRUE]

\* Mutant: the packet carries the next psn expected, not the last received.
AckPacketNext(s) ==
    Packet(FALSE, s.psn, s.head_sn + 1, "ACK_REQ" \in s.ops, "NACK" \in s.ops)

\* A bare control packet; one that requests an ack is signaled and holds a
\* control descriptor until its send completion.
AckPacket(s) ==
    Packet(FALSE, s.psn, s.head_sn, "ACK_REQ" \in s.ops, "NACK" \in s.ops)

SendAck(s) ==
    [s EXCEPT !.rx_acked = s.head_sn, !.ops = @ \ CtlAck,
              !.outstanding = IF "ACK_REQ" \in s.ops
                              THEN Append(@, AckDesc) ELSE @]

\* The resend iterator is at the end of the window, or points to skb i.
ResendAtEnd(s) ==
    IF s.window = << >> THEN s.resend_pos = Begin
    ELSE s.resend_pos = Id(s.window[Len(s.window)])

ResendAt(s, i) ==
    IF i = 1 THEN s.resend_pos = Begin
    ELSE s.resend_pos = Id(s.window[i - 1])

\* Why uct_ud_ep_resend gives up: nothing left to resend, out of window, or
\* a large message the peer has not asked for.
ResendDone(s) == PsnLe(s.resend_max, s.acked_psn) \/ ResendAtEnd(s)

\* Mutant: a NACK does not allow large messages to be resent.
ResendBlockedForEver(s, skb) == ~PsnLt(skb.psn, s.max_psn) \/ skb.big

ResendBlocked(s, skb) ==
    ~PsnLt(skb.psn, s.max_psn) \/ (~s.tx_nacked /\ skb.big)

\* The iterator steps over what is being resent already and over the dummy
\* skb of a flush.
ResendSkips(skb) == skb.resending \/ skb.flush # 0

ResendSkip(s, i) == [s EXCEPT !.resend_pos = Id(s.window[i])]

ResendPacket(s, psn) ==
    Packet(TRUE, psn, s.rx_acked,
           \/ (psn % PsnMod) % ResendsPerAck = 0
           \/ PsnEq(psn, s.acked_psn + 1),
           FALSE)

ResendSkb(s, i) ==
    LET skb  == s.window[i]
        last == PsnEq(skb.psn, s.resend_max)
        sent == [s EXCEPT
                   !.resend_pos = Id(skb),
                   !.window[i].resending = TRUE,
                   !.resend_psn = IF last THEN s.resend_max + 1 ELSE skb.psn,
                   !.outstanding = Append(@, Id(skb)),
                   !.resend_count = @ + 1]
    IN  IF last THEN ResendEnd(sent) ELSE sent

-----------------------------------------------------------------------------
(* Parts of a flush, of a cancel and of an expiry of the timer.            *)

\* The op is raised; it is sent at once unless other control is pending.
AckReqDo(s) ==
    IF s.ops \subseteq {"ACK_REQ"} THEN SendAck(CtlOpAdd(s, "ACK_REQ"))
    ELSE CtlOpAdd(s, "ACK_REQ")

AckReqOut(s) ==
    IF s.ops \subseteq {"ACK_REQ"} THEN {AckPacket(CtlOpAdd(s, "ACK_REQ"))}
    ELSE {}

\* The dummy skb that completes flush n when the last psn is acknowledged.
CompSkbAdd(s, n) ==
    LET dummy == Skb(s.psn - 1, n, FALSE, TRUE, TRUE)
    IN  IF s.window # << >>
        THEN [s EXCEPT !.window = Append(@, dummy)]
        ELSE [s EXCEPT !.async_comp_q = @ \cup {Comp(dummy, "OK")}]

FlushIdle(s) == s.window = << >> /\ s.async_comp_q = {}

\* flush(LOCAL) with a completion; one that finds nothing outstanding
\* returns UCS_OK, which counts as a completion here.
FlushDone(s, n) ==
    [s EXCEPT !.comps =
        @ \cup {[psn |-> s.psn - 1, flush |-> n, status |-> "OK"]}]

\* Everything counts as acknowledged from here on.
CancelAcks(s) == [ResetMaxPsn(s) EXCEPT !.acked_psn = s.psn - 1]

\* Ticks since the last send or resend: after one an ack is requested,
\* after three the silence is treated as a drop.
Ticks == {1, 2, 4}

AfterTicks(s, ticks) ==
    LET dropped == IF ticks > 3 THEN ResendStart(CaDrop(s)) ELSE s
    IN  IF ticks > 1 THEN CtlOpAdd(dropped, "ACK_REQ") ELSE s

-----------------------------------------------------------------------------
(* Receiving: what uct_ud_ep_process_rx does to a connected endpoint.      *)

\* Mutant: a message behind a gap is accepted.
FragListInsertGap(s, psn) == IF PsnLe(psn, s.head_sn) THEN "DUP" ELSE "FAST"

\* Order of the received packets; out-of-order packets are not kept.
FragListInsert(s, psn) ==
    IF PsnEq(psn, s.head_sn + 1) THEN "FAST"
    ELSE IF PsnLe(psn, s.head_sn) THEN "DUP" ELSE "FAIL"

Deliver(s, psn, is_async) ==
    [s EXCEPT !.head_sn = psn,
              !.pending_q = IF is_async THEN Append(@, psn) ELSE @,
              !.delivered = IF is_async THEN @ ELSE Append(@, psn)]

ProcessRx(s, p, is_async) ==
    LET acked  == ProcessAck(s, p.ack, is_async)
        ack_op == IF p.ackreq THEN {"ACK"} ELSE {}
        nack_op == IF PsnLt(s.head_sn + 1, p.psn) THEN {"NACK"} ELSE {}
        rx     == [acked EXCEPT !.ops = @ \cup ack_op \cup nack_op]
    IN  IF ~p.am
        THEN [rx EXCEPT !.tx_nacked = @ \/ p.nack]
        ELSE IF FragListInsert(rx, p.psn) = "FAST"
        THEN Deliver(rx, p.psn, is_async)
        ELSE rx

\* One call hands at most rx_max_poll messages to their handlers: n of them.
DispatchPendingRx(s, n) ==
    [s EXCEPT !.delivered = @ \o SubSeq(s.pending_q, 1, n),
              !.pending_q = SubSeq(@, n + 1, Len(@))]

-----------------------------------------------------------------------------
(* Invariants of an endpoint on its own: what it sends, what it receives.  *)

TxInv(s) ==
    /\ InitialPsn - 1 <= s.acked_psn /\ s.acked_psn < s.psn
    /\ s.psn <= s.acked_psn + MaxWindow + 1
    /\ s.acked_psn < s.max_psn /\ s.max_psn <= s.acked_psn + MaxWindow + 1
    /\ \A i \in DOMAIN s.window : s.window[i].psn < s.psn
    /\ \A n \in s.acked_psn + 1 .. s.psn - 1 : Holds(s.window, n)
    /\ s.life = "open" => \A c \in s.async_comp_q : c.psn <= s.acked_psn

RxInv(s) ==
    /\ InitialPsn - 1 <= s.rx_acked /\ s.rx_acked <= s.head_sn
    /\ Len(s.delivered) + Len(s.pending_q) = s.head_sn - (InitialPsn - 1)
    /\ Run(s.delivered, InitialPsn)
    /\ Run(s.pending_q, InitialPsn + Len(s.delivered))

=============================================================================
