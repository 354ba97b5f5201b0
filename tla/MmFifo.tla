------------------------------- MODULE MmFifo -------------------------------
(***************************************************************************)
(* The shared-memory transport (uct/sm/mm/base): several processes write    *)
(* active messages to the receive FIFO of one process.  Sender and receiver *)
(* share no lock; every action is one access to the shared memory, with the *)
(* private work of the process around it.                                   *)
(*                                                                          *)
(* head and tail count elements for ever, the element of index i is i       *)
(* modulo FifoSize.  Bit 63 of head, "signal me", is the variable armed.    *)
(***************************************************************************)
EXTENDS Integers, Sequences, FiniteSets

CONSTANTS
    Senders,        \* processes that write to the FIFO, one endpoint each
    FifoSize,       \* config.fifo_size, a power of two
    Release,        \* fifo_release_factor_mask + 1: tail update batch
    Descs,          \* receive descriptors, at least one per element and one
    NoDesc,         \* last_recv_desc == NULL
    Kinds,          \* subset of {"short", "bcopy"}
    MayKeep,        \* may handlers keep the descriptor (UCS_INPROGRESS)?
    MayArm,         \* may the receiver wait for an event?
    MsgBudget,      \* bound: messages of each sender
    PurgeBudget,    \* bound: calls of pending_purge by each sender
    AttachFailures, \* bound: times a sender cannot attach a remote segment
    SignalCap       \* bound: signals the receiver's socket holds

ASSUME MmFifoAssumption ==
    /\ FifoSize \in Nat \ {0, 1} /\ Release \in 1..FifoSize
    /\ FifoSize % Release = 0
    /\ IsFiniteSet(Descs) /\ Cardinality(Descs) > FifoSize
    /\ NoDesc \notin Descs
    /\ Kinds \subseteq {"short", "bcopy"}
    /\ MayKeep \in BOOLEAN /\ MayArm \in BOOLEAN
    /\ MsgBudget \in [Senders -> Nat]
    /\ PurgeBudget \in Nat /\ AttachFailures \in Nat
    /\ SignalCap \in Nat \ {0}

VARIABLES
    head, armed,    \* fifo_ctl->head without and with bit 63
    tail,           \* fifo_ctl->tail
    elem,           \* FIFO elements
    mem,            \* contents of the receive descriptors
    signals,        \* datagrams in the receiver's signal socket
    snd,            \* endpoints of the senders
    rcv             \* the receiving interface

vars == <<head, armed, tail, elem, mem, signals, snd, rcv>>

\* A message is known by its sender and number; number 0 is no message.
Msg(p, n) == [from |-> p, n |-> n]

\* The entry of the arbiter group that stands for "this endpoint lacks room".
ArbElem == [n |-> 0, kind |-> "short"]
Request(n, kind) == [n |-> n, kind |-> kind]

\* One descriptor per element and one for last_recv_desc; all are alike.
InitDesc ==
    CHOOSE desc \in [0..FifoSize -> Descs] :
        \A i, j \in 0..FifoSize : desc[i] = desc[j] => i = j

NoMsg == Msg(CHOOSE p \in Senders : TRUE, 0)

\* Senders find the FIFO of a receiver that has been initialised.
Init ==
    /\ head = 0 /\ armed = FALSE /\ tail = 0 /\ signals = 0
    /\ elem = [i \in 0..FifoSize - 1 |->
                [owner |-> 1, inline |-> FALSE, desc |-> InitDesc[i],
                 data |-> NoMsg]]
    /\ mem = [d \in Descs |-> NoMsg]
    /\ rcv = [pc |-> "run", read_index |-> 0, head |-> 0,
              last_recv_desc |-> InitDesc[FifoSize],
              pool |-> Descs \ {InitDesc[i] : i \in 0..FifoSize},
              held |-> {}, delivered |-> [p \in Senders |-> << >>]]
    /\ snd = [p \in Senders |->
                [pc |-> "idle", req |-> ArbElem, pend |-> FALSE, head |-> 0,
                 armed |-> FALSE, cached_tail |-> 0, group |-> << >>,
                 next |-> 1, flushed |-> 0, lost |-> {}, purges |-> 0,
                 failures |-> 0]]

\* Mutant: one element too many.
AbleToSendOneMore(hd, tl) == hd - tl <= FifoSize

AbleToSend(hd, tl) == hd - tl < FifoSize

Elem(i) == i % FifoSize

\* The owner bit flips after every turn of the FIFO.
OwnerBit(i) == (i \div FifoSize) % 2

-----------------------------------------------------------------------------
(* Sending: uct_mm_ep_am_common_send, called by the user or by a pending    *)
(* request.  The user submits its messages in order; a message that was     *)
(* refused is queued, or tried again later.                                 *)

\* A call returns: its local variables are gone.
Return(s) == [s EXCEPT !.pc = "idle", !.pend = FALSE, !.req = ArbElem,
                       !.head = 0, !.armed = FALSE]

StartSend(p, kind) ==
    /\ snd[p].pc = "idle"
    /\ snd[p].next <= MsgBudget[p]
    /\ snd' = [snd EXCEPT ![p].pc = "try", ![p].pend = FALSE,
                          ![p].req = Request(snd[p].next, kind)]
    /\ UNCHANGED <<head, armed, tail, elem, mem, signals, rcv>>

\* UCS_ERR_NO_RESOURCE: a pending request goes back to the head of its
\* group and ends the dispatch, the user goes on to queue the message.
Refused(s) ==
    IF s.pend THEN Return([s EXCEPT !.group = <<s.req>> \o @])
              ELSE [s EXCEPT !.pc = "add", !.head = 0, !.armed = FALSE]

\* Mutant: the tail is refreshed although requests are waiting.
GroupEmptyIgnored(s) == TRUE

\* The group cannot be empty while one of its requests is dispatched.
GroupEmpty(s) == s.group = << >> /\ ~s.pend

TryHead(p) ==
    LET s == snd[p]
        seen == [s EXCEPT !.head = head, !.armed = armed]
    IN  /\ s.pc = "try"
        /\ snd' = [snd EXCEPT ![p] =
                    IF AbleToSend(head, s.cached_tail)
                    THEN [seen EXCEPT !.pc = "cas"]
                    ELSE IF GroupEmpty(s) THEN [seen EXCEPT !.pc = "tail"]
                    ELSE Refused(s)]
        /\ UNCHANGED <<head, armed, tail, elem, mem, signals, rcv>>

TryTail(p) ==
    LET s == [snd[p] EXCEPT !.cached_tail = tail]
    IN  /\ s.pc = "tail"
        /\ snd' = [snd EXCEPT ![p] =
                    IF AbleToSend(s.head, tail) THEN [s EXCEPT !.pc = "cas"]
                    ELSE Refused([s EXCEPT !.group = <<ArbElem>>])]
        /\ UNCHANGED <<head, armed, tail, elem, mem, signals, rcv>>

\* uct_mm_ep_get_remote_elem: compare and swap, which disarms the head.
GetRemoteElem(p) ==
    LET s == snd[p]
    IN  /\ s.pc = "cas"
        /\ IF head = s.head /\ armed = s.armed
           THEN /\ head' = s.head + 1 /\ armed' = FALSE
                /\ snd' = [snd EXCEPT ![p].pc = "write"]
           ELSE /\ snd' = [snd EXCEPT ![p].pc = "try"]
                /\ UNCHANGED <<head, armed>>
        /\ UNCHANGED <<tail, elem, mem, signals, rcv>>

WriteData(p) ==
    LET s == snd[p]
        i == Elem(s.head)
    IN  /\ s.pc = "write"
        /\ \/ /\ s.req.kind = "short"
              /\ elem' = [elem EXCEPT ![i].data = Msg(p, s.req.n)]
              /\ UNCHANGED mem
           \/ /\ s.req.kind = "bcopy"
              /\ mem' = [mem EXCEPT ![elem[i].desc] = Msg(p, s.req.n)]
              /\ UNCHANGED elem
        /\ snd' = [snd EXCEPT ![p].pc = "flags"]
        /\ UNCHANGED <<head, armed, tail, signals, rcv>>

\* The message was handed over, or failed: back to the user, or to the
\* dispatch of the rest of the group.
Done(s) ==
    IF ~s.pend THEN Return([s EXCEPT !.next = @ + 1])
    ELSE IF s.group = << >> THEN Return(s)
    ELSE [Return(s) EXCEPT !.pc = "disp"]

\* The remote segment cannot be attached: the error goes to the user, which
\* drops the message or the pending request.  The element that was reserved is
\* never completed.
AttachFails(p) ==
    LET s == snd[p]
    IN  /\ s.pc = "write" /\ s.req.kind = "bcopy"
        /\ s.failures < AttachFailures
        /\ snd' = [snd EXCEPT ![p] = Done([s EXCEPT
                    !.failures = @ + 1, !.lost = @ \cup {s.req.n}])]
        /\ UNCHANGED <<head, armed, tail, elem, mem, signals, rcv>>

SetFlags(p) ==
    LET s == snd[p]
        i == Elem(s.head)
    IN  /\ s.pc = "flags"
        /\ elem' = [elem EXCEPT ![i].owner = OwnerBit(s.head),
                                ![i].inline = s.req.kind = "short"]
        /\ snd' = [snd EXCEPT ![p] = IF s.armed THEN [s EXCEPT !.pc = "signal"]
                                                ELSE Done(s)]
        /\ UNCHANGED <<head, armed, tail, mem, signals, rcv>>

\* A full socket refuses the datagram, the sender ignores it.
SignalRemote(p) ==
    /\ snd[p].pc = "signal"
    /\ signals' = IF signals < SignalCap THEN signals + 1 ELSE signals
    /\ snd' = [snd EXCEPT ![p] = Done(snd[p])]
    /\ UNCHANGED <<head, armed, tail, elem, mem, rcv>>

-----------------------------------------------------------------------------
(* Pending requests, flush. *)

\* UCS_ERR_BUSY sends the user back to the send.
PendingAdd(p) ==
    LET s == snd[p]
    IN  /\ s.pc = "add"
        /\ snd' = [snd EXCEPT ![p] =
                    IF AbleToSend(head, s.cached_tail)
                    THEN [s EXCEPT !.pc = "try"]
                    ELSE Return([s EXCEPT !.next = @ + 1,
                                          !.group = Append(@, s.req)])]
        /\ UNCHANGED <<head, armed, tail, elem, mem, signals, rcv>>

\* The user does not queue the message, it will try again.
GiveUp(p) ==
    /\ snd[p].pc = "add"
    /\ snd' = [snd EXCEPT ![p] = Return(snd[p])]
    /\ UNCHANGED <<head, armed, tail, elem, mem, signals, rcv>>

\* Progress dispatches the group until it is empty or lacks room
\* (ucs_arbiter_dispatch, uct_mm_ep_process_pending).
StartDispatch(p) ==
    /\ snd[p].pc = "idle" /\ snd[p].group # << >>
    /\ snd' = [snd EXCEPT ![p].pc = "disp"]
    /\ UNCHANGED <<head, armed, tail, elem, mem, signals, rcv>>

\* Mutant: the pending queue is served with the tail that was cached.
ProcessPendingTailStale(p) ==
    /\ snd[p].pc = "disp"
    /\ snd' = [snd EXCEPT ![p].pc = "process"]
    /\ UNCHANGED <<head, armed, tail, elem, mem, signals, rcv>>

ProcessPendingTail(p) ==
    /\ snd[p].pc = "disp"
    /\ snd' = [snd EXCEPT ![p].cached_tail = tail, ![p].pc = "process"]
    /\ UNCHANGED <<head, armed, tail, elem, mem, signals, rcv>>

ProcessPending(p) ==
    LET s == snd[p]
        rest == Tail(s.group)
        first == Head(s.group)
    IN  /\ s.pc = "process"
        /\ snd' = [snd EXCEPT ![p] =
                    IF ~AbleToSend(head, s.cached_tail)
                    THEN [s EXCEPT !.pc = "idle"]
                    ELSE IF first = ArbElem
                    THEN Done([s EXCEPT !.group = rest, !.pend = TRUE])
                    ELSE [s EXCEPT !.group = rest, !.pend = TRUE,
                                   !.req = first, !.pc = "try"]]
        /\ UNCHANGED <<head, armed, tail, elem, mem, signals, rcv>>

\* uct_mm_ep_flush: flushed remembers what the last UCS_OK covered.
FlushOk(s) == [s EXCEPT !.pc = "idle", !.flushed = s.next - 1]

\* Mutant: the waiting requests are not looked at.
FlushNoGroup(p) ==
    LET s == snd[p]
    IN  /\ s.pc = "idle"
        /\ \/ /\ AbleToSend(head, s.cached_tail)
              /\ snd' = [snd EXCEPT ![p] = FlushOk(s)]
           \/ /\ ~AbleToSend(head, s.cached_tail)
              /\ snd' = [snd EXCEPT ![p].pc = "flush_tail"]
        /\ UNCHANGED <<head, armed, tail, elem, mem, signals, rcv>>

Flush(p) ==
    LET s == snd[p]
    IN  /\ s.pc = "idle"
        /\ \/ /\ AbleToSend(head, s.cached_tail)
              /\ snd' = [snd EXCEPT ![p] = FlushOk(s)]
           \/ /\ ~AbleToSend(head, s.cached_tail) /\ GroupEmpty(s)
              /\ snd' = [snd EXCEPT ![p].pc = "flush_tail"]
        /\ UNCHANGED <<head, armed, tail, elem, mem, signals, rcv>>

FlushTail(p) ==
    /\ snd[p].pc = "flush_tail"
    /\ snd' = [snd EXCEPT ![p].cached_tail = tail, ![p].pc = "flush"]
    /\ UNCHANGED <<head, armed, tail, elem, mem, signals, rcv>>

FlushAgain(p) ==
    LET s == snd[p]
    IN  /\ s.pc = "flush"
        /\ snd' = [snd EXCEPT ![p] =
                    IF AbleToSend(head, s.cached_tail) THEN FlushOk(s)
                    ELSE [s EXCEPT !.pc = "idle"]]
        /\ UNCHANGED <<head, armed, tail, elem, mem, signals, rcv>>

\* uct_mm_ep_pending_purge: the requests go back to the user.
PendingPurge(p) ==
    LET s == snd[p]
    IN  /\ s.pc = "idle" /\ s.group # << >> /\ s.purges < PurgeBudget
        /\ snd' = [snd EXCEPT ![p].group = << >>, ![p].purges = @ + 1,
                    ![p].lost = @ \cup {s.group[i].n : i \in DOMAIN s.group}]
        /\ UNCHANGED <<head, armed, tail, elem, mem, signals, rcv>>

-----------------------------------------------------------------------------
(* Receiving. *)

HasNewData ==
    elem[Elem(rcv.read_index)].owner = OwnerBit(rcv.read_index)

Deliver(r, msg) == [r EXCEPT !.delivered[msg.from] = Append(@, msg.n)]

\* The next element; the tail is written once per batch.
NextElem(r) ==
    [r EXCEPT !.read_index = @ + 1,
              !.pc = IF (r.read_index + 1) % Release = 0 THEN "tail" ELSE "run"]

\* ucs_mpool_get: any free descriptor, or NoDesc.
MpoolGet(pool) == IF pool = {} THEN {NoDesc} ELSE pool

PollShort ==
    LET e == elem[Elem(rcv.read_index)]
    IN  /\ rcv.pc = "run" /\ HasNewData /\ e.inline
        /\ rcv' = NextElem(Deliver(rcv, e.data))
        /\ UNCHANGED <<head, armed, tail, elem, mem, signals, snd>>

\* last_recv_desc, or a descriptor of the pool if there is none.
Spares ==
    IF rcv.last_recv_desc # NoDesc THEN {rcv.last_recv_desc}
                                   ELSE MpoolGet(rcv.pool)

HasSpare(spare) == spare # NoDesc

\* Mutant: the element keeps the descriptor that the handler keeps.
AssignDescSkipped(i, desc) == elem

\* uct_mm_assign_desc_to_fifo_elem
AssignDesc(i, desc) == [elem EXCEPT ![i].desc = desc]

\* Mutant: the descriptor given to the element stays last_recv_desc.
RenewLastKeep(spare, pool) == {spare}

\* "the last_recv_desc is in use. get a new descriptor for it"
RenewLast(spare, pool) == MpoolGet(pool)

\* A bcopy message.  Without a spare descriptor it is not delivered.  A
\* handler that keeps the descriptor leaves the spare one to the element.
PollBcopy(keep) ==
    LET i == Elem(rcv.read_index)
        d == elem[i].desc
    IN  /\ rcv.pc = "run" /\ HasNewData /\ ~elem[i].inline
        /\ \E spare \in Spares :
             LET pool == rcv.pool \ {spare}
                 got == [Deliver(rcv, mem[d]) EXCEPT !.pool = pool,
                                                     !.last_recv_desc = spare]
             IN  \/ /\ ~HasSpare(spare) /\ ~keep
                    /\ rcv' = NextElem(rcv)
                    /\ UNCHANGED elem
                 \/ /\ HasSpare(spare) /\ ~keep
                    /\ rcv' = NextElem(got)
                    /\ UNCHANGED elem
                 \/ /\ HasSpare(spare) /\ keep
                    /\ elem' = AssignDesc(i, spare)
                    /\ \E new \in RenewLast(spare, pool) :
                        rcv' = NextElem([got EXCEPT !.held = @ \cup {d},
                                                    !.last_recv_desc = new,
                                                    !.pool = @ \ {new}])
        /\ UNCHANGED <<head, armed, tail, mem, signals, snd>>

ProgressFifoTail ==
    /\ rcv.pc = "tail"
    /\ tail' = rcv.read_index
    /\ rcv' = [rcv EXCEPT !.pc = "run"]
    /\ UNCHANGED <<head, armed, elem, mem, signals, snd>>

ReleaseDesc(d) ==
    /\ rcv.pc = "run" /\ d \in rcv.held
    /\ rcv' = [rcv EXCEPT !.held = @ \ {d}, !.pool = @ \cup {d}]
    /\ UNCHANGED <<head, armed, tail, elem, mem, signals, snd>>

-----------------------------------------------------------------------------
(* Waiting for an event: uct_mm_iface_event_fd_arm, then the signal socket. *)

EventFdArm ==
    /\ MayArm /\ rcv.pc = "run"
    /\ ~(head > rcv.read_index)
    /\ rcv' = IF armed THEN [rcv EXCEPT !.pc = "socket"]
               ELSE [rcv EXCEPT !.pc = "arm", !.head = head]
    /\ UNCHANGED <<head, armed, tail, elem, mem, signals, snd>>

\* Mutant: the head is marked with a store, not with a compare and swap.
ArmHeadStore ==
    /\ rcv.pc = "arm"
    /\ armed' = TRUE
    /\ rcv' = [rcv EXCEPT !.pc = "socket", !.head = 0]
    /\ UNCHANGED <<head, tail, elem, mem, signals, snd>>

ArmHead ==
    /\ rcv.pc = "arm"
    /\ IF head = rcv.head /\ ~armed
       THEN /\ armed' = TRUE
            /\ rcv' = [rcv EXCEPT !.pc = "socket", !.head = 0]
       ELSE /\ rcv' = [rcv EXCEPT !.pc = "run", !.head = 0]
            /\ UNCHANGED armed
    /\ UNCHANGED <<head, tail, elem, mem, signals, snd>>

CheckSocket ==
    /\ rcv.pc = "socket"
    /\ IF signals > 0
       THEN /\ signals' = signals - 1
            /\ rcv' = [rcv EXCEPT !.pc = "run"]
       ELSE /\ rcv' = [rcv EXCEPT !.pc = "sleep"]
            /\ UNCHANGED signals
    /\ UNCHANGED <<head, armed, tail, elem, mem, snd>>

\* External: the event loop wakes up for a datagram in the socket.
Wake ==
    /\ rcv.pc = "sleep" /\ signals > 0
    /\ rcv' = [rcv EXCEPT !.pc = "run"]
    /\ UNCHANGED <<head, armed, tail, elem, mem, signals, snd>>

SenderStep(p) ==
    \/ TryHead(p) \/ TryTail(p) \/ GetRemoteElem(p) \/ WriteData(p)
    \/ SetFlags(p) \/ SignalRemote(p) \/ PendingAdd(p) \/ StartDispatch(p)
    \/ ProcessPendingTail(p) \/ ProcessPending(p)
    \/ FlushTail(p) \/ FlushAgain(p)

UserStep(p) ==
    \/ \E kind \in Kinds : StartSend(p, kind)
    \/ GiveUp(p)
    \/ Flush(p)
    \/ PendingPurge(p)
    \/ AttachFails(p)

Poll == PollShort \/ \E keep \in {FALSE, MayKeep} : PollBcopy(keep)

Next ==
    \/ \E p \in Senders : SenderStep(p) \/ UserStep(p)
    \/ Poll
    \/ ProgressFifoTail
    \/ \E d \in rcv.held : ReleaseDesc(d)
    \/ EventFdArm \/ ArmHead \/ CheckSocket \/ Wake

Spec == Init /\ [][Next]_vars

\* Processes keep running and every worker is progressed again and again,
\* whatever else its user calls meanwhile: a receiver whose arming was
\* refused progresses before it arms again (uct_iface_event_arm).
Fairness ==
    /\ \A p \in Senders : WF_vars(SenderStep(p)) /\ SF_vars(StartDispatch(p))
    /\ SF_vars(Poll)
    /\ WF_vars(ProgressFifoTail \/ ArmHead \/ CheckSocket \/ Wake)

FairSpec == Spec /\ Fairness

-----------------------------------------------------------------------------
(* Properties. *)

\* The handlers see the messages of each sender in the order it submitted
\* them, none twice and none left out but those the sender was told about,
\* whatever was queued, refused, retried or written meanwhile by others.
FifoOrder ==
    \A p \in Senders :
        LET seen == rcv.delivered[p]
        IN  \A i \in DOMAIN seen :
                /\ seen[i] \in 1 .. snd[p].next
                /\ \A n \in 1 .. seen[i] - 1 :
                      n \in snd[p].lost \/ \E j \in 1 .. i - 1 : seen[j] = n
                /\ \A j \in 1 .. i - 1 : seen[j] < seen[i]

\* While requests wait no new message can be sent past them: the endpoint's
\* view of the tail leaves no room.  uct_mm_ep_am_common_send looks at the
\* pending group only when there is no room, uct_mm_ep_pending_add asserts
\* that the group is empty when there is.
NoRoomWhilePending ==
    \A p \in Senders :
        /\ snd[p].group # << >> /\ ~snd[p].pend
        /\ snd[p].pc \notin {"disp", "process"}
        => ~AbleToSend(head, snd[p].cached_tail)

\* A flush that returned UCS_OK covers everything submitted before it:
\* nothing of that is waiting in the group (uct_mm_ep_flush).
FlushCovers ==
    \A p \in Senders : \A i \in DOMAIN snd[p].group :
        snd[p].group[i] = ArbElem \/ snd[p].group[i].n > snd[p].flushed

\* Two senders never write the same element, and none writes an element the
\* receiver has not released (uct_mm_ep_get_remote_elem).
Writing(p) == snd[p].pc \in {"write", "flags"}

SlotExclusive ==
    \A p \in Senders : Writing(p) =>
        /\ rcv.read_index <= snd[p].head
        /\ snd[p].head < tail + FifoSize
        /\ \A q \in Senders \ {p} : Writing(q) =>
              Elem(snd[p].head) # Elem(snd[q].head)

\* Every descriptor is in exactly one place: an element, last_recv_desc, the
\* pool, or the hands of a handler (uct_mm_iface_process_recv).
DescOwnership ==
    LET inFifo == {elem[i].desc : i \in 0 .. FifoSize - 1}
        last == {rcv.last_recv_desc} \ {NoDesc}
    IN  /\ Cardinality(inFifo) = FifoSize
        /\ inFifo \cap (last \cup rcv.pool \cup rcv.held) = {}
        /\ last \cap (rcv.pool \cup rcv.held) = {}
        /\ rcv.pool \cap rcv.held = {}
        /\ inFifo \cup last \cup rcv.pool \cup rcv.held = Descs

\* Data a handler has kept is not overwritten until it is released.
HeldDataStable == [][\A d \in rcv.held : mem'[d] = mem[d]]_vars

\* A receiver that went to sleep and has something to read is going to be
\* woken: a signal is in the socket or its sender is about to send it.
NoLostWakeup ==
    rcv.pc = "sleep" /\ HasNewData =>
        signals > 0 \/ \E p \in Senders : snd[p].pc = "signal"

\* A message that is taken off the FIFO is delivered, also when the pool of
\* receive descriptors has run out: the FIFO fills up and "the sender
\* shouldn't be able to send".
TakenIsDelivered ==
    [][rcv'.read_index # rcv.read_index => rcv'.delivered # rcv.delivered]_vars

\* Everything submitted is delivered in the end, though the tail is written
\* in batches, senders wait for room and the receiver goes to sleep.
AllDelivered ==
    []<>(\A p \in Senders :
            {rcv.delivered[p][i] : i \in DOMAIN rcv.delivered[p]}
            = (1 .. snd[p].next - 1) \ snd[p].lost)

=============================================================================
