------------------------------- MODULE RcFlow -------------------------------
(***************************************************************************)
(* Endpoints of the reliable-connected transport (uct/ib/rc, verbs): send   *)
(* resources, moderation of send completions, credit flow control of active *)
(* messages, the queue of pending requests, flush, keepalive and failure.   *)
(*                                                                          *)
(* A handler runs to its end before the next one of the same process, and   *)
(* processes share nothing but the network, so a handler is one action.  It *)
(* is composed of operators on the record w, which holds what the handlers  *)
(* change together:                                                         *)
(*   avail, unsig   txqp.available, txqp.unsignaled of an endpoint          *)
(*   ops            its posted operations that have not completed           *)
(*   wnd, grant     fc.fc_wnd and the flag FC_GRANT                         *)
(*   ka, err        KEEPALIVE_PENDING; ERR_HANDLER_INVOKED or FLUSH_CANCEL  *)
(*   pend, sched    arbiter group of an endpoint, arbiter of an interface   *)
(*   cq             tx.cq_available of an interface                         *)
(*   reads, done    tx.reads_available, tx.reads_completed                  *)
(*   wire           messages on their way to an endpoint                    *)
(*   next           the next message of the user                            *)
(***************************************************************************)
EXTENDS Integers, Sequences, FiniteSets, FiniteSetsExt

CONSTANTS
    Eps, Ifaces,
    IfaceOf,        \* interface of each endpoint
    Peer,           \* endpoint at the other end
    FcWnd,          \* config.fc_wnd_size
    FcSoftThresh,   \* config.fc_soft_thresh
    FcHardThresh,   \* config.fc_hard_thresh
    TxMaxWr,        \* config.tx_max_wr: send queue entries of an endpoint
    TxModeration,   \* config.tx_moderation
    TxCqLen,        \* config.tx_cq_len
    MaxReads,       \* initial reads_available, in reads
    Bounds          \* bounds on what the users do, see variable bound

TxCqReserved == 2
Inf == 65535

ASSUME RcAssumption ==
    /\ IsFiniteSet(Eps)
    /\ IfaceOf \in [Eps -> Ifaces] /\ Peer \in [Eps -> Eps]
    /\ \A e \in Eps : Peer[Peer[e]] = e
    /\ FcWnd \in Nat /\ FcHardThresh \in 1..FcSoftThresh /\ FcSoftThresh \in 1..FcWnd
    /\ TxMaxWr \in 1..Inf /\ TxModeration \in Nat /\ 4 * TxModeration <= TxMaxWr
    /\ TxCqLen \in Nat /\ TxCqLen > TxCqReserved
    /\ MaxReads \in Nat \ {0}
    /\ Bounds \subseteq [msg : [Eps -> Nat], get : [Eps -> Nat],
                         flush : [Eps -> Nat], check : [Eps -> Nat],
                         failing : SUBSET Eps]

VARIABLES
    w,              \* the state of the handlers, see above
    used,           \* reads, flushes and checks the user has started
    rcvd,           \* messages the active message handler has seen
    qpErr,          \* queue pairs in error state
    closing,        \* endpoints the user has given up
    bound           \* most messages, reads, flushes and checks of every
                    \* endpoint, and the endpoints that may fail

vars == <<w, used, rcvd, qpErr, closing, bound>>

TxCqCapacity == TxCqLen - TxCqReserved

Init ==
    /\ w = [avail |-> [e \in Eps |-> TxMaxWr], unsig |-> [e \in Eps |-> 0],
            ops |-> [e \in Eps |-> << >>], wnd |-> [e \in Eps |-> FcWnd],
            grant |-> [e \in Eps |-> FALSE], ka |-> [e \in Eps |-> FALSE],
            err |-> [e \in Eps |-> FALSE], pend |-> [e \in Eps |-> << >>],
            sched |-> [i \in Ifaces |-> << >>],
            cq |-> [i \in Ifaces |-> TxCqCapacity],
            reads |-> [i \in Ifaces |-> MaxReads],
            done |-> [i \in Ifaces |-> 0],
            wire |-> [e \in Eps |-> << >>],
            next |-> [e \in Eps |-> 1]]
    /\ used = [e \in Eps |-> [get |-> 0, flush |-> 0, check |-> 0]]
    /\ rcvd = [e \in Eps |-> << >>]
    /\ qpErr = [e \in Eps |-> FALSE]
    /\ closing = [e \in Eps |-> FALSE]
    /\ bound \in Bounds

Elems(s) == {s[i] : i \in DOMAIN s}

\* The elements of q that are in S, in their order.
Keep(q, S) ==
    LET kept[k \in 0..Len(q)] ==
            IF k = 0 THEN << >>
            ELSE IF q[k] \in S THEN Append(kept[k - 1], q[k]) ELSE kept[k - 1]
    IN  kept[Len(q)]

-----------------------------------------------------------------------------
(* Resources of a send.                                                     *)

HaveCqe(s, e) == s.cq[IfaceOf[e]] > 0
TxCqRes(s, e) == HaveCqe(s, e) /\ s.avail[e] > 0
IfaceHasRes(s, e) == HaveCqe(s, e) /\ s.reads[IfaceOf[e]] > 0
Res(s, e) == TxCqRes(s, e) /\ s.reads[IfaceOf[e]] > 0
EpHasTx(s, e) == s.avail[e] > 0 /\ s.wnd[e] > 0

\* The check for a completion queue entry forces a completion of the next
\* operation when few entries are left, even if a later check fails.
CheckCqe(s, e) ==
    IF s.cq[IfaceOf[e]] \in 1..TxModeration
    THEN [s EXCEPT !.unsig[e] = Inf] ELSE s

\* Mutant: only operations with a completion reserve a queue entry.
PostedUnreserved(s, e, signaled, n) ==
    [s EXCEPT !.unsig[e] = IF signaled THEN 0 ELSE @ + 1,
              !.cq[IfaceOf[e]] = IF signaled THEN @ - n ELSE @,
              !.avail[e] = @ - n]

\* Mutant: operations without completion are not counted.
PostedUncounted(s, e, signaled, n) ==
    [s EXCEPT !.unsig[e] = IF signaled THEN 0 ELSE @,
              !.cq[IfaceOf[e]] = @ - n,
              !.avail[e] = @ - n]

\* uct_rc_txqp_posted: every operation reserves an entry, in case it fails.
Posted(s, e, signaled, n) ==
    [s EXCEPT !.unsig[e] = IF signaled THEN 0 ELSE @ + 1,
              !.cq[IfaceOf[e]] = @ - n,
              !.avail[e] = @ - n]

Moderated(s, e) == s.unsig[e] >= TxModeration

Op(signaled, kind) ==
    [sig |-> signaled, kind |-> kind, flushes |-> 0, err |-> FALSE]

\* uct_rc_verbs_ep_post_send.  With a queue pair in error state at either end
\* nothing is sent, and the operation completes with an error.
Post(s, e, signaled, kind, msg) ==
    LET sig == signaled \/ Moderated(s, e)
        down == qpErr[e] \/ qpErr[Peer[e]]
        out == [Posted(s, e, sig, 1) EXCEPT
                    !.ops[e] = Append(@, [Op(sig, kind) EXCEPT !.err = down])]
    IN  IF msg = << >> \/ down THEN out
        ELSE [out EXCEPT !.wire[Peer[e]] = @ \o msg]

\* uct_rc_fc_req_moderation, for a window at or below the soft threshold.
FcReq(s, e) ==
    IF s.wnd[e] = FcHardThresh THEN "hard"
    ELSE IF s.wnd[e] = FcSoftThresh THEN "soft" ELSE "none"

PureGrant == [id |-> 0, req |-> "none", grant |-> TRUE]

\* UCT_RC_CHECK_RES_AND_FC; the window is positive above the soft threshold.
CanAm(s, e) == Res(s, e) /\ s.wnd[e] > 0

\* uct_rc_verbs_ep_am_short, am_short_iov and am_bcopy: the message takes
\* the grant the endpoint owes its peer.
SendAm(s, e, id) ==
    [Post(s, e, FALSE, "am",
          <<[id |-> id, req |-> FcReq(s, e), grant |-> s.grant[e]]>>)
        EXCEPT !.grant[e] = FALSE, !.wnd[e] = @ - 1]

\* uct_rc_verbs_ep_get_zcopy: reads are not subject to flow control.
SendGet(s, e) ==
    [Post(s, e, TRUE, "get", << >>) EXCEPT !.reads[IfaceOf[e]] = @ - 1]

\* Mutant: the grant waits for a credit of its own window.
CanGrantInWindow(s, e) == TxCqRes(s, e) /\ s.wnd[e] > 0

\* uct_rc_verbs_ep_fc_ctrl ignores the window.
CanGrant(s, e) == TxCqRes(s, e)

SendGrant(s, e) == Post(s, e, FALSE, "am", <<PureGrant>>)

\* uct_rc_verbs_ep_post_flush, and uct_rc_txqp_add_flush_comp at the last
\* posted operation.
PostFlush(s, e, signaled) == Post(s, e, signaled, "flush", << >>)
AddFlushComp(s, e) == [s EXCEPT !.ops[e][Len(s.ops[e])].flushes = @ + 1]

Result(ok, s) == [ok |-> ok, s |-> s]

TryAm(s, e, id) ==
    LET c == CheckCqe(s, e)
    IN  IF CanAm(c, e) THEN Result(TRUE, SendAm(c, e, id)) ELSE Result(FALSE, c)

TryGet(s, e) ==
    LET c == CheckCqe(s, e)
    IN  IF Res(c, e) THEN Result(TRUE, SendGet(c, e)) ELSE Result(FALSE, c)

\* uct_rc_ep_fc_grant
TryGrant(s, e) ==
    LET c == CheckCqe(s, e)
    IN  IF CanGrant(c, e) THEN Result(TRUE, SendGrant(c, e)) ELSE Result(FALSE, c)

\* Does a flush need an operation of its own to get a completion?
FlushNeedsOp(s, e) == s.unsig[e] # 0

\* uct_rc_verbs_ep_flush; cancel ignores the window.
CanFlush(s, e, cancel) ==
    /\ IfaceHasRes(s, e) /\ s.avail[e] > 0
    /\ s.wnd[e] > 0 \/ cancel

FlushOutstanding(s, e) ==
    LET c == CheckCqe(s, e)
    IN  AddFlushComp(IF FlushNeedsOp(s, e) THEN PostFlush(c, e, TRUE) ELSE s, e)

TryFlush(s, e) ==
    IF ~CanFlush(s, e, FALSE) THEN Result(FALSE, s)
    ELSE Result(TRUE, IF s.avail[e] = TxMaxWr THEN s ELSE FlushOutstanding(s, e))

\* uct_rc_ep_check_internal with uct_rc_verbs_ep_post_check
TryCheck(s, e, comp) ==
    LET c == CheckCqe(s, e)
    IN  IF s.avail[e] <= 0 THEN Result(~comp, s)
        ELSE IF ~HaveCqe(s, e) THEN Result(FALSE, s)
        ELSE Result(TRUE, IF comp THEN AddFlushComp(PostFlush(c, e, TRUE), e)
                                  ELSE PostFlush(c, e, FALSE))

\* uct_rc_ep_check_progress: an earlier request may have done the work.
CheckProgress(s, e, comp) ==
    LET t == TryCheck(s, e, comp)
    IN  IF ~comp /\ ~s.ka[e] THEN Result(TRUE, s)
        ELSE IF t.ok THEN Result(TRUE, [t.s EXCEPT !.ka[e] = FALSE])
        ELSE t

Req(op, arg) == [op |-> op, arg |-> arg]

Invoke(s, e, r) ==
    CASE r.op = "am"    -> TryAm(s, e, r.arg)
      [] r.op = "get"   -> TryGet(s, e)
      [] r.op = "flush" -> TryFlush(s, e)
      [] r.op = "grant" -> TryGrant(s, e)
      [] r.op = "check" -> CheckProgress(s, e, r.arg)

-----------------------------------------------------------------------------
(* The queue of pending requests.                                           *)

\* ucs_arbiter_group_schedule
Schedule(s, e) ==
    IF s.pend[e] = << >> \/ e \in Elems(s.sched[IfaceOf[e]]) THEN s
    ELSE [s EXCEPT !.sched[IfaceOf[e]] = Append(@, e)]

Busy(s, e) == EpHasTx(s, e) /\ IfaceHasRes(s, e)

\* Mutant: the group is scheduled when the interface has resources.
AddedIfaceOnly(s, e) == IF IfaceHasRes(s, e) THEN Schedule(s, e) ELSE s

\* An endpoint without resources of its own is scheduled when it gets them.
Added(s, e) == IF EpHasTx(s, e) THEN Schedule(s, e) ELSE s

PendingAdd(s, e, r) ==
    IF Busy(s, e) THEN Result(FALSE, s)
    ELSE Result(TRUE, Added([s EXCEPT !.pend[e] = Append(@, r)], e))

\* uct_rc_ep_process_pending, and what the arbiter does with its result.
ProcessPending(d, i) ==
    LET s == d.s
        e == Head(s.sched[i])
        t == Invoke(s, e, Head(s.pend[e]))
        rest == Tail(s.sched[i])
    IN  IF d.stop \/ s.sched[i] = << >> THEN d
        ELSE IF t.ok
             THEN [d EXCEPT !.s = [t.s EXCEPT
                      !.pend[e] = Tail(@),
                      !.sched[i] = IF Tail(s.pend[e]) = << >> THEN rest
                                   ELSE Append(rest, e)]]
        ELSE IF ~IfaceHasRes(t.s, e) THEN [d EXCEPT !.s = t.s, !.stop = TRUE]
        ELSE [d EXCEPT !.s = [t.s EXCEPT !.sched[i] = rest]]

Requests(s) == UNION {{e} \X DOMAIN s.pend[e] : e \in Eps}

\* uct_rc_iface_arbiter_dispatch: one request per group and turn, until the
\* interface lacks resources or no group is scheduled.  A turn that does not
\* end it takes a request off its queue or a group off the schedule.
Dispatch(s, i) ==
    LET steps == Cardinality(Requests(s)) + Len(s.sched[i])
        run[n \in 0..steps] ==
            IF n = 0 THEN [s |-> s, stop |-> FALSE]
            ELSE ProcessPending(run[n - 1], i)
    IN  run[steps].s

Unschedule(s, e) ==
    [s EXCEPT !.sched[IfaceOf[e]] = Keep(@, Eps \ {e})]

UserReqs(s, e) ==
    Keep(s.pend[e], {r \in Elems(s.pend[e]) : r.op \notin {"grant", "check"}})

\* Mutant: the flag survives its request.
PurgeInternalKeepFlag(s, e) ==
    LET user == UserReqs(s, e)
        t == [s EXCEPT !.pend[e] = user]
    IN  IF user = << >> THEN Unschedule(t, e) ELSE t

\* ucs_arbiter_group_purge with uct_rc_ep_arbiter_purge_internal_cb
PurgeInternal(s, e) ==
    LET user == UserReqs(s, e)
        check == \E r \in Elems(s.pend[e]) : r.op = "check"
        t == [s EXCEPT !.pend[e] = user, !.ka[e] = @ /\ ~check]
    IN  IF user = << >> THEN Unschedule(t, e) ELSE t

-----------------------------------------------------------------------------
(* Operations of the user.  One that is refused joins the pending queue.    *)

Submit(s, e, r) ==
    LET t == Invoke(s, e, r)
    IN  IF t.ok THEN t ELSE PendingAdd(t.s, e, r)

SubmitAm(s, e) ==
    LET t == Submit(s, e, Req("am", s.next[e]))
    IN  IF t.ok THEN [t.s EXCEPT !.next[e] = @ + 1] ELSE t.s

Open(e) == ~closing[e]

Am(e) ==
    /\ Open(e) /\ w.next[e] <= bound.msg[e]
    /\ w' = SubmitAm(w, e)
    /\ UNCHANGED <<used, rcvd, qpErr, closing, bound>>

Get(e) ==
    LET t == Submit(w, e, Req("get", 0))
    IN  /\ Open(e) /\ used[e].get < bound.get[e]
        /\ w' = t.s
        /\ used' = IF t.ok THEN [used EXCEPT ![e].get = @ + 1] ELSE used
        /\ UNCHANGED <<rcvd, qpErr, closing, bound>>

Flush(e) ==
    LET t == Submit(w, e, Req("flush", 0))
    IN  /\ Open(e) /\ used[e].flush < bound.flush[e]
        /\ w' = t.s
        /\ used' = IF t.ok THEN [used EXCEPT ![e].flush = @ + 1] ELSE used
        /\ UNCHANGED <<rcvd, qpErr, closing, bound>>

\* uct_rc_ep_check.  The flag is set after the request is queued, whether or
\* not it has a completion.
Check(e, comp) ==
    LET t == TryCheck(w, e, comp)
    IN  /\ Open(e) /\ used[e].check < bound.check[e]
        /\ comp \/ ~w.ka[e]
        /\ w' = IF t.ok THEN t.s
                ELSE [PendingAdd(t.s, e, Req("check", comp)).s EXCEPT
                        !.ka[e] = TRUE]
        /\ used' = [used EXCEPT ![e].check = @ + 1]
        /\ UNCHANGED <<rcvd, qpErr, closing, bound>>

\* uct_rc_ep_pending_purge, when the user gives the endpoint up.
Purge(e) ==
    /\ e \in bound.failing /\ (Open(e) \/ w.pend[e] # << >>)
    /\ closing' = [closing EXCEPT ![e] = TRUE]
    /\ w' = Unschedule([PurgeInternal(w, e) EXCEPT !.pend[e] = << >>], e)
    /\ UNCHANGED <<used, rcvd, qpErr, bound>>

-----------------------------------------------------------------------------
(* Progress.                                                                *)

\* A grant restores the whole window, and serves the requests that waited.
Granted(s, e) ==
    LET t == [s EXCEPT !.wnd[e] = FcWnd]
    IN  IF s.wnd[e] <= 0 THEN Dispatch(Schedule(t, e), IfaceOf[e]) ELSE t

\* A hard request is answered at once, or ahead of all pending requests.
HardRequested(s, e) ==
    LET t == TryGrant(s, e)
    IN  IF t.ok THEN t.s
        ELSE Schedule([t.s EXCEPT !.pend[e] = <<Req("grant", 0)>> \o @], e)

\* uct_rc_iface_fc_handler without the call of the user's handler.
FcHandler(s, e, m) ==
    LET t == IF m.grant THEN Granted(s, e) ELSE s
    IN  IF s.err[e] THEN s
        ELSE CASE m.req = "soft" -> [t EXCEPT !.grant[e] = TRUE]
               [] m.req = "hard" -> HardRequested(t, e)
               [] OTHER -> t

\* uct_rc_verbs_iface_handle_am, for the next message of the endpoint.
Recv(e) ==
    LET m == Head(w.wire[e])
        s == [w EXCEPT !.wire[e] = Tail(@)]
    IN  /\ w.wire[e] # << >>
        /\ w' = FcHandler(s, e, m)
        /\ rcvd' = IF m.id = 0 THEN rcvd ELSE [rcvd EXCEPT ![e] = Append(@, m.id)]
        /\ UNCHANGED <<used, qpErr, closing, bound>>

Count(ops, Test(_)) == Cardinality({k \in DOMAIN ops : Test(ops[k])})
IsGet(op) == op.kind = "get"


\* uct_rc_txqp_completion_desc: completion handlers of the first n operations
\* free the read credits but do not return them.
Completed(s, e, n) ==
    [s EXCEPT !.done[IfaceOf[e]] = @ + Count(SubSeq(s.ops[e], 1, n), IsGet)]

UpdateReads(s, i) == [s EXCEPT !.reads[i] = @ + s.done[i], !.done[i] = 0]

\* uct_rc_verbs_update_tx_res
UpdateTxRes(s, e, n) ==
    LET i == IfaceOf[e]
    IN  UpdateReads([s EXCEPT !.ops[e] = SubSeq(@, n + 1, Len(@)),
                              !.avail[e] = @ + n, !.cq[i] = @ + n], i)

\* Operations up to the next one that gives a completion queue entry.
NextCqe(e) == {k \in DOMAIN w.ops[e] : w.ops[e][k].sig \/ w.ops[e][k].err}
HasCallback(op) == op.kind = "get" \/ op.flushes > 0

\* uct_rc_verbs_iface_poll_tx after the completion callbacks
TxDone(s, e, n) == Dispatch(UpdateTxRes(Schedule(s, e), e, n), IfaceOf[e])

PollTx(e) ==
    LET n == Min(NextCqe(e))
    IN  /\ NextCqe(e) # {} /\ ~w.ops[e][n].err
        /\ w' = TxDone(Completed(w, e, n), e, n)
        /\ UNCHANGED <<used, rcvd, qpErr, closing, bound>>

\* The same, with a completion callback that sends a message on endpoint x.
PollTxCallback(e, x) ==
    LET n == Min(NextCqe(e))
    IN  /\ NextCqe(e) # {} /\ ~w.ops[e][n].err
        /\ \E k \in 1..n : HasCallback(w.ops[e][k])
        /\ IfaceOf[x] = IfaceOf[e] /\ Open(x) /\ w.next[x] <= bound.msg[x]
        /\ w' = TxDone(SubmitAm(Completed(w, e, n), x), e, n)
        /\ UNCHANGED <<used, rcvd, qpErr, closing, bound>>

-----------------------------------------------------------------------------
(* Failure of a connection.                                                 *)

\* Operations after the first ok ones fail.
FailedOps(ops, ok) == [k \in DOMAIN ops |-> [ops[k] EXCEPT !.err = @ \/ k > ok]]
MarkFailed(s, e, ok) == [s EXCEPT !.ops[e] = FailedOps(@, ok)]

IsSend(op) == op.kind = "am"

\* How many messages the operations after the first ok ones may have lost.
MayLose(s, e, ok) == Count(SubSeq(s.ops[e], ok + 1, Len(s.ops[e])), IsSend)

\* The network gives up: both queue pairs go to error state.  Messages of
\* failed operations may have arrived or not.
QpError(e) ==
    LET f == Peer[e]
    IN  /\ e \in bound.failing /\ ~qpErr[e]
        /\ qpErr' = [qpErr EXCEPT ![e] = TRUE, ![f] = TRUE]
        /\ \E okE \in 0..Len(w.ops[e]), okF \in 0..Len(w.ops[f]),
              nE \in 0..Len(w.wire[e]), nF \in 0..Len(w.wire[f]) :
             /\ Len(w.wire[f]) - nF <= MayLose(w, e, okE)
             /\ Len(w.wire[e]) - nE <= MayLose(w, f, okF)
             /\ w' = [MarkFailed(MarkFailed(w, e, okE), f, okF) EXCEPT
                        !.wire[e] = SubSeq(w.wire[e], 1, nE),
                        !.wire[f] = SubSeq(w.wire[f], 1, nF)]
        /\ UNCHANGED <<used, rcvd, closing, bound>>

\* uct_rc_verbs_handle_failure: uct_rc_txqp_purge_outstanding completes the
\* operations and returns their read credits; the user is told once.
HandleFailure(e) ==
    LET n == Min(NextCqe(e))
        s == UpdateTxRes(PurgeInternal(UpdateReads(Completed(w, e, n), IfaceOf[e]),
                                       e), e, n)
        told == [s EXCEPT !.err[e] = TRUE, !.wnd[e] = FcWnd]
    IN  /\ NextCqe(e) # {} /\ w.ops[e][n].err
        /\ w' = Dispatch(IF s.err[e] THEN s ELSE told, IfaceOf[e])
        /\ closing' = [closing EXCEPT ![e] = TRUE]
        /\ UNCHANGED <<used, rcvd, qpErr, bound>>

\* uct_rc_verbs_ep_flush(CANCEL), after the pending requests were purged: the
\* queue pair goes to error state, and what has not completed fails.
FlushCancel(e) ==
    LET s == [FlushOutstanding(w, e) EXCEPT !.err[e] = TRUE]
        f == Peer[e]
    IN  /\ closing[e] /\ w.pend[e] = << >> /\ ~w.err[e]
        /\ CanFlush(w, e, TRUE) /\ w.avail[e] # TxMaxWr
        /\ \E ok \in 0..Len(s.ops[e]), n \in 0..Len(w.wire[f]) :
             /\ Len(w.wire[f]) - n <= MayLose(s, e, ok)
             /\ w' = [MarkFailed(s, e, ok) EXCEPT !.wire[f] = SubSeq(@, 1, n)]
        /\ qpErr' = [qpErr EXCEPT ![e] = TRUE]
        /\ UNCHANGED <<used, rcvd, closing, bound>>

-----------------------------------------------------------------------------

Next ==
    \E e \in Eps :
        \/ Am(e) \/ Get(e) \/ Flush(e) \/ Purge(e)
        \/ \E comp \in BOOLEAN : Check(e, comp)
        \/ Recv(e) \/ PollTx(e)
        \/ \E x \in Eps : PollTxCallback(e, x)
        \/ QpError(e) \/ HandleFailure(e) \/ FlushCancel(e)

Spec == Init /\ [][Next]_vars

\* uct_rc_verbs_iface_progress
Progress(i) ==
    \E e \in Eps : IfaceOf[e] = i /\ (Recv(e) \/ PollTx(e) \/ HandleFailure(e))

\* When Progress(i) is enabled.
HasWork(i) ==
    \E e \in Eps : IfaceOf[e] = i /\ (w.wire[e] # << >> \/ NextCqe(e) # {})

\* The user calls uct_worker_progress for ever: weak fairness of Progress(i),
\* with its enabling condition written out.
Fairness ==
    \A i \in Ifaces : <>[]HasWork(i) => []<><<Progress(i)>>_vars

FairSpec == Spec /\ Fairness

-----------------------------------------------------------------------------
(* Properties                                                               *)


\* A group with pending requests is scheduled unless its endpoint lacks send
\* queue entries or credits, whose return schedules it: no request is
\* forgotten (uct_rc_ep_pending_add, uct_rc_ep_process_pending).
PendingScheduled ==
    \A e \in Eps :
        w.pend[e] # << >> /\ ~w.err[e] /\ EpHasTx(w, e)
            => e \in Elems(w.sched[IfaceOf[e]])

\* "there is at least one signaled operation": an endpoint without send queue
\* entries has an operation outstanding that will give a completion, and so
\* has an interface without completion queue entries.
StuckHasSignal ==
    /\ \A e \in Eps : w.avail[e] <= 0 => \E op \in Elems(w.ops[e]) : op.sig \/ op.err
    /\ \A i \in Ifaces : w.cq[i] <= 0 =>
          \E e \in Eps : /\ IfaceOf[e] = i
                         /\ \E op \in Elems(w.ops[e]) : op.sig \/ op.err

Outstanding(s, i) ==
    UNION {{e} \X DOMAIN s.ops[e] : e \in {x \in Eps : IfaceOf[x] = i}}

\* The completion queue never overflows, even when every operation of every
\* endpoint fails and gives an entry of its own (uct_rc_txqp_posted).
CqNeverOverflows ==
    \A i \in Ifaces : Cardinality(Outstanding(w, i)) <= TxCqCapacity

\* While the flag KEEPALIVE_PENDING suppresses keepalive checks, a check is
\* in the pending queue.
KeepaliveArmed ==
    \A e \in Eps : w.ka[e] => \E r \in Elems(w.pend[e]) : r.op = "check"

Alive(e) == ~qpErr[e] /\ ~qpErr[Peer[e]] /\ ~closing[e] /\ ~closing[Peer[e]]

Served(e) ==
    /\ w.pend[e] = << >> /\ w.wire[e] = << >>
    /\ \A op \in Elems(w.ops[e]) : op.kind # "get" /\ op.flushes = 0

\* On a connection that does not fail every message arrives, every read and
\* every flush completes and no request stays pending, even when both ends
\* are out of credits or another connection of the interface fails.
EveryRequestServed ==
    <>[](\A e \in Eps : Alive(e) => Served(e))

=============================================================================
