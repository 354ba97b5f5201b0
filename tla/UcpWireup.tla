------------------------------ MODULE UcpWireup ------------------------------
(***************************************************************************)
(* How UCP endpoints made from a worker address are wired up (ucp/wireup):  *)
(* REQUEST, REPLY and ACK messages, simultaneous requests, the matching of  *)
(* endpoints by connection sequence number, endpoints no user owns yet, and *)
(* the proxy that holds back the user's requests until the lane is ready.   *)
(*                                                                          *)
(* An endpoint has one lane, and both workers select the same transport     *)
(* for it, so that no lane is replaced.  A transport that connects endpoint *)
(* to endpoint (bound.p2p) sends the wireup messages over an auxiliary      *)
(* endpoint; one that connects to the interface sends them over the lane.   *)
(* Both are reliable and in order, and a request waits behind the ones that *)
(* are already pending on them.                                             *)
(*                                                                          *)
(* An endpoint is a record:                                                 *)
(*   id, dest, sn  its index in the worker, the peer worker, conn_sn        *)
(*   user          does a user own it?                                      *)
(*   flags         ID, LOCAL, REMOTE, QUEUED, REP_SENT for REMOTE_ID,       *)
(*                 LOCAL_CONNECTED, REMOTE_CONNECTED, CONNECT_REQ_QUEUED    *)
(*                 and CONNECT_REP_SENT                                     *)
(*   queue         the queue of the matching context it is on               *)
(*   rid           remote_ep_id, 0 when there is none                       *)
(*   conn          remote endpoint whose lane its lane is connected to      *)
(*   proxy         NONE, WAIT or READY: a wireup_ep is on the lane          *)
(*   held          pending_q of the wireup_ep: requests of the user         *)
(*   auxq, laneq   pending on the auxiliary endpoint and on the lane        *)
(*   auxnet, lanenet   wireup messages on their way to the peer             *)
(*   oneshot       callbacks EPS and ACK of the worker's progress           *)
(*   issued, sent  requests of the user, and those the lane has taken       *)
(***************************************************************************)
EXTENDS Integers, Sequences, SequencesExt, FiniteSets

CONSTANTS
    Workers,
    Uuid,           \* identifiers of the workers
    Bounds          \* bounds on what the users and the transports do

ASSUME UcpWireupAssumption ==
    /\ Uuid \in [Workers -> Nat]
    /\ \A v, w \in Workers : Uuid[v] = Uuid[w] => v = w
    /\ Bounds \subseteq
          [create : [Workers -> [Workers -> Nat]], sends : Nat, busy : Nat,
           p2p : BOOLEAN, resolve : BOOLEAN, noloop : BOOLEAN, maxSn : Nat]
    /\ \A b \in Bounds : b.maxSn % 2 = 1

VARIABLES
    eps,            \* endpoints of a worker
    nextSn,         \* next_conn_sn of a peer in the matching context of a worker
    busy,           \* times a transport had no resources
    failed,         \* has an assertion of the code failed?
    bound           \* the bounds of this behaviour

vars == <<eps, nextSn, busy, failed, bound>>

\* UCP_EP_MATCH_CONN_SN_MAX, a number with all bits set
MaxSn == bound.maxSn

Init ==
    /\ eps = [w \in Workers |-> <<>>]
    /\ nextSn = [w \in Workers |-> [d \in Workers |-> 0]]
    /\ busy = 0
    /\ failed = FALSE
    /\ bound \in Bounds

-----------------------------------------------------------------------------
(* Sending.                                                                 *)

\* What a step does to its endpoint, and whether the assertions it makes hold.
Result(e, ok) == [e |-> e, ok |-> ok]

\* ucp_wireup_ep_get_msg_ep: the auxiliary endpoint or the lane itself
OnAux(e) == e.proxy # "NONE" /\ bound.p2p

\* ucp_wireup_msg_prepare
Msg(e, type) ==
    [kind |-> type, src |-> e.id, dst |-> IF "ID" \in e.flags THEN e.rid ELSE 0,
     sn |-> e.sn]

Data(n) == [kind |-> "DATA", n |-> n]

\* ucp_wireup_msg_progress: is the message no longer needed?
Obsolete(e, m) == m.kind = "REQUEST" /\ "REMOTE" \in e.flags

\* ucp_wireup_msg_progress with a transport that takes the message
PostMsg(e, m) ==
    LET flagged == [e EXCEPT !.flags = @ \cup
                        (IF m.kind = "REPLY" THEN {"REP_SENT"} ELSE {})]
    IN  IF Obsolete(e, m) THEN e
        ELSE IF OnAux(e) THEN [flagged EXCEPT !.auxnet = Append(@, m)]
             ELSE [flagged EXCEPT !.lanenet = Append(@, m)]

\* ucp_request_send of a wireup message: it is sent, or pending on the
\* transport (through ucp_wireup_ep_pending_add when there is a wireup_ep)
SendMsg(e, type, room) ==
    LET m == Msg(e, type)
        q == IF OnAux(e) THEN e.auxq ELSE e.laneq
    IN  IF Obsolete(e, m) \/ (room /\ q = <<>>) THEN PostMsg(e, m)
        ELSE IF OnAux(e) THEN [e EXCEPT !.auxq = Append(@, m)]
             ELSE [e EXCEPT !.laneq = Append(@, m)]

\* A request of the user: the wireup_ep has no resources and queues it.
SendData(e, d, room) ==
    IF e.proxy # "NONE" THEN [e EXCEPT !.held = Append(@, d)]
    ELSE IF room /\ e.laneq = <<>> THEN [e EXCEPT !.sent = Append(@, d.n)]
         ELSE [e EXCEPT !.laneq = Append(@, d)]

\* pending_count: wireup messages that are pending below a wireup_ep
PendingCount(e) ==
    IF e.proxy = "NONE" THEN 0
    ELSE Len(e.auxq) + Len(SelectSeq(e.laneq, LAMBDA r : r.kind # "DATA"))

\* ucp_wireup_send_request
SendRequest(e, room) ==
    [SendMsg(e, "REQUEST", room) EXCEPT !.flags = @ \cup {"QUEUED"}]

\* Mutant: requests that are pending on the lane stay there.
ConnectRemoteKeepPending(e, room) ==
    LET wrapped == [e EXCEPT !.proxy = "WAIT"]
    IN  Result(IF "QUEUED" \in e.flags THEN wrapped ELSE SendRequest(wrapped, room),
               "REMOTE" \notin e.flags)

\* ucp_wireup_connect_remote: a wireup_ep on the lane, the request, and then
\* what was pending on the lane
ConnectRemote(e, room) ==
    LET wrapped == [e EXCEPT !.proxy = "WAIT", !.laneq = <<>>]
        asked == IF "QUEUED" \in e.flags THEN wrapped ELSE SendRequest(wrapped, room)
        Requeue(a, r) == IF r.kind = "DATA" THEN [a EXCEPT !.held = Append(@, r)]
                         ELSE [a EXCEPT !.laneq = Append(@, r)]
    IN  Result(FoldLeft(Requeue, asked, e.laneq), "REMOTE" \notin e.flags)

\* ucp_ep_resolve_remote_id
Resolve(e, room) ==
    IF "ID" \in e.flags \/ e.proxy # "NONE" THEN Result(e, TRUE)
    ELSE ConnectRemote(e, room)

-----------------------------------------------------------------------------
(* Steps.                                                                   *)

Put(E, w, e) ==
    [E EXCEPT ![w] = IF e.id > Len(@) THEN Append(@, e) ELSE [@ EXCEPT ![e.id] = e]]

\* The step of worker w that results in r, with the endpoints E before it;
\* without room the transport has no resources for what is sent.
Take(E, w, r, room) ==
    /\ room \/ busy < bound.busy
    /\ busy' = IF room THEN busy ELSE busy + 1
    /\ eps' = Put(E, w, r.e)
    /\ failed' = (failed \/ ~r.ok)
    /\ UNCHANGED bound

\* conn_sn ^ (remote_uuid == worker->uuid)
MatchSn(w, d, sn) == IF w # d THEN sn ELSE IF sn % 2 = 0 THEN sn + 1 ELSE sn - 1

\* Mutant: a queue of the matching context is searched without regard to conn_sn.
MatchingAny(w, d, sn, queue) ==
    IF sn = MaxSn THEN {}
    ELSE {x \in DOMAIN eps[w] : eps[w][x].queue = queue /\ eps[w][x].dest = d}

\* ucs_conn_match_get_elem; a queue holds a sequence number once, but if it
\* holds it twice the older element is found
Matching(w, d, sn, queue) ==
    LET found == {x \in DOMAIN eps[w] : eps[w][x].queue = queue
                                        /\ eps[w][x].dest = d /\ eps[w][x].sn = sn}
    IN  IF sn = MaxSn THEN {} ELSE {x \in found : \A y \in found : x <= y}

\* ucp_ep_create_base with ucp_wireup_init_lanes for an endpoint without lanes
NewEp(w, d, sn, user, queue) ==
    [id |-> Len(eps[w]) + 1, dest |-> d, sn |-> sn, user |-> user,
     flags |-> IF bound.p2p THEN {} ELSE {"LOCAL"},
     queue |-> IF sn = MaxSn THEN "NONE" ELSE queue, rid |-> 0, conn |-> 0,
     proxy |-> IF bound.p2p THEN "WAIT" ELSE "NONE",
     held |-> <<>>, auxq |-> <<>>, laneq |-> <<>>, auxnet |-> <<>>, lanenet |-> <<>>,
     oneshot |-> <<>>, issued |-> 0, sent |-> <<>>]

\* ucp_ep_update_remote_id
UpdateRemoteId(e, id) ==
    Result([e EXCEPT !.flags = @ \cup {"ID"}, !.rid = id],
           /\ "ID" \in e.flags => e.rid = id
           /\ id # 0)

\* ucp_ep_match_retrieve
Retrieved(e) ==
    Result([e EXCEPT !.queue = "NONE"],
           e.queue = "UNEXP" => "ID" \in e.flags)

\* ucp_ep_match_remove_ep: the queue is the one the flags tell
MatchRemove(e) ==
    Result([e EXCEPT !.queue = "NONE"],
           e.queue # "NONE" => e.queue = IF "ID" \in e.flags THEN "UNEXP" ELSE "EXP")

-----------------------------------------------------------------------------
(* The user.                                                                *)

UserEps(w, d) == {x \in DOMAIN eps[w] : eps[w][x].user /\ eps[w][x].dest = d}

\* ucp_ep_create_api_to_worker_addr when an endpoint that no user owns waits
Adopt(w, x, room) ==
    LET r == Retrieved(eps[w][x])
        owned == [r.e EXCEPT !.user = TRUE]
        resolved == IF bound.resolve THEN Resolve(owned, room) ELSE Result(owned, TRUE)
    IN  Result(resolved.e, r.ok /\ resolved.ok)

\* ucp_ep_create_api_to_worker_addr when none waits
Create(w, d, sn, room) ==
    LET base == NewEp(w, d, sn, TRUE, "EXP")
        placed == IF d = w /\ ~bound.noloop
                  THEN [UpdateRemoteId(base, base.id).e EXCEPT !.queue = "NONE"]
                  ELSE base
        asked == IF "LOCAL" \in placed.flags THEN placed ELSE SendRequest(placed, room)
    IN  IF bound.resolve THEN Resolve(asked, room) ELSE Result(asked, TRUE)

\* Mutant: the user is given a new endpoint always.
EpCreateNew(w, d, room) ==
    LET sn == nextSn[w][d]
    IN  /\ Cardinality(UserEps(w, d)) < bound.create[w][d]
        /\ nextSn' = [nextSn EXCEPT ![w][d] = IF sn = MaxSn THEN sn ELSE sn + 1]
        /\ Take(eps, w, Create(w, d, sn, room), room)

EpCreate(w, d, room) ==
    LET sn == nextSn[w][d]
        waiting == Matching(w, d, MatchSn(w, d, sn), "UNEXP")
    IN  /\ Cardinality(UserEps(w, d)) < bound.create[w][d]
        /\ nextSn' = [nextSn EXCEPT ![w][d] = IF sn = MaxSn THEN sn ELSE sn + 1]
        /\ \/ /\ waiting = {}
              /\ Take(eps, w, Create(w, d, sn, room), room)
           \/ \E x \in waiting : Take(eps, w, Adopt(w, x, room), room)

\* A send of the user; one that needs a reply resolves the remote id first.
Send(w, x, reply, room) ==
    LET e == eps[w][x]
        r == IF reply THEN Resolve(e, room) ELSE Result(e, TRUE)
        n == e.issued + 1
    IN  /\ e.user /\ e.issued < bound.sends
        /\ Take(eps, w, Result([SendData(r.e, Data(n), room) EXCEPT !.issued = n], r.ok),
                room)
        /\ UNCHANGED nextSn

-----------------------------------------------------------------------------
(* Handlers of wireup messages.                                             *)

\* ucp_wireup_remote_connected
RemoteConnected(e) ==
    IF "REMOTE" \in e.flags THEN Result(e, TRUE)
    ELSE Result([e EXCEPT !.flags = @ \cup {"REMOTE"},
                          !.proxy = IF @ = "NONE" THEN @ ELSE "READY",
                          !.oneshot = Append(@, "EPS")],
                "ID" \in e.flags)

\* ucp_wireup_connect_local: a wireup_ep connects its lane once
ConnectLocal(e, id) ==
    [e EXCEPT !.flags = @ \cup {"LOCAL"},
              !.conn = IF bound.p2p /\ (@ = 0 \/ e.proxy = "NONE") THEN id ELSE @]

\* Mutant: a request is answered as if the handshake ended with it.
FullHandshakeNever == FALSE

\* Is a full handshake required?  There is no CM lane, and no AM lane that
\* has to be flushed.
FullHandshake == bound.p2p

\* ucp_wireup_process_request from ucp_wireup_init_lanes on
Answer(e, m, room) ==
    LET local == IF "LOCAL" \in e.flags THEN e ELSE ConnectLocal(e, m.src)
        reply == m.dst = 0 \/ FullHandshake
        connected == IF FullHandshake THEN Result(local, TRUE) ELSE RemoteConnected(local)
    IN  Result(IF reply THEN SendMsg(connected.e, "REPLY", room) ELSE connected.e,
               connected.ok /\ ("LOCAL" \in e.flags \/ reply))

\* ucp_wireup_init_lanes for an endpoint that has its lanes
KeepLanes(e) == [e EXCEPT !.flags = @ \ {"LOCAL", "REMOTE"}]

\* The endpoint of v that a request m of worker s is for, before its lanes
\* are initialized.
RequestEp(E, v, s, m) ==
    LET found == Matching(v, s, MatchSn(v, s, m.sn), "EXP")
    IN  IF m.dst # 0 THEN Result(E[v][m.dst], TRUE)
        ELSE IF found = {} THEN Result(NewEp(v, s, m.sn, FALSE, "UNEXP"), TRUE)
        ELSE Retrieved(E[v][CHOOSE x \in found : TRUE])

\* Is the request ignored, because the other side will answer ours?
Ignores(e, v, s, m) == m.dst = 0 /\ "QUEUED" \in e.flags /\ Uuid[s] > Uuid[v]

\* ucp_wireup_process_request
ProcessRequest(E, v, s, m, room) ==
    LET base == RequestEp(E, v, s, m)
        known == UpdateRemoteId(base.e, m.src)
        lanes == IF base.e.id > Len(E[v]) THEN known.e ELSE KeepLanes(known.e)
        answer == IF Ignores(known.e, v, s, m) THEN known ELSE Answer(lanes, m, room)
    IN  Result(answer.e, base.ok /\ known.ok /\ answer.ok)

\* Mutant: the endpoint learns the remote id while it is on a queue.
ProcessReplyLate(e, m) ==
    LET known == UpdateRemoteId(e, m.src)
        removed == MatchRemove(known.e)
        ack == "LOCAL" \notin e.flags
        connected == RemoteConnected(IF ack THEN ConnectLocal(removed.e, m.src) ELSE removed.e)
    IN  Result(IF ack THEN [connected.e EXCEPT !.oneshot = Append(@, "ACK")] ELSE connected.e,
               removed.ok /\ known.ok /\ connected.ok)

\* ucp_wireup_process_reply_common
ProcessReply(e, m) ==
    LET removed == MatchRemove(e)
        known == UpdateRemoteId(removed.e, m.src)
        ack == "LOCAL" \notin e.flags
        connected == RemoteConnected(IF ack THEN ConnectLocal(known.e, m.src) ELSE known.e)
    IN  Result(IF ack THEN [connected.e EXCEPT !.oneshot = Append(@, "ACK")] ELSE connected.e,
               removed.ok /\ known.ok /\ connected.ok)

\* ucp_wireup_process_ack
ProcessAck(e) ==
    LET connected == RemoteConnected(e)
    IN  Result(connected.e, connected.ok /\ {"ID", "REP_SENT"} \subseteq e.flags)

\* ucp_wireup_msg_handler of the peer of endpoint x of w, for message m that
\* has left the endpoint, which is now e
Handle(w, e, m, room) ==
    LET v == e.dest
        E == Put(eps, w, e)
    IN  /\ Take(E, v,
                CASE m.kind = "REQUEST" -> ProcessRequest(E, v, w, m, room)
                  [] m.kind = "REPLY" -> ProcessReply(E[v][m.dst], m)
                  [] m.kind = "ACK" -> ProcessAck(E[v][m.dst]),
                room)
        /\ UNCHANGED nextSn

DeliverAux(w, x, room) ==
    LET e == eps[w][x]
    IN  /\ e.auxnet # <<>>
        /\ Handle(w, [e EXCEPT !.auxnet = Tail(@)], Head(e.auxnet), room)

DeliverLane(w, x, room) ==
    LET e == eps[w][x]
    IN  /\ e.lanenet # <<>>
        /\ Handle(w, [e EXCEPT !.lanenet = Tail(@)], Head(e.lanenet), room)

-----------------------------------------------------------------------------
(* Progress of the transports and of the worker.                            *)

\* A pending wireup message is sent over the auxiliary endpoint.
AuxProgress(w, x) ==
    LET e == eps[w][x]
    IN  /\ e.auxq # <<>>
        /\ Take(eps, w, Result(PostMsg([e EXCEPT !.auxq = Tail(@)], Head(e.auxq)), TRUE), TRUE)
        /\ UNCHANGED nextSn

\* A request of the user goes to what is on the lane now, and a wireup_ep has
\* no resources for it.
LaneCanSend(e) == e.laneq # <<>> /\ (Head(e.laneq).kind = "DATA" => e.proxy = "NONE")

\* What is pending on the lane is sent, in order.
LaneProgress(w, x) ==
    LET e == eps[w][x]
        r == Head(e.laneq)
        rest == [e EXCEPT !.laneq = Tail(@)]
    IN  /\ LaneCanSend(e)
        /\ Take(eps, w,
                Result(IF r.kind = "DATA" THEN [rest EXCEPT !.sent = Append(@, r.n)]
                       ELSE PostMsg(rest, r), TRUE), TRUE)
        /\ UNCHANGED nextSn

\* ucp_proxy_ep_replace of a ready wireup_ep; the destructor purges the
\* auxiliary endpoint and wants nothing to be pending
Replace(e) ==
    IF e.proxy # "READY" THEN Result(e, TRUE)
    ELSE Result([e EXCEPT !.proxy = "NONE", !.auxq = <<>>], PendingCount(e) = 0)

\* ucp_wireup_replay_pending_requests: the lane has resources for k of them
Replay(e, q, k) ==
    FoldLeft(LAMBDA a, d : SendData(a, d, Len(a.sent) < Len(e.sent) + k), e, q)

\* Mutant: the requests are replayed by a callback of their own.
EpsProgressLater(w, x, k) ==
    LET e == eps[w][x]
        rest == [e EXCEPT !.oneshot = Tail(@)]
        r == Replace([rest EXCEPT !.held = <<>>])
        r2 == Replace(rest)
        again == [rest EXCEPT !.oneshot = Append(@, "EPS")]
    IN  /\ e.oneshot # <<>> /\ Head(e.oneshot) = "EPS"
        /\ k <= Len(e.held)
        /\ IF PendingCount(e) # 0 THEN Take(eps, w, Result(again, TRUE), TRUE)
           ELSE IF e.proxy = "NONE"
           THEN Take(eps, w, Result(Replay(r.e, e.held, k), r.ok), k = Len(e.held))
           ELSE Take(eps, w, [r2 EXCEPT !.e.oneshot = Append(@, "EPS")], TRUE)
        /\ UNCHANGED nextSn

\* ucp_wireup_eps_progress
EpsProgress(w, x, k) ==
    LET e == eps[w][x]
        rest == [e EXCEPT !.oneshot = Tail(@)]
        r == Replace([rest EXCEPT !.held = <<>>])
    IN  /\ e.oneshot # <<>> /\ Head(e.oneshot) = "EPS"
        /\ IF PendingCount(e) # 0
           THEN k = 0 /\ Take(eps, w, Result([rest EXCEPT !.oneshot = Append(@, "EPS")], TRUE), TRUE)
           ELSE k <= Len(e.held)
                /\ Take(eps, w, Result(Replay(r.e, e.held, k), r.ok), k = Len(e.held))
        /\ UNCHANGED nextSn

\* ucp_wireup_send_msg_ack
SendMsgAck(w, x, room) ==
    LET e == eps[w][x]
    IN  /\ e.oneshot # <<>> /\ Head(e.oneshot) = "ACK"
        /\ Take(eps, w, Result(SendMsg([e EXCEPT !.oneshot = Tail(@)], "ACK", room), TRUE), room)
        /\ UNCHANGED nextSn

-----------------------------------------------------------------------------
Next ==
    \/ \E w, d \in Workers, room \in BOOLEAN : EpCreate(w, d, room)
    \/ \E w \in Workers : \E x \in DOMAIN eps[w], reply, room \in BOOLEAN :
          Send(w, x, reply, room)
    \/ \E w \in Workers : \E x \in DOMAIN eps[w], room \in BOOLEAN : DeliverAux(w, x, room)
    \/ \E w \in Workers : \E x \in DOMAIN eps[w], room \in BOOLEAN : DeliverLane(w, x, room)
    \/ \E w \in Workers : \E x \in DOMAIN eps[w] : AuxProgress(w, x)
    \/ \E w \in Workers : \E x \in DOMAIN eps[w] : LaneProgress(w, x)
    \/ \E w \in Workers : \E x \in DOMAIN eps[w] : \E k \in 0 .. Len(eps[w][x].held) :
          EpsProgress(w, x, k)
    \/ \E w \in Workers : \E x \in DOMAIN eps[w], room \in BOOLEAN : SendMsgAck(w, x, room)

Spec == Init /\ [][Next]_vars

\* Is there something for the transports, the network or the worker to do?  A
\* callback that would only schedule itself again is not.
CanProgress ==
    \E w \in Workers : \E x \in DOMAIN eps[w] :
       LET e == eps[w][x]
       IN  \/ e.auxnet # <<>> \/ e.lanenet # <<>> \/ e.auxq # <<>>
           \/ LaneCanSend(e)
           \/ e.oneshot # <<>> /\ (e.oneshot # <<"EPS">> \/ PendingCount(e) = 0)

\* A step of one of them: the user creates no endpoint and sends nothing.
Progress ==
    /\ nextSn' = nextSn
    /\ \A w \in Workers : \A x \in DOMAIN eps[w] : eps'[w][x].issued = eps[w][x].issued

\* Messages arrive, and the transports and the worker's callbacks are
\* progressed.  Only finitely many such steps are possible between two steps
\* of the user, so that it is enough that one of them is taken at a time.
FairSpec == Spec /\ (<>[]CanProgress => []<><<Progress>>_vars)

-----------------------------------------------------------------------------
(* Properties.                                                              *)

\* No assertion of the wireup code fails: an endpoint never learns two remote
\* ids (ucp_ep_update_remote_id), it leaves the queue of the matching context
\* that it is on (ucp_ep_match_remove_ep), an ACK finds a REPLY that was sent
\* (ucp_wireup_process_ack), and a proxy is destroyed with no wireup message
\* pending below it (the destructor of ucp_wireup_ep_t).
NoAssertionFails == ~failed

\* Endpoints agree on whom they are paired with: the endpoint that a remote id
\* names is one to this worker, has this endpoint as its remote id once it has
\* one, and, between two workers, is the one with the same connection sequence
\* number: the n-th endpoint of one user meets the n-th of the other
\* (ucp_ep_match_retrieve, ucp_ep_update_remote_id).
PairsAgree ==
    \A w \in Workers : \A x \in DOMAIN eps[w] :
       LET e == eps[w][x]
           r == eps[e.dest][e.rid]
       IN  "ID" \in e.flags =>
              /\ e.rid \in DOMAIN eps[e.dest]
              /\ r.dest = w
              /\ "ID" \in r.flags => r.rid = x
              /\ w # e.dest => r.sn = e.sn

\* A connection sequence number stands for one endpoint of a worker: a user's
\* endpoint and one that was made for a request of the peer are never two
\* (ucp_ep_create_api_to_worker_addr, ucp_wireup_process_request).
OneEndpointPerSn ==
    \A w \in Workers : \A x, y \in DOMAIN eps[w] :
       LET e == eps[w][x]
           f == eps[w][y]
       IN  x # y /\ e.dest = f.dest /\ e.dest # w /\ e.sn = f.sn => e.sn = MaxSn

\* A lane that connects endpoint to endpoint carries the user's requests only
\* when the lanes of both sides are connected to each other: whatever is sent
\* finds a peer that can receive (the purpose of REPLY and ACK, with
\* ucp_wireup_eps_progress).
LaneSwitchedWhenConnected ==
    bound.p2p =>
       \A w \in Workers : \A x \in DOMAIN eps[w] :
          LET e == eps[w][x]
          IN  e.proxy = "NONE" => /\ e.conn = e.rid
                                  /\ eps[e.dest][e.conn].conn = x

\* The lane takes the requests of the user in the order in which they were
\* issued, whether they were held by the proxy, pending on the lane, or moved
\* from one to the other (ucp_wireup_connect_remote, ucp_wireup_eps_progress).
SendOrder ==
    \A w \in Workers : \A x \in DOMAIN eps[w] :
       \A i \in DOMAIN eps[w][x].sent : eps[w][x].sent[i] = i

\* Every request of the user leaves: no order of simultaneous connects, pending
\* messages and callbacks keeps an endpoint from being connected and its lane
\* from taking what was held back (ucp_wireup_process_request,
\* ucp_wireup_connect_remote, ucp_wireup_eps_progress).
EverySendLeaves ==
    []<>(\A w \in Workers : \A x \in DOMAIN eps[w] :
            Len(eps[w][x].sent) = eps[w][x].issued)

=============================================================================
