---------------------------- MODULE MCUdConnect ----------------------------
(* Model checking of UdConnect: interfaces A and B. *)
EXTENDS UdConnect

CONSTANTS A, B

MCPeer == (A :> B) @@ (B :> A)

\* Endpoints the users of A and B create and close, messages an endpoint sends,
\* last sequence number a probe may use, faults of the network.
Bound(ca, cb, da, db, msg, probe, fault) ==
    [create |-> (A :> ca) @@ (B :> cb), close |-> (A :> da) @@ (B :> db),
     msg |-> msg, probe |-> probe, fault |-> fault, early |-> FALSE]

MCBounds ==
    {Bound(1, 1, 0, 0, 1, 0, 1),    \* both connect and send, one fault
     Bound(1, 1, 1, 0, 0, 0, 1),    \* both connect, one closes, one fault
     Bound(1, 1, 1, 0, 1, 0, 0),    \* both connect and send, one closes
     Bound(2, 1, 1, 0, 0, 0, 0),    \* an index is used again
     Bound(2, 0, 2, 0, 1, 0, 0),    \* two connections of one side only
     Bound(2, 0, 1, 0, 0, 3, 0)}    \* private endpoints, a peer that is gone

\* The user of A cancels before the connection is established, one fault.
MCBoundsCancel == {[Bound(1, 1, 1, 0, 0, 0, 1) EXCEPT !.early = TRUE]}
=============================================================================
