---------------------------- MODULE MCUcpWireup ----------------------------
(* Model checking of UcpWireup: workers A and B, A with the lower identifier. *)
EXTENDS UcpWireup, TLC

CONSTANTS A, B

MCUuid == (A :> 1) @@ (B :> 2)

\* Endpoints of A to B, of B to A and of A to itself, requests of an endpoint,
\* times the transports have no resources, the kind of transport, and the
\* largest sequence number.
Bound(ab, ba, aa, sends, full, p2p, maxSn) ==
    [create |-> (A :> ((A :> aa) @@ (B :> ab))) @@ (B :> ((A :> ba) @@ (B :> 0))),
     sends |-> sends, busy |-> full, p2p |-> p2p, resolve |-> FALSE, noloop |-> TRUE,
     maxSn |-> maxSn]

MCBounds ==
    {Bound(2, 2, 0, 1, 1, TRUE, 3),     \* two connections
     Bound(2, 1, 0, 1, 1, FALSE, 3),
     Bound(2, 1, 0, 1, 0, TRUE, 1),     \* the second is not matched
     Bound(2, 1, 0, 1, 1, FALSE, 1),
     Bound(1, 1, 0, 3, 3, TRUE, 3),     \* one connection, more requests
     Bound(1, 1, 0, 3, 3, FALSE, 3),
     Bound(0, 0, 2, 1, 2, TRUE, 3),     \* endpoints of A to itself
     Bound(0, 0, 2, 1, 2, FALSE, 3),
     [Bound(0, 0, 2, 1, 1, TRUE, 3) EXCEPT !.noloop = FALSE],
     [Bound(1, 2, 0, 1, 1, FALSE, 3) EXCEPT !.resolve = TRUE]}

=============================================================================
