------------------------------ MODULE UdChannel ------------------------------
(* Two UD endpoints implement a reliable channel in each direction. *)
EXTENDS UdReliable

\* A message is number 1 when it has the first psn.
Number(psn) == psn - (InitialPsn - 1)

Channel == INSTANCE ReliableChannel WITH
    Ends    <- Eps,
    sent    <- [e \in Eps |-> Number(ep[Peer(e)].psn - 1)],
    taken   <- [e \in Eps |-> Number(ep[e].head_sn)],
    handled <- [e \in Eps |-> [i \in 1..Len(ep[e].delivered) |->
                                  Number(ep[e].delivered[i])]]

\* Whatever the network loses and duplicates and whichever thread receives,
\* the users see channels that take and hand over messages one after the other
\* (uct_ud_ep_process_rx, uct_ud_iface_dispatch_pending_rx_do).
ImplementsChannel == Channel!Spec

=============================================================================
