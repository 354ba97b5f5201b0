--------------------------- MODULE UdChannelProofs ---------------------------
(* Two UD endpoints implement a reliable channel in each direction. *)
EXTENDS UdChannelSteps, UdReliableProofs

\* Two UD endpoints implement a reliable channel in each direction, whatever
\* the network loses, duplicates and reorders, for every window, psn space and
\* number of messages (uct_ud_ep_process_rx, uct_ud_ep_process_ack,
\* uct_ud_iface_dispatch_pending_rx_do).
THEOREM ChannelImplemented == Spec => ImplementsChannel
<1>1. Init => Channel!Init
    BY ChannelInit
<1>2. IndInv /\ IndInv' /\ [Next]_vars => [Channel!Next]_(Channel!channel)
    BY ChannelStep
<1> QED BY <1>1, <1>2, Consistent, PTL DEF Spec, ImplementsChannel, Channel!Spec

=============================================================================
