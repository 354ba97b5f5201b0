------------------------------ MODULE MCRcFlow ------------------------------
(* Instances of RcFlow for model checking: interface A with the endpoints   *)
(* a1 and a2, connected to b1 and b2 of interface B.                        *)
EXTENDS RcFlow, TLC

CONSTANTS CreditMsgsA, CreditMsgsB, SharedMsgs1, SharedMsgs2

MCEps == {"a1", "a2", "b1", "b2"}
MCIfaces == {"A", "B"}
MCIfaceOf == [e \in MCEps |-> IF e \in {"a1", "a2"} THEN "A" ELSE "B"]
MCPeer == "a1" :> "b1" @@ "b1" :> "a1" @@ "a2" :> "b2" @@ "b2" :> "a2"

Zero == [e \in MCEps |-> 0]

\* One connection, both ends send more than a window.
CreditBound ==
    [msg |-> ("a1" :> CreditMsgsA) @@ ("b1" :> CreditMsgsB) @@ Zero,
     get |-> Zero, flush |-> Zero, check |-> Zero, failing |-> {}]

\* Two connections share the completion queue and the read credits, and the
\* second one may fail.
SharedBound ==
    [msg |-> ("a1" :> SharedMsgs1) @@ ("a2" :> SharedMsgs2) @@ Zero,
     get |-> ("a2" :> 1) @@ Zero, flush |-> ("a1" :> 1) @@ Zero,
     check |-> ("a2" :> 1) @@ Zero, failing |-> {"a2", "b2"}]

MCBounds == {CreditBound, SharedBound}

=============================================================================
