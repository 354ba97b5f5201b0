---------------------------- MODULE MCUdReliable ----------------------------
(* Instances of UdReliable for model checking. *)
EXTENDS UdChannel, TLC

CONSTANTS MsgsA, MsgsB, FlushesA, FlushesB, FailsA, FailsB

MCMsgBudget == (EpA :> MsgsA) @@ (EpB :> MsgsB)
MCFlushBudget == (EpA :> FlushesA) @@ (EpB :> FlushesB)
MCFailBudget == (EpA :> FailsA) @@ (EpB :> FailsB)

=============================================================================
