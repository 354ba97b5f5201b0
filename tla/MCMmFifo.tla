------------------------------ MODULE MCMmFifo ------------------------------
(* Instances of MmFifo for model checking. *)
EXTENDS MmFifo, TLC

CONSTANTS p1, p2, Msgs1, Msgs2

MCSenders == {p \in {p1, p2} : (p = p1 /\ Msgs1 > 0) \/ (p = p2 /\ Msgs2 > 0)}
MCMsgBudget == [p \in MCSenders |-> IF p = p1 THEN Msgs1 ELSE Msgs2]

DescSymmetry == Permutations(Descs)

=============================================================================
