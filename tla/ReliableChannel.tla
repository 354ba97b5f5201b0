--------------------------- MODULE ReliableChannel ---------------------------
(***************************************************************************)
(* What a transport promises for active messages: the receiving side takes  *)
(* charge of the messages sent to it one by one, in the order they were     *)
(* sent, and hands what it has taken to the handlers, at once or later, in  *)
(* the same order, each once.                                               *)
(***************************************************************************)
EXTENDS Integers, Sequences

CONSTANT Ends   \* receiving ends

VARIABLES
    sent,       \* sent[e]: number of messages sent to e
    taken,      \* taken[e]: number of them that e's side is in charge of
    handled     \* handled[e]: those that e's handlers have seen, by number

channel == <<sent, taken, handled>>

Init ==
    /\ sent = [e \in Ends |-> 0] /\ taken = [e \in Ends |-> 0]
    /\ handled = [e \in Ends |-> << >>]

Send(e) ==
    /\ sent' = [sent EXCEPT ![e] = @ + 1]
    /\ UNCHANGED <<taken, handled>>

\* Only when nothing waits may a message go to its handler directly.
Take(e, atOnce) ==
    /\ taken[e] < sent[e]
    /\ atOnce => Len(handled[e]) = taken[e]
    /\ taken' = [taken EXCEPT ![e] = @ + 1]
    /\ handled' = IF atOnce
                  THEN [handled EXCEPT ![e] = Append(@, taken[e] + 1)]
                  ELSE handled
    /\ UNCHANGED sent

HandOver(e, n) ==
    /\ handled' = [handled EXCEPT ![e] =
                    @ \o [i \in 1..n |-> Len(handled[e]) + i]]
    /\ UNCHANGED <<sent, taken>>

Next ==
    \E e \in Ends :
        \/ Send(e)
        \/ \E atOnce \in BOOLEAN : Take(e, atOnce)
        \/ \E n \in 1 .. taken[e] - Len(handled[e]) : HandOver(e, n)

Spec == Init /\ [][Next]_channel

=============================================================================
