------------------------------ MODULE LocalSync ------------------------------
(***************************************************************************)
(* What Master::exchange promises about time: a rank ends its k-th exchange*)
(* only when every rank it depends on in that exchange has begun its own,  *)
(* "effectively acting as a barrier" between neighbors (doc local_comm.md).*)
(* Ranks further away may be several exchanges ahead or behind.            *)
(***************************************************************************)
EXTENDS Naturals

CONSTANTS Proc,         \* the ranks
          Rounds,       \* how many exchanges there are
          Near          \* Near[k][p]: the ranks that p depends on in exchange k

VARIABLES begun,        \* how many exchanges each rank has begun
          ended         \* how many it has ended

vars == <<begun, ended>>

Init == /\ begun = [p \in Proc |-> 0]
        /\ ended = [p \in Proc |-> 0]

Begin(p) == /\ begun[p] = ended[p]
            /\ begun[p] < Rounds
            /\ begun' = [begun EXCEPT ![p] = @ + 1]
            /\ UNCHANGED ended

End(p) == /\ ended[p] < begun[p]
          /\ \A q \in Near[begun[p]][p] : begun[q] >= begun[p]
          /\ ended' = [ended EXCEPT ![p] = begun[p]]
          /\ UNCHANGED begun

Next == \E p \in Proc : Begin(p) \/ End(p)

Spec == Init /\ [][Next]_vars

\* All ranks get through all exchanges.
LiveSpec == Spec /\ \A p \in Proc : WF_vars(Begin(p)) /\ WF_vars(End(p))
=============================================================================
