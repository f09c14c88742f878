----------------------------- MODULE Quiescence -----------------------------
(***************************************************************************)
(* What Master::iexchange promises its caller: it returns on a rank only   *)
(* when nothing is left to do on ANY rank.  "work" is whatever the callers *)
(* may still have to be called for: blocks whose callback last answered    *)
(* "not done", queues that were enqueued and not yet dequeued, callbacks   *)
(* that are running.  As long as there is some, a step may finish part of  *)
(* it and create more; once there is none, none can appear, and the ranks  *)
(* leave one by one.                                                       *)
(***************************************************************************)
CONSTANTS Proc,     \* the ranks
          Work      \* everything that can be left to do

VARIABLES work,     \* what is left to do
          left      \* the ranks on which iexchange has decided to return

vars == <<work, left>>

TypeOK == /\ work \in SUBSET Work
          /\ left \in SUBSET Proc

Init == /\ work \in SUBSET Work
        /\ left = {}

\* Work is done, handed on or created, which only existing work can do.
Progress == /\ work # {}
            /\ work' \in SUBSET Work
            /\ UNCHANGED left

\* A rank returns: only when there is nothing left anywhere.
Return(p) == /\ work = {}
             /\ p \notin left
             /\ left' = left \cup {p}
             /\ UNCHANGED work

Next == Progress \/ \E p \in Proc : Return(p)

Spec == Init /\ [][Next]_vars

(***************************************************************************)
(* The promise with its liveness half: when everything is done, every rank *)
(* does return.                                                            *)
(***************************************************************************)
LiveSpec == Spec /\ \A p \in Proc : WF_vars(Return(p))
=============================================================================
