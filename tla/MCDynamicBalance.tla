-------------------------- MODULE MCDynamicBalance --------------------------
(***************************************************************************)
(* An instance of DynamicBalance for TLC: all the work is on one rank.     *)
(***************************************************************************)
EXTENDS DynamicBalance

CONSTANTS p1, p2, b1, b2, b3

Uneven == [x \in Block |-> p1]
Line   == [x \in Block |-> CASE x = b1 -> {b2} [] x = b2 -> {b1, b3} [] x = b3 -> {b2}]
Heavy  == [x \in Block |-> CASE x = b1 -> 3 [] x = b2 -> 2 [] x = b3 -> 1]
=============================================================================
