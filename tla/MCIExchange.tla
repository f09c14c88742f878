---------------------------- MODULE MCIExchange ----------------------------
(***************************************************************************)
(* Instances of IExchange for TLC: two ranks, the first with two blocks,   *)
(* and the queues that the callbacks may fill.                             *)
(***************************************************************************)
EXTENDS IExchange

CONSTANTS p1, p2,               \* ranks
          a, b, c,              \* blocks
          m1, m2, m3            \* queues

TwoRanks == [x \in Block |-> IF x = b THEN p2 ELSE p1]

\* c hears from a on its own rank and from b on the other one, which hears
\* from a.
FanInFrom == [m \in Msg |-> IF m = m2 THEN b ELSE a]
FanInTo   == [m \in Msg |-> IF m = m1 THEN b ELSE c]

\* a alone on its rank sends to b and c on the other one, b answers.
OneAgainstTwo == [x \in Block |-> IF x = a THEN p1 ELSE p2]
FanOutFrom == [m \in Msg |-> IF m \in {m1, m2} THEN a ELSE b]
FanOutTo   == [m \in Msg |-> CASE m = m1 -> b [] m = m2 -> c [] OTHER -> a]

\* a and b send to each other.
PingFrom == [m \in Msg |-> IF m = m2 THEN b ELSE a]
PingTo   == [m \in Msg |-> IF m = m2 THEN a ELSE b]
=============================================================================
