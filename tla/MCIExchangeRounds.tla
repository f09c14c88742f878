------------------------- MODULE MCIExchangeRounds -------------------------
(***************************************************************************)
(* Instances of IExchangeRounds for TLC: two ranks with one block each,    *)
(* which send to each other over two rounds.                               *)
(***************************************************************************)
EXTENDS IExchangeRounds

CONSTANTS p1, p2,       \* ranks
          a, b,         \* blocks
          m1, m2        \* queues: from a to b, and from b to a

OneBlockEach == [x \in Block |-> IF x = a THEN p1 ELSE p2]
PingFrom == [m \in Msg |-> IF m = m1 THEN a ELSE b]
PingTo   == [m \in Msg |-> IF m = m1 THEN b ELSE a]
=============================================================================
