---------------------------- MODULE MCOutOfCore ----------------------------
(***************************************************************************)
(* Instances of OutOfCore for TLC: three blocks in a row between two       *)
(* blocks of other ranks, and two blocks on one rank.                      *)
(***************************************************************************)
EXTENDS OutOfCore

CONSTANTS b1, b2, b3,     \* blocks of the rank
          r1, r2          \* blocks of other ranks

Both(S) == S \cup {<<t[2], t[1]>> : t \in S}

Row == Both({<<r2, b1>>, <<b1, b2>>, <<b2, b3>>, <<b3, r1>>})
RowOrder == <<b1, b2, b3>>

\* What the callbacks enqueue: the first call skips b3 when nothing came from r1.
RowTargets == [x \in Block \X (1..Foreachs) |->
  CASE x = <<b1, 1>> -> {{b2}}
    [] x = <<b2, 1>> -> {{b1}}
    [] x = <<b3, 1>> -> {{r1}}
    [] x = <<b1, 2>> -> {{b2}}
    [] x = <<b2, 2>> -> {{}}
    [] x = <<b3, 2>> -> {{b2, r1}}]

RowLarge == {<<b3, r1>>, <<r2, b1>>}
RowEarly == {<<r1, b3>>}

Pair == Both({<<b1, b2>>})
PairOrder == <<b1, b2>>
PairTargets == [x \in Block \X (1..Foreachs) |-> {{}, {IF x[1] = b1 THEN b2 ELSE b1}}]
=============================================================================
