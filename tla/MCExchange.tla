----------------------------- MODULE MCExchange -----------------------------
(***************************************************************************)
(* Instances of Exchange for TLC: a chain of ranks, the first of which     *)
(* holds two blocks, so that a rank is a neighbor of some and not of all   *)
(* others.                                                                 *)
(***************************************************************************)
EXTENDS Exchange

CONSTANTS p1, p2, p3,           \* ranks
          a, b, c, d            \* blocks

Chain == [x \in Block |-> CASE x = b -> p2 [] x = c -> p3 [] OTHER -> p1]

Both(S) == S \cup {<<t[2], t[1]>> : t \in S}

NoLimit == -1

ChainLink == Both({<<a, b>>, <<b, c>>})
PairLink  == Both({<<a, b>>, <<a, d>>})

\* Remote: between blocks that are not linked, and within a rank.
PairReach == {<<d, b>>, <<b, a>>, <<d, a>>}

\* A filled queue from b to a takes a head and one or two further messages.
BigPart == [t \in Block \X Block |-> IF t = <<b, a>> THEN 2 ELSE 0]
TwoPart == [t \in Block \X Block |-> IF t = <<b, a>> THEN 1 ELSE 0]
=============================================================================
