------------------------------ MODULE MCReduce ------------------------------
(***************************************************************************)
(* Programs for Reduce: reductions of every kind over grids of up to six   *)
(* blocks, decompositions with remainders, shared faces, ghosts and        *)
(* wrapping, and uneven work to balance.                                   *)
(***************************************************************************)
EXTENDS Reduce

\* A two-dimensional domain of 5 by 4 points; divisions of 0 are free.
Plane(share, wrap, ghosts, divisions) ==
  [min |-> <<-1, 0>>, max |-> <<3, 3>>, share_face |-> share, wrap |-> wrap,
   ghosts |-> ghosts, divisions |-> divisions]
Plain == Plane(<<FALSE, FALSE>>, <<FALSE, FALSE>>, <<0, 0>>, <<0, 0>>)

Program(dec, nblocks, static, work, op, k, contiguous) ==
  [dec |-> dec, nblocks |-> nblocks, static |-> static, balance |-> work # <<>>,
   work |-> work, op |-> op, k |-> k, contiguous |-> contiguous]

\* Four blocks in a row, in two rounds of pairs, and six in three by two.
Reductions ==
  {Program(Plane(<<FALSE, FALSE>>, <<FALSE, FALSE>>, <<0, 0>>, <<4, 0>>), 4, "round_robin",
           <<>>, op, 2, contiguous) : op \in Kinds, contiguous \in BOOLEAN}
  \cup {Program(Plain, 6, "contiguous", <<>>, op, 2, TRUE) : op \in Kinds}
  \cup {Program(Plain, 6, "round_robin", <<>>, op, 2, TRUE) : op \in {"merge", "all_reduce"}}

\* All-to-all, also with fewer blocks than ranks.
Exchanges ==
  {Program(Plain, n, "contiguous", <<>>, "all_to_all", 2, FALSE) : n \in {1, 2, 4, 6}}

\* Decompositions of all kinds.
Grids ==
  {Program(Plane(share, wrap, ghosts, divisions), 4, "contiguous", <<>>, "merge", 4, TRUE) :
     share \in {<<FALSE, FALSE>>, <<TRUE, FALSE>>},
     wrap \in BOOLEAN \X BOOLEAN,
     ghosts \in {<<0, 0>>, <<1, 1>>, <<0, 2>>}, divisions \in {<<0, 0>>, <<0, 1>>}}

\* Uneven work on six blocks: one rank gives, two give, one rank has least and
\* gets from both, and a rank with a single heavy block.
Balancings ==
  {Program(Plain, 6, "contiguous", work, op, 2, TRUE) :
     work \in {<<5, 4, 1, 1, 1, 1>>, <<9, 9, 8, 8, 0, 0>>, <<6, 5, 1, 1, 4, 4>>},
     op \in {"merge", "swap"}}
  \cup {Program(Plain, 4, "contiguous", work, "all_to_all", 2, TRUE) :
           work \in {<<3, 3, 9, 1>>, <<7, 5, 2, 0>>}}

AllPrograms == Reductions \cup Exchanges \cup Grids \cup Balancings

\* The grids and the partners of these programs are as ReduceProofs proves those of
\* all programs to be.
ASSUME ProgramsCheck == ProgramsAgree
=============================================================================
