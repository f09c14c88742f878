----------------------------- MODULE Assigners -----------------------------
(***************************************************************************)
(* How blocks are assigned to ranks (include/diy/assigner.hpp).  A static  *)
(* assigner answers two questions, the rank of a block and the blocks of a *)
(* rank, by separate formulas.  The dynamic assigner keeps the rank of     *)
(* each block in a distributed array, a window of div_ slots on each rank. *)
(***************************************************************************)
EXTENDS Integers

\* The gids of nblocks blocks, and the ranks of size processes.
Gids(nblocks) == 0..(nblocks - 1)
Ranks(size) == 0..(size - 1)

-----------------------------------------------------------------------------
(***************************************************************************)
(* ContiguousAssigner: the first "mod" ranks have one block more.          *)
(***************************************************************************)
ContiguousRank(size, nblocks, gid) ==
  LET div == nblocks \div size
      mod == nblocks % size
      r   == gid \div (div + 1)
  IN  IF r < mod THEN r ELSE mod + (gid - (div + 1) * mod) \div div

\* The first gid of a rank below "mod", and of one that is not.
ContiguousLow(size, nblocks, rank) == rank * (nblocks \div size + 1)
ContiguousHigh(size, nblocks, rank) ==
  LET div == nblocks \div size
      mod == nblocks % size
  IN  mod * (div + 1) + (rank - mod) * div

\* Mutant: the ranks below "mod" end where the others would.
ContiguousGids_OneFormula(size, nblocks, rank) ==
  LET first == IF rank < nblocks % size THEN ContiguousLow(size, nblocks, rank)
               ELSE ContiguousHigh(size, nblocks, rank)
  IN  first..(ContiguousHigh(size, nblocks, rank + 1) - 1)

ContiguousGids(size, nblocks, rank) ==
  LET mod   == nblocks % size
      first == IF rank < mod THEN ContiguousLow(size, nblocks, rank)
               ELSE ContiguousHigh(size, nblocks, rank)
      end   == IF rank + 1 < mod THEN ContiguousLow(size, nblocks, rank + 1)
               ELSE ContiguousHigh(size, nblocks, rank + 1)
  IN  first..(end - 1)

(***************************************************************************)
(* RoundRobinAssigner: block after block to the next rank.                 *)
(***************************************************************************)
RoundRobinRank(size, gid) == gid % size

RoundRobinGids(size, nblocks, rank) ==
  {cur \in {rank + i * size : i \in 0..nblocks} : cur < nblocks}

-----------------------------------------------------------------------------
(***************************************************************************)
(* DynamicAssigner: where the rank of a block is kept.                     *)
(***************************************************************************)
div_(size, nblocks) == nblocks \div size + (IF nblocks % size = 0 THEN 0 ELSE 1)

rank_offset(size, nblocks, gid) ==
  <<gid \div div_(size, nblocks), gid % div_(size, nblocks)>>
=============================================================================
