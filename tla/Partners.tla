------------------------------ MODULE Partners ------------------------------
(***************************************************************************)
(* Who talks to whom in the rounds of a reduction                          *)
(* (include/diy/partners/): common.hpp, merge.hpp, swap.hpp,               *)
(* broadcast.hpp and all-reduce.hpp.                                       *)
(*                                                                         *)
(* Partners are a record of their kind, the divisions of the grid of       *)
(* blocks, whether groups are contiguous, and kvs: the dimension and group *)
(* size of each round.  Rounds count from 0.                               *)
(***************************************************************************)
EXTENDS Decomposition

Kinds == {"merge", "swap", "broadcast", "all_reduce"}

\* RegularPartners::factor, in one dimension: k as long as it divides what
\* remains, else the largest smaller factor, else all that remains.
FactorK(k, tot_b) ==
  LET divisors(rem) == {j \in 2..k : rem % j = 0}
  IN  Factors(tot_b, [rem \in 1..tot_b |-> IF divisors(rem) = {} THEN rem ELSE Max(divisors(rem))])

\* The rounds of all dimensions, taken in turns until each has had its own.
Factor(k, divisions) ==
  LET n    == Len(divisions)
      kv   == [i \in 1..n |-> FactorK(k, divisions[i])]
      most == Max({Len(kv[i]) : i \in 1..n})
      dim(s) == ((s - 1) % n) + 1
      turn[s \in 0..(most * n)] ==
        IF s = 0 THEN [kvs |-> <<>>, round_per_dim |-> [i \in 1..n |-> 0]]
        ELSE LET last == turn[s - 1]
                 i    == dim(s)
                 t    == last.round_per_dim[i] + 1
             IN  IF t > Len(kv[i]) THEN last
                 ELSE [kvs           |-> Append(last.kvs, [dim |-> i, size |-> kv[i][t]]),
                       round_per_dim |-> [last.round_per_dim EXCEPT ![i] = t]]
  IN  turn[most * n].kvs

NewPartners(kind, divisions, k, contiguous) ==
  [kind |-> kind, divisions |-> divisions, contiguous |-> contiguous, kvs |-> Factor(k, divisions)]

-----------------------------------------------------------------------------
(***************************************************************************)
(* RegularPartners.                                                        *)
(***************************************************************************)
BaseRounds(part) == Len(part.kvs)
kv(part, round) == part.kvs[round + 1]

\* The product of the group sizes of the first "rounds" rounds in a dimension.
Grouped(part, rounds, dim) ==
  LET n[r \in 0..BaseRounds(part)] ==
        IF r = 0 THEN 1
        ELSE IF part.kvs[r].dim = dim THEN n[r - 1] * part.kvs[r].size ELSE n[r - 1]
  IN  n[rounds]

\* fill_steps: how far apart the partners of a round are.
step(part, round) ==
  LET dim == kv(part, round).dim
  IN  IF part.contiguous THEN Grouped(part, round, dim)
      ELSE part.divisions[dim] \div Grouped(part, round + 1, dim)

\* The place of a coordinate within its group.
group_position(part, round, c) == (c \div step(part, round)) % kv(part, round).size

\* The group of a block, in order.
fill(part, round, gid) ==
  LET coords == gid_to_coords(gid, part.divisions)
      d == kv(part, round).dim
      first == coords[d] - group_position(part, round, coords[d]) * step(part, round)
  IN  [i \in 1..kv(part, round).size |->
         coords_to_gid([coords EXCEPT ![d] = first + (i - 1) * step(part, round)], part.divisions)]

-----------------------------------------------------------------------------
(***************************************************************************)
(* The kinds.  A merge goes up a tree: the first of a group goes on.  A    *)
(* broadcast is a merge backwards, an all-reduce one after the other.      *)
(***************************************************************************)
merge_active(part, round, gid) ==
  LET coords == gid_to_coords(gid, part.divisions)
  IN  \A r \in 0..(round - 1) : group_position(part, r, coords[kv(part, r).dim]) = 0
merge_incoming(part, round, gid) == fill(part, round - 1, gid)
merge_outgoing(part, round, gid) == <<fill(part, round, gid)[1]>>

rounds(part) == IF part.kind = "all_reduce" THEN 2 * BaseRounds(part) ELSE BaseRounds(part)

\* The round of the merge that a round of the other kinds stands for.
parent_round(part, round) ==
  CASE part.kind \in {"merge", "swap"} -> round
    [] part.kind = "broadcast" -> BaseRounds(part) - round
    [] part.kind = "all_reduce" ->
         IF round < BaseRounds(part) THEN round ELSE rounds(part) - round

\* Whether a round goes down the tree: its messages, and those it gets.
SendsDown(part, round) ==
  part.kind = "broadcast" \/ (part.kind = "all_reduce" /\ round >= BaseRounds(part))
GetsDown(part, round) ==
  part.kind = "broadcast" \/ (part.kind = "all_reduce" /\ round > BaseRounds(part))

active(part, round, gid) ==
  part.kind = "swap" \/ merge_active(part, parent_round(part, round), gid)

incoming(part, round, gid) ==
  IF GetsDown(part, round) THEN merge_outgoing(part, parent_round(part, round), gid)
  ELSE merge_incoming(part, round, gid)

outgoing(part, round, gid) ==
  IF SendsDown(part, round) THEN merge_incoming(part, parent_round(part, round), gid)
  ELSE IF part.kind = "swap" THEN fill(part, round, gid)
  ELSE merge_outgoing(part, round, gid)

=============================================================================
