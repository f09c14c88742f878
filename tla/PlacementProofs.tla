---------------------------- MODULE PlacementProofs -------------------------
(***************************************************************************)
(* Theorems about Assigners, Decomposition and Partners, which compute     *)
(* places by division and by multiplication, for any number of ranks and   *)
(* blocks, any grid and any size of the groups.                            *)
(*                                                                         *)
(* The two questions that a static assigner answers by separate formulas   *)
(* have the same answer, and the dynamic assigner keeps the ranks of       *)
(* different blocks in different slots of the window.  The parts that a    *)
(* dimension is cut into are those that the parts of a point are taken     *)
(* from.  Blocks and places in the grid correspond, neighbors are mutual,  *)
(* the grid has as many blocks as it was asked for, and the partners of a  *)
(* reduction agree on who sends to whom.                                   *)
(***************************************************************************)
EXTENDS Assigners, Partners, FiniteSetTheorems, SequenceTheorems, WellFoundedInduction, TLAPS

\* Products grow with their factors, here the multiples of a block's width or a
\* rank's share (decomposition.hpp:37, assigner.hpp:155).
LEMMA TimesMonotone ==
  ASSUME NEW b \in Nat, NEW x \in Int, NEW y \in Int, x <= y
  PROVE  b * x <= b * y
  BY SMT

\* Integer division and its remainder, as in assigner.hpp:74 and decomposition.hpp:48.
LEMMA Division ==
  ASSUME NEW a \in Int, NEW b \in Nat \ {0}
  PROVE  /\ a \div b \in Int /\ a % b \in 0..(b - 1)
         /\ a = b * (a \div b) + (a % b)
  BY SMT

\* The quotient is the only number whose multiple is that near: what makes
\* assigner.hpp:71 the inverse of assigner.hpp:149.
LEMMA Quotient ==
  ASSUME NEW a \in Int, NEW b \in Nat \ {0}, NEW q \in Int
  PROVE  a \div b = q <=> b * q <= a /\ a < b * q + b
<1> DEFINE d == a \div b
<1>1. d \in Int /\ b * d <= a /\ a < b * d + b
  BY Division
<1> HIDE DEF d
<1>2. CASE d < q
  <2>1. b * (d + 1) <= b * q
    BY <1>1, <1>2, TimesMonotone
  <2>2. b * (d + 1) = b * d + b
    BY <1>1
  <2> QED BY <1>1, <1>2, <2>1, <2>2 DEF d
<1>3. CASE q < d
  <2>1. b * (q + 1) <= b * d
    BY <1>1, <1>3, TimesMonotone
  <2>2. b * (q + 1) = b * q + b
    OBVIOUS
  <2> QED BY <1>1, <1>3, <2>1, <2>2 DEF d
<1> QED BY <1>1, <1>2, <1>3 DEF d

-----------------------------------------------------------------------------
(***************************************************************************)
(* Assigners.                                                              *)
(***************************************************************************)
\* RoundRobinAssigner: a rank's local_gids are the blocks that rank() gives it
\* (assigner.hpp:100, 171).
THEOREM RoundRobinInverse ==
  ASSUME NEW size \in Nat \ {0}, NEW nblocks \in Nat, NEW rank \in Ranks(size),
         NEW gid \in Gids(nblocks)
  PROVE  gid \in RoundRobinGids(size, nblocks, rank) <=> RoundRobinRank(size, gid) = rank
<1> DEFINE q == gid \div size
<1>1. /\ gid \in Int /\ rank \in 0..(size - 1) /\ 0 <= gid /\ gid < nblocks
  BY DEF Gids, Ranks
<1>2. q \in Int /\ gid % size \in 0..(size - 1) /\ gid = size * q + (gid % size)
  BY <1>1, Division
<1> HIDE DEF q
<1>3. q \in 0..nblocks
  <2>1. 0 <= q
    <3>1. CASE q <= -1
      <4>1. size * q <= size * (-1)
        BY <1>2, <3>1, TimesMonotone
      <4> QED BY <1>1, <1>2, <4>1
    <3> QED BY <1>2, <3>1
  <2>2. CASE nblocks + 1 <= q
    <3>1. 1 * q <= size * q
      BY <1>2, <2>1, TimesMonotone, 1 <= size, q * 1 <= q * size
    <3> QED BY <1>1, <1>2, <2>2, <3>1
  <2> QED BY <1>2, <2>1, <2>2
<1>4. ASSUME NEW i \in 0..nblocks, gid = rank + i * size
      PROVE  gid % size = rank
  <2> DEFINE x == size * i
             y == gid % size
  <2>1. x = i * size /\ x \in Int
    BY SMT
  <2>2. gid = rank + x /\ x <= gid /\ gid < x + size
    <3> HIDE DEF x
    <3> QED BY <1>1, <1>4, <2>1
  <2>3. i \in Int /\ gid \in Int
    BY <1>1
  <2>4. gid \div size = i
    BY <2>2, <2>3, Quotient
  <2>5. gid = x + y /\ y \in Int
    BY <1>2, <2>4
  <2> HIDE DEF x, y
  <2>6. y = rank
    BY <1>1, <2>1, <2>2, <2>5
  <2> QED BY <2>6 DEF y
<1>5. ASSUME gid % size = rank
      PROVE  \E i \in 0..nblocks : gid = rank + i * size
  <2>1. gid = rank + q * size
    BY <1>1, <1>2, <1>5
  <2> QED BY <1>3, <2>1
<1> QED BY <1>1, <1>4, <1>5 DEF RoundRobinGids, RoundRobinRank

-----------------------------------------------------------------------------
\* ContiguousAssigner: a rank's local_gids are the blocks that rank() gives it,
\* also when there are fewer blocks than ranks (assigner.hpp:71, 149).
THEOREM ContiguousInverse ==
  ASSUME NEW size \in Nat \ {0}, NEW nblocks \in Nat, NEW rank \in Ranks(size),
         NEW gid \in Gids(nblocks)
  PROVE  gid \in ContiguousGids(size, nblocks, rank) <=> ContiguousRank(size, nblocks, gid) = rank
<1> DEFINE d == nblocks \div size
           m == nblocks % size
<1>1. d \in Nat /\ m \in Nat /\ m < size /\ nblocks = size * d + m
  <2>1. d \in Int /\ m \in 0..(size - 1) /\ nblocks = size * d + m
    OBVIOUS
  <2> HIDE DEF d, m
  <2>2. CASE d <= -1
    <3>1. size * d <= size * (-1)
      BY <2>1, <2>2, TimesMonotone
    <3> QED BY <2>1, <3>1
  <2> QED BY <2>1, <2>2
<1> DEFINE w == d + 1
           a == gid - w * m
           r == gid \div w
           s == a \div d
           first == IF rank < m THEN rank * w ELSE m * w + (rank - m) * d
           end == IF rank + 1 < m THEN (rank + 1) * w ELSE m * w + (rank + 1 - m) * d
<1>2. /\ gid \in Int /\ rank \in Nat /\ 0 <= gid /\ gid < nblocks
      /\ gid \in ContiguousGids(size, nblocks, rank) <=> gid \in first..(end - 1)
      /\ ContiguousRank(size, nblocks, gid) = IF r < m THEN r ELSE m + s
  BY DEF Gids, Ranks, ContiguousGids, ContiguousLow, ContiguousHigh, ContiguousRank
<1> HIDE DEF d, m
<1>3. w \in Nat \ {0} /\ w = d + 1 /\ w * m = d * m + m /\ w * m \in Int /\ a \in Int /\ a = gid - w * m
  BY <1>1, <1>2
<1> HIDE DEF w, a, s, first, end
<1>4. r \in Int /\ w * r <= gid /\ gid < w * r + w
  BY <1>2, <1>3 DEF r
<1>5. \A x \in Int : r = x <=> w * x <= gid /\ gid < w * x + w
  BY <1>2, <1>3, Quotient DEF r
<1> HIDE DEF r
<1>6. CASE gid < w * m
  <2>1. r < m
    <3>1. CASE m <= r
      <4>1. w * m <= w * r
        BY <1>1, <1>2, <1>3, <1>4, <3>1, TimesMonotone
      <4> QED BY <1>1, <1>2, <1>3, <1>4, <1>6, <4>1
    <3> QED BY <1>1, <1>2, <1>3, <1>4, <3>1
  <2>2. CASE rank < m
    <3>1. first = w * rank /\ end = w * rank + w
      <4>1. CASE rank + 1 < m
        BY <1>1, <1>2, <1>3, <2>2, <4>1 DEF first, end
      <4>2. CASE rank + 1 = m
        BY <1>1, <1>2, <1>3, <2>2, <4>2 DEF first, end
      <4> QED BY <1>1, <1>2, <1>3, <2>2, <4>1, <4>2
    <3> QED BY <1>1, <1>2, <1>3, <1>4, <1>5, <2>1, <3>1
  <2>3. CASE m <= rank
    <3>1. first = w * m + d * (rank - m)
      BY <1>1, <1>2, <1>3, <2>3 DEF first, end
    <3>2. d * 0 <= d * (rank - m)
      BY <1>1, <1>2, <1>3, <2>3, TimesMonotone
    <3>3. end \in Int /\ first \in Int
      BY <1>1, <1>2, <1>3 DEF first, end
    <3> QED BY <1>1, <1>2, <1>3, <1>4, <1>6, <2>1, <2>3, <3>1, <3>2, <3>3
  <2> QED BY <1>1, <1>2, <1>3, <2>2, <2>3
<1>7. CASE w * m <= gid
  <2>1. m <= r
    <3>1. CASE r + 1 <= m
      <4>1. w * (r + 1) <= w * m
        BY <1>1, <1>2, <1>3, <1>4, <3>1, TimesMonotone
      <4>2. w * (r + 1) = w * r + w
        BY <1>1, <1>2, <1>3, <1>4
      <4> QED BY <1>1, <1>2, <1>3, <1>4, <1>7, <4>1, <4>2
    <3> QED BY <1>1, <1>2, <1>3, <1>4, <3>1
  <2>2. d # 0
    BY <1>1, <1>2, <1>3, <1>7
  <2>3. \A x \in Int : d * x <= a /\ a < d * x + d <=> s = x
    BY <1>1, <1>2, <1>3, <2>2, Quotient DEF s
  <2>4. s \in Int /\ d * s <= a /\ a < d * s + d
    BY <1>1, <1>2, <1>3, <2>2 DEF s
  <2>5. 0 <= s
    <3>1. CASE s + 1 <= 0
      <4>1. d * (s + 1) <= d * 0
        BY <1>1, <1>2, <1>3, <2>4, <3>1, TimesMonotone
      <4>2. d * (s + 1) = d * s + d
        BY <1>1, <1>2, <1>3, <2>4
      <4> QED BY <1>1, <1>2, <1>3, <1>7, <2>4, <4>1, <4>2
    <3> QED BY <2>4, <3>1
  <2>6. CASE rank < m
    <3>1. end = w * (rank + 1)
      <4>1. CASE rank + 1 < m
        BY <1>1, <1>2, <1>3, <4>1 DEF first, end
      <4>2. CASE rank + 1 = m
        BY <1>1, <1>2, <1>3, <4>2 DEF first, end
      <4> QED BY <1>1, <1>2, <1>3, <2>6, <4>1, <4>2
    <3>2. w * (rank + 1) <= w * m
      BY <1>1, <1>2, <1>3, <2>6, TimesMonotone
    <3>3. end \in Int /\ first \in Int
      BY <1>1, <1>2, <1>3 DEF first, end
    <3> QED BY <1>1, <1>2, <1>3, <1>7, <2>1, <2>4, <2>5, <2>6, <3>1, <3>2, <3>3
  <2>7. CASE m <= rank
    <3>1. /\ first = w * m + d * (rank - m)
          /\ end = w * m + d * (rank - m) + d
      BY <1>1, <1>2, <1>3, <2>7 DEF first, end
    <3>2. d * (rank - m) \in Int /\ w * m \in Int /\ rank - m \in Int
      BY <1>1, <1>2, <1>3
    <3>3. s = rank - m <=> d * (rank - m) <= a /\ a < d * (rank - m) + d
      BY <2>3, <3>2
    <3> QED BY <1>1, <1>2, <1>3, <1>4, <2>1, <2>4, <3>1, <3>2, <3>3
  <2> QED BY <1>1, <1>2, <1>3, <2>6, <2>7
<1> QED BY <1>1, <1>2, <1>3, <1>4, <1>6, <1>7

-----------------------------------------------------------------------------
\* DynamicAssigner: every block has a slot in the window of one of the ranks, and
\* no two blocks have the same (assigner.hpp:111, 129).
THEOREM SlotsDistinct ==
  ASSUME NEW size \in Nat \ {0}, NEW nblocks \in Nat, NEW gid \in Gids(nblocks)
  PROVE  /\ rank_offset(size, nblocks, gid) \in Ranks(size) \X (0..(div_(size, nblocks) - 1))
         /\ \A other \in Gids(nblocks) :
              rank_offset(size, nblocks, other) = rank_offset(size, nblocks, gid) => other = gid
<1> DEFINE d == nblocks \div size
           m == nblocks % size
           w == div_(size, nblocks)
           q == gid \div w
<1>1. gid \in Int /\ 0 <= gid /\ gid < nblocks
  BY DEF Gids
<1>2. d \in Int /\ m \in 0..(size - 1) /\ nblocks = size * d + m
  BY Division
<1>3. w = d + (IF m = 0 THEN 0 ELSE 1)
  BY DEF div_
<1> HIDE DEF d, m, w
<1>4. nblocks <= size * w /\ w \in Int
  BY <1>2, <1>3
<1>5. w \in Nat \ {0}
  <2>1. CASE w <= 0
    <3>1. size * w <= size * 0
      BY <1>4, <2>1, TimesMonotone
    <3> QED BY <1>1, <1>4, <3>1
  <2> QED BY <1>4, <2>1
<1>6. q \in Int /\ gid % w \in 0..(w - 1) /\ gid = w * q + (gid % w)
  BY <1>1, <1>5, Division
<1>7. \A other \in Gids(nblocks) : other = w * (other \div w) + (other % w)
  BY <1>5, Division DEF Gids
<1>8. /\ rank_offset(size, nblocks, gid) = <<q, gid % w>>
      /\ \A other \in Gids(nblocks) : rank_offset(size, nblocks, other) = <<other \div w, other % w>>
  BY DEF rank_offset, w
<1> HIDE DEF q
<1>9. 0 <= q
  <2>1. CASE q <= -1
    <3>1. w * q <= w * (-1)
      BY <1>5, <1>6, <2>1, TimesMonotone
    <3> QED BY <1>1, <1>5, <1>6, <3>1
  <2> QED BY <1>6, <2>1
<1>10. q < size
  <2>1. CASE size <= q
    <3>1. w * size <= w * q
      BY <1>5, <1>6, <2>1, TimesMonotone
    <3>2. w * size = size * w
      BY <1>5
    <3> QED BY <1>1, <1>4, <1>5, <1>6, <3>1, <3>2
  <2> QED BY <1>6, <2>1
<1>11. ASSUME NEW other \in Gids(nblocks), rank_offset(size, nblocks, other) = rank_offset(size, nblocks, gid)
       PROVE  other = gid
  <2>1. other \div w = q /\ other % w = gid % w
    BY <1>8, <1>11
  <2> QED BY <1>6, <1>7, <2>1
<1> QED BY <1>6, <1>8, <1>9, <1>10, <1>11 DEF Ranks, w

-----------------------------------------------------------------------------
(***************************************************************************)
(* Decomposition.                                                          *)
(***************************************************************************)
\* A part has points, and the parts are not more than all of them.
LEMMA WidthPositive ==
  ASSUME NEW lo \in Int, NEW hi \in Int, NEW n \in Nat \ {0}, n <= hi - lo + 1
  PROVE  width(n, lo, hi) \in Nat \ {0} /\ n * width(n, lo, hi) <= hi - lo + 1
<1> DEFINE w == width(n, lo, hi)
<1>1. w \in Int /\ n * w <= hi - lo + 1 /\ hi - lo + 1 < n * w + n
  BY DEF width
<1> HIDE DEF w
<1>2. 1 <= w
  <2>1. CASE w <= 0
    <3>1. n * w <= n * 0
      BY <1>1, <2>1, TimesMonotone
    <3> QED BY <1>1, <3>1
  <2> QED BY <1>1, <2>1
<1> QED BY <1>1, <1>2 DEF w

\* BoundsHelper: a point of the domain is in those parts that lower() and upper()
\* delimit: in one, or with shared faces in the two that share it, and in the
\* last one beyond the last multiple (decomposition.hpp:37, 46).
THEOREM PartsOfPoint ==
  ASSUME NEW lo \in Int, NEW hi \in Int, NEW n \in Nat \ {0}, n <= hi - lo + 1,
         NEW x \in lo..hi, NEW i \in 0..(n - 1), NEW shared \in BOOLEAN
  PROVE  x \in from(i, n, lo, hi)..to(i, n, lo, hi, shared)
           <=> i \in lower(x, n, lo, hi, shared)..(upper(x, n, lo, hi, shared) - 1)
<1> DEFINE w == width(n, lo, hi)
           y == x - lo
           res == y \div w
<1>1. w \in Nat \ {0} /\ n * w <= hi - lo + 1
  BY WidthPositive
<1>2. /\ from(i, n, lo, hi) = lo + w * i
      /\ to(i, n, lo, hi, shared) = IF i = n - 1 THEN hi ELSE (lo + w * (i + 1)) - (IF shared THEN 0 ELSE 1)
  BY DEF from, to
<1>3. /\ lower(x, n, lo, hi, shared) =
           LET in == IF res >= n THEN n - 1 ELSE res
           IN  IF in > 0 /\ shared /\ x = lo + w * in THEN in - 1 ELSE in
      /\ upper(x, n, lo, hi, shared) =
           LET in == IF res + 1 > n THEN n ELSE res + 1
           IN  IF in < n /\ shared /\ x = lo + w * in THEN in + 1 ELSE in
  BY DEF lower, upper, from
<1> HIDE DEF w
<1>4. y \in Nat /\ x = lo + y /\ y <= hi - lo /\ i \in Nat /\ i < n
  OBVIOUS
<1>5. res \in Int /\ w * res <= y /\ y < w * res + w
  BY <1>1, <1>4
<1> HIDE DEF y, res
<1>6. 0 <= res
  <2>1. CASE res <= -1
    <3>1. w * res <= w * (-1)
      BY <1>1, <1>5, <2>1, TimesMonotone
    <3> QED BY <1>1, <1>4, <1>5, <3>1
  <2> QED BY <1>5, <2>1
\* Where the point is relative to the beginning of any part.
<1>7. ASSUME NEW k \in Int
      PROVE  /\ w * k <= y <=> k <= res
             /\ w * k \in Int
             /\ w * (k + 1) = w * k + w
  <2>1. w * k \in Int /\ w * (k + 1) = w * k + w
    BY <1>1
  <2>2. CASE k <= res
    <3>1. w * k <= w * res
      BY <1>1, <1>5, <2>2, TimesMonotone
    <3> QED BY <1>1, <1>4, <1>5, <2>1, <2>2, <3>1
  <2>3. CASE res + 1 <= k
    <3>1. w * (res + 1) <= w * k
      BY <1>1, <1>5, <2>3, TimesMonotone
    <3>2. w * (res + 1) = w * res + w
      BY <1>1, <1>5
    <3> QED BY <1>1, <1>4, <1>5, <2>1, <2>3, <3>1, <3>2
  <2> QED BY <1>5, <2>2, <2>3
<1>8. /\ w * i <= y <=> i <= res
      /\ w * (i + 1) <= y <=> i + 1 <= res
      /\ w * (i + 1) = w * i + w
      /\ w * i \in Int
  BY <1>4, <1>7
<1>9. CASE res < n
  <2>1. upper(x, n, lo, hi, shared) = res + 1
    <3>1. w * (res + 1) = w * res + w
      BY <1>5, <1>7
    <3> QED BY <1>1, <1>3, <1>4, <1>5, <1>9, <3>1
  <2>2. lower(x, n, lo, hi, shared) = IF res > 0 /\ shared /\ y = w * res THEN res - 1 ELSE res
    BY <1>1, <1>3, <1>4, <1>5, <1>9
  <2>3. CASE i = n - 1
    BY <1>2, <1>4, <1>5, <1>6, <1>8, <1>9, <2>1, <2>2, <2>3
  <2>4. CASE i # n - 1
    <3>1. CASE res = i + 1
      BY <1>1, <1>2, <1>4, <1>5, <1>6, <1>8, <1>9, <2>1, <2>2, <2>4, <3>1
    <3>2. CASE res # i + 1
      <4>1. y # w * (i + 1)
        <5>1. i + 1 <= res => w * (i + 2) <= y
          BY <1>4, <1>5, <1>7, <3>2
        <5>2. w * (i + 2) = w * (i + 1) + w
          BY <1>4, <1>7
        <5> QED BY <1>1, <1>4, <1>5, <1>8, <5>1, <5>2
      <4> QED BY <1>1, <1>2, <1>4, <1>5, <1>6, <1>8, <1>9, <2>1, <2>2, <2>4, <3>2, <4>1
    <3> QED BY <3>1, <3>2
  <2> QED BY <2>3, <2>4
<1>10. CASE n <= res
  <2>1. w * n <= y /\ w * (n - 1) < w * n
    BY <1>1, <1>7, <1>10
  <2>2. lower(x, n, lo, hi, shared) = n - 1 /\ upper(x, n, lo, hi, shared) = n
    BY <1>1, <1>3, <1>4, <1>5, <1>10, <2>1
  <2>3. CASE i = n - 1
    BY <1>2, <1>4, <1>5, <1>8, <1>10, <2>2, <2>3
  <2>4. CASE i # n - 1
    <3>1. w * (i + 1) <= w * (n - 1)
      BY <1>1, <1>4, <2>4, TimesMonotone
    <3> QED BY <1>1, <1>2, <1>4, <1>8, <2>1, <2>2, <2>4, <3>1
  <2> QED BY <2>3, <2>4
<1> QED BY <1>5, <1>9, <1>10

-----------------------------------------------------------------------------
(***************************************************************************)
(* Induction and recursion over numbers, for what loops over dimensions    *)
(* and rounds compute.                                                     *)
(***************************************************************************)
\* Induction, for a set of numbers.
LEMMA Induction ==
  ASSUME NEW P, 0 \in P, \A n \in Nat : n \in P => n + 1 \in P
  PROVE  Nat \subseteq P
<1> DEFINE R == {ss \in Nat \X Nat : ss[1] < ss[2]}
           T == Nat \ P
<1> SUFFICES ASSUME T # {} PROVE FALSE
  OBVIOUS
<1>1. IsWellFoundedOn(R, Nat)
  BY NatLessThanWellFounded DEF OpToRel
<1>2. PICK x \in T : \A y \in T : ~(<<y, x>> \in R)
  <2>1. T \subseteq Nat
    OBVIOUS
  <2> HIDE DEF R, T
  <2> QED
    BY <1>1, <2>1, WFMin
<1>3. x # 0 /\ x - 1 \in Nat /\ <<x - 1, x>> \in R
  OBVIOUS
<1>4. x - 1 \in P
  BY <1>2, <1>3
<1>5. x - 1 + 1 \in P
  BY <1>3, <1>4
<1> QED
  BY <1>3, <1>5

\* The same up to a number n.
LEMMA InductionTo ==
  ASSUME NEW n \in Nat, NEW P, 0 \in P, \A i \in 0..(n - 1) : i \in P => i + 1 \in P
  PROVE  0..n \subseteq P
<1> DEFINE Q == {i \in Nat : i <= n => i \in P}
<1>1. 0 \in Q
  OBVIOUS
<1>2. \A i \in Nat : i \in Q => i + 1 \in Q
  OBVIOUS
<1> HIDE DEF Q
<1>3. Nat \subseteq Q
  BY <1>1, <1>2, Induction
<1> QED
  BY <1>3 DEF Q

\* A loop of n turns, with turn i as F[i], has states in A from beginning to end.
Turns(n, A) == [1..n -> [A -> A]]
Runs(f, n, A, a, F) == f \in [0..n -> A] /\ f[0] = a /\ \A i \in 1..n : f[i] = F[i][f[i - 1]]

LEMMA Iteration ==
  ASSUME NEW n \in Nat, NEW A, NEW a \in A, NEW F \in Turns(n, A)
  PROVE  \E f : Runs(f, n, A, a, F)
<1> DEFINE P == {k \in 0..n : \E f \in [0..k -> A] : f[0] = a /\ \A i \in 1..k : f[i] = F[i][f[i - 1]]}
<1>1. 0 \in P
  <2> DEFINE g == [i \in 0..0 |-> a]
  <2>1. g \in [0..0 -> A] /\ g[0] = a /\ 1..0 = {}
    OBVIOUS
  <2> HIDE DEF g
  <2>2. \A i \in 1..0 : g[i] = F[i][g[i - 1]]
    BY <2>1
  <2> QED
    BY <2>1, <2>2
<1>2. ASSUME NEW k \in 0..(n - 1), k \in P PROVE k + 1 \in P
  <2>1. PICK f \in [0..k -> A] : f[0] = a /\ \A i \in 1..k : f[i] = F[i][f[i - 1]]
    BY <1>2
  <2> DEFINE g == [i \in 0..(k + 1) |-> IF i = k + 1 THEN F[k + 1][f[k]] ELSE f[i]]
  <2>2. k + 1 \in 1..n /\ F[k + 1] \in [A -> A] /\ f[k] \in A
    BY DEF Turns
  <2>3. F[k + 1][f[k]] \in A
    BY <2>2
  <2>4. g \in [0..(k + 1) -> A]
    BY <2>1, <2>3
  <2>5. g[0] = a
    BY <2>1
  <2>6. ASSUME NEW i \in 1..(k + 1) PROVE g[i] = F[i][g[i - 1]]
    <3>1. g[i - 1] = f[i - 1]
      OBVIOUS
    <3>2. CASE i = k + 1
      BY <3>1, <3>2
    <3>3. CASE i # k + 1
      BY <2>1, <3>1, <3>3
    <3> QED
      BY <3>2, <3>3
  <2> HIDE DEF g
  <2>7. k + 1 \in 0..n
    OBVIOUS
  <2> QED
    BY <2>4, <2>5, <2>6, <2>7
<1> HIDE DEF P
<1>3. 0..n \subseteq P
  BY <1>1, <1>2, InductionTo
<1>4. n \in P
  BY <1>3
<1> QED
  BY <1>4 DEF P, Runs

\* A set of natural numbers has a smallest one.
LEMMA LeastNumber ==
  ASSUME NEW S, S \subseteq Nat, S # {}
  PROVE  Min(S) \in S /\ \A y \in S : Min(S) <= y
<1>1. PICK x \in S : \A y \in S : ~(<<y, x>> \in OpToRel(<, Nat))
  BY NatLessThanWellFounded, WFMin
<1>2. \A y \in S : ~(y < x)
  BY <1>1 DEF OpToRel
<1>3. \E z \in S : \A y \in S : z =< y
  BY <1>2
<1> QED
  BY <1>3, Zenon DEF Min



-----------------------------------------------------------------------------
(***************************************************************************)
(* Blocks and their coordinates in the grid.                               *)
(***************************************************************************)
\* The quotient of natural numbers is one.
LEMMA NatDivision ==
  ASSUME NEW a \in Nat, NEW b \in Nat \ {0}
  PROVE  /\ a \div b \in Nat /\ a % b \in 0..(b - 1) /\ a = b * (a \div b) + (a % b)
         /\ a \div b <= a
<1> DEFINE q == a \div b
<1>1. q \in Int /\ a % b \in 0..(b - 1) /\ a = b * q + (a % b)
  BY Division
<1> HIDE DEF q
<1>2. CASE q <= -1
  <2>1. b * q <= b * (-1)
    BY <1>1, <1>2, TimesMonotone
  <2> QED
    BY <1>1, <2>1
<1>3. CASE 0 <= q
  <2>1. q * 1 <= q * b
    BY <1>1, <1>3, TimesMonotone
  <2>2. q * b = b * q
    BY <1>1
  <2>3. q <= a
    BY <1>1, <1>3, <2>1, <2>2
  <2> QED
    BY <1>1, <1>3, <2>3 DEF q
<1> QED
  BY <1>1, <1>2, <1>3

\* The loop that multiplies.
LEMMA ProductLoop ==
  ASSUME NEW x, Len(x) \in Nat, \A i \in 1..Len(x) : x[i] \in Nat
  PROVE  \E f \in [0..Len(x) -> Nat] :
           f[0] = 1 /\ (\A i \in 1..Len(x) : f[i] = f[i - 1] * x[i]) /\ Product(x) = f[Len(x)]
<1> DEFINE n == Len(x)
           Eq(g) == g = [i \in 0..n |-> IF i = 0 THEN 1 ELSE g[i - 1] * x[i]]
           f == CHOOSE g : Eq(g)
           F == [i \in 1..n |-> [y \in Nat |-> y * x[i]]]
<1>1. Product(x) = f[n]
  BY Zenon DEF Product
<1>2. \E g : Eq(g)
  <2>1. F \in [1..n -> [Nat -> Nat]]
    OBVIOUS
  <2>2. PICK g : g \in [0..n -> Nat] /\ g[0] = 1 /\ \A i \in 1..n : g[i] = F[i][g[i - 1]]
    <3>1. n \in Nat /\ 1 \in Nat /\ F \in Turns(n, Nat)
      BY <2>1 DEF Turns
    <3> HIDE DEF F, n
    <3>2. \E g : Runs(g, n, Nat, 1, F)
      BY <3>1, Iteration
    <3> QED
      BY <3>2 DEF Runs
  <2>3. \A i \in 1..n : g[i] = g[i - 1] * x[i]
    <3>1. \A i \in 1..n : i - 1 \in 0..n /\ g[i - 1] \in Nat
      <4>1. \A i \in 1..n : i - 1 \in 0..n
        BY DEF n
      <4> HIDE DEF n, F
      <4> QED
        BY <2>2, <4>1
    <3>2. \A i \in 1..n : F[i][g[i - 1]] = g[i - 1] * x[i]
      BY <3>1
    <3> QED
      BY <2>2, <3>2
  <2>4. Eq(g)
    BY <2>2, <2>3
  <2> QED
    BY <2>4
<1>3. Eq(f)
  <2> HIDE DEF Eq
  <2> QED
    BY <1>2
<1> HIDE DEF f
<1>4. f[0] = 1 /\ \A i \in 1..n : f[i] = f[i - 1] * x[i]
  BY <1>3
<1>5. \A i \in 0..n : f[i] \in Nat
  <2> DEFINE P == {i \in 0..n : f[i] \in Nat}
  <2>1. 0 \in P
    BY <1>4
  <2>2. \A i \in 0..(n - 1) : i \in P => i + 1 \in P
    BY <1>4
  <2> HIDE DEF P, n
  <2>3. 0..n \subseteq P
    <3>1. n \in Nat
      BY DEF n
    <3> QED
      BY <2>1, <2>2, <3>1, InductionTo
  <2> QED
    BY <2>3 DEF P
<1>6. f \in [0..n -> Nat]
  BY <1>3, <1>5
<1> QED
  BY <1>1, <1>4, <1>6

\* The loop of gid_to_coords.
LEMMA CoordsLoop ==
  ASSUME NEW D \in Seq(Nat \ {0}), NEW gid \in Nat
  PROVE  \E f \in [0..Len(D) -> Nat] :
           /\ f[0] = gid /\ \A i \in 1..Len(D) : f[i] = f[i - 1] \div D[i]
           /\ gid_to_coords(gid, D) = [i \in 1..Len(D) |-> f[i - 1] % D[i]]
<1> DEFINE n == Len(D)
           Eq(g) == g = [i \in 0..n |-> IF i = 0 THEN gid ELSE g[i - 1] \div D[i]]
           f == CHOOSE g : Eq(g)
           F == [i \in 1..n |-> [y \in Nat |-> y \div D[i]]]
<1>0. n \in Nat /\ DOMAIN D = 1..n /\ \A i \in 1..n : D[i] \in Nat \ {0}
  OBVIOUS
<1>1. gid_to_coords(gid, D) = [i \in 1..n |-> f[i - 1] % D[i]]
  <2>1. gid_to_coords(gid, D) = [i \in DOMAIN D |-> f[i - 1] % D[i]]
    BY Zenon DEF gid_to_coords, Dims
  <2> HIDE DEF f
  <2> QED
    BY <2>1
<1>2. \E g : Eq(g)
  <2>1. F \in [1..n -> [Nat -> Nat]]
    <3>1. \A i \in 1..n : \A y \in Nat : y \div D[i] \in Nat
      BY <1>0, NatDivision
    <3> QED
      BY <3>1
  <2>2. PICK g : g \in [0..n -> Nat] /\ g[0] = gid /\ \A i \in 1..n : g[i] = F[i][g[i - 1]]
    <3>1. n \in Nat /\ gid \in Nat /\ F \in Turns(n, Nat)
      BY <1>0, <2>1 DEF Turns
    <3> HIDE DEF F, n
    <3>2. \E g : Runs(g, n, Nat, gid, F)
      BY <3>1, Iteration
    <3> QED
      BY <3>2 DEF Runs
  <2>3. \A i \in 1..n : g[i] = g[i - 1] \div D[i]
    <3>1. \A i \in 1..n : i - 1 \in 0..n /\ g[i - 1] \in Nat
      <4>1. \A i \in 1..n : i - 1 \in 0..n
        BY DEF n
      <4> HIDE DEF n, F
      <4> QED
        BY <2>2, <4>1
    <3>2. \A i \in 1..n : F[i][g[i - 1]] = g[i - 1] \div D[i]
      BY <3>1
    <3> QED
      BY <2>2, <3>2
  <2>4. Eq(g)
    BY <2>2, <2>3
  <2> QED
    BY <2>4
<1>3. Eq(f)
  <2> HIDE DEF Eq
  <2> QED
    BY <1>2
<1> HIDE DEF f
<1>4. f[0] = gid /\ \A i \in 1..n : f[i] = f[i - 1] \div D[i]
  <2>1. \A i \in 1..n : i \in 0..n /\ i # 0
    OBVIOUS
  <2>2. 0 \in 0..n
    BY <1>0
  <2> HIDE DEF n
  <2> QED
    BY <1>3, <2>1, <2>2
<1>5. \A i \in 0..n : f[i] \in Nat
  <2> DEFINE P == {i \in 0..n : f[i] \in Nat}
  <2>1. 0 \in P
    BY <1>4
  <2>2. \A i \in 0..(n - 1) : i \in P => i + 1 \in P
    <3> SUFFICES ASSUME NEW i \in 0..(n - 1), i \in P PROVE i + 1 \in P
      OBVIOUS
    <3>1. f[i + 1] = f[i] \div D[i + 1] /\ D[i + 1] \in Nat \ {0} /\ f[i] \in Nat
      BY <1>0, <1>4
    <3>2. f[i + 1] \in Nat
      BY <3>1, NatDivision
    <3> QED
      BY <3>2
  <2> HIDE DEF P, n
  <2>3. 0..n \subseteq P
    BY <1>0, <2>1, <2>2, InductionTo
  <2> QED
    BY <2>3 DEF P
<1>6. f \in [0..n -> Nat]
  BY <1>3, <1>5
<1> QED
  BY <1>1, <1>4, <1>6

\* The loop of coords_to_gid, from the last dimension to the first.
LEMMA GidLoop ==
  ASSUME NEW D \in Seq(Nat), NEW c \in [1..Len(D) -> Nat]
  PROVE  \E f \in [1..(Len(D) + 1) -> Nat] :
           /\ f[Len(D) + 1] = 0 /\ \A i \in 1..Len(D) : f[i] = f[i + 1] * D[i] + c[i]
           /\ coords_to_gid(c, D) = f[1]
<1> DEFINE n == Len(D)
           Eq(g) == g = [i \in 0..n |-> IF i = 0 THEN 0 ELSE g[i - 1] * D[n - i + 1] + c[n - i + 1]]
           f == CHOOSE g : Eq(g)
           F == [i \in 1..n |-> [y \in Nat |-> y * D[n - i + 1] + c[n - i + 1]]]
<1>0. n \in Nat /\ \A i \in 1..n : D[i] \in Nat /\ c[i] \in Nat
  OBVIOUS
<1>1. coords_to_gid(c, D) = f[n]
  BY Zenon DEF coords_to_gid
<1>2. \E g : Eq(g)
  <2>1. F \in [1..n -> [Nat -> Nat]]
    <3>1. \A i \in 1..n : n - i + 1 \in 1..n
      BY <1>0
    <3> DEFINE E(i, y) == y * D[n - i + 1] + c[n - i + 1]
    <3>2. ASSUME NEW i \in 1..n, NEW y \in Nat PROVE E(i, y) \in Nat
      <4> DEFINE a == D[n - i + 1]
                 b == c[n - i + 1]
                 u == y * a
      <4>1. a \in Nat /\ b \in Nat
        BY <1>0, <3>1
      <4>2. u \in Nat
        <5> HIDE DEF a
        <5> QED
          BY <4>1
      <4>3. u + b \in Nat
        <5> HIDE DEF u, b
        <5> QED
          BY <4>1, <4>2
      <4> QED
        BY <4>3
    <3>3. F = [i \in 1..n |-> [y \in Nat |-> E(i, y)]]
      OBVIOUS
    <3> HIDE DEF E, F, n
    <3> QED
      BY <3>2, <3>3
  <2>2. PICK g : g \in [0..n -> Nat] /\ g[0] = 0 /\ \A i \in 1..n : g[i] = F[i][g[i - 1]]
    <3>1. n \in Nat /\ 0 \in Nat /\ F \in Turns(n, Nat)
      BY <1>0, <2>1 DEF Turns
    <3> HIDE DEF F, n
    <3>2. \E g : Runs(g, n, Nat, 0, F)
      BY <3>1, Iteration
    <3> QED
      BY <3>2 DEF Runs
  <2>3. \A i \in 1..n : g[i] = g[i - 1] * D[n - i + 1] + c[n - i + 1]
    <3>1. \A i \in 1..n : i - 1 \in 0..n /\ g[i - 1] \in Nat
      <4>1. \A i \in 1..n : i - 1 \in 0..n
        BY DEF n
      <4> HIDE DEF n, F
      <4> QED
        BY <2>2, <4>1
    <3>2. \A i \in 1..n : F[i][g[i - 1]] = g[i - 1] * D[n - i + 1] + c[n - i + 1]
      BY <3>1
    <3> QED
      BY <2>2, <3>2
  <2>4. Eq(g)
    BY <2>2, <2>3
  <2> QED
    BY <2>4
<1>3. Eq(f)
  <2> HIDE DEF Eq
  <2> QED
    BY <1>2
<1> HIDE DEF f
<1>4. f[0] = 0 /\ \A i \in 1..n : f[i] = f[i - 1] * D[n - i + 1] + c[n - i + 1]
  <2>1. \A i \in 1..n : i \in 0..n /\ i # 0
    OBVIOUS
  <2>2. 0 \in 0..n
    BY <1>0
  <2> HIDE DEF n
  <2> QED
    BY <1>3, <2>1, <2>2
<1>5. \A i \in 0..n : f[i] \in Nat
  <2> DEFINE P == {i \in 0..n : f[i] \in Nat}
  <2>1. 0 \in P
    BY <1>4
  <2>2. \A i \in 0..(n - 1) : i \in P => i + 1 \in P
    <3> SUFFICES ASSUME NEW i \in 0..(n - 1), i \in P PROVE i + 1 \in P
      OBVIOUS
    <3>1. f[i + 1] = f[i] * D[n - i] + c[n - i] /\ n - i \in 1..n
      BY <1>0, <1>4
    <3>2. D[n - i] \in Nat /\ c[n - i] \in Nat /\ f[i] \in Nat
      BY <1>0, <3>1
    <3>3. f[i + 1] \in Nat /\ i + 1 \in 0..n
      <4> DEFINE u == f[i] * D[n - i]
      <4>0. \A x, y \in Nat : x * y \in Nat
        BY SMT
      <4>1. u \in Nat
        BY Zenon, <3>2, <4>0
      <4>2. u + c[n - i] \in Nat
        <5> DEFINE v == c[n - i]
        <5>1. v \in Nat
          BY <3>2
        <5> HIDE DEF u, v
        <5>2. u + v \in Nat
          BY <4>1, <5>1
        <5> QED
          BY <5>2 DEF v
      <4>3. i + 1 \in 0..n
        BY <1>0
      <4> HIDE DEF n
      <4> QED
        BY <3>1, <4>2, <4>3
    <3> QED
      BY <3>3
  <2> HIDE DEF P, n
  <2>3. 0..n \subseteq P
    BY <1>0, <2>1, <2>2, InductionTo
  <2> QED
    BY <2>3 DEF P
<1> DEFINE h == [i \in 1..(n + 1) |-> f[n + 1 - i]]
<1>6. h \in [1..(n + 1) -> Nat]
  <2>1. \A i \in 1..(n + 1) : n + 1 - i \in 0..n
    BY <1>0
  <2> QED
    BY <1>5, <2>1
<1>7. h[n + 1] = 0 /\ h[1] = f[n]
  BY <1>0, <1>4
<1>8. ASSUME NEW i \in 1..n PROVE h[i] = h[i + 1] * D[i] + c[i]
  <2> DEFINE j == n - i + 1
  <2>1. j \in 1..n /\ n - j + 1 = i /\ j - 1 = n + 1 - (i + 1) /\ j = n + 1 - i
    BY <1>0
  <2>2. f[j] = f[j - 1] * D[n - j + 1] + c[n - j + 1]
    BY <1>4, <2>1
  <2>3. h[i] = f[j] /\ h[i + 1] = f[j - 1]
    BY <1>0, <2>1
  <2> HIDE DEF h, j
  <2> QED
    BY <2>1, <2>2, <2>3
<1> HIDE DEF h
<1> QED
  BY <1>1, <1>6, <1>7, <1>8

IsCoords(c, D) == c \in [1..Len(D) -> Nat] /\ \A i \in 1..Len(D) : c[i] < D[i]

LEMMA DivMod ==
  ASSUME NEW b \in Nat \ {0}, NEW q \in Int, NEW r \in 0..(b - 1), NEW a, a = b * q + r
  PROVE  a \div b = q /\ a % b = r
<1>1. b * q \in Int /\ a \in Int /\ b * q <= a /\ a < b * q + b
  BY SMT
<1>2. a \div b = q
  BY <1>1, Quotient
<1>3. a = b * (a \div b) + (a % b) /\ a % b \in Int
  BY <1>1, Division
<1> QED
  BY <1>1, <1>2, <1>3

\* Products of two numbers are numbers, and distribute.
LEMMA Products ==
  /\ \A x, y \in Nat : x * y \in Nat /\ x * y = y * x /\ (x + 1) * y = x * y + y
  /\ \A x, y, z \in Nat : (x * y) * z = x * (y * z) /\ (x * y) * z = (x * z) * y
BY SMT

LEMMA ProductsGrow ==
  ASSUME NEW x \in Nat, NEW y \in Nat, NEW z \in Nat, x <= y
  PROVE  x * z <= y * z
<1>1. z * x <= z * y
  BY TimesMonotone
<1> QED
  BY <1>1, Products

LEMMA ProductPositive ==
  ASSUME NEW D \in Seq(Nat \ {0})
  PROVE  \E f \in [0..Len(D) -> Nat \ {0}] :
           f[0] = 1 /\ (\A i \in 1..Len(D) : f[i] = f[i - 1] * D[i]) /\ Product(D) = f[Len(D)]
<1> DEFINE n == Len(D)
<1>0. n \in Nat /\ \A i \in 1..n : D[i] \in Nat \ {0}
  OBVIOUS
<1>1. PICK f \in [0..n -> Nat] :
        f[0] = 1 /\ (\A i \in 1..n : f[i] = f[i - 1] * D[i]) /\ Product(D) = f[n]
  BY <1>0, ProductLoop
<1> DEFINE P == {i \in 0..n : f[i] # 0}
<1> HIDE DEF n
<1>2. 0 \in P
  BY <1>0, <1>1
<1>3. ASSUME NEW i \in 0..(n - 1), i \in P PROVE i + 1 \in P
  <2>1. i + 1 \in 1..n /\ i + 1 \in 0..n /\ i \in 0..n
    BY <1>0
  <2>2. f[i + 1] = f[i] * D[i + 1] /\ f[i] \in Nat \ {0} /\ D[i + 1] \in Nat \ {0}
    BY <1>0, <1>1, <1>3, <2>1
  <2>3. \A x, y \in Nat \ {0} : x * y # 0
    BY SMT
  <2>4. f[i + 1] # 0
    BY Zenon, <2>2, <2>3
  <2> QED
    BY <2>1, <2>4
<1> HIDE DEF P
<1>4. 0..n \subseteq P
  BY <1>0, <1>2, <1>3, InductionTo
<1>5. f \in [0..n -> Nat \ {0}]
  BY <1>1, <1>4 DEF P
<1> QED
  BY <1>1, <1>5 DEF n

\* RegularDecomposer: each place in the grid has a block of its own, and
\* gid_to_coords finds the place of the block again (decomposition.hpp:486, 499).
THEOREM PlaceOfBlock ==
  ASSUME NEW D \in Seq(Nat \ {0}), NEW c, IsCoords(c, D)
  PROVE  /\ coords_to_gid(c, D) \in Gids(Product(D))
         /\ gid_to_coords(coords_to_gid(c, D), D) = c
<1> DEFINE n == Len(D)
           gid == coords_to_gid(c, D)
<1>1. n \in Nat /\ c \in [1..n -> Nat] /\ \A i \in 1..n : D[i] \in Nat \ {0} /\ c[i] \in 0..(D[i] - 1)
  <2>1. n \in Nat /\ c \in [1..n -> Nat] /\ \A i \in 1..n : D[i] \in Nat \ {0}
    BY DEF IsCoords
  <2>2. ASSUME NEW i \in 1..n PROVE c[i] \in 0..(D[i] - 1)
    <3>1. c[i] < D[i]
      BY Zenon DEF IsCoords
    <3>2. c[i] \in Nat /\ D[i] \in Nat
      BY <2>1
    <3> QED
      BY <3>1, <3>2
  <2> QED
    BY <2>1, <2>2
<1>2. PICK f \in [1..(n + 1) -> Nat] :
        /\ f[n + 1] = 0 /\ \A i \in 1..n : f[i] = f[i + 1] * D[i] + c[i]
        /\ gid = f[1]
  <2>1. D \in Seq(Nat)
    OBVIOUS
  <2> QED
    BY <1>1, <2>1, GidLoop
<1>3. gid \in Nat
  <2>1. 1 \in 1..(n + 1)
    BY <1>1
  <2> HIDE DEF n, gid
  <2> QED
    BY <1>2, <2>1
<1>4. PICK h \in [0..n -> Nat] :
        /\ h[0] = gid /\ \A i \in 1..n : h[i] = h[i - 1] \div D[i]
        /\ gid_to_coords(gid, D) = [i \in 1..n |-> h[i - 1] % D[i]]
  BY <1>3, CoordsLoop
<1>5. PICK p \in [0..n -> Nat \ {0}] :
        p[0] = 1 /\ (\A i \in 1..n : p[i] = p[i - 1] * D[i]) /\ Product(D) = p[n]
  BY ProductPositive
<1> HIDE DEF n, gid
<1>6. ASSUME NEW i \in 0..(n - 1)
      PROVE  /\ i + 1 \in 1..n /\ i + 1 \in 0..n /\ i \in 0..n
             /\ i + 1 \in 1..(n + 1) /\ i + 2 \in 1..(n + 1)
             /\ f[i + 1] = f[i + 2] * D[i + 1] + c[i + 1] /\ h[i + 1] = h[i] \div D[i + 1]
             /\ p[i + 1] = p[i] * D[i + 1]
             /\ f[i + 1] \in Nat /\ f[i + 2] \in Nat /\ p[i] \in Nat \ {0}
             /\ D[i + 1] \in Nat \ {0} /\ c[i + 1] \in 0..(D[i + 1] - 1)
             /\ f[i + 1] \div D[i + 1] = f[i + 2] /\ f[i + 1] % D[i + 1] = c[i + 1]
  <2>1. /\ i + 1 \in 1..n /\ i + 1 \in 0..n /\ i \in 0..n /\ (i + 1) + 1 = i + 2 /\ (i + 1) - 1 = i
        /\ i + 1 \in 1..(n + 1) /\ i + 2 \in 1..(n + 1)
    BY <1>1
  <2>2. /\ f[i + 1] = f[i + 2] * D[i + 1] + c[i + 1] /\ h[i + 1] = h[i] \div D[i + 1]
        /\ p[i + 1] = p[i] * D[i + 1]
        /\ f[i + 1] \in Nat /\ f[i + 2] \in Nat /\ p[i] \in Nat \ {0}
        /\ D[i + 1] \in Nat \ {0} /\ c[i + 1] \in 0..(D[i + 1] - 1)
    BY <1>1, <1>2, <1>4, <1>5, <2>1
  <2>3. f[i + 1] = D[i + 1] * f[i + 2] + c[i + 1] /\ f[i + 2] \in Int
    BY <2>2, Products
  <2>4. f[i + 1] \div D[i + 1] = f[i + 2] /\ f[i + 1] % D[i + 1] = c[i + 1]
    <3> DEFINE a == f[i + 1]
               b == D[i + 1]
               q == f[i + 2]
               e == c[i + 1]
    <3>1. b \in Nat \ {0} /\ q \in Int /\ e \in 0..(b - 1) /\ a = b * q + e
      BY <2>2, <2>3
    <3> HIDE DEF a, b, q, e
    <3>2. a \div b = q /\ a % b = e
      BY <3>1, DivMod
    <3> QED
      BY <3>2 DEF a, b, q, e
  <2> QED
    BY <2>1, <2>2, <2>4
<1>7. \A i \in 0..n : h[i] = f[i + 1]
  <2> DEFINE P == {i \in 0..n : h[i] = f[i + 1]}
  <2>1. 0 \in P
    BY <1>1, <1>2, <1>4
  <2>2. ASSUME NEW i \in 0..(n - 1), i \in P PROVE i + 1 \in P
    <3>1. h[i + 1] = f[i + 2] /\ (i + 1) + 1 = i + 2
      BY <1>6, <2>2
    <3> QED
      BY <1>6, <3>1
  <2> HIDE DEF P
  <2>3. 0..n \subseteq P
    BY <1>1, <2>1, <2>2, InductionTo
  <2> QED
    BY <2>3 DEF P
<1>8. gid_to_coords(gid, D) = c
  <2>1. ASSUME NEW i \in 1..n PROVE h[i - 1] % D[i] = c[i]
    <3>1. i - 1 \in 0..(n - 1) /\ i - 1 \in 0..n /\ (i - 1) + 1 = i
      BY <1>1
    <3>2. h[i - 1] = f[i] /\ f[i] % D[i] = c[i]
      BY <1>6, <1>7, <3>1
    <3> QED
      BY <3>2
  <2> QED
    BY <1>1, <1>4, <2>1
<1>9. \A i \in 0..n : f[1] < (f[i + 1] + 1) * p[i]
  <2> DEFINE P == {i \in 0..n : f[1] < (f[i + 1] + 1) * p[i]}
  <2>1. 0 \in P
    <3>1. f[1] \in Nat /\ 0 + 1 = 1 /\ p[0] = 1 /\ 0 \in 0..n
      BY <1>1, <1>2, <1>5
    <3>2. f[1] < (f[1] + 1) * 1
      BY <3>1
    <3> QED
      BY <3>1, <3>2
  <2>2. ASSUME NEW i \in 0..(n - 1), i \in P PROVE i + 1 \in P
    <3>1. f[1] < (f[i + 1] + 1) * p[i] /\ f[1] \in Nat
      BY <1>1, <1>2, <2>2
    <3>2. f[i + 1] + 1 <= f[i + 2] * D[i + 1] + D[i + 1]
      <4> DEFINE u == f[i + 2] * D[i + 1]
      <4>1. u \in Nat
        BY <1>6, Products
      <4>2. f[i + 1] = u + c[i + 1] /\ D[i + 1] \in Nat /\ c[i + 1] \in 0..(D[i + 1] - 1)
        BY <1>6
      <4> HIDE DEF u
      <4>3. f[i + 1] + 1 <= u + D[i + 1]
        BY <4>1, <4>2
      <4> QED
        BY <4>3 DEF u
    <3>0. f[i + 2] \in Nat /\ f[i + 2] + 1 \in Nat /\ D[i + 1] \in Nat /\ f[i + 1] + 1 \in Nat /\ p[i] \in Nat
      <4>1. f[i + 2] \in Nat /\ f[i + 1] \in Nat /\ D[i + 1] \in Nat /\ p[i] \in Nat
        BY Zenon, <1>6
      <4>2. \A k \in Nat : k + 1 \in Nat
        BY SMT
      <4> QED
        BY Zenon, <4>1, <4>2
    <3>3. (f[i + 2] + 1) * D[i + 1] = f[i + 2] * D[i + 1] + D[i + 1]
      <4> DEFINE x == f[i + 2]
                 y == D[i + 1]
      <4>1. x \in Nat /\ y \in Nat
        BY <3>0
      <4>2. (x + 1) * y = x * y + y
        <5> HIDE DEF x, y
        <5> QED
          BY <4>1
      <4> QED
        BY <4>2
    <3> DEFINE u == (f[i + 2] + 1) * D[i + 1]
    <3>4. u \in Nat /\ f[i + 1] + 1 \in Nat /\ f[i + 1] + 1 <= u /\ p[i] \in Nat
      BY Zenon, <3>0, <3>2, <3>3, Products
    <3>5. (f[i + 1] + 1) * p[i] <= u * p[i]
      <4> HIDE DEF u
      <4> QED
        BY <3>4, ProductsGrow
    <3>6. u * p[i] = (f[i + 2] + 1) * p[i + 1]
      <4>1. \A x, y, z \in Nat : (x * y) * z = x * (z * y)
        BY Products
      <4>2. f[i + 2] + 1 \in Nat /\ D[i + 1] \in Nat
        BY <1>6
      <4>3. u * p[i] = (f[i + 2] + 1) * (p[i] * D[i + 1])
        BY <3>4, <4>1, <4>2
      <4> QED
        BY <4>3, <1>6
    <3>7. u * p[i] \in Nat /\ (f[i + 1] + 1) * p[i] \in Nat
      BY <3>4, Products
    <3>8. f[1] < (f[i + 2] + 1) * p[i + 1]
      <4> HIDE DEF u
      <4> QED
        BY <3>1, <3>5, <3>6, <3>7
    <3>9. (i + 1) + 1 = i + 2 /\ i + 1 \in 0..n
      BY <1>1
    <3> QED
      BY <3>8, <3>9
  <2> HIDE DEF P
  <2>3. 0..n \subseteq P
    BY <1>1, <2>1, <2>2, InductionTo
  <2> QED
    BY <2>3 DEF P
<1>10. gid < Product(D)
  <2>1. f[1] < (f[n + 1] + 1) * p[n] /\ p[n] \in Nat
    BY <1>1, <1>5, <1>9
  <2> QED
    BY <1>2, <1>5, <2>1
<1>11. Product(D) \in Nat /\ gid \in 0..(Product(D) - 1)
  BY <1>1, <1>3, <1>5, <1>10
<1> QED
  BY <1>8, <1>11 DEF Gids, gid

\* RegularDecomposer: each block has a place in the grid, and coords_to_gid finds the
\* block at this place again (decomposition.hpp:486, 499).
THEOREM BlockOfPlace ==
  ASSUME NEW D \in Seq(Nat \ {0}), NEW gid \in Gids(Product(D))
  PROVE  /\ IsCoords(gid_to_coords(gid, D), D)
         /\ coords_to_gid(gid_to_coords(gid, D), D) = gid
<1> DEFINE n == Len(D)
           c == gid_to_coords(gid, D)
<1>1. n \in Nat /\ \A i \in 1..n : D[i] \in Nat \ {0}
  OBVIOUS
<1>2. PICK p \in [0..n -> Nat \ {0}] :
        p[0] = 1 /\ (\A i \in 1..n : p[i] = p[i - 1] * D[i]) /\ Product(D) = p[n]
  BY ProductPositive
<1>3. gid \in Nat /\ gid < p[n] /\ p[n] \in Nat
  BY <1>1, <1>2 DEF Gids
<1>4. PICK h \in [0..n -> Nat] :
        /\ h[0] = gid /\ \A i \in 1..n : h[i] = h[i - 1] \div D[i]
        /\ c = [i \in 1..n |-> h[i - 1] % D[i]]
  BY <1>3, CoordsLoop
<1> HIDE DEF n, c
<1>5. ASSUME NEW i \in 0..(n - 1)
      PROVE  /\ i + 1 \in 1..n /\ i + 1 \in 0..n /\ i \in 0..n
             /\ h[i] \in Nat /\ h[i + 1] \in Nat /\ D[i + 1] \in Nat \ {0} /\ p[i] \in Nat
             /\ h[i + 1] = h[i] \div D[i + 1] /\ c[i + 1] = h[i] % D[i + 1]
             /\ p[i + 1] = p[i] * D[i + 1]
             /\ c[i + 1] \in 0..(D[i + 1] - 1)
             /\ h[i] = h[i + 1] * D[i + 1] + c[i + 1]
             /\ h[i + 1] * D[i + 1] <= h[i]
  <2>1. i + 1 \in 1..n /\ i + 1 \in 0..n /\ i \in 0..n /\ (i + 1) - 1 = i
    BY <1>1
  <2>2. /\ h[i] \in Nat /\ h[i + 1] \in Nat /\ D[i + 1] \in Nat \ {0} /\ p[i] \in Nat
        /\ h[i + 1] = h[i] \div D[i + 1] /\ c[i + 1] = h[i] % D[i + 1]
        /\ p[i + 1] = p[i] * D[i + 1]
    BY <1>1, <1>2, <1>4, <2>1
  <2>3. c[i + 1] \in 0..(D[i + 1] - 1) /\ h[i] = D[i + 1] * h[i + 1] + c[i + 1]
    <3> DEFINE a == h[i]
               b == D[i + 1]
    <3>1. a \in Int /\ b \in Nat \ {0}
      BY <2>2
    <3> HIDE DEF a, b
    <3>2. a % b \in 0..(b - 1) /\ a = b * (a \div b) + (a % b)
      BY <3>1, Division
    <3> QED
      BY <2>2, <3>2 DEF a, b
  <2>4. D[i + 1] * h[i + 1] = h[i + 1] * D[i + 1] /\ h[i + 1] * D[i + 1] \in Nat
    BY <2>2, Products
  <2>5. h[i] = h[i + 1] * D[i + 1] + c[i + 1]
    BY <2>3, <2>4
  <2>6. h[i + 1] * D[i + 1] <= h[i]
    <3> DEFINE u == h[i + 1] * D[i + 1]
    <3> HIDE DEF u
    <3>1. u \in Nat /\ h[i] = u + c[i + 1] /\ D[i + 1] \in Nat
      BY <2>2, <2>4, <2>5 DEF u
    <3>2. u <= h[i]
      BY <2>3, <3>1
    <3> QED
      BY <3>2 DEF u
  <2> QED
    BY <2>1, <2>2, <2>3, <2>5, <2>6
<1>6. ASSUME NEW i \in 1..n PROVE c[i] \in Nat /\ c[i] < D[i]
  <2>1. i - 1 \in 0..(n - 1) /\ (i - 1) + 1 = i
    BY <1>1
  <2>2. c[i] \in 0..(D[i] - 1) /\ D[i] \in Nat
    BY <1>1, <1>5, <2>1
  <2> QED
    BY <2>2
<1>7. c \in [1..n -> Nat] /\ IsCoords(c, D)
  <2>1. DOMAIN c = 1..n /\ c = [i \in 1..n |-> c[i]]
    BY <1>4
  <2>2. c \in [1..n -> Nat]
    BY <1>6, <2>1
  <2> QED
    BY <1>6, <2>2 DEF IsCoords, n
<1>8. PICK f \in [1..(n + 1) -> Nat] :
        /\ f[n + 1] = 0 /\ \A i \in 1..n : f[i] = f[i + 1] * D[i] + c[i]
        /\ coords_to_gid(c, D) = f[1]
  <2>1. D \in Seq(Nat)
    BY <1>1 DEF n
  <2> QED
    BY <1>7, <2>1, GidLoop DEF n
<1>9. h[n] = 0
  <2> DEFINE P == {i \in 0..n : h[i] * p[i] <= gid}
  <2>1. 0 \in P
    <3>1. 0 \in 0..n
      BY <1>1
    <3> QED
      BY <1>2, <1>3, <1>4, <3>1
  <2>2. ASSUME NEW i \in 0..(n - 1), i \in P PROVE i + 1 \in P
    <3>1. h[i] * p[i] <= gid
      BY <2>2
    <3>2. h[i + 1] * p[i + 1] = (h[i + 1] * D[i + 1]) * p[i]
      <4>1. \A x, y, z \in Nat : x * (y * z) = (x * z) * y
        BY Products
      <4> QED
        BY <1>5, <4>1
    <3> DEFINE u == h[i + 1] * D[i + 1]
    <3>3. u \in Nat /\ u <= h[i] /\ h[i] \in Nat /\ p[i] \in Nat
      BY <1>5, Products
    <3> HIDE DEF u
    <3>4. u * p[i] <= h[i] * p[i] /\ u * p[i] \in Nat /\ h[i] * p[i] \in Nat
      BY <3>3, Products, ProductsGrow
    <3>5. h[i + 1] * p[i + 1] = u * p[i]
      BY <3>2 DEF u
    <3>6. h[i + 1] * p[i + 1] <= gid
      BY <1>3, <3>1, <3>4, <3>5
    <3> QED
      BY <1>5, <3>6
  <2> HIDE DEF P
  <2>3. 0..n \subseteq P
    BY <1>1, <2>1, <2>2, InductionTo
  <2>4. h[n] * p[n] <= gid /\ n \in 0..n /\ h[n] \in Nat
    BY <1>1, <1>4, <2>3 DEF P
  <2>5. CASE 1 <= h[n]
    <3>1. 1 * p[n] <= h[n] * p[n] /\ h[n] * p[n] \in Nat /\ 1 * p[n] = p[n]
      BY <1>3, <2>4, <2>5, Products, ProductsGrow
    <3> QED
      BY <1>3, <2>4, <3>1
  <2> QED
    BY <2>4, <2>5
<1>10. f[1] = h[0]
  <2> DEFINE P == {j \in 0..n : f[n - j + 1] = h[n - j]}
  <2>1. 0 \in P
    BY <1>1, <1>8, <1>9
  <2>2. ASSUME NEW j \in 0..(n - 1), j \in P PROVE j + 1 \in P
    <3> DEFINE i == n - j - 1
    <3>1. i \in 0..(n - 1) /\ n - j + 1 = i + 2 /\ n - j = i + 1 /\ n - (j + 1) = i
          /\ n - (j + 1) + 1 = i + 1 /\ j + 1 \in 0..n /\ (i + 1) + 1 = i + 2
      BY <1>1
    <3> HIDE DEF i
    <3>2. f[i + 2] = h[i + 1]
      BY <2>2, <3>1
    <3>3. f[i + 1] = h[i + 1] * D[i + 1] + c[i + 1]
      BY <1>5, <1>8, <3>1, <3>2
    <3>4. f[i + 1] = h[i]
      BY <1>5, <3>1, <3>3
    <3> QED
      BY <3>1, <3>4
  <2> HIDE DEF P
  <2>3. 0..n \subseteq P
    BY <1>1, <2>1, <2>2, InductionTo
  <2>4. n \in 0..n /\ n - n + 1 = 1 /\ n - n = 0
    BY <1>1
  <2> QED
    BY <2>3, <2>4 DEF P
<1> QED
  BY <1>4, <1>7, <1>8, <1>10 DEF c

-----------------------------------------------------------------------------
(***************************************************************************)
(* The neighbors of a block.                                               *)
(***************************************************************************)
\* Where a step d from place x ends among b places, and whether it leaves them.
Landing(x, d, b) == (x + d) % b
Crossing(x, d, b) == IF x + d < 0 THEN -1 ELSE IF x + d >= b THEN 1 ELSE 0

LEMMA StepBack ==
  ASSUME NEW b \in Nat \ {0}, NEW x \in 0..(b - 1), NEW d \in {-1, 0, 1}
  PROVE  /\ Landing(x, d, b) \in 0..(b - 1)
         /\ Landing(Landing(x, d, b), -d, b) = x
         /\ Crossing(Landing(x, d, b), -d, b) = -Crossing(x, d, b)
         /\ Crossing(x, d, b) \in {-1, 0, 1}
<1> DEFINE y == Landing(x, d, b)
<1>0. \A q \in {-1, 0, 1}, r \in 0..(b - 1), a \in Int : a = b * q + r => a % b = r
  <2> SUFFICES ASSUME NEW q \in {-1, 0, 1}, NEW r \in 0..(b - 1), NEW a \in Int, a = b * q + r
               PROVE  a % b = r
    OBVIOUS
  <2>1. q \in Int
    OBVIOUS
  <2> QED
    BY <2>1, DivMod
<1>1. CASE x + d < 0
  <2>1. x = 0 /\ d = -1 /\ x + d = b * (-1) + (b - 1) /\ b - 1 \in 0..(b - 1)
    BY <1>1
  <2>2. y = b - 1
    BY <1>0, <2>1 DEF Landing
  <2>3. -d = 1 /\ (b - 1) + 1 = b * 1 + 0 /\ 0 \in 0..(b - 1) /\ (b - 1) + 1 \in Int
    <3>1. (b - 1) + 1 = b * 1 + 0 /\ 0 \in 0..(b - 1) /\ (b - 1) + 1 \in Int
      OBVIOUS
    <3>2. \A z \in Int : z + 1 = 0 => -z = 1
      OBVIOUS
    <3>3. d \in Int /\ d + 1 = 0
      BY <2>1
    <3> QED
      BY <3>1, <3>2, <3>3
  <2>4. Landing(y, -d, b) = 0
    BY <1>0, <2>2, <2>3 DEF Landing
  <2>5. Crossing(x, d, b) = -1 /\ Crossing(y, -d, b) = 1
    BY <1>1, <2>1, <2>2, <2>3 DEF Crossing
  <2> QED
    BY <2>1, <2>2, <2>4, <2>5
<1>2. CASE x + d >= b
  <2>1. x = b - 1 /\ d = 1 /\ x + d = b * 1 + 0 /\ 0 \in 0..(b - 1)
    BY <1>2
  <2>2. y = 0
    BY <1>0, <2>1 DEF Landing
  <2>3. -d = -1 /\ 0 + (-1) = b * (-1) + (b - 1) /\ b - 1 \in 0..(b - 1) /\ 0 + (-1) \in Int
    BY <2>1
  <2>4. Landing(y, -d, b) = b - 1
    BY <1>0, <2>2, <2>3 DEF Landing
  <2>5. Crossing(x, d, b) = 1 /\ Crossing(y, -d, b) = -1
    BY <1>2, <2>1, <2>2, <2>3 DEF Crossing
  <2> QED
    BY <2>1, <2>2, <2>4, <2>5
<1>3. CASE x + d >= 0 /\ x + d < b
  <2>1. x + d \in 0..(b - 1) /\ x + d = b * 0 + (x + d) /\ x = b * 0 + x
    BY <1>3
  <2>2. y = x + d
    BY <1>0, <2>1 DEF Landing
  <2>3. (x + d) + (-d) = x /\ x \in Int
    OBVIOUS
  <2>4. Landing(y, -d, b) = x
    BY <1>0, <2>1, <2>2, <2>3 DEF Landing
  <2>5. Crossing(x, d, b) = 0 /\ Crossing(y, -d, b) = 0
    BY <1>3, <2>2, <2>3 DEF Crossing
  <2> QED
    BY <2>1, <2>2, <2>4, <2>5
<1>4. x + d \in Int
  OBVIOUS
<1> QED
  BY <1>1, <1>2, <1>3, <1>4

\* The neighbor of a block in a direction, if it has one there.
StaysIn(dec, c, dir) == \A i \in Dims(dec.divisions) : Crossing(c[i], dir[i], dec.divisions[i]) = 0 \/ dec.wrap[i]
Reached(dec, c, dir) == [i \in Dims(dec.divisions) |-> Landing(c[i], dir[i], dec.divisions[i])]
NeighborAt(dec, c, dir) ==
  [gid  |-> coords_to_gid(Reached(dec, c, dir), dec.divisions),
   dir  |-> dir,
   wrap |-> [i \in Dims(dec.divisions) |-> Crossing(c[i], dir[i], dec.divisions[i])]]

LEMMA NeighborsAre ==
  ASSUME NEW dec, NEW gid
  PROVE  LET c == gid_to_coords(gid, dec.divisions)
         IN  Neighbors(dec, gid) =
               {NeighborAt(dec, c, dir) : dir \in {d \in Directions(dec.divisions) : StaysIn(dec, c, d)}}
<1> DEFINE c == gid_to_coords(gid, dec.divisions)
           out(dir, i) == IF c[i] + dir[i] < 0 THEN -1
                          ELSE IF c[i] + dir[i] >= dec.divisions[i] THEN 1 ELSE 0
           in(dir) == {i \in Dims(dec.divisions) : out(dir, i) = 0 \/ dec.wrap[i]}
<1>1. \A dir : in(dir) = Dims(dec.divisions) <=> StaysIn(dec, c, dir)
  BY DEF StaysIn, Crossing
<1>2. Neighbors(dec, gid) =
        {NeighborAt(dec, c, dir) : dir \in {d \in Directions(dec.divisions) : in(d) = Dims(dec.divisions)}}
  BY DEF Neighbors, NeighborAt, Reached, Landing, Crossing
<1> HIDE DEF c, in
<1>3. {d \in Directions(dec.divisions) : in(d) = Dims(dec.divisions)}
        = {d \in Directions(dec.divisions) : StaysIn(dec, c, d)}
  BY <1>1
<1> QED
  BY <1>2, <1>3 DEF c

LEMMA FiniteDirections ==
  ASSUME NEW D \in Seq(Nat)
  PROVE  IsFiniteSet([Dims(D) -> {-1, 0, 1}])
<1> DEFINE S == [Dims(D) -> {-1, 0, 1}]
           T == SUBSET (Dims(D) \X {-1, 0, 1})
           f == [d \in S |-> {<<i, d[i]>> : i \in Dims(D)}]
<1>1. Dims(D) = 1..Len(D) /\ Len(D) \in Nat
  BY DEF Dims
<1>2. IsFiniteSet(Dims(D)) /\ IsFiniteSet({-1, 0, 1})
  <2>1. IsFiniteSet(1..Len(D)) /\ IsFiniteSet((-1)..1)
    <3>1. 1 \in Int /\ Len(D) \in Int /\ -1 \in Int
      BY <1>1
    <3> QED
      BY <3>1, FS_Interval
  <2>2. {-1, 0, 1} = (-1)..1
    OBVIOUS
  <2> QED
    BY <1>1, <2>1, <2>2
<1>3. IsFiniteSet(T)
  BY <1>2, FS_Product, FS_SUBSET
<1>4. f \in [S -> T]
  OBVIOUS
<1>5. ASSUME NEW a \in S, NEW b \in S, f[a] = f[b] PROVE a = b
  <2>1. {<<i, a[i]>> : i \in Dims(D)} = {<<i, b[i]>> : i \in Dims(D)}
    BY <1>5
  <2>2. ASSUME NEW i \in Dims(D) PROVE a[i] = b[i]
    <3>1. <<i, a[i]>> \in {<<j, b[j]>> : j \in Dims(D)}
      BY <2>1
    <3>2. PICK j \in Dims(D) : <<i, a[i]>> = <<j, b[j]>>
      BY <3>1
    <3> QED
      BY <3>2
  <2> QED
    BY <2>2
<1>6. f \in Injection(S, T)
  <2>1. DOMAIN f = S
    OBVIOUS
  <2> HIDE DEF f, S, T
  <2> QED
    BY <1>4, <1>5, <2>1 DEF Injection, IsInjective
<1> HIDE DEF f, S, T
<1>7. IsFiniteSet(S)
  BY <1>3, <1>6, FS_Injection
<1> QED
  BY <1>7 DEF S

LEMMA NeighborsFinite ==
  ASSUME NEW dec, dec.divisions \in Seq(Nat), NEW gid
  PROVE  IsFiniteSet(Neighbors(dec, gid))
<1> DEFINE c == gid_to_coords(gid, dec.divisions)
           S == {d \in Directions(dec.divisions) : StaysIn(dec, c, d)}
           f == [d \in S |-> NeighborAt(dec, c, d)]
<1>1. IsFiniteSet(S)
  <2>1. S \subseteq [Dims(dec.divisions) -> {-1, 0, 1}]
    BY DEF Directions
  <2> HIDE DEF S
  <2> QED
    BY <2>1, FiniteDirections, FS_Subset
<1>2. Neighbors(dec, gid) = {NeighborAt(dec, c, d) : d \in S}
  BY NeighborsAre
<1> HIDE DEF S, c
<1>3. f \in Surjection(S, Neighbors(dec, gid))
  BY <1>2 DEF Surjection
<1> QED
  BY <1>1, <1>3, FS_Surjection

\* RegularDecomposer::decompose: the neighbors of a block are blocks of the grid, and
\* each has the block for its neighbor in the opposite direction and across the
\* opposite boundaries, whatever wraps (decomposition.hpp:369).
THEOREM NeighborsMutual ==
  ASSUME NEW dec, dec.divisions \in Seq(Nat \ {0}), NEW gid \in Gids(Product(dec.divisions)),
         NEW n \in Neighbors(dec, gid)
  PROVE  /\ n.gid \in Gids(Product(dec.divisions))
         /\ \E m \in Neighbors(dec, n.gid) :
              /\ m.gid = gid
              /\ \A i \in DOMAIN m.dir : m.dir[i] = -n.dir[i] /\ m.wrap[i] = -n.wrap[i]
<1> DEFINE D == dec.divisions
           c == gid_to_coords(gid, D)
           S(e) == {d \in Directions(D) : StaysIn(dec, e, d)}
<1>1. PICK dir \in S(c) : n = NeighborAt(dec, c, dir)
  BY NeighborsAre
<1> DEFINE e == Reached(dec, c, dir)
           back == [i \in Dims(D) |-> -dir[i]]
           m == NeighborAt(dec, e, back)
<1>2. IsCoords(c, D) /\ coords_to_gid(c, D) = gid
  BY BlockOfPlace
<1>3. Dims(D) = 1..Len(D) /\ \A i \in Dims(D) : D[i] \in Nat \ {0} /\ c[i] \in 0..(D[i] - 1)
  BY <1>2 DEF Dims, IsCoords
<1>4. dir \in [Dims(D) -> {-1, 0, 1}] /\ dir # [i \in Dims(D) |-> 0] /\ StaysIn(dec, c, dir)
  BY DEF Directions
<1> HIDE DEF c
<1>5. ASSUME NEW i \in Dims(D)
      PROVE  /\ e[i] \in 0..(D[i] - 1)
             /\ Landing(e[i], back[i], D[i]) = c[i]
             /\ Crossing(e[i], back[i], D[i]) = -Crossing(c[i], dir[i], D[i])
             /\ Crossing(c[i], dir[i], D[i]) \in {-1, 0, 1}
             /\ back[i] = -dir[i] /\ back[i] \in {-1, 0, 1} /\ (back[i] = 0 => dir[i] = 0)
  <2>1. dir[i] \in {-1, 0, 1} /\ D[i] \in Nat \ {0} /\ c[i] \in 0..(D[i] - 1)
    BY <1>3, <1>4
  <2>2. e[i] = Landing(c[i], dir[i], D[i]) /\ back[i] = -dir[i]
    BY DEF Reached
  <2>3. /\ Landing(c[i], dir[i], D[i]) \in 0..(D[i] - 1)
        /\ Landing(Landing(c[i], dir[i], D[i]), -dir[i], D[i]) = c[i]
        /\ Crossing(Landing(c[i], dir[i], D[i]), -dir[i], D[i]) = -Crossing(c[i], dir[i], D[i])
        /\ Crossing(c[i], dir[i], D[i]) \in {-1, 0, 1}
    BY <2>1, StepBack
  <2> QED
    BY <2>1, <2>2, <2>3
<1>6. IsCoords(e, D)
  <2>1. e = [i \in 1..Len(D) |-> e[i]]
    BY <1>3 DEF Reached
  <2>2. ASSUME NEW i \in 1..Len(D) PROVE e[i] \in Nat /\ e[i] < D[i]
    <3>1. D[i] \in Nat \ {0} /\ e[i] \in 0..(D[i] - 1)
      BY <1>3, <1>5
    <3> HIDE DEF e
    <3> QED
      BY <3>1
  <2> HIDE DEF e
  <2> QED
    BY <2>1, <2>2 DEF IsCoords
<1>7. n.gid \in Gids(Product(D)) /\ gid_to_coords(n.gid, D) = e
  <2>1. n.gid = coords_to_gid(e, D)
    BY <1>1 DEF NeighborAt
  <2> HIDE DEF e
  <2> QED
    BY <1>6, <2>1, PlaceOfBlock
<1>8. back \in S(e)
  <2>1. back \in [Dims(D) -> {-1, 0, 1}]
    BY <1>5
  <2>2. back # [i \in Dims(D) |-> 0]
    <3>1. PICK i \in Dims(D) : dir[i] # 0
      BY <1>4
    <3>2. back[i] # 0
      BY <1>5, <3>1
    <3> QED
      BY <3>1, <3>2
  <2>3. StaysIn(dec, e, back)
    <3>1. \A i \in Dims(D) : Crossing(c[i], dir[i], D[i]) = 0 => Crossing(e[i], back[i], D[i]) = 0
      BY <1>5
    <3> HIDE DEF e, back
    <3> QED
      BY <1>4, <3>1 DEF StaysIn
  <2> HIDE DEF e, back
  <2> QED
    BY <2>1, <2>2, <2>3 DEF Directions
<1>9. m \in Neighbors(dec, n.gid)
  <2> HIDE DEF e, back
  <2> QED
    BY <1>7, <1>8, NeighborsAre
<1>10. m.gid = gid
  <2>1. Reached(dec, e, back) = [i \in Dims(D) |-> c[i]]
    <3> HIDE DEF e, back
    <3> QED
      BY <1>5 DEF Reached
  <2>2. c = [i \in Dims(D) |-> c[i]]
    BY <1>2, <1>3 DEF IsCoords
  <2> HIDE DEF e, back
  <2>3. m.gid = coords_to_gid(Reached(dec, e, back), D)
    BY DEF NeighborAt
  <2> QED
    BY <1>2, <2>1, <2>2, <2>3
<1>11. ASSUME NEW i \in DOMAIN m.dir PROVE m.dir[i] = -n.dir[i] /\ m.wrap[i] = -n.wrap[i]
  <2>1. i \in Dims(D)
    BY DEF NeighborAt
  <2>2. m.dir[i] = back[i] /\ n.dir[i] = dir[i]
    BY <1>1, <2>1 DEF NeighborAt
  <2>3. /\ m.wrap[i] = Crossing(e[i], back[i], D[i])
        /\ n.wrap[i] = Crossing(c[i], dir[i], D[i])
    <3> HIDE DEF e, back
    <3> QED
      BY <1>1, <2>1 DEF NeighborAt
  <2> HIDE DEF e, back
  <2> QED
    BY <1>5, <2>1, <2>2, <2>3
<1> HIDE DEF m
<1> QED
  BY <1>7, <1>9, <1>10, <1>11

-----------------------------------------------------------------------------
(***************************************************************************)
(* The groups of a round.  The place of a coordinate within its group is a *)
(* digit of it, in a system of mixed radix with a digit for each round.    *)
(***************************************************************************)
Positive == Nat \ {0}
Divides(a, b) == \E m \in Positive : b = a * m
Digit(x, s, k) == (x \div s) % k

\* Division in two steps.
LEMMA DivisionTwice ==
  ASSUME NEW x \in Nat, NEW a \in Positive, NEW w \in Positive
  PROVE  x \div (a * w) = (x \div a) \div w
<1> DEFINE q == x \div a
           z == x % a
           c == q \div w
           e == q % w
           y == a * e + z
<1>1. a \in Nat \ {0} /\ w \in Nat \ {0} /\ a * w \in Nat \ {0}
  <2>1. a * w \in Nat \ {0}
    BY SMT DEF Positive
  <2> QED
    BY <2>1 DEF Positive
<1>2. q \in Nat /\ z \in 0..(a - 1) /\ x = a * q + z
  BY <1>1, Division, NatDivision
<1> HIDE DEF q, z
<1>3. c \in Nat /\ e \in 0..(w - 1) /\ q = w * c + e
  BY <1>1, <1>2, Division, NatDivision
<1> HIDE DEF c, e
<1>4. a * q = (a * w) * c + a * e /\ a * e \in Nat /\ (a * w) * c \in Nat
  <2>1. w * c \in Nat /\ e \in Nat /\ a \in Nat /\ w \in Nat
    BY <1>1, <1>3, Products
  <2>2. \A u, v \in Nat : a * (u + v) = a * u + a * v
    BY <2>1, SMT
  <2>3. a * q = a * (w * c) + a * e
    BY <1>3, <2>1, <2>2
  <2> QED
    BY <1>1, <1>3, <2>1, <2>3, Products
<1>5. y \in 0..(a * w - 1)
  <2>1. a * (e + 1) <= a * w /\ a * (e + 1) = a * e + a
    <3>1. e + 1 \in Int /\ e \in Nat /\ w \in Int /\ e + 1 <= w /\ a \in Nat
      BY <1>1, <1>3
    <3>2. \A u \in Nat : a * (u + 1) = a * u + a
      BY <3>1, SMT
    <3> QED
      BY <3>1, <3>2, TimesMonotone
  <2>2. a * w \in Nat /\ a \in Nat
    BY <1>1
  <2> QED
    BY <1>2, <1>4, <2>1, <2>2
<1>6. x = (a * w) * c + y
  BY <1>2, <1>4
<1>7. x \div (a * w) = c
  <2> DEFINE b == a * w
  <2>1. b \in Nat \ {0} /\ y \in 0..(b - 1) /\ x = b * c + y /\ c \in Int
    BY <1>1, <1>3, <1>5, <1>6
  <2> HIDE DEF b, y
  <2>2. x \div b = c
    BY <2>1, DivMod
  <2> QED
    BY <2>2 DEF b
<1> QED
  BY <1>7 DEF c, q

\* A multiple of s * k does not change the digit.
LEMMA DigitShift ==
  ASSUME NEW r \in Nat, NEW q \in Nat, NEW s \in Positive, NEW k \in Positive
  PROVE  Digit((s * k) * q + r, s, k) = Digit(r, s, k)
<1> DEFINE d == r \div s
           e == r % s
           x == (s * k) * q + r
<1>1. s \in Nat \ {0} /\ k \in Nat \ {0} /\ s \in Nat /\ k \in Nat /\ k * q \in Nat /\ (s * k) * q \in Nat
  BY Products DEF Positive
<1>2. d \in Nat /\ e \in 0..(s - 1) /\ r = s * d + e
  BY <1>1, Division, NatDivision
<1> HIDE DEF d, e
<1>3. x = s * (k * q + d) + e /\ k * q + d \in Int /\ k * q + d \in Nat
  <2>1. (s * k) * q = s * (k * q)
    BY <1>1, Products
  <2>2. \A u, v \in Nat : s * (u + v) = s * u + s * v
    BY <1>1, SMT
  <2>3. s * (k * q + d) = s * (k * q) + s * d /\ s * (k * q) \in Nat /\ s * d \in Nat
    BY <1>1, <1>2, <2>2, Products
  <2> QED
    BY <1>1, <1>2, <2>1, <2>3
<1>4. x \div s = k * q + d
  <2> DEFINE v == k * q + d
  <2> HIDE DEF v, x
  <2>1. x = s * v + e /\ v \in Int
    BY <1>3 DEF v
  <2>2. x \div s = v
    BY <1>1, <1>2, <2>1, DivMod
  <2> QED
    BY <2>2 DEF v
<1>5. d \div k \in Nat /\ d % k \in 0..(k - 1) /\ d = k * (d \div k) + (d % k)
  BY <1>1, <1>2, Division, NatDivision
<1> DEFINE f == d \div k
           g == d % k
<1>6. k * q + d = k * (q + f) + g /\ q + f \in Int
  <2> HIDE DEF f, g
  <2>1. f \in Nat /\ d = k * f + g /\ g \in 0..(k - 1)
    BY <1>5 DEF f, g
  <2>2. k * (q + f) = k * q + k * f /\ k * f \in Nat
    BY <1>1, <2>1, SMT
  <2> QED
    BY <1>1, <2>1, <2>2
<1>7. (k * q + d) % k = g
  <2> DEFINE v == k * q + d
  <2>1. g \in 0..(k - 1)
    BY <1>5
  <2> HIDE DEF v, f, g
  <2>2. v = k * (q + f) + g
    BY <1>6 DEF v
  <2>3. v % k = g
    BY <1>1, <1>6, <2>1, <2>2, DivMod
  <2> QED
    BY <2>3 DEF v
<1> QED
  BY <1>4, <1>7 DEF Digit, d

\* To move to place j of the group is to change one digit.
MovedTo(x, s, k, j) == x - Digit(x, s, k) * s + j * s

LEMMA DigitMove ==
  ASSUME NEW x \in Nat, NEW s \in Positive, NEW k \in Positive, NEW j \in 0..(k - 1)
  PROVE  LET y == MovedTo(x, s, k, j)
         IN  /\ y \in Nat /\ y \div s \in Nat /\ Digit(x, s, k) \in 0..(k - 1)
             /\ Digit(y, s, k) = j
             /\ y \div (s * k) = x \div (s * k) /\ y % s = x % s
             /\ \A i \in 0..(k - 1) : MovedTo(y, s, k, i) = MovedTo(x, s, k, i)
<1> DEFINE y == MovedTo(x, s, k, j)
           q == x \div s
           r == x % s
           a == q \div k
           p == q % k
           v == k * a + j
<1>1. s \in Nat \ {0} /\ k \in Nat \ {0} /\ s \in Nat /\ k \in Nat
  BY DEF Positive
<1>2. q \in Nat /\ r \in 0..(s - 1) /\ x = s * q + r
  BY <1>1, Division, NatDivision
<1> HIDE DEF q, r
<1>3. a \in Nat /\ p \in 0..(k - 1) /\ q = k * a + p
  BY <1>1, <1>2, Division, NatDivision
<1>4. p = Digit(x, s, k)
  BY DEF Digit, q
<1> HIDE DEF a, p
<1>5. v \in Nat /\ k * a \in Nat
  BY <1>1, <1>3, Products
<1>6. s * q = s * (k * a) + p * s /\ s * v = s * (k * a) + j * s /\ s * (k * a) \in Nat
      /\ p * s \in Nat /\ j * s \in Nat
  <2>1. \A t, u \in Nat : s * (t + u) = s * t + u * s
    BY <1>1, SMT
  <2>2. p \in Nat /\ j \in Nat
    BY <1>3
  <2> QED
    BY <1>1, <1>3, <1>5, <2>1, <2>2, Products
<1>7. y = s * v + r /\ y \in Nat
  <2>1. y = x - p * s + j * s
    BY <1>4 DEF MovedTo
  <2> HIDE DEF y, v
  <2> QED
    BY <1>2, <1>6, <2>1
<1> HIDE DEF y
<1>8. y \div s = v /\ y % s = r
  <2>1. v \in Int /\ y = s * v + r
    BY <1>5, <1>7
  <2> HIDE DEF v
  <2> QED
    BY <1>1, <1>2, <2>1, DivMod
<1>9. v \div k = a /\ v % k = j
  <2>1. v = k * a + j /\ a \in Int
    BY <1>3
  <2> HIDE DEF v
  <2> QED
    BY <1>1, <2>1, DivMod
<1>10. Digit(y, s, k) = j
  BY <1>8, <1>9 DEF Digit
<1>11. y \div (s * k) = x \div (s * k)
  BY <1>2, <1>7, <1>8, <1>9, DivisionTwice DEF q, a
<1>12. y - j * s = x - p * s
  <2>1. y = x - p * s + j * s
    BY <1>4 DEF MovedTo, y
  <2> QED
    BY <1>6, <2>1
<1>13. ASSUME NEW i \in 0..(k - 1) PROVE MovedTo(y, s, k, i) = MovedTo(x, s, k, i)
  <2>1. MovedTo(y, s, k, i) = y - j * s + i * s
    BY <1>10 DEF MovedTo
  <2>2. MovedTo(x, s, k, i) = x - p * s + i * s
    BY <1>4 DEF MovedTo
  <2> QED
    BY <1>12, <2>1, <2>2
<1> QED
  BY <1>3, <1>4, <1>5, <1>7, <1>8, <1>10, <1>11, <1>13 DEF y, r

\* The coordinate stays within the grid if whole groups fill it, and other digits
\* stay as they are if their places are apart.
LEMMA DigitMoveFits ==
  ASSUME NEW x \in Nat, NEW s \in Positive, NEW k \in Positive, NEW j \in 0..(k - 1),
         NEW b \in Nat, x < b, Divides(s * k, b)
  PROVE  MovedTo(x, s, k, j) < b
<1> DEFINE y == MovedTo(x, s, k, j)
           t == s * k
           a == x \div t
<1>1. PICK m \in Positive : b = t * m
  BY DEF Divides
<1>2. y \in Nat /\ y \div t = a
  BY Zenon, DigitMove
<1>3. t \in Nat \ {0} /\ m \in Nat /\ t \in Nat
  BY SMT DEF Positive
<1> HIDE DEF y, t
<1>4. a \in Nat /\ x % t \in 0..(t - 1) /\ x = t * a + (x % t)
  BY <1>3, Division, NatDivision
<1>5. y % t \in 0..(t - 1) /\ y = t * a + (y % t)
  <2>1. y % t \in 0..(t - 1) /\ y = t * (y \div t) + (y % t)
    BY <1>2, <1>3, NatDivision
  <2> QED
    BY <1>2, <2>1
<1> HIDE DEF a
<1>6. a + 1 <= m
  <2>1. CASE m <= a
    <3>1. t * m <= t * a /\ t * m \in Nat /\ t * a \in Nat
      BY <1>3, <1>4, <2>1, TimesMonotone, Products
    <3> QED
      BY <1>1, <1>3, <1>4, <3>1
  <2> QED
    BY <1>3, <1>4, <2>1
<1>7. t * (a + 1) <= t * m /\ t * (a + 1) = t * a + t /\ t * a \in Nat /\ t * m \in Nat
  <2>1. \A u \in Nat : t * (u + 1) = t * u + t
    BY <1>3, SMT
  <2> QED
    BY <1>3, <1>4, <1>6, <2>1, TimesMonotone, Products
<1>8. y < b
  BY <1>1, <1>3, <1>5, <1>7
<1> QED
  BY <1>8 DEF y

\* Numbers with the same quotient have the same quotients by the multiples.
LEMMA DivisionThrough ==
  ASSUME NEW x \in Nat, NEW y \in Nat, NEW w \in Positive, NEW m \in Positive, x \div w = y \div w
  PROVE  y \div (w * m) = x \div (w * m)
<1>1. x \div (w * m) = (x \div w) \div m
  BY DivisionTwice
<1>2. y \div (w * m) = (y \div w) \div m
  BY DivisionTwice
<1> QED
  BY Zenon, <1>1, <1>2

LEMMA OtherDigits ==
  ASSUME NEW x \in Nat, NEW s \in Positive, NEW k \in Positive, NEW j \in 0..(k - 1),
         NEW t \in Positive, NEW l \in Positive, Divides(s * k, t) \/ Divides(t * l, s)
  PROVE  Digit(MovedTo(x, s, k, j), t, l) = Digit(x, t, l)
<1> DEFINE y == MovedTo(x, s, k, j)
<1>1. y \in Nat /\ y \div (s * k) = x \div (s * k) /\ y % s = x % s /\ y \div s \in Nat
  BY DigitMove
<1> HIDE DEF y
<1>2. CASE Divides(s * k, t)
  <2>1. PICK m \in Positive : t = (s * k) * m
    BY <1>2 DEF Divides
  <2>2. s * k \in Positive
    BY SMT DEF Positive
  <2>3. y \div t = x \div t
    <3> DEFINE w == s * k
    <3>1. w \in Positive
      BY <2>2
    <3>2. t = w * m
      BY <2>1
    <3>3. y \in Nat
      BY <1>1
    <3>4. x \div w = y \div w
      BY <1>1
    <3> HIDE DEF w
    <3>5. y \div (w * m) = x \div (w * m)
      BY ZenonT(30), <3>1, <3>3, <3>4, DivisionThrough
    <3> QED
      BY Zenon, <3>2, <3>5
  <2>4. Digit(y, t, l) = Digit(x, t, l)
    BY Zenon, <2>3 DEF Digit
  <2> QED
    BY <2>4 DEF y
<1>3. CASE Divides(t * l, s)
  <2>1. PICK m \in Positive : s = (t * l) * m
    BY <1>3 DEF Divides
  <2>2. ASSUME NEW z \in Nat, z \div s \in Nat PROVE Digit(z, t, l) = Digit(z % s, t, l)
    <3> DEFINE q == z \div s
               r == z % s
    <3>1. q \in Nat /\ r \in 0..(s - 1) /\ z = s * q + r /\ s \in Nat
      <4>1. s \in Nat \ {0} /\ s \in Nat
        BY DEF Positive
      <4> QED
        BY <4>1, NatDivision
    <3> HIDE DEF q, r
    <3>2. s * q = (t * l) * (m * q) /\ m * q \in Nat /\ r \in Nat
      <4>1. t \in Nat /\ l \in Nat /\ m \in Nat /\ t * l \in Nat
        BY Products DEF Positive
      <4> QED
        BY <2>1, <3>1, <4>1, Products
    <3>3. Digit((t * l) * (m * q) + r, t, l) = Digit(r, t, l)
      BY <3>2, DigitShift
    <3> QED
      BY <3>1, <3>2, <3>3 DEF r
  <2>3. x \div s \in Nat
    BY NatDivision DEF Positive
  <2>4. Digit(y, t, l) = Digit(x, t, l)
    BY <1>1, <2>2, <2>3
  <2> QED
    BY <2>4 DEF y
<1> QED
  BY <1>2, <1>3

\* What the rounds of partners are to be like: groups fill their dimension, and the
\* digits of two rounds in a dimension are different ones.
Size(part, r) == kv(part, r).size
Dim(part, r) == kv(part, r).dim
GroupsFit(part) ==
  /\ part.divisions \in Seq(Positive) /\ BaseRounds(part) \in Nat
  /\ \A r \in 0..(BaseRounds(part) - 1) :
       /\ Dim(part, r) \in Dims(part.divisions) /\ Size(part, r) \in Positive
       /\ step(part, r) \in Positive
       /\ Divides(step(part, r) * Size(part, r), part.divisions[Dim(part, r)])
  /\ \A r, q \in 0..(BaseRounds(part) - 1) :
       r # q /\ Dim(part, r) = Dim(part, q) => \/ Divides(step(part, r) * Size(part, r), step(part, q))
                                               \/ Divides(step(part, q) * Size(part, q), step(part, r))

\* The rounds of partners take each dimension apart into its single blocks.
GroupsFill(part) ==
  /\ part.contiguous \in BOOLEAN
  /\ \A r \in 1..BaseRounds(part) : part.kvs[r].size \in Positive
  /\ \A d \in Dims(part.divisions) : Grouped(part, BaseRounds(part), d) = part.divisions[d]

\* The place of a block in its group of a round.
Place(part, r, g) == group_position(part, r, gid_to_coords(g, part.divisions)[Dim(part, r)])

\* RegularPartners::fill: the group of a block has a block at each place, which is in
\* the same group and has the same places in the groups of the other rounds
\* (common.hpp:137).
LEMMA GroupOfBlock ==
  ASSUME NEW part, GroupsFit(part), NEW r \in 0..(BaseRounds(part) - 1),
         NEW g \in Gids(Product(part.divisions))
  PROVE  /\ fill(part, r, g) \in [1..Size(part, r) -> Gids(Product(part.divisions))]
         /\ Place(part, r, g) + 1 \in 1..Size(part, r)
         /\ fill(part, r, g)[Place(part, r, g) + 1] = g
         /\ \A i \in 1..Size(part, r) :
              /\ Place(part, r, fill(part, r, g)[i]) = i - 1
              /\ fill(part, r, fill(part, r, g)[i]) = fill(part, r, g)
              /\ \A q \in 0..(BaseRounds(part) - 1) \ {r} :
                   Place(part, q, fill(part, r, g)[i]) = Place(part, q, g)
<1> DEFINE D == part.divisions
           c == gid_to_coords(g, D)
           d == Dim(part, r)
           s == step(part, r)
           k == Size(part, r)
           F == fill(part, r, g)
           At(i) == [c EXCEPT ![d] = MovedTo(c[d], s, k, i - 1)]
<1>0. /\ D \in Seq(Positive) /\ d \in Dims(D) /\ k \in Positive /\ s \in Positive
      /\ Divides(s * k, D[d]) /\ D \in Seq(Nat \ {0}) /\ Dims(D) = 1..Len(D)
      /\ d \in 1..Len(D) /\ Len(D) \in Nat /\ D[d] \in Nat
  <2>1. D \in Seq(Positive) /\ d \in Dims(D) /\ k \in Positive /\ s \in Positive /\ Divides(s * k, D[d])
    BY DEF GroupsFit
  <2> HIDE DEF D, d, s, k
  <2>2. D \in Seq(Nat \ {0}) /\ Dims(D) = 1..Len(D) /\ Len(D) \in Nat
    BY <2>1 DEF Positive, Dims
  <2>3. D[d] \in Nat
    BY <2>1, <2>2
  <2> QED
    BY <2>1, <2>2, <2>3
<1>1. \A x, y : IsCoords(x, D) /\ y = coords_to_gid(x, D) => y \in Gids(Product(D)) /\ gid_to_coords(y, D) = x
  BY <1>0, PlaceOfBlock
<1>2. IsCoords(c, D) /\ coords_to_gid(c, D) = g
  BY <1>0, BlockOfPlace
<1>3. c \in [1..Len(D) -> Nat] /\ (\A i \in 1..Len(D) : c[i] < D[i]) /\ c[d] \in Nat /\ c[d] < D[d]
  BY <1>0, <1>2 DEF IsCoords
<1>4. /\ \A q, h : Place(part, q, h) = Digit(gid_to_coords(h, D)[Dim(part, q)], step(part, q), Size(part, q))
      /\ \A h : fill(part, r, h)
           = [i \in 1..k |-> coords_to_gid([gid_to_coords(h, D) EXCEPT
                                              ![d] = MovedTo(gid_to_coords(h, D)[d], s, k, i - 1)], D)]
  BY DEF Place, group_position, Digit, Dim, Size, fill, MovedTo
<1>5. F = [i \in 1..k |-> coords_to_gid(At(i), D)]
  BY <1>4
<1> HIDE DEF D, c, d, s, k, F
<1>13. ASSUME NEW x \in Nat, NEW j \in 0..(k - 1)
       PROVE  /\ Digit(MovedTo(x, s, k, j), s, k) = j
              /\ \A i \in 0..(k - 1) : MovedTo(MovedTo(x, s, k, j), s, k, i) = MovedTo(x, s, k, i)
  <2> DEFINE y == MovedTo(x, s, k, j)
  <2>1. s \in Positive /\ k \in Positive
    BY <1>0
  <2>2. Digit(y, s, k) = j /\ \A i \in 0..(k - 1) : MovedTo(y, s, k, i) = MovedTo(x, s, k, i)
    BY Zenon, <2>1, DigitMove
  <2> QED
    BY <2>2
<1>14. \A x \in Nat, j \in 0..(k - 1), t \in Positive, l \in Positive :
         Divides(s * k, t) \/ Divides(t * l, s) => Digit(MovedTo(x, s, k, j), t, l) = Digit(x, t, l)
  BY <1>0, OtherDigits
<1>6. ASSUME NEW i \in 1..k
      PROVE  /\ IsCoords(At(i), D) /\ F[i] \in Gids(Product(D)) /\ gid_to_coords(F[i], D) = At(i)
             /\ i - 1 \in 0..(k - 1) /\ At(i)[d] = MovedTo(c[d], s, k, i - 1)
  <2>1. i - 1 \in 0..(k - 1)
    BY <1>0 DEF Positive
  <2>2. MovedTo(c[d], s, k, i - 1) \in Nat /\ MovedTo(c[d], s, k, i - 1) < D[d]
    BY <1>0, <1>3, <2>1, DigitMove, DigitMoveFits
  <2>3. IsCoords(At(i), D) /\ At(i)[d] = MovedTo(c[d], s, k, i - 1)
    BY <1>0, <1>3, <2>2 DEF IsCoords
  <2> HIDE DEF At
  <2>4. F[i] = coords_to_gid(At(i), D)
    BY <1>5
  <2> QED
    BY <1>1, <2>1, <2>3, <2>4
<1>7. F \in [1..k -> Gids(Product(D))]
  <2>1. DOMAIN F = 1..k /\ F = [i \in 1..k |-> F[i]]
    BY <1>5
  <2> QED
    BY <1>6, <2>1
<1>8. Place(part, r, g) = Digit(c[d], s, k) /\ Place(part, r, g) \in 0..(k - 1)
  <2>1. Place(part, r, g) = Digit(c[d], s, k)
    BY <1>4 DEF c, d, s, k
  <2>2. 0 \in 0..(k - 1)
    BY <1>0 DEF Positive
  <2>3. Digit(c[d], s, k) \in 0..(k - 1)
    BY <1>0, <1>3, <2>2, DigitMove
  <2> QED
    BY <2>1, <2>3
<1>9. Place(part, r, g) + 1 \in 1..k /\ F[Place(part, r, g) + 1] = g
  <2> DEFINE p == Place(part, r, g)
  <2>1. p + 1 \in 1..k /\ (p + 1) - 1 = p /\ p \in 0..(k - 1) /\ p = Digit(c[d], s, k)
    BY <1>0, <1>8 DEF Positive
  <2> HIDE DEF p
  <2>2. MovedTo(c[d], s, k, p) = c[d]
    <3>0. p \in Nat /\ s \in Nat
      BY <1>0, <2>1 DEF Positive
    <3>1. p * s \in Nat
      BY <3>0
    <3> DEFINE w == p * s
    <3>2. MovedTo(c[d], s, k, p) = c[d] - w + w
      BY <2>1 DEF MovedTo
    <3> HIDE DEF w
    <3> QED
      BY <1>3, <3>1, <3>2 DEF w
  <2>3. At(p + 1) = c
    BY <1>0, <1>3, <2>1, <2>2
  <2>4. F[p + 1] = coords_to_gid(At(p + 1), D)
    BY <1>5, <2>1
  <2> QED
    BY <1>2, <2>1, <2>3, <2>4 DEF p
<1>10. ASSUME NEW i \in 1..k PROVE Place(part, r, F[i]) = i - 1
  <2>1. Digit(MovedTo(c[d], s, k, i - 1), s, k) = i - 1
    <3>1. c[d] \in Nat /\ i - 1 \in 0..(k - 1)
      BY <1>3, <1>6
    <3> QED
      BY <1>13, <3>1
  <2> HIDE DEF At
  <2>2. Place(part, r, F[i]) = Digit(At(i)[d], s, k)
    BY <1>4, <1>6 DEF d, s, k
  <2> QED
    BY <1>6, <2>1, <2>2
<1>11. ASSUME NEW i \in 1..k PROVE fill(part, r, F[i]) = F
  <2> DEFINE e == At(i)
  <2>1. e[d] = MovedTo(c[d], s, k, i - 1) /\ gid_to_coords(F[i], D) = e
    BY <1>6
  <2>2. ASSUME NEW j \in 1..k PROVE [e EXCEPT ![d] = MovedTo(e[d], s, k, j - 1)] = At(j)
    <3>1. j - 1 \in 0..(k - 1) /\ i - 1 \in 0..(k - 1)
      BY <1>6
    <3>2. MovedTo(e[d], s, k, j - 1) = MovedTo(c[d], s, k, j - 1)
      BY <1>3, <1>13, <2>1, <3>1
    <3> QED
      BY <1>0, <1>3, <3>2
  <2> HIDE DEF e
  <2>3. fill(part, r, F[i]) = [j \in 1..k |-> coords_to_gid([e EXCEPT ![d] = MovedTo(e[d], s, k, j - 1)], D)]
    BY <1>4, <2>1
  <2> HIDE DEF At
  <2> QED
    BY <1>5, <2>2, <2>3
<1>12. ASSUME NEW i \in 1..k, NEW q \in 0..(BaseRounds(part) - 1) \ {r}
       PROVE  Place(part, q, F[i]) = Place(part, q, g)
  <2> DEFINE e == Dim(part, q)
             t == step(part, q)
             l == Size(part, q)
  <2>1. /\ e \in Dims(D) /\ t \in Positive /\ l \in Positive
        /\ e = d => Divides(s * k, t) \/ Divides(t * l, s)
    BY DEF GroupsFit, D, d, s, k
  <2>2. Place(part, q, F[i]) = Digit(At(i)[e], t, l) /\ Place(part, q, g) = Digit(c[e], t, l)
    <3> HIDE DEF At
    <3> QED
      BY <1>4, <1>6 DEF c
  <2> HIDE DEF e, t, l
  <2>3. CASE e # d
    <3>1. At(i)[e] = c[e]
      BY <1>0, <1>3, <2>1, <2>3
    <3> QED
      BY <2>2, <3>1
  <2>4. CASE e = d
    <3>1. Digit(MovedTo(c[d], s, k, i - 1), t, l) = Digit(c[d], t, l)
      <4>1. c[d] \in Nat /\ i - 1 \in 0..(k - 1)
        BY <1>3, <1>6
      <4> QED
        BY <1>14, <2>1, <2>4, <4>1
    <3> HIDE DEF At
    <3> QED
      BY <1>6, <2>2, <2>4, <3>1
  <2> QED
    BY <2>3, <2>4
<1> QED
  BY <1>7, <1>9, <1>10, <1>11, <1>12 DEF F, k, D

\* Each of the groups F of a round is one group for all of its blocks.
LEMMA SameGroup ==
  ASSUME NEW part, GroupsFit(part), NEW r \in 0..(BaseRounds(part) - 1),
         NEW g \in Gids(Product(part.divisions)), NEW h \in Gids(Product(part.divisions))
  PROVE  /\ g \in ToSet(fill(part, r, h)) <=> h \in ToSet(fill(part, r, g))
         /\ fill(part, r, g) \in Seq(Gids(Product(part.divisions))) /\ IsInjective(fill(part, r, g))
         /\ g \in ToSet(fill(part, r, g))
         /\ g \in ToSet(fill(part, r, h)) => fill(part, r, g) = fill(part, r, h)
<1> DEFINE G == Gids(Product(part.divisions))
           k == Size(part, r)
           F(x) == fill(part, r, x)
           P(x) == Place(part, r, x)
<1>1. ASSUME NEW x \in G
      PROVE  /\ F(x) \in [1..k -> G] /\ P(x) + 1 \in 1..k /\ F(x)[P(x) + 1] = x
             /\ \A i \in 1..k : P(F(x)[i]) = i - 1 /\ F(F(x)[i]) = F(x)
  BY GroupOfBlock
<1>2. k \in Nat
  BY DEF GroupsFit, Positive
<1> HIDE DEF G, k, F, P
<1>3. ASSUME NEW x \in G PROVE x \in ToSet(F(x))
  BY <1>1 DEF ToSet
<1>4. ASSUME NEW x \in G, NEW y \in G, x \in ToSet(F(y)) PROVE F(x) = F(y)
  <2>1. PICK i \in 1..k : x = F(y)[i]
    BY <1>1, <1>4 DEF ToSet
  <2> QED
    BY <1>1, <2>1
<1>5. ASSUME NEW x \in G PROVE F(x) \in Seq(G) /\ IsInjective(F(x))
  <2>1. F(x) \in Seq(G)
    BY <1>1, <1>2
  <2>2. ASSUME NEW i \in 1..k, NEW j \in 1..k, F(x)[i] = F(x)[j] PROVE i = j
    <3>1. i - 1 = j - 1
      BY <1>1, <2>2
    <3> QED
      BY <3>1
  <2>3. DOMAIN F(x) = 1..k
    BY <1>1
  <2> QED
    BY <2>1, <2>2, <2>3 DEF IsInjective
<1>6. g \in ToSet(F(h)) => h \in ToSet(F(g))
  BY <1>3, <1>4 DEF G
<1>7. h \in ToSet(F(g)) => g \in ToSet(F(h))
  BY <1>3, <1>4 DEF G
<1> QED
  BY <1>3, <1>4, <1>5, <1>6, <1>7 DEF F, G

\* A round in which senders' queues, out, and those the receivers wait for, in, are
\* the same, and none is counted twice.
Matched(senders, receivers, out, in) ==
  /\ \A g \in senders : out[g] \in Seq(receivers) /\ IsInjective(out[g])
  /\ \A h \in receivers : in[h] \in Seq(senders) /\ IsInjective(in[h])
  /\ \A g \in senders, h \in receivers : g \in ToSet(in[h]) <=> h \in ToSet(out[g])

LEMMA MatchedBack ==
  ASSUME NEW senders, NEW receivers, NEW out, NEW in, Matched(senders, receivers, out, in)
  PROVE  Matched(receivers, senders, in, out)
BY Zenon DEF Matched

Merging(part, r) == {g \in Gids(Product(part.divisions)) : merge_active(part, r, g)}
Groups(part, r) == [g \in Gids(Product(part.divisions)) |-> fill(part, r, g)]
Firsts(part, r) == [g \in Gids(Product(part.divisions)) |-> <<fill(part, r, g)[1]>>]

LEMMA SwapMatched ==
  ASSUME NEW part, GroupsFit(part), NEW r \in 0..(BaseRounds(part) - 1)
  PROVE  LET G == Gids(Product(part.divisions))
         IN  Matched(G, G, Groups(part, r), Groups(part, r))
BY SameGroup DEF Matched, Groups

\* RegularMergePartners: those that send to the first of a group are those that it
\* waits for, and all of them are active (merge.hpp:26, 37, 39).
LEMMA MergeMatched ==
  ASSUME NEW part, GroupsFit(part), NEW r \in 0..(BaseRounds(part) - 1)
  PROVE  Matched(Merging(part, r), Merging(part, r + 1), Firsts(part, r), Groups(part, r))
<1> DEFINE G == Gids(Product(part.divisions))
           k == Size(part, r)
           F(x) == fill(part, r, x)
           P(q, x) == Place(part, q, x)
           S == Merging(part, r)
           R == Merging(part, r + 1)
<1>0. BaseRounds(part) \in Nat /\ r \in Nat /\ k \in Nat \ {0}
  BY DEF GroupsFit, Positive
<1>1. ASSUME NEW x \in G
      PROVE  /\ F(x) \in [1..k -> G] /\ P(r, x) + 1 \in 1..k /\ F(x)[P(r, x) + 1] = x
             /\ \A i \in 1..k :
                  /\ P(r, F(x)[i]) = i - 1
                  /\ \A q \in 0..(r - 1) : P(q, F(x)[i]) = P(q, x)
  <2>1. \A q \in 0..(r - 1) : q \in 0..(BaseRounds(part) - 1) \ {r}
    BY <1>0
  <2> QED
    BY <2>1, GroupOfBlock
<1>2. \A q, x : merge_active(part, q, x) <=> \A t \in 0..(q - 1) : P(t, x) = 0
  BY DEF merge_active, Place, Dim
<1>3. \A x, y \in G : /\ F(x) \in Seq(G) /\ IsInjective(F(x)) /\ x \in ToSet(F(x))
                      /\ y \in ToSet(F(x)) => F(y) = F(x)
  BY SameGroup
<1>4. \A x \in G : Firsts(part, r)[x] = <<F(x)[1]>> /\ Groups(part, r)[x] = F(x)
  BY DEF Firsts, Groups
<1>5. /\ S = {x \in G : \A t \in 0..(r - 1) : P(t, x) = 0}
      /\ R = {x \in G : \A t \in 0..r : P(t, x) = 0}
  <2>1. (r + 1) - 1 = r
    BY <1>0
  <2> QED
    BY <1>2, <2>1 DEF Merging
<1> HIDE DEF G, k, F, P, S, R
<1>6. ASSUME NEW x \in S, NEW i \in 1..k PROVE F(x)[i] \in S
  <2>1. x \in G /\ \A t \in 0..(r - 1) : P(t, x) = 0
    BY <1>5
  <2>2. F(x)[i] \in G
    BY <1>1, <2>1
  <2>3. \A t \in 0..(r - 1) : P(t, F(x)[i]) = 0
    BY Zenon, <1>1, <2>1
  <2> QED
    BY <1>5, <2>2, <2>3
<1>7. ASSUME NEW x \in S PROVE F(x)[1] \in R
  <2>1. 1 \in 1..k /\ x \in G
    BY <1>0, <1>5
  <2>2. F(x)[1] \in G /\ P(r, F(x)[1]) = 0 /\ \A q \in 0..(r - 1) : P(q, F(x)[1]) = 0
    <3>1. 1 - 1 = 0 /\ F(x)[1] \in G
      <4>1. F(x) \in [1..k -> G]
        BY <1>1, <2>1
      <4>2. F(x)[1] \in G
        BY <2>1, <4>1
      <4> QED
        BY <4>2
    <3>2. P(r, F(x)[1]) = 1 - 1 /\ \A q \in 0..(r - 1) : P(q, F(x)[1]) = P(q, x)
      BY <1>1, <2>1
    <3> QED
      BY <1>5, <3>1, <3>2
  <2>3. \A t \in 0..r : t = r \/ t \in 0..(r - 1)
    BY <1>0
  <2> QED
    BY <1>5, <2>2, <2>3
<1>8. R \subseteq S /\ \A x \in R : P(r, x) = 0
  BY <1>0, <1>5
<1>9. ASSUME NEW x \in R PROVE x = F(x)[1]
  <2>1. x \in G /\ P(r, x) = 0 /\ 0 + 1 = 1
    BY <1>5, <1>8
  <2> QED
    BY <1>1, <2>1
<1>10. ASSUME NEW x \in S
       PROVE  Firsts(part, r)[x] \in Seq(R) /\ IsInjective(Firsts(part, r)[x])
  <2>1. Firsts(part, r)[x] = <<F(x)[1]>>
    BY <1>4, <1>5
  <2> QED
    BY <1>7, <2>1 DEF IsInjective
<1>11. ASSUME NEW x \in R
       PROVE  Groups(part, r)[x] \in Seq(S) /\ IsInjective(Groups(part, r)[x])
  <2>1. x \in G /\ x \in S /\ Groups(part, r)[x] = F(x)
    BY <1>4, <1>5, <1>8
  <2>2. F(x) \in [1..k -> G] /\ DOMAIN F(x) = 1..k
    BY <1>1, <2>1
  <2>3. F(x) \in [1..k -> S]
    BY <1>6, <2>1, <2>2
  <2>4. F(x) \in Seq(S)
    BY <1>0, <2>3
  <2> QED
    BY <1>3, <2>1, <2>4
<1>12. ASSUME NEW g \in S, NEW h \in R
       PROVE  g \in ToSet(Groups(part, r)[h]) <=> h \in ToSet(Firsts(part, r)[g])
  <2>1. g \in G /\ h \in G /\ Groups(part, r)[h] = F(h) /\ Firsts(part, r)[g] = <<F(g)[1]>>
    BY <1>4, <1>5
  <2>2. ToSet(Firsts(part, r)[g]) = {F(g)[1]}
    BY <2>1 DEF ToSet
  <2>3. ASSUME g \in ToSet(F(h)) PROVE h = F(g)[1]
    <3>1. F(g) = F(h)
      BY <1>3, <2>1, <2>3
    <3> QED
      BY <1>9, <3>1
  <2>4. ASSUME h = F(g)[1] PROVE g \in ToSet(F(h))
    <3>1. h \in ToSet(F(g))
      <4>1. 1 \in 1..k /\ DOMAIN F(g) = 1..k
        BY <1>0, <1>1, <2>1
      <4> QED
        BY <2>4, <4>1 DEF ToSet
    <3>2. F(h) = F(g)
      BY <1>3, <2>1, <3>1
    <3> QED
      BY <1>3, <2>1, <3>2
  <2> QED
    BY <2>1, <2>2, <2>3, <2>4
<1> QED
  BY <1>10, <1>11, <1>12 DEF Matched, S, R

\* Partners of all kinds: who sends in a round and who waits in the next one are the
\* same (merge.hpp, swap.hpp, broadcast.hpp, all-reduce.hpp).
THEOREM PartnersAgree ==
  ASSUME NEW part, part.kind \in Kinds, GroupsFit(part), NEW r \in 1..rounds(part)
  PROVE  LET G == Gids(Product(part.divisions))
         IN  Matched({g \in G : active(part, r - 1, g)}, {g \in G : active(part, r, g)},
                     [g \in G |-> outgoing(part, r - 1, g)], [g \in G |-> incoming(part, r, g)])
<1> DEFINE G == Gids(Product(part.divisions))
           n == BaseRounds(part)
           A(q) == {g \in G : active(part, q, g)}
           out == [g \in G |-> outgoing(part, r - 1, g)]
           in == [g \in G |-> incoming(part, r, g)]
<1>0. n \in Nat
  BY DEF GroupsFit
<1>1. CASE part.kind = "merge"
  <2>1. r \in 1..n /\ r - 1 \in 0..(n - 1) /\ (r - 1) + 1 = r
    BY <1>0, <1>1 DEF rounds
  <2>2. A(r - 1) = Merging(part, r - 1) /\ A(r) = Merging(part, r)
    BY <1>1 DEF active, parent_round, Merging
  <2>3. out = Firsts(part, r - 1) /\ in = Groups(part, r - 1)
    BY <1>1 DEF outgoing, incoming, SendsDown, GetsDown, merge_outgoing, merge_incoming, Firsts, Groups
  <2>4. Matched(Merging(part, r - 1), Merging(part, r), Firsts(part, r - 1), Groups(part, r - 1))
    BY <2>1, MergeMatched
  <2> QED
    BY <2>2, <2>3, <2>4
<1>2. CASE part.kind = "swap"
  <2>1. r \in 1..n /\ r - 1 \in 0..(n - 1)
    BY <1>0, <1>2 DEF rounds
  <2>2. A(r - 1) = G /\ A(r) = G
    BY <1>2 DEF active
  <2>3. out = Groups(part, r - 1) /\ in = Groups(part, r - 1)
    BY <1>2 DEF outgoing, incoming, SendsDown, GetsDown, merge_incoming, Groups
  <2> QED
    BY <2>1, <2>2, <2>3, SwapMatched
<1>3. CASE part.kind = "broadcast"
  <2> DEFINE q == n - r
  <2>1. r \in 1..n /\ q \in 0..(n - 1) /\ n - (r - 1) = q + 1 /\ n - (r - 1) - 1 = q
    BY <1>0, <1>3 DEF rounds
  <2>2. A(r - 1) = Merging(part, q + 1) /\ A(r) = Merging(part, q)
    BY <1>3, <2>1 DEF active, parent_round, Merging
  <2>3. out = Groups(part, q) /\ in = Firsts(part, q)
    BY <1>3, <2>1 DEF outgoing, incoming, SendsDown, GetsDown, merge_outgoing, merge_incoming,
                      parent_round, Firsts, Groups
  <2>4. Matched(Merging(part, q), Merging(part, q + 1), Firsts(part, q), Groups(part, q))
    BY <2>1, MergeMatched
  <2> QED
    BY <2>2, <2>3, <2>4, MatchedBack
<1>4. CASE part.kind = "all_reduce" /\ r <= n
  <2>1. r \in 1..n /\ r - 1 \in 0..(n - 1) /\ (r - 1) + 1 = r /\ r - 1 < n /\ ~(r - 1 >= n) /\ ~(r > n)
        /\ (IF r < n THEN r ELSE 2 * n - r) = r
    BY <1>0, <1>4 DEF rounds
  <2>2. A(r - 1) = Merging(part, r - 1) /\ A(r) = Merging(part, r)
    BY <1>4, <2>1 DEF active, parent_round, rounds, Merging
  <2>3. out = Firsts(part, r - 1) /\ in = Groups(part, r - 1)
    BY <1>4, <2>1 DEF outgoing, incoming, SendsDown, GetsDown, merge_outgoing, merge_incoming, Firsts, Groups
  <2>4. Matched(Merging(part, r - 1), Merging(part, r), Firsts(part, r - 1), Groups(part, r - 1))
    BY <2>1, MergeMatched
  <2> QED
    BY <2>2, <2>3, <2>4
<1>5. CASE part.kind = "all_reduce" /\ r > n
  <2> DEFINE q == 2 * n - r
  <2>1. r \in 1..(2 * n) /\ q \in 0..(n - 1) /\ 2 * n - (r - 1) = q + 1 /\ 2 * n - (r - 1) - 1 = q
        /\ ~(r - 1 < n) /\ r - 1 >= n /\ r > n /\ ~(r < n)
    BY <1>0, <1>5 DEF rounds
  <2>2. A(r - 1) = Merging(part, q + 1) /\ A(r) = Merging(part, q)
    BY <1>5, <2>1 DEF active, parent_round, rounds, Merging
  <2>3. out = Groups(part, q) /\ in = Firsts(part, q)
    BY <1>5, <2>1 DEF outgoing, incoming, SendsDown, GetsDown, merge_outgoing, merge_incoming,
                      parent_round, rounds, Firsts, Groups
  <2>4. Matched(Merging(part, q), Merging(part, q + 1), Firsts(part, q), Groups(part, q))
    BY <2>1, MergeMatched
  <2> QED
    BY <2>2, <2>3, <2>4, MatchedBack
<1>6. r \in Int
  OBVIOUS
<1> QED
  BY <1>0, <1>1, <1>2, <1>3, <1>4, <1>5, <1>6 DEF Kinds

-----------------------------------------------------------------------------
(***************************************************************************)
(* The rounds that RegularPartners::factor lays out.                       *)
(***************************************************************************)
\* Positive numbers and their multiples.
LEMMA PositiveTimes ==
  /\ \A x, y \in Positive : x * y \in Positive /\ x * y = y * x
  /\ \A x, y, z \in Positive : (x * y) * z = x * (y * z)
  /\ \A x \in Positive : x * 1 = x
<1>1. \A x, y \in Positive : x * y \in Positive /\ x * y = y * x
  BY SMT DEF Positive
<1> QED
  BY <1>1, Products DEF Positive

LEMMA DividesChain ==
  /\ \A a \in Positive : Divides(a, a)
  /\ \A a, m \in Positive : Divides(a, a * m)
  /\ \A a, b, c \in Positive : Divides(a, b) /\ Divides(b, c) => Divides(a, c)
<1>1. 1 \in Positive
  BY DEF Positive
<1>2. \A a \in Positive : Divides(a, a)
  BY <1>1, PositiveTimes DEF Divides
<1>3. \A a, m \in Positive : Divides(a, a * m)
  BY DEF Divides
<1>4. ASSUME NEW a \in Positive, NEW b \in Positive, NEW c \in Positive, Divides(a, b), Divides(b, c)
      PROVE  Divides(a, c)
  <2>1. PICK m \in Positive : b = a * m
    BY <1>4 DEF Divides
  <2>2. PICK l \in Positive : c = b * l
    BY <1>4 DEF Divides
  <2>3. m * l \in Positive /\ c = a * (m * l)
    BY <2>1, <2>2, PositiveTimes
  <2> QED
    BY <2>3 DEF Divides
<1> QED
  BY <1>2, <1>3, <1>4

LEMMA Cancel ==
  ASSUME NEW a \in Positive, NEW x \in Positive, NEW y \in Positive, a * x = a * y
  PROVE  x = y
<1>0. a \in Nat /\ a # 0 /\ x \in Nat /\ y \in Nat /\ a * x \in Nat
  BY Products DEF Positive
<1>1. ASSUME NEW u \in Nat, NEW v \in Nat, u < v PROVE a * u < a * v
  <2>1. a * (u + 1) <= a * v
    BY <1>0, <1>1, TimesMonotone
  <2>2. a * (u + 1) = a * u + a
    BY <1>0, SMT
  <2>3. a * u \in Nat /\ a * v \in Nat
    BY <1>0, Products
  <2> QED
    BY <1>0, <2>1, <2>2, <2>3
<1>2. x < y \/ y < x \/ x = y
  BY <1>0
<1> QED
  BY <1>0, <1>1, <1>2

\* The loop of Grouped.
LEMMA GroupedLoop ==
  ASSUME NEW part, NEW d, BaseRounds(part) \in Nat,
         \A r \in 1..BaseRounds(part) : part.kvs[r].size \in Positive
  PROVE  /\ Grouped(part, 0, d) = 1
         /\ \A r \in 0..BaseRounds(part) : Grouped(part, r, d) \in Positive
         /\ \A r \in 0..(BaseRounds(part) - 1) :
              Grouped(part, r + 1, d) = IF part.kvs[r + 1].dim = d
                                        THEN Grouped(part, r, d) * part.kvs[r + 1].size
                                        ELSE Grouped(part, r, d)
<1> DEFINE n == BaseRounds(part)
           Eq(g) == g = [r \in 0..n |->
                           IF r = 0 THEN 1
                           ELSE IF part.kvs[r].dim = d THEN g[r - 1] * part.kvs[r].size ELSE g[r - 1]]
           f == CHOOSE g : Eq(g)
           F == [r \in 1..n |-> [y \in Positive |->
                                   IF part.kvs[r].dim = d THEN y * part.kvs[r].size ELSE y]]
<1>1. \A r : Grouped(part, r, d) = f[r]
  BY Zenon DEF Grouped
<1>2. \E g : Eq(g)
  <2>1. F \in [1..n -> [Positive -> Positive]]
    <3>1. \A r \in 1..n, y \in Positive : y * part.kvs[r].size \in Positive
      BY PositiveTimes
    <3> HIDE DEF n
    <3> QED
      BY <3>1
  <2>2. PICK g : g \in [0..n -> Positive] /\ g[0] = 1 /\ \A i \in 1..n : g[i] = F[i][g[i - 1]]
    <3>1. n \in Nat /\ 1 \in Positive /\ F \in Turns(n, Positive)
      BY <2>1 DEF Turns, Positive
    <3> HIDE DEF F, n
    <3>2. \E g : Runs(g, n, Positive, 1, F)
      BY <3>1, Iteration
    <3> QED
      BY <3>2 DEF Runs
  <2>3. \A i \in 1..n :
          g[i] = IF part.kvs[i].dim = d THEN g[i - 1] * part.kvs[i].size ELSE g[i - 1]
    <3>1. \A i \in 1..n : i - 1 \in 0..n /\ g[i - 1] \in Positive
      <4>1. \A i \in 1..n : i - 1 \in 0..n
        BY DEF n
      <4> HIDE DEF n, F
      <4> QED
        BY <2>2, <4>1
    <3> HIDE DEF n
    <3> QED
      BY <2>2, <3>1
  <2>4. Eq(g)
    <3>1. \A i \in 0..n : i # 0 => i \in 1..n
      BY DEF n
    <3>2. DOMAIN g = 0..n
      BY <2>2
    <3> HIDE DEF n
    <3> QED
      BY <2>2, <2>3, <3>1, <3>2
  <2> QED
    BY <2>4
<1>3. Eq(f)
  <2> HIDE DEF Eq
  <2> QED
    BY <1>2
<1> HIDE DEF f
<1>4. /\ f[0] = 1
      /\ \A r \in 0..(n - 1) :
           f[r + 1] = IF part.kvs[r + 1].dim = d THEN f[r] * part.kvs[r + 1].size ELSE f[r]
  <2>1. 0 \in 0..n /\ \A r \in 0..(n - 1) : r + 1 \in 0..n /\ r + 1 # 0 /\ (r + 1) - 1 = r
    OBVIOUS
  <2> HIDE DEF n
  <2> QED
    BY <1>3, <2>1
<1>5. \A r \in 0..n : f[r] \in Positive
  <2> DEFINE P == {r \in 0..n : f[r] \in Positive}
  <2>1. 0 \in P
    BY <1>4 DEF Positive
  <2>2. ASSUME NEW r \in 0..(n - 1), r \in P PROVE r + 1 \in P
    <3>1. r + 1 \in 0..n /\ r + 1 \in 1..n /\ f[r] \in Positive
      BY <2>2
    <3>2. part.kvs[r + 1].size \in Positive
      BY <3>1
    <3> HIDE DEF n
    <3> QED
      BY <1>4, <3>1, <3>2, PositiveTimes
  <2> HIDE DEF P
  <2>3. 0..n \subseteq P
    <3>1. n \in Nat
      OBVIOUS
    <3> HIDE DEF n
    <3> QED
      BY <2>1, <2>2, <3>1, InductionTo
  <2> QED
    BY <2>3 DEF P
<1> QED
  BY <1>1, <1>4, <1>5

LEMMA GroupedDivides ==
  ASSUME NEW part, NEW d, BaseRounds(part) \in Nat,
         \A r \in 1..BaseRounds(part) : part.kvs[r].size \in Positive,
         NEW r \in 0..BaseRounds(part), NEW q \in 0..BaseRounds(part), r <= q
  PROVE  Divides(Grouped(part, r, d), Grouped(part, q, d))
<1> DEFINE n == BaseRounds(part)
           G(i) == Grouped(part, i, d)
           P == {j \in 0..(n - r) : Divides(G(r), G(r + j))}
<1>0. /\ \A i \in 0..n : G(i) \in Positive
      /\ \A i \in 0..(n - 1) : G(i + 1) = IF part.kvs[i + 1].dim = d THEN G(i) * part.kvs[i + 1].size ELSE G(i)
  BY GroupedLoop
<1>1. n \in Nat /\ r \in 0..n /\ q \in 0..n /\ \A i \in 1..n : part.kvs[i].size \in Positive
  OBVIOUS
<1> HIDE DEF G, n
<1>2. 0 \in P
  <2>1. r + 0 = r /\ 0 \in 0..(n - r) /\ G(r) \in Positive
    BY <1>0, <1>1
  <2> QED
    BY <2>1, DividesChain
<1>3. ASSUME NEW j \in 0..(n - r - 1), j \in P PROVE j + 1 \in P
  <2> DEFINE i == r + j
  <2>1. i \in 0..(n - 1) /\ i \in 0..n /\ i + 1 \in 0..n /\ i + 1 \in 1..n /\ r + (j + 1) = i + 1
        /\ j + 1 \in 0..(n - r) /\ Divides(G(r), G(i))
    BY <1>1, <1>3
  <2> HIDE DEF i
  <2>2. Divides(G(i), G(i + 1))
    <3>1. G(i) \in Positive /\ part.kvs[i + 1].size \in Positive
      BY <1>0, <1>1, <2>1
    <3> QED
      BY <1>0, <2>1, <3>1, DividesChain
  <2>3. Divides(G(r), G(i + 1))
    BY <1>0, <1>1, <2>1, <2>2, DividesChain
  <2> QED
    BY <2>1, <2>3
<1> HIDE DEF P
<1>4. 0..(n - r) \subseteq P
  <2> DEFINE l == n - r
  <2>1. l \in Nat /\ \A j \in 0..(l - 1) : j \in P => j + 1 \in P
    BY <1>1, <1>3
  <2> HIDE DEF l
  <2>2. 0..l \subseteq P
    BY <1>2, <2>1, InductionTo
  <2> QED
    BY <2>2 DEF l
<1>5. q - r \in 0..(n - r) /\ r + (q - r) = q
  BY <1>1
<1> QED
  BY <1>4, <1>5 DEF P, G

\* A round more for a dimension multiplies the blocks in its groups.
LEMMA GroupedAppend ==
  ASSUME NEW part, NEW more, NEW d, NEW e, e.size \in Positive, BaseRounds(part) \in Nat,
         \A r \in 1..BaseRounds(part) : part.kvs[r].size \in Positive,
         BaseRounds(more) = BaseRounds(part) + 1, more.kvs[BaseRounds(part) + 1] = e,
         \A r \in 1..BaseRounds(part) : more.kvs[r] = part.kvs[r]
  PROVE  /\ e.dim = d => Grouped(more, BaseRounds(more), d) = Grouped(part, BaseRounds(part), d) * e.size
         /\ e.dim # d => Grouped(more, BaseRounds(more), d) = Grouped(part, BaseRounds(part), d)
<1> DEFINE n == BaseRounds(part)
           G(r) == Grouped(part, r, d)
           H(r) == Grouped(more, r, d)
           P == {r \in 0..n : H(r) = G(r)}
<1>0. n \in Nat /\ BaseRounds(more) = n + 1 /\ n + 1 \in Nat /\ n \in 0..n /\ n \in 0..(n + 1 - 1)
  OBVIOUS
<1>1. /\ G(0) = 1
      /\ \A r \in 0..(n - 1) : G(r + 1) = IF part.kvs[r + 1].dim = d THEN G(r) * part.kvs[r + 1].size ELSE G(r)
  BY GroupedLoop
<1>2. /\ H(0) = 1
      /\ \A r \in 0..(n + 1 - 1) :
           H(r + 1) = IF more.kvs[r + 1].dim = d THEN H(r) * more.kvs[r + 1].size ELSE H(r)
  <2>1. \A r \in 1..(n + 1) : more.kvs[r].size \in Positive
    <3>1. \A r \in 1..(n + 1) : r \in 1..n \/ r = n + 1
      BY <1>0
    <3> HIDE DEF n
    <3> QED
      BY <3>1 DEF n
  <2>2. BaseRounds(more) \in Nat /\ \A r \in 1..BaseRounds(more) : more.kvs[r].size \in Positive
    BY <1>0, <2>1
  <2>3. /\ Grouped(more, 0, d) = 1
        /\ \A r \in 0..(BaseRounds(more) - 1) :
             Grouped(more, r + 1, d) = IF more.kvs[r + 1].dim = d
                                       THEN Grouped(more, r, d) * more.kvs[r + 1].size
                                       ELSE Grouped(more, r, d)
    BY <2>2, GroupedLoop
  <2> HIDE DEF n
  <2> QED
    BY <1>0, <2>3
<1>3. \A r \in 1..n : more.kvs[r] = part.kvs[r]
  OBVIOUS
<1>4. more.kvs[n + 1] = e
  OBVIOUS
<1> HIDE DEF n, G, H
<1>5. 0 \in P
  BY <1>0, <1>1, <1>2
<1>6. ASSUME NEW r \in 0..(n - 1), r \in P PROVE r + 1 \in P
  <2>1. r + 1 \in 1..n /\ r \in 0..(n + 1 - 1) /\ r + 1 \in 0..n
    BY <1>0
  <2> QED
    BY <1>1, <1>2, <1>3, <1>6, <2>1
<1> HIDE DEF P
<1>7. 0..n \subseteq P
  BY <1>0, <1>5, <1>6, InductionTo
<1>8. H(n) = G(n)
  BY <1>0, <1>7 DEF P
<1>9. H(n + 1) = IF e.dim = d THEN G(n) * e.size ELSE G(n)
  BY <1>0, <1>2, <1>4, <1>8
<1> QED
  BY <1>0, <1>9 DEF G, H, n

\* Rounds fit when the group sizes of a dimension multiply to a divisor of its blocks:
\* steps grow round by round when groups are contiguous and shrink when they are
\* not (common.hpp:110).
LEMMA FactorsFit ==
  ASSUME NEW part, part.divisions \in Seq(Positive), BaseRounds(part) \in Nat,
         part.contiguous \in BOOLEAN,
         \A r \in 1..BaseRounds(part) : /\ part.kvs[r].size \in Positive
                                        /\ part.kvs[r].dim \in Dims(part.divisions),
         \A d \in Dims(part.divisions) :
           Divides(Grouped(part, BaseRounds(part), d), part.divisions[d])
  PROVE  GroupsFit(part)
<1> DEFINE n == BaseRounds(part)
           D == part.divisions
           R == 0..(n - 1)
           G(r, d) == Grouped(part, r, d)
           s(r) == step(part, r)
           k(r) == Size(part, r)
           m(r) == Dim(part, r)
<1>0. D \in Seq(Positive) /\ n \in Nat
  OBVIOUS
<1>1. ASSUME NEW r \in R
      PROVE  /\ r + 1 \in 1..n /\ r \in 0..n /\ r + 1 \in 0..n /\ n \in 0..n
             /\ m(r) \in Dims(D) /\ k(r) \in Positive /\ D[m(r)] \in Positive
  <2>1. r + 1 \in 1..n /\ r \in 0..n /\ r + 1 \in 0..n /\ n \in 0..n
    OBVIOUS
  <2> HIDE DEF n
  <2>2. m(r) \in Dims(D) /\ k(r) \in Positive
    BY <2>1 DEF n, Dim, Size, kv
  <2>3. D[m(r)] \in Positive
    BY <2>2 DEF Dims
  <2> QED
    BY <2>1, <2>2, <2>3
<1>2. ASSUME NEW d \in Dims(D)
      PROVE  /\ \A r \in 0..n : G(r, d) \in Positive /\ Divides(G(r, d), D[d])
             /\ \A r \in R : G(r + 1, d) = IF m(r) = d THEN G(r, d) * k(r) ELSE G(r, d)
             /\ \A r, q \in 0..n : r <= q => Divides(G(r, d), G(q, d))
  <2>1. \A r \in 1..n : part.kvs[r].size \in Positive
    OBVIOUS
  <2>2. /\ \A r \in 0..n : G(r, d) \in Positive
        /\ \A r \in R : G(r + 1, d) = IF part.kvs[r + 1].dim = d THEN G(r, d) * part.kvs[r + 1].size ELSE G(r, d)
    BY <1>0, <2>1, GroupedLoop
  <2>3. \A r, q \in 0..n : r <= q => Divides(G(r, d), G(q, d))
    BY <1>0, <2>1, GroupedDivides
  <2>4. Divides(G(n, d), D[d]) /\ D[d] \in Positive /\ n \in 0..n
    BY DEF Dims
  <2>5. \A r \in R : part.kvs[r + 1].dim = m(r) /\ part.kvs[r + 1].size = k(r)
    BY DEF Dim, Size, kv
  <2>6. ASSUME NEW r \in 0..n PROVE Divides(G(r, d), D[d])
    <3>1. r <= n
      OBVIOUS
    <3> HIDE DEF n, G, D
    <3> QED
      BY <2>2, <2>3, <2>4, <3>1, DividesChain
  <2> QED
    BY <2>2, <2>3, <2>5, <2>6
<1>3. \A r \in R : s(r) = IF part.contiguous THEN G(r, m(r)) ELSE D[m(r)] \div G(r + 1, m(r))
  BY DEF step, Dim
<1>4. \A r, q \in R : r < q \/ q < r \/ r = q
  BY <1>0
<1> HIDE DEF n, D, G, s, k, m, R
<1>5. ASSUME NEW r \in R
      PROVE  /\ G(r, m(r)) \in Positive /\ G(r + 1, m(r)) \in Positive
             /\ G(r + 1, m(r)) = G(r, m(r)) * k(r)
             /\ Divides(G(r + 1, m(r)), D[m(r)])
  BY <1>1, <1>2
<1>6. ASSUME NEW r \in R, NEW q \in R, r < q, m(r) = m(q)
      PROVE  Divides(G(r + 1, m(r)), G(q, m(q)))
  <2>1. r + 1 <= q
    BY <1>0, <1>6 DEF R
  <2> QED
    BY <1>1, <1>2, <1>6, <2>1
<1>7. CASE part.contiguous
  <2>1. ASSUME NEW r \in R PROVE s(r) \in Positive /\ s(r) * k(r) = G(r + 1, m(r)) /\ s(r) = G(r, m(r))
    BY <1>3, <1>5, <1>7
  <2>2. \A r \in R : s(r) \in Positive /\ Divides(s(r) * k(r), D[m(r)])
    BY <1>5, <2>1
  <2>3. \A r, q \in R : r < q /\ m(r) = m(q) => Divides(s(r) * k(r), s(q))
    BY <1>6, <2>1
  <2>4. \A r, q \in R : r # q /\ m(r) = m(q) => Divides(s(r) * k(r), s(q)) \/ Divides(s(q) * k(q), s(r))
    BY <1>4, <2>3
  <2> QED
    BY <1>0, <1>1, <2>2, <2>4 DEF GroupsFit, n, D, s, k, m, R
<1>8. CASE ~part.contiguous
  <2>1. ASSUME NEW r \in R PROVE s(r) \in Positive /\ D[m(r)] = G(r + 1, m(r)) * s(r)
    <3>1. PICK w \in Positive : D[m(r)] = G(r + 1, m(r)) * w
      BY <1>5 DEF Divides
    <3> DEFINE a == D[m(r)]
               b == G(r + 1, m(r))
    <3>2. b \in Nat \ {0} /\ w \in Int /\ 0 \in 0..(b - 1) /\ a = b * w + 0 /\ w \in Positive
      <4>1. b \in Nat \ {0} /\ w \in Nat /\ b * w \in Nat
        BY <1>5, Products DEF Positive
      <4> HIDE DEF b
      <4> QED
        BY <3>1, <4>1 DEF b
    <3> HIDE DEF a, b
    <3>3. a \div b = w
      BY <3>2, DivMod
    <3> QED
      BY <1>3, <1>8, <3>1, <3>2, <3>3 DEF a, b
  <2>2. ASSUME NEW r \in R
        PROVE  D[m(r)] = (s(r) * k(r)) * G(r, m(r)) /\ s(r) * k(r) \in Positive
    <3>1. /\ D[m(r)] = (G(r, m(r)) * k(r)) * s(r) /\ G(r, m(r)) \in Positive
          /\ k(r) \in Positive /\ s(r) \in Positive
      BY <1>1, <1>5, <2>1
    <3>2. (G(r, m(r)) * k(r)) * s(r) = (s(r) * k(r)) * G(r, m(r))
      BY <3>1, PositiveTimes
    <3> QED
      BY <3>1, <3>2, PositiveTimes
  <2>3. ASSUME NEW r \in R PROVE s(r) \in Positive /\ Divides(s(r) * k(r), D[m(r)])
    BY <1>5, <2>1, <2>2 DEF Divides
  <2>4. ASSUME NEW r \in R, NEW q \in R, r < q, m(r) = m(q) PROVE Divides(s(q) * k(q), s(r))
    <3>1. PICK w \in Positive : G(q, m(q)) = G(r + 1, m(r)) * w
      BY <1>6, <2>4 DEF Divides
    <3> DEFINE a == G(r + 1, m(r))
               x == s(r)
               y == s(q) * k(q)
    <3>2. a \in Positive /\ x \in Positive /\ y \in Positive /\ a * x = y * (a * w)
      BY <1>5, <2>1, <2>2, <2>4, <3>1
    <3> HIDE DEF a, x, y
    <3>3. y * (a * w) = a * (y * w) /\ y * w \in Positive
      <4>1. a * w \in Positive /\ y * w \in Positive
        BY <3>2, PositiveTimes
      <4>2. y * (a * w) = (a * w) * y /\ (a * w) * y = a * (w * y) /\ w * y = y * w
        BY <3>2, <4>1, PositiveTimes
      <4> QED
        BY <4>1, <4>2
    <3>4. x = y * w
      BY <3>2, <3>3, Cancel
    <3> QED
      BY <3>4 DEF Divides, x, y
  <2>5. \A r, q \in R : r # q /\ m(r) = m(q) => Divides(s(r) * k(r), s(q)) \/ Divides(s(q) * k(q), s(r))
    BY <1>4, <2>4
  <2> QED
    BY <1>0, <1>1, <2>3, <2>5 DEF GroupsFit, n, D, s, k, m, R
<1> QED
  BY <1>7, <1>8

\* A bounded set of natural numbers has a largest one.
LEMMA GreatestBounds ==
  ASSUME NEW S, NEW n \in Nat, S \subseteq 0..n, S # {}
  PROVE  Max(S) \in S /\ \A y \in S : Max(S) >= y
<1> DEFINE T == {n - x : x \in S}
<1>1. T \subseteq Nat /\ T # {}
  <2>1. \A x \in S : x \in 0..n /\ n - x \in Nat
    OBVIOUS
  <2> QED
    BY <2>1
<1>2. Min(T) \in T /\ \A y \in T : Min(T) <= y
  BY <1>1, LeastNumber
<1>3. PICK x \in S : Min(T) = n - x
  BY <1>2
<1>4. ASSUME NEW y \in S PROVE x >= y
  <2>1. n - y \in T /\ x \in 0..n /\ y \in 0..n
    OBVIOUS
  <2>2. n - x <= n - y
    BY <1>2, <1>3, <2>1
  <2> QED
    BY <2>1, <2>2
<1> QED
  BY <1>4, Zenon DEF Max

LEMMA GreatestNumber ==
  ASSUME NEW S, NEW n \in Nat, S \subseteq 0..n, S # {}
  PROVE  Max(S) \in S
BY GreatestBounds

\* Numbers F that divide n one after the other until 1 is left.
Dissolves(F, n) ==
  /\ Len(F) \in Nat /\ DOMAIN F = 1..Len(F) /\ \A t \in 1..Len(F) : F[t] \in Positive
  /\ \E left \in [0..Len(F) -> Positive] :
       /\ left[0] = n /\ left[Len(F)] = 1
       /\ \A t \in 1..Len(F) : left[t - 1] = left[t] * F[t]

\* The loop of Factors: what remains is divided until nothing but 1 does.
LEMMA FactorsLoop ==
  ASSUME NEW n \in Positive, NEW next \in [1..n -> Positive],
         \A m \in 1..n : Divides(next[m], m) /\ (next[m] = 1 => m = 1)
  PROVE  Dissolves(Factors(n, next), n)
<1> DEFINE Eq(g) == g = [t \in 0..n |-> IF t = 0 THEN n
                                        ELSE LET m == g[t - 1] IN m \div next[m]]
           left == CHOOSE g : Eq(g)
           S == {t \in 0..n : left[t] = 1}
           count == Min(S)
           F == Factors(n, next)
           L == [t \in 1..n |-> [m \in 1..n |-> m \div next[m]]]
<1>0. n \in Nat /\ n \in 1..n /\ 0 \in 0..n /\ n \in 0..n
  BY DEF Positive
<1>1. F = [t \in 1..count |-> next[left[t - 1]]]
  BY Zenon DEF Factors
<1>2. ASSUME NEW m \in 1..n
      PROVE  /\ next[m] \in Positive /\ m \div next[m] \in 1..n /\ m = (m \div next[m]) * next[m]
             /\ m # 1 => m \div next[m] < m
             /\ m = 1 => m \div next[m] = 1
  <2> DEFINE a == next[m]
             q == m \div a
  <2>1. a \in Positive /\ Divides(a, m) /\ (a = 1 => m = 1) /\ m \in Nat /\ a \in Nat \ {0} /\ a \in Nat
    BY DEF Positive
  <2>2. PICK w \in Positive : m = a * w
    BY <2>1 DEF Divides
  <2>3. w \in Nat /\ w # 0 /\ w \in Int /\ 0 \in 0..(a - 1) /\ m = a * w + 0
    <3>1. w \in Nat /\ w # 0
      BY DEF Positive
    <3> HIDE DEF a
    <3> QED
      BY <2>1, <2>2, <3>1, Products
  <2> HIDE DEF a
  <2>4. q = w
    BY <2>1, <2>3, DivMod
  <2>5. w * a = m
    BY <2>1, <2>2, <2>3, Products
  <2>6. CASE a = 1
    <3>1. m = 1 /\ w = 1
      BY <2>1, <2>3, <2>6, <2>2
    <3> QED
      BY <1>0, <2>1, <2>4, <2>5, <2>6, <3>1 DEF a
  <2>7. CASE a # 1
    <3>1. 2 <= a
      BY <2>1, <2>7
    <3>2. 2 * w <= a * w /\ a * w = m
      <4>1. w * 2 <= w * a
        BY <2>1, <2>3, <3>1, TimesMonotone
      <4> QED
        BY <2>1, <2>2, <2>3, <2>5, <4>1, Products
    <3>3. w < m /\ 1 <= w /\ m # 1
      BY <2>1, <2>3, <3>2
    <3>4. w \in 1..n
      BY <1>0, <2>1, <2>3, <3>3
    <3> QED
      BY <2>1, <2>4, <2>5, <3>3, <3>4 DEF a
  <2> QED
    BY <2>6, <2>7
<1>3. \E g : Eq(g)
  <2>1. L \in [1..n -> [1..n -> 1..n]]
    BY <1>2
  <2>2. PICK g : g \in [0..n -> 1..n] /\ g[0] = n /\ \A i \in 1..n : g[i] = L[i][g[i - 1]]
    <3>1. n \in Nat /\ n \in 1..n /\ L \in Turns(n, 1..n)
      BY <1>0, <2>1 DEF Turns
    <3> HIDE DEF L
    <3>2. \E g : Runs(g, n, 1..n, n, L)
      BY <3>1, Iteration
    <3> QED
      BY <3>2 DEF Runs
  <2>3. ASSUME NEW i \in 1..n PROVE g[i] = g[i - 1] \div next[g[i - 1]]
    <3>1. i - 1 \in 0..n
      BY <1>0
    <3>2. g[i - 1] \in 1..n
      BY <2>2, <3>1
    <3> QED
      BY <2>2, <3>2
  <2>4. Eq(g)
    <3>1. \A i \in 0..n : i # 0 => i \in 1..n
      BY <1>0
    <3>2. DOMAIN g = 0..n
      BY <2>2
    <3> QED
      BY <2>2, <2>3, <3>1, <3>2
  <2> QED
    BY <2>4
<1>4. Eq(left)
  <2> HIDE DEF Eq
  <2> QED
    BY <1>3, SMTT(60)
<1> HIDE DEF left, F
<1>5. left[0] = n /\ \A t \in 1..n : left[t] = left[t - 1] \div next[left[t - 1]]
  <2>1. \A t \in 1..n : t \in 0..n /\ t # 0
    BY <1>0
  <2> QED
    BY <1>0, <1>4, <2>1
<1>6. \A t \in 0..n : left[t] \in 1..n /\ (left[t] = 1 \/ left[t] + t <= n)
  <2> DEFINE P == {t \in 0..n : left[t] \in 1..n /\ (left[t] = 1 \/ left[t] + t <= n)}
  <2>1. 0 \in P
    BY <1>0, <1>5
  <2>2. ASSUME NEW t \in 0..(n - 1), t \in P PROVE t + 1 \in P
    <3> DEFINE a == left[t]
               b == left[t + 1]
    <3>1. t + 1 \in 1..n /\ (t + 1) - 1 = t /\ t + 1 \in 0..n /\ a \in 1..n /\ (a = 1 \/ a + t <= n)
      BY <1>0, <2>2
    <3>2. b = a \div next[a]
      BY <1>5, <3>1
    <3> HIDE DEF a, b
    <3>3. b \in 1..n /\ (a # 1 => b < a) /\ (a = 1 => b = 1)
      BY <1>2, <3>1, <3>2
    <3>4. b = 1 \/ b + (t + 1) <= n
      BY <1>0, <3>1, <3>3
    <3> QED
      BY <3>1, <3>3, <3>4 DEF b
  <2> HIDE DEF P
  <2>3. 0..n \subseteq P
    BY <1>0, <2>1, <2>2, InductionTo
  <2> QED
    BY <2>3 DEF P
<1>7. count \in 0..n /\ left[count] = 1
  <2>1. n \in S
    BY <1>0, <1>6
  <2>2. S \subseteq Nat
    OBVIOUS
  <2> HIDE DEF S
  <2>3. count \in S
    BY <2>1, <2>2, LeastNumber
  <2> QED
    BY <2>3 DEF S
<1> HIDE DEF count
<1>8. Len(F) = count /\ DOMAIN F = 1..count /\ count \in Nat
  BY <1>1, <1>7
<1>9. ASSUME NEW t \in 1..count
      PROVE  F[t] \in Positive /\ left[t - 1] = left[t] * F[t]
  <2>1. t \in 1..n /\ t - 1 \in 0..n
    BY <1>0, <1>7
  <2>2. left[t - 1] \in 1..n /\ F[t] = next[left[t - 1]] /\ left[t] = left[t - 1] \div next[left[t - 1]]
    BY <1>1, <1>5, <1>6, <2>1
  <2> QED
    BY <1>2, <2>2
<1> DEFINE l == [t \in 0..count |-> left[t]]
<1>10. l \in [0..count -> Positive]
  <2>1. \A t \in 0..count : t \in 0..n
    BY <1>0, <1>7
  <2>2. \A t \in 0..count : left[t] \in Positive
    BY <1>6, <2>1 DEF Positive
  <2> QED
    BY <2>2
<1>11. l[0] = n /\ l[count] = 1 /\ \A t \in 1..count : l[t - 1] = l[t] * F[t]
  <2>1. 0 \in 0..count /\ count \in 0..count /\ \A t \in 1..count : t \in 0..count /\ t - 1 \in 0..count
    BY <1>8
  <2> QED
    BY <1>5, <1>7, <1>9, <2>1
<1> HIDE DEF l
<1> QED
  BY <1>8, <1>9, <1>10, <1>11 DEF F, Dissolves

LEMMA DividesRemainder ==
  ASSUME NEW m \in Positive, NEW d \in Positive, m % d = 0
  PROVE  Divides(d, m)
<1> DEFINE q == m \div d
<1>1. m \in Nat /\ m # 0 /\ d \in Nat \ {0} /\ d \in Nat
  BY DEF Positive
<1>2. q \in Nat /\ m = d * q + 0
  BY <1>1, NatDivision
<1> HIDE DEF q
<1>3. d * 0 = 0 /\ d * q \in Nat
  BY <1>1, <1>2, Products
<1>4. q # 0 /\ m = d * q
  BY <1>1, <1>2, <1>3
<1> QED
  BY <1>2, <1>4 DEF Divides, Positive

\* RegularPartners::factor finds group sizes that multiply to the blocks of a
\* dimension (common.hpp:190), and detail::factor the prime factors of the blocks
\* (decomposition.hpp:773).
LEMMA FactorKDissolves ==
  ASSUME NEW k \in Nat \ {0, 1}, NEW n \in Positive
  PROVE  Dissolves(FactorK(k, n), n)
<1> DEFINE S(m) == {j \in 2..k : m % j = 0}
           next == [m \in 1..n |-> IF S(m) = {} THEN m ELSE Max(S(m))]
<1>0. n \in Nat
  BY DEF Positive
<1>1. ASSUME NEW m \in 1..n
      PROVE  next[m] \in Positive /\ Divides(next[m], m) /\ (next[m] = 1 => m = 1)
  <2>0. m \in Positive
    BY <1>0 DEF Positive
  <2>1. CASE S(m) = {}
    BY <2>0, <2>1, DividesChain
  <2>2. CASE S(m) # {}
    <3>1. S(m) \subseteq 0..k
      OBVIOUS
    <3> DEFINE d == Max(S(m))
    <3>2. d \in S(m)
      <4> HIDE DEF S
      <4> QED
        BY <2>2, <3>1, GreatestNumber
    <3>3. next[m] = d
      BY <2>2
    <3> HIDE DEF d, next
    <3>4. d \in 2..k /\ m % d = 0
      BY <3>2
    <3>5. d \in Positive /\ d # 1
      BY <3>4 DEF Positive
    <3> QED
      BY <2>0, <3>3, <3>4, <3>5, DividesRemainder
  <2> QED
    BY <2>1, <2>2
<1>2. FactorK(k, n) = Factors(n, next)
  BY DEF FactorK
<1>3. next \in [1..n -> Positive]
  BY <1>1
<1> HIDE DEF next
<1> QED
  BY <1>1, <1>2, <1>3, FactorsLoop

LEMMA PrimesDissolve ==
  ASSUME NEW n \in Positive
  PROVE  Dissolves(factor(n), n)
<1> DEFINE S(m) == {d \in 2..m : m % d = 0}
           next == [m \in 1..n |-> IF m = 1 THEN 1 ELSE Min(S(m))]
<1>0. n \in Nat
  BY DEF Positive
<1>1. ASSUME NEW m \in 1..n
      PROVE  next[m] \in Positive /\ Divides(next[m], m) /\ (next[m] = 1 => m = 1)
  <2>0. m \in Positive /\ m \in Nat
    BY <1>0 DEF Positive
  <2>1. CASE m = 1
    BY <2>0, <2>1, DividesChain
  <2>2. CASE m # 1
    <3>1. S(m) \subseteq Nat
      BY <2>0
    <3>2. m \in S(m)
      <4>1. m \in 2..m /\ m = m * 1 + 0 /\ 0 \in 0..(m - 1) /\ m \in Nat \ {0} /\ 1 \in Int
        BY <2>0, <2>2
      <4>2. m % m = 0
        BY <4>1, DivMod
      <4> QED
        BY <4>1, <4>2
    <3> DEFINE d == Min(S(m))
    <3>3. d \in S(m)
      <4> HIDE DEF S
      <4> QED
        BY <3>1, <3>2, LeastNumber
    <3>4. next[m] = d
      BY <2>2
    <3> HIDE DEF d, next
    <3>5. d \in 2..m /\ m % d = 0
      BY <3>3
    <3>6. d \in Positive /\ d # 1
      BY <2>0, <3>5 DEF Positive
    <3> QED
      BY <2>0, <3>4, <3>5, <3>6, DividesRemainder
  <2> QED
    BY <2>1, <2>2
<1>2. factor(n) = Factors(n, next)
  BY DEF factor
<1>3. next \in [1..n -> Positive]
  BY <1>1
<1> HIDE DEF next
<1> QED
  BY <1>1, <1>2, <1>3, FactorsLoop

\* A total order on some of the numbers up to n has a greatest one.
LEMMA Best ==
  ASSUME NEW n \in Nat, NEW S, S \subseteq 1..n, S # {}, NEW R,
         \A i, j \in S : i # j => <<i, j>> \in R \/ <<j, i>> \in R,
         \A i, j, l \in S : <<i, j>> \in R /\ <<j, l>> \in R => <<i, l>> \in R
  PROVE  \E i \in S : \A j \in S \ {i} : <<i, j>> \in R
<1> DEFINE U(m) == S \cap (1..m)
           P == {m \in 0..n : U(m) # {} => \E i \in U(m) : \A j \in U(m) \ {i} : <<i, j>> \in R}
<1>1. 0 \in P
  OBVIOUS
<1>2. ASSUME NEW m \in 0..(n - 1), m \in P PROVE m + 1 \in P
  <2>0. m + 1 \in 0..n /\ U(m) \subseteq U(m + 1) /\ U(m + 1) \subseteq U(m) \cup {m + 1} /\ U(m + 1) \subseteq S
    OBVIOUS
  <2>1. CASE m + 1 \notin S
    <3>1. U(m + 1) = U(m)
      BY <2>0, <2>1
    <3> HIDE DEF U
    <3> QED
      BY <1>2, <2>0, <3>1
  <2>2. CASE m + 1 \in S /\ U(m) = {}
    <3>1. U(m + 1) = {m + 1}
      BY <2>0, <2>2
    <3> HIDE DEF U
    <3> QED
      BY <2>0, <3>1
  <2>3. CASE m + 1 \in S /\ U(m) # {}
    <3>1. PICK i \in U(m) : \A j \in U(m) \ {i} : <<i, j>> \in R
      BY <1>2, <2>3
    <3>2. i \in S /\ i # m + 1 /\ i \in U(m + 1) /\ m + 1 \in U(m + 1)
      BY <2>3
    <3> HIDE DEF U
    <3>3. CASE <<i, m + 1>> \in R
      <4>1. \A j \in U(m + 1) \ {i} : <<i, j>> \in R
        BY <2>0, <3>1, <3>3
      <4> QED
        BY <2>0, <3>2, <4>1
    <3>4. CASE <<m + 1, i>> \in R
      <4>1. ASSUME NEW j \in U(m + 1) \ {m + 1} PROVE <<m + 1, j>> \in R
        <5>1. j \in U(m) /\ j \in S
          BY <2>0
        <5> QED
          BY <2>3, <3>1, <3>2, <3>4, <5>1
      <4> QED
        BY <2>0, <3>2, <4>1
    <3> QED
      BY <2>3, <3>2, <3>3, <3>4
  <2> QED
    BY <2>1, <2>2, <2>3
<1> HIDE DEF P
<1>3. 0..n \subseteq P
  BY <1>1, <1>2, InductionTo
<1>4. n \in P
  BY <1>3
<1>5. U(n) = S
  OBVIOUS
<1> HIDE DEF U
<1> QED
  BY <1>4, <1>5 DEF P

\* Rounds that have been laid out, and how many of them in each dimension.
Laid(n) == [kvs : Seq([dim : 1..n, size : Positive]), round_per_dim : [1..n -> Nat]]

\* Turn s of n dimensions in a row is dimension d's own r-th one, or later than it.
LEMMA TurnsTaken ==
  ASSUME NEW n \in Nat \ {0}, NEW s \in Nat \ {0}, NEW d \in 1..n, NEW r \in Nat,
         r * n + d > s - 1
  PROVE  /\ ((s - 1) % n) + 1 # d => r * n + d > s
         /\ (r + 1) * n + d > s
<1> DEFINE u == r * n
<1>1. u \in Nat /\ n * r = u /\ (r + 1) * n = u + n
  BY Products, SMT
<1>2. ASSUME u + d = s PROVE ((s - 1) % n) + 1 = d
  <2> DEFINE b == s - 1
             e == d - 1
  <2>1. e \in 0..(n - 1) /\ r \in Int /\ b = n * r + e
    BY <1>1, <1>2
  <2> HIDE DEF b, e
  <2>2. b % n = e
    BY <2>1, DivMod
  <2> QED
    BY <2>2 DEF b, e
<1> HIDE DEF u
<1>3. u + d > s - 1
  BY DEF u
<1>4. u + d = s \/ u + d > s
  BY <1>1, <1>3
<1>5. (u + n) + d > s
  BY <1>1, <1>3
<1>6. r * n + d = u + d /\ (r + 1) * n + d = (u + n) + d
  BY <1>1 DEF u
<1> QED
  BY <1>2, <1>4, <1>5, <1>6

\* The loop of Factor: the sizes laid out for a dimension and the factors that are
\* left multiply to its blocks, and there are turns enough for all factors.
LEMMA FactorLoop ==
  ASSUME NEW k \in Nat \ {0, 1}, NEW D \in Seq(Positive), D # <<>>
  PROVE  /\ Factor(k, D) \in Seq([dim : 1..Len(D), size : Positive])
         /\ \A d \in 1..Len(D) : Grouped([kvs |-> Factor(k, D)], Len(Factor(k, D)), d) = D[d]
<1> DEFINE n == Len(D)
           K == [i \in 1..n |-> FactorK(k, D[i])]
           most == Max({Len(K[i]) : i \in 1..n})
           dim(s) == ((s - 1) % n) + 1
           N == most * n
           next(s, last) ==
             LET i == dim(s)
                 t == last.round_per_dim[i] + 1
             IN  IF t > Len(K[i]) THEN last
                 ELSE [kvs           |-> Append(last.kvs, [dim |-> i, size |-> K[i][t]]),
                       round_per_dim |-> [last.round_per_dim EXCEPT ![i] = t]]
           start == [kvs |-> <<>>, round_per_dim |-> [i \in 1..n |-> 0]]
           Eq(g) == g = [s \in 0..N |-> IF s = 0 THEN start ELSE LET last == g[s - 1] IN next(s, last)]
           turn == CHOOSE g : Eq(g)
           Left(left, i) == /\ left \in [0..Len(K[i]) -> Positive]
                            /\ left[0] = D[i] /\ left[Len(K[i])] = 1
                            /\ \A t \in 1..Len(K[i]) : left[t - 1] = left[t] * K[i][t]
           left == [i \in 1..n |-> CHOOSE l : Left(l, i)]
           G(s, d) == Grouped([kvs |-> s], Len(s), d)
           A == {a \in Laid(n) : \A d \in 1..n :
                   /\ a.round_per_dim[d] \in 0..Len(K[d])
                   /\ G(a.kvs, d) * left[d][a.round_per_dim[d]] = D[d]}
<1>0. n \in Nat \ {0} /\ \A i \in 1..n : D[i] \in Positive
  OBVIOUS
<1>1. ASSUME NEW i \in 1..n
      PROVE  /\ Len(K[i]) \in Nat /\ \A t \in 1..Len(K[i]) : K[i][t] \in Positive
             /\ Left(left[i], i)
  <2>1. Dissolves(K[i], D[i])
    BY <1>0, FactorKDissolves
  <2> HIDE DEF K, n
  <2>2. \E l : Left(l, i)
    BY <2>1, SMTT(60) DEF Dissolves
  <2> HIDE DEF Left
  <2>3. Left(left[i], i)
    BY <2>2, SMTT(60)
  <2> HIDE DEF left
  <2> QED
    BY <2>1, <2>3 DEF Dissolves
<1>2. \E g : g = Factor(k, D) /\ g = turn[N].kvs
  <2>1. Factor(k, D) = turn[N].kvs
    BY Zenon DEF Factor
  <2> QED
    BY <2>1
<1>3. most \in Nat /\ \A d \in 1..n : Len(K[d]) <= most
  <2> DEFINE S == {Len(K[i]) : i \in 1..n}
             R == {x \in (1..n) \X (1..n) : Len(K[x[1]]) >= Len(K[x[2]])}
  <2> HIDE DEF n, K
  <2>1. PICK i \in 1..n : \A j \in (1..n) \ {i} : <<i, j>> \in R
    <3>1. \A i, j \in 1..n : i # j => <<i, j>> \in R \/ <<j, i>> \in R
      BY <1>1
    <3>2. \A i, j, l \in 1..n : <<i, j>> \in R /\ <<j, l>> \in R => <<i, l>> \in R
      BY <1>1
    <3> DEFINE I == 1..n
    <3>3. I # {} /\ n \in Nat /\ I \subseteq 1..n
      <4>1. n \in Nat /\ 1 \in 1..n
        BY <1>0
      <4> QED
        BY Zenon, <4>1
    <3>4. /\ \A i, j \in I : i # j => <<i, j>> \in R \/ <<j, i>> \in R
          /\ \A i, j, l \in I : <<i, j>> \in R /\ <<j, l>> \in R => <<i, l>> \in R
      BY <3>1, <3>2
    <3> HIDE DEF R, I
    <3>5. \E i \in I : \A j \in I \ {i} : <<i, j>> \in R
      BY <3>3, <3>4, Best
    <3> QED
      BY <3>5 DEF I
  <2>2. Len(K[i]) \in S /\ \A y \in S : Len(K[i]) >= y
    <3>1. ASSUME NEW j \in 1..n PROVE Len(K[i]) >= Len(K[j])
      <4>1. CASE j = i
        BY <1>1, <4>1
      <4>2. CASE j # i
        BY <2>1, <4>2
      <4> QED
        BY <4>1, <4>2
    <3> QED
      BY <3>1
  <2>3. Max(S) \in S /\ \A y \in S : Max(S) >= y
    BY <2>2, Zenon DEF Max
  <2> DEFINE m == Max(S)
  <2>4. m \in S /\ \A y \in S : m >= y
    BY <2>3
  <2> HIDE DEF m
  <2>5. m \in Nat /\ \A j \in 1..n : Len(K[j]) <= m
    <3>1. \A j \in 1..n : Len(K[j]) \in Nat /\ Len(K[j]) \in S
      BY <1>1
    <3>2. m \in Nat
      BY <1>1, <2>4
    <3> HIDE DEF S
    <3> QED
      BY <2>4, <3>1, <3>2
  <2> QED
    BY <2>5 DEF m, S
<1>4. N \in Nat
  <2> HIDE DEF most, n
  <2> QED
    BY <1>0, <1>3, Products
<1>5. ASSUME NEW s \in 1..N PROVE dim(s) \in 1..n
  <2>1. s - 1 \in Nat /\ n \in Nat \ {0}
    BY <1>0, <1>4
  <2> HIDE DEF n
  <2>2. (s - 1) % n \in 0..(n - 1)
    BY <2>1, NatDivision
  <2> QED
    BY <1>0, <2>2
<1> HIDE DEF K, most, dim, N, turn, left, n
<1>6. start \in A
  <2>1. ASSUME NEW d \in 1..n PROVE G(<<>>, d) = 1
    <3>1. BaseRounds([kvs |-> <<>>]) = 0
      BY DEF BaseRounds
    <3>2. Grouped([kvs |-> <<>>], 0, d) = 1
      BY <3>1, GroupedLoop
    <3> QED
      BY <3>2
  <2>2. start \in Laid(n)
    BY DEF Laid
  <2> HIDE DEF G
  <2>3. ASSUME NEW d \in 1..n
        PROVE  0 \in 0..Len(K[d]) /\ G(<<>>, d) * left[d][0] = D[d]
    <3>1. left[d][0] = D[d] /\ D[d] \in Positive
      BY <1>0, <1>1, SMTT(60)
    <3>2. 1 * D[d] = D[d]
      BY <3>1, SMTT(60) DEF Positive
    <3> QED
      BY <1>1, <2>1, <3>1, <3>2
  <2> QED
    BY <2>2, <2>3
<1>7. ASSUME NEW s \in 1..N, NEW a \in A PROVE next(s, a) \in A
  <2> DEFINE i == dim(s)
             t == a.round_per_dim[i] + 1
             e == [dim |-> i, size |-> K[i][t]]
             b == [kvs           |-> Append(a.kvs, e),
                   round_per_dim |-> [a.round_per_dim EXCEPT ![i] = t]]
  <2>1. CASE t > Len(K[i])
    BY <2>1
  <2>2. CASE ~(t > Len(K[i]))
    <3>1. /\ i \in 1..n /\ a.round_per_dim \in [1..n -> Nat] /\ a.round_per_dim[i] \in 0..Len(K[i])
          /\ a.kvs \in Seq([dim : 1..n, size : Positive]) /\ Len(K[i]) \in Nat
      BY <1>1, <1>5 DEF Laid
    <3>2. t \in 1..Len(K[i]) /\ t - 1 = a.round_per_dim[i] /\ t \in Nat
      <4> DEFINE v == a.round_per_dim[i]
                 w == Len(K[i])
      <4>1. v \in 0..w /\ w \in Nat /\ ~(v + 1 > w)
        BY <2>2, <3>1
      <4> HIDE DEF v, w
      <4>2. v + 1 \in 1..w /\ (v + 1) - 1 = v /\ v + 1 \in Nat
        BY <4>1
      <4> QED
        BY <4>2 DEF v, w
    <3>3. K[i][t] \in Positive
      BY <1>1, <3>1, <3>2
    <3>4. e \in [dim : 1..n, size : Positive]
      BY <3>1, <3>3
    <3>5. b \in Laid(n)
      <4> HIDE DEF e, t, i
      <4>1. Append(a.kvs, e) \in Seq([dim : 1..n, size : Positive])
        BY <3>1, <3>4
      <4>2. [a.round_per_dim EXCEPT ![i] = t] \in [1..n -> Nat]
        BY <3>1, <3>2
      <4> QED
        BY <4>1, <4>2 DEF Laid
    <3>6. ASSUME NEW d \in 1..n
          PROVE  G(b.kvs, d) = IF d = i THEN G(a.kvs, d) * K[i][t] ELSE G(a.kvs, d)
      <4> DEFINE part == [kvs |-> a.kvs]
                 more == [kvs |-> b.kvs]
                 L == Len(a.kvs)
      <4>1. /\ BaseRounds(part) = L /\ L \in Nat /\ BaseRounds(more) = L + 1 /\ more.kvs[L + 1] = e
            /\ \A r \in 1..L : more.kvs[r] = part.kvs[r] /\ part.kvs[r].size \in Positive
        <5>1. BaseRounds(part) = L /\ L \in Nat /\ \A r \in 1..L : a.kvs[r].size \in Positive
          <6>1. BaseRounds(part) = L
            BY DEF BaseRounds
          <6>2. L \in Nat /\ \A r \in 1..L : a.kvs[r] \in [dim : 1..n, size : Positive]
            <7> DEFINE S == [dim : 1..n, size : Positive]
                       x == a.kvs
            <7>1. x \in Seq(S)
              BY <3>1
            <7> HIDE DEF S, x
            <7>2. Len(x) \in Nat /\ \A r \in 1..Len(x) : x[r] \in S
              BY <7>1
            <7> QED
              BY <7>2 DEF S, x
          <6> HIDE DEF part, L
          <6> QED
            BY <6>1, <6>2
        <5>2. /\ Len(Append(a.kvs, e)) = L + 1 /\ Append(a.kvs, e)[L + 1] = e
              /\ \A r \in 1..L : Append(a.kvs, e)[r] = a.kvs[r]
          <6> HIDE DEF e
          <6> QED
            BY <3>1, <3>4, AppendProperties
        <5> HIDE DEF e, L
        <5> QED
          BY <5>1, <5>2 DEF BaseRounds
      <4>2. e.size \in Positive /\ e.size = K[i][t] /\ e.dim = i
        BY <3>3
      <4> HIDE DEF part, more, e, L
      <4>3. /\ e.dim = d => Grouped(more, BaseRounds(more), d) = Grouped(part, BaseRounds(part), d) * e.size
            /\ e.dim # d => Grouped(more, BaseRounds(more), d) = Grouped(part, BaseRounds(part), d)
        <5>1. /\ BaseRounds(part) \in Nat /\ BaseRounds(more) = BaseRounds(part) + 1
              /\ more.kvs[BaseRounds(part) + 1] = e /\ e.size \in Positive
              /\ \A r \in 1..BaseRounds(part) : part.kvs[r].size \in Positive
              /\ \A r \in 1..BaseRounds(part) : more.kvs[r] = part.kvs[r]
          BY <4>1, <4>2
        <5> HIDE DEF b, G
        <5> QED
          BY <5>1, GroupedAppend
      <4>4. BaseRounds(more) = Len(b.kvs) /\ BaseRounds(part) = Len(a.kvs)
        BY DEF BaseRounds, more, part
      <4> QED
        BY <4>2, <4>3, <4>4 DEF more, part
    <3>7. ASSUME NEW d \in 1..n
          PROVE  /\ b.round_per_dim[d] \in 0..Len(K[d])
                 /\ G(b.kvs, d) * left[d][b.round_per_dim[d]] = D[d]
      <4>1. CASE d # i
        <5>1. b.round_per_dim[d] = a.round_per_dim[d]
          BY <3>1, <4>1
        <5>2. G(b.kvs, d) = G(a.kvs, d)
          BY <3>6, <4>1
        <5> HIDE DEF b, G
        <5> QED
          BY <5>1, <5>2
      <4>2. CASE d = i
        <5>1. b.round_per_dim[d] = t /\ a.round_per_dim[d] = t - 1
          BY <3>1, <3>2, <4>2
        <5>2. G(b.kvs, d) = G(a.kvs, d) * K[d][t] /\ G(a.kvs, d) * left[d][t - 1] = D[d]
          BY <3>6, <4>2, <5>1
        <5>3. left[d][t - 1] = left[d][t] * K[d][t] /\ left[d][t] \in Positive /\ K[d][t] \in Positive
          <6>1. /\ left[d] \in [0..Len(K[d]) -> Positive] /\ Len(K[d]) \in Nat
                /\ \A r \in 1..Len(K[d]) : left[d][r - 1] = left[d][r] * K[d][r] /\ K[d][r] \in Positive
            BY <1>1
          <6>2. t \in 1..Len(K[d])
            BY <3>2, <4>2
          <6> HIDE DEF t
          <6>3. t \in 0..Len(K[d])
            BY <6>1, <6>2
          <6> QED
            BY <6>1, <6>2, <6>3
        <5>4. G(a.kvs, d) \in Positive
          <6> DEFINE part == [kvs |-> a.kvs]
          <6>1. BaseRounds(part) \in Nat /\ BaseRounds(part) = Len(a.kvs)
                /\ \A r \in 1..BaseRounds(part) : part.kvs[r].size \in Positive
            <7>1. BaseRounds(part) = Len(a.kvs) /\ part.kvs = a.kvs
              BY DEF BaseRounds
            <7>2. Len(a.kvs) \in Nat /\ \A r \in 1..Len(a.kvs) : a.kvs[r] \in [dim : 1..n, size : Positive]
              <8> DEFINE S == [dim : 1..n, size : Positive]
                         x == a.kvs
              <8>1. x \in Seq(S)
                BY <3>1
              <8> HIDE DEF S, x
              <8>2. Len(x) \in Nat /\ \A r \in 1..Len(x) : x[r] \in S
                BY <8>1
              <8> QED
                BY <8>2 DEF S, x
            <7> HIDE DEF part
            <7> QED
              BY <7>1, <7>2
          <6> HIDE DEF part
          <6>2. BaseRounds(part) \in 0..BaseRounds(part)
            BY <6>1
          <6>3. Grouped(part, BaseRounds(part), d) \in Positive
            BY <6>1, <6>2, GroupedLoop
          <6> QED
            BY <6>1, <6>3 DEF part
        <5> HIDE DEF b, G, t, i
        <5>5. (G(a.kvs, d) * K[d][t]) * left[d][t] = G(a.kvs, d) * (left[d][t] * K[d][t])
          <6> DEFINE x == G(a.kvs, d)
                     y == K[d][t]
                     z == left[d][t]
          <6>1. x \in Positive /\ y \in Positive /\ z \in Positive
            BY <5>3, <5>4
          <6> HIDE DEF x, y, z
          <6>2. (x * y) * z = x * (y * z) /\ y * z = z * y
            BY <6>1, PositiveTimes
          <6>3. (x * y) * z = x * (z * y)
            BY <6>2
          <6> QED
            BY <6>3 DEF x, y, z
        <5> QED
          BY <3>2, <4>2, <5>1, <5>2, <5>3, <5>5
      <4> QED
        BY <4>1, <4>2
    <3>8. next(s, a) = b
      BY <2>2
    <3> HIDE DEF b, G
    <3> QED
      BY <3>5, <3>7, <3>8
  <2> QED
    BY <2>1, <2>2
<1> HIDE DEF start, next, A
<1>8. \E g : Eq(g)
  <2> DEFINE F == [s \in 1..N |-> [a \in A |-> next(s, a)]]
  <2>1. F \in Turns(N, A)
    BY <1>7 DEF Turns
  <2>2. PICK g : g \in [0..N -> A] /\ g[0] = start /\ \A s \in 1..N : g[s] = F[s][g[s - 1]]
    <3> HIDE DEF F
    <3>1. \E g : Runs(g, N, A, start, F)
      BY <1>4, <1>6, <2>1, Iteration
    <3> QED
      BY <3>1 DEF Runs
  <2>3. ASSUME NEW s \in 1..N PROVE g[s] = next(s, g[s - 1])
    <3>1. s - 1 \in 0..N
      BY <1>4
    <3>2. g[s - 1] \in A
      BY <2>2, <3>1
    <3> QED
      BY <2>2, <3>2
  <2>4. Eq(g)
    <3>1. \A s \in 0..N : s # 0 => s \in 1..N
      BY <1>4
    <3>2. DOMAIN g = 0..N
      BY <2>2
    <3> QED
      BY <2>2, <2>3, <3>1, <3>2
  <2> QED
    BY <2>4
<1>9. Eq(turn)
  <2> HIDE DEF Eq
  <2> QED
    BY <1>8 DEF turn
<1>10. \A s \in 0..N : turn[s] \in A
  <2> DEFINE P == {s \in 0..N : turn[s] \in A}
  <2>1. 0 \in P
    <3>1. 0 \in 0..N
      BY <1>4
    <3> QED
      BY <1>6, <1>9, <3>1
  <2>2. ASSUME NEW s \in 0..(N - 1), s \in P PROVE s + 1 \in P
    <3>1. s + 1 \in 1..N /\ s + 1 \in 0..N /\ (s + 1) - 1 = s /\ s + 1 # 0
      BY <1>4
    <3>2. turn[s + 1] = next(s + 1, turn[s])
      BY <1>9, <3>1
    <3> QED
      BY <1>7, <2>2, <3>1, <3>2
  <2> HIDE DEF P
  <2>3. 0..N \subseteq P
    BY <1>4, <2>1, <2>2, InductionTo
  <2> QED
    BY <2>3 DEF P
<1>11. turn[N] \in A
  <2>1. N \in 0..N
    BY <1>4
  <2> QED
    BY <1>10, <2>1
<1>14. ASSUME NEW d \in 1..n PROVE turn[N].round_per_dim[d] = Len(K[d])
  <2> DEFINE rpd(s) == turn[s].round_per_dim[d]
             P == {s \in 0..N : rpd(s) = Len(K[d]) \/ rpd(s) * n + d > s}
  <2>1. ASSUME NEW s \in 0..N PROVE rpd(s) \in 0..Len(K[d]) /\ rpd(s) \in Nat
    <3>1. turn[s].round_per_dim[d] \in 0..Len(K[d])
      BY <1>10 DEF A
    <3> QED
      BY <1>1, <3>1
  <2>2. 0 \in P
    <3>1. turn[0] = start
      <4>1. 0 \in 0..N
        BY <1>4
      <4> QED
        BY <1>9, <4>1
    <3>2. rpd(0) = 0 /\ 0 * n + d > 0 /\ 0 \in 0..N
      BY <1>0, <1>4, <3>1 DEF start
    <3> HIDE DEF rpd
    <3> QED
      BY <3>2
  <2>3. ASSUME NEW s \in 0..(N - 1), s \in P PROVE s + 1 \in P
    <3> DEFINE i == dim(s + 1)
               t == turn[s].round_per_dim[i] + 1
    <3>1. s + 1 \in 1..N /\ s + 1 \in 0..N /\ (s + 1) - 1 = s /\ s + 1 # 0 /\ s \in 0..N
      BY <1>4
    <3>2. turn[s + 1] = next(s + 1, turn[s])
      BY <1>9, <3>1
    <3>3. rpd(s + 1) \in 0..Len(K[d]) /\ rpd(s) \in 0..Len(K[d]) /\ rpd(s) \in Nat /\ rpd(s + 1) \in Nat
      BY <2>1, <3>1
    <3>4. rpd(s + 1) = IF i = d /\ ~(t > Len(K[i])) THEN rpd(s) + 1 ELSE rpd(s)
      <4>1. turn[s].round_per_dim \in [1..n -> Nat]
        BY <1>10, <3>1 DEF A, Laid
      <4>2. turn[s + 1].round_per_dim = IF t > Len(K[i]) THEN turn[s].round_per_dim
                                        ELSE [turn[s].round_per_dim EXCEPT ![i] = t]
        <5> HIDE DEF i, rpd
        <5> QED
          BY <3>2 DEF next, i
      <4> HIDE DEF i
      <4> QED
        BY <4>1, <4>2
    <3>5. i = ((s + 1 - 1) % n) + 1 /\ s + 1 \in Nat \ {0} /\ n \in Nat \ {0}
      BY <1>0, <3>1 DEF dim
    <3>6. CASE rpd(s) = Len(K[d])
      <4>1. i = d => t > Len(K[i])
        BY <1>1, <3>6
      <4> HIDE DEF rpd, i, t
      <4> QED
        BY <3>1, <3>4, <3>6, <4>1
    <3>7. CASE rpd(s) # Len(K[d])
      <4>1. i = d => ~(t > Len(K[i]))
        <5> DEFINE v == rpd(s)
                   w == Len(K[d])
        <5>1. v \in 0..w /\ w \in Nat /\ v # w
          BY <1>1, <3>3, <3>7
        <5>2. ASSUME i = d PROVE t = v + 1 /\ Len(K[i]) = w
          BY <5>2
        <5> HIDE DEF v, w, t, i
        <5>3. ~(v + 1 > w)
          BY <5>1
        <5> QED
          BY <5>2, <5>3
      <4> DEFINE r == rpd(s)
      <4>2. r \in Nat /\ r * n + d > s /\ (s + 1) - 1 = s
        BY <2>3, <3>1, <3>3, <3>7
      <4> HIDE DEF i, t
      <4>3. rpd(s + 1) = IF i = d THEN r + 1 ELSE r
        <5> HIDE DEF rpd
        <5> QED
          BY <3>4, <4>1
      <4> HIDE DEF rpd, r
      <4>4. (i # d => r * n + d > s + 1) /\ (r + 1) * n + d > s + 1
        <5> DEFINE v == s + 1
        <5>1. v \in Nat \ {0} /\ i = ((v - 1) % n) + 1 /\ v - 1 = s
          BY <3>5, <4>2
        <5> HIDE DEF v
        <5>2. n \in Nat \ {0} /\ r \in Nat /\ d \in 1..n /\ r * n + d > v - 1
          BY <1>0, <4>2, <5>1
        <5>3. (((v - 1) % n) + 1 # d => r * n + d > v) /\ (r + 1) * n + d > v
          BY <5>1, <5>2, TurnsTaken
        <5> QED
          BY <5>1, <5>3 DEF v
      <4> QED
        BY <3>1, <4>3, <4>4
    <3> QED
      BY <3>6, <3>7
  <2> HIDE DEF P
  <2>4. 0..N \subseteq P
    BY <1>4, <2>2, <2>3, InductionTo
  <2>5. N \in P /\ N \in 0..N
    BY <1>4, <2>4
  <2>6. rpd(N) \in 0..Len(K[d]) /\ rpd(N) \in Nat /\ Len(K[d]) \in Nat /\ Len(K[d]) <= most
    BY <1>1, <1>3, <2>1, <2>5
  <2>7. ASSUME rpd(N) # Len(K[d]) PROVE FALSE
    <3> DEFINE r == rpd(N)
               w == Len(K[d])
    <3>1. r \in Nat /\ r + 1 <= most /\ r * n + d > N
      <4>1. r \in 0..w /\ w \in Nat /\ w <= most /\ r # w /\ r \in Nat
        BY <2>6, <2>7
      <4>2. r * n + d > N
        BY <2>5, <2>7 DEF P
      <4> HIDE DEF r, w
      <4> QED
        BY <1>3, <4>1, <4>2
    <3> HIDE DEF r
    <3>2. n * (r + 1) <= n * most
      BY <1>0, <1>3, <3>1, TimesMonotone
    <3>3. N = n * most /\ n * (r + 1) = r * n + n
      BY <1>0, <1>3, <3>1, Products, SMT DEF N
    <3> DEFINE u == r * n
    <3>4. u \in Nat /\ N \in Nat
      BY <1>0, <1>4, <3>1, Products
    <3>5. u + n <= N /\ u + d > N
      BY <3>1, <3>2, <3>3
    <3> HIDE DEF u
    <3> QED
      BY <1>0, <1>4, <3>4, <3>5
  <2> QED
    BY <2>7
<1> DEFINE a == turn[N]
<1>12. /\ Factor(k, D) = a.kvs /\ a.kvs \in Seq([dim : 1..n, size : Positive])
       /\ \A d \in 1..n : /\ a.round_per_dim[d] \in 0..Len(K[d])
                          /\ G(a.kvs, d) * left[d][a.round_per_dim[d]] = D[d]
  <2> HIDE DEF a, G
  <2> QED
    BY <1>2, <1>11 DEF A, Laid, a
<1>13. ASSUME NEW d \in 1..n PROVE G(a.kvs, d) = D[d]
  <2>1. a.round_per_dim[d] = Len(K[d])
    BY <1>14
  <2> HIDE DEF a
  <2>2. left[d][a.round_per_dim[d]] = 1 /\ G(a.kvs, d) * left[d][a.round_per_dim[d]] = D[d]
    <3> HIDE DEF G
    <3> QED
      BY <1>1, <1>12, <2>1
  <2>3. G(a.kvs, d) \in Positive
    <3> DEFINE S == [dim : 1..n, size : Positive]
               x == a.kvs
    <3>1. x \in Seq(S)
      BY <1>12
    <3>2. G(x, d) = Grouped([kvs |-> x], Len(x), d) /\ BaseRounds([kvs |-> x]) = Len(x)
      BY DEF BaseRounds
    <3> HIDE DEF S, x, G
    <3>3. Len(x) \in Nat /\ \A r \in 1..Len(x) : x[r] \in S
      BY <3>1
    <3> DEFINE part == [kvs |-> x]
    <3>4. /\ BaseRounds(part) = Len(x) /\ BaseRounds(part) \in 0..BaseRounds(part)
          /\ \A r \in 1..BaseRounds(part) : part.kvs[r].size \in Positive
      BY <3>2, <3>3 DEF S
    <3> HIDE DEF part
    <3>5. Grouped(part, BaseRounds(part), d) \in Positive
      BY <3>3, <3>4, GroupedLoop
    <3> QED
      BY <3>2, <3>4, <3>5 DEF part, x
  <2> DEFINE z == G(a.kvs, d)
  <2>4. z * 1 = D[d] /\ z \in Positive
    <3> HIDE DEF G
    <3> QED
      BY <2>2, <2>3
  <2> HIDE DEF G
  <2> QED
    BY <2>4, PositiveTimes
<1> QED
  BY <1>12, <1>13 DEF n

\* The rounds of partners fit their grid, whatever its divisions, and take it apart
\* (common.hpp:110, 154).
LEMMA NewPartnersFit ==
  ASSUME NEW kind, NEW D \in Seq(Positive), D # <<>>, NEW k \in Nat \ {0, 1}, NEW contiguous \in BOOLEAN
  PROVE  /\ GroupsFit(NewPartners(kind, D, k, contiguous))
         /\ GroupsFill(NewPartners(kind, D, k, contiguous))
<1> DEFINE part == NewPartners(kind, D, k, contiguous)
           F == Factor(k, D)
           S == [dim : 1..Len(D), size : Positive]
<1>1. part.divisions = D /\ part.contiguous = contiguous /\ part.kvs = F /\ BaseRounds(part) = Len(F)
  BY DEF NewPartners, BaseRounds
<1>2. F \in Seq(S) /\ \A d \in 1..Len(D) : Grouped([kvs |-> F], Len(F), d) = D[d] /\ D[d] \in Positive
  BY FactorLoop
<1> HIDE DEF part, F
<1>4. Len(F) \in Nat /\ \A r \in 1..Len(F) : F[r] \in S
  <2> HIDE DEF S
  <2> QED
    BY <1>2
<1>3. \A d : Grouped(part, Len(F), d) = Grouped([kvs |-> F], Len(F), d)
  <2> DEFINE more == [kvs |-> F]
             n == Len(F)
  <2>1. BaseRounds(more) = n /\ more.kvs = F
    BY DEF BaseRounds
  <2>2. n \in Nat /\ n \in 0..n /\ \A r \in 1..n : F[r].size \in Positive
    BY <1>4
  <2> HIDE DEF more, n
  <2> TAKE d
  <2>3. /\ Grouped(more, 0, d) = 1
        /\ \A r \in 0..(n - 1) : Grouped(more, r + 1, d) = IF F[r + 1].dim = d THEN Grouped(more, r, d) * F[r + 1].size
                                                           ELSE Grouped(more, r, d)
    <3>1. BaseRounds(more) \in Nat /\ \A r \in 1..BaseRounds(more) : more.kvs[r].size \in Positive
      BY <2>1, <2>2
    <3> QED
      BY <2>1, <3>1, GroupedLoop
  <2>4. /\ Grouped(part, 0, d) = 1
        /\ \A r \in 0..(n - 1) : Grouped(part, r + 1, d) = IF F[r + 1].dim = d THEN Grouped(part, r, d) * F[r + 1].size
                                                           ELSE Grouped(part, r, d)
    <3>1. BaseRounds(part) = n /\ BaseRounds(part) \in Nat /\ part.kvs = F
          /\ \A r \in 1..BaseRounds(part) : part.kvs[r].size \in Positive
      BY <1>1, <2>2 DEF n
    <3> QED
      BY <3>1, GroupedLoop
  <2> DEFINE P == {r \in 0..n : Grouped(part, r, d) = Grouped(more, r, d)}
  <2>5. 0 \in P
    BY <2>2, <2>3, <2>4
  <2>6. ASSUME NEW r \in 0..(n - 1), r \in P PROVE r + 1 \in P
    BY <2>2, <2>3, <2>4, <2>6
  <2> HIDE DEF P
  <2>7. 0..n \subseteq P
    BY <2>2, <2>5, <2>6, InductionTo
  <2>8. Grouped(part, n, d) = Grouped(more, n, d)
    BY <2>2, <2>7 DEF P
  <2> QED
    BY <2>8 DEF more, n
<1>5. Dims(D) = 1..Len(D)
  BY DEF Dims
<1>6. \A r \in 1..Len(F) : F[r].size \in Positive /\ F[r].dim \in 1..Len(D)
  BY <1>4
<1>7. /\ part.divisions \in Seq(Positive) /\ BaseRounds(part) \in Nat /\ part.contiguous \in BOOLEAN
      /\ \A r \in 1..BaseRounds(part) : /\ part.kvs[r].size \in Positive
                                        /\ part.kvs[r].dim \in Dims(part.divisions)
      /\ \A d \in Dims(part.divisions) : Divides(Grouped(part, BaseRounds(part), d), part.divisions[d])
  <2>1. ASSUME NEW d \in Dims(D) PROVE Divides(Grouped(part, Len(F), d), D[d])
    <3>1. Grouped(part, Len(F), d) = D[d] /\ D[d] \in Positive
      BY <1>2, <1>3, <1>5
    <3> QED
      BY <3>1, DividesChain
  <2> QED
    BY <1>1, <1>4, <1>5, <1>6, <2>1
<1>8. GroupsFit(part)
  BY <1>7, FactorsFit
<1>9. GroupsFill(part)
  BY <1>1, <1>2, <1>3, <1>5, <1>7 DEF GroupsFill
<1> QED
  BY <1>8, <1>9 DEF part

-----------------------------------------------------------------------------
(***************************************************************************)
(* The divisions.                                                          *)
(***************************************************************************)
LEMMA ProductTimes ==
  ASSUME NEW n \in Nat, NEW x \in [1..n -> Positive], NEW y \in [1..n -> Positive],
         NEW z \in [1..n -> Positive], \A i \in 1..n : z[i] = x[i] * y[i]
  PROVE  Product(z) = Product(x) * Product(y) /\ Product(x) \in Positive
<1>1. x \in Seq(Nat \ {0}) /\ y \in Seq(Nat \ {0}) /\ z \in Seq(Nat \ {0}) /\ Len(x) = n /\ Len(y) = n /\ Len(z) = n
  BY DEF Positive
<1>2. PICK f \in [0..n -> Nat \ {0}] :
        f[0] = 1 /\ (\A i \in 1..n : f[i] = f[i - 1] * x[i]) /\ Product(x) = f[n]
  BY <1>1, ProductPositive
<1>3. PICK g \in [0..n -> Nat \ {0}] :
        g[0] = 1 /\ (\A i \in 1..n : g[i] = g[i - 1] * y[i]) /\ Product(y) = g[n]
  BY <1>1, ProductPositive
<1>4. PICK h \in [0..n -> Nat \ {0}] :
        h[0] = 1 /\ (\A i \in 1..n : h[i] = h[i - 1] * z[i]) /\ Product(z) = h[n]
  BY <1>1, ProductPositive
<1> DEFINE P == {i \in 0..n : h[i] = f[i] * g[i]}
<1>5. 0 \in P
  BY <1>2, <1>3, <1>4
<1>6. ASSUME NEW i \in 0..(n - 1), i \in P PROVE i + 1 \in P
  <2>1. i + 1 \in 1..n /\ (i + 1) - 1 = i /\ i \in 0..n /\ i + 1 \in 0..n
    OBVIOUS
  <2> DEFINE a == f[i]
             b == x[i + 1]
             c == g[i]
             d == y[i + 1]
  <2>2. f[i + 1] = a * b /\ g[i + 1] = c * d /\ h[i + 1] = (a * c) * (b * d)
    BY <1>2, <1>3, <1>4, <1>6, <2>1
  <2>3. a \in Positive /\ b \in Positive /\ c \in Positive /\ d \in Positive
    BY <2>1 DEF Positive
  <2> HIDE DEF a, b, c, d
  <2>4. (a * c) * (b * d) = (a * b) * (c * d)
    <3>1. a * c \in Positive /\ c * a \in Positive /\ c * d \in Positive /\ b * d \in Positive
      BY <2>3, PositiveTimes
    <3>2. (a * c) * (b * d) = ((a * c) * b) * d
      BY <2>3, <3>1, PositiveTimes
    <3>3. (a * c) * b = a * (c * b) /\ c * b = b * c /\ a * (b * c) = (a * b) * c
      BY <2>3, PositiveTimes
    <3>4. ((a * b) * c) * d = (a * b) * (c * d)
      <4>1. a * b \in Positive
        BY <2>3, PositiveTimes
      <4> QED
        BY <2>3, <4>1, PositiveTimes
    <3> QED
      BY <3>2, <3>3, <3>4
  <2> QED
    BY <2>1, <2>2, <2>4
<1> HIDE DEF P
<1>7. 0..n \subseteq P
  BY <1>5, <1>6, InductionTo
<1>8. n \in 0..n
  OBVIOUS
<1>9. h[n] = f[n] * g[n]
  BY <1>7, <1>8 DEF P
<1> QED
  BY <1>2, <1>3, <1>4, <1>8, <1>9 DEF Positive

\* The product of numbers all of which are 1, but perhaps that at j.
LEMMA ProductOfOne ==
  ASSUME NEW n \in Nat, NEW x \in [1..n -> Positive], NEW j \in 1..n, \A i \in 1..n \ {j} : x[i] = 1
  PROVE  Product(x) = x[j]
<1>1. x \in Seq(Nat \ {0}) /\ Len(x) = n
  BY DEF Positive
<1>2. PICK f \in [0..n -> Nat \ {0}] :
        f[0] = 1 /\ (\A i \in 1..n : f[i] = f[i - 1] * x[i]) /\ Product(x) = f[n]
  BY <1>1, ProductPositive
<1> DEFINE P == {i \in 0..n : f[i] = IF i < j THEN 1 ELSE x[j]}
<1>3. 0 \in P
  BY <1>2
<1>4. ASSUME NEW i \in 0..(n - 1), i \in P PROVE i + 1 \in P
  <2>1. i + 1 \in 1..n /\ (i + 1) - 1 = i /\ i + 1 \in 0..n /\ x[i + 1] \in Positive /\ x[j] \in Positive
    OBVIOUS
  <2>2. f[i + 1] = f[i] * x[i + 1]
    BY <1>2, <2>1
  <2>3. x[i + 1] \in Nat /\ x[j] \in Nat
    BY <2>1 DEF Positive
  <2>4. CASE i + 1 < j
    <3>1. f[i] = 1 /\ x[i + 1] = 1
      BY <1>4, <2>1, <2>4
    <3> QED
      BY <2>1, <2>2, <2>4, <3>1
  <2>5. CASE i + 1 = j
    <3>1. f[i] = 1 /\ 1 * x[j] = x[j]
      BY <1>4, <2>3, <2>5
    <3> QED
      BY <2>1, <2>2, <2>5, <3>1
  <2>6. CASE i + 1 > j
    <3>1. f[i] = x[j] /\ x[i + 1] = 1 /\ x[j] * 1 = x[j]
      BY <1>4, <2>1, <2>3, <2>6
    <3> QED
      BY <2>1, <2>2, <2>6, <3>1
  <2> QED
    BY <2>1, <2>4, <2>5, <2>6
<1> HIDE DEF P
<1>5. 0..n \subseteq P
  BY <1>3, <1>4, InductionTo
<1>6. n \in 0..n /\ ~(n < j)
  OBVIOUS
<1> QED
  BY <1>2, <1>5, <1>6 DEF P

LEMMA ProductOfOnes ==
  ASSUME NEW n \in Nat, NEW x \in [1..n -> Positive], \A i \in 1..n : x[i] = 1
  PROVE  Product(x) = 1
<1>1. CASE n = 0
  <2>1. x \in Seq(Nat \ {0}) /\ Len(x) = 0
    BY <1>1 DEF Positive
  <2> QED
    BY <2>1, ProductPositive
<1>2. CASE n # 0
  <2>1. 1 \in 1..n
    BY <1>2
  <2> QED
    BY <2>1, ProductOfOne
<1> QED
  BY <1>1, <1>2

\* The state of the loop of fill_divisions: the blocks so far along each free dimension.
Free(dec) == {i \in Dims(dec.divisions) : dec.divisions[i] = 0}
Missing(dec) == [i \in Free(dec) |-> [nb |-> 1, b_size |-> dec.max[i] - dec.min[i]]]
Splits(dec) == [Free(dec) -> [nb : Positive, b_size : Int]]

\* The parameters of a decomposer.
IsDecomposer(dec) ==
  /\ dec.divisions \in Seq(Nat) /\ dec.divisions # <<>>
  /\ dec.min \in [Dims(dec.divisions) -> Int] /\ dec.max \in [Dims(dec.divisions) -> Int]

\* There is always a dimension to split.
LEMMA WidestIsFree ==
  ASSUME NEW dec, IsDecomposer(dec), Free(dec) # {}, NEW m \in Splits(dec)
  PROVE  Widest(m) \in Free(dec)
<1> DEFINE S == Free(dec)
           before(i, j) == \/ m[i].b_size > m[j].b_size
                           \/ /\ m[i].b_size = m[j].b_size
                              /\ m[i].nb < m[j].nb \/ (m[i].nb = m[j].nb /\ i < j)
           R == {x \in S \X S : before(x[1], x[2])}
           n == Len(dec.divisions)
<1>1. n \in Nat /\ S \subseteq 1..n /\ S # {} /\ DOMAIN m = S
  BY DEF IsDecomposer, Free, Dims, Splits
<1>2. \A i \in S : m[i].b_size \in Int /\ m[i].nb \in Nat /\ i \in Int
  BY <1>1 DEF Splits, Positive
<1>3. \A i, j \in S : <<i, j>> \in R <=> before(i, j)
  OBVIOUS
<1> HIDE DEF S, n
<1>4. \A i, j \in S : i # j => <<i, j>> \in R \/ <<j, i>> \in R
  BY <1>2, <1>3
<1>5. \A i, j, l \in S : <<i, j>> \in R /\ <<j, l>> \in R => <<i, l>> \in R
  <2> SUFFICES ASSUME NEW i \in S, NEW j \in S, NEW l \in S, before(i, j), before(j, l) PROVE before(i, l)
    BY <1>3
  <2> DEFINE bi == m[i].b_size
             bj == m[j].b_size
             bl == m[l].b_size
             ni == m[i].nb
             nj == m[j].nb
             nl == m[l].nb
  <2>1. /\ bi \in Int /\ bj \in Int /\ bl \in Int /\ ni \in Nat /\ nj \in Nat /\ nl \in Nat
        /\ i \in Int /\ j \in Int /\ l \in Int
    BY <1>2
  <2>2. /\ bi > bj \/ (bi = bj /\ (ni < nj \/ (ni = nj /\ i < j)))
        /\ bj > bl \/ (bj = bl /\ (nj < nl \/ (nj = nl /\ j < l)))
    OBVIOUS
  <2>3. bi > bl \/ (bi = bl /\ (ni < nl \/ (ni = nl /\ i < l)))
    <3> HIDE DEF bi, bj, bl, ni, nj, nl, before
    <3> QED
      BY <2>1, <2>2
  <2> QED
    BY <2>3
<1> HIDE DEF R
<1>6. PICK i \in S : \A j \in S \ {i} : <<i, j>> \in R
  <2>1. n \in Nat /\ S \subseteq 1..n /\ S # {}
    BY <1>1
  <2> QED
    BY Zenon, <1>4, <1>5, <2>1, Best
<1>7. \E x \in DOMAIN m : \A j \in DOMAIN m \ {x} : before(x, j)
  <2>1. \A j \in S \ {i} : before(i, j)
    BY <1>3, <1>6
  <2> HIDE DEF before
  <2> QED
    BY <1>1, <2>1
<1>8. Widest(m) \in DOMAIN m
  BY <1>7 DEF Widest
<1> QED
  BY <1>1, <1>8 DEF S

\* What one turn of the loop does: n blocks along a dimension, the size of the first
\* of them, and the dimensions after that.
BlockSize(dec, i, n) ==
  to(0, n, dec.min[i], dec.max[i], dec.share_face[i]) - from(0, n, dec.min[i], dec.max[i])
More(m, f) == m[Widest(m)].nb * f
After(dec, m, f) ==
  [m EXCEPT ![Widest(m)] = [nb |-> More(m, f), b_size |-> BlockSize(dec, Widest(m), More(m, f))]]

LEMMA SplitTurn ==
  ASSUME NEW dec, IsDecomposer(dec), Free(dec) # {}, NEW m \in Splits(dec), NEW f \in Positive
  PROVE  /\ Widest(m) \in Free(dec) /\ More(m, f) \in Positive
         /\ BlockSize(dec, Widest(m), More(m, f)) \in Int
         /\ BlockSize(dec, Widest(m), More(m, f)) < 0 => Split(dec, m, f) = Throws
         /\ ~(BlockSize(dec, Widest(m), More(m, f)) < 0) => Split(dec, m, f) = After(dec, m, f)
         /\ After(dec, m, f) \in Splits(dec)
<1> DEFINE i == Widest(m)
           n == m[i].nb * f
           lo == dec.min[i]
           hi == dec.max[i]
           s == dec.share_face[i]
           b == to(0, n, lo, hi, s) - from(0, n, lo, hi)
           e == [nb |-> n, b_size |-> b]
<1>1. i \in Free(dec)
  BY WidestIsFree
<1>2. Split(dec, m, f) = IF b < 0 THEN Throws ELSE [m EXCEPT ![i] = e]
  BY DEF Split
<1> HIDE DEF i
<1>3. n \in Positive
  <2>1. m[i].nb \in Positive
    BY <1>1 DEF Splits
  <2> QED
    BY <2>1, PositiveTimes
<1>4. lo \in Int /\ hi \in Int
  BY <1>1 DEF IsDecomposer, Free
<1> HIDE DEF n, lo, hi, s
<1>5. b \in Int
  <2>1. n \in Nat \ {0} /\ hi - lo + 1 \in Int
    BY <1>3, <1>4 DEF Positive
  <2>2. width(n, lo, hi) \in Int
    BY <2>1, Division DEF width
  <2> DEFINE w == width(n, lo, hi)
  <2> HIDE DEF w
  <2>3. w * 0 \in Int /\ w * (0 + 1) \in Int
    BY <2>2 DEF w
  <2>4. from(0, n, lo, hi) \in Int /\ from(0 + 1, n, lo, hi) \in Int
    BY <1>4, <2>3 DEF from, w
  <2>5. to(0, n, lo, hi, s) \in Int
    BY <1>4, <2>4 DEF to
  <2> QED
    BY <2>4, <2>5
<1> HIDE DEF b
<1>6. e \in [nb : Positive, b_size : Int]
  BY <1>3, <1>5
<1> HIDE DEF e
<1>7. [m EXCEPT ![i] = e] \in Splits(dec)
  BY <1>1, <1>6 DEF Splits
<1> QED
  <2>1. b = BlockSize(dec, i, n)
    BY DEF BlockSize, b, lo, hi, s
  <2>2. n = More(m, f) /\ i = Widest(m)
    BY DEF More, n, i
  <2>3. e = [nb |-> n, b_size |-> b]
    BY DEF e
  <2>4. [m EXCEPT ![i] = e] = After(dec, m, f)
    BY <2>1, <2>2, <2>3 DEF After
  <2> QED
    BY <1>1, <1>2, <1>3, <1>5, <1>7, <2>1, <2>2, <2>4

\* The loop of fill_divisions, which splits by the last factor first.
SplitRun(dec, F, split) ==
  /\ split[0] = Missing(dec)
  /\ \A j \in 1..Len(F) : split[j] = IF split[j - 1] = Throws THEN Throws
                                     ELSE Split(dec, split[j - 1], F[Len(F) - j + 1])
  /\ \A j \in 0..Len(F) : split[j] \in Splits(dec) \cup {Throws}

LEMMA SplitLoop ==
  ASSUME NEW dec, IsDecomposer(dec), Free(dec) # {}, NEW nblocks, nblocks % Given(dec.divisions) = 0,
         NEW x, x = nblocks \div Given(dec.divisions), Dissolves(factor(x), x)
  PROVE  \E split :
           /\ SplitRun(dec, factor(x), split)
           /\ fill_divisions(dec, nblocks)
                = IF split[Len(factor(x))] = Throws THEN Throws
                  ELSE [i \in Dims(dec.divisions) |-> IF i \in Free(dec) THEN split[Len(factor(x))][i].nb
                                                      ELSE dec.divisions[i]]
<1> DEFINE F == factor(x)
           n == Len(F)
           A == Splits(dec) \cup {Throws}
           next(j, last) == IF last = Throws THEN Throws ELSE Split(dec, last, F[n - j + 1])
           Eq(g) == g = [j \in 0..n |-> IF j = 0 THEN Missing(dec)
                                        ELSE LET last == g[j - 1]
                                             IN  IF last = Throws THEN Throws
                                                 ELSE Split(dec, last, F[n - j + 1])]
           split == CHOOSE g : Eq(g)
           result == [i \in Dims(dec.divisions) |-> IF i \in Free(dec) THEN split[n][i].nb
                                                    ELSE dec.divisions[i]]
<1>0. n \in Nat /\ \A t \in 1..n : F[t] \in Positive
  BY DEF Dissolves
<1>1. fill_divisions(dec, nblocks) = IF split[n] = Throws THEN Throws ELSE result
  <2> DEFINE given == Given(dec.divisions)
             free == {i \in Dims(dec.divisions) : dec.divisions[i] = 0}
             missing == [i \in free |-> [nb |-> 1, b_size |-> dec.max[i] - dec.min[i]]]
             factors == factor(nblocks \div given)
             m == Len(factors)
             Loop(g) == g = [j \in 0..m |-> IF j = 0 THEN missing
                                            ELSE LET last == g[j - 1]
                                                 IN  IF last = Throws THEN Throws
                                                     ELSE Split(dec, last, factors[m - j + 1])]
             f == CHOOSE g : Loop(g)
  <2>1. fill_divisions(dec, nblocks)
          = IF nblocks % given # 0 THEN Throws
            ELSE IF free = {} THEN dec.divisions
            ELSE IF f[m] = Throws THEN Throws
            ELSE [i \in Dims(dec.divisions) |-> IF i \in free THEN f[m][i].nb ELSE dec.divisions[i]]
    BY Zenon DEF fill_divisions
  <2>2. free = Free(dec) /\ missing = Missing(dec) /\ factors = F /\ m = n
    BY DEF Free, Missing
  <2>3. f = split
    <3>1. \A g : Loop(g) <=> Eq(g)
      <4> HIDE DEF free, missing, factors, F
      <4> QED
        BY <2>2
    <3> HIDE DEF Loop, Eq
    <3> QED
      BY <3>1, Zenon
  <2> HIDE DEF f, split, factors, free, m, n, missing
  <2> QED
    BY <2>1, <2>2, <2>3
<1> HIDE DEF F, n
<1>2. Missing(dec) \in Splits(dec)
  <2>1. ASSUME NEW i \in Free(dec) PROVE 1 \in Positive /\ dec.max[i] - dec.min[i] \in Int
    BY DEF IsDecomposer, Free, Positive
  <2> QED
    BY <2>1 DEF Missing, Splits
<1>3. ASSUME NEW j \in 1..n, NEW a \in A PROVE next(j, a) \in A
  <2>1. CASE a = Throws
    BY <2>1
  <2>2. CASE a # Throws
    <3>1. a \in Splits(dec)
      BY <2>2
    <3>2. n - j + 1 \in 1..n
      BY <1>0
    <3>3. F[n - j + 1] \in Positive
      BY <1>0, <3>2
    <3>4. Split(dec, a, F[n - j + 1]) \in A
      <4> DEFINE f == F[n - j + 1]
      <4>1. f \in Positive
        BY <3>3
      <4> HIDE DEF f
      <4>2. Split(dec, a, f) = Throws \/ (Split(dec, a, f) = After(dec, a, f) /\ After(dec, a, f) \in Splits(dec))
        BY <3>1, <4>1, SplitTurn
      <4> QED
        BY <4>2 DEF f
    <3> QED
      BY <2>2, <3>4
  <2> QED
    BY <2>1, <2>2
<1>4. \E g : Eq(g)
  <2> DEFINE L == [j \in 1..n |-> [a \in A |-> next(j, a)]]
  <2>1. L \in Turns(n, A)
    BY <1>3 DEF Turns
  <2>2. PICK g : g \in [0..n -> A] /\ g[0] = Missing(dec) /\ \A j \in 1..n : g[j] = L[j][g[j - 1]]
    <3> HIDE DEF L
    <3>0. Missing(dec) \in A
      BY <1>2
    <3> HIDE DEF A
    <3>1. \E g : Runs(g, n, A, Missing(dec), L)
      BY <1>0, <2>1, <3>0, Iteration
    <3> QED
      BY <3>1 DEF Runs
  <2>3. ASSUME NEW j \in 1..n PROVE g[j] = next(j, g[j - 1])
    <3>1. j - 1 \in 0..n
      BY <1>0
    <3> HIDE DEF A, next
    <3>2. g[j - 1] \in A
      BY <2>2, <3>1
    <3> QED
      BY <2>2, <3>2
  <2>4. Eq(g)
    <3>1. \A j \in 0..n : j # 0 => j \in 1..n
      BY <1>0
    <3>2. DOMAIN g = 0..n
      BY <2>2
    <3> HIDE DEF A
    <3> QED
      BY <2>2, <2>3, <3>1, <3>2
  <2> QED
    BY <2>4
<1>5. Eq(split)
  <2> HIDE DEF Eq
  <2> QED
    BY <1>4
<1> HIDE DEF split
<1>6. split[0] = Missing(dec) /\ \A j \in 1..n : split[j] = next(j, split[j - 1])
  <2>1. 0 \in 0..n /\ \A j \in 1..n : j \in 0..n /\ j # 0
    BY <1>0
  <2> QED
    BY <1>5, <2>1
<1>7. \A j \in 0..n : split[j] \in A
  <2> DEFINE P == {j \in 0..n : split[j] \in A}
  <2>1. 0 \in P
    <3>1. 0 \in 0..n
      BY <1>0
    <3> QED
      BY <1>2, <1>6, <3>1
  <2>2. ASSUME NEW j \in 0..(n - 1), j \in P PROVE j + 1 \in P
    <3>1. j + 1 \in 1..n /\ j + 1 \in 0..n /\ (j + 1) - 1 = j
      BY <1>0
    <3>2. split[j + 1] = next(j + 1, split[j])
      BY <1>6, <3>1
    <3> HIDE DEF A, next
    <3> QED
      BY <1>3, <2>2, <3>1, <3>2
  <2> HIDE DEF P
  <2>3. 0..n \subseteq P
    BY <1>0, <2>1, <2>2, InductionTo
  <2> QED
    BY <2>3 DEF P
<1>8. SplitRun(dec, F, split)
  BY <1>6, <1>7 DEF SplitRun, n
<1> QED
  BY <1>1, <1>8 DEF F, n

LEMMA ProductIsPositive ==
  ASSUME NEW n \in Nat, NEW x \in [1..n -> Positive]
  PROVE  Product(x) \in Positive
<1>1. x \in Seq(Nat \ {0}) /\ Len(x) = n
  BY DEF Positive
<1>2. n \in 0..n
  OBVIOUS
<1> QED
  BY <1>1, <1>2, ProductPositive DEF Positive

\* The blocks along the free dimensions so far, and along those that are given.
Along(dec, m) == [i \in Dims(dec.divisions) |-> IF i \in Free(dec) THEN m[i].nb ELSE 1]
AlongGiven(dec) == [i \in Dims(dec.divisions) |-> IF dec.divisions[i] = 0 THEN 1 ELSE dec.divisions[i]]

LEMMA AlongFacts ==
  ASSUME NEW dec, IsDecomposer(dec)
  PROVE  /\ Len(dec.divisions) \in Nat /\ Dims(dec.divisions) = 1..Len(dec.divisions)
         /\ \A m \in Splits(dec) : Along(dec, m) \in [1..Len(dec.divisions) -> Positive]
         /\ AlongGiven(dec) \in [1..Len(dec.divisions) -> Positive]
         /\ Given(dec.divisions) = Product(AlongGiven(dec)) /\ Given(dec.divisions) \in Positive
<1> DEFINE d == Len(dec.divisions)
<1>1. d \in Nat /\ Dims(dec.divisions) = 1..d /\ \A i \in 1..d : dec.divisions[i] \in Nat
  BY DEF IsDecomposer, Dims
<1> HIDE DEF d
<1>2. ASSUME NEW m \in Splits(dec) PROVE Along(dec, m) \in [1..d -> Positive]
  <2>1. \A i \in Free(dec) : m[i].nb \in Positive
    BY DEF Splits
  <2>2. 1 \in Positive
    BY DEF Positive
  <2> QED
    BY <1>1, <2>1, <2>2 DEF Along
<1>3. AlongGiven(dec) \in [1..d -> Positive]
  <2>1. \A i \in 1..d : (IF dec.divisions[i] = 0 THEN 1 ELSE dec.divisions[i]) \in Positive
    BY <1>1 DEF Positive
  <2> QED
    BY <1>1, <2>1 DEF AlongGiven
<1>4. Given(dec.divisions) = Product(AlongGiven(dec))
  BY Zenon DEF Given, AlongGiven
<1>5. Given(dec.divisions) \in Positive
  BY <1>1, <1>3, <1>4, ProductIsPositive
<1> QED
  BY <1>1, <1>2, <1>3, <1>4, <1>5 DEF d

\* After each turn the blocks along the free dimensions and the factors left multiply to
\* the blocks that are to be laid out.
LEMMA SplitsMultiply ==
  ASSUME NEW dec, IsDecomposer(dec), Free(dec) # {}, NEW F, NEW split, SplitRun(dec, F, split),
         NEW left, Len(F) \in Nat, \A t \in 1..Len(F) : F[t] \in Positive,
         left[Len(F)] = 1, \A t \in 1..Len(F) : left[t - 1] = left[t] * F[t],
         NEW j \in 0..Len(F), split[j] # Throws
  PROVE  split[j] \in Splits(dec) /\ Product(Along(dec, split[j])) = left[Len(F) - j]
<1> DEFINE n == Len(F)
           d == Len(dec.divisions)
           NB(m) == Along(dec, m)
           P == {l \in 0..n : split[l] # Throws => split[l] \in Splits(dec) /\ Product(NB(split[l])) = left[n - l]}
<1>0. d \in Nat /\ Dims(dec.divisions) = 1..d /\ \A m \in Splits(dec) : NB(m) \in [1..d -> Positive]
  BY AlongFacts
<1>1. n \in Nat /\ (\A t \in 1..n : F[t] \in Positive /\ left[t - 1] = left[t] * F[t]) /\ left[n] = 1 /\ j \in 0..n
  OBVIOUS
<1>2. /\ split[0] = Missing(dec)
      /\ \A l \in 1..n : split[l] = IF split[l - 1] = Throws THEN Throws ELSE Split(dec, split[l - 1], F[n - l + 1])
      /\ \A l \in 0..n : split[l] \in Splits(dec) \cup {Throws}
  BY DEF SplitRun
<1> HIDE DEF n, d
<1>3. 0 \in P
  <2>1. 0 \in 0..n /\ n - 0 = n
    BY <1>1
  <2>2. ASSUME split[0] # Throws
        PROVE  split[0] \in Splits(dec) /\ Product(NB(split[0])) = 1
    <3>1. Missing(dec) \in Splits(dec)
      BY <1>2, <2>1, <2>2
    <3>2. \A i \in 1..d : NB(Missing(dec))[i] = 1
      BY <1>0 DEF Along, Missing
    <3> HIDE DEF NB
    <3>3. Product(NB(Missing(dec))) = 1
      BY <1>0, <3>1, <3>2, ProductOfOnes
    <3> QED
      BY <1>2, <3>1, <3>3
  <2> QED
    BY <1>1, <2>1, <2>2
<1>4. ASSUME NEW l \in 0..(n - 1), l \in P PROVE l + 1 \in P
  <2> DEFINE m == split[l]
             f == F[n - l]
             t == n - l
             i == Widest(m)
             k == More(m, f)
             e == [nb |-> k, b_size |-> BlockSize(dec, i, k)]
             new == After(dec, m, f)
             only == [h \in 1..d |-> IF h = i THEN f ELSE 1]
  <2>1. /\ l + 1 \in 1..n /\ l + 1 \in 0..n /\ (l + 1) - 1 = l /\ n - (l + 1) + 1 = n - l
        /\ t \in 1..n /\ n - (l + 1) = t - 1 /\ l \in 0..n
    BY <1>1
  <2>2. split[l + 1] = IF m = Throws THEN Throws ELSE Split(dec, m, f)
    BY <1>2, <2>1
  <2> SUFFICES ASSUME split[l + 1] # Throws
               PROVE  split[l + 1] \in Splits(dec) /\ Product(NB(split[l + 1])) = left[n - (l + 1)]
    BY <2>1
  <2>3. m # Throws /\ m \in Splits(dec) /\ Product(NB(m)) = left[t] /\ split[l + 1] = Split(dec, m, f)
    BY <1>2, <1>4, <2>1, <2>2
  <2>4. f \in Positive /\ left[t - 1] = left[t] * f
    BY <1>1, <2>1
  <2> HIDE DEF m, f, t
  <2>5. /\ i \in Free(dec) /\ k \in Positive /\ (Split(dec, m, f) = Throws \/ Split(dec, m, f) = new)
        /\ new \in Splits(dec)
    BY <2>3, <2>4, SplitTurn
  <2>51. new = [m EXCEPT ![i] = e] /\ k = m[i].nb * f
    BY DEF After, More
  <2>6. split[l + 1] = new
    BY <2>3, <2>5
  <2> HIDE DEF new, k
  <2>7. i \in 1..d
    BY <1>0, <2>5 DEF Free
  <2>8. only \in [1..d -> Positive] /\ Product(only) = f
    <3>1. \A h \in 1..d : only[h] \in Positive
      BY <2>4 DEF Positive
    <3>2. only \in [1..d -> Positive] /\ only[i] = f /\ \A h \in 1..d \ {i} : only[h] = 1
      BY <2>7, <3>1
    <3> HIDE DEF only, i
    <3> QED
      BY <1>0, <2>7, <3>2, ProductOfOne
  <2>9. \A h \in 1..d : NB(new)[h] = NB(m)[h] * only[h]
    <3> SUFFICES ASSUME NEW h \in 1..d PROVE NB(new)[h] = NB(m)[h] * only[h]
      OBVIOUS
    <3>1. NB(m)[h] \in Positive
      BY <1>0, <2>3
    <3>2. CASE h = i
      <4>1. NB(m)[h] = m[i].nb /\ only[h] = f
        BY <1>0, <2>5, <3>2 DEF Along
      <4>2. new[i] = e /\ e.nb = k
        BY <2>3, <2>5, <2>51 DEF Splits
      <4>3. NB(new)[h] = new[i].nb
        BY <1>0, <2>5, <3>2 DEF Along
      <4> QED
        BY <2>51, <4>1, <4>2, <4>3
    <3>3. CASE h # i
      <4>1. only[h] = 1
        BY <3>3
      <4>2. NB(new)[h] = NB(m)[h]
        <5>1. \A q \in Free(dec) : q # i => new[q] = m[q]
          BY <2>3, <2>51 DEF Splits
        <5> QED
          BY <1>0, <3>3, <5>1 DEF Along
      <4> QED
        BY <3>1, <4>1, <4>2, PositiveTimes
    <3> QED
      BY <3>2, <3>3
  <2> HIDE DEF new, only, NB, i, k
  <2>10. Product(NB(new)) = Product(NB(m)) * Product(only)
    BY <1>0, <2>3, <2>5, <2>8, <2>9, ProductTimes
  <2> QED
    BY <2>1, <2>3, <2>4, <2>5, <2>6, <2>8, <2>10 DEF t
<1> HIDE DEF P
<1>5. 0..n \subseteq P
  BY <1>1, <1>3, <1>4, InductionTo
<1>6. j \in P
  BY <1>1, <1>5
<1> QED
  BY <1>6 DEF P, n

\* RegularDecomposer::fill_divisions: the grid has as many blocks as it is to have,
\* whichever dimensions are free, unless it throws (decomposition.hpp:590).
THEOREM DivisionsCover ==
  ASSUME NEW dec, IsDecomposer(dec), NEW nblocks \in Positive,
         Free(dec) = {} => Product(dec.divisions) = nblocks,
         fill_divisions(dec, nblocks) # Throws
  PROVE  LET D == fill_divisions(dec, nblocks)
         IN  D \in Seq(Positive) /\ D # <<>> /\ Product(D) = nblocks /\ Len(D) = Len(dec.divisions)
<1> DEFINE D == fill_divisions(dec, nblocks)
           d == Len(dec.divisions)
           g == Given(dec.divisions)
           x == nblocks \div g
           F == factor(x)
<1>0. /\ d \in Nat /\ d # 0 /\ Dims(dec.divisions) = 1..d /\ dec.divisions \in Seq(Nat) /\ g \in Positive
      /\ \A i \in 1..d : dec.divisions[i] \in Nat
  BY AlongFacts, SMTT(60) DEF IsDecomposer
<1>1. nblocks % g = 0
  <2> HIDE DEF g
  <2> QED
    BY ZenonT(90) DEF fill_divisions, g
<1>2. CASE Free(dec) = {}
  <2>1. D = dec.divisions
    BY <1>1, <1>2 DEF fill_divisions, Free
  <2>2. \A i \in 1..d : dec.divisions[i] \in Positive
    BY <1>0, <1>2 DEF Free, Positive
  <2>3. dec.divisions \in Seq(Positive)
    <3>1. dec.divisions = [i \in 1..d |-> dec.divisions[i]]
      BY <1>0
    <3>2. dec.divisions \in [1..d -> Positive]
      BY <2>2, <3>1
    <3> QED
      BY <1>0, <3>2
  <2> QED
    BY <1>2, <2>1, <2>3, SMTT(60) DEF IsDecomposer
<1>3. CASE Free(dec) # {}
  <2>1. x \in Positive /\ nblocks = x * g
    <3>1. Divides(g, nblocks)
      BY <1>0, <1>1, DividesRemainder
    <3>2. PICK w \in Positive : nblocks = g * w
      BY <3>1 DEF Divides
    <3> HIDE DEF g
    <3>3. w \in Int /\ g \in Nat \ {0} /\ 0 \in 0..(g - 1) /\ nblocks = g * w + 0
      <4>1. nblocks \in Nat /\ w \in Nat /\ g \in Nat \ {0}
        BY <1>0 DEF Positive
      <4> QED
        BY <3>2, <4>1
    <3>4. x = w
      BY <3>3, DivMod
    <3> HIDE DEF x
    <3> QED
      BY <1>0, <3>2, <3>4, PositiveTimes
  <2> HIDE DEF x
  <2>2. Dissolves(F, x)
    BY <2>1, PrimesDissolve
  <2>3. PICK split :
          /\ SplitRun(dec, F, split)
          /\ D = IF split[Len(F)] = Throws THEN Throws
                 ELSE [i \in Dims(dec.divisions) |-> IF i \in Free(dec) THEN split[Len(F)][i].nb
                                                     ELSE dec.divisions[i]]
    BY <1>1, <1>3, <2>2, SplitLoop DEF x
  <2> DEFINE n == Len(F)
             m == split[n]
             NB == Along(dec, m)
             GV == AlongGiven(dec)
  <2>4. n \in Nat /\ n \in 0..n /\ \A t \in 1..n : F[t] \in Positive
    BY <2>2 DEF Dissolves
  <2>5. PICK left : left[0] = x /\ left[n] = 1 /\ \A t \in 1..n : left[t - 1] = left[t] * F[t]
    BY <2>2 DEF Dissolves
  <2> HIDE DEF D, F, n
  <2>6. m # Throws /\ D = [i \in 1..d |-> IF i \in Free(dec) THEN m[i].nb ELSE dec.divisions[i]]
    BY <1>0, <2>3 DEF D, n
  <2>7. m \in Splits(dec) /\ Product(NB) = x
    <3>1. m \in Splits(dec) /\ Product(NB) = left[n - n]
      <4> HIDE DEF d, g
      <4> QED
        BY <1>3, <2>3, <2>4, <2>5, <2>6, SplitsMultiply DEF n
    <3>2. n - n = 0
      BY <2>4
    <3> QED
      BY <2>5, <3>1, <3>2
  <2>8. NB \in [1..d -> Positive] /\ GV \in [1..d -> Positive] /\ g = Product(GV)
    BY <2>7, AlongFacts
  <2>9. ASSUME NEW i \in 1..d PROVE D[i] = NB[i] * GV[i] /\ D[i] \in Positive
    <3>1. NB[i] \in Positive /\ GV[i] \in Positive
      BY <2>8
    <3>2. D[i] = NB[i] * GV[i]
      <4>1. CASE i \in Free(dec)
        <5>1. D[i] = NB[i] /\ GV[i] = 1
          BY <1>0, <2>6, <4>1 DEF Along, AlongGiven, Free
        <5>2. NB[i] * 1 = NB[i]
          BY Zenon, <3>1, PositiveTimes
        <5> QED
          BY Zenon, <5>1, <5>2
      <4>2. CASE i \notin Free(dec)
        <5>1. NB[i] = 1 /\ D[i] = GV[i]
          BY <1>0, <2>6, <4>2 DEF Along, AlongGiven, Free
        <5>2. 1 \in Positive
          BY DEF Positive
        <5>3. 1 * GV[i] = GV[i]
          BY Zenon, <3>1, <5>2, PositiveTimes
        <5> QED
          BY Zenon, <5>1, <5>3
      <4> QED
        BY <4>1, <4>2
    <3>3. NB[i] * GV[i] \in Positive
      BY Zenon, <3>1, PositiveTimes
    <3> QED
      BY Zenon, <3>2, <3>3
  <2>10. D \in [1..d -> Positive]
    BY <2>6, <2>9
  <2> HIDE DEF NB, GV, d
  <2>11. Product(D) = Product(NB) * Product(GV)
    <3>1. \A i \in 1..d : D[i] = NB[i] * GV[i]
      BY <2>9
    <3> QED
      BY <1>0, <2>8, <2>10, <3>1, ProductTimes
  <2>12. D \in Seq(Positive) /\ D # <<>> /\ Len(D) = d
    BY <1>0, <2>10
  <2> QED
    BY <2>1, <2>7, <2>8, <2>11, <2>12 DEF D, d
<1> QED
  BY <1>2, <1>3

\* One dimension with as many points as blocks, as all_to_all has, is always laid out:
\* no number of blocks so far exceeds the points (reduce-operations.hpp:26, decomposition.hpp:642).
LEMMA LineIsLaid ==
  ASSUME NEW nblocks \in Positive, NEW dec, dec.divisions = << 0 >>, dec.min = << 0 >>,
         dec.max = <<nblocks - 1>>, dec.share_face = <<FALSE>>
  PROVE  IsDecomposer(dec) /\ Free(dec) = {1} /\ fill_divisions(dec, nblocks) # Throws
<1> DEFINE hi == nblocks - 1
           x == nblocks \div Given(dec.divisions)
           F == factor(x)
<1>0. nblocks \in Nat /\ nblocks # 0 /\ hi \in Int /\ hi - 0 + 1 = nblocks
  BY DEF Positive
<1>1. /\ Len(dec.divisions) = 1 /\ Dims(dec.divisions) = {1} /\ dec.divisions[1] = 0
      /\ dec.min[1] = 0 /\ dec.max[1] = hi /\ dec.share_face[1] = FALSE
  BY DEF Dims
<1>2. IsDecomposer(dec) /\ Free(dec) = {1}
  <2>1. dec.divisions \in Seq(Nat) /\ dec.divisions # <<>>
    OBVIOUS
  <2>2. dec.min \in [{1} -> Int] /\ dec.max \in [{1} -> Int]
    <3>1. dec.min = [i \in {1} |-> 0] /\ dec.max = [i \in {1} |-> hi]
      BY <1>1
    <3> HIDE DEF hi
    <3> QED
      BY <1>0, <3>1
  <2> QED
    BY <1>1, <2>1, <2>2 DEF IsDecomposer, Free
<1>3. Given(dec.divisions) = 1
  <2> DEFINE GV == AlongGiven(dec)
  <2>1. GV \in [1..1 -> Positive] /\ Given(dec.divisions) = Product(GV)
    BY <1>1, <1>2, AlongFacts
  <2>2. \A i \in 1..1 : GV[i] = 1
    BY <1>1 DEF AlongGiven
  <2> HIDE DEF GV
  <2> QED
    BY <2>1, <2>2, ProductOfOnes
<1>4. nblocks % Given(dec.divisions) = 0 /\ x = nblocks
  <2>1. nblocks = 1 * nblocks + 0 /\ 0 \in 0..(1 - 1) /\ 1 \in Nat \ {0} /\ nblocks \in Int
    BY <1>0
  <2>2. nblocks \div 1 = nblocks /\ nblocks % 1 = 0
    BY <2>1, DivMod
  <2> QED
    BY <1>3, <2>2
<1> HIDE DEF x
<1>5. Dissolves(F, x)
  BY <1>4, PrimesDissolve
<1>6. PICK split :
        /\ SplitRun(dec, F, split)
        /\ fill_divisions(dec, nblocks)
             = IF split[Len(F)] = Throws THEN Throws
               ELSE [i \in Dims(dec.divisions) |-> IF i \in Free(dec) THEN split[Len(F)][i].nb
                                                   ELSE dec.divisions[i]]
  <2>1. x = nblocks \div Given(dec.divisions) /\ Free(dec) # {}
    BY <1>2 DEF x
  <2>2. IsDecomposer(dec) /\ nblocks % Given(dec.divisions) = 0 /\ Dissolves(factor(x), x)
    BY <1>2, <1>4, <1>5
  <2> QED
    BY SMTT(40), <2>1, <2>2, SplitLoop
<1> DEFINE n == Len(F)
<1>7. n \in Nat /\ \A t \in 1..n : F[t] \in Positive
  BY <1>5 DEF Dissolves
<1>8. PICK left : /\ left \in [0..n -> Positive] /\ left[0] = nblocks /\ left[n] = 1
                  /\ \A t \in 1..n : left[t - 1] = left[t] * F[t]
  BY <1>4, <1>5 DEF Dissolves
<1>9. SplitRun(dec, F, split) /\ Len(F) = n
  BY <1>6
<1>10. split[0] = Missing(dec)
       /\ \A l \in 1..n : split[l] = IF split[l - 1] = Throws THEN Throws
                                     ELSE Split(dec, split[l - 1], F[n - l + 1])
  BY <1>6 DEF SplitRun
<1> HIDE DEF F
<1>81. ASSUME NEW l \in 0..Len(F), split[l] # Throws
       PROVE  split[l] \in Splits(dec) /\ Product(Along(dec, split[l])) = left[Len(F) - l]
  <2>1. Len(F) \in Nat /\ (\A t \in 1..Len(F) : F[t] \in Positive) /\ left[Len(F)] = 1
        /\ (\A t \in 1..Len(F) : left[t - 1] = left[t] * F[t])
    BY <1>7, <1>8
  <2>2. IsDecomposer(dec) /\ SplitRun(dec, F, split) /\ Free(dec) # {}
    BY <1>2, <1>9
  <2> QED
    BY <1>81, <2>1, <2>2, SplitsMultiply
<1> HIDE DEF n, hi
<1>11. \A t \in 0..n : left[t] <= nblocks
  <2> DEFINE P == {t \in 0..n : left[t] <= nblocks}
  <2>1. 0 \in P
    BY <1>0, <1>7, <1>8
  <2>2. ASSUME NEW t \in 0..(n - 1), t \in P PROVE t + 1 \in P
    <3>1. t + 1 \in 1..n /\ t + 1 \in 0..n /\ (t + 1) - 1 = t
      BY <1>7
    <3> DEFINE u == left[t + 1]
               f == F[t + 1]
    <3>2. left[t] = u * f /\ u \in Positive /\ f \in Positive /\ left[t] <= nblocks
      BY <1>7, <1>8, <2>2, <3>1
    <3> HIDE DEF u, f
    <3>3. u \in Nat /\ u \in Int /\ f \in Int /\ 1 \in Int /\ 1 <= f
      BY <3>2 DEF Positive
    <3>4. u * 1 <= u * f
      BY <3>3, TimesMonotone
    <3>5. u * 1 = u /\ u * f \in Nat
      BY <3>2, PositiveTimes DEF Positive
    <3>6. u <= nblocks
      BY <1>0, <3>2, <3>3, <3>4, <3>5
    <3> QED
      BY <3>1, <3>6 DEF u
  <2> HIDE DEF P
  <2>3. 0..n \subseteq P
    BY <1>7, <2>1, <2>2, InductionTo
  <2> QED
    BY <2>3 DEF P
<1>12. ASSUME NEW l \in 0..(n - 1), split[l] # Throws PROVE split[l + 1] # Throws
  <2> DEFINE m == split[l]
             f == F[n - l]
             t == n - l
             k == More(m, f)
  <2>1. /\ l + 1 \in 1..n /\ (l + 1) - 1 = l /\ n - (l + 1) + 1 = n - l /\ l \in 0..n
        /\ t \in 1..n /\ t \in 0..n /\ t - 1 \in 0..n
    BY <1>7
  <2>2. m \in Splits(dec) /\ Product(Along(dec, m)) = left[t]
    <3>1. l \in 0..Len(F)
      BY <1>9, <2>1
    <3> HIDE DEF t
    <3>2. split[l] \in Splits(dec) /\ Product(Along(dec, split[l])) = left[Len(F) - l]
      BY <1>12, <1>81, <3>1
    <3> QED
      BY <1>9, <3>2 DEF t
  <2>3. split[l + 1] = Split(dec, m, f) /\ f \in Positive /\ left[t - 1] = left[t] * f
    BY <1>7, <1>8, <1>10, <1>12, <2>1
  <2> HIDE DEF m, f, t
  <2>4. Widest(m) = 1 /\ k \in Positive
        /\ (~(BlockSize(dec, 1, k) < 0) => Split(dec, m, f) = After(dec, m, f))
        /\ After(dec, m, f) \in Splits(dec)
    BY <1>2, <2>2, <2>3, SplitTurn
  <2>5. left[t] = m[1].nb
    <3> DEFINE NB == Along(dec, m)
    <3>1. NB \in [1..1 -> Positive] /\ NB[1] = m[1].nb
      BY <1>1, <1>2, <2>2, AlongFacts DEF Along
    <3>2. 1 \in Nat /\ 1 \in 1..1 /\ \A h \in (1..1) \ {1} : NB[h] = 1
      OBVIOUS
    <3>3. Product(NB) = left[t]
      BY <2>2
    <3> HIDE DEF NB
    <3> QED
      BY <3>1, <3>2, <3>3, ProductOfOne
  <2>6. k <= nblocks
    <3>1. k = left[t - 1]
      BY <2>3, <2>4, <2>5 DEF More
    <3> QED
      BY <1>11, <2>1, <3>1
  <2> HIDE DEF k
  <2>7. BlockSize(dec, 1, k) \in Nat
    <3> DEFINE w == width(k, 0, hi)
    <3>1. k \in Nat \ {0} /\ k \in Nat
      BY <2>4 DEF Positive
    <3>2. w \in Int /\ 1 <= w
      <4>1. w = nblocks \div k
        BY <1>0 DEF width
      <4> DEFINE q == nblocks \div k
      <4>2. q \in Int /\ nblocks < k * q + k
        BY <1>0, <3>1, Quotient
      <4> HIDE DEF q
      <4>3. q < 1 => k * q <= k * 0
        BY <3>1, <4>2, TimesMonotone
      <4>4. k * 0 = 0 /\ k * q \in Int
        BY <3>1, <4>2
      <4>5. 1 <= q
        BY <1>0, <2>6, <3>1, <4>2, <4>3, <4>4
      <4> QED
        BY <4>1, <4>2, <4>5 DEF q
    <3> HIDE DEF w
    <3>3. from(0, k, 0, hi) = 0 /\ from(0 + 1, k, 0, hi) = w
      <4>1. w * 0 = 0 /\ w * (0 + 1) = w
        BY <3>2
      <4> QED
        BY <3>2, <4>1 DEF from, w
    <3> DEFINE top == to(0, k, 0, hi, FALSE)
               bottom == from(0, k, 0, hi)
    <3>4. top = hi \/ top = w - 1
      BY <3>2, <3>3 DEF to
    <3>5. BlockSize(dec, 1, k) = top - bottom
      BY <1>1 DEF BlockSize
    <3>6. bottom = 0
      BY <3>3
    <3>7. hi \in Nat /\ w - 1 \in Nat
      BY <1>0, <3>2
    <3> HIDE DEF top, bottom
    <3> QED
      BY <3>4, <3>5, <3>6, <3>7
  <2>8. split[l + 1] = After(dec, m, f) /\ After(dec, m, f) \in Splits(dec)
    BY <2>3, <2>4, <2>7
  <2>9. 1 \in DOMAIN After(dec, m, f)
    BY <1>2, <2>8 DEF Splits
  <2> QED
    BY <2>8, <2>9 DEF Throws
<1>13. split[0] # Throws
  <2>1. 1 \in DOMAIN Missing(dec)
    BY <1>2 DEF Missing
  <2> QED
    BY <1>10, <2>1 DEF Throws
<1>14. split[n] # Throws
  <2> DEFINE P == {l \in 0..n : split[l] # Throws}
  <2>1. 0 \in P
    BY <1>7, <1>13
  <2>2. ASSUME NEW l \in 0..(n - 1), l \in P PROVE l + 1 \in P
    BY <1>7, <1>12, <2>2
  <2> HIDE DEF P
  <2>3. 0..n \subseteq P
    BY <1>7, <2>1, <2>2, InductionTo
  <2> QED
    BY <1>7, <2>3 DEF P
<1>15. fill_divisions(dec, nblocks)
         = [i \in Dims(dec.divisions) |-> IF i \in Free(dec) THEN split[n][i].nb ELSE dec.divisions[i]]
  BY <1>6, <1>9, <1>14
<1>16. 1 \in DOMAIN fill_divisions(dec, nblocks)
  BY <1>1, <1>15
<1> QED
  BY <1>2, <1>16 DEF Throws

-----------------------------------------------------------------------------
(***************************************************************************)
(* What the rounds of a reduction bring about.                             *)
(***************************************************************************)
\* How far apart the blocks of a round are, and how far its groups are.
LEMMA StepsOfRound ==
  ASSUME NEW part, GroupsFit(part), GroupsFill(part), NEW r \in 0..(BaseRounds(part) - 1)
  PROVE  LET G(i) == Grouped(part, i, Dim(part, r))
             b    == part.divisions[Dim(part, r)]
         IN  /\ part.contiguous => step(part, r) = G(r) /\ step(part, r) * Size(part, r) = G(r + 1)
             /\ ~part.contiguous => /\ step(part, r) = b \div G(r + 1)
                                    /\ step(part, r) * Size(part, r) = b \div G(r)
<1> DEFINE d == Dim(part, r)
           n == BaseRounds(part)
           G(i) == Grouped(part, i, d)
           b == part.divisions[d]
           s == step(part, r)
           k == Size(part, r)
<1>1. n \in Nat /\ n \in 0..n /\ r \in 0..n /\ r + 1 \in 0..n /\ r + 1 \in 1..n /\ r + 1 <= n
  BY DEF GroupsFit
<1>2. k \in Positive /\ b \in Positive /\ d \in Dims(part.divisions)
  BY DEF GroupsFit, Dims
<1>3. /\ \A i \in 0..n : G(i) \in Positive
      /\ G(r + 1) = IF part.kvs[r + 1].dim = d THEN G(r) * part.kvs[r + 1].size ELSE G(r)
  <2>1. \A i \in 1..n : part.kvs[i].size \in Positive
    BY DEF GroupsFill
  <2> HIDE DEF d
  <2> QED
    BY <1>1, <2>1, GroupedLoop
<1>4. part.kvs[r + 1].dim = d /\ part.kvs[r + 1].size = k
  BY DEF Dim, Size, kv
<1>5. G(n) = b
  BY <1>2 DEF GroupsFill
<1>6. Divides(G(r + 1), G(n))
  <2>1. \A i \in 1..n : part.kvs[i].size \in Positive
    BY DEF GroupsFill
  <2> HIDE DEF d
  <2> QED
    BY <1>1, <2>1, GroupedDivides
<1>7. s = IF part.contiguous THEN G(r) ELSE b \div G(r + 1)
  BY DEF step, Dim
<1> HIDE DEF d, n, G, b, s, k
<1>8. G(r) \in Positive /\ G(r + 1) = G(r) * k /\ G(r + 1) \in Positive
  BY <1>1, <1>3, <1>4
<1>9. PICK m \in Positive : b = G(r + 1) * m
  BY <1>5, <1>6 DEF Divides
<1>10. \A x, y \in Positive : (x * y) \div x = y
  <2>1. ASSUME NEW x \in Positive, NEW y \in Positive PROVE (x * y) \div x = y
    <3> DEFINE a == x * y
    <3>1. x \in Nat \ {0} /\ y \in Int /\ 0 \in 0..(x - 1) /\ a = x * y + 0
      <4>1. x * y \in Nat /\ x \in Nat \ {0}
        BY Products DEF Positive
      <4> QED
        BY <4>1 DEF Positive
    <3> HIDE DEF a
    <3>2. a \div x = y
      BY <3>1, DivMod
    <3> QED
      BY <3>2 DEF a
  <2> QED
    BY <2>1
<1>11. b \div G(r + 1) = m
  BY <1>8, <1>9, <1>10
<1>12. b = G(r) * (k * m) /\ k * m \in Positive /\ k * m = m * k
  <2> DEFINE u == G(r)
  <2>1. u \in Positive /\ k \in Positive /\ m \in Positive /\ b = (u * k) * m
    BY <1>2, <1>8, <1>9
  <2> HIDE DEF u
  <2>2. (u * k) * m = u * (k * m) /\ k * m \in Positive /\ k * m = m * k
    <3>1. \A x, y, z \in Positive : (x * y) * z = x * (y * z)
      BY PositiveTimes
    <3>2. \A x, y \in Positive : x * y \in Positive /\ x * y = y * x
      BY PositiveTimes
    <3>3. (u * k) * m = u * (k * m)
      BY Zenon, <2>1, <3>1
    <3>4. k * m \in Positive /\ k * m = m * k
      BY Zenon, <2>1, <3>2
    <3> QED
      BY <3>3, <3>4
  <2> QED
    BY <2>1, <2>2 DEF u
<1>13. b \div G(r) = m * k
  BY <1>8, <1>10, <1>12
<1> QED
  BY <1>7, <1>8, <1>11, <1>13 DEF d, G, b, s, k

\* Numbers with the same part above a digit, and the same digit, have the same part
\* from the digit on.
LEMMA DigitJoin ==
  ASSUME NEW x \in Nat, NEW y \in Nat, NEW s \in Positive, NEW k \in Positive,
         x \div (s * k) = y \div (s * k), Digit(x, s, k) = Digit(y, s, k)
  PROVE  x \div s = y \div s
<1>1. \A z \in Nat : z \div s \in Nat /\ z \div s = k * (z \div (s * k)) + Digit(z, s, k)
  <2> TAKE z \in Nat
  <2> DEFINE q == z \div s
  <2>1. z \div (s * k) = q \div k
    BY DivisionTwice
  <2>2. s \in Nat \ {0} /\ k \in Nat \ {0}
    BY DEF Positive
  <2>3. q \in Nat
    BY <2>2, NatDivision
  <2>4. Digit(z, s, k) = q % k
    BY DEF Digit
  <2> HIDE DEF q
  <2>5. q = k * (q \div k) + (q % k)
    BY <2>2, <2>3, NatDivision
  <2> QED
    BY <2>1, <2>3, <2>4, <2>5 DEF q
<1> QED
  BY <1>1

\* A coordinate is known from its places in the groups of its dimension.
LEMMA PlaceInDimension ==
  ASSUME NEW part, GroupsFit(part), GroupsFill(part), NEW d \in Dims(part.divisions),
         NEW x \in 0..(part.divisions[d] - 1), NEW y \in 0..(part.divisions[d] - 1),
         \A r \in 0..(BaseRounds(part) - 1) :
           Dim(part, r) = d => Digit(x, step(part, r), Size(part, r)) = Digit(y, step(part, r), Size(part, r))
  PROVE  x = y
<1> DEFINE n == BaseRounds(part)
           b == part.divisions[d]
           G(i) == Grouped(part, i, d)
           W(i) == IF part.contiguous THEN G(n - i) ELSE b \div G(i)
           P == {i \in 0..n : x \div W(i) = y \div W(i)}
<1>0. n \in Nat /\ b \in Positive /\ b \in Nat \ {0} /\ x \in Nat /\ y \in Nat
  <2>1. b \in Positive /\ n \in Nat
    BY DEF GroupsFit, Dims
  <2> QED
    BY <2>1 DEF Positive
<1>1. /\ G(0) = 1 /\ G(n) = b
      /\ \A i \in 0..(n - 1) : part.kvs[i + 1].dim # d => G(i + 1) = G(i)
  <2>1. \A i \in 1..n : part.kvs[i].size \in Positive
    BY DEF GroupsFill
  <2>2. G(n) = b
    BY DEF GroupsFill
  <2> QED
    BY <1>0, <2>1, <2>2, GroupedLoop
<1>2. ASSUME NEW r \in 0..(n - 1), Dim(part, r) = d
      PROVE  /\ step(part, r) \in Positive /\ Size(part, r) \in Positive
             /\ part.contiguous => step(part, r) = G(r) /\ step(part, r) * Size(part, r) = G(r + 1)
             /\ ~part.contiguous => /\ step(part, r) = b \div G(r + 1)
                                    /\ step(part, r) * Size(part, r) = b \div G(r)
  BY <1>2, StepsOfRound DEF GroupsFit
<1>3. \A z \in Nat : z \div 1 = z
  BY SMT
<1>4. \A z \in 0..(b - 1) : z \div b = 0
  <2> TAKE z \in 0..(b - 1)
  <2>1. z = b * 0 + z /\ 0 \in Int
    BY <1>0
  <2> HIDE DEF b
  <2> QED
    BY <1>0, <2>1, DivMod
<1>5. b \div 1 = b /\ b \div b = 1
  <2>1. b = b * 1 + 0 /\ 1 \in Int /\ 0 \in 0..(b - 1)
    BY <1>0
  <2> HIDE DEF b
  <2> QED
    BY <1>0, <1>3, <2>1, DivMod
<1>6. W(0) = b /\ W(n) = 1
  <2>1. n - 0 = n /\ n - n = 0
    BY <1>0
  <2> HIDE DEF n, b, G
  <2> QED
    BY <1>1, <1>5, <2>1
<1>7. 0 \in P
  BY <1>0, <1>4, <1>6
<1>8. ASSUME NEW i \in 0..(n - 1), i \in P PROVE i + 1 \in P
  <2> DEFINE r == IF part.contiguous THEN n - (i + 1) ELSE i
  <2>1. r \in 0..(n - 1) /\ (part.contiguous => r + 1 = n - i) /\ i + 1 \in 0..n
    BY <1>0, <1>8
  <2>2. CASE Dim(part, r) = d
    <3> DEFINE s == step(part, r)
               k == Size(part, r)
    <3>1. s \in Positive /\ k \in Positive /\ W(i) = s * k /\ W(i + 1) = s
      <4>1. n - (i + 1) = r \/ ~part.contiguous
        OBVIOUS
      <4> HIDE DEF n, b, G
      <4> QED
        BY <1>2, <2>1, <2>2, <4>1
    <3>2. Digit(x, s, k) = Digit(y, s, k)
      BY <2>1, <2>2
    <3> HIDE DEF s, k, W, r
    <3>3. x \div (s * k) = y \div (s * k)
      BY <1>8, <3>1 DEF P
    <3>4. x \div s = y \div s
      BY <1>0, <3>1, <3>2, <3>3, DigitJoin
    <3> QED
      BY <2>1, <3>1, <3>4
  <2>3. CASE Dim(part, r) # d
    <3>1. G(r + 1) = G(r)
      BY <1>1, <2>1, <2>3 DEF Dim, kv
    <3>2. W(i + 1) = W(i)
      <4>1. part.contiguous => n - (i + 1) = r /\ n - i = r + 1
        BY <2>1
      <4> HIDE DEF n, b, G
      <4> QED
        BY <3>1, <4>1
    <3> HIDE DEF W
    <3> QED
      BY <1>8, <2>1, <3>2
  <2> QED
    BY <2>2, <2>3
<1> HIDE DEF P
<1>9. 0..n \subseteq P
  <2> HIDE DEF n
  <2> QED
    BY <1>0, <1>7, <1>8, InductionTo
<1>10. x \div 1 = y \div 1
  <2>1. n \in P
    BY <1>0, <1>9
  <2> HIDE DEF W
  <2> QED
    BY <1>6, <2>1 DEF P
<1> QED
  BY <1>0, <1>3, <1>10

\* A block is known from its places in its groups.
LEMMA PlacesDetermine ==
  ASSUME NEW part, GroupsFit(part), GroupsFill(part),
         NEW g \in Gids(Product(part.divisions)), NEW h \in Gids(Product(part.divisions)),
         \A r \in 0..(BaseRounds(part) - 1) : Place(part, r, g) = Place(part, r, h)
  PROVE  g = h
<1> DEFINE D == part.divisions
           c == gid_to_coords(g, D)
           e == gid_to_coords(h, D)
<1>1. D \in Seq(Nat \ {0}) /\ Dims(D) = 1..Len(D) /\ \A i \in 1..Len(D) : D[i] \in Nat \ {0}
  BY DEF GroupsFit, Positive, Dims
<1>2. /\ IsCoords(c, D) /\ coords_to_gid(c, D) = g
      /\ IsCoords(e, D) /\ coords_to_gid(e, D) = h
  BY <1>1, BlockOfPlace
<1>3. ASSUME NEW d \in Dims(D) PROVE c[d] = e[d]
  <2>1. c[d] \in 0..(D[d] - 1) /\ e[d] \in 0..(D[d] - 1)
    <3> HIDE DEF c, e
    <3>1. c[d] \in Nat /\ c[d] < D[d] /\ e[d] \in Nat /\ e[d] < D[d] /\ D[d] \in Nat
      BY <1>1, <1>2 DEF IsCoords
    <3> QED
      BY <3>1
  <2>2. ASSUME NEW r \in 0..(BaseRounds(part) - 1), Dim(part, r) = d
        PROVE  Digit(c[d], step(part, r), Size(part, r)) = Digit(e[d], step(part, r), Size(part, r))
    BY <2>2 DEF Place, group_position, Digit, Size
  <2> HIDE DEF c, e
  <2> QED
    BY <2>1, <2>2, PlaceInDimension
<1>4. c = e
  <2> HIDE DEF c, e
  <2> QED
    BY <1>1, <1>2, <1>3 DEF IsCoords
<1> QED
  BY <1>2, <1>4

\* The first block is the first one in all of its groups.
LEMMA FirstBlock ==
  ASSUME NEW part, GroupsFit(part)
  PROVE  /\ 0 \in Gids(Product(part.divisions))
         /\ \A r \in 0..(BaseRounds(part) - 1) : Place(part, r, 0) = 0
<1> DEFINE D == part.divisions
           n == Len(D)
           c == gid_to_coords(0, D)
<1>1. D \in Seq(Nat \ {0}) /\ n \in Nat /\ Dims(D) = 1..n /\ \A i \in 1..n : D[i] \in Nat \ {0}
  BY DEF GroupsFit, Positive, Dims
<1>2. PICK f \in [0..n -> Nat] :
        /\ f[0] = 0 /\ \A i \in 1..n : f[i] = f[i - 1] \div D[i]
        /\ c = [i \in 1..n |-> f[i - 1] % D[i]]
  BY <1>1, CoordsLoop
<1>3. \A b \in Nat \ {0} : 0 \div b = 0 /\ 0 % b = 0
  <2> TAKE b \in Nat \ {0}
  <2>1. 0 = b * 0 + 0 /\ 0 \in Int /\ 0 \in 0..(b - 1)
    OBVIOUS
  <2> QED
    BY <2>1, DivMod
<1> DEFINE P == {i \in 0..n : f[i] = 0}
<1> HIDE DEF c, D
<1>4. 0 \in P
  BY <1>1, <1>2
<1>5. ASSUME NEW i \in 0..(n - 1), i \in P PROVE i + 1 \in P
  <2>1. i + 1 \in 1..n /\ (i + 1) - 1 = i /\ i + 1 \in 0..n
    BY <1>1
  <2>2. f[i + 1] = 0 \div D[i + 1]
    BY <1>2, <1>5, <2>1
  <2> QED
    BY <1>1, <1>3, <2>1, <2>2
<1> HIDE DEF P
<1>6. 0..n \subseteq P
  <2> HIDE DEF n
  <2> QED
    BY <1>1, <1>4, <1>5, InductionTo
<1>7. \A i \in 1..n : c[i] = 0
  <2> TAKE i \in 1..n
  <2>1. i - 1 \in 0..n
    BY <1>1
  <2>2. f[i - 1] = 0
    BY <1>6, <2>1 DEF P
  <2> QED
    BY <1>1, <1>2, <1>3, <2>2
<1>8. 0 \in Gids(Product(D))
  <2>1. Product(D) \in Nat \ {0}
    <3> HIDE DEF n
    <3> QED
      BY <1>1, ProductPositive DEF n
  <2> QED
    BY <2>1 DEF Gids
<1>9. ASSUME NEW r \in 0..(BaseRounds(part) - 1) PROVE Place(part, r, 0) = 0
  <2>1. Dim(part, r) \in 1..n /\ step(part, r) \in Nat \ {0} /\ Size(part, r) \in Nat \ {0}
    BY <1>1 DEF GroupsFit, Positive, D
  <2>2. Place(part, r, 0) = (c[Dim(part, r)] \div step(part, r)) % Size(part, r)
    BY DEF Place, group_position, Size, c, D
  <2> QED
    BY <1>3, <1>7, <2>1, <2>2
<1> QED
  BY <1>8, <1>9 DEF D

\* K[r][g] is what block g has when the callbacks of round r have run, if each block
\* begins with itself.
Gathers(part, K) ==
  LET G == Gids(Product(part.divisions))
  IN  /\ \A g \in G : K[0][g] = {g}
      /\ \A r \in 1..rounds(part) : \A g \in G :
           K[r][g] = K[r - 1][g] \cup (IF active(part, r, g)
                                       THEN UNION {K[r - 1][h] : h \in ToSet(incoming(part, r, g))} ELSE {})

\* Up a merge, and through a swap: after r rounds a block has heard of all that are in
\* the same place in the groups of the rounds to come.
LEMMA GatherUp ==
  ASSUME NEW part, part.kind \in {"merge", "swap", "all_reduce"}, GroupsFit(part), GroupsFill(part),
         NEW K, Gathers(part, K),
         NEW g \in Gids(Product(part.divisions)), active(part, BaseRounds(part), g)
  PROVE  Gids(Product(part.divisions)) \subseteq K[BaseRounds(part)][g]
<1> DEFINE G == Gids(Product(part.divisions))
           n == BaseRounds(part)
           Pl(q, x) == Place(part, q, x)
           Up(r, x) == part.kind = "swap" \/ \A t \in 0..(r - 1) : Pl(t, x) = 0
           Alike(r, x, y) == \A q \in r..(n - 1) : Pl(q, x) = Pl(q, y)
           P == {r \in 0..n : \A x, y \in G : Up(r, x) /\ Alike(r, x, y) => y \in K[r][x]}
<1>0. n \in Nat /\ n <= rounds(part)
  BY DEF GroupsFit, rounds
<1>1. ASSUME NEW r \in 0..n, NEW x \in G
      PROVE  (active(part, r, x) <=> Up(r, x)) /\ (r > 0 => incoming(part, r, x) = fill(part, r - 1, x))
  <2>1. parent_round(part, r) = r
    BY <1>0 DEF parent_round, rounds
  <2>2. ~GetsDown(part, r)
    BY <1>0 DEF GetsDown
  <2>3. active(part, r, x) <=> Up(r, x)
    BY <2>1 DEF active, merge_active, Place, Dim
  <2>4. incoming(part, r, x) = fill(part, r - 1, x)
    BY <2>1, <2>2 DEF incoming, merge_incoming
  <2> QED
    BY <2>3, <2>4
<1>2. ASSUME NEW r \in 0..(n - 1), NEW x \in G
      PROVE  /\ fill(part, r, x) \in [1..Size(part, r) -> G]
             /\ Pl(r, x) + 1 \in 1..Size(part, r) /\ Pl(r, x) \in 0..(Size(part, r) - 1)
             /\ \A i \in 1..Size(part, r) :
                  /\ Pl(r, fill(part, r, x)[i]) = i - 1
                  /\ \A q \in 0..(n - 1) \ {r} : Pl(q, fill(part, r, x)[i]) = Pl(q, x)
  <2>1. /\ fill(part, r, x) \in [1..Size(part, r) -> G]
        /\ Pl(r, x) + 1 \in 1..Size(part, r)
        /\ \A i \in 1..Size(part, r) :
             /\ Pl(r, fill(part, r, x)[i]) = i - 1
             /\ \A q \in 0..(n - 1) \ {r} : Pl(q, fill(part, r, x)[i]) = Pl(q, x)
    BY GroupOfBlock
  <2>2. fill(part, r, x)[Pl(r, x) + 1] = x
    BY GroupOfBlock
  <2>3. Pl(r, x) = (Pl(r, x) + 1) - 1
    <3> HIDE DEF Pl
    <3> QED
      BY <2>1, <2>2
  <2>4. Size(part, r) \in Nat
    BY DEF GroupsFit, Positive
  <2>5. Pl(r, x) \in 0..(Size(part, r) - 1)
    <3> DEFINE j == Pl(r, x) + 1
    <3>1. Pl(r, x) = j - 1 /\ j \in 1..Size(part, r)
      BY <2>1, <2>3
    <3> HIDE DEF j
    <3> QED
      BY <2>4, <3>1
  <2> QED
    BY <2>1, <2>5
<1>3. \A x, y \in G : (\A q \in 0..(n - 1) : Pl(q, x) = Pl(q, y)) => x = y
  BY PlacesDetermine
<1>4. /\ \A x \in G : K[0][x] = {x}
      /\ \A r \in 1..n : \A x \in G :
           K[r][x] = K[r - 1][x] \cup (IF active(part, r, x)
                                       THEN UNION {K[r - 1][h] : h \in ToSet(incoming(part, r, x))} ELSE {})
  <2>1. \A r \in 1..n : r \in 1..rounds(part)
    BY <1>0 DEF rounds
  <2> QED
    BY <2>1 DEF Gathers
<1> HIDE DEF n, Pl, G
<1>5. 0 \in P
  <2>1. ASSUME NEW x \in G, NEW y \in G, Alike(0, x, y) PROVE y \in K[0][x]
    BY <1>3, <1>4, <2>1
  <2> QED
    BY <1>0, <2>1
<1>6. ASSUME NEW r \in 0..(n - 1), r \in P PROVE r + 1 \in P
  <2>1. ASSUME NEW x \in G, NEW y \in G, Up(r + 1, x), Alike(r + 1, x, y) PROVE y \in K[r + 1][x]
    <3> DEFINE j == Pl(r, y) + 1
               F == fill(part, r, x)
               f == F[j]
    <3>0. r + 1 \in 0..n /\ r + 1 \in 1..n /\ (r + 1) - 1 = r /\ r + 1 > 0 /\ r \in Nat
      BY <1>0
    <3>1. j \in 1..Size(part, r) /\ j - 1 = Pl(r, y)
      BY <1>2
    <3>2. f \in G /\ f \in ToSet(F) /\ Pl(r, f) = Pl(r, y) /\ \A q \in 0..(n - 1) \ {r} : Pl(q, f) = Pl(q, x)
      <4>1. F \in [1..Size(part, r) -> G]
        BY <1>2
      <4>2. Pl(r, f) = j - 1 /\ \A q \in 0..(n - 1) \ {r} : Pl(q, f) = Pl(q, x)
        <5> HIDE DEF j
        <5> QED
          BY <1>2, <3>1
      <4> HIDE DEF F, j
      <4> QED
        BY <3>1, <4>1, <4>2 DEF ToSet
    <3> HIDE DEF f, F, j
    <3>3. Up(r, f)
      <4>1. ASSUME NEW t \in 0..(r - 1), part.kind # "swap" PROVE Pl(t, f) = 0
        <5>1. t \in 0..(n - 1) \ {r} /\ t \in 0..((r + 1) - 1)
          BY <1>0, <4>1
        <5>2. Pl(t, x) = 0
          BY <2>1, <4>1, <5>1
        <5> QED
          BY <3>2, <5>1, <5>2
      <4> QED
        BY <4>1
    <3>4. Alike(r, f, y)
      <4>1. ASSUME NEW q \in r..(n - 1) PROVE Pl(q, f) = Pl(q, y)
        <5>1. CASE q = r
          BY <3>2, <5>1
        <5>2. CASE q # r
          <6>1. q \in 0..(n - 1) \ {r} /\ q \in (r + 1)..(n - 1)
            BY <1>0, <5>2
          <6> QED
            BY <2>1, <3>2, <6>1
        <5> QED
          BY <5>1, <5>2
      <4> QED
        BY <4>1
    <3>5. y \in K[r][f]
      <4> HIDE DEF Up, Alike
      <4> QED
        BY <1>6, <3>2, <3>3, <3>4
    <3>6. active(part, r + 1, x) /\ incoming(part, r + 1, x) = F
      <4> HIDE DEF Up
      <4> QED
        BY <1>1, <2>1, <3>0 DEF F
    <3>7. K[r + 1][x] = K[r][x] \cup UNION {K[r][h] : h \in ToSet(F)}
      BY <1>4, <3>0, <3>6
    <3> QED
      BY <3>2, <3>5, <3>7
  <2>2. r + 1 \in 0..n
    BY <1>0
  <2> HIDE DEF Up, Alike
  <2> QED
    BY <2>1, <2>2
<1> HIDE DEF P
<1>7. 0..n \subseteq P
  BY <1>0, <1>5, <1>6, InductionTo
<1>8. n \in P /\ n \in 0..n
  BY <1>0, <1>7
<1>9. g \in G /\ Up(n, g)
  <2> HIDE DEF Up
  <2> QED
    BY <1>1, <1>8 DEF n, G
<1>10. ASSUME NEW y \in G PROVE y \in K[n][g]
  <2>1. Alike(n, g, y)
    BY <1>0
  <2> HIDE DEF Up, Alike
  <2> QED
    BY <1>8, <1>9, <2>1 DEF P
<1> QED
  BY <1>10 DEF n, G

\* Down a tree, round by round after base: what the root has gets to all blocks.
LEMMA GatherDown ==
  ASSUME NEW part, part.kind \in {"broadcast", "all_reduce"}, GroupsFit(part), GroupsFill(part),
         NEW K, Gathers(part, K), NEW X, NEW g \in Gids(Product(part.divisions)),
         NEW base, base = IF part.kind = "broadcast" THEN 0 ELSE BaseRounds(part),
         \A x \in Gids(Product(part.divisions)) : active(part, base, x) => X \subseteq K[base][x]
  PROVE  X \subseteq K[rounds(part)][g]
<1> DEFINE G == Gids(Product(part.divisions))
           n == BaseRounds(part)
           Pl(q, x) == Place(part, q, x)
           Top(r, x) == \A t \in 0..(r - 1) : Pl(t, x) = 0
           P == {t \in 0..n : \A x \in G : Top(n - t, x) => X \subseteq K[base + t][x]}
<1>0. n \in Nat /\ base \in Nat /\ rounds(part) = base + n /\ base \in {0, n}
  <2>1. n \in Nat
    BY DEF GroupsFit
  <2>2. rounds(part) = base + n
    BY <2>1 DEF rounds
  <2> QED
    BY <2>1, <2>2
<1>1. ASSUME NEW t \in 0..n, NEW x \in G
      PROVE  /\ active(part, base + t, x) <=> Top(n - t, x)
             /\ t > 0 => incoming(part, base + t, x) = <<fill(part, n - t, x)[1]>>
  <2>1. parent_round(part, base + t) = n - t
    <3>1. CASE part.kind = "broadcast"
      <4>1. base = 0
        BY <3>1
      <4> QED
        BY <1>0, <3>1, <4>1 DEF parent_round
    <3>2. CASE part.kind = "all_reduce"
      <4>1. base = n
        BY <3>2
      <4>2. ~(base + t < n) /\ rounds(part) - (base + t) = n - t
        BY <1>0, <4>1
      <4> QED
        BY <3>2, <4>2 DEF parent_round
    <3> QED
      BY <3>1, <3>2
  <2>2. t > 0 => GetsDown(part, base + t)
    BY <1>0 DEF GetsDown
  <2>3. active(part, base + t, x) <=> Top(n - t, x)
    BY <2>1 DEF active, merge_active, Place, Dim
  <2>4. t > 0 => incoming(part, base + t, x) = <<fill(part, n - t, x)[1]>>
    BY <2>1, <2>2 DEF incoming, merge_outgoing
  <2> QED
    BY <2>3, <2>4
<1>2. ASSUME NEW r \in 0..(n - 1), NEW x \in G
      PROVE  /\ fill(part, r, x)[1] \in G /\ Pl(r, fill(part, r, x)[1]) = 0
             /\ \A q \in 0..(n - 1) \ {r} : Pl(q, fill(part, r, x)[1]) = Pl(q, x)
  <2>1. /\ fill(part, r, x) \in [1..Size(part, r) -> G]
        /\ \A i \in 1..Size(part, r) :
             /\ Pl(r, fill(part, r, x)[i]) = i - 1
             /\ \A q \in 0..(n - 1) \ {r} : Pl(q, fill(part, r, x)[i]) = Pl(q, x)
    BY GroupOfBlock
  <2>2. 1 \in 1..Size(part, r) /\ 1 - 1 = 0
    BY DEF GroupsFit, Positive
  <2> HIDE DEF n, G, Pl
  <2>3. Pl(r, fill(part, r, x)[1]) = 1 - 1 /\ \A q \in 0..(n - 1) \ {r} : Pl(q, fill(part, r, x)[1]) = Pl(q, x)
    BY <2>1, <2>2
  <2>4. fill(part, r, x)[1] \in G
    BY <2>1, <2>2
  <2> QED
    BY <2>2, <2>3, <2>4
<1>4. \A r \in 1..(base + n) : \A x \in G :
        K[r][x] = K[r - 1][x] \cup (IF active(part, r, x)
                                    THEN UNION {K[r - 1][h] : h \in ToSet(incoming(part, r, x))} ELSE {})
  BY <1>0 DEF Gathers
<1>10. \A x \in G : active(part, base, x) => X \subseteq K[base][x]
  OBVIOUS
<1> HIDE DEF n, Pl, G
<1>5. 0 \in P
  <2>1. 0 \in 0..n /\ base + 0 = base
    BY <1>0
  <2> HIDE DEF Top
  <2>2. ASSUME NEW x \in G, Top(n - 0, x) PROVE X \subseteq K[base + 0][x]
    BY <1>1, <1>10, <2>1, <2>2
  <2> QED
    BY <2>1, <2>2
<1>6. ASSUME NEW t \in 0..(n - 1), t \in P PROVE t + 1 \in P
  <2>1. ASSUME NEW x \in G, Top(n - (t + 1), x) PROVE X \subseteq K[base + (t + 1)][x]
    <3> DEFINE r == n - (t + 1)
               f == fill(part, r, x)[1]
               b == base + (t + 1)
    <3>0. /\ r \in 0..(n - 1) /\ n - t = r + 1 /\ b - 1 = base + t /\ b \in 1..(base + n)
          /\ t + 1 \in 0..n /\ t + 1 > 0
      BY <1>0
    <3>2. f \in G /\ Pl(r, f) = 0 /\ \A q \in 0..(n - 1) \ {r} : Pl(q, f) = Pl(q, x)
      <4> HIDE DEF r
      <4> QED
        BY <1>2, <3>0
    <3>3. Top(n - t, f)
      <4> HIDE DEF f
      <4>1. ASSUME NEW q \in 0..((n - t) - 1) PROVE Pl(q, f) = 0
        <5>1. CASE q = r
          BY <3>2, <5>1
        <5>2. CASE q # r
          <6>1. q \in 0..(n - 1) \ {r} /\ q \in 0..(r - 1)
            BY <1>0, <3>0, <5>2
          <6> QED
            BY <2>1, <3>2, <6>1
        <5> QED
          BY <5>1, <5>2
      <4> QED
        BY <4>1
    <3>5. X \subseteq K[base + t][f]
      <4> HIDE DEF Top, f
      <4> QED
        BY <1>6, <3>2, <3>3
    <3>6. active(part, b, x) /\ incoming(part, b, x) = <<f>>
      <4> HIDE DEF Top
      <4> QED
        BY <1>1, <2>1, <3>0
    <3> HIDE DEF f, b, r
    <3>7. K[b][x] = K[base + t][x] \cup UNION {K[base + t][h] : h \in ToSet(<<f>>)}
      BY <1>4, <3>0, <3>6
    <3>8. f \in ToSet(<<f>>)
      BY DEF ToSet
    <3>9. X \subseteq K[b][x]
      BY <3>5, <3>7, <3>8
    <3> QED
      BY <3>9 DEF b
  <2>2. t + 1 \in 0..n
    BY <1>0
  <2> HIDE DEF Top
  <2> QED
    BY <2>1, <2>2
<1> HIDE DEF P
<1>7. 0..n \subseteq P
  BY <1>0, <1>5, <1>6, InductionTo
<1>8. n \in P
  BY <1>0, <1>7
<1>9. Top(n - n, g)
  BY <1>0
<1> HIDE DEF Top
<1> QED
  BY <1>0, <1>8, <1>9 DEF P, G

\* Nothing but blocks is gathered.
LEMMA GathersBlocks ==
  ASSUME NEW part, part.kind \in Kinds, GroupsFit(part), NEW K, Gathers(part, K),
         NEW g \in Gids(Product(part.divisions)), NEW r \in 0..rounds(part)
  PROVE  K[r][g] \subseteq Gids(Product(part.divisions))
<1> DEFINE G == Gids(Product(part.divisions))
           n == rounds(part)
           P == {t \in 0..n : \A x \in G : K[t][x] \subseteq G}
<1>0. n \in Nat
  BY DEF GroupsFit, rounds
<1>1. ASSUME NEW t \in 1..n, NEW x \in G, active(part, t, x) PROVE ToSet(incoming(part, t, x)) \subseteq G
  <2> DEFINE S == {y \in G : active(part, t - 1, y)}
             R == {y \in G : active(part, t, y)}
             I == [y \in G |-> incoming(part, t, y)]
             O == [y \in G |-> outgoing(part, t - 1, y)]
  <2>1. Matched(S, R, O, I)
    BY PartnersAgree, Zenon
  <2>2. x \in R
    BY <1>1
  <2>3. I[x] \in Seq(S) /\ I[x] = incoming(part, t, x)
    <3> HIDE DEF S, R, O
    <3>1. I[x] \in Seq(S)
      <4> HIDE DEF I
      <4> QED
        BY <2>1, <2>2, Zenon DEF Matched
    <3> QED
      BY <3>1
  <2>4. S \subseteq G
    OBVIOUS
  <2> HIDE DEF S, R, I, O, G
  <2> QED
    BY <2>3, <2>4 DEF ToSet
<1>2. /\ \A x \in G : K[0][x] = {x}
      /\ \A t \in 1..n : \A x \in G :
           K[t][x] = K[t - 1][x] \cup (IF active(part, t, x)
                                       THEN UNION {K[t - 1][h] : h \in ToSet(incoming(part, t, x))} ELSE {})
  BY DEF Gathers
<1> HIDE DEF n, G
<1>3. 0 \in P
  BY <1>0, <1>2
<1>4. ASSUME NEW t \in 0..(n - 1), t \in P PROVE t + 1 \in P
  <2>1. t + 1 \in 1..n /\ (t + 1) - 1 = t /\ t + 1 \in 0..n
    BY <1>0
  <2>2. ASSUME NEW x \in G PROVE K[t + 1][x] \subseteq G
    <3>1. K[t + 1][x] = K[t][x] \cup (IF active(part, t + 1, x)
                                      THEN UNION {K[t][h] : h \in ToSet(incoming(part, t + 1, x))} ELSE {})
      BY <1>2, <2>1
    <3>2. active(part, t + 1, x) => ToSet(incoming(part, t + 1, x)) \subseteq G
      BY <1>1, <2>1
    <3>3. \A y \in G : K[t][y] \subseteq G
      BY <1>4
    <3> QED
      BY <3>1, <3>2, <3>3
  <2> QED
    BY <2>1, <2>2
<1> HIDE DEF P
<1>5. 0..n \subseteq P
  BY <1>0, <1>3, <1>4, InductionTo
<1> QED
  BY <1>5 DEF P, G, n

\* After its last round a merge has everything at the blocks that are still active, a
\* swap and an all-reduce everywhere, and a broadcast has the first block's everywhere
\* (merge.hpp, swap.hpp, broadcast.hpp, all-reduce.hpp).
THEOREM PartnersGather ==
  ASSUME NEW part, part.kind \in Kinds, GroupsFit(part), GroupsFill(part),
         NEW K, Gathers(part, K), NEW g \in Gids(Product(part.divisions))
  PROVE  LET last == K[rounds(part)]
         IN  /\ part.kind = "broadcast" => 0 \in last[g]
             /\ part.kind = "merge" /\ active(part, rounds(part), g)
                  => last[g] = Gids(Product(part.divisions))
             /\ part.kind \in {"swap", "all_reduce"} => last[g] = Gids(Product(part.divisions))
<1> DEFINE G == Gids(Product(part.divisions))
           n == BaseRounds(part)
<1>0. rounds(part) \in Nat /\ rounds(part) \in 0..rounds(part) /\ n \in Nat
      /\ (part.kind # "all_reduce" => rounds(part) = n)
  BY DEF rounds, GroupsFit
<1>1. K[rounds(part)][g] \subseteq G
  BY <1>0, GathersBlocks
<1>2. CASE part.kind = "broadcast"
  <2>1. ASSUME NEW x \in G, active(part, 0, x) PROVE {0} \subseteq K[0][x]
    <3>1. parent_round(part, 0) = n
      BY <1>0, <1>2 DEF parent_round
    <3>2. \A t \in 0..(n - 1) : Place(part, t, x) = 0
      BY <1>2, <2>1, <3>1 DEF active, merge_active, Place, Dim
    <3>3. 0 \in G /\ \A t \in 0..(n - 1) : Place(part, t, 0) = 0
      BY FirstBlock
    <3>4. x = 0
      BY <3>2, <3>3, PlacesDetermine
    <3> QED
      BY <3>4 DEF Gathers
  <2> DEFINE X == {0}
  <2>2. X \subseteq K[rounds(part)][g]
    <3> DEFINE base == 0
    <3>1. /\ base = IF part.kind = "broadcast" THEN 0 ELSE n
          /\ \A x \in G : active(part, base, x) => X \subseteq K[base][x]
          /\ part.kind \in {"broadcast", "all_reduce"}
      BY <1>2, <2>1
    <3> HIDE DEF X, base
    <3> QED
      BY <3>1, GatherDown
  <2> QED
    BY <1>2, <2>2
<1>3. CASE part.kind \in {"merge", "swap"}
  <2>1. part.kind = "swap" => active(part, rounds(part), g)
    BY DEF active
  <2>2. active(part, n, g) => G \subseteq K[n][g]
    BY <1>3, GatherUp
  <2> QED
    BY <1>0, <1>1, <1>3, <2>1, <2>2
<1>4. CASE part.kind = "all_reduce"
  <2>1. \A x \in G : active(part, n, x) => G \subseteq K[n][x]
    BY <1>4, GatherUp
  <2>2. G \subseteq K[rounds(part)][g]
    BY <1>4, <2>1, GatherDown
  <2> QED
    BY <1>1, <1>4, <2>2
<1> QED
  BY <1>2, <1>3, <1>4 DEF Kinds

\* In a grid of one dimension a block is at the coordinate of its number.
LEMMA PlacesOfLine ==
  ASSUME NEW D \in Seq(Positive), Len(D) = 1
  PROVE  /\ Product(D) = D[1] /\ Dims(D) = {1} /\ Gids(Product(D)) = 0..(D[1] - 1)
         /\ \A g \in 0..(D[1] - 1) : gid_to_coords(g, D) \in [{1} -> Nat] /\ gid_to_coords(g, D)[1] = g
         /\ \A c \in [{1} -> 0..(D[1] - 1)] : coords_to_gid(c, D) = c[1]
<1> DEFINE b == D[1]
<1>1. b \in Nat \ {0} /\ 1..1 = {1} /\ D \in Seq(Nat \ {0}) /\ D \in Seq(Nat)
  BY DEF Positive
<1>2. Product(D) = b
  <2>1. D \in [1..1 -> Positive] /\ 1 \in 1..1
    OBVIOUS
  <2> QED
    BY <2>1, ProductOfOne
<1>3. ASSUME NEW g \in 0..(b - 1)
      PROVE  gid_to_coords(g, D) \in [{1} -> Nat] /\ gid_to_coords(g, D)[1] = g
  <2>1. PICK f \in [0..Len(D) -> Nat] :
          /\ f[0] = g /\ \A i \in 1..Len(D) : f[i] = f[i - 1] \div D[i]
          /\ gid_to_coords(g, D) = [i \in 1..Len(D) |-> f[i - 1] % D[i]]
    <3>1. g \in Nat
      BY <1>1
    <3> HIDE DEF b
    <3> QED
      BY <1>1, <3>1, CoordsLoop
  <2>2. gid_to_coords(g, D) = [i \in {1} |-> g % b]
    <3>1. gid_to_coords(g, D) = [i \in {1} |-> f[i - 1] % D[i]]
      BY <1>1, <2>1
    <3>2. \A i \in {1} : f[i - 1] = g /\ D[i] = b
      BY <2>1
    <3> HIDE DEF b
    <3> QED
      BY <3>1, <3>2
  <2>3. g % b = g
    <3>1. g \in Nat /\ b \in Nat /\ g < b
      BY <1>1
    <3> HIDE DEF b
    <3> QED
      BY <3>1, SMT
  <2> HIDE DEF b
  <2> QED
    BY <1>1, <2>2, <2>3
<1>4. ASSUME NEW c \in [{1} -> 0..(b - 1)] PROVE coords_to_gid(c, D) = c[1]
  <2>1. c \in [1..Len(D) -> Nat] /\ c[1] \in Nat
    BY <1>1
  <2>2. PICK f \in [1..(Len(D) + 1) -> Nat] :
          /\ f[Len(D) + 1] = 0 /\ \A i \in 1..Len(D) : f[i] = f[i + 1] * D[i] + c[i]
          /\ coords_to_gid(c, D) = f[1]
    <3> HIDE DEF b
    <3> QED
      BY <1>1, <2>1, GidLoop
  <2>3. f[2] = 0 /\ f[1] = f[2] * b + c[1]
    BY <2>2
  <2>4. 0 * b + c[1] = c[1]
    BY <1>1, <2>1
  <2> HIDE DEF b
  <2> QED
    BY <2>2, <2>3, <2>4
<1>5. Gids(Product(D)) = 0..(b - 1)
  BY <1>2 DEF Gids
<1> QED
  BY <1>1, <1>2, <1>3, <1>4, <1>5 DEF Dims

\* The parts above, in and below a digit make up a number.
LEMMA DigitParts ==
  ASSUME NEW s \in Positive, NEW k \in Positive, NEW x \in Nat
  PROVE  /\ x \div s = k * (x \div (s * k)) + Digit(x, s, k)
         /\ x = s * (x \div s) + (x % s) /\ x \div s \in Nat /\ x % s \in Nat
         /\ x \div (s * k) \in Nat /\ Digit(x, s, k) \in 0..(k - 1)
<1> DEFINE q == x \div s
<1>1. s \in Nat \ {0} /\ k \in Nat \ {0}
  BY DEF Positive
<1>2. q \in Nat /\ x = s * q + (x % s) /\ x % s \in Nat
  <2>1. q \in Nat /\ x % s \in 0..(s - 1) /\ x = s * q + (x % s)
    BY <1>1, NatDivision
  <2> DEFINE z == x % s
  <2>2. z \in 0..(s - 1)
    BY <2>1
  <2> HIDE DEF z, q
  <2>3. z \in Nat
    BY <1>1, <2>2
  <2> QED
    BY <2>1, <2>3 DEF z
<1>3. Digit(x, s, k) = q % k /\ x \div (s * k) = q \div k
  BY DivisionTwice DEF Digit
<1> HIDE DEF q
<1>4. q = k * (q \div k) + (q % k) /\ q \div k \in Nat /\ q % k \in 0..(k - 1)
  BY <1>1, <1>2, NatDivision
<1> QED
  BY <1>2, <1>3, <1>4 DEF q

\* The blocks that a round brings together, in numbers of one dimension: those that
\* have the same part above and below its digit.
InLine(F, s, k, N, g) ==
  /\ \A i \in 1..k : F[i] \div s = (g \div (s * k)) * k + (i - 1)
  /\ ToSet(F) = {f \in 0..(N - 1) : f % s = g % s /\ f \div (s * k) = g \div (s * k)}

LEMMA GroupOfLine ==
  ASSUME NEW s \in Positive, NEW k \in Positive, NEW N \in Positive, Divides(s * k, N),
         NEW g \in 0..(N - 1), NEW F,
         DOMAIN F = 1..k, \A i \in 1..k : F[i] = MovedTo(g, s, k, i - 1)
  PROVE  InLine(F, s, k, N, g)
<1> DEFINE w == s * k
           a == g \div w
<1>0. g \in Nat /\ N \in Nat /\ k \in Nat /\ s \in Nat /\ \A i \in 1..k : i - 1 \in 0..(k - 1) /\ i - 1 \in Nat
  BY DEF Positive
<1>1. ASSUME NEW j \in 0..(k - 1)
      PROVE  /\ MovedTo(g, s, k, j) \in Nat /\ MovedTo(g, s, k, j) < N
             /\ Digit(MovedTo(g, s, k, j), s, k) = j
             /\ MovedTo(g, s, k, j) \div w = a /\ MovedTo(g, s, k, j) % s = g % s
  <2>1. g < N
    BY <1>0
  <2> DEFINE y == MovedTo(g, s, k, j)
  <2>2. y \in Nat /\ Digit(y, s, k) = j /\ y \div (s * k) = g \div (s * k) /\ y % s = g % s
    <3>1. g \in Nat /\ s \in Positive /\ k \in Positive /\ j \in 0..(k - 1)
      BY <1>0
    <3> HIDE DEF y
    <3> QED
      BY Zenon, <3>1, DigitMove DEF y
  <2>3. y < N
    BY <1>0, <2>1, DigitMoveFits
  <2> HIDE DEF y
  <2> QED
    BY <2>2, <2>3 DEF y
<1>2. a \in Nat /\ a * k = k * a /\ k * a \in Nat
  <2>1. a \in Nat
    BY <1>0, DigitParts
  <2> HIDE DEF a
  <2> QED
    BY <1>0, <2>1, Products
<1>3. ASSUME NEW i \in 1..k PROVE F[i] \div s = a * k + (i - 1)
  <2> DEFINE y == MovedTo(g, s, k, i - 1)
  <2>1. y \in Nat /\ y \div w = a /\ Digit(y, s, k) = i - 1 /\ F[i] = y
    BY <1>0, <1>1
  <2> HIDE DEF y
  <2>2. y \div s = k * (y \div w) + Digit(y, s, k)
    BY <2>1, DigitParts
  <2> HIDE DEF a, w
  <2> QED
    BY <1>2, <2>1, <2>2
<1>4. ASSUME NEW i \in 1..k PROVE F[i] \in 0..(N - 1) /\ F[i] % s = g % s /\ F[i] \div w = a
  <2> DEFINE y == MovedTo(g, s, k, i - 1)
  <2>1. y \in Nat /\ y < N /\ y \div w = a /\ y % s = g % s /\ F[i] = y
    BY <1>0, <1>1
  <2> HIDE DEF y, a, w
  <2> QED
    BY <1>0, <2>1
<1>5. ASSUME NEW f \in 0..(N - 1), f % s = g % s, f \div w = a PROVE \E i \in 1..k : F[i] = f
  <2> DEFINE j == Digit(f, s, k)
             y == MovedTo(g, s, k, j)
  <2>1. f \in Nat /\ j \in 0..(k - 1) /\ f = s * (f \div s) + (f % s)
    <3>1. f \in Nat
      BY <1>0
    <3> QED
      BY <3>1, DigitParts
  <2>2. j + 1 \in 1..k /\ (j + 1) - 1 = j
    <3> HIDE DEF j
    <3> QED
      BY <1>0, <2>1
  <2>3. F[j + 1] = y
    <3> HIDE DEF j
    <3> QED
      BY <2>2
  <2>4. y \in Nat /\ y \div w = f \div w /\ y % s = f % s /\ Digit(y, s, k) = Digit(f, s, k)
    <3>1. j \in 0..(k - 1)
      BY <2>1
    <3>2. y \in Nat /\ y \div w = a /\ y % s = g % s /\ Digit(y, s, k) = j
      <4> HIDE DEF j, a, w
      <4> QED
        BY <1>1, <3>1
    <3> QED
      BY <1>5, <3>2
  <2> HIDE DEF y, j, a
  <2>5. y \div s = f \div s
    BY <2>1, <2>4, DigitJoin
  <2>6. y = s * (y \div s) + (y % s)
    BY <2>4, DigitParts
  <2>7. y = f
    BY Zenon, <2>1, <2>4, <2>5, <2>6
  <2> QED
    BY <2>2, <2>3, <2>7
<1>6. DOMAIN F = 1..k
  OBVIOUS
<1>7. ToSet(F) = {f \in 0..(N - 1) : f % s = g % s /\ f \div w = a}
  <2> DEFINE S == {f \in 0..(N - 1) : f % s = g % s /\ f \div w = a}
  <2>1. \A y \in ToSet(F) : y \in S
    <3> HIDE DEF a, w
    <3> QED
      BY <1>4, <1>6 DEF ToSet
  <2>2. \A y \in S : y \in ToSet(F)
    <3> HIDE DEF a, w
    <3> QED
      BY <1>5, <1>6 DEF ToSet
  <2> QED
    BY <2>1, <2>2
<1> QED
  BY <1>3, <1>7 DEF InLine

\* The partners of an all-to-all cut a row of blocks into runs: w[r] is how long they
\* are in round r (all-to-all.hpp:44).
CutsRuns(part, w) ==
  /\ w[0] = Product(part.divisions)
  /\ \A r \in 1..rounds(part) : w[r] = w[r - 1] \div Len(outgoing(part, r - 1, 0))

PartsOfRuns(part, w) ==
  LET G == Gids(Product(part.divisions))
  IN  /\ w[rounds(part)] = 1 /\ \A r \in 0..rounds(part) : w[r] \in Positive
      /\ \A r \in 1..rounds(part) : \A g \in G :
           LET out == outgoing(part, r - 1, g)
           IN  /\ w[r - 1] = Len(out) * w[r]
               /\ \A i \in DOMAIN out : out[i] \div w[r] = (g \div w[r - 1]) * Len(out) + (i - 1)
               /\ ToSet(incoming(part, r, g))
                    = {f \in G : f % w[r] = g % w[r] /\ f \div w[r - 1] = g \div w[r - 1]}

\* The partners of a round share a run, and are as far into its parts; each gets a part
\* of the run, in order; at last each block is left with a run of its own.
THEOREM PartnersCutRuns ==
  ASSUME NEW part, part.kind = "swap", GroupsFit(part), GroupsFill(part), ~part.contiguous,
         Len(part.divisions) = 1, NEW w, CutsRuns(part, w)
  PROVE  PartsOfRuns(part, w)
<1> DEFINE D == part.divisions
           N == D[1]
           n == BaseRounds(part)
           H(i) == Grouped(part, i, 1)
           s(r) == step(part, r)
           k(r) == Size(part, r)
           Fill(r, g) == fill(part, r, g)
<1>0. n \in Nat /\ rounds(part) = n /\ D \in Seq(Positive) /\ N \in Positive
  BY DEF GroupsFit, rounds
<1>1. /\ Product(D) = N /\ Dims(D) = {1} /\ Gids(Product(D)) = 0..(N - 1)
      /\ \A g \in 0..(N - 1) : gid_to_coords(g, D) \in [{1} -> Nat] /\ gid_to_coords(g, D)[1] = g
      /\ \A c \in [{1} -> 0..(N - 1)] : coords_to_gid(c, D) = c[1]
  BY <1>0, PlacesOfLine
<1>2. ASSUME NEW r \in 0..(n - 1)
      PROVE  /\ s(r) \in Positive /\ k(r) \in Positive /\ kv(part, r).dim = 1 /\ Divides(s(r) * k(r), N)
             /\ s(r) = N \div H(r + 1) /\ s(r) * k(r) = N \div H(r)
  <2>1. Dim(part, r) = 1
    BY <1>1 DEF GroupsFit
  <2>2. s(r) \in Positive /\ k(r) \in Positive /\ Divides(s(r) * k(r), N)
    BY <2>1 DEF GroupsFit
  <2>3. s(r) = N \div H(r + 1) /\ s(r) * k(r) = N \div H(r)
    BY <2>1, StepsOfRound
  <2> QED
    BY <2>1, <2>2, <2>3 DEF Dim
<1>3. ASSUME NEW r \in 0..(n - 1), NEW g \in 0..(N - 1)
      PROVE  Fill(r, g) = [i \in 1..k(r) |-> MovedTo(g, s(r), k(r), i - 1)]
  <2> DEFINE c == gid_to_coords(g, D)
             to_(i) == MovedTo(g, s(r), k(r), i - 1)
  <2>1. c \in [{1} -> Nat] /\ c[1] = g
    BY <1>1
  <2>2. ASSUME NEW i \in 1..k(r) PROVE to_(i) \in 0..(N - 1)
    <3>1. s(r) \in Positive /\ k(r) \in Positive /\ Divides(s(r) * k(r), N)
      BY <1>2
    <3>2. g \in Nat /\ g < N /\ N \in Nat /\ i - 1 \in 0..(k(r) - 1)
      BY <1>0, <3>1, SMTT(60) DEF Positive
    <3> DEFINE y == to_(i)
               N_ == N
    <3>3. y \in Nat /\ y < N_ /\ N_ \in Nat
      <4> HIDE DEF N, s, k
      <4> QED
        BY <3>1, <3>2, DigitMove, DigitMoveFits
    <3> HIDE DEF y, N_
    <3>4. y \in 0..(N_ - 1)
      BY <3>3
    <3> QED
      BY <3>4 DEF y, N_
  <2>3. Fill(r, g) = [i \in 1..k(r) |-> coords_to_gid([c EXCEPT ![1] = MovedTo(c[1], s(r), k(r), i - 1)], D)]
    BY <1>2 DEF fill, MovedTo, Digit, group_position, Size
  <2> HIDE DEF c, Fill, N, s, k
  <2>4. Fill(r, g) = [i \in 1..k(r) |-> coords_to_gid([c EXCEPT ![1] = to_(i)], D)]
    BY <2>1, <2>3
  <2> HIDE DEF to_
  <2>5. ASSUME NEW i \in 1..k(r) PROVE coords_to_gid([c EXCEPT ![1] = to_(i)], D) = to_(i)
    <3>1. [c EXCEPT ![1] = to_(i)] = [j \in {1} |-> to_(i)]
      BY <2>1
    <3>2. [j \in {1} |-> to_(i)] \in [{1} -> 0..(N - 1)]
      BY <2>2
    <3> HIDE DEF D
    <3> QED
      BY <1>1, <3>1, <3>2
  <2>6. Fill(r, g) = [i \in 1..k(r) |-> to_(i)]
    <3> HIDE DEF D
    <3> QED
      BY <2>4, <2>5
  <2> QED
    BY <2>6 DEF to_
<1>4. ASSUME NEW r \in 1..n, NEW g
      PROVE  outgoing(part, r - 1, g) = Fill(r - 1, g) /\ incoming(part, r, g) = Fill(r - 1, g)
  <2>1. ~SendsDown(part, r - 1) /\ ~GetsDown(part, r) /\ parent_round(part, r) = r
    BY DEF SendsDown, GetsDown, parent_round
  <2> QED
    BY <2>1 DEF outgoing, incoming, merge_incoming
<1>5. w[0] = N /\ \A r \in 1..n : w[r] = w[r - 1] \div Len(outgoing(part, r - 1, 0))
  BY <1>0, <1>1 DEF CutsRuns
<1>6. H(0) = 1 /\ H(n) = N
  <2>1. \A i \in 1..n : part.kvs[i].size \in Positive
    BY DEF GroupsFill
  <2>2. H(n) = N
    BY <1>1 DEF GroupsFill
  <2> QED
    BY <1>0, <2>1, <2>2, GroupedLoop
<1>7. N \div N = 1 /\ N \div 1 = N /\ 0 \in 0..(N - 1)
  <2>1. N \in Nat \ {0}
    BY <1>0 DEF Positive
  <2>2. N = N * 1 + 0 /\ 1 \in Int /\ 0 \in 0..(N - 1)
    BY <2>1
  <2> HIDE DEF N
  <2>3. N \div 1 = N
    BY <2>1, SMT
  <2> QED
    BY <2>1, <2>2, <2>3, DivMod
<1>8. rounds(part) = n /\ Gids(Product(D)) = 0..(N - 1)
  BY <1>0, <1>1
<1> HIDE DEF D, N, n, H, s, k, Fill
<1>9. \A x, y \in Positive : (x * y) \div y = x /\ x * y = y * x
  <2>1. ASSUME NEW x \in Positive, NEW y \in Positive PROVE (x * y) \div y = x /\ x * y = y * x
    <3> DEFINE a == x * y
    <3>1. y \in Nat \ {0} /\ x \in Int /\ 0 \in 0..(y - 1) /\ a = y * x + 0 /\ x * y = y * x
      <4>1. x * y \in Nat /\ x * y = y * x /\ y \in Nat \ {0}
        BY Products DEF Positive
      <4> QED
        BY <4>1 DEF Positive
    <3> HIDE DEF a
    <3>2. a \div y = x
      BY <3>1, DivMod
    <3> QED
      BY <3>1, <3>2 DEF a
  <2> QED
    BY <2>1
<1>10. ASSUME NEW r \in 0..(n - 1), w[r] = N \div H(r)
       PROVE  w[r] = s(r) * k(r) /\ w[r + 1] = s(r) /\ w[r + 1] = N \div H(r + 1)
  <2>1. r + 1 \in 1..n /\ (r + 1) - 1 = r
    BY <1>0
  <2>2. w[r + 1] = w[r] \div Len(Fill(r, 0))
    BY <1>4, <1>5, <2>1
  <2>3. Fill(r, 0) = [i \in 1..k(r) |-> MovedTo(0, s(r), k(r), i - 1)] /\ k(r) \in Positive /\ s(r) \in Positive
    BY <1>2, <1>3, <1>7
  <2>4. Len(Fill(r, 0)) = k(r)
    <3>1. k(r) \in Nat
      BY <2>3 DEF Positive
    <3> QED
      BY <2>3, <3>1
  <2>5. w[r] = s(r) * k(r)
    BY <1>2, <1>10
  <2> QED
    BY <1>2, <1>9, <2>2, <2>3, <2>4, <2>5
<1> DEFINE P == {r \in 0..n : w[r] = N \div H(r)}
<1>11. 0 \in P
  BY <1>0, <1>5, <1>6, <1>7
<1>12. ASSUME NEW r \in 0..(n - 1), r \in P PROVE r + 1 \in P
  <2>1. r + 1 \in 0..n
    BY <1>0
  <2> QED
    BY <1>10, <1>12, <2>1
<1> HIDE DEF P
<1>13. 0..n \subseteq P
  BY <1>0, <1>11, <1>12, InductionTo
<1>14. ASSUME NEW r \in 0..(n - 1) PROVE w[r] = s(r) * k(r) /\ w[r + 1] = s(r)
  <2>1. r \in P
    BY <1>0, <1>13
  <2> QED
    BY <1>10, <2>1 DEF P
<1>15. w[n] = 1
  <2>1. n \in P
    BY <1>0, <1>13
  <2> QED
    BY <1>6, <1>7, <2>1 DEF P
<1>16. ASSUME NEW r \in 0..n PROVE w[r] \in Positive
  <2>1. CASE r = n
    BY <1>15, <2>1 DEF Positive
  <2>2. CASE r # n
    <3>1. r \in 0..(n - 1)
      BY <1>0, <2>2
    <3> DEFINE a == s(r)
               b == k(r)
    <3>2. a \in Positive /\ b \in Positive /\ w[r] = a * b
      BY <1>2, <1>14, <3>1
    <3> HIDE DEF a, b
    <3> QED
      BY <3>2, PositiveTimes
  <2> QED
    BY <2>1, <2>2
<1>17. ASSUME NEW r \in 1..n, NEW g \in 0..(N - 1)
       PROVE  LET out == outgoing(part, r - 1, g)
              IN  /\ w[r - 1] = Len(out) * w[r]
                  /\ \A i \in DOMAIN out : out[i] \div w[r] = (g \div w[r - 1]) * Len(out) + (i - 1)
                  /\ ToSet(incoming(part, r, g))
                       = {f \in 0..(N - 1) : f % w[r] = g % w[r] /\ f \div w[r - 1] = g \div w[r - 1]}
  <2> DEFINE q == r - 1
             F == Fill(q, g)
             a == s(q)
             b == k(q)
  <2>1. q \in 0..(n - 1) /\ q + 1 = r
    BY <1>0
  <2>2. outgoing(part, q, g) = F /\ incoming(part, r, g) = F
    BY <1>4
  <2>3. w[q] = a * b /\ w[r] = a
    <3> HIDE DEF q
    <3> QED
      BY <1>14, <2>1
  <2>4. a \in Positive /\ b \in Positive /\ Divides(a * b, N) /\ F = [i \in 1..b |-> MovedTo(g, a, b, i - 1)]
    <3> HIDE DEF q
    <3> QED
      BY <1>2, <1>3, <2>1
  <2> HIDE DEF q, F, a, b
  <2>5. DOMAIN F = 1..b /\ Len(F) = b
    <3>1. b \in Nat
      BY <2>4 DEF Positive
    <3> QED
      BY <2>4, <3>1
  <2>6. /\ \A i \in 1..b : F[i] \div a = (g \div (a * b)) * b + (i - 1)
        /\ ToSet(F) = {f \in 0..(N - 1) : f % a = g % a /\ f \div (a * b) = g \div (a * b)}
    <3>1. /\ g \in 0..(N - 1) /\ N \in Positive /\ a \in Positive /\ b \in Positive /\ Divides(a * b, N)
          /\ DOMAIN F = 1..b /\ \A i \in 1..b : F[i] = MovedTo(g, a, b, i - 1)
      BY <1>0, <2>4
    <3>2. InLine(F, a, b, N, g)
      BY <3>1, GroupOfLine
    <3> QED
      BY Zenon, <3>2 DEF InLine
  <2>7. a * b = b * a
    BY <1>9, <2>4
  <2>8. /\ w[q] = Len(F) * w[r]
        /\ \A i \in DOMAIN F : F[i] \div w[r] = (g \div w[q]) * Len(F) + (i - 1)
        /\ ToSet(F) = {f \in 0..(N - 1) : f % w[r] = g % w[r] /\ f \div w[q] = g \div w[q]}
    BY Zenon, <2>3, <2>5, <2>6, <2>7
  <2> QED
    BY <2>2, <2>8 DEF q
<1> QED
  BY <1>8, <1>15, <1>16, <1>17 DEF PartsOfRuns, D

=============================================================================
