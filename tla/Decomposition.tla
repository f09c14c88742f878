--------------------------- MODULE Decomposition ---------------------------
(***************************************************************************)
(* RegularDecomposer over a discrete domain                                *)
(* (include/diy/decomposition.hpp): the grid of blocks, their bounds and   *)
(* links, and the blocks of a point.                                       *)
(*                                                                         *)
(* A decomposer is a record with, per dimension, the bounds min and max of *)
(* the domain, share_face, wrap, ghosts and divisions.  Dimensions count   *)
(* from 1 here, blocks and coordinates from 0.                             *)
(***************************************************************************)
EXTENDS Integers, Sequences, FiniteSets, SequencesExt

Dims(divisions) == DOMAIN divisions

\* The parameters of a decomposer of so many dimensions.
Decomposers(dims) ==
  [min : [dims -> Int], max : [dims -> Int], share_face : [dims -> BOOLEAN],
   wrap : [dims -> BOOLEAN], ghosts : [dims -> Nat], divisions : [dims -> Nat]]

\* The product of the numbers x, and of all x but those that are 0.
Product(x) ==
  LET f[i \in 0..Len(x)] == IF i = 0 THEN 1 ELSE f[i - 1] * x[i]
  IN  f[Len(x)]
Given(divisions) == Product([i \in Dims(divisions) |-> IF divisions[i] = 0 THEN 1 ELSE divisions[i]])

\* The first dimension varies fastest.
gid_to_coords(gid, divisions) ==
  LET left[i \in 0..Len(divisions)] == IF i = 0 THEN gid ELSE left[i - 1] \div divisions[i]
  IN  [i \in Dims(divisions) |-> left[i - 1] % divisions[i]]

coords_to_gid(coords, divisions) ==
  LET n == Len(divisions)
      gid[i \in 0..n] == IF i = 0 THEN 0
                         ELSE gid[i - 1] * divisions[n - i + 1] + coords[n - i + 1]
  IN  gid[n]

-----------------------------------------------------------------------------
(***************************************************************************)
(* BoundsHelper: the i-th of n equal parts of lo..hi; the last one takes   *)
(* the remainder.  With shared faces a part ends where the next begins.    *)
(***************************************************************************)
width(n, lo, hi) == (hi - lo + 1) \div n

from(i, n, lo, hi) == lo + width(n, lo, hi) * i

to(i, n, lo, hi, shared) ==
  IF i = n - 1 THEN hi ELSE from(i + 1, n, lo, hi) - (IF shared THEN 0 ELSE 1)

\* Mutant: the part before one whose shared face x is on is left out.
lower_Unshared(x, n, lo, hi, shared) ==
  LET res == (x - lo) \div width(n, lo, hi)
  IN  IF res >= n /\ x <= hi THEN n - 1 ELSE res

\* The first part that has x, and the part after the last one that has it.
lower(x, n, lo, hi, shared) ==
  LET res == (x - lo) \div width(n, lo, hi)
      in  == IF res >= n /\ x <= hi THEN n - 1 ELSE res
  IN  IF in > 0 /\ shared /\ x = from(in, n, lo, hi) THEN in - 1 ELSE in

upper(x, n, lo, hi, shared) ==
  LET res == (x - lo) \div width(n, lo, hi) + 1
      in  == IF res > n /\ x <= hi THEN n ELSE res
  IN  IF in < n /\ shared /\ x = from(in, n, lo, hi) THEN in + 1 ELSE in

wrap_period(lo, hi) == hi - lo + 1
wrap_shift(x, lo, hi) == (x - lo) \div wrap_period(lo, hi)
normalize_wrap(x, lo, hi) == lo + ((x - lo) % wrap_period(lo, hi))

-----------------------------------------------------------------------------
(***************************************************************************)
(* The divisions.  A dimension whose division is 0 is free.                *)
(***************************************************************************)
\* The factors of n when the next one is always next[m], where m is what remains.
Factors(n, next) ==
  LET left[t \in 0..n] == IF t = 0 THEN n
                          ELSE LET m == left[t - 1] IN m \div next[m]
      count == Min({t \in 0..n : left[t] = 1})
  IN  [t \in 1..count |-> next[left[t - 1]]]

\* The prime factors, the smallest first.
factor(n) == Factors(n, [m \in 1..n |-> IF m = 1 THEN 1 ELSE Min({d \in 2..m : m % d = 0})])

\* The free dimension with the largest blocks so far, the one with the fewest
\* blocks among those, the first among those (detail::Div::operator<).
Widest(missing) ==
  CHOOSE i \in DOMAIN missing : \A j \in DOMAIN missing \ {i} :
    \/ missing[i].b_size > missing[j].b_size
    \/ /\ missing[i].b_size = missing[j].b_size
       /\ missing[i].nb < missing[j].nb \/ (missing[i].nb = missing[j].nb /\ i < j)

\* What fill_divisions returns when it throws.
Throws == <<>>

\* Splits the widest dimension into f times as many blocks.
Split(dec, missing, f) ==
  LET i == Widest(missing)
      n == missing[i].nb * f
      b == to(0, n, dec.min[i], dec.max[i], dec.share_face[i])
           - from(0, n, dec.min[i], dec.max[i])
  IN  IF b < 0 THEN Throws
      ELSE [missing EXCEPT ![i] = [nb |-> n, b_size |-> b]]

fill_divisions(dec, nblocks) ==
  LET given   == Given(dec.divisions)
      free    == {i \in Dims(dec.divisions) : dec.divisions[i] = 0}
      missing == [i \in free |-> [nb |-> 1, b_size |-> dec.max[i] - dec.min[i]]]
      factors == factor(nblocks \div given)
      n       == Len(factors)
      split[j \in 0..n] == IF j = 0 THEN missing
                           ELSE LET last == split[j - 1]
                                IN  IF last = Throws THEN Throws
                                    ELSE Split(dec, last, factors[n - j + 1])
  IN  IF nblocks % given # 0 THEN Throws
      ELSE IF free = {} THEN dec.divisions
      ELSE IF split[n] = Throws THEN Throws
      ELSE [i \in Dims(dec.divisions) |-> IF i \in free THEN split[n][i].nb ELSE dec.divisions[i]]

-----------------------------------------------------------------------------
(***************************************************************************)
(* Bounds and links of a block.                                            *)
(***************************************************************************)
fill_bounds(dec, coords, add_ghosts) ==
  LET ghost(i) == IF add_ghosts THEN dec.ghosts[i] ELSE 0
      lo(i) == from(coords[i], dec.divisions[i], dec.min[i], dec.max[i]) - ghost(i)
      hi(i) == to(coords[i], dec.divisions[i], dec.min[i], dec.max[i], dec.share_face[i]) + ghost(i)
      clip(i) == add_ghosts /\ ~dec.wrap[i]
  IN  [min |-> [i \in Dims(dec.divisions) |-> IF clip(i) THEN Max({dec.min[i], lo(i)}) ELSE lo(i)],
       max |-> [i \in Dims(dec.divisions) |-> IF clip(i) THEN Min({dec.max[i], hi(i)}) ELSE hi(i)]]

\* Mutant: only the steps across a face.
Directions_Faces(divisions) ==
  {dir \in [Dims(divisions) -> {-1, 0, 1}] :
     Cardinality({i \in Dims(divisions) : dir[i] # 0}) = 1}

\* The steps from a block to those around it.
Directions(divisions) ==
  [Dims(divisions) -> {-1, 0, 1}] \ {[i \in Dims(divisions) |-> 0]}

\* decompose: the neighbors in a block's link.  A step out of the grid comes in
\* again at the other end of a dimension that wraps.
Neighbors(dec, gid) ==
  LET coords == gid_to_coords(gid, dec.divisions)
      out(dir, i) == IF coords[i] + dir[i] < 0 THEN -1
                     ELSE IF coords[i] + dir[i] >= dec.divisions[i] THEN 1 ELSE 0
      in(dir) == {i \in Dims(dec.divisions) : out(dir, i) = 0 \/ dec.wrap[i]}
      there(dir) == [i \in Dims(dec.divisions) |-> (coords[i] + dir[i]) % dec.divisions[i]]
  IN  {[gid  |-> coords_to_gid(there(dir), dec.divisions),
        dir  |-> dir,
        wrap |-> [i \in Dims(dec.divisions) |-> out(dir, i)]] :
       dir \in {d \in Directions(dec.divisions) : in(d) = Dims(dec.divisions)}}

-----------------------------------------------------------------------------
(***************************************************************************)
(* The blocks of a point.                                                  *)
(***************************************************************************)
\* The coordinate within the domain, and whether there is one.
Wrapped(dec, p, i) == IF dec.wrap[i] THEN normalize_wrap(p[i], dec.min[i], dec.max[i]) ELSE p[i]
Outside(dec, p, i) == ~dec.wrap[i] /\ p[i] \notin dec.min[i]..dec.max[i]

\* The blocks along an axis that have the point within their ghosts: from
\* "bottom" to before "top".
top_bottom(dec, p, i) ==
  LET n == dec.divisions[i]
      lo == dec.min[i]
      hi == dec.max[i]
      l == Wrapped(dec, p, i) - dec.ghosts[i]
      r == Wrapped(dec, p, i) + dec.ghosts[i]
      bottom == wrap_shift(l, lo, hi) * n
                  + lower(normalize_wrap(l, lo, hi), n, lo, hi, dec.share_face[i])
      top == wrap_shift(r, lo, hi) * n
               + upper(normalize_wrap(r, lo, hi), n, lo, hi, dec.share_face[i])
  IN  IF Outside(dec, p, i) THEN [bottom |-> 0, top |-> 0]
      ELSE IF dec.wrap[i]
      THEN IF top - bottom > n THEN [bottom |-> 0, top |-> n]
           ELSE [bottom |-> bottom, top |-> top]
      ELSE [bottom |-> Max({0, lower(l, n, lo, hi, dec.share_face[i])}),
            top    |-> Min({n, upper(r, n, lo, hi, dec.share_face[i])})]

\* The same blocks, as a set of gids, and their number.
point_to_gids(dec, p) ==
  LET coords(i) == top_bottom(dec, p, i).bottom..(top_bottom(dec, p, i).top - 1)
  IN  {coords_to_gid([i \in Dims(dec.divisions) |-> x[i] % dec.divisions[i]], dec.divisions) :
       x \in {y \in [Dims(dec.divisions) -> UNION {coords(i) : i \in Dims(dec.divisions)}] :
              \A i \in Dims(dec.divisions) : y[i] \in coords(i)}}

num_gids(dec, p) ==
  Product([i \in Dims(dec.divisions) |-> top_bottom(dec, p, i).top - top_bottom(dec, p, i).bottom])

\* The lowest block whose core has the point, or -1.
point_to_gid(dec, p) ==
  LET n(i) == dec.divisions[i]
      bottom(i) == lower(Wrapped(dec, p, i), n(i), dec.min[i], dec.max[i], dec.share_face[i])
  IN  IF \E i \in Dims(dec.divisions) : Outside(dec, p, i) THEN -1
      ELSE coords_to_gid([i \in Dims(dec.divisions) |-> Max({0, Min({n(i) - 1, bottom(i)})})],
                         dec.divisions)
=============================================================================
