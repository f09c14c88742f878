---------------------------- MODULE ReduceProofs ----------------------------
(***************************************************************************)
(* Theorems about Reduce, for any number of ranks and any programs.  The   *)
(* invariant has layers: BalanceInv, which holds whatever the grids and    *)
(* the partners are; that of the messages, for which the partners of two   *)
(* successive rounds must match, as ProgramsMatch says; and that of the    *)
(* data, which follows what each block has heard, and from which the       *)
(* result comes by ProgramsReduce.                                         *)
(***************************************************************************)
EXTENDS Reduce, CollectiveBalanceProofs

-----------------------------------------------------------------------------
(***************************************************************************)
(* The programs.                                                           *)
(***************************************************************************)
\* The parameters of a program are those that the lemmas about grids ask for.
LEMMA ProgramFacts ==
  ASSUME NEW x \in Programs
  PROVE  /\ IsDecomposer(x.dec) /\ "divisions" \in DOMAIN x.dec /\ x.nblocks \in Positive
         /\ (Free(x.dec) = {} => Product(x.dec.divisions) = x.nblocks)
         /\ x.k \in Nat \ {0, 1} /\ x.contiguous \in BOOLEAN /\ x.op \in Kinds \cup {"all_to_all"}
<1> DEFINE dec == x.dec
           divisions == dec.divisions
           dims == Dims(divisions)
<1>1. /\ divisions \in Seq(Nat) /\ divisions # <<>> /\ dec \in Decomposers(dims)
      /\ (\A i \in dims : divisions[i] # 0) => Product(divisions) = x.nblocks
      /\ x.op \in Kinds \cup {"all_to_all"} /\ x.k \in Nat \ {0, 1} /\ x.contiguous \in BOOLEAN
  BY ProgramsAssumption
<1>2. x.nblocks \in Positive
  BY BalanceAssumption DEF Positive
<1> HIDE DEF dec
<1>3. dec.min \in [dims -> Int] /\ dec.max \in [dims -> Int] /\ "divisions" \in DOMAIN dec
  <2> HIDE DEF dims
  <2> QED
    BY <1>1 DEF Decomposers
<1>4. IsDecomposer(dec)
  BY <1>1, <1>3 DEF IsDecomposer
<1>5. Free(dec) = {} => \A i \in dims : divisions[i] # 0
  BY DEF Free
<1> QED
  BY <1>1, <1>2, <1>3, <1>4, <1>5 DEF dec

\* The grid of a program.
LEMMA GridOfProgram ==
  ASSUME NEW x \in Programs, Constructed(x).dec.divisions # Throws
  PROVE  LET D == fill_divisions(x.dec, x.nblocks)
         IN  /\ D # Throws /\ D \in Seq(Positive) /\ D # <<>> /\ Product(D) = x.nblocks
             /\ GridAgrees(Constructed(x))
<1> DEFINE D == fill_divisions(x.dec, x.nblocks)
           dec == [x.dec EXCEPT !.divisions = D]
           s == Constructed(x)
           near == [g \in Gids(x.nblocks) |-> IF D = Throws THEN {} ELSE Neighbors(dec, g)]
<1>1. s.dec = dec /\ s.nblocks = x.nblocks /\ s.near = near
  BY Zenon DEF Constructed
<1>2. dec.divisions = D
  BY ProgramFacts
<1>3. D # Throws
  BY <1>1, <1>2
<1>4. D \in Seq(Positive) /\ D # <<>> /\ Product(D) = x.nblocks
  BY <1>3, ProgramFacts, DivisionsCover
<1> HIDE DEF D, s, dec
<1>5. \A g \in Gids(x.nblocks) : s.near[g] = Neighbors(dec, g)
  <2>1. \A g \in Gids(x.nblocks) : near[g] = Neighbors(dec, g)
    BY <1>3, Zenon
  <2> QED
    BY <1>1, <2>1, Zenon
<1> HIDE DEF near
<1>6. dec.divisions \in Seq(Nat \ {0}) /\ dec.divisions \in Seq(Nat)
  BY <1>2, <1>4 DEF Positive
<1>7. GridAgrees(s)
  <2> SUFFICES ASSUME NEW g \in Gids(x.nblocks)
               PROVE  /\ IsFiniteSet(s.near[g])
                      /\ \A n \in s.near[g] : /\ n.gid \in Gids(x.nblocks)
                                              /\ \E m \in s.near[n.gid] : m.gid = g /\ Opposite(n, m)
    BY <1>1, Zenon DEF GridAgrees
  <2>1. s.near[g] = Neighbors(dec, g) /\ Gids(Product(dec.divisions)) = Gids(x.nblocks)
    BY <1>2, <1>4, <1>5
  <2>2. IsFiniteSet(s.near[g])
    BY <1>6, <2>1, NeighborsFinite
  <2>3. ASSUME NEW n \in s.near[g]
        PROVE  n.gid \in Gids(x.nblocks) /\ \E m \in s.near[n.gid] : m.gid = g /\ Opposite(n, m)
    <3>1. n \in Neighbors(dec, g) /\ g \in Gids(Product(dec.divisions))
      BY <2>1, <2>3
    <3>2. /\ n.gid \in Gids(Product(dec.divisions))
          /\ \E m \in Neighbors(dec, n.gid) :
               /\ m.gid = g
               /\ \A i \in DOMAIN m.dir : m.dir[i] = -n.dir[i] /\ m.wrap[i] = -n.wrap[i]
      BY <1>6, <3>1, NeighborsMutual
    <3>3. n.gid \in Gids(x.nblocks) /\ s.near[n.gid] = Neighbors(dec, n.gid)
      BY <1>5, <2>1, <3>2
    <3> QED
      BY <3>2, <3>3 DEF Opposite
  <2> QED
    BY <2>2, <2>3
<1> QED
  BY <1>3, <1>4, <1>7 DEF D, s

\* Partners whose groups fit match when they are put down in a table.
LEMMA TableMatches ==
  ASSUME NEW part, part.kind \in Kinds, GroupsFit(part), NEW s, s.part = Tabulated(part),
         s.nblocks = Product(part.divisions)
  PROVE  PartnersMatch(s)
<1> DEFINE G == Gids(Product(part.divisions))
           last == rounds(part)
           t == s.part
           act(r) == {g \in G : active(part, r, g)}
           in(r) == [g \in G |-> incoming(part, r, g)]
           out(r) == [g \in G |-> outgoing(part, r, g)]
           A == [r \in 0..last |-> act(r)]
           I == [r \in 1..last |-> in(r)]
           O == [r \in 0..(last - 1) |-> out(r)]
<1>1. t.rounds = last /\ t.active = A /\ t.incoming = I /\ t.outgoing = O
  <2>1. t = [rounds |-> last, active |-> A, incoming |-> I, outgoing |-> O]
    BY Zenon DEF Tabulated
  <2> HIDE DEF t, last, A, I, O
  <2> QED
    BY <2>1
<1>2. last \in Nat
  BY DEF rounds, GroupsFit
<1>3. Gids(s.nblocks) = G
  OBVIOUS
<1> HIDE DEF t, last
<1>4. \A r \in 0..last : t.active[r] = act(r) /\ act(r) \subseteq G
  <2>1. \A r \in 0..last : A[r] = act(r)
    BY Zenon
  <2>2. \A r \in 0..last : act(r) \subseteq G
    BY Zenon
  <2> QED
    BY <1>1, <2>1, <2>2, Zenon
<1>5. ASSUME NEW r \in 1..last
      PROVE  Matched(t.active[r - 1], t.active[r], t.outgoing[r - 1], t.incoming[r])
  <2>1. r - 1 \in 0..last /\ r \in 0..last /\ r - 1 \in 0..(last - 1)
    BY <1>2
  <2>2. /\ t.active[r - 1] = act(r - 1) /\ t.active[r] = act(r)
        /\ t.outgoing[r - 1] = out(r - 1) /\ t.incoming[r] = in(r)
    <3>1. A[r - 1] = act(r - 1) /\ A[r] = act(r) /\ O[r - 1] = out(r - 1) /\ I[r] = in(r)
      BY <2>1, Zenon
    <3> QED
      BY <1>1, <3>1, Zenon
  <2>3. Matched(act(r - 1), act(r), out(r - 1), in(r))
    BY PartnersAgree, Zenon DEF last
  <2> HIDE DEF act, in, out
  <2> QED
    BY <2>2, <2>3
<1> HIDE DEF act, in, out, A, I, O, G
<1>6. PartnersMatch(s)
  BY <1>1, <1>2, <1>3, <1>4, <1>5, Zenon DEF PartnersMatch, Matched, t
<1> QED
  BY <1>6

\* The partners of a program.
LEMMA PartnersOfProgram ==
  ASSUME NEW x \in Programs, Constructed(x).dec.divisions # Throws
  PROVE  /\ Constructed(x).op = x.op
         /\ \E part :
              /\ part.kind \in Kinds /\ GroupsFit(part) /\ GroupsFill(part)
              /\ Constructed(x).part = Tabulated(part) /\ Constructed(x).nblocks = Product(part.divisions)
              /\ x.op # "all_to_all" => part.kind = x.op
              /\ x.op = "all_to_all" => /\ part.kind = "swap" /\ ~part.contiguous
                                        /\ Len(part.divisions) = 1
<1> DEFINE D == fill_divisions(x.dec, x.nblocks)
           s == Constructed(x)
           line == [min |-> <<0>>, max |-> <<x.nblocks - 1>>, share_face |-> <<FALSE>>,
                    wrap |-> <<FALSE>>, ghosts |-> <<0>>, divisions |-> <<0>>]
           E == fill_divisions(line, x.nblocks)
           part == IF x.op = "all_to_all" THEN AllToAllPartners(x.nblocks, x.k)
                   ELSE NewPartners(x.op, D, x.k, x.contiguous)
<1>1. s.nblocks = x.nblocks /\ s.part = Tabulated(part) /\ s.op = x.op
  BY Zenon DEF Constructed
<1>2. D \in Seq(Positive) /\ D # <<>> /\ Product(D) = x.nblocks
  BY GridOfProgram
<1>3. E \in Seq(Positive) /\ E # <<>> /\ Product(E) = x.nblocks /\ Len(E) = 1
  <2>1. x.nblocks \in Positive
    BY ProgramFacts
  <2>2. /\ line.divisions = <<0>> /\ line.min = <<0>> /\ line.max = <<x.nblocks - 1>>
        /\ line.share_face = <<FALSE>>
    OBVIOUS
  <2> HIDE DEF line
  <2>3. IsDecomposer(line) /\ Free(line) = {1} /\ E # Throws
    BY <2>1, <2>2, LineIsLaid
  <2>4. E \in Seq(Positive) /\ E # <<>> /\ Product(E) = x.nblocks
    BY <2>1, <2>3, DivisionsCover
  <2>5. Len(E) = 1
    <3>1. Len(E) = Len(line.divisions)
      BY <2>1, <2>3, DivisionsCover
    <3> QED
      BY <2>2, <3>1
  <2> QED
    BY <2>4, <2>5
<1>4. /\ x.op = "all_to_all" => part = NewPartners("swap", E, x.k, FALSE)
      /\ x.op # "all_to_all" => part = NewPartners(x.op, D, x.k, x.contiguous)
  BY Zenon DEF AllToAllPartners
<1> HIDE DEF D, E, part, s
<1>5. ASSUME NEW kind \in Kinds, NEW C, C \in Seq(Positive), C # <<>>, Product(C) = x.nblocks,
             NEW contiguous \in BOOLEAN, part = NewPartners(kind, C, x.k, contiguous)
      PROVE  /\ part.kind = kind /\ part.divisions = C /\ part.contiguous = contiguous
             /\ GroupsFit(part) /\ GroupsFill(part) /\ s.nblocks = Product(part.divisions)
  <2>1. part.kind = kind /\ part.divisions = C /\ part.contiguous = contiguous
    BY <1>5 DEF NewPartners
  <2>2. GroupsFit(part) /\ GroupsFill(part)
    BY <1>5, ProgramFacts, NewPartnersFit
  <2> QED
    BY <1>1, <1>5, <2>1, <2>2
<1>6. CASE x.op = "all_to_all"
  <2>1. "swap" \in Kinds /\ FALSE \in BOOLEAN
    BY DEF Kinds
  <2>2. /\ part.kind = "swap" /\ part.divisions = E /\ part.contiguous = FALSE
        /\ GroupsFit(part) /\ GroupsFill(part) /\ s.nblocks = Product(part.divisions)
    BY <1>3, <1>4, <1>5, <1>6, <2>1
  <2> QED
    BY <1>1, <1>3, <1>6, <2>1, <2>2 DEF s
<1>7. CASE x.op # "all_to_all"
  <2>1. x.op \in Kinds /\ x.contiguous \in BOOLEAN
    BY <1>7, ProgramFacts
  <2>2. /\ part.kind = x.op /\ GroupsFit(part) /\ GroupsFill(part) /\ s.nblocks = Product(part.divisions)
    BY <1>2, <1>4, <1>5, <1>7, <2>1
  <2> QED
    BY <1>1, <1>7, <2>1, <2>2 DEF s
<1> QED
  BY <1>6, <1>7

\* Whatever the decomposer, the number of blocks and the partners of a program: its
\* grid is mutual (decomposition.hpp:369), and the blocks that send in a round of its
\* reduction and those that wait in the next one are the same (reduce.hpp:46).
THEOREM ProgramsMatch == ProgramsAgree
<1>1. ASSUME NEW s \in Setups, s.dec.divisions # Throws
      PROVE  GridAgrees(s) /\ PartnersMatch(s)
  <2>1. PICK x \in Programs : s = Constructed(x)
    BY DEF Setups
  <2>2. PICK part : /\ part.kind \in Kinds /\ GroupsFit(part)
                    /\ s.part = Tabulated(part) /\ s.nblocks = Product(part.divisions)
    BY <1>1, <2>1, PartnersOfProgram
  <2>3. PartnersMatch(s)
    BY <2>2, TableMatches
  <2> QED
    BY <1>1, <2>1, <2>3, GridOfProgram
<1> QED
  BY <1>1 DEF ProgramsAgree

-----------------------------------------------------------------------------
(***************************************************************************)
(* What the tables of the partners bring about.                            *)
(***************************************************************************)
\* A table has what the partners say.
LEMMA TableFacts ==
  ASSUME NEW part, part.kind \in Kinds, GroupsFit(part), NEW s, s.part = Tabulated(part),
         s.nblocks = Product(part.divisions)
  PROVE  /\ s.part.rounds = rounds(part) /\ rounds(part) \in Nat
         /\ Gids(s.nblocks) = Gids(Product(part.divisions))
         /\ \A r \in 0..rounds(part) : s.part.active[r] = {g \in Gids(s.nblocks) : active(part, r, g)}
         /\ \A r \in 1..rounds(part) : \A g \in Gids(s.nblocks) :
              /\ s.part.incoming[r][g] = incoming(part, r, g)
              /\ s.part.outgoing[r - 1][g] = outgoing(part, r - 1, g)
<1> DEFINE G == Gids(Product(part.divisions))
           last == rounds(part)
           t == s.part
           act(r) == {g \in G : active(part, r, g)}
           in(r) == [g \in G |-> incoming(part, r, g)]
           out(r) == [g \in G |-> outgoing(part, r, g)]
           A == [r \in 0..last |-> act(r)]
           I == [r \in 1..last |-> in(r)]
           O == [r \in 0..(last - 1) |-> out(r)]
<1>1. t.rounds = last /\ t.active = A /\ t.incoming = I /\ t.outgoing = O
  <2>1. t = [rounds |-> last, active |-> A, incoming |-> I, outgoing |-> O]
    BY Zenon DEF Tabulated
  <2> HIDE DEF t, last, A, I, O
  <2> QED
    BY <2>1
<1>2. last \in Nat
  BY DEF rounds, GroupsFit
<1>3. Gids(s.nblocks) = G
  OBVIOUS
<1> HIDE DEF t, last
<1>4. ASSUME NEW r \in 0..last PROVE t.active[r] = act(r)
  <2>1. A[r] = act(r)
    BY Zenon
  <2> QED
    BY <1>1, <2>1, Zenon
<1>5. ASSUME NEW r \in 1..last, NEW g \in G
      PROVE  t.incoming[r][g] = incoming(part, r, g) /\ t.outgoing[r - 1][g] = outgoing(part, r - 1, g)
  <2>1. r - 1 \in 0..(last - 1)
    BY <1>2
  <2>2. I[r] = in(r) /\ O[r - 1] = out(r - 1)
    BY <2>1, Zenon
  <2>3. in(r)[g] = incoming(part, r, g) /\ out(r - 1)[g] = outgoing(part, r - 1, g)
    BY Zenon
  <2> QED
    BY <1>1, <2>2, <2>3, Zenon
<1> QED
  BY <1>1, <1>2, <1>3, <1>4, <1>5, Zenon DEF t, last

\* The loop of Known.
LEMMA KnownLoop ==
  ASSUME NEW s, PartnersMatch(s)
  PROVE  /\ Known(s)[0] = [g \in Gids(s.nblocks) |-> {g}]
         /\ \A r \in 0..s.part.rounds : Known(s)[r] \in [Gids(s.nblocks) -> SUBSET Gids(s.nblocks)]
         /\ \A r \in 1..s.part.rounds : \A g \in Gids(s.nblocks) :
              Known(s)[r][g]
                = Known(s)[r - 1][g]
                    \cup (IF g \in s.part.active[r]
                          THEN UNION {Known(s)[r - 1][h] : h \in ToSet(s.part.incoming[r][g])} ELSE {})
<1> DEFINE G == Gids(s.nblocks)
           n == s.part.rounds
           more(r, y) == [g \in G |->
                            y[g] \cup (IF g \in s.part.active[r]
                                       THEN UNION {y[h] : h \in ToSet(s.part.incoming[r][g])} ELSE {})]
           Eq(k) == k = [r \in 0..n |-> IF r = 0 THEN [g \in G |-> {g}] ELSE more(r, k[r - 1])]
           f == CHOOSE k : Eq(k)
           A == [G -> SUBSET G]
           a == [g \in G |-> {g}]
           F == [r \in 1..n |-> [y \in A |-> more(r, y)]]
<1>0. n \in Nat
  BY DEF PartnersMatch
<1>1. Known(s) = f
  BY Zenon DEF Known
<1>2. a \in A
  OBVIOUS
<1>3. ASSUME NEW r \in 1..n, NEW y \in A PROVE more(r, y) \in A
  <2>1. ASSUME NEW g \in G, g \in s.part.active[r] PROVE ToSet(s.part.incoming[r][g]) \subseteq G
    <3>1. s.part.incoming[r][g] \in Seq(s.part.active[r - 1]) /\ s.part.active[r - 1] \subseteq G
      <4>1. r - 1 \in 0..n
        BY <1>0
      <4> QED
        BY <2>1, <4>1 DEF PartnersMatch
    <3> HIDE DEF G, n
    <3> QED
      BY <3>1 DEF ToSet
  <2> HIDE DEF G, n
  <2> QED
    BY <2>1
<1>4. \E k : Eq(k)
  <2>1. F \in Turns(n, A)
    <3> HIDE DEF A, n, more
    <3> QED
      BY <1>3 DEF Turns
  <2>2. PICK k : k \in [0..n -> A] /\ k[0] = a /\ \A i \in 1..n : k[i] = F[i][k[i - 1]]
    <3> HIDE DEF F, n, A, a
    <3>2. \E k : Runs(k, n, A, a, F)
      BY <1>0, <1>2, <2>1, Iteration
    <3> QED
      BY <3>2 DEF Runs
  <2>3. \A i \in 1..n : k[i] = more(i, k[i - 1])
    <3>1. \A i \in 1..n : i - 1 \in 0..n /\ k[i - 1] \in A
      <4>1. \A i \in 1..n : i - 1 \in 0..n
        BY <1>0
      <4> HIDE DEF n, F, A
      <4> QED
        BY <2>2, <4>1
    <3> HIDE DEF n, A, more
    <3> QED
      BY <2>2, <3>1
  <2>4. Eq(k)
    <3>1. \A i \in 0..n : i # 0 => i \in 1..n
      BY <1>0
    <3>2. DOMAIN k = 0..n
      BY <2>2
    <3> HIDE DEF n, more, F, A
    <3> QED
      BY <2>2, <2>3, <3>1, <3>2
  <2> QED
    BY <2>4
<1>5. Eq(f)
  <2> HIDE DEF Eq
  <2> QED
    BY <1>4
<1> HIDE DEF f
<1>6. f[0] = a /\ \A r \in 1..n : f[r] = more(r, f[r - 1])
  <2>1. 0 \in 0..n /\ \A r \in 1..n : r \in 0..n /\ r # 0
    BY <1>0
  <2> HIDE DEF n, more
  <2> QED
    BY <1>5, <2>1
<1>7. \A r \in 0..n : f[r] \in A
  <2> DEFINE P == {r \in 0..n : f[r] \in A}
  <2>1. 0 \in P
    <3> HIDE DEF n, A, a, more
    <3> QED
      BY <1>0, <1>2, <1>6
  <2>2. ASSUME NEW r \in 0..(n - 1), r \in P PROVE r + 1 \in P
    <3>1. r + 1 \in 0..n /\ r + 1 \in 1..n /\ (r + 1) - 1 = r /\ f[r] \in A
      BY <1>0, <2>2
    <3> HIDE DEF n, more, A
    <3> QED
      BY <1>3, <1>6, <3>1
  <2> HIDE DEF P, n
  <2>3. 0..n \subseteq P
    BY <1>0, <2>1, <2>2, InductionTo
  <2> QED
    BY <2>3 DEF P
<1>8. ASSUME NEW r \in 1..n, NEW g \in G
      PROVE  f[r][g] = f[r - 1][g] \cup (IF g \in s.part.active[r]
                                         THEN UNION {f[r - 1][h] : h \in ToSet(s.part.incoming[r][g])} ELSE {})
  <2> DEFINE y == f[r - 1]
  <2>1. f[r] = more(r, y)
    <3> HIDE DEF more
    <3> QED
      BY <1>6
  <2> HIDE DEF y, n
  <2>2. more(r, y)[g] = y[g] \cup (IF g \in s.part.active[r]
                                   THEN UNION {y[h] : h \in ToSet(s.part.incoming[r][g])} ELSE {})
    BY Zenon
  <2> HIDE DEF more
  <2> QED
    BY <2>1, <2>2 DEF y
<1>9. Known(s)[0] = [g \in G |-> {g}]
  BY <1>1, <1>6
<1>10. \A r \in 0..n : Known(s)[r] \in [G -> SUBSET G]
  BY <1>1, <1>7
<1>11. ASSUME NEW r \in 1..n, NEW g \in G
       PROVE  Known(s)[r][g]
                = Known(s)[r - 1][g]
                    \cup (IF g \in s.part.active[r]
                          THEN UNION {Known(s)[r - 1][h] : h \in ToSet(s.part.incoming[r][g])} ELSE {})
  <2> DEFINE y == f[r - 1]
             z == Known(s)[r - 1]
             I == ToSet(s.part.incoming[r][g])
             act == s.part.active[r]
  <2>1. y = z /\ f[r][g] = Known(s)[r][g]
    BY <1>1
  <2>2. f[r][g] = y[g] \cup (IF g \in act THEN UNION {y[h] : h \in I} ELSE {})
    BY <1>8, Zenon
  <2> HIDE DEF y, z, I, act
  <2>3. {y[h] : h \in I} = {z[h] : h \in I}
    BY <2>1
  <2>4. Known(s)[r][g] = z[g] \cup (IF g \in act THEN UNION {z[h] : h \in I} ELSE {})
    BY <2>1, <2>2, <2>3
  <2> QED
    BY <2>4, Zenon DEF z, I, act
<1> QED
  BY <1>9, <1>10, <1>11, Zenon

\* What the partners of a reduction bring about, their tables do.
LEMMA TableGathers ==
  ASSUME NEW part, part.kind \in Kinds, GroupsFit(part), GroupsFill(part), NEW s,
         s.part = Tabulated(part), s.nblocks = Product(part.divisions), s.op = part.kind
  PROVE  KnowsAll(s)
<1> DEFINE G == Gids(s.nblocks)
           K == Known(s)
           n == rounds(part)
<1>1. PartnersMatch(s)
  BY TableMatches
<1>2. /\ s.part.rounds = n /\ n \in Nat /\ G = Gids(Product(part.divisions))
      /\ \A r \in 0..n : s.part.active[r] = {g \in G : active(part, r, g)}
      /\ \A r \in 1..n : \A g \in G : s.part.incoming[r][g] = incoming(part, r, g)
  BY TableFacts
<1>3. /\ K[0] = [g \in G |-> {g}]
      /\ \A r \in 1..n : \A g \in G :
           K[r][g] = K[r - 1][g]
                       \cup (IF g \in s.part.active[r]
                             THEN UNION {K[r - 1][h] : h \in ToSet(s.part.incoming[r][g])} ELSE {})
  BY <1>1, <1>2, KnownLoop
<1> HIDE DEF G, K, n
<1>4. Gathers(part, K)
  <2>1. ASSUME NEW g \in G PROVE K[0][g] = {g}
    BY <1>3
  <2>2. ASSUME NEW r \in 1..n, NEW g \in G
        PROVE  K[r][g] = K[r - 1][g] \cup (IF active(part, r, g)
                                           THEN UNION {K[r - 1][h] : h \in ToSet(incoming(part, r, g))} ELSE {})
    <3>1. r \in 0..n
      BY <1>2
    <3>2. (g \in s.part.active[r] <=> active(part, r, g)) /\ s.part.incoming[r][g] = incoming(part, r, g)
      BY <1>2, <3>1
    <3>3. K[r][g] = K[r - 1][g]
                      \cup (IF g \in s.part.active[r]
                            THEN UNION {K[r - 1][h] : h \in ToSet(s.part.incoming[r][g])} ELSE {})
      BY <1>3
    <3> QED
      BY <3>2, <3>3
  <2> QED
    BY <1>2, <2>1, <2>2, Zenon DEF Gathers, n
<1>5. ASSUME NEW g \in G
      PROVE  CASE s.op = "broadcast" -> 0 \in K[n][g]
               [] s.op = "merge" -> g \in s.part.active[n] => K[n][g] = G
               [] OTHER -> K[n][g] = G
  <2>1. /\ part.kind = "broadcast" => 0 \in K[n][g]
        /\ part.kind = "merge" /\ active(part, n, g) => K[n][g] = G
        /\ part.kind \in {"swap", "all_reduce"} => K[n][g] = G
    BY <1>2, <1>4, PartnersGather DEF n
  <2>2. n \in 0..n
    BY <1>2
  <2>3. g \in s.part.active[n] <=> active(part, n, g)
    BY <1>2, <2>2
  <2> QED
    BY <2>1, <2>3 DEF Kinds
<1> QED
  BY <1>2, <1>5 DEF KnowsAll, G, K

\* The loop of Width.
LEMMA WidthLoop ==
  ASSUME NEW s, s.part.rounds \in Nat, s.nblocks \in Nat,
         \A r \in 1..s.part.rounds : Len(s.part.outgoing[r - 1][0]) \in Nat \ {0}
  PROVE  /\ Width(s)[0] = s.nblocks
         /\ \A r \in 1..s.part.rounds :
              Width(s)[r] = Width(s)[r - 1] \div Len(s.part.outgoing[r - 1][0])
<1> DEFINE n == s.part.rounds
           l(r) == Len(s.part.outgoing[r - 1][0])
           Eq(k) == k = [r \in 0..n |-> IF r = 0 THEN s.nblocks ELSE k[r - 1] \div l(r)]
           f == CHOOSE k : Eq(k)
           F == [r \in 1..n |-> [y \in Nat |-> y \div l(r)]]
           a == s.nblocks
<1>0. n \in Nat /\ a \in Nat /\ \A r \in 1..n : l(r) \in Nat \ {0}
  OBVIOUS
<1>1. Width(s) = f
  BY Zenon DEF Width
<1> HIDE DEF n, l
<1>4. \E k : Eq(k)
  <2>1. F \in Turns(n, Nat)
    <3>1. \A r \in 1..n, y \in Nat : y \div l(r) \in Nat
      BY <1>0, NatDivision
    <3> QED
      BY <3>1 DEF Turns
  <2>2. PICK k : k \in [0..n -> Nat] /\ k[0] = a /\ \A i \in 1..n : k[i] = F[i][k[i - 1]]
    <3> HIDE DEF F, a
    <3>2. \E k : Runs(k, n, Nat, a, F)
      BY <1>0, <2>1, Iteration
    <3> QED
      BY <3>2 DEF Runs
  <2>3. \A i \in 1..n : k[i] = k[i - 1] \div l(i)
    <3>1. \A i \in 1..n : i - 1 \in 0..n /\ k[i - 1] \in Nat
      <4>1. \A i \in 1..n : i - 1 \in 0..n
        BY <1>0
      <4> HIDE DEF F
      <4> QED
        BY <2>2, <4>1
    <3> QED
      BY <2>2, <3>1
  <2>4. Eq(k)
    <3>1. \A i \in 0..n : i # 0 => i \in 1..n
      BY <1>0
    <3>2. DOMAIN k = 0..n
      BY <2>2
    <3> HIDE DEF F
    <3> QED
      BY <2>2, <2>3, <3>1, <3>2
  <2> QED
    BY <2>4
<1>5. Eq(f)
  <2> HIDE DEF Eq
  <2> QED
    BY <1>4
<1> HIDE DEF f
<1>6. f[0] = a /\ \A r \in 1..n : f[r] = f[r - 1] \div l(r)
  <2>1. 0 \in 0..n /\ \A r \in 1..n : r \in 0..n /\ r # 0
    BY <1>0
  <2> QED
    BY <1>5, <2>1
<1> QED
  BY <1>1, <1>6 DEF n, l

\* The tables of an all-to-all cut the row of blocks into runs.
LEMMA TableCutsRuns ==
  ASSUME NEW part, part.kind = "swap", GroupsFit(part), GroupsFill(part), ~part.contiguous,
         Len(part.divisions) = 1, NEW s, s.part = Tabulated(part), s.nblocks = Product(part.divisions)
  PROVE  RunsAgree(s)
<1> DEFINE G == Gids(s.nblocks)
           n == rounds(part)
           w == Width(s)
           out(r, g) == s.part.outgoing[r - 1][g]
<1>0. part.kind \in Kinds
  BY DEF Kinds
<1>1. /\ s.part.rounds = n /\ n \in Nat /\ G = Gids(Product(part.divisions))
      /\ \A r \in 0..n : s.part.active[r] = {g \in G : active(part, r, g)}
      /\ \A r \in 1..n : \A g \in G : /\ s.part.incoming[r][g] = incoming(part, r, g)
                                      /\ out(r, g) = outgoing(part, r - 1, g)
  BY <1>0, TableFacts
<1>2. 0 \in G
  BY <1>1, FirstBlock
<1>3. ASSUME NEW r \in 1..n PROVE Len(out(r, 0)) \in Nat \ {0}
  <2>1. n = BaseRounds(part) /\ r - 1 \in 0..(BaseRounds(part) - 1)
    BY <1>1 DEF rounds
  <2>2. fill(part, r - 1, 0) \in [1..Size(part, r - 1) -> G] /\ Size(part, r - 1) \in Nat \ {0}
    BY <1>1, <1>2, <2>1, GroupOfBlock DEF GroupsFit, Positive
  <2>3. outgoing(part, r - 1, 0) = fill(part, r - 1, 0)
    BY DEF outgoing, SendsDown
  <2>4. Len(fill(part, r - 1, 0)) = Size(part, r - 1)
    BY <2>2
  <2> QED
    BY <1>1, <1>2, <2>2, <2>3, <2>4
<1>4. s.nblocks \in Nat
  <2>1. part.divisions \in Seq(Nat \ {0})
    BY DEF GroupsFit, Positive
  <2> QED
    BY <2>1, ProductPositive, SMTT(60)
<1>5. w[0] = s.nblocks /\ \A r \in 1..n : w[r] = w[r - 1] \div Len(out(r, 0))
  BY <1>1, <1>3, <1>4, WidthLoop
<1> HIDE DEF G, n, w
<1>6. CutsRuns(part, w)
  <2>1. ASSUME NEW r \in 1..n PROVE w[r] = w[r - 1] \div Len(outgoing(part, r - 1, 0))
    BY <1>1, <1>2, <1>5
  <2> QED
    BY <1>5, <2>1 DEF CutsRuns, n
<1>7. /\ w[n] = 1 /\ \A r \in 0..n : w[r] \in Positive
      /\ \A r \in 1..n : \A g \in G :
           LET o == outgoing(part, r - 1, g)
           IN  /\ w[r - 1] = Len(o) * w[r]
               /\ \A i \in DOMAIN o : o[i] \div w[r] = (g \div w[r - 1]) * Len(o) + (i - 1)
               /\ ToSet(incoming(part, r, g))
                    = {f \in G : f % w[r] = g % w[r] /\ f \div w[r - 1] = g \div w[r - 1]}
  <2>1. PartsOfRuns(part, w)
    BY <1>6, PartnersCutRuns
  <2> QED
    BY <1>1, <2>1, Zenon DEF PartsOfRuns, n
<1>8. ASSUME NEW r \in 0..n PROVE w[r] \in Nat \ {0} /\ s.part.active[r] = G
  <2>1. \A g : active(part, r, g)
    BY DEF active
  <2> QED
    BY <1>1, <1>7, <2>1 DEF Positive
<1>9. ASSUME NEW r \in 1..n, NEW g \in G
      PROVE  LET o == s.part.outgoing[r - 1][g]
             IN  /\ w[r - 1] = Len(o) * w[r]
                 /\ \A i \in DOMAIN o : o[i] \div w[r] = (g \div w[r - 1]) * Len(o) + (i - 1)
                 /\ ToSet(s.part.incoming[r][g])
                      = {f \in G : f % w[r] = g % w[r] /\ f \div w[r - 1] = g \div w[r - 1]}
  <2>1. s.part.outgoing[r - 1][g] = outgoing(part, r - 1, g) /\ s.part.incoming[r][g] = incoming(part, r, g)
    BY <1>1
  <2> QED
    BY <1>7, <2>1
<1> QED
  BY <1>1, <1>7, <1>8, <1>9, Zenon DEF RunsAgree, G, w

\* Whatever the decomposer, the number of blocks and the partners of a program: a
\* merge gathers everything at the blocks that are still active, a swap and an
\* all-reduce everywhere, a broadcast takes the root's value everywhere, and an
\* all-to-all cuts the blocks into ever smaller runs, whose partners are as far into
\* them (merge.hpp, swap.hpp, broadcast.hpp, all-reduce.hpp, all-to-all.hpp:44).
THEOREM ProgramsReduce == ProgramsGather
<1>1. ASSUME NEW s \in Setups, s.dec.divisions # Throws
      PROVE  IF s.op = "all_to_all" THEN RunsAgree(s) ELSE KnowsAll(s)
  <2>1. PICK x \in Programs : s = Constructed(x)
    BY DEF Setups
  <2>2. PICK part : /\ s.op = x.op /\ part.kind \in Kinds /\ GroupsFit(part) /\ GroupsFill(part)
                    /\ s.part = Tabulated(part) /\ s.nblocks = Product(part.divisions)
                    /\ x.op # "all_to_all" => part.kind = x.op
                    /\ x.op = "all_to_all" => /\ part.kind = "swap" /\ ~part.contiguous
                                              /\ Len(part.divisions) = 1
    BY <1>1, <2>1, PartnersOfProgram
  <2>3. CASE s.op = "all_to_all"
    BY <2>2, <2>3, TableCutsRuns
  <2>4. CASE s.op # "all_to_all"
    BY <2>2, <2>4, TableGathers
  <2> QED
    BY <2>3, <2>4
<1> QED
  BY <1>1 DEF ProgramsGather

-----------------------------------------------------------------------------
(***************************************************************************)
(* The blocks stay where they are while a reduction runs.                  *)
(***************************************************************************)
ReduceStep(p) == Round(p) \/ Receive(p) \/ EndFlush(p) \/ Return(p) \/ execute(p)

LEMMA ReduceKeeps ==
  ASSUME SetupOK, BalanceInv, NEW p \in Proc, ReduceStep(p)
  PROVE  /\ BalanceInv' /\ SetupOK'
         /\ UNCHANGED <<setup, blocks, link, rank_map_, all_work_info, all_move_info, next_move, moving>>
         /\ \A q \in Proc : HasResolved(q)' <=> HasResolved(q)
         /\ HasResolved(p)
<1>1. UNCHANGED <<setup, blocks, link, rank_map_, all_work_info, all_move_info, next_move, moving>>
  BY DEF ReduceStep, Round, Receive, EndFlush, Return, execute, balanceVars, reduceVars
<1>2. DOMAIN expected_ = Proc /\ DOMAIN pc = Proc
  BY DEF BalanceInv, Domains
<1>3. DOMAIN expected_' = Proc /\ DOMAIN pc' = Proc
  BY <1>2 DEF ReduceStep, Round, Receive, EndFlush, Return, execute, balanceVars
<1>4. \A q \in Proc : \/ pc'[q] = pc[q]
                      \/ {pc[q], pc'[q]} \subseteq {"foreach", "flush", "deferred", "done"}
  BY <1>2 DEF ReduceStep, Round, Receive, EndFlush, Return, execute, balanceVars
<1>5. BalanceInv'
  BY <1>1, <1>3, <1>4, LaterStep
<1>6. SetupOK'
  BY <1>1 DEF SetupOK
<1>7. \A q \in Proc : HasResolved(q)' <=> HasResolved(q)
  BY <1>4 DEF HasResolved, HasMoved, HasDecided
<1>8. HasResolved(p)
  BY DEF ReduceStep, Round, Receive, EndFlush, Return, execute, HasResolved, HasMoved, HasDecided
<1> QED
  BY <1>1, <1>5, <1>6, <1>7, <1>8

-----------------------------------------------------------------------------
(***************************************************************************)
(* The theorems about where the blocks are.                                *)
(***************************************************************************)
\* The blocks of a program are on their ranks or on the way as the moves say.
Placement == SetupOK /\ BalanceInv /\ setup \in Setups /\ setup.dec.divisions # Throws

LEMMA BalanceKeepsSetup ==
  ASSUME NEW p \in Proc, BalanceNext(p)
  PROVE  setup' = setup
BY DEF BalanceNext, Decompose, exchange_work_info, Decide, SendBlock, RecvBlock, SkipMove,
       record_local_gids, update_links

LEMMA PlacementStep ==
  ASSUME Placement, Next
  PROVE  Placement'
<1>1. PICK p \in Proc : Step(p)
  BY DEF Next
<1>2. CASE BalanceNext(p)
  BY <1>2, BalanceStep, BalanceKeepsSetup DEF Placement
<1>3. CASE ReduceStep(p)
  BY <1>3, ReduceKeeps DEF Placement
<1> QED
  BY <1>1, <1>2, <1>3 DEF Step, ReduceStep

LEMMA PlacementStutter ==
  ASSUME Placement, UNCHANGED vars
  PROVE  Placement'
<1>1. UNCHANGED <<setup, blocks, link, rank_map_, all_work_info, all_move_info, next_move, moving,
                  expected_, pc>>
  BY DEF vars, balanceVars
<1>2. BalanceInv'
  <2>1. DOMAIN expected_' = Proc /\ DOMAIN pc' = Proc
    BY <1>1 DEF Placement, BalanceInv, Domains
  <2> QED
    BY <1>1, <2>1, LaterStep DEF Placement
<1> QED
  BY <1>1, <1>2 DEF Placement, SetupOK

\* The invariant of the blocks holds in every state, for any work and any moves.
THEOREM BlocksInvariant == Spec => []Placement
<1>1. Init => Placement
  BY BalanceStart DEF Init, BalanceInit, Placement
<1>2. Placement /\ [Next]_vars => Placement'
  BY PlacementStep, PlacementStutter
<1> QED
  BY <1>1, <1>2, PTL DEF Spec

\* No block is lost or held twice, in the decomposition and in every move of
\* load_balance_collective (load-balance-collective.hpp:77): each is held by one
\* rank or on its way to one.
THEOREM BlocksOnOneRank == Spec => []OnOneRank
<1>1. Placement => OnOneRank
  BY BalanceImpliesOnOneRank DEF Placement
<1> QED
  BY <1>1, BlocksInvariant, PTL

\* The moves of load_balance_collective (load-balance-collective.hpp:52) do not make
\* the heaviest rank heavier, for any work and any number of ranks, where no sum has
\* overflowed and no rank both gets and gives.
THEOREM BalancingHelps == Spec => []BalanceHelps
<1>1. Placement => BalanceHelps
  BY BalanceImpliesHelps DEF Placement
<1> QED
  BY <1>1, BlocksInvariant, PTL

\* The links agree once they are resolved (resolve.hpp:65), wherever the blocks have
\* moved.
THEOREM LinksAgreeOnRanks == Spec => []LinksAgree
<1>1. Placement => LinksAgree
  BY BalanceImpliesLinksAgree, ProgramsMatch DEF Placement, ProgramsAgree
<1> QED
  BY <1>1, BlocksInvariant, PTL

-----------------------------------------------------------------------------
(***************************************************************************)
(* Partners and stages.                                                    *)
(***************************************************************************)
Outs(r, g) == ToSet(setup.part.outgoing[r][g])
Ins(r, h) == ToSet(setup.part.incoming[r][h])

\* The partners of round r, and those of the one before.
LEMMA PartnerFacts ==
  ASSUME PartnersMatch(setup), NEW r \in 1..Rounds
  PROVE  /\ Rounds \in Nat /\ r \in Nat /\ r - 1 \in 0..Rounds
         /\ setup.part.active[r - 1] \subseteq Gid /\ setup.part.active[r] \subseteq Gid
         /\ \A g \in setup.part.active[r - 1] : Outs(r - 1, g) \subseteq setup.part.active[r]
         /\ \A h \in setup.part.active[r] : Ins(r, h) \subseteq setup.part.active[r - 1]
         /\ \A g \in setup.part.active[r - 1], h \in setup.part.active[r] :
              g \in Ins(r, h) <=> h \in Outs(r - 1, g)
<1>1. Rounds \in Nat /\ r \in Nat /\ r - 1 \in 0..Rounds /\ r \in 0..Rounds
  BY DEF PartnersMatch, Rounds
<1> DEFINE A == setup.part.active[r - 1]
           B == setup.part.active[r]
<1>2. A \subseteq Gid /\ B \subseteq Gid
  BY <1>1 DEF PartnersMatch, Rounds, Gid
<1>3. /\ \A g \in A : setup.part.outgoing[r - 1][g] \in Seq(B)
      /\ \A h \in B : setup.part.incoming[r][h] \in Seq(A)
      /\ \A g \in A, h \in B : g \in Ins(r, h) <=> h \in Outs(r - 1, g)
  BY DEF PartnersMatch, Rounds, Ins, Outs
<1>4. ASSUME NEW s, NEW X, s \in Seq(X) PROVE ToSet(s) \subseteq X
  BY <1>4 DEF ToSet
<1>5. \A g \in A : Outs(r - 1, g) \subseteq B
  BY <1>3, <1>4 DEF Outs
<1>6. \A h \in B : Ins(r, h) \subseteq A
  BY <1>3, <1>4 DEF Ins
<1> QED
  BY <1>1, <1>2, <1>3, <1>5, <1>6

\* Partners are named once.
LEMMA PartnersOnce ==
  ASSUME PartnersMatch(setup), NEW r \in 1..Rounds
  PROVE  /\ \A g \in setup.part.active[r - 1] :
              LET out == setup.part.outgoing[r - 1][g]
              IN  \A i, j \in DOMAIN out : out[i] = out[j] => i = j
         /\ \A h \in setup.part.active[r] :
              LET in == setup.part.incoming[r][h]
              IN  /\ \A i, j \in DOMAIN in : in[i] = in[j] => i = j
                  /\ Len(in) \in Nat /\ DOMAIN in = 1..Len(in)
<1>1. /\ \A g \in setup.part.active[r - 1] : IsInjective(setup.part.outgoing[r - 1][g])
      /\ \A h \in setup.part.active[r] : /\ setup.part.incoming[r][h] \in Seq(setup.part.active[r - 1])
                                           /\ IsInjective(setup.part.incoming[r][h])
  BY DEF PartnersMatch, Rounds
<1>2. \A s : IsInjective(s) => \A i, j \in DOMAIN s : s[i] = s[j] => i = j
  BY DEF IsInjective
<1>3. ASSUME NEW s, NEW X, s \in Seq(X) PROVE Len(s) \in Nat /\ DOMAIN s = 1..Len(s)
  BY <1>3
<1> QED
  BY <1>1, <1>2, <1>3

\* A rank that has run the callbacks of a round has its links resolved.
LEMMA PastResolved ==
  ASSUME ProgressInv, NEW q, NEW r \in Nat, Past(q, r)
  PROVE  q \in Proc /\ HasResolved(q) /\ round[q] \in Nat
<1>1. q \in Proc
  BY DEF Past
<1>2. round[q] \in 0..Rounds /\ (~HasResolved(q) => round[q] = 0)
  BY <1>1 DEF ProgressInv
<1>3. CASE pc[q] = "flush"
  BY <1>1, <1>2, <1>3 DEF HasResolved, HasMoved, HasDecided
<1>4. CASE pc[q] # "flush"
  BY <1>1, <1>2, <1>4 DEF Past
<1> QED
  BY <1>3, <1>4

\* A queue is from an active block of a rank that is past the round before, to one
\* that is active in its round.
LEMMA MailFacts ==
  ASSUME SetupOK, BalanceInv, PartnersMatch(setup), ProgressInv, MailInv, NEW m \in Mail
  PROVE  /\ m.round \in 1..Rounds /\ m.round - 1 \in Nat
         /\ m.from \in setup.part.active[m.round - 1] /\ m.to \in setup.part.active[m.round]
         /\ m.to \in Outs(m.round - 1, m.from) /\ m.from \in Ins(m.round, m.to)
         /\ m.from \in Gid /\ m.to \in Gid
         /\ Past(rank(m.from), m.round - 1) /\ ~Past(rank(m.to), m.round)
         /\ m.proc = rank(m.to) /\ m.proc \in Proc
         /\ \A q \in Proc : HasResolved(q) => (m.to \in blocks[q] <=> m.proc = q)
         /\ Decomposed => m.to \in blocks[m.proc]
<1>1. m.round \in 1..Rounds /\ Due(m.from, m.to, m.round) /\ m.proc = rank(m.to)
  BY DEF MailInv
<1>2. /\ m.from \in setup.part.active[m.round - 1] /\ m.to \in Outs(m.round - 1, m.from)
      /\ Past(rank(m.from), m.round - 1) /\ ~Past(rank(m.to), m.round)
  BY <1>1 DEF Due, Outs
<1>3. /\ m.round - 1 \in Nat /\ m.to \in setup.part.active[m.round]
      /\ m.from \in Ins(m.round, m.to) /\ m.from \in Gid /\ m.to \in Gid
  BY <1>1, <1>2, PartnerFacts
<1>4. PICK p \in Proc : HasResolved(p)
  BY <1>2, <1>3, PastResolved
<1>5. /\ rank(m.to) \in Proc
      /\ \A q \in Proc : HasResolved(q) => (m.to \in blocks[q] <=> rank(m.to) = q)
      /\ Decomposed => m.to \in blocks[rank(m.to)]
  BY <1>3, <1>4, Located
<1> QED
  BY <1>1, <1>2, <1>3, <1>5

-----------------------------------------------------------------------------
(***************************************************************************)
(* What a rank sends in a round.                                           *)
(***************************************************************************)
LEMMA SentFacts ==
  ASSUME PartnersMatch(setup), NEW p \in Proc, round[p] \in 0..Rounds, round[p] < Rounds
  PROVE  LET r == round[p] IN
         /\ r + 1 \in 1..Rounds
         /\ \A m \in Sent(p) : /\ m.from \in Active(p) /\ m.to \in Outs(r, m.from)
                               /\ m.round = r + 1 /\ m.proc = rank(m.to)
         /\ \A m, n \in Sent(p) : m.from = n.from /\ m.to = n.to => m = n
         /\ \A g \in Active(p) : \A h \in Outs(r, g) :
              \E m \in Sent(p) : m.from = g /\ m.to = h /\ m.round = r + 1
<1> DEFINE r == round[p]
           O(g) == out_link(p, g)
<1>1. r + 1 \in 1..Rounds /\ (r + 1) - 1 = r /\ Rounds \in Nat
  BY DEF PartnersMatch, Rounds
<1>2. \A g : O(g) = setup.part.outgoing[r][g]
  BY DEF out_link
<1>3. \A g \in setup.part.active[r] : \A i, j \in DOMAIN O(g) : O(g)[i] = O(g)[j] => i = j
  <2>1. \A g \in setup.part.active[(r + 1) - 1] :
          \A i, j \in DOMAIN setup.part.outgoing[(r + 1) - 1][g] :
            setup.part.outgoing[(r + 1) - 1][g][i] = setup.part.outgoing[(r + 1) - 1][g][j] => i = j
    BY <1>1, PartnersOnce
  <2> HIDE DEF O
  <2> QED
    BY <1>1, <1>2, <2>1
<1>4. \A g \in Active(p) : g \in setup.part.active[r]
  BY DEF Active
<1> DEFINE items(g) == IF setup.op = "all_to_all" THEN Items(p, g) ELSE value[g] \cup Found(p, g)
           range(g) == IF setup.op = "all_to_all" THEN ItemRange(p, g) ELSE <<0, 0>>
           group(g) == (range(g)[2] - range(g)[1]) \div Len(O(g))
           part(g, i) == <<range(g)[1] + (i - 1) * group(g), range(g)[1] + i * group(g)>>
           for(g, i) == IF setup.op # "all_to_all" THEN items(g)
                        ELSE {x \in items(g) : part(g, i)[1] <= x[2] /\ x[2] < part(g, i)[2]}
           msg(g, i) == [from |-> g, to |-> O(g)[i], round |-> r + 1, proc |-> rank(O(g)[i]),
                         range |-> part(g, i), data |-> for(g, i)]
<1>8. \A g \in Active(p) : SentBy(p, g) = {msg(g, i) : i \in DOMAIN O(g)}
  BY Zenon DEF SentBy
<1> HIDE DEF part, for, items, range, group
<1>7. \A g, i : /\ msg(g, i).from = g /\ msg(g, i).to = O(g)[i] /\ msg(g, i).round = r + 1
                /\ msg(g, i).proc = rank(O(g)[i])
  OBVIOUS
<1> HIDE DEF msg
<1>9. /\ \A m \in Sent(p) : \E g \in Active(p) : \E i \in DOMAIN O(g) : m = msg(g, i)
      /\ \A g \in Active(p) : \A i \in DOMAIN O(g) : msg(g, i) \in Sent(p)
  BY <1>8 DEF Sent
<1> HIDE DEF O
<1>10. \A g : \A h : h \in Outs(r, g) <=> \E i \in DOMAIN O(g) : h = O(g)[i]
  BY <1>2 DEF Outs, ToSet
<1>11. \A m \in Sent(p) : /\ m.from \in Active(p) /\ m.to \in Outs(r, m.from)
                          /\ m.round = r + 1 /\ m.proc = rank(m.to)
  BY <1>7, <1>9, <1>10
<1>12. ASSUME NEW m \in Sent(p), NEW n \in Sent(p), m.from = n.from, m.to = n.to PROVE m = n
  <2> PICK g \in Active(p) : \E i \in DOMAIN O(g) : m = msg(g, i)
    BY <1>9
  <2>1. PICK i \in DOMAIN O(g) : m = msg(g, i)
    OBVIOUS
  <2> PICK k \in Active(p) : \E j \in DOMAIN O(k) : n = msg(k, j)
    BY <1>9
  <2>2. PICK j \in DOMAIN O(k) : n = msg(k, j)
    OBVIOUS
  <2>3. g = k
    BY <1>7, <1>12, <2>1, <2>2
  <2>4. i = j
    BY <1>3, <1>4, <1>7, <1>12, <2>1, <2>2, <2>3
  <2> QED
    BY <2>1, <2>2, <2>3, <2>4
<1>13. ASSUME NEW g \in Active(p), NEW h \in Outs(r, g)
       PROVE  \E m \in Sent(p) : m.from = g /\ m.to = h /\ m.round = r + 1
  <2>1. PICK i \in DOMAIN O(g) : h = O(g)[i]
    BY <1>10
  <2> QED
    BY <1>7, <1>9, <2>1
<1> QED
  BY <1>1, <1>11, <1>12, <1>13

\* The invariant of the messages.
MessagesInv == SetupOK /\ BalanceInv /\ PartnersMatch(setup) /\ ProgressInv /\ MailInv /\ HeardInv

\* The queues of a round are new: their block has not been past it, and the blocks
\* that they are for still wait for them.
LEMMA SentNew ==
  ASSUME MessagesInv, NEW p \in Proc, pc[p] = "foreach", round[p] < Rounds, NEW m \in Sent(p)
  PROVE  /\ m.from \in Gid /\ m.to \in Gid /\ rank(m.from) = p
         /\ m.from \in setup.part.active[round[p]] /\ m.to \in Outs(round[p], m.from)
         /\ m.round = round[p] + 1 /\ m.round \in 1..Rounds /\ round[p] \in Nat
         /\ m.proc = rank(m.to) /\ m.proc \in Proc /\ round[m.proc] <= round[p]
         /\ \A n \in Mail : ~IsQueue(n, m.from, m.to, m.round)
         /\ m \notin Mail
<1> DEFINE r == round[p]
           h == m.to
           q == rank(h)
<1>0. SetupOK /\ BalanceInv /\ PartnersMatch(setup) /\ ProgressInv /\ MailInv /\ HeardInv
  BY DEF MessagesInv
<1>1. r \in 0..Rounds /\ r \in Nat /\ Rounds \in Nat
  BY <1>0 DEF ProgressInv, PartnersMatch, Rounds
<1>2. /\ r + 1 \in 1..Rounds
      /\ m.from \in Active(p) /\ h \in Outs(r, m.from) /\ m.round = r + 1 /\ m.proc = q
  BY <1>0, <1>1, SentFacts
<1>3. m.from \in blocks[p] /\ m.from \in setup.part.active[r]
  BY <1>2 DEF Active
<1>4. /\ m.from \in Gid /\ h \in setup.part.active[r + 1] /\ h \in Gid
      /\ m.from \in Ins(r + 1, h)
  <2>1. (r + 1) - 1 = r
    BY <1>1
  <2> QED
    BY <1>0, <1>2, <1>3, <2>1, PartnerFacts
<1>5. HasResolved(p)
  BY DEF HasResolved, HasMoved, HasDecided
<1>6. rank(m.from) = p /\ q \in Proc
  BY <1>0, <1>3, <1>4, <1>5, Located
<1>7. ~Past(p, r)
  BY <1>1 DEF Past
<1>8. round[q] <= r
  <2>0. round[q] \in 0..Rounds
    BY <1>0, <1>6 DEF ProgressInv
  <2>1. SUFFICES ASSUME r + 1 <= round[q] PROVE FALSE
    BY <1>1, <2>0
  <2>2. HasResolved(q)
    BY <1>0, <1>1, <1>6, <2>0, <2>1 DEF ProgressInv
  <2>3. h \in blocks[q]
    BY <1>0, <1>4, <1>6, <2>2, Located
  <2>4. r + 1 \in 1..round[q]
    BY <1>1, <2>0, <2>1
  <2>5. Past(rank(m.from), (r + 1) - 1)
    BY <1>0, <1>4, <1>6, <2>3, <2>4 DEF HeardInv, Ins
  <2> QED
    BY <1>1, <1>6, <1>7, <2>5
<1>9. ASSUME NEW n \in Mail, IsQueue(n, m.from, m.to, m.round) PROVE FALSE
  <2>1. Past(rank(m.from), (r + 1) - 1)
    BY <1>0, <1>2, <1>9, MailFacts DEF IsQueue
  <2> QED
    BY <1>1, <1>6, <1>7, <2>1
<1>10. m \notin Mail
  BY <1>9 DEF IsQueue
<1> QED
  BY <1>1, <1>2, <1>3, <1>4, <1>6, <1>8, <1>9, <1>10

-----------------------------------------------------------------------------
(***************************************************************************)
(* The invariant of the messages after a step: the stages rd and st of the *)
(* ranks and the messages N and I are the new ones.                        *)
(***************************************************************************)
Passed(rd, st, q, s) == q \in Proc /\ (s < rd[q] \/ (s = rd[q] /\ st[q] = "flush"))
DueAt(rd, st, g, h, s) == /\ g \in setup.part.active[s - 1] /\ h \in Outs(s - 1, g)
                          /\ Passed(rd, st, rank(g), s - 1) /\ ~Passed(rd, st, rank(h), s)
MailAt(N, I) == N \cup UNION {I[q] : q \in Proc}

MailOK(rd, st, N, I) ==
  /\ \A q \in Proc : \A m \in I[q] : m.proc = q /\ m \notin N
  /\ \A m \in MailAt(N, I) : /\ m.round \in 1..Rounds /\ DueAt(rd, st, m.from, m.to, m.round)
                             /\ m.proc = rank(m.to)
  /\ \A m, n \in MailAt(N, I) : IsQueue(m, n.from, n.to, n.round) => m = n
  /\ \A s \in 1..Rounds : \A g, h \in Gid :
       DueAt(rd, st, g, h, s) => \E m \in MailAt(N, I) : IsQueue(m, g, h, s)

HeardOK(rd, st, N, held) ==
  /\ \A m \in N : rd[m.proc] < m.round
  /\ \A q \in Proc : \A s \in 1..rd[q] : \A h \in held[q] \cap setup.part.active[s] :
       \A g \in Ins(s, h) : Passed(rd, st, rank(g), s - 1)

LEMMA MailNow ==
  /\ MailInv <=> MailOK(round, pc, net, incoming_)
  /\ HeardInv <=> HeardOK(round, pc, net, blocks)
  /\ \A q, s : Past(q, s) <=> Passed(round, pc, q, s)
  /\ \A g, h, s : Due(g, h, s) <=> DueAt(round, pc, g, h, s)
  /\ Mail = MailAt(net, incoming_)
<1>1. \A q, s : Past(q, s) <=> Passed(round, pc, q, s)
  BY DEF Past, Passed
<1>2. \A g, h, s : Due(g, h, s) <=> DueAt(round, pc, g, h, s)
  BY <1>1 DEF Due, DueAt, Outs
<1>3. Mail = MailAt(net, incoming_)
  BY DEF Mail, MailAt
<1> QED
  BY <1>1, <1>2, <1>3 DEF MailInv, MailOK, HeardInv, HeardOK, Ins

LEMMA MailPrimed ==
  ASSUME setup' = setup, \A g : rank(g)' = rank(g),
         NEW rd, rd = round', NEW st, st = pc', NEW N, N = net', NEW I, I = incoming_', NEW held, held = blocks'
  PROVE  /\ MailInv' <=> MailOK(rd, st, N, I)
         /\ HeardInv' <=> HeardOK(rd, st, N, held)
<1>1. Rounds' = Rounds /\ Gid' = Gid /\ \A r, g : Outs(r, g)' = Outs(r, g) /\ Ins(r, g)' = Ins(r, g)
  BY DEF Rounds, Gid, Outs, Ins
<1>2. \A q, s : Past(q, s)' <=> Passed(rd, st, q, s)
  BY DEF Past, Passed
<1>3. \A g, h, s : Due(g, h, s)' <=> DueAt(rd, st, g, h, s)
  BY DEF Due, DueAt, Past, Passed, Outs
<1>4. Mail' = MailAt(N, I)
  BY DEF Mail, MailAt
<1>5. HeardInv' <=> HeardOK(rd, st, N, held)
  BY DEF HeardInv, HeardOK, Ins, Past, Passed
<1>6. MailInv' <=> MailOK(rd, st, N, I)
  BY <1>1, <1>3, <1>4 DEF MailInv, MailOK, IsQueue
<1> QED
  BY <1>5, <1>6

-----------------------------------------------------------------------------
(***************************************************************************)
(* The steps of the reduction keep the invariant of the messages.          *)
(***************************************************************************)
LEMMA SameRanks ==
  ASSUME setup' = setup, rank_map_' = rank_map_
  PROVE  /\ \A g : rank(g)' = rank(g)
         /\ Rounds' = Rounds /\ Gid' = Gid /\ PartnersMatch(setup)' = PartnersMatch(setup)
BY SameSetup DEF rank, Rounds, Gid

LEMMA RoundMail ==
  ASSUME MessagesInv, NEW p \in Proc, Round(p)
  PROVE  ProgressInv' /\ MailInv' /\ HeardInv'
<1> DEFINE r == round[p]
<1> PICK st : st = pc'
  OBVIOUS
<1> PICK N : N = net'
  OBVIOUS
<1> PICK I : I = incoming_'
  OBVIOUS
<1>0. /\ SetupOK /\ BalanceInv /\ PartnersMatch(setup) /\ ProgressInv /\ MailInv /\ HeardInv
      /\ pc[p] = "foreach" /\ r < Rounds /\ round' = round /\ blocks' = blocks
      /\ setup' = setup /\ rank_map_' = rank_map_
  BY DEF MessagesInv, Round
<1>1. r \in 0..Rounds /\ r \in Nat /\ Rounds \in Nat
  BY <1>0 DEF ProgressInv, PartnersMatch, Rounds
<1>2. /\ DOMAIN pc = Proc /\ DOMAIN incoming_ = Proc /\ DOMAIN original_expected = Proc /\ DOMAIN round = Proc
  BY <1>0 DEF BalanceInv, Domains, ProgressInv
<1>3. /\ DOMAIN st = Proc /\ st[p] = "flush" /\ \A q \in Proc : q # p => st[q] = pc[q]
      /\ DOMAIN I = Proc /\ N = net \cup {m \in Sent(p) : m.proc # p}
      /\ I[p] = {m \in incoming_[p] : m.round # r} \cup {m \in Sent(p) : m.proc = p}
      /\ \A q \in Proc : q # p => I[q] = incoming_[q]
      /\ DOMAIN original_expected' = Proc
  BY <1>2 DEF Round
<1>4. ProgressInv'
  <2>1. HasResolved(p)' /\ \A q \in Proc : HasResolved(q)' <=> HasResolved(q)
    BY <1>0, <1>3 DEF HasResolved, HasMoved, HasDecided
  <2>2. Rounds' = Rounds
    BY <1>0, SameRanks
  <2>3. \A q \in Proc : /\ round[q] \in 0..Rounds
                        /\ ~HasResolved(q) => round[q] = 0
                        /\ st[q] = "flush" => round[q] < Rounds
                        /\ st[q] \in {"deferred", "done"} => round[q] = Rounds
    BY <1>0, <1>3 DEF ProgressInv
  <2> QED
    BY <1>0, <1>2, <1>3, <2>1, <2>2, <2>3 DEF ProgressInv
<1>5. /\ \A q, s : Passed(round, st, q, s) <=> Passed(round, pc, q, s) \/ (q = p /\ s = r)
      /\ ~Passed(round, pc, p, r)
  BY <1>0, <1>1, <1>3 DEF Passed
<1>6. MailOK(round, pc, net, incoming_) /\ HeardOK(round, pc, net, blocks)
  BY <1>0, MailNow
<1> DEFINE A == MailAt(net, incoming_)
           B == MailAt(N, I)
           T == Sent(p)
<1>7. A = Mail
  BY MailNow
<1>8. \A m \in T : /\ m.from \in Gid /\ m.to \in Gid /\ rank(m.from) = p
                   /\ m.from \in setup.part.active[r] /\ m.to \in Outs(r, m.from)
                   /\ m.round = r + 1 /\ m.round \in 1..Rounds
                   /\ m.proc = rank(m.to) /\ m.proc \in Proc /\ round[m.proc] <= r
                   /\ \A n \in A : ~IsQueue(n, m.from, m.to, m.round)
                   /\ m \notin A
  BY <1>0, <1>7, SentNew
<1>9. /\ \A m, n \in T : m.from = n.from /\ m.to = n.to => m = n
      /\ \A g \in Active(p) : \A h \in Outs(r, g) : \E m \in T : m.from = g /\ m.to = h /\ m.round = r + 1
  BY <1>0, <1>1, SentFacts
<1>10. \A m : m \in B <=> m \in T \/ (m \in A /\ ~(m \in incoming_[p] /\ m.round = r))
  <2>1. \A m \in incoming_[p] : m \notin net
    BY <1>6 DEF MailOK
  <2>2. \A q \in Proc : \A m \in incoming_[q] : m.proc = q
    BY <1>6 DEF MailOK
  <2>3. ASSUME NEW m \in B PROVE m \in T \/ (m \in A /\ ~(m \in incoming_[p] /\ m.round = r))
    BY <1>3, <2>1, <2>2 DEF MailAt
  <2>4. ASSUME NEW m \in T PROVE m \in B
    BY <1>3 DEF MailAt
  <2>5. ASSUME NEW m \in A, ~(m \in incoming_[p] /\ m.round = r) PROVE m \in B
    BY <1>3, <2>5 DEF MailAt
  <2> QED
    BY <2>3, <2>4, <2>5
<1> HIDE DEF A, B, T
<1>11. ASSUME NEW m \in A PROVE m.round \in 1..Rounds /\ DueAt(round, pc, m.from, m.to, m.round) /\ m.proc = rank(m.to) /\ rank(m.to) \in Proc
  BY <1>0, <1>6, <1>7, MailFacts DEF MailOK, A
<1>12. ASSUME NEW q \in Proc, NEW m \in I[q] PROVE m.proc = q /\ m \notin N
  <2>1. \A n \in incoming_[q] : n.proc = q /\ n \notin net /\ n \in A
    BY <1>6 DEF MailOK, MailAt, A
  <2>2. \A n \in net : n \in A
    BY DEF MailAt, A
  <2>3. CASE m \in T
    BY <1>3, <1>8, <1>12, <2>1, <2>2, <2>3 DEF T
  <2>4. CASE m \notin T
    BY <1>3, <1>8, <1>12, <2>1, <2>2, <2>4 DEF T
  <2> QED
    BY <2>3, <2>4
<1>13. ASSUME NEW m \in B
       PROVE  m.round \in 1..Rounds /\ DueAt(round, st, m.from, m.to, m.round) /\ m.proc = rank(m.to)
  <2>1. CASE m \in T
    <3>1. m.round - 1 = r /\ m.round = r + 1
      BY <1>1, <1>8, <2>1
    <3>2. Passed(round, st, rank(m.from), r)
      BY <1>5, <1>8, <2>1
    <3>3. ~Passed(round, st, rank(m.to), r + 1)
      <4>1. round[rank(m.to)] <= r /\ rank(m.to) \in Proc
        BY <1>8, <2>1
      <4>2. round[rank(m.to)] \in 0..Rounds
        BY <1>0, <4>1 DEF ProgressInv
      <4> QED
        BY <1>1, <4>1, <4>2 DEF Passed
    <3> QED
      BY <1>8, <2>1, <3>1, <3>2, <3>3 DEF DueAt
  <2>2. CASE m \notin T
    <3>1. m \in A /\ ~(m \in incoming_[p] /\ m.round = r)
      BY <1>10, <2>2
    <3>2. ~(rank(m.to) = p /\ m.round = r)
      <4>1. SUFFICES ASSUME rank(m.to) = p, m.round = r PROVE FALSE
        OBVIOUS
      <4>2. m.proc = p
        BY <1>11, <3>1, <4>1
      <4>3. m \in net \/ \E q \in Proc : m \in incoming_[q]
        BY <3>1 DEF A, MailAt
      <4>4. m \in net
        BY <1>6, <3>1, <4>1, <4>2, <4>3 DEF MailOK
      <4>5. r < r
        BY <1>6, <4>1, <4>2, <4>4 DEF HeardOK
      <4> QED
        BY <1>1, <4>5
    <3> QED
      BY <1>5, <1>11, <3>1, <3>2 DEF DueAt
  <2> QED
    BY <2>1, <2>2
<1>14. ASSUME NEW m \in B, NEW n \in B, IsQueue(m, n.from, n.to, n.round) PROVE m = n
  <2>1. IsQueue(n, m.from, m.to, m.round)
    BY <1>14 DEF IsQueue
  <2>2. m.from = n.from /\ m.to = n.to
    BY <1>14 DEF IsQueue
  <2>3. \A x, y \in A : IsQueue(x, y.from, y.to, y.round) => x = y
    BY <1>6 DEF MailOK, A
  <2> QED
    BY <1>8, <1>9, <1>10, <1>14, <2>1, <2>2, <2>3
<1>15. ASSUME NEW s \in 1..Rounds, NEW g \in Gid, NEW h \in Gid, DueAt(round, st, g, h, s)
       PROVE  \E m \in B : IsQueue(m, g, h, s)
  <2>1. CASE Passed(round, pc, rank(g), s - 1)
    <3>1. DueAt(round, pc, g, h, s)
      BY <1>5, <1>15, <2>1 DEF DueAt
    <3>2. PICK m \in A : IsQueue(m, g, h, s)
      BY <1>6, <3>1 DEF MailOK, A
    <3>3. ~(m \in incoming_[p] /\ m.round = r)
      <4>1. SUFFICES ASSUME m \in incoming_[p], m.round = r PROVE FALSE
        OBVIOUS
      <4>2. m.proc = p /\ m.proc = rank(h) /\ s = r
        BY <1>6, <1>11, <3>2, <4>1 DEF MailOK, IsQueue
      <4>3. Passed(round, st, rank(h), s)
        BY <1>5, <4>2
      <4> QED
        BY <1>15, <4>3 DEF DueAt
    <3> QED
      BY <1>10, <3>2, <3>3
  <2>2. CASE ~Passed(round, pc, rank(g), s - 1)
    <3>1. rank(g) = p /\ s - 1 = r /\ s = r + 1
      <4>1. rank(g) = p /\ s - 1 = r
        BY <1>5, <1>15, <2>2 DEF DueAt
      <4> QED
        BY <1>1, <4>1
    <3>2. HasResolved(p)
      BY <1>0 DEF HasResolved, HasMoved, HasDecided
    <3>3. g \in blocks[p]
      BY <1>0, <3>1, <3>2, Located
    <3>4. g \in Active(p) /\ h \in Outs(r, g)
      BY <1>15, <3>1, <3>3 DEF Active, DueAt
    <3>5. PICK m \in T : m.from = g /\ m.to = h /\ m.round = r + 1
      BY <1>9, <3>4
    <3> QED
      BY <1>10, <3>1, <3>5 DEF IsQueue
  <2> QED
    BY <2>1, <2>2
<1>16. MailOK(round, st, N, I)
  BY <1>12, <1>13, <1>14, <1>15 DEF MailOK, B
<1>17. HeardOK(round, st, N, blocks)
  <2>1. ASSUME NEW m \in N PROVE round[m.proc] < m.round
    <3>1. CASE m \in net
      BY <1>6, <3>1 DEF HeardOK
    <3>2. CASE m \in T
      <4>1. round[m.proc] <= r /\ m.round = r + 1 /\ m.proc \in Proc
        BY <1>8, <3>2
      <4>2. round[m.proc] \in 0..Rounds
        BY <1>0, <4>1 DEF ProgressInv
      <4> QED
        BY <1>1, <4>1, <4>2
    <3> QED
      BY <1>3, <3>1, <3>2 DEF T
  <2> QED
    BY <1>5, <1>6, <2>1 DEF HeardOK
<1> QED
  BY <1>0, <1>4, <1>16, <1>17, SameRanks, MailPrimed

LEMMA ReceiveMail ==
  ASSUME MessagesInv, NEW p \in Proc, Receive(p)
  PROVE  ProgressInv' /\ MailInv' /\ HeardInv'
<1> PICK N : N = net'
  OBVIOUS
<1> PICK I : I = incoming_'
  OBVIOUS
<1>0. /\ SetupOK /\ BalanceInv /\ PartnersMatch(setup) /\ ProgressInv /\ MailInv /\ HeardInv
      /\ round' = round /\ blocks' = blocks /\ setup' = setup /\ rank_map_' = rank_map_ /\ pc' = pc
      /\ original_expected' = original_expected
  BY DEF MessagesInv, Receive, balanceVars
<1>1. DOMAIN incoming_ = Proc
  BY <1>0 DEF ProgressInv
<1>2. PICK m \in net : /\ m.proc = p /\ N = net \ {m} /\ I = [incoming_ EXCEPT ![p] = @ \cup {m}]
  BY DEF Receive
<1>3. ProgressInv'
  <2>1. Rounds' = Rounds /\ \A q \in Proc : HasResolved(q)' <=> HasResolved(q)
    BY <1>0, SameRanks DEF HasResolved, HasMoved, HasDecided
  <2> QED
    BY <1>0, <1>1, <1>2, <2>1 DEF ProgressInv
<1>4. MailOK(round, pc, net, incoming_) /\ HeardOK(round, pc, net, blocks)
  BY <1>0, MailNow
<1>5. MailAt(N, I) = MailAt(net, incoming_)
  BY <1>1, <1>2 DEF MailAt
<1>6. \A q \in Proc : \A n \in I[q] : n.proc = q /\ n \notin N
  BY <1>1, <1>2, <1>4 DEF MailOK
<1>7. MailOK(round, pc, N, I)
  BY <1>4, <1>5, <1>6 DEF MailOK
<1>8. HeardOK(round, pc, N, blocks)
  BY <1>2, <1>4 DEF HeardOK
<1> QED
  BY <1>0, <1>3, <1>7, <1>8, SameRanks, MailPrimed

\* A rank that has as many queues as its blocks are to get has them all: they are
\* different ones, each from a partner.
LEMMA AllHeard ==
  ASSUME MessagesInv, NEW p \in Proc, pc[p] = "flush", received(p) >= Expected(p, round[p] + 1)
  PROVE  LET r == round[p] + 1 IN
         \A h \in blocks[p] \cap setup.part.active[r] : \A g \in Ins(r, h) :
           \E m \in incoming_[p] : IsQueue(m, g, h, r)
<1> DEFINE r == round[p] + 1
           S == blocks[p] \cap setup.part.active[r]
           R == {m \in incoming_[p] : m.round = r}
           in(h) == setup.part.incoming[r][h]
           E == UNION {{h} \X DOMAIN in(h) : h \in S}
<1>0. SetupOK /\ BalanceInv /\ PartnersMatch(setup) /\ ProgressInv /\ MailInv /\ HeardInv
  BY DEF MessagesInv
<1>1. round[p] \in Nat /\ r \in 1..Rounds /\ r - 1 = round[p] /\ HasResolved(p)
  <2>1. round[p] \in 0..Rounds /\ round[p] < Rounds /\ Rounds \in Nat
    BY <1>0 DEF ProgressInv, PartnersMatch, Rounds
  <2> QED
    BY <2>1 DEF HasResolved, HasMoved, HasDecided
<1>2. /\ \A h \in setup.part.active[r] : \A i, j \in DOMAIN in(h) : in(h)[i] = in(h)[j] => i = j
      /\ \A h \in setup.part.active[r] : Len(in(h)) \in Nat /\ DOMAIN in(h) = 1..Len(in(h))
  BY <1>0, <1>1, PartnersOnce
<1>3. received(p) = Cardinality(R) /\ Expected(p, r) = Cardinality(E)
  BY DEF received, Expected
<1>4. \A h, g : g \in Ins(r, h) <=> \E i \in DOMAIN in(h) : g = in(h)[i]
  BY DEF Ins, ToSet
<1> HIDE DEF in
<1>5. \A h, i : <<h, i>> \in E <=> h \in S /\ i \in DOMAIN in(h)
  OBVIOUS
<1>6. IsFiniteSet(E)
  <2> DEFINE f == [h \in S |-> {h} \X DOMAIN in(h)]
  <2>1. S \subseteq Gid /\ IsFiniteSet(S)
    BY <1>0, Disjoint, GidsFinite
  <2>2. ASSUME NEW h \in S PROVE IsFiniteSet(f[h])
    <3>1. IsFiniteSet(DOMAIN in(h))
      BY <1>2, FS_Interval
    <3>2. IsFiniteSet({h})
      BY FS_Singleton
    <3> QED
      BY <3>1, <3>2, FS_Product
  <2>3. f \in Surjection(S, {f[h] : h \in S})
    BY DEF Surjection
  <2>4. E = UNION {f[h] : h \in S}
    OBVIOUS
  <2> HIDE DEF f, S, E
  <2>5. IsFiniteSet({f[h] : h \in S})
    BY <2>1, <2>3, FS_Surjection
  <2> QED
    BY <2>2, <2>4, <2>5, FS_UNION
<1>7. ASSUME NEW m \in R PROVE m.to \in S /\ m.from \in Ins(r, m.to) /\ m \in Mail /\ m.round = r
  <2>1. m \in Mail /\ m.proc = p
    BY <1>0 DEF Mail, MailInv
  <2> QED
    BY <1>0, <1>1, <2>1, MailFacts
<1> DEFINE at(m) == CHOOSE i \in DOMAIN in(m.to) : m.from = in(m.to)[i]
           f == [m \in R |-> <<m.to, at(m)>>]
<1>8. \A m \in R : at(m) \in DOMAIN in(m.to) /\ m.from = in(m.to)[at(m)]
  BY <1>4, <1>7
<1> HIDE DEF at
<1>9. f \in [R -> E]
  BY <1>5, <1>7, <1>8
<1>10. ASSUME NEW m \in R, NEW n \in R, f[m] = f[n] PROVE m = n
  <2>1. m.to = n.to /\ at(m) = at(n)
    BY <1>10
  <2>2. m.from = n.from
    BY <1>8, <2>1
  <2>3. IsQueue(m, n.from, n.to, n.round)
    BY <1>7, <2>1, <2>2 DEF IsQueue
  <2> QED
    BY <1>0, <1>7, <2>3 DEF MailInv
<1>11. \A m \in R : f[m] = <<m.to, at(m)>>
  OBVIOUS
<1>12. \A e \in E : \E m \in R : f[m] = e
  <2> HIDE DEF f, R, E
  <2>1. f \in Injection(R, E)
    BY <1>9, <1>10 DEF Injection, IsInjective
  <2>2. /\ Cardinality(R) <= Cardinality(E)
        /\ Cardinality(R) = Cardinality(E) <=> f \in Surjection(R, E)
        /\ IsFiniteSet(R)
    BY <1>6, <2>1, FS_Injection
  <2>3. Cardinality(R) \in Nat /\ Cardinality(E) \in Nat
    BY <1>6, <2>2, FS_CardinalityType
  <2>4. Cardinality(R) >= Cardinality(E)
    BY <1>3
  <2>5. f \in Surjection(R, E)
    BY <2>2, <2>3, <2>4
  <2> QED
    BY <2>5 DEF Surjection
<1> HIDE DEF f
<1>13. ASSUME NEW h \in S, NEW g \in Ins(r, h) PROVE \E m \in incoming_[p] : IsQueue(m, g, h, r)
  <2>1. PICK i \in DOMAIN in(h) : g = in(h)[i]
    BY <1>4
  <2>2. <<h, i>> \in E
    BY <1>5, <2>1
  <2> HIDE DEF E
  <2>3. PICK m \in R : f[m] = <<h, i>>
    BY <1>12, <2>2
  <2>4. m.to = h /\ at(m) = i
    BY <1>11, <2>3
  <2>5. m.from = g
    BY <1>8, <2>1, <2>4
  <2> QED
    BY <2>4, <2>5 DEF IsQueue
<1> QED
  BY <1>13

LEMMA EndFlushMail ==
  ASSUME MessagesInv, NEW p \in Proc, EndFlush(p), expected_[p] = Expected(p, round[p] + 1)
  PROVE  ProgressInv' /\ MailInv' /\ HeardInv'
<1> DEFINE r == round[p] + 1
<1> PICK rd : rd = round'
  OBVIOUS
<1> PICK st : st = pc'
  OBVIOUS
<1>0. /\ SetupOK /\ BalanceInv /\ PartnersMatch(setup) /\ ProgressInv /\ MailInv /\ HeardInv
      /\ blocks' = blocks /\ setup' = setup /\ rank_map_' = rank_map_ /\ net' = net
      /\ incoming_' = incoming_ /\ original_expected' = original_expected
      /\ pc[p] = "flush" /\ received(p) >= Expected(p, r)
  BY DEF MessagesInv, EndFlush
<1>1. /\ DOMAIN pc = Proc /\ DOMAIN round = Proc
      /\ round[p] \in Nat /\ r \in 1..Rounds /\ r - 1 = round[p]
  <2>1. round[p] \in 0..Rounds /\ round[p] < Rounds /\ Rounds \in Nat
    BY <1>0 DEF ProgressInv, PartnersMatch, Rounds
  <2> QED
    BY <1>0, <2>1 DEF ProgressInv, BalanceInv, Domains
<1>2. /\ DOMAIN rd = Proc /\ DOMAIN st = Proc /\ rd[p] = r /\ st[p] = "foreach"
      /\ \A q \in Proc : q # p => rd[q] = round[q] /\ st[q] = pc[q]
  BY <1>1 DEF EndFlush
<1>3. ProgressInv'
  <2>1. HasResolved(p)' /\ \A q \in Proc : HasResolved(q)' <=> HasResolved(q)
    BY <1>0, <1>2 DEF HasResolved, HasMoved, HasDecided
  <2>2. Rounds' = Rounds
    BY <1>0, SameRanks
  <2>3. \A q \in Proc : /\ rd[q] \in 0..Rounds
                        /\ ~HasResolved(q)' => rd[q] = 0
                        /\ st[q] = "flush" => rd[q] < Rounds
                        /\ st[q] \in {"deferred", "done"} => rd[q] = Rounds
    BY <1>0, <1>1, <1>2, <2>1 DEF ProgressInv
  <2> QED
    BY <1>0, <1>2, <2>2, <2>3 DEF ProgressInv
<1>4. MailOK(round, pc, net, incoming_) /\ HeardOK(round, pc, net, blocks)
  BY <1>0, MailNow
<1>5. \A q : \A s \in Nat : Passed(rd, st, q, s) <=> Passed(round, pc, q, s)
  BY <1>0, <1>1, <1>2 DEF Passed
<1>6. \A s \in 1..Rounds : \A g, h : DueAt(rd, st, g, h, s) <=> DueAt(round, pc, g, h, s)
  <2>1. \A s \in 1..Rounds : s \in Nat /\ s - 1 \in Nat
    OBVIOUS
  <2> QED
    BY <1>5, <2>1 DEF DueAt
<1>7. MailOK(rd, st, net, incoming_)
  BY <1>4, <1>6 DEF MailOK
<1>8. \A h \in blocks[p] \cap setup.part.active[r] : \A g \in Ins(r, h) :
        \E m \in incoming_[p] : IsQueue(m, g, h, r)
  BY <1>0, AllHeard
<1>9. ASSUME NEW m \in net PROVE rd[m.proc] < m.round
  <2>1. m \in Mail
    BY DEF Mail
  <2>2. /\ m.round \in 1..Rounds /\ m.proc \in Proc /\ m.from \in Ins(m.round, m.to)
        /\ m.to \in setup.part.active[m.round] /\ HasResolved(p)
        /\ HasResolved(p) => (m.to \in blocks[p] <=> m.proc = p)
    BY <1>0, <2>1, MailFacts DEF HasResolved, HasMoved, HasDecided
  <2>3. round[m.proc] < m.round
    BY <1>4 DEF HeardOK
  <2>4. CASE m.proc = p
    <3>1. CASE m.round = r
      <4>1. PICK n \in incoming_[p] : IsQueue(n, m.from, m.to, r)
        BY <1>8, <2>2, <2>4, <3>1
      <4>2. n \in Mail
        BY DEF Mail
      <4>3. n = m
        BY <1>0, <2>1, <3>1, <4>1, <4>2 DEF MailInv
      <4> QED
        BY <1>4, <4>3 DEF MailOK
    <3> QED
      BY <1>1, <1>2, <2>2, <2>3, <2>4, <3>1
  <2> QED
    BY <1>2, <2>2, <2>3, <2>4
<1>10. ASSUME NEW q \in Proc, NEW s \in 1..rd[q], NEW h \in blocks[q] \cap setup.part.active[s], NEW g \in Ins(s, h)
       PROVE  Passed(rd, st, rank(g), s - 1)
  <2>1. rd[q] \in 0..Rounds /\ round[q] \in 0..Rounds /\ s \in Nat /\ s - 1 \in Nat
    BY <1>0, <1>1, <1>2 DEF ProgressInv
  <2>2. CASE s \in 1..round[q]
    BY <1>4, <1>5, <2>1, <2>2 DEF HeardOK
  <2>3. CASE s \notin 1..round[q]
    <3>1. q = p /\ s = r
      BY <1>1, <1>2, <2>1, <2>3
    <3>2. PICK m \in incoming_[p] : IsQueue(m, g, h, r)
      BY <1>8, <3>1
    <3>3. DueAt(round, pc, g, h, r)
      BY <1>4, <3>2 DEF MailOK, MailAt, IsQueue
    <3> QED
      BY <1>5, <2>1, <3>1, <3>3 DEF DueAt
  <2> QED
    BY <2>2, <2>3
<1>11. HeardOK(rd, st, net, blocks)
  BY <1>9, <1>10 DEF HeardOK
<1> QED
  BY <1>0, <1>3, <1>7, <1>11, SameRanks, MailPrimed

LEMMA LastMail ==
  ASSUME MessagesInv, NEW p \in Proc, Return(p) \/ execute(p)
  PROVE  ProgressInv' /\ MailInv' /\ HeardInv'
<1> PICK st : st = pc'
  OBVIOUS
<1>0. /\ SetupOK /\ BalanceInv /\ PartnersMatch(setup) /\ ProgressInv /\ MailInv /\ HeardInv
      /\ blocks' = blocks /\ setup' = setup /\ rank_map_' = rank_map_ /\ net' = net
      /\ incoming_' = incoming_ /\ original_expected' = original_expected /\ round' = round
      /\ pc[p] \in {"foreach", "deferred"} /\ round[p] = Rounds
  BY DEF MessagesInv, Return, execute, reduceVars, ProgressInv
<1>1. DOMAIN pc = Proc
  BY <1>0 DEF BalanceInv, Domains
<1>2. /\ DOMAIN st = Proc /\ st[p] \in {"deferred", "done"} /\ \A q \in Proc : q # p => st[q] = pc[q]
  BY <1>1 DEF Return, execute
<1>3. ProgressInv'
  <2>1. HasResolved(p)' /\ \A q \in Proc : HasResolved(q)' <=> HasResolved(q)
    BY <1>0, <1>2 DEF HasResolved, HasMoved, HasDecided
  <2>2. Rounds' = Rounds
    BY <1>0, SameRanks
  <2>3. \A q \in Proc : /\ round[q] \in 0..Rounds
                        /\ ~HasResolved(q) => round[q] = 0
                        /\ st[q] = "flush" => round[q] < Rounds
                        /\ st[q] \in {"deferred", "done"} => round[q] = Rounds
    BY <1>0, <1>2 DEF ProgressInv
  <2> QED
    BY <1>0, <2>1, <2>2, <2>3 DEF ProgressInv
<1>4. MailOK(round, pc, net, incoming_) /\ HeardOK(round, pc, net, blocks)
  BY <1>0, MailNow
<1>5. \A q, s : Passed(round, st, q, s) <=> Passed(round, pc, q, s)
  BY <1>0, <1>2 DEF Passed
<1>6. MailOK(round, st, net, incoming_) /\ HeardOK(round, st, net, blocks)
  BY <1>4, <1>5 DEF MailOK, DueAt, HeardOK
<1> QED
  BY <1>0, <1>3, <1>6, SameRanks, MailPrimed

\* The stages of a rank until its links are resolved.
LEMMA BalanceStages ==
  ASSUME BalanceInv, NEW p \in Proc, BalanceNext(p)
  PROVE  /\ pc[p] \in {"decompose", "gather", "decide", "move", "barrier"}
         /\ pc'[p] \in {"gather", "decide", "move", "barrier", "foreach"}
         /\ \A q \in Proc : q # p => pc'[q] = pc[q] /\ blocks'[q] = blocks[q]
         /\ rank_map_' # rank_map_ => pc[p] = "move"
<1>1. DOMAIN pc = Proc /\ DOMAIN blocks = Proc
  BY DEF BalanceInv, Domains
<1>2. CASE Decompose(p)
  BY <1>1, <1>2 DEF Decompose
<1>3. CASE exchange_work_info(p)
  BY <1>1, <1>3 DEF exchange_work_info
<1>4. CASE Decide(p)
  BY <1>1, <1>4 DEF Decide
<1>5. CASE SendBlock(p)
  BY <1>1, <1>5 DEF SendBlock, Moving
<1>6. CASE RecvBlock(p)
  BY <1>1, <1>6 DEF RecvBlock, Moving
<1>7. CASE SkipMove(p)
  BY <1>1, <1>7 DEF SkipMove, Moving
<1>8. CASE record_local_gids(p)
  BY <1>1, <1>8 DEF record_local_gids
<1>9. CASE update_links(p)
  BY <1>1, <1>9 DEF update_links
<1> QED
  BY <1>2, <1>3, <1>4, <1>5, <1>6, <1>7, <1>8, <1>9 DEF BalanceNext

\* The steps before: while blocks move, no rank has sent anything yet.
LEMMA BalanceMail ==
  ASSUME MessagesInv, NEW p \in Proc, BalanceNext(p), UNCHANGED reduceVars
  PROVE  ProgressInv' /\ MailInv' /\ HeardInv'
<1> PICK st : st = pc'
  OBVIOUS
<1> PICK held : held = blocks'
  OBVIOUS
<1>0. /\ SetupOK /\ BalanceInv /\ PartnersMatch(setup) /\ ProgressInv /\ MailInv /\ HeardInv
      /\ setup' = setup /\ net' = net /\ incoming_' = incoming_
      /\ original_expected' = original_expected /\ round' = round
  BY BalanceKeepsSetup DEF MessagesInv, reduceVars
<1>2. /\ pc[p] \in {"decompose", "gather", "decide", "move", "barrier"}
      /\ st[p] \in {"gather", "decide", "move", "barrier", "foreach"}
      /\ \A q \in Proc : q # p => st[q] = pc[q] /\ held[q] = blocks[q]
      /\ rank_map_' # rank_map_ => pc[p] = "move"
  BY <1>0, BalanceStages
<1>3. ~HasResolved(p) /\ round[p] = 0
  BY <1>0, <1>2 DEF HasResolved, HasMoved, HasDecided, ProgressInv
<1>4. ProgressInv'
  <2>1. Rounds' = Rounds /\ \A q \in Proc : q # p => (HasResolved(q)' <=> HasResolved(q))
    BY <1>0, <1>2 DEF HasResolved, HasMoved, HasDecided, Rounds
  <2>2. \A q \in Proc : /\ round[q] \in 0..Rounds
                        /\ ~HasResolved(q)' => round[q] = 0
                        /\ st[q] = "flush" => round[q] < Rounds
                        /\ st[q] \in {"deferred", "done"} => round[q] = Rounds
    BY <1>0, <1>2, <1>3, <2>1 DEF ProgressInv
  <2> QED
    BY <1>0, <2>1, <2>2 DEF ProgressInv
<1>5. MailOK(round, pc, net, incoming_) /\ HeardOK(round, pc, net, blocks)
  BY <1>0, MailNow
<1>6. \A q, s : Passed(round, st, q, s) <=> Passed(round, pc, q, s)
  BY <1>2 DEF Passed
<1>7. HeardOK(round, st, net, held)
  <2>1. \A q \in Proc : \A s \in 1..round[q] : held[q] = blocks[q]
    BY <1>2, <1>3
  <2> QED
    BY <1>5, <1>6, <2>1 DEF HeardOK
<1>8. MailOK(round, st, net, incoming_)
  BY <1>5, <1>6 DEF MailOK, DueAt
<1>9. CASE rank_map_' = rank_map_
  BY <1>0, <1>4, <1>7, <1>8, <1>9, SameRanks, MailPrimed
<1>10. CASE rank_map_' # rank_map_
  <2>1. \A q \in Proc : ~HasResolved(q)
    BY <1>0, <1>2, <1>10 DEF BalanceInv, StagesInv, Stage, HasMoved, SetupOK
  <2>2. \A q, s : s \in Nat => ~Past(q, s)
    BY <1>0, <2>1, PastResolved
  <2>3. \A q \in Proc : round[q] = 0 /\ st[q] # "flush"
    BY <1>0, <1>2, <2>1 DEF ProgressInv, HasResolved, HasMoved, HasDecided
  <2>4. Mail = {}
    <3>1. SUFFICES ASSUME NEW m \in Mail PROVE FALSE
      OBVIOUS
    <3> QED
      BY <1>0, <2>2, MailFacts
  <2>5. Mail' = {}
    BY <1>0, <2>4 DEF Mail
  <2>6. \A g, h : \A s \in 1..Rounds : ~Due(g, h, s)'
    BY <1>0, <2>3 DEF Due, Past
  <2>7. MailInv'
    <3>1. Rounds' = Rounds
      BY <1>0 DEF Rounds
    <3>2. net' = {} /\ \A q \in Proc : incoming_'[q] = {}
      BY <1>0, <2>4 DEF Mail
    <3> QED
      BY <2>5, <2>6, <3>1, <3>2 DEF MailInv
  <2>8. HeardInv'
    <3>1. net' = {}
      BY <1>0, <2>4 DEF Mail
    <3>2. \A q \in Proc : 1..round'[q] = {}
      BY <1>0, <2>3
    <3> QED
      BY <3>1, <3>2 DEF HeardInv
  <2> QED
    BY <1>4, <2>7, <2>8
<1> QED
  BY <1>9, <1>10

-----------------------------------------------------------------------------
(***************************************************************************)
(* How many queues each rank waits for: of the round in a flush, and over  *)
(* the links otherwise.                                                    *)
(***************************************************************************)
Within(rd, st, q) == st[q] = "flush" \/ (st[q] = "foreach" /\ rd[q] > 0)
WaitsFor(r, S) == Cardinality(UNION {{g} \X DOMAIN setup.part.incoming[r][g] : g \in S \cap setup.part.active[r]})
ExpectedOK(rd, st, ex, orig, held) ==
  \A q \in Proc :
    /\ (IF Within(rd, st, q) THEN orig[q] ELSE ex[q]) = Cardinality(Pairs(held[q]))
    /\ st[q] = "flush" => ex[q] = WaitsFor(rd[q] + 1, held[q])

LEMMA ExpectedNow ==
  ExpectedInv <=> ExpectedOK(round, pc, expected_, original_expected, blocks)
BY DEF ExpectedInv, ExpectedOK, Within, WaitsFor, Expected

LEMMA ExpectedPrimed ==
  ASSUME setup' = setup, NEW rd, rd = round', NEW st, st = pc', NEW ex, ex = expected_',
         NEW orig, orig = original_expected', NEW held, held = blocks'
  PROVE  ExpectedInv' <=> ExpectedOK(rd, st, ex, orig, held)
BY DEF ExpectedInv, ExpectedOK, Within, WaitsFor, Expected, Pairs

LEMMA ReduceExpected ==
  ASSUME MessagesInv, ExpectedInv, NEW p \in Proc, ReduceStep(p)
  PROVE  ExpectedInv'
<1> PICK rd : rd = round'
  OBVIOUS
<1> PICK st : st = pc'
  OBVIOUS
<1> PICK ex : ex = expected_'
  OBVIOUS
<1> PICK orig : orig = original_expected'
  OBVIOUS
<1>0. SetupOK /\ BalanceInv /\ PartnersMatch(setup) /\ ProgressInv
  BY DEF MessagesInv
<1>1. setup' = setup /\ blocks' = blocks
  BY <1>0, ReduceKeeps
<1>2. ExpectedOK(round, pc, expected_, original_expected, blocks)
  BY ExpectedNow
<1>3. DOMAIN pc = Proc /\ DOMAIN expected_ = Proc /\ DOMAIN original_expected = Proc /\ DOMAIN round = Proc
  BY <1>0 DEF ProgressInv, BalanceInv, Domains
<1>4. \A q \in Proc : q # p => /\ rd[q] = round[q] /\ st[q] = pc[q] /\ ex[q] = expected_[q]
                               /\ orig[q] = original_expected[q]
  BY <1>3 DEF ReduceStep, Round, Receive, EndFlush, Return, execute, balanceVars, reduceVars
<1>5. round[p] \in Nat /\ Rounds \in Nat
  BY <1>0 DEF ProgressInv, PartnersMatch, Rounds
<1>6. /\ (IF Within(rd, st, p) THEN orig[p] ELSE ex[p])
           = (IF Within(round, pc, p) THEN original_expected[p] ELSE expected_[p])
      /\ st[p] = "flush" => \/ ex[p] = WaitsFor(rd[p] + 1, blocks[p])
                            \/ pc[p] = "flush" /\ ex[p] = expected_[p] /\ rd[p] = round[p]
  <2>1. CASE Round(p)
    <3>1. /\ pc[p] = "foreach" /\ st[p] = "flush" /\ rd[p] = round[p]
          /\ orig[p] = IF round[p] = 0 THEN expected_[p] ELSE original_expected[p]
          /\ ex[p] = Expected(p, round[p] + 1)
      BY <1>3, <2>1 DEF Round
    <3>2. Expected(p, round[p] + 1) = WaitsFor(round[p] + 1, blocks[p])
      BY DEF Expected, WaitsFor
    <3> QED
      BY <1>5, <3>1, <3>2 DEF Within
  <2>2. CASE Receive(p)
    <3>1. st = pc /\ rd = round /\ ex = expected_ /\ orig = original_expected /\ pc[p] = "flush"
      BY <2>2 DEF Receive, balanceVars
    <3> QED
      BY <3>1 DEF Within
  <2>3. CASE EndFlush(p)
    <3>1. /\ pc[p] = "flush" /\ st[p] = "foreach" /\ rd[p] = round[p] + 1 /\ orig = original_expected
      BY <1>3, <2>3 DEF EndFlush
    <3> QED
      BY <1>5, <3>1 DEF Within
  <2>4. CASE Return(p)
    <3>1. /\ pc[p] = "foreach" /\ st[p] = "deferred" /\ round[p] = Rounds /\ orig = original_expected
          /\ ex[p] = IF Rounds = 0 THEN expected_[p] ELSE original_expected[p]
      BY <1>3, <2>4 DEF Return, reduceVars
    <3> QED
      BY <1>5, <3>1 DEF Within
  <2>5. CASE execute(p)
    <3>1. /\ pc[p] = "deferred" /\ st[p] = "done" /\ ex = expected_ /\ orig = original_expected
      BY <1>3, <2>5 DEF execute
    <3> QED
      BY <3>1 DEF Within
  <2> QED
    BY <2>1, <2>2, <2>3, <2>4, <2>5 DEF ReduceStep
<1>7. ASSUME NEW q \in Proc
      PROVE  /\ (IF Within(rd, st, q) THEN orig[q] ELSE ex[q]) = Cardinality(Pairs(blocks[q]))
             /\ st[q] = "flush" => ex[q] = WaitsFor(rd[q] + 1, blocks[q])
  <2>1. CASE q = p
    BY <1>2, <1>6, <2>1 DEF ExpectedOK
  <2>2. CASE q # p
    BY <1>2, <1>4, <2>2 DEF ExpectedOK, Within
  <2> QED
    BY <2>1, <2>2
<1>8. ExpectedOK(rd, st, ex, orig, blocks)
  BY <1>7 DEF ExpectedOK
<1> QED
  BY <1>1, <1>8, ExpectedPrimed

\* A block that leaves a rank, or comes to it, with its link.
LEMMA MovedLink ==
  ASSUME SetupOK, BalanceInv, NEW p \in Proc, SendBlock(p) \/ RecvBlock(p)
  PROVE  LET g == Move(p).gid IN
         /\ g \in Gid /\ link[g] = placed(g)
         /\ SendBlock(p) => g \in blocks[p]
         /\ RecvBlock(p) => g \notin blocks[p]
<1> DEFINE i == next_move[p]
           g == Move(p).gid
<1> PICK M : M = Moves
  OBVIOUS
<1> PICK n : n = next_move
  OBVIOUS
<1>1. pc[p] = "move" /\ i <= Len(all_move_info[p])
  BY DEF SendBlock, RecvBlock, Moving
<1>2. all_move_info[p] = M /\ i \in 1..(Len(M) + 1)
  BY <1>1 DEF BalanceInv, StagesInv, Stage, HasDecided
<1>3. /\ DOMAIN M = 1..Len(M) /\ Len(M) \in Nat
      /\ \A j \in DOMAIN M : /\ M[j].src \in Proc /\ M[j].dst \in Proc /\ M[j].gid \in Gid
                             /\ StaticRank(M[j].gid) = M[j].src /\ M[j].dst # M[j].src
      /\ \A q \in Proc : n[q] \in Nat
  BY InvFacts
<1>4. i \in DOMAIN M /\ Move(p) = M[i] /\ n[p] = i
  BY <1>1, <1>2, <1>3 DEF Move
<1>5. /\ \A q \in Proc : M[i].gid \in blocks[q] <=> \/ q = M[i].src /\ n[q] <= i
                                                    \/ q = M[i].dst /\ i < n[q]
  BY <1>4, MovedBlock
<1>6. CASE SendBlock(p)
  <2>1. M[i].src = p
    BY <1>4, <1>6 DEF SendBlock
  <2>2. g \in blocks[p]
    BY <1>3, <1>4, <1>5, <2>1
  <2>3. ~HasResolved(p)
    BY <1>1 DEF HasResolved, HasMoved
  <2>4. link[g] = placed(g)
    BY <2>2, <2>3 DEF BalanceInv, LinksInv
  <2>5. ~RecvBlock(p)
    BY <1>3, <1>4, <2>1 DEF RecvBlock
  <2> QED
    BY <1>3, <1>4, <2>2, <2>4, <2>5
<1>7. CASE RecvBlock(p)
  <2>1. M[i].dst = p /\ <<g, p>> \in moving
    BY <1>4, <1>7 DEF RecvBlock
  <2>2. g \notin blocks[p]
    BY <1>3, <1>4, <1>5, <2>1
  <2>3. link[g] = placed(g)
    BY <2>1 DEF BalanceInv, LinksInv
  <2>4. ~SendBlock(p)
    BY <1>3, <1>4, <2>1 DEF SendBlock
  <2> QED
    BY <1>3, <1>4, <2>2, <2>3, <2>4
<1> QED
  BY <1>6, <1>7

LEMMA BalanceExpected ==
  ASSUME MessagesInv, GridAgrees(setup), ExpectedInv, NEW p \in Proc, BalanceNext(p), UNCHANGED reduceVars
  PROVE  ExpectedInv'
<1> PICK st : st = pc'
  OBVIOUS
<1> PICK ex : ex = expected_'
  OBVIOUS
<1> PICK held : held = blocks'
  OBVIOUS
<1>0. /\ SetupOK /\ BalanceInv /\ ProgressInv /\ setup' = setup
      /\ round' = round /\ original_expected' = original_expected
  BY BalanceKeepsSetup DEF MessagesInv, reduceVars
<1>1. DOMAIN pc = Proc /\ DOMAIN expected_ = Proc /\ DOMAIN blocks = Proc
  BY <1>0 DEF BalanceInv, Domains
<1>2. ExpectedOK(round, pc, expected_, original_expected, blocks)
  BY ExpectedNow
<1>3. /\ pc[p] \in {"decompose", "gather", "decide", "move", "barrier"} /\ st[p] # "flush"
      /\ \A q \in Proc : q # p => st[q] = pc[q] /\ held[q] = blocks[q] /\ ex[q] = expected_[q]
      /\ ~(Decompose(p) \/ SendBlock(p) \/ RecvBlock(p)) => held = blocks /\ ex = expected_
  <2>1. CASE Decompose(p)
    BY <1>1, <2>1 DEF Decompose
  <2>2. CASE exchange_work_info(p)
    BY <1>1, <2>2 DEF exchange_work_info
  <2>3. CASE Decide(p)
    BY <1>1, <2>3 DEF Decide
  <2>4. CASE SendBlock(p)
    BY <1>1, <2>4 DEF SendBlock, Moving
  <2>5. CASE RecvBlock(p)
    BY <1>1, <2>5 DEF RecvBlock, Moving
  <2>6. CASE SkipMove(p)
    BY <1>1, <2>6 DEF SkipMove, Moving
  <2>7. CASE record_local_gids(p)
    BY <1>1, <2>7 DEF record_local_gids
  <2>8. CASE update_links(p)
    BY <1>1, <2>8 DEF update_links
  <2> QED
    BY <2>1, <2>2, <2>3, <2>4, <2>5, <2>6, <2>7, <2>8 DEF BalanceNext
<1>4. round[p] = 0 /\ ~Within(round, pc, p) /\ ~Within(round, st, p)
  BY <1>0, <1>3 DEF Within, ProgressInv, HasResolved, HasMoved, HasDecided
<1>5. expected_[p] = Cardinality(Pairs(blocks[p]))
  BY <1>2, <1>4 DEF ExpectedOK
<1>6. ex[p] = Cardinality(Pairs(held[p]))
  <2>1. CASE Decompose(p)
    <3> PICK lk : lk = link'
      OBVIOUS
    <3> DEFINE S == local_gids(p)
               R == [h \in Gid |-> StaticRank(h)]
    <3>1. ex[p] = Cardinality(Edges(S, lk)) /\ held[p] = S
      BY <1>1, <2>1 DEF Decompose
    <3>2. S \subseteq Gid
      BY <1>0, StaticPlaces
    <3>3. \A g \in S : lk[g] = placed(g)
      BY <2>1, <3>2 DEF Decompose
    <3>4. \A g \in S : \A x \in setup.near[g] : x.gid \in Gid /\ R[x.gid] = StaticRank(x.gid)
      BY <3>2 DEF GridAgrees, Gid
    <3> HIDE DEF R, S
    <3>5. \A g \in S : \A n \in lk[g] : \E x \in setup.near[g] : n.gid = x.gid /\ n.proc = R[x.gid]
      BY <3>3, <3>4 DEF placed
    <3>6. ASSUME NEW g \in S, NEW x \in setup.near[g] PROVE \E n \in lk[g] : n.gid = x.gid /\ n.proc = R[x.gid]
      <4> DEFINE n == [gid |-> x.gid, dir |-> x.dir, wrap |-> x.wrap, proc |-> StaticRank(x.gid)]
      <4>1. n \in lk[g]
        <5>1. n \in placed(g) /\ lk[g] = placed(g)
          BY <3>3 DEF placed
        <5> QED
          BY Zenon, <5>1
      <4>2. n.gid = x.gid /\ n.proc = R[x.gid]
        BY <3>4
      <4> QED
        BY <4>1, <4>2
    <3>7. \A g \in S : \A x \in setup.near[g] : \E n \in lk[g] : n.gid = x.gid /\ n.proc = R[x.gid]
      BY <3>6
    <3>8. Cardinality(Edges(S, lk)) = Cardinality(Pairs(S))
      <4>1. SetupOK /\ GridAgrees(setup)
        BY <1>0
      <4> QED
        BY ZenonT(40), <3>2, <3>5, <3>7, <4>1, EdgesCount
    <3> QED
      BY <3>1, <3>8
  <2>2. CASE SendBlock(p)
    <3> PICK g : g = Move(p).gid
      OBVIOUS
    <3>1. g \in Gid /\ g \in blocks[p] /\ size_unique(link[g]) = Cardinality(Pairs({g}))
      BY <1>0, <2>2, MovedLink, UniqueCount
    <3>2. held[p] = blocks[p] \ {g} /\ ex[p] = expected_[p] - size_unique(link[g])
      BY <1>1, <2>2 DEF SendBlock
    <3>3. held[p] \subseteq Gid /\ blocks[p] = held[p] \cup {g} /\ g \notin held[p]
      BY <1>0, <3>1, <3>2, Disjoint
    <3>4. Cardinality(Pairs(blocks[p])) = Cardinality(Pairs(held[p])) + Cardinality(Pairs({g}))
      BY <1>0, <3>1, <3>3, PairsAdd
    <3>5. Cardinality(Pairs(held[p])) \in Nat /\ Cardinality(Pairs({g})) \in Nat
      BY <1>0, <3>1, <3>3, PairsFinite
    <3> QED
      BY <1>5, <3>1, <3>2, <3>4, <3>5
  <2>3. CASE RecvBlock(p)
    <3> PICK g : g = Move(p).gid
      OBVIOUS
    <3>1. g \in Gid /\ g \notin blocks[p] /\ size_unique(link[g]) = Cardinality(Pairs({g}))
      BY <1>0, <2>3, MovedLink, UniqueCount
    <3>2. held[p] = blocks[p] \cup {g} /\ ex[p] = expected_[p] + size_unique(link[g])
      BY <1>1, <2>3 DEF RecvBlock
    <3>3. blocks[p] \subseteq Gid
      BY <1>0, Disjoint
    <3>4. Cardinality(Pairs(held[p])) = Cardinality(Pairs(blocks[p])) + Cardinality(Pairs({g}))
      BY <1>0, <3>1, <3>2, <3>3, PairsAdd
    <3> QED
      BY <1>5, <3>1, <3>2, <3>4
  <2> QED
    BY <1>3, <1>5, <2>1, <2>2, <2>3
<1>7. ASSUME NEW q \in Proc
      PROVE  /\ (IF Within(round, st, q) THEN original_expected[q] ELSE ex[q]) = Cardinality(Pairs(held[q]))
             /\ st[q] = "flush" => ex[q] = WaitsFor(round[q] + 1, held[q])
  <2>1. CASE q = p
    BY <1>3, <1>4, <1>6, <2>1
  <2>2. CASE q # p
    BY <1>2, <1>3, <2>2 DEF ExpectedOK, Within
  <2> QED
    BY <2>1, <2>2
<1>8. ExpectedOK(round, st, ex, original_expected, held)
  BY <1>7 DEF ExpectedOK
<1> QED
  BY <1>0, <1>8, ExpectedPrimed

-----------------------------------------------------------------------------
(***************************************************************************)
(* The theorems about a reduction.                                         *)
(***************************************************************************)
Inv == Placement /\ MessagesInv /\ GridAgrees(setup) /\ ExpectedInv

LEMMA InvStart ==
  ASSUME Init
  PROVE  Inv
<1>1. /\ SetupOK /\ BalanceInv /\ Placement /\ GridAgrees(setup) /\ PartnersMatch(setup)
      /\ BalanceInit
  BY BalanceStart, ProgramsMatch DEF Init, BalanceInit, Placement, ProgramsAgree
<1>2. \A q \in Proc : /\ pc[q] = "decompose" /\ round[q] = 0 /\ incoming_[q] = {} /\ expected_[q] = 0
                      /\ blocks[q] = {}
  BY <1>1 DEF BalanceInit, Init
<1>3. Rounds \in Nat /\ net = {} /\ Mail = {}
  BY <1>1, <1>2 DEF Init, PartnersMatch, Rounds, Mail
<1>4. ProgressInv
  BY <1>2, <1>3 DEF Init, ProgressInv, HasResolved, HasMoved, HasDecided
<1>5. \A g, h : \A r \in 1..Rounds : ~Due(g, h, r)
  BY <1>2, <1>3 DEF Due, Past
<1>6. MailInv
  BY <1>2, <1>3, <1>5 DEF MailInv
<1>7. HeardInv
  <2>1. \A q \in Proc : 1..round[q] = {}
    BY <1>2
  <2> QED
    BY <1>3, <2>1 DEF HeardInv
<1>8. ExpectedInv
  <2>1. Pairs({}) = {}
    BY DEF Pairs
  <2>2. Cardinality(Pairs({})) = 0
    BY <2>1, FS_EmptySet
  <2> QED
    BY <1>2, <2>2 DEF ExpectedInv
<1> QED
  BY <1>1, <1>4, <1>6, <1>7, <1>8 DEF Inv, MessagesInv

LEMMA InvStep ==
  ASSUME Inv, [Next]_vars
  PROVE  Inv'
<1>1. Placement'
  BY PlacementStep, PlacementStutter DEF Inv
<1>2. ASSUME NEW p \in Proc, BalanceNext(p), UNCHANGED reduceVars PROVE Inv'
  <2>1. ProgressInv' /\ MailInv' /\ HeardInv' /\ ExpectedInv' /\ setup' = setup
    BY <1>2, BalanceMail, BalanceExpected, BalanceKeepsSetup DEF Inv
  <2> QED
    BY <1>1, <2>1 DEF Inv, MessagesInv, Placement
<1>3. ASSUME NEW p \in Proc, ReduceStep(p) PROVE Inv'
  <2>1. setup' = setup
    BY <1>3, ReduceKeeps DEF Inv, MessagesInv
  <2>2. ProgressInv' /\ MailInv' /\ HeardInv'
    <3>1. CASE EndFlush(p)
      <4>1. expected_[p] = Expected(p, round[p] + 1)
        BY <3>1 DEF Inv, ExpectedInv, EndFlush
      <4> QED
        BY <3>1, <4>1, EndFlushMail DEF Inv
    <3> QED
      BY <1>3, <3>1, RoundMail, ReceiveMail, LastMail DEF Inv, ReduceStep
  <2>3. ExpectedInv'
    BY <1>3, ReduceExpected DEF Inv
  <2> QED
    BY <1>1, <2>1, <2>2, <2>3 DEF Inv, MessagesInv, Placement
<1>4. CASE UNCHANGED vars
  <2>1. UNCHANGED <<setup, pc, blocks, rank_map_, expected_, round, original_expected, net, incoming_>>
    BY <1>4 DEF vars, balanceVars, reduceVars
  <2>2. ProgressInv'
    BY <2>1 DEF Inv, MessagesInv, ProgressInv, Rounds, HasResolved, HasMoved, HasDecided
  <2>3. MailInv' /\ HeardInv'
    BY <2>1, MailNow, MailPrimed, SameRanks DEF Inv, MessagesInv
  <2>4. ExpectedInv'
    BY <2>1, ExpectedNow, ExpectedPrimed DEF Inv
  <2> QED
    BY <1>1, <2>1, <2>2, <2>3, <2>4 DEF Inv, MessagesInv, Placement
<1>5. CASE Next
  <2>1. PICK p \in Proc : (BalanceNext(p) /\ UNCHANGED reduceVars) \/ ReduceStep(p)
    BY <1>5 DEF Next, Step, ReduceStep
  <2> QED
    BY <1>2, <1>3, <2>1
<1> QED
  BY <1>4, <1>5

\* The invariant of a reduction: every queue that is due is there once, each rank
\* that has ended a round has had all queues of it, and waits for as many as there are.
THEOREM ReduceInvariant == Spec => []Inv
<1>1. Init => Inv
  BY InvStart
<1>2. Inv /\ [Next]_vars => Inv'
  BY InvStep
<1> QED
  BY <1>1, <1>2, PTL DEF Spec

LEMMA QueuesFromPartners ==
  ASSUME Inv, NEW p \in Proc, pc[p] \in {"foreach", "deferred"}, NEW g \in Active(p)
  PROVE  LET queues == Queues(p, g) IN
         /\ {m.from : m \in queues} = {in_link(p, g)[i] : i \in DOMAIN in_link(p, g)}
         /\ Cardinality(queues) = Len(in_link(p, g))
<1> DEFINE r == round[p]
           Q == Queues(p, g)
           in == in_link(p, g)
<1>0. /\ SetupOK /\ BalanceInv /\ PartnersMatch(setup) /\ ProgressInv /\ MailInv /\ HeardInv
  BY DEF Inv, MessagesInv
<1>1. r \in 0..Rounds /\ r \in Nat /\ HasResolved(p) /\ Rounds \in Nat
  BY <1>0 DEF ProgressInv, HasResolved, HasMoved, HasDecided, PartnersMatch, Rounds
<1>2. \A m \in Q : m \in Mail /\ m.proc = p /\ m.round = r /\ m.to = g /\ m.round \in 1..Rounds
  BY <1>0 DEF Queues, Mail, MailInv
<1>3. CASE r = 0
  <2>1. Q = {}
    BY <1>2, <1>3
  <2>2. in = <<>>
    BY <1>3 DEF in_link
  <2> HIDE DEF Q, in
  <2>3. Cardinality(Q) = 0 /\ Len(in) = 0 /\ DOMAIN in = {}
    BY <2>1, <2>2, FS_EmptySet
  <2>4. {m.from : m \in Q} = {} /\ {in[i] : i \in DOMAIN in} = {}
    BY <2>1, <2>3
  <2> QED
    BY <2>3, <2>4 DEF Q, in
<1>4. CASE r # 0
  <2>1. r \in 1..Rounds /\ r - 1 \in Nat
    BY <1>1, <1>4
  <2>2. in = setup.part.incoming[r][g]
    BY <1>1, <1>4 DEF in_link
  <2>3. g \in blocks[p] /\ g \in setup.part.active[r] /\ g \in Gid
    BY <1>0 , Disjoint DEF Active
  <2>4. \A f : f \in Ins(r, g) <=> \E i \in DOMAIN in : f = in[i]
    BY <2>2 DEF Ins, ToSet
  <2>5. /\ \A i, j \in DOMAIN in : in[i] = in[j] => i = j
        /\ Len(in) \in Nat /\ DOMAIN in = 1..Len(in)
    <3>1. PartnersMatch(setup)
      BY <1>0
    <3>2. /\ \A i, j \in DOMAIN setup.part.incoming[r][g] :
               setup.part.incoming[r][g][i] = setup.part.incoming[r][g][j] => i = j
          /\ Len(setup.part.incoming[r][g]) \in Nat
          /\ DOMAIN setup.part.incoming[r][g] = 1..Len(setup.part.incoming[r][g])
      BY Zenon, <2>1, <2>3, <3>1, PartnersOnce
    <3> QED
      BY Zenon, <2>2, <3>2
  <2>6. rank(g) = p
    BY <1>0, <1>1, <2>3, Located
  <2>7. \A m \in Q : m.from \in Ins(r, g)
    BY <1>0, <1>2, MailFacts
  <2>8. ASSUME NEW f \in Ins(r, g) PROVE \E m \in Q : m.from = f
    <3>1. /\ f \in setup.part.active[r - 1] /\ g \in Outs(r - 1, f) /\ f \in Gid
      BY <1>0, <2>1, <2>3, PartnerFacts
    <3>2. Past(rank(f), r - 1)
      <4>1. r \in 1..round[p]
        BY <1>1, <2>1
      <4> QED
        BY <1>0, <2>3, <4>1 DEF HeardInv, Ins
    <3>3. ~Past(rank(g), r)
      BY <1>1, <2>6 DEF Past
    <3>4. Due(f, g, r)
      BY <3>1, <3>2, <3>3 DEF Due, Outs
    <3>5. PICK m \in Mail : IsQueue(m, f, g, r)
      BY <1>0, <2>1, <2>3, <3>1, <3>4 DEF MailInv
    <3>6. m.proc = p
      BY <1>0, <2>6, <3>5 DEF MailInv, IsQueue
    <3>7. m \notin net
      <4>1. SUFFICES ASSUME m \in net PROVE FALSE
        OBVIOUS
      <4>2. r < r
        BY <1>0, <3>5, <3>6, <4>1 DEF HeardInv, IsQueue
      <4> QED
        BY <1>1, <4>2
    <3>8. m \in incoming_[p]
      BY <1>0, <3>6, <3>7 DEF MailInv, Mail
    <3> QED
      BY <3>5, <3>8 DEF Queues, IsQueue
  <2>9. {m.from : m \in Q} = {in[i] : i \in DOMAIN in}
    <3> HIDE DEF Q, in
    <3>1. \A m \in Q : \E i \in DOMAIN in : m.from = in[i]
      BY <2>4, <2>7
    <3>2. \A i \in DOMAIN in : \E m \in Q : m.from = in[i]
      BY <2>4, <2>8
    <3> QED
      BY <3>1, <3>2
  <2>10. Cardinality(Q) = Len(in)
    <3> DEFINE D == 1..Len(in)
               f == [i \in D |-> CHOOSE m \in Q : m.from = in[i]]
    <3>1. \A i \in D : f[i] \in Q /\ f[i].from = in[i]
      <4>1. \A i \in D : \E m \in Q : m.from = in[i]
        BY <2>4, <2>5, <2>8
      <4> QED
        BY <4>1
    <3>2. f \in [D -> Q]
      BY <3>1
    <3> HIDE DEF f, Q, in
    <3>3. \A i, j \in D : f[i] = f[j] => i = j
      BY <2>5, <3>1
    <3>4. ASSUME NEW m \in Q PROVE \E i \in D : f[i] = m
      <4>1. PICK i \in DOMAIN in : m.from = in[i]
        BY <2>4, <2>7
      <4>2. i \in D /\ f[i] \in Q /\ f[i].from = m.from
        BY <2>5, <3>1, <4>1
      <4>3. f[i].to = m.to /\ f[i].round = m.round /\ f[i] \in Mail /\ m \in Mail
        BY <1>2, <4>2
      <4>4. IsQueue(f[i], m.from, m.to, m.round)
        BY <4>2, <4>3 DEF IsQueue
      <4>5. f[i] = m
        BY <1>0, <4>3, <4>4 DEF MailInv
      <4> QED
        BY <4>2, <4>5
    <3>5. f \in Surjection(D, Q) /\ f \in Injection(D, Q)
      BY <3>2, <3>3, <3>4 DEF Surjection, Injection, IsInjective
    <3>6. IsFiniteSet(D) /\ Cardinality(D) = Len(in)
      <4> DEFINE n == Len(in)
      <4>1. n \in Nat
        BY <2>5
      <4> HIDE DEF n
      <4>2. IsFiniteSet(1..n) /\ Cardinality(1..n) = n
        <5>1. 1 \in Int /\ n \in Int /\ 1 <= n + 1 /\ n - 1 + 1 = n
          BY <4>1
        <5>2. Cardinality(1..n) = IF 1 > n THEN 0 ELSE n - 1 + 1
          BY <5>1, FS_Interval
        <5> QED
          BY <4>1, <5>1, <5>2, FS_Interval
      <4> QED
        BY <4>2 DEF n
    <3> HIDE DEF D
    <3>7. Cardinality(Q) = Cardinality(D)
      BY <3>5, <3>6, FS_Surjection
    <3> QED
      BY <3>6, <3>7
  <2> QED
    BY <2>9, <2>10
<1> QED
  BY <1>3, <1>4

\* The callbacks of a round have exactly one queue from each incoming partner, on
\* every rank and however far the others are ahead, and no queue is sent to a rank
\* that does not have its block (reduce.hpp:135).
THEOREM PartnersHeard == Spec => []HeardFromPartners
<1>1. Inv => HeardFromPartners
  <2>1. ASSUME Inv, Decomposed, NEW m \in net PROVE m.to \in blocks[m.proc]
    <3>1. m \in Mail
      BY DEF Mail
    <3> QED
      BY <2>1, <3>1, MailFacts DEF Inv, MessagesInv
  <2> QED
    BY <2>1, QueuesFromPartners DEF HeardFromPartners
<1> QED
  BY <1>1, ReduceInvariant, PTL

LEMMA ReturnedEmpty ==
  ASSUME Inv, \A p \in Proc : pc[p] = "done"
  PROVE  net = {} /\ \A p \in Proc : expected_[p] = Cardinality(Edges(blocks[p], link))
<1>0. /\ SetupOK /\ BalanceInv /\ PartnersMatch(setup) /\ ProgressInv /\ MailInv /\ HeardInv
      /\ GridAgrees(setup) /\ ExpectedInv
  BY DEF Inv, MessagesInv
<1>1. \A q \in Proc : round[q] = Rounds /\ HasResolved(q)
  BY <1>0 DEF ProgressInv, HasResolved, HasMoved, HasDecided
<1>2. ASSUME NEW m \in net PROVE FALSE
  <2>1. m \in Mail
    BY DEF Mail
  <2>2. m.round \in 1..Rounds /\ m.proc \in Proc /\ Rounds \in Nat
    BY <1>0, <2>1, MailFacts DEF PartnersMatch, Rounds
  <2>3. round[m.proc] < m.round
    BY <1>0 DEF HeardInv
  <2> QED
    BY <1>1, <2>2, <2>3
<1>3. ASSUME NEW p \in Proc PROVE expected_[p] = Cardinality(Edges(blocks[p], link))
  <2>1. expected_[p] = Cardinality(Pairs(blocks[p]))
    BY <1>0 DEF ExpectedInv
  <2> DEFINE S == blocks[p]
             R == [h \in Gid |-> rank(h)]
  <2>2. S \subseteq Gid
    BY <1>0, Disjoint
  <2>3. \A g \in S : link[g] = linked(g)
    BY <1>0, <1>1 DEF BalanceInv, LinksInv
  <2>4. \A g \in S : \A x \in setup.near[g] : x.gid \in Gid /\ R[x.gid] = rank(x.gid)
    BY <1>0, <2>2 DEF GridAgrees, Gid
  <2> HIDE DEF R, S
  <2>5. \A g \in S : \A n \in link[g] : \E x \in setup.near[g] : n.gid = x.gid /\ n.proc = R[x.gid]
    BY <2>3, <2>4 DEF linked
  <2>6. ASSUME NEW g \in S, NEW x \in setup.near[g] PROVE \E n \in link[g] : n.gid = x.gid /\ n.proc = R[x.gid]
    <3> DEFINE n == [gid |-> x.gid, dir |-> x.dir, wrap |-> x.wrap, proc |-> rank(x.gid)]
    <3>1. n \in link[g]
      BY <2>3 DEF linked
    <3>2. n.gid = x.gid /\ n.proc = R[x.gid]
      BY <2>4
    <3> QED
      BY <3>1, <3>2
  <2>7. \A g \in S : \A x \in setup.near[g] : \E n \in link[g] : n.gid = x.gid /\ n.proc = R[x.gid]
    BY <2>6
  <2>8. Cardinality(Edges(S, link)) = Cardinality(Pairs(S))
    BY <1>0, <2>2, <2>5, <2>7, EdgesCount
  <2> QED
    BY <2>1, <2>8 DEF S
<1> QED
  BY <1>2, <1>3

\* A reduction leaves no queue on its way and expected_ as the links say, for the
\* exchanges that follow (reduce.hpp:117, 148).
THEOREM ReduceLeavesNothing == Spec => []NothingLeft
<1>1. Inv => NothingLeft
  BY ReturnedEmpty DEF NothingLeft
<1> QED
  BY <1>1, ReduceInvariant, PTL

-----------------------------------------------------------------------------
(***************************************************************************)
(* Types.                                                                  *)
(***************************************************************************)
\* A range of blocks that is divided among partners.
Ranges == {x \in (0..setup.nblocks) \X (0..setup.nblocks) : x[1] <= x[2]}
Divided(x, len, i) ==
  LET group == (x[2] - x[1]) \div len
  IN  <<x[1] + (i - 1) * group, x[1] + i * group>>

LEMMA DividedRange ==
  ASSUME SetupOK, NEW x \in Ranges, NEW len \in Nat \ {0}, NEW i \in 1..len
  PROVE  Divided(x, len, i) \in Ranges
<1> DEFINE d == (x[2] - x[1]) \div len
<1>1. x[1] \in Nat /\ x[2] \in Nat /\ x[1] <= x[2] /\ x[2] <= setup.nblocks /\ setup.nblocks \in Nat
  BY DEF Ranges, SetupOK
<1>2. d \in Int /\ len * d <= x[2] - x[1] /\ x[2] - x[1] < len * d + len
  <2>1. x[2] - x[1] \in Int
    BY <1>1
  <2> PICK a : a = x[2] - x[1]
    OBVIOUS
  <2>2. a \div len \in Int
    BY <2>1, Division
  <2>3. len * (a \div len) <= a /\ a < len * (a \div len) + len
    BY <2>1, <2>2, Quotient
  <2>4. d = a \div len
    OBVIOUS
  <2> HIDE DEF d
  <2> QED
    BY <2>2, <2>3, <2>4
<1> HIDE DEF d
<1>3. d >= 0
  <2>1. CASE d <= -1
    <3>1. len * d <= len * (-1)
      BY <1>2, <2>1, TimesMonotone
    <3> QED
      BY <1>1, <1>2, <3>1
  <2> QED
    BY <1>2, <2>1
<1>4. d * i <= d * len /\ d * (i - 1) <= d * i /\ d * 0 <= d * (i - 1)
  BY <1>2, <1>3, TimesMonotone
<1>5. /\ d * len = len * d /\ i * d = d * i /\ (i - 1) * d = d * (i - 1) /\ d * 0 = 0
      /\ d * i \in Int /\ d * (i - 1) \in Int
  BY <1>2
<1> PICK y : y = d * i
  OBVIOUS
<1> PICK z : z = d * (i - 1)
  OBVIOUS
<1>6. 0 <= z /\ z <= y /\ y <= x[2] - x[1] /\ y \in Int /\ z \in Int
  BY <1>1, <1>2, <1>4, <1>5
<1>7. Divided(x, len, i) = <<x[1] + z, x[1] + y>>
  BY <1>5 DEF Divided, d
<1> QED
  BY <1>1, <1>6, <1>7 DEF Ranges

LEMMA FoundItems ==
  ASSUME ReduceTypeOK, NEW p \in Proc, NEW g \in Gid
  PROVE  /\ Found(p, g) \subseteq Item /\ Value(p, g) \subseteq Item
         /\ (IF setup.op = "all_to_all" THEN Items(p, g) ELSE value[g] \cup Found(p, g)) \subseteq Item
<1>1. value[g] \subseteq Item
  BY DEF ReduceTypeOK
<1>2. Found(p, g) \subseteq Item
  <2>1. \A m \in Queues(p, g) : m.data \subseteq Item
    BY DEF Queues, ReduceTypeOK, IsMessage
  <2> QED
    BY <2>1 DEF Found
<1>3. setup.op = "all_to_all" => Item = Gid \X Gid
  BY DEF Item
<1> QED
  BY <1>1, <1>2, <1>3 DEF Value, Items

LEMMA RangeFound ==
  ASSUME Inv, ReduceTypeOK, NEW p \in Proc, pc[p] = "foreach", NEW g \in Active(p)
  PROVE  ItemRange(p, g) \in Ranges
<1> DEFINE in == in_link(p, g)
<1>1. SetupOK /\ BalanceInv /\ PartnersMatch(setup) /\ ProgressInv
  BY DEF Inv, MessagesInv
<1>2. CASE in = <<>>
  <2>1. ItemRange(p, g) = <<0, setup.nblocks>>
    BY <1>2 DEF ItemRange
  <2> QED
    BY <1>1, <2>1 DEF Ranges, SetupOK
<1>3. CASE in # <<>>
  <2>1. round[p] \in 1..Rounds /\ in = setup.part.incoming[round[p]][g] /\ g \in setup.part.active[round[p]]
    BY <1>1, <1>3 DEF in_link, ProgressInv, PartnersMatch, Rounds, Active
  <2>2. in \in Seq(setup.part.active[round[p] - 1])
    BY <1>1, <2>1 DEF PartnersMatch, Rounds
  <2>3. Len(in) \in DOMAIN in
    BY <1>3, <2>2
  <2>4. {m.from : m \in Queues(p, g)} = {in[i] : i \in DOMAIN in}
    BY QueuesFromPartners
  <2>5. \E m \in Queues(p, g) : m.from = in[Len(in)]
    <3> HIDE DEF in
    <3> QED
      BY <2>3, <2>4
  <2> DEFINE m == CHOOSE m \in Queues(p, g) : m.from = in[Len(in)]
  <2>6. m \in Queues(p, g)
    BY <2>5
  <2>7. ItemRange(p, g) = m.range
    BY <1>3 DEF ItemRange
  <2> HIDE DEF m
  <2>8. IsMessage(m)
    BY <2>6 DEF Queues, ReduceTypeOK
  <2> QED
    BY <2>7, <2>8 DEF IsMessage, Ranges
<1> QED
  BY <1>2, <1>3

LEMMA SentTypes ==
  ASSUME Inv, ReduceTypeOK, NEW p \in Proc, pc[p] = "foreach", round[p] < Rounds, NEW m \in Sent(p)
  PROVE  IsMessage(m)
<1> DEFINE O(g) == out_link(p, g)
           items(g) == IF setup.op = "all_to_all" THEN Items(p, g) ELSE value[g] \cup Found(p, g)
           range(g) == IF setup.op = "all_to_all" THEN ItemRange(p, g) ELSE <<0, 0>>
           group(g) == (range(g)[2] - range(g)[1]) \div Len(O(g))
           part(g, i) == <<range(g)[1] + (i - 1) * group(g), range(g)[1] + i * group(g)>>
           for(g, i) == IF setup.op # "all_to_all" THEN items(g)
                        ELSE {x \in items(g) : part(g, i)[1] <= x[2] /\ x[2] < part(g, i)[2]}
           msg(g, i) == [from |-> g, to |-> O(g)[i], round |-> round[p] + 1, proc |-> rank(O(g)[i]),
                         range |-> part(g, i), data |-> for(g, i)]
<1>1. SetupOK /\ BalanceInv /\ PartnersMatch(setup) /\ ProgressInv /\ MessagesInv
  BY DEF Inv, MessagesInv
<1>2. \A g \in Active(p) : SentBy(p, g) = {msg(g, i) : i \in DOMAIN O(g)}
  BY Zenon DEF SentBy
<1>3. \A g, i : part(g, i) = Divided(range(g), Len(O(g)), i)
  BY Zenon DEF Divided
<1>4. \A g, i : for(g, i) \subseteq items(g)
  OBVIOUS
<1> HIDE DEF part, for, group, items, range
<1>5. \A g, i : msg(g, i).range = part(g, i) /\ msg(g, i).data = for(g, i)
  OBVIOUS
<1> HIDE DEF msg
<1> PICK g \in Active(p) : m \in SentBy(p, g)
  BY DEF Sent
<1>6. PICK i \in DOMAIN O(g) : m = msg(g, i)
  BY <1>2
<1>7. g \in Gid /\ g \in setup.part.active[round[p]]
  BY <1>1, Disjoint DEF Active
<1>8. Len(O(g)) \in Nat \ {0} /\ i \in 1..Len(O(g))
  <2>1. round[p] + 1 \in 1..Rounds /\ (round[p] + 1) - 1 = round[p]
    BY <1>1 DEF ProgressInv, PartnersMatch, Rounds
  <2>2. setup.part.outgoing[(round[p] + 1) - 1][g] \in Seq(setup.part.active[round[p] + 1])
    BY <1>1, <1>7, <2>1 DEF PartnersMatch, Rounds
  <2>3. O(g) \in Seq(setup.part.active[round[p] + 1])
    BY <2>1, <2>2 DEF out_link
  <2> HIDE DEF O
  <2> QED
    BY <1>6, <2>3
<1>9. range(g) \in Ranges
  <2>1. <<0, 0>> \in Ranges
    BY <1>1 DEF Ranges, SetupOK
  <2> QED
    BY <2>1, RangeFound DEF range
<1>10. m.range \in Ranges
  BY <1>1, <1>3, <1>5, <1>6, <1>8, <1>9, DividedRange
<1>11. m.data \subseteq Item
  <2>1. items(g) \subseteq Item
    BY <1>7, FoundItems DEF items
  <2> QED
    BY <1>4, <1>5, <1>6, <2>1
<1>12. m.from \in Gid /\ m.to \in Gid /\ m.round \in 1..Rounds /\ m.proc \in Proc
  BY <1>1, SentNew
<1> QED
  BY <1>10, <1>11, <1>12 DEF IsMessage, Ranges

LEMMA CountsAreNumbers ==
  ASSUME Inv
  PROVE  /\ \A S : S \subseteq Gid => Cardinality(Pairs(S)) \in Nat
         /\ \A p \in Proc : \A r \in 1..Rounds : Expected(p, r) \in Nat
<1>0. SetupOK /\ BalanceInv /\ PartnersMatch(setup) /\ GridAgrees(setup)
  BY DEF Inv, MessagesInv
<1>1. ASSUME NEW S, S \subseteq Gid PROVE Cardinality(Pairs(S)) \in Nat
  BY <1>0, <1>1, PairsFinite
<1>2. ASSUME NEW p \in Proc, NEW r \in 1..Rounds PROVE Expected(p, r) \in Nat
  <2> DEFINE S == blocks[p] \cap setup.part.active[r]
             f == [h \in S |-> {h} \X DOMAIN setup.part.incoming[r][h]]
  <2>1. IsFiniteSet(S)
    <3>1. S \subseteq Gid
      BY <1>0, Disjoint
    <3> HIDE DEF S
    <3> QED
      BY <1>0, <3>1, GidsFinite
  <2>2. ASSUME NEW h \in S PROVE IsFiniteSet(f[h])
    <3> PICK D : D = DOMAIN setup.part.incoming[r][h]
      OBVIOUS
    <3>1. IsFiniteSet(D)
      <4>1. Len(setup.part.incoming[r][h]) \in Nat /\ D = 1..Len(setup.part.incoming[r][h])
        BY <1>0, PartnersOnce
      <4> QED
        BY <4>1, FS_Interval
    <3>2. IsFiniteSet({h})
      BY FS_Singleton
    <3>3. IsFiniteSet({h} \X D)
      BY <3>1, <3>2, FS_Product
    <3> QED
      BY <3>3
  <2>3. f \in Surjection(S, {f[h] : h \in S})
    BY DEF Surjection
  <2>4. Expected(p, r) = Cardinality(UNION {f[h] : h \in S})
    BY DEF Expected
  <2> HIDE DEF f, S
  <2>5. IsFiniteSet({f[h] : h \in S})
    BY <2>1, <2>3, FS_Surjection
  <2>6. IsFiniteSet(UNION {f[h] : h \in S})
    BY <2>2, <2>5, FS_UNION
  <2> QED
    BY <2>4, <2>6, FS_CardinalityType
<1> QED
  BY <1>1, <1>2

\* The types of the messages, those of the blocks and those of the rest.
Pcs == {"decompose", "gather", "decide", "move", "barrier", "foreach", "flush", "deferred", "done"}
BlockTypes(st, held, ex, orig, way) ==
  /\ st \in [Proc -> Pcs] /\ held \in [Proc -> SUBSET Gid] /\ ex \in [Proc -> Nat] /\ orig \in [Proc -> Nat]
  /\ way \subseteq Gid \X Proc
LinkTypes(lk) == \A g \in Gid : \A n \in lk[g] : n.gid \in Gid /\ n.proc \in Proc
RankTypes(map) == \A s \in DOMAIN map : s[1] \in Proc /\ map[s] \in Proc \cup {-1}
MessageTypes(rd, val, N, I) ==
  /\ rd \in [Proc -> 0..Rounds] /\ val \in [Gid -> SUBSET Item]
  /\ \A m \in MailAt(N, I) : IsMessage(m)
MoveTypes == \A p \in Proc : next_move[p] \in 1..(Len(all_move_info[p]) + 1)

LEMMA TypesNow ==
  ReduceTypeOK <=> /\ BlockTypes(pc, blocks, expected_, original_expected, moving)
                   /\ LinkTypes(link) /\ RankTypes(rank_map_)
                   /\ MessageTypes(round, value, net, incoming_) /\ MoveTypes
BY DEF ReduceTypeOK, BlockTypes, Pcs, LinkTypes, RankTypes, MessageTypes, MailAt, MoveTypes

LEMMA TypesPrimed ==
  ASSUME setup' = setup, NEW st, st = pc', NEW held, held = blocks', NEW ex, ex = expected_',
         NEW orig, orig = original_expected', NEW way, way = moving', NEW lk, lk = link',
         NEW map, map = rank_map_', NEW rd, rd = round', NEW val, val = value',
         NEW N, N = net', NEW I, I = incoming_',
         BlockTypes(st, held, ex, orig, way), LinkTypes(lk), RankTypes(map),
         MessageTypes(rd, val, N, I), MoveTypes'
  PROVE  ReduceTypeOK'
<1>1. Gid' = Gid /\ Rounds' = Rounds /\ Item' = Item
  BY DEF Gid, Rounds, Item
<1>2. \A m : IsMessage(m)' <=> IsMessage(m)
  BY <1>1 DEF IsMessage
<1>3. \A m \in net' \cup UNION {incoming_'[p] : p \in Proc} : IsMessage(m)'
  BY <1>2 DEF MessageTypes, MailAt
<1> QED
  BY <1>1, <1>3 DEF ReduceTypeOK, BlockTypes, Pcs, LinkTypes, RankTypes, MessageTypes, MoveTypes

LEMMA MovesTyped ==
  ASSUME BalanceInv
  PROVE  MoveTypes
BY DEF BalanceInv, StagesInv, Stage, MoveTypes

LEMMA ReduceTypes ==
  ASSUME Inv, ReduceTypeOK, NEW p \in Proc, ReduceStep(p)
  PROVE  ReduceTypeOK'
<1> PICK st : st = pc'
  OBVIOUS
<1> PICK ex : ex = expected_'
  OBVIOUS
<1> PICK orig : orig = original_expected'
  OBVIOUS
<1> PICK rd : rd = round'
  OBVIOUS
<1> PICK val : val = value'
  OBVIOUS
<1> PICK N : N = net'
  OBVIOUS
<1> PICK I : I = incoming_'
  OBVIOUS
<1>0. SetupOK /\ BalanceInv /\ PartnersMatch(setup) /\ ProgressInv
  BY DEF Inv, MessagesInv
<1>1. UNCHANGED <<setup, blocks, link, rank_map_, all_move_info, next_move, moving>>
  BY <1>0, ReduceKeeps
<1>2. /\ BlockTypes(pc, blocks, expected_, original_expected, moving) /\ LinkTypes(link)
      /\ RankTypes(rank_map_) /\ MessageTypes(round, value, net, incoming_) /\ MoveTypes
  BY TypesNow
<1>3. MoveTypes'
  BY <1>1, <1>2 DEF MoveTypes
<1>4. DOMAIN incoming_ = Proc
  BY <1>0 DEF ProgressInv
<1>5. BlockTypes(st, blocks, ex, orig, moving) /\ MessageTypes(rd, val, N, I)
  <2>1. CASE Round(p)
    <3>1. round[p] + 1 \in 1..Rounds
      BY <1>0, <2>1 DEF Round, ProgressInv, PartnersMatch, Rounds
    <3>2. Expected(p, round[p] + 1) \in Nat
      BY <3>1, CountsAreNumbers
    <3>3. BlockTypes(st, blocks, ex, orig, moving)
      BY <1>2, <2>1, <3>2 DEF Round, BlockTypes, Pcs
    <3>4. \A m \in Sent(p) : IsMessage(m)
      BY <2>1, SentTypes DEF Round
    <3>5. /\ N = net \cup {m \in Sent(p) : m.proc # p}
          /\ I[p] = {m \in incoming_[p] : m.round # round[p]} \cup {m \in Sent(p) : m.proc = p}
          /\ \A q \in Proc : q # p => I[q] = incoming_[q]
      BY <1>4, <2>1 DEF Round
    <3>6. \A m \in MailAt(N, I) : IsMessage(m)
      BY <1>2, <3>4, <3>5 DEF MailAt, MessageTypes
    <3>7. val \in [Gid -> SUBSET Item]
      BY <1>2, <2>1, FoundItems DEF Round, Callbacks, MessageTypes
    <3>8. rd = round
      BY <2>1 DEF Round
    <3> QED
      BY <1>2, <3>3, <3>6, <3>7, <3>8 DEF MessageTypes
  <2>2. CASE Receive(p)
    <3>1. st = pc /\ ex = expected_ /\ orig = original_expected /\ rd = round /\ val = value
      BY <2>2 DEF Receive, balanceVars
    <3>2. MailAt(N, I) = MailAt(net, incoming_)
      BY <1>4, <2>2 DEF Receive, MailAt
    <3> QED
      BY <1>2, <3>1, <3>2 DEF MessageTypes
  <2>3. CASE EndFlush(p)
    <3>1. /\ st = [pc EXCEPT ![p] = "foreach"] /\ ex = expected_ /\ orig = original_expected
          /\ rd = [round EXCEPT ![p] = @ + 1] /\ val = value /\ N = net /\ I = incoming_ /\ pc[p] = "flush"
      BY <2>3 DEF EndFlush
    <3>2. round[p] + 1 \in 0..Rounds
      BY <1>0, <3>1 DEF ProgressInv, PartnersMatch, Rounds
    <3> QED
      BY <1>2, <3>1, <3>2 DEF BlockTypes, Pcs, MessageTypes
  <2>4. CASE Return(p)
    <3>1. /\ st = [pc EXCEPT ![p] = "deferred"] /\ orig = original_expected
          /\ ex = [expected_ EXCEPT ![p] = IF Rounds = 0 THEN @ ELSE original_expected[p]]
          /\ rd = round /\ val = value /\ N = net /\ I = incoming_
      BY <2>4 DEF Return, reduceVars
    <3> QED
      BY <1>2, <3>1 DEF BlockTypes, Pcs
  <2>5. CASE execute(p)
    <3>1. /\ st = [pc EXCEPT ![p] = "done"] /\ orig = original_expected /\ ex = expected_
          /\ rd = round /\ N = net /\ I = incoming_ /\ Callbacks(p)
      BY <2>5 DEF execute
    <3>2. val \in [Gid -> SUBSET Item]
      BY <1>2, <3>1, FoundItems DEF Callbacks, MessageTypes
    <3> QED
      BY <1>2, <3>1, <3>2 DEF BlockTypes, Pcs, MessageTypes
  <2> QED
    BY <2>1, <2>2, <2>3, <2>4, <2>5 DEF ReduceStep
<1> QED
  BY <1>1, <1>2, <1>3, <1>5, TypesPrimed

LEMMA BalanceTypes ==
  ASSUME Inv, ReduceTypeOK, NEW p \in Proc, BalanceNext(p), UNCHANGED reduceVars,
         BalanceInv', ExpectedInv'
  PROVE  ReduceTypeOK'
<1> PICK st : st = pc'
  OBVIOUS
<1> PICK held : held = blocks'
  OBVIOUS
<1> PICK ex : ex = expected_'
  OBVIOUS
<1> PICK way : way = moving'
  OBVIOUS
<1> PICK lk : lk = link'
  OBVIOUS
<1> PICK map : map = rank_map_'
  OBVIOUS
<1>0. /\ SetupOK /\ BalanceInv /\ GridAgrees(setup) /\ setup' = setup /\ ProgressInv
      /\ round' = round /\ original_expected' = original_expected /\ value' = value
      /\ net' = net /\ incoming_' = incoming_
  BY BalanceKeepsSetup DEF Inv, MessagesInv, reduceVars
<1>1. /\ BlockTypes(pc, blocks, expected_, original_expected, moving) /\ LinkTypes(link)
      /\ RankTypes(rank_map_) /\ MessageTypes(round, value, net, incoming_) /\ MoveTypes
  BY TypesNow
<1>2. MoveTypes'
  BY DEF BalanceInv, StagesInv, Stage, MoveTypes
<1>3. \A g \in Gid : StaticRank(g) \in Proc
  BY <1>0, StaticRankIsRank
<1>4. \A g \in Gid : \A n \in placed(g) : n.gid \in Gid /\ n.proc \in Proc
  BY <1>0, <1>3 DEF placed, GridAgrees, Gid
<1>5. /\ st \in [Proc -> Pcs] /\ held \in [Proc -> SUBSET Gid] /\ way \subseteq Gid \X Proc
      /\ ex = [expected_ EXCEPT ![p] = ex[p]] /\ LinkTypes(lk) /\ RankTypes(map)
      /\ st[p] # "flush"
  <2>1. CASE Decompose(p)
    <3>1. local_gids(p) \subseteq Gid
      BY <1>0, StaticPlaces
    <3>2. LinkTypes(lk)
      BY <1>1, <1>4, <2>1 DEF Decompose, LinkTypes
    <3> QED
      BY <1>1, <2>1, <3>1, <3>2 DEF Decompose, BlockTypes, Pcs
  <2>2. CASE exchange_work_info(p)
    BY <1>1, <2>2 DEF exchange_work_info, BlockTypes, Pcs
  <2>3. CASE Decide(p)
    BY <1>1, <2>3 DEF Decide, BlockTypes, Pcs
  <2>4. CASE SendBlock(p)
    <3> PICK g : g = Move(p).gid
      OBVIOUS
    <3>1. g \in Gid
      BY <1>0, <2>4, MovedLink
    <3>2. Move(p).dst \in Proc
      <4>1. all_move_info[p] = Moves /\ MovesOK(Moves)
        BY <1>0, <2>4 DEF BalanceInv, StagesInv, Stage, HasDecided, SendBlock, Moving
      <4>2. next_move[p] \in DOMAIN Moves
        BY <1>0, <2>4, <4>1, InvFacts DEF SendBlock, Moving, BalanceInv, StagesInv, Stage
      <4> QED
        BY <1>0, <4>1, <4>2, InvFacts DEF Move
    <3> QED
      BY <1>1, <2>4, <3>1, <3>2 DEF SendBlock, Moving, BlockTypes, Pcs
  <2>5. CASE RecvBlock(p)
    <3> PICK g : g = Move(p).gid
      OBVIOUS
    <3>1. g \in Gid
      BY <1>0, <2>5, MovedLink
    <3> QED
      BY <1>1, <2>5, <3>1 DEF RecvBlock, Moving, BlockTypes, Pcs
  <2>6. CASE SkipMove(p)
    BY <1>1, <2>6 DEF SkipMove, Moving, BlockTypes, Pcs
  <2>7. CASE record_local_gids(p)
    BY <1>1, <2>7 DEF record_local_gids, BlockTypes, Pcs, RankTypes
  <2>8. CASE update_links(p)
    <3>1. setup.balance /\ pc[p] = "barrier" /\ \A q \in Proc : HasMoved(q)
      BY <1>0, <2>8 DEF update_links, BalanceInv, StagesInv, Stage, SetupOK, HasMoved, HasDecided
    <3>2. \A h \in Gid : rank_map_[Slot(h)] \in Proc
      BY <1>0, <3>1, LocatedMoved DEF rank
    <3>3. \A g \in blocks[p] : link[g] = placed(g)
      BY <1>0, <3>1 DEF BalanceInv, LinksInv, HasResolved
    <3>4. ASSUME NEW g \in Gid, NEW n \in lk[g] PROVE n.gid \in Gid /\ n.proc \in Proc
      <4>1. CASE g \in blocks[p]
        <5>1. PICK k \in placed(g) : n = [k EXCEPT !.proc = rank_map_[Slot(k.gid)]]
          BY <2>8, <3>3, <3>4, <4>1 DEF update_links
        <5>2. PICK x \in setup.near[g] : k = [gid |-> x.gid, dir |-> x.dir, wrap |-> x.wrap, proc |-> StaticRank(x.gid)]
          BY DEF placed
        <5>3. n = [gid |-> x.gid, dir |-> x.dir, wrap |-> x.wrap, proc |-> rank_map_[Slot(x.gid)]]
          BY <5>1, <5>2
        <5>4. x.gid \in Gid
          BY <1>4, <5>2
        <5> QED
          BY <3>2, <5>3, <5>4
      <4>2. CASE g \notin blocks[p]
        <5>1. n \in link[g]
          BY <2>8, <3>4, <4>2 DEF update_links
        <5> QED
          BY <1>1, <5>1 DEF LinkTypes
      <4> QED
        BY <4>1, <4>2
    <3>5. LinkTypes(lk)
      BY <3>4 DEF LinkTypes
    <3> QED
      BY <1>1, <2>8, <3>5 DEF update_links, BlockTypes, Pcs
  <2> QED
    BY <2>1, <2>2, <2>3, <2>4, <2>5, <2>6, <2>7, <2>8 DEF BalanceNext
<1>6. ex[p] \in Nat
  <2>1. ExpectedOK(round, st, ex, original_expected, held)
    BY <1>0, ExpectedPrimed
  <2>2. ~HasResolved(p)
    BY DEF BalanceNext, Decompose, exchange_work_info, Decide, SendBlock, RecvBlock, SkipMove,
           record_local_gids, update_links, Moving, HasResolved, HasMoved, HasDecided
  <2>3. ~Within(round, st, p)
    BY <1>0, <1>5, <2>2 DEF Within, ProgressInv
  <2>4. ex[p] = Cardinality(Pairs(held[p]))
    BY <2>1, <2>3 DEF ExpectedOK
  <2>5. held[p] \subseteq Gid
    BY <1>5
  <2> QED
    BY <2>4, <2>5, CountsAreNumbers
<1>7. BlockTypes(st, held, ex, original_expected, way)
  BY <1>1, <1>5, <1>6 DEF BlockTypes
<1> QED
  BY <1>0, <1>1, <1>2, <1>5, <1>7, TypesPrimed

LEMMA TypesStart ==
  ASSUME Init
  PROVE  ReduceTypeOK
<1>1. SetupOK /\ BalanceInv /\ PartnersMatch(setup)
  BY InvStart DEF Inv, MessagesInv
<1>2. BlockTypes(pc, blocks, expected_, original_expected, moving)
  BY DEF Init, BalanceInit, BlockTypes, Pcs
<1>3. LinkTypes(link)
  BY DEF Init, BalanceInit, LinkTypes
<1>4. RankTypes(rank_map_)
  <2>1. DOMAIN rank_map_ = {Slot(g) : g \in Gid} /\ \A s \in DOMAIN rank_map_ : rank_map_[s] = -1
    BY DEF Init, BalanceInit
  <2>2. ASSUME NEW g \in Gid PROVE Slot(g)[1] \in Proc
    <3>1. NProc \in Nat \ {0} /\ setup.nblocks \in Nat
      BY <1>1, BalanceAssumption DEF SetupOK
    <3>2. Slot(g) \in Ranks(NProc) \X (0..(div_(NProc, setup.nblocks) - 1))
      BY <3>1, SlotsDistinct DEF Slot, Gid
    <3> QED
      BY <3>2 DEF Proc
  <2> QED
    BY <2>1, <2>2 DEF RankTypes
<1>5. MessageTypes(round, value, net, incoming_)
  <2>1. Rounds \in Nat
    BY <1>1 DEF PartnersMatch, Rounds
  <2>2. MailAt(net, incoming_) = {}
    BY DEF Init, MailAt
  <2>3. value \in [Gid -> SUBSET Item]
    BY DEF Init, Item
  <2>4. round \in [Proc -> 0..Rounds]
    BY <2>1 DEF Init
  <2> QED
    BY <2>2, <2>3, <2>4 DEF MessageTypes
<1> QED
  BY <1>1, <1>2, <1>3, <1>4, <1>5, MovesTyped, TypesNow

\* Types, with the ranges and the items of all messages: the ranges that an
\* all-to-all divides stay within the blocks in every round (all-to-all.hpp:52).
THEOREM ReduceTypeCorrect == Spec => []ReduceTypeOK
<1>1. Init => ReduceTypeOK
  BY TypesStart
<1>2. ASSUME Inv, Inv', ReduceTypeOK, [Next]_vars PROVE ReduceTypeOK'
  <2>1. CASE UNCHANGED vars
    <3>1. UNCHANGED <<balanceVars, reduceVars>>
      BY <2>1 DEF vars
    <3> QED
      BY <1>2, <3>1 DEF balanceVars, reduceVars, ReduceTypeOK, Gid, Rounds, Item, IsMessage
  <2>2. ASSUME NEW p \in Proc, BalanceNext(p), UNCHANGED reduceVars PROVE ReduceTypeOK'
    <3>1. BalanceInv' /\ ExpectedInv'
      BY <1>2 DEF Inv, MessagesInv
    <3> QED
      BY <1>2, <2>2, <3>1, BalanceTypes
  <2>3. ASSUME NEW p \in Proc, ReduceStep(p) PROVE ReduceTypeOK'
    BY <1>2, <2>3, ReduceTypes
  <2>4. CASE Next
    <3>1. PICK p \in Proc : (BalanceNext(p) /\ UNCHANGED reduceVars) \/ ReduceStep(p)
      BY <2>4 DEF Next, Step, ReduceStep
    <3> QED
      BY <2>2, <2>3, <3>1
  <2> QED
    BY <1>2, <2>1, <2>4
<1>3. Inv /\ Inv' /\ ReduceTypeOK /\ [Next]_vars => ReduceTypeOK'
  BY <1>2
<1> QED
  BY <1>1, <1>3, ReduceInvariant, PTL DEF Spec

-----------------------------------------------------------------------------
(***************************************************************************)
(* Runs of blocks and their items, in an all-to-all.                       *)
(***************************************************************************)
LEMMA RemainderTwice ==
  ASSUME NEW s \in Positive, NEW k \in Positive, NEW x \in Nat
  PROVE  (x % (s * k)) % s = x % s
<1> DEFINE w == s * k
           q == x \div w
           z == x % w
           a == z \div s
           b == z % s
<1>1. w \in Positive /\ w \in Nat /\ s \in Nat /\ k \in Nat
  BY PositiveTimes DEF Positive
<1>2. q \in Nat /\ z \in Nat /\ x = w * q + z
  <2> HIDE DEF w
  <2> QED
    BY <1>1, NatDivision DEF Positive
<1>3. a \in Nat /\ b \in 0..(s - 1) /\ z = s * a + b
  <2> HIDE DEF z
  <2> QED
    BY <1>2, NatDivision DEF Positive
<1> HIDE DEF q, z, a, b
<1>4. x = s * (k * q + a) + b /\ k * q + a \in Nat
  <2>1. w * q = s * (k * q) /\ k * q \in Nat
    BY <1>1, <1>2, Products
  <2> HIDE DEF w
  <2> PICK y : y = k * q
    OBVIOUS
  <2>2. s * (y + a) = s * y + s * a
    BY <1>1, <1>3, <2>1
  <2> PICK u : u = s * y
    OBVIOUS
  <2> PICK v : v = s * a
    OBVIOUS
  <2>3. u \in Nat /\ v \in Nat /\ w * q = u /\ x = w * q + z /\ z = v + b /\ s * (y + a) = u + v
    BY <1>1, <1>2, <1>3, <2>1, <2>2
  <2>4. x = s * (y + a) + b
    <3> PICK c : c = s * (y + a)
      OBVIOUS
    <3>1. c = u + v
      BY <2>3
    <3> QED
      BY <1>3, <2>3, <3>1
  <2> QED
    BY <1>3, <2>1, <2>4
<1>5. x % s = b
  <2> PICK c : c = k * q + a
    OBVIOUS
  <2> QED
    BY <1>3, <1>4, DivMod DEF Positive
<1> QED
  BY <1>5 DEF b, z, w

\* The block of the run of g that is j blocks into it.
LEMMA RunMember ==
  ASSUME NEW w \in Positive, NEW N \in Positive, Divides(w, N), NEW g \in 0..(N - 1), NEW j \in 0..(w - 1)
  PROVE  \E f \in 0..(N - 1) : f % w = j /\ f \div w = g \div w
<1> DEFINE q == g \div w
           f == w * q + j
<1>1. q \in Nat /\ w * q <= g /\ g < N /\ w \in Nat /\ w * q \in Nat /\ N \in Nat
  <2>1. g \in Nat /\ w \in Nat \ {0} /\ N \in Nat /\ g < N
    BY DEF Positive
  <2>2. q \in Nat /\ g % w \in 0..(w - 1) /\ g = w * q + (g % w)
    BY <2>1, NatDivision
  <2>3. w * q \in Nat
    <3> HIDE DEF q
    <3> QED
      BY <2>1, <2>2, Products
  <2> HIDE DEF q
  <2> QED
    BY <2>1, <2>2, <2>3
<1>2. PICK m \in Positive : N = w * m
  BY DEF Divides
<1> HIDE DEF q
<1>3. q + 1 <= m
  <2>1. CASE m <= q
    <3>1. w * m <= w * q
      BY <1>1, <2>1, TimesMonotone DEF Positive
    <3> QED
      BY <1>1, <1>2, <3>1
  <2> QED
    BY <1>1, <2>1 DEF Positive
<1>4. w * (q + 1) <= w * m
  BY <1>1, <1>3, TimesMonotone DEF Positive
<1>5. w * (q + 1) = w * q + w
  BY <1>1
<1>6. f \in 0..(N - 1)
  BY <1>1, <1>2, <1>4, <1>5
<1>7. f \div w = q /\ f % w = j
  <2>1. w \in Nat \ {0} /\ q \in Int /\ f = w * q + j
    BY <1>1 DEF Positive
  <2> HIDE DEF f
  <2> QED
    BY <2>1, DivMod, Zenon
<1> QED
  BY <1>6, <1>7 DEF q

\* A run that is divided among k partners.
LEMMA RunCut ==
  ASSUME NEW v \in Positive, NEW k \in Positive, NEW w, w = k * v, NEW g \in Nat, NEW i \in 1..k,
         NEW o \in Nat, o \div v = (g \div w) * k + (i - 1)
  PROVE  Divided(Run(w, g), k, i) = Run(v, o) /\ o \div w = g \div w
<1> DEFINE q == g \div w
           b == o \div v
<1>1. w \in Nat \ {0} /\ k \in Nat \ {0} /\ v \in Nat \ {0} /\ w \in Positive
  BY PositiveTimes DEF Positive
<1>2. q \in Nat /\ b \in Nat /\ b = q * k + (i - 1)
  BY <1>1, NatDivision
<1>3. w \div k = v
  <2>1. w = k * v + 0 /\ 0 \in 0..(k - 1) /\ v \in Int
    BY <1>1
  <2> QED
    BY <1>1, <2>1, DivMod
<1>4. o \div w = q
  <2>1. b \div k = q
    <3>1. b = k * q + (i - 1) /\ i - 1 \in 0..(k - 1)
      <4> HIDE DEF q, b
      <4>1. q * k = k * q
        BY <1>1, <1>2
      <4> QED
        BY <1>2, <4>1 DEF Positive
    <3>2. k \in Nat \ {0} /\ q \in Int
      BY <1>1, <1>2
    <3> HIDE DEF q, b
    <3> QED
      BY <3>1, <3>2, DivMod, Zenon
  <2>2. o \div (v * k) = (o \div v) \div k
    BY DivisionTwice
  <2>3. v * k = w
    BY PositiveTimes
  <2> QED
    BY <2>1, <2>2, <2>3
<1>5. Divided(Run(w, g), k, i) = Run(v, o)
  <2>1. Run(w, g) = <<q * w, q * w + w>> /\ Run(v, o) = <<b * v, b * v + v>>
    BY Zenon DEF Run
  <2> HIDE DEF q, b
  <2>2. q * w \in Nat /\ b * v = q * w + (i - 1) * v /\ (i - 1) * v + v = i * v
    <3>1. i - 1 \in Nat /\ q * k \in Nat /\ i \in Nat /\ (i - 1) + 1 = i
      BY <1>1, <1>2
    <3>2. (q * k) * v = q * w /\ q * w \in Nat
      BY <1>1, <1>2, Products
    <3> PICK a : a = q * k
      OBVIOUS
    <3> PICK c : c = i - 1
      OBVIOUS
    <3>3. (a + c) * v = a * v + c * v /\ (c + 1) * v = c * v + v
      BY <1>1, <3>1
    <3> QED
      BY <1>2, <3>1, <3>2, <3>3
  <2> PICK a : a = q * w
    OBVIOUS
  <2> PICK c : c = (i - 1) * v
    OBVIOUS
  <2>3. (a + w) - a = w /\ a + (c + v) = (a + c) + v
    <3>1. c \in Int
      BY <1>1, <2>2
    <3> QED
      BY <1>1, <2>2, <3>1
  <2> PICK x : x = <<a, a + w>>
    OBVIOUS
  <2>4. x[1] = a /\ x[2] = a + w
    OBVIOUS
  <2>5. Divided(x, k, i) = <<a + (i - 1) * v, a + i * v>>
    BY <1>3, <2>3, <2>4 DEF Divided
  <2> QED
    BY <2>1, <2>2, <2>3, <2>5
<1> QED
  BY <1>4, <1>5

\* The numbers with the same quotient.
LEMMA RunOf ==
  ASSUME NEW v \in Positive, NEW y \in Nat, NEW q \in Nat
  PROVE  y \div v = q <=> v * q <= y /\ y < v * q + v
<1>1. v \in Nat \ {0} /\ y \in Int /\ q \in Int
  BY DEF Positive
<1> QED
  BY <1>1, Quotient, Zenon

ItemsWithin(S, range) == {x \in S : range[1] <= x[2] /\ x[2] < range[2]}

\* The items for a run are those of the blocks that are as far into it, and the items
\* for a part of it are the ones that are sent there.
LEMMA ItemsCut ==
  ASSUME NEW v \in Positive, NEW k \in Positive, NEW w, w = k * v, NEW g \in Nat, NEW o \in Nat,
         o \div w = g \div w, setup.nblocks \in Nat
  PROVE  ItemsWithin(ItemsOf(w, g, w, g), Run(v, o)) = ItemsOf(w, g, v, o)
<1>0. v \in Nat \ {0} /\ v * k = w /\ w \in Positive
  BY PositiveTimes DEF Positive
<1>1. ASSUME NEW x \in Gid \X Gid
      PROVE  /\ (Run(v, o)[1] <= x[2] /\ x[2] < Run(v, o)[2]) <=> x[2] \div v = o \div v
             /\ x[2] \div v = o \div v => x[2] \div w = g \div w
  <2>1. x[2] \in Nat
    BY DEF Gid, Gids
  <2> PICK y : y = x[2]
    OBVIOUS
  <2> PICK q : q = o \div v
    OBVIOUS
  <2>2. q \in Nat
    BY <1>0, NatDivision
  <2>3. Run(v, o)[1] = v * q /\ Run(v, o)[2] = v * q + v
    <3>1. Run(v, o) = <<q * v, q * v + v>>
      BY DEF Run
    <3>2. q * v = v * q
      BY <1>0, <2>2
    <3> QED
      BY <3>1, <3>2
  <2>4. y \div v = q <=> v * q <= y /\ y < v * q + v
    BY <2>1, <2>2, RunOf
  <2>5. y \div v = q => o \div (v * k) = y \div (v * k)
    BY <2>1, DivisionThrough
  <2> QED
    BY <1>0, <2>3, <2>4, <2>5
<1> QED
  BY <1>1 DEF ItemsOf, ItemsWithin

\* Whether f is of the run of g, at the same place of a part of it, and y is as far into
\* its run as f.
InPart(f, v, w, g, y) == f % v = g % v /\ f \div w = g \div w /\ y % w = f % w

\* The blocks of the run of g whose place in their part is that of g stand for all
\* blocks that are as far into such a part.
LEMMA RunPartners ==
  ASSUME NEW v \in Positive, NEW w \in Positive, Divides(v, w), NEW N \in Positive,
         Divides(w, N), NEW g \in 0..(N - 1), NEW y \in 0..(N - 1)
  PROVE  (\E f \in 0..(N - 1) : InPart(f, v, w, g, y)) <=> y % v = g % v
<1>1. \A z \in Nat : (z % w) % v = z % v
  <2> PICK k \in Positive : w = v * k
    BY DEF Divides
  <2>1. \A z \in Nat : (z % (v * k)) % v = z % v
    BY RemainderTwice, Zenon
  <2> QED
    BY <2>1, Zenon
<1>2. \A f \in 0..(N - 1) : (f % w) % v = f % v
  <2>1. \A f \in 0..(N - 1) : f \in Nat
    OBVIOUS
  <2> QED
    BY <1>1, <2>1, Zenon
<1>3. y % w \in 0..(w - 1)
  <2>1. y \in Nat /\ w \in Nat \ {0}
    BY DEF Positive
  <2> QED
    BY <2>1, NatDivision, Zenon
<1>4. \E f \in 0..(N - 1) : f % w = y % w /\ f \div w = g \div w
  <2> PICK j : j = y % w
    OBVIOUS
  <2>1. j \in 0..(w - 1)
    BY <1>3
  <2>2. \E f \in 0..(N - 1) : f % w = j /\ f \div w = g \div w
    BY <2>1, RunMember
  <2> QED
    BY <2>2
<1>5. (y % w) % v = y % v
  BY <1>2
<1> PICK d : d = y % w
  OBVIOUS
<1>6. ASSUME NEW f \in 0..(N - 1), f % v = g % v, d = f % w PROVE d % v = g % v
  BY <1>2, <1>6
<1>7. ASSUME d % v = g % v PROVE \E f \in 0..(N - 1) : f % v = g % v /\ f \div w = g \div w /\ d = f % w
  <2>1. PICK f \in 0..(N - 1) : f % w = d /\ f \div w = g \div w
    BY <1>4
  <2>2. f % v = g % v
    BY <1>2, <1>7, <2>1
  <2> QED
    BY <2>1, <2>2
<1> QED
  BY <1>5, <1>6, <1>7, Zenon DEF InPart

\* What comes in from the partners of a round is what is for the run of a block.
LEMMA ItemsJoin ==
  ASSUME NEW v \in Positive, NEW w \in Positive, Divides(v, w), NEW N \in Positive, Divides(w, N),
         Gid = 0..(N - 1), NEW g \in Gid, NEW x \in Gid \X Gid
  PROVE  (\E f \in Gid : f % v = g % v /\ f \div w = g \div w /\ x \in ItemsOf(w, f, v, g))
           <=> x \in ItemsOf(v, g, v, g)
<1> DEFINE y == x[1]
<1>1. g \in 0..(N - 1) /\ y \in 0..(N - 1)
  OBVIOUS
<1>2. /\ \A f : x \in ItemsOf(w, f, v, g) <=> y % w = f % w /\ x[2] \div v = g \div v
      /\ x \in ItemsOf(v, g, v, g) <=> y % v = g % v /\ x[2] \div v = g \div v
  BY DEF ItemsOf
<1> HIDE DEF y
<1>3. (\E f \in 0..(N - 1) : InPart(f, v, w, g, y)) <=> y % v = g % v
  BY <1>1, RunPartners
<1>4. (\E f \in Gid : InPart(f, v, w, g, y)) <=> y % v = g % v
  BY <1>3
<1> QED
  BY <1>2, <1>4, Zenon DEF InPart

\* A number below the divisor.
LEMMA SmallDivision ==
  ASSUME NEW n \in Positive, NEW x \in 0..(n - 1)
  PROVE  x \div n = 0 /\ x % n = x
<1> PICK q : q = 0
  OBVIOUS
<1>1. n \in Nat \ {0} /\ q \in Int /\ n * q = 0 /\ x \in Int /\ 0 <= x /\ x < n
  BY DEF Positive
<1>2. x = n * q + x
  BY <1>1
<1>3. x \div n = q /\ x % n = x
  BY <1>1, <1>2, DivMod
<1> QED
  BY <1>3

\* The items that a block begins with, and those that it ends with.
LEMMA ItemsEnds ==
  ASSUME setup.nblocks \in Positive, NEW g \in Gid
  PROVE  /\ ItemsOf(setup.nblocks, g, setup.nblocks, g) = {g} \X Gid
         /\ Run(setup.nblocks, g) = <<0, setup.nblocks>>
         /\ ItemsOf(1, g, 1, g) = Gid \X {g}
<1> PICK N : N = setup.nblocks
  OBVIOUS
<1>0. N \in Nat \ {0} /\ Gid = 0..(N - 1) /\ 1 \in Nat \ {0}
  BY DEF Gid, Gids, Positive
<1>1. ASSUME NEW x \in Gid PROVE x \div N = 0 /\ x % N = x /\ x \div 1 = x /\ x % 1 = 0
  <2>1. x = N * 0 + x /\ x \in 0..(N - 1) /\ x = 1 * x + 0 /\ 0 \in 0..(1 - 1) /\ x \in Int /\ 0 \in Int
    BY <1>0
  <2>2. x \div N = 0 /\ x % N = x
    BY <1>0, SmallDivision DEF Positive
  <2>3. x \div 1 = x /\ x % 1 = 0
    BY <1>0, <2>1, DivMod
  <2> QED
    BY <2>2, <2>3
<1>2. ItemsOf(N, g, N, g) = {g} \X Gid
  <2>1. ASSUME NEW x \in Gid \X Gid
        PROVE  x[1] % N = g % N /\ x[2] \div N = g \div N <=> x[1] = g
    <3>1. x[1] \in Gid /\ x[2] \in Gid
      OBVIOUS
    <3> QED
      BY <1>1, <3>1, Zenon
  <2>2. ItemsOf(N, g, N, g) = {x \in Gid \X Gid : x[1] = g}
    BY <2>1 DEF ItemsOf
  <2> QED
    BY <2>2
<1>3. Run(N, g) = <<0, N>>
  <2>1. g \div N = 0
    BY <1>1
  <2>2. 0 * N = 0 /\ 0 + N = N
    BY <1>0
  <2> QED
    BY <2>1, <2>2 DEF Run
<1>4. ItemsOf(1, g, 1, g) = Gid \X {g}
  <2>1. ASSUME NEW x \in Gid \X Gid
        PROVE  x[1] % 1 = g % 1 /\ x[2] \div 1 = g \div 1 <=> x[2] = g
    <3>1. x[1] \in Gid /\ x[2] \in Gid
      OBVIOUS
    <3> QED
      BY <1>1, <3>1, Zenon
  <2>2. ItemsOf(1, g, 1, g) = {x \in Gid \X Gid : x[2] = g}
    BY <2>1 DEF ItemsOf
  <2> QED
    BY <2>2
<1> QED
  BY <1>2, <1>3, <1>4

-----------------------------------------------------------------------------
(***************************************************************************)
(* What the queues and the blocks hold.                                    *)
(***************************************************************************)
LEMMA ProgramData ==
  ASSUME Placement
  PROVE  /\ setup.op = "all_to_all" => RunsAgree(setup)
         /\ setup.op # "all_to_all" => KnowsAll(setup)
BY ProgramsReduce DEF Placement, ProgramsGather

\* The partners out of g get the parts, of width v, of its run, and the blocks that it
\* hears from are as far into those.
SharesRun(g, w, v, out, in) ==
  /\ w \in Positive /\ v \in Positive /\ Len(out) \in Positive /\ DOMAIN out = 1..Len(out)
  /\ w = Len(out) * v /\ Divides(v, w)
  /\ \A i \in DOMAIN out : out[i] \in Gid /\ out[i] \div v = (g \div w) * Len(out) + (i - 1)
  /\ in = {f \in Gid : f % v = g % v /\ f \div w = g \div w}

LEMMA RunsOfRound ==
  ASSUME Placement, PartnersMatch(setup), setup.op = "all_to_all", NEW r \in 1..Rounds, NEW g \in Gid
  PROVE  SharesRun(g, Width(setup)[r - 1], Width(setup)[r], setup.part.outgoing[r - 1][g], Ins(r, g))
<1> PICK w : w = Width(setup)[r - 1]
  OBVIOUS
<1> PICK v : v = Width(setup)[r]
  OBVIOUS
<1> PICK out : out = setup.part.outgoing[r - 1][g]
  OBVIOUS
<1> DEFINE W == Width(setup)
           part == setup.part
<1>1. RunsAgree(setup) /\ part.rounds \in Nat /\ Rounds = part.rounds /\ Gids(setup.nblocks) = Gid
  BY ProgramData DEF PartnersMatch, Rounds, Gid
<1>2. /\ \A s \in 0..part.rounds : W[s] \in Nat \ {0} /\ part.active[s] = Gid
      /\ \A s \in 1..part.rounds : \A h \in Gid :
           LET o == part.outgoing[s - 1][h]
           IN  /\ W[s - 1] = Len(o) * W[s]
               /\ \A i \in DOMAIN o : o[i] \div W[s] = (h \div W[s - 1]) * Len(o) + (i - 1)
               /\ ToSet(part.incoming[s][h])
                    = {f \in Gid : f % W[s] = h % W[s] /\ f \div W[s - 1] = h \div W[s - 1]}
  BY <1>1, Zenon DEF RunsAgree, W, part
<1> HIDE DEF W
<1>3. r - 1 \in 0..part.rounds /\ r \in 0..part.rounds /\ r \in 1..part.rounds
  BY <1>1
<1>4. w = W[r - 1] /\ v = W[r]
  BY DEF W
<1>5. w \in Positive /\ v \in Positive /\ part.active[r - 1] = Gid /\ part.active[r] = Gid
  BY <1>2, <1>3, <1>4 DEF Positive
<1>6. out \in Seq(Gid)
  BY <1>1, <1>3, <1>5, SMTT(60) DEF PartnersMatch
<1>7. /\ w = Len(out) * v
      /\ \A i \in DOMAIN out : out[i] \div v = (g \div w) * Len(out) + (i - 1)
      /\ ToSet(part.incoming[r][g]) = {f \in Gid : f % v = g % v /\ f \div w = g \div w}
  <2>1. /\ W[r - 1] = Len(out) * W[r]
        /\ \A i \in DOMAIN out : out[i] \div W[r] = (g \div W[r - 1]) * Len(out) + (i - 1)
        /\ ToSet(part.incoming[r][g]) = {f \in Gid : f % W[r] = g % W[r] /\ f \div W[r - 1] = g \div W[r - 1]}
    BY <1>2, <1>3
  <2>2. w = Len(out) * v
    BY <2>1, <1>4, Zenon
  <2>3. \A i \in DOMAIN out : out[i] \div v = (g \div w) * Len(out) + (i - 1)
    BY <2>1, <1>4, Zenon
  <2>4. ToSet(part.incoming[r][g]) = {f \in Gid : f % v = g % v /\ f \div w = g \div w}
    BY <2>1, <1>4
  <2> QED
    BY <2>2, <2>3, <2>4
<1>8. Len(out) \in Nat /\ DOMAIN out = 1..Len(out) /\ \A i \in DOMAIN out : out[i] \in Gid
  BY <1>6
<1>9. Len(out) # 0
  <2>1. Len(out) = 0 => w = 0
    BY <1>5, <1>7 DEF Positive
  <2> QED
    BY <1>5, <2>1 DEF Positive
<1>10. Len(out) \in Positive
  BY <1>8, <1>9 DEF Positive
<1>11. Divides(v, w)
  <2>1. w = v * Len(out)
    BY <1>5, <1>7, <1>10, PositiveTimes
  <2> QED
    BY <1>10, <2>1, SMTT(60) DEF Divides
<1>12. SharesRun(g, w, v, out, Ins(r, g))
  BY <1>5, <1>7, <1>8, <1>10, <1>11 DEF Ins, SharesRun
<1> QED
  BY <1>12

LEMMA RunWidths ==
  ASSUME Placement, PartnersMatch(setup), setup.op = "all_to_all"
  PROVE  /\ Width(setup)[0] = setup.nblocks /\ Width(setup)[Rounds] = 1 /\ setup.nblocks \in Positive
         /\ \A r \in 0..Rounds : /\ Width(setup)[r] \in Positive /\ Divides(Width(setup)[r], setup.nblocks)
                                 /\ setup.part.active[r] = Gid
<1> DEFINE W == Width(setup)
           N == setup.nblocks
           n == Rounds
<1>1. /\ n \in Nat /\ N \in Positive /\ N \in Nat /\ 0 \in Gid /\ n = setup.part.rounds
  BY DEF PartnersMatch, Rounds, Placement, SetupOK, Positive, Gid, Gids
<1>2. W[n] = 1 /\ \A r \in 0..n : W[r] \in Positive /\ setup.part.active[r] = Gid
  BY ProgramData DEF RunsAgree, Rounds, Positive, Gid
<1>3. \A r \in 1..n : Len(setup.part.outgoing[r - 1][0]) \in Nat \ {0}
  BY <1>1, RunsOfRound DEF Positive, SharesRun
<1>4. W[0] = N
  BY <1>1, <1>3, WidthLoop
<1>5. \A r \in 1..n : W[r - 1] \in Positive /\ W[r] \in Positive /\ Divides(W[r], W[r - 1])
  BY <1>1, RunsOfRound DEF SharesRun
<1> HIDE DEF W, n, N
<1>6. \A r \in 0..n : Divides(W[r], N)
  <2> DEFINE P == {r \in 0..n : Divides(W[r], N)}
  <2>1. 0 \in P
    BY <1>1, <1>4, DividesChain
  <2>2. ASSUME NEW r \in 0..(n - 1), r \in P PROVE r + 1 \in P
    <3>1. r + 1 \in 1..n /\ (r + 1) - 1 = r /\ r + 1 \in 0..n
      BY <1>1
    <3>2. W[r] \in Positive /\ W[r + 1] \in Positive /\ Divides(W[r + 1], W[r])
      BY <1>5, <3>1
    <3> QED
      BY <1>1, <2>2, <3>1, <3>2, DividesChain
  <2> HIDE DEF P
  <2>3. 0..n \subseteq P
    BY <1>1, <2>1, <2>2, InductionTo
  <2> QED
    BY <2>3 DEF P
<1> QED
  BY <1>1, <1>2, <1>4, <1>6 DEF W, n, N

\* What a queue holds, and a block when the callbacks of round r have run on its rank
\* or when that has returned.
QueueHolds(m) ==
  LET w == Width(setup)
  IN  IF setup.op = "all_to_all"
      THEN m.range = Run(w[m.round], m.to) /\ m.data = ItemsOf(w[m.round - 1], m.from, w[m.round], m.to)
      ELSE m.data = Known(setup)[m.round - 1][m.from]
BlockHolds(g, r, ended) ==
  IF setup.op # "all_to_all" THEN Known(setup)[r][g] ELSE IF ended THEN Gid \X {g} ELSE {}

EndedAt(st, q) == q \in Proc /\ st[q] = "done"
RanAt(rd, st, q) == IF EndedAt(st, q) THEN Rounds
                    ELSE IF q \notin Proc \/ rd[q] = 0 THEN 0
                    ELSE IF st[q] = "flush" THEN rd[q] ELSE rd[q] - 1
DataOK(rd, st, val, N, I) ==
  /\ \A m \in MailAt(N, I) : QueueHolds(m)
  /\ \A g \in Gid : val[g] = BlockHolds(g, RanAt(rd, st, rank(g)), EndedAt(st, rank(g)))

LEMMA DataNow ==
  DataInv <=> DataOK(round, pc, value, net, incoming_)
<1>1. \A q : Ran(q) = RanAt(round, pc, q) /\ (Ended(q) <=> EndedAt(pc, q))
  BY DEF Ran, Ended, RanAt, EndedAt
<1>2. Mail = MailAt(net, incoming_)
  BY MailNow
<1> QED
  BY <1>1, <1>2, Zenon DEF DataInv, DataOK, QueueHolds, BlockHolds

LEMMA DataPrimed ==
  ASSUME setup' = setup, \A g : rank(g)' = rank(g),
         NEW rd, rd = round', NEW st, st = pc', NEW val, val = value', NEW N, N = net', NEW I, I = incoming_',
         DataOK(rd, st, val, N, I)
  PROVE  DataInv'
<1>1. Rounds' = Rounds /\ Gid' = Gid
  BY DEF Rounds, Gid
<1>2. \A q : Ran(q)' = RanAt(rd, st, q) /\ (Ended(q)' <=> EndedAt(st, q))
  BY <1>1 DEF Ran, Ended, RanAt, EndedAt
<1>3. Mail' = MailAt(N, I)
  BY DEF Mail, MailAt
<1>4. \A g : Ran(rank(g))' = RanAt(rd, st, rank(g)) /\ (Ended(rank(g))' <=> EndedAt(st, rank(g)))
  BY <1>2
<1>5. \A m : QueueHolds(m)' <=> QueueHolds(m)
  BY <1>1 DEF QueueHolds, ItemsOf
<1>6. (\A m \in Mail : QueueHolds(m))'
  BY <1>3, <1>5 DEF DataOK
<1>7. ASSUME NEW g \in Gid
      PROVE  (value[g] = IF setup.op # "all_to_all" THEN Known(setup)[Ran(rank(g))][g]
                         ELSE IF Ended(rank(g)) THEN Gid \X {g} ELSE {})'
  <2>1. val[g] = IF setup.op # "all_to_all" THEN Known(setup)[RanAt(rd, st, rank(g))][g]
                 ELSE IF EndedAt(st, rank(g)) THEN Gid \X {g} ELSE {}
    BY DEF DataOK, BlockHolds
  <2> QED
    BY <1>1, <1>4, <2>1
<1> QED
  BY <1>1, <1>6, <1>7 DEF DataInv, QueueHolds

\* A block whose callback runs has a queue from each of its partners, as it should be.
LEMMA QueueFacts ==
  ASSUME Inv, DataInv, NEW p \in Proc, pc[p] \in {"foreach", "deferred"}, NEW g \in Active(p)
  PROVE  LET r == round[p] IN
         /\ r \in 0..Rounds /\ r \in Nat /\ Rounds \in Nat
         /\ g \in Gid /\ rank(g) = p /\ g \in setup.part.active[r]
         /\ r = 0 => Queues(p, g) = {} /\ in_link(p, g) = <<>>
         /\ r # 0 => /\ r \in 1..Rounds
                     /\ in_link(p, g) = setup.part.incoming[r][g]
                     /\ \A m \in Queues(p, g) : /\ m.from \in Ins(r, g) /\ m.round = r /\ m.to = g
                                                /\ QueueHolds(m)
                     /\ \A f \in Ins(r, g) : \E m \in Queues(p, g) : m.from = f
<1> DEFINE r == round[p]
<1>0. /\ SetupOK /\ BalanceInv /\ PartnersMatch(setup) /\ ProgressInv /\ MailInv
  BY DEF Inv, MessagesInv
<1>1. r \in 0..Rounds /\ r \in Nat /\ HasResolved(p) /\ Rounds \in Nat
  BY <1>0 DEF ProgressInv, HasResolved, HasMoved, HasDecided, PartnersMatch, Rounds
<1>2. g \in blocks[p] /\ g \in Gid /\ g \in setup.part.active[r]
  BY <1>0, Disjoint DEF Active
<1>3. rank(g) = p
  BY <1>0, <1>1, <1>2, Located
<1>4. \A m \in Queues(p, g) : m \in Mail /\ m.round = r /\ m.to = g
  BY DEF Queues, Mail
<1>5. \A m \in Queues(p, g) : m.round \in 1..Rounds /\ m.from \in Ins(r, g) /\ QueueHolds(m)
  <2>1. ASSUME NEW m \in Queues(p, g) PROVE m.round \in 1..Rounds /\ m.from \in Ins(m.round, m.to)
    BY <1>0, <1>4, MailFacts
  <2>2. \A m \in Mail : QueueHolds(m)
    BY DEF DataInv, QueueHolds
  <2> QED
    BY <1>4, <2>1, <2>2
<1>6. CASE r = 0
  <2>1. Queues(p, g) = {}
    BY <1>4, <1>5, <1>6
  <2>2. in_link(p, g) = <<>>
    BY <1>6 DEF in_link
  <2> QED
    BY <1>1, <1>2, <1>3, <1>6, <2>1, <2>2
<1>7. CASE r # 0
  <2>1. r \in 1..Rounds /\ in_link(p, g) = setup.part.incoming[r][g]
    BY <1>1, <1>7 DEF in_link
  <2>2. {m.from : m \in Queues(p, g)} = {in_link(p, g)[i] : i \in DOMAIN in_link(p, g)}
    BY QueuesFromPartners
  <2>3. Ins(r, g) = {in_link(p, g)[i] : i \in DOMAIN in_link(p, g)}
    BY <2>1 DEF Ins, ToSet
  <2>4. \A f \in Ins(r, g) : \E m \in Queues(p, g) : m.from = f
    BY <2>2, <2>3, Zenon
  <2> QED
    BY <1>1, <1>2, <1>3, <1>4, <1>5, <1>7, <2>1, <2>4
<1> QED
  BY <1>6, <1>7

LEMMA KnownOfRound ==
  ASSUME PartnersMatch(setup)
  PROVE  /\ Known(setup)[0] = [g \in Gid |-> {g}]
         /\ \A r \in 1..Rounds : \A g \in Gid :
              Known(setup)[r][g]
                = Known(setup)[r - 1][g]
                    \cup (IF g \in setup.part.active[r]
                          THEN UNION {Known(setup)[r - 1][h] : h \in Ins(r, g)} ELSE {})
<1>1. /\ Known(setup)[0] = [g \in Gids(setup.nblocks) |-> {g}]
      /\ \A r \in 1..setup.part.rounds : \A g \in Gids(setup.nblocks) :
           Known(setup)[r][g]
             = Known(setup)[r - 1][g]
                 \cup (IF g \in setup.part.active[r]
                       THEN UNION {Known(setup)[r - 1][h] : h \in ToSet(setup.part.incoming[r][g])}
                       ELSE {})
  BY KnownLoop, ZenonT(90)
<1> QED
  BY <1>1 DEF Gid, Rounds, Ins

\* After the callbacks of a round a block has gathered what its partners had.
LEMMA KnownFound ==
  ASSUME Inv, DataInv, setup.op # "all_to_all", NEW p \in Proc, pc[p] \in {"foreach", "deferred"},
         NEW g \in Active(p)
  PROVE  value[g] \cup Found(p, g) = Known(setup)[round[p]][g]
<1> DEFINE r == round[p]
           K == Known(setup)
           Q == Queues(p, g)
<1>0. PartnersMatch(setup) /\ Gids(setup.nblocks) = Gid /\ setup.part.rounds = Rounds
  BY DEF Inv, MessagesInv, Gid, Rounds
<1>1. g \in Gid /\ rank(g) = p /\ r \in Nat /\ Rounds \in Nat
  BY QueueFacts
<1>2. value[g] = K[IF r = 0 THEN 0 ELSE r - 1][g]
  <2>1. value[g] = K[Ran(rank(g))][g]
    BY <1>1 DEF DataInv
  <2>2. Ran(p) = IF r = 0 THEN 0 ELSE r - 1
    BY DEF Ran, Ended
  <2> QED
    BY <1>1, <2>1, <2>2, Zenon
<1>3. CASE r = 0
  <2>1. Q = {}
    BY <1>3, QueueFacts
  <2>2. Found(p, g) = {}
    BY <2>1 DEF Found
  <2> QED
    BY <1>2, <1>3, <2>2
<1>4. CASE r # 0
  <2>1. /\ r \in 1..Rounds /\ g \in setup.part.active[r]
        /\ \A m \in Q : m.from \in Ins(r, g) /\ m.round = r /\ QueueHolds(m)
        /\ \A f \in Ins(r, g) : \E m \in Q : m.from = f
    BY <1>4, QueueFacts, SMTT(60)
  <2>2. \A m \in Q : m.data = K[r - 1][m.from]
    BY <2>1 DEF QueueHolds
  <2>3. Found(p, g) = UNION {m.data : m \in Q}
    BY DEF Found
  <2>4. K[r][g] = K[r - 1][g] \cup UNION {K[r - 1][h] : h \in Ins(r, g)}
    <3>1. K[r][g] = K[r - 1][g] \cup (IF g \in setup.part.active[r]
                                      THEN UNION {K[r - 1][h] : h \in Ins(r, g)} ELSE {})
      BY <1>0, <1>1, <2>1, KnownOfRound
    <3> QED
      BY <2>1, <3>1, Zenon
  <2> HIDE DEF Q, K
  <2>5. UNION {m.data : m \in Q} = UNION {K[r - 1][h] : h \in Ins(r, g)}
    <3>1. \A x : (\E m \in Q : x \in m.data) <=> \E h \in Ins(r, g) : x \in K[r - 1][h]
      BY <2>1, <2>2, ZenonT(90)
    <3> QED
      BY <3>1
  <2>6. value[g] = K[r - 1][g]
    BY <1>2, <1>4
  <2> QED
    BY <2>3, <2>4, <2>5, <2>6, Zenon DEF K
<1> QED
  BY <1>3, <1>4

\* In an all-to-all a block has the items for its run, of the blocks that are as far
\* into theirs.
LEMMA ItemsFound ==
  ASSUME Inv, DataInv, setup.op = "all_to_all", NEW p \in Proc, pc[p] \in {"foreach", "deferred"},
         NEW g \in Active(p), NEW v, v = Width(setup)[round[p]]
  PROVE  /\ Items(p, g) = ItemsOf(v, g, v, g) /\ ItemRange(p, g) = Run(v, g)
         /\ round[p] # 0 => Found(p, g) = ItemsOf(v, g, v, g)
<1> DEFINE r == round[p]
           N == setup.nblocks
           Q == Queues(p, g)
           in == in_link(p, g)
<1>0. /\ Placement /\ PartnersMatch(setup) /\ g \in Gid /\ r \in Nat /\ Rounds \in Nat /\ Gid = 0..(N - 1)
      /\ N \in Positive /\ Width(setup)[0] = N
  BY QueueFacts, RunWidths DEF Inv, MessagesInv, Gid, Gids
<1>1. CASE r = 0
  <2>1. Items(p, g) = {g} \X Gid
    BY <1>1 DEF Items
  <2>2. ItemRange(p, g) = <<0, N>>
    <3>1. in = <<>>
      BY <1>1, QueueFacts
    <3> QED
      BY <3>1 DEF ItemRange
  <2>3. v = N
    BY <1>0, <1>1
  <2>4. ItemsOf(N, g, N, g) = {g} \X Gid /\ Run(N, g) = <<0, N>>
    BY <1>0, ItemsEnds
  <2> HIDE DEF N, r
  <2> QED
    BY <1>1, <2>1, <2>2, <2>3, <2>4 DEF r
<1>2. CASE r # 0
  <2> PICK w : w = Width(setup)[r - 1]
    BY Zenon
  <2>1. /\ r \in 1..Rounds /\ in = setup.part.incoming[r][g] /\ g \in setup.part.active[r]
        /\ \A m \in Q : m.from \in Ins(r, g) /\ m.round = r /\ m.to = g /\ QueueHolds(m)
        /\ \A f \in Ins(r, g) : \E m \in Q : m.from = f
    BY <1>2, QueueFacts
  <2>2. /\ w \in Positive /\ v \in Positive /\ Divides(v, w)
        /\ Ins(r, g) = {f \in Gid : f % v = g % v /\ f \div w = g \div w}
    <3>1. SharesRun(g, Width(setup)[r - 1], Width(setup)[r], setup.part.outgoing[r - 1][g], Ins(r, g))
      BY <1>0, <2>1, RunsOfRound
    <3> QED
      BY <3>1 DEF SharesRun
  <2>3. Divides(w, N)
    <3>1. r - 1 \in 0..Rounds
      BY <1>0, <2>1
    <3> QED
      BY <1>0, <3>1, RunWidths
  <2>4. \A m \in Q : m.range = Run(v, g) /\ m.data = ItemsOf(w, m.from, v, g)
    BY <2>1 DEF QueueHolds
  <2>5. Found(p, g) = ItemsOf(v, g, v, g)
    <3>1. Found(p, g) = UNION {m.data : m \in Q}
      BY DEF Found
    <3>2. \A f : ItemsOf(w, f, v, g) \subseteq Gid \X Gid
      BY DEF ItemsOf
    <3>3. ItemsOf(v, g, v, g) \subseteq Gid \X Gid
      BY DEF ItemsOf
    <3>4. \A x \in Gid \X Gid :
            (\E f \in Gid : f % v = g % v /\ f \div w = g \div w /\ x \in ItemsOf(w, f, v, g))
              <=> x \in ItemsOf(v, g, v, g)
      <4> HIDE DEF N
      <4> QED
        BY <1>0, <2>2, <2>3, ItemsJoin
    <3>5. \A x : (\E m \in Q : x \in m.data) <=> \E f \in Ins(r, g) : x \in ItemsOf(w, f, v, g)
      <4> HIDE DEF Q, r
      <4>1. ASSUME NEW x, NEW m \in Q, x \in m.data PROVE \E f \in Ins(r, g) : x \in ItemsOf(w, f, v, g)
        BY <2>1, <2>4, <4>1
      <4>2. ASSUME NEW x, NEW f \in Ins(r, g), x \in ItemsOf(w, f, v, g) PROVE \E m \in Q : x \in m.data
        <5>1. PICK m \in Q : m.from = f
          BY <2>1
        <5>2. m.data = ItemsOf(w, f, v, g)
          BY <2>4, <5>1
        <5> QED
          BY <4>2, <5>2
      <4> QED
        BY <4>1, <4>2, Zenon
    <3>6. \A x : (\E f \in Ins(r, g) : x \in ItemsOf(w, f, v, g))
                   <=> \E f \in Gid : f % v = g % v /\ f \div w = g \div w /\ x \in ItemsOf(w, f, v, g)
      <4> HIDE DEF r
      <4> QED
        BY <2>2, Zenon
    <3>7. \A x : (\E m \in Q : x \in m.data) <=> x \in ItemsOf(v, g, v, g)
      <4> HIDE DEF Q, r
      <4> QED
        BY <3>2, <3>3, <3>4, <3>5, <3>6, Zenon
    <3> HIDE DEF Q
    <3>8. UNION {m.data : m \in Q} = ItemsOf(v, g, v, g)
      BY <3>7
    <3> QED
      BY <3>1, <3>8 DEF Q
  <2>6. Items(p, g) = ItemsOf(v, g, v, g)
    BY <1>2, <2>5 DEF Items
  <2>7. ItemRange(p, g) = Run(v, g)
    <3>1. Len(in) \in Nat /\ DOMAIN in = 1..Len(in) /\ \A i \in DOMAIN in : in[i] \in Ins(r, g)
      <4>1. Len(in) \in Nat /\ DOMAIN in = 1..Len(in)
        BY <1>0, <2>1, PartnersOnce, ZenonT(90)
      <4>2. \A i \in DOMAIN in : in[i] \in Ins(r, g)
        BY <2>1 DEF Ins, ToSet
      <4> QED
        BY <4>1, <4>2
    <3>2. \E i \in DOMAIN in : in[i] = g
      <4>1. g \in Ins(r, g)
        BY <1>0, <2>2
      <4> QED
        BY <2>1, <4>1 DEF Ins, ToSet
    <3>3. in # <<>> /\ Len(in) \in DOMAIN in
      <4> HIDE DEF in
      <4> QED
        BY <3>1, <3>2
    <3>4. \E m \in Q : m.from = in[Len(in)]
      <4> HIDE DEF Q, in, r
      <4> QED
        BY <2>1, <3>1, <3>3
    <3> DEFINE m == CHOOSE m \in Q : m.from = in[Len(in)]
    <3>5. m \in Q
      BY <3>4
    <3>6. ItemRange(p, g) = m.range
      BY <3>3 DEF ItemRange
    <3> HIDE DEF m, Q
    <3> QED
      BY <2>4, <3>5, <3>6
  <2> QED
    BY <2>5, <2>6, <2>7
<1> QED
  BY <1>1, <1>2

\* What a round sends is what the queues are to hold.
LEMMA SentHolds ==
  ASSUME Inv, DataInv, NEW p \in Proc, pc[p] = "foreach", round[p] < Rounds, NEW m \in Sent(p)
  PROVE  QueueHolds(m)
<1> DEFINE r == round[p]
           O(g) == out_link(p, g)
           items(g) == IF setup.op = "all_to_all" THEN Items(p, g) ELSE value[g] \cup Found(p, g)
           range(g) == IF setup.op = "all_to_all" THEN ItemRange(p, g) ELSE <<0, 0>>
           group(g) == (range(g)[2] - range(g)[1]) \div Len(O(g))
           part(g, i) == <<range(g)[1] + (i - 1) * group(g), range(g)[1] + i * group(g)>>
           for(g, i) == IF setup.op # "all_to_all" THEN items(g)
                        ELSE {x \in items(g) : part(g, i)[1] <= x[2] /\ x[2] < part(g, i)[2]}
           msg(g, i) == [from |-> g, to |-> O(g)[i], round |-> r + 1, proc |-> rank(O(g)[i]),
                         range |-> part(g, i), data |-> for(g, i)]
<1>1. \A g \in Active(p) : SentBy(p, g) = {msg(g, i) : i \in DOMAIN O(g)}
  BY Zenon DEF SentBy
<1>2. \A g, i : part(g, i) = Divided(range(g), Len(O(g)), i)
  BY Zenon DEF Divided
<1>3. \A g, i : for(g, i) = IF setup.op # "all_to_all" THEN items(g)
                            ELSE {x \in items(g) : part(g, i)[1] <= x[2] /\ x[2] < part(g, i)[2]}
  BY Zenon
<1> HIDE DEF part, for, group, items, range
<1>4. \A g, i : /\ msg(g, i).from = g /\ msg(g, i).to = O(g)[i] /\ msg(g, i).round = r + 1
                /\ msg(g, i).range = part(g, i) /\ msg(g, i).data = for(g, i)
  OBVIOUS
<1> HIDE DEF msg
<1> PICK g \in Active(p) : m \in SentBy(p, g)
  BY DEF Sent
<1>5. PICK i \in DOMAIN O(g) : m = msg(g, i)
  BY <1>1
<1>6. /\ g \in Gid /\ g \in setup.part.active[r] /\ r \in Nat /\ r + 1 \in 1..Rounds /\ (r + 1) - 1 = r
      /\ Placement /\ PartnersMatch(setup)
  BY QueueFacts DEF Inv, MessagesInv
<1>7. CASE setup.op # "all_to_all"
  <2>1. value[g] \cup Found(p, g) = Known(setup)[r][g]
    BY <1>7, KnownFound
  <2>2. m.data = items(g)
    BY <1>3, <1>4, <1>5, <1>7
  <2>3. items(g) = value[g] \cup Found(p, g)
    BY <1>7 DEF items
  <2>4. m.from = g /\ m.round - 1 = r
    BY <1>4, <1>5, <1>6
  <2> QED
    BY <1>7, <2>1, <2>2, <2>3, <2>4 DEF QueueHolds
<1>8. CASE setup.op = "all_to_all"
  <2> PICK w : w = Width(setup)[r]
    OBVIOUS
  <2> PICK v : v = Width(setup)[r + 1]
    OBVIOUS
  <2> PICK o : o = O(g)[i]
    OBVIOUS
  <2> PICK k : k = Len(O(g))
    OBVIOUS
  <2>1. Items(p, g) = ItemsOf(w, g, w, g) /\ ItemRange(p, g) = Run(w, g)
    BY <1>8, ItemsFound
  <2>2. items(g) = ItemsOf(w, g, w, g) /\ range(g) = Run(w, g)
    BY <1>8, <2>1 DEF items, range
  <2>3. O(g) = setup.part.outgoing[r][g]
    BY DEF out_link
  <2>4. /\ v \in Positive /\ k \in Positive /\ DOMAIN O(g) = 1..k /\ w = k * v
        /\ o \in Gid /\ o \div v = (g \div w) * k + (i - 1)
    <3> PICK s : s = r + 1
      OBVIOUS
    <3>1. s \in 1..Rounds /\ s - 1 = r
      BY <1>6
    <3>2. SharesRun(g, Width(setup)[s - 1], Width(setup)[s], setup.part.outgoing[s - 1][g], Ins(s, g))
      BY <1>6, <1>8, <3>1, RunsOfRound
    <3>3. SharesRun(g, w, v, O(g), Ins(s, g))
      BY <2>3, <3>1, <3>2
    <3> HIDE DEF O
    <3> QED
      BY <1>5, <3>3 DEF SharesRun
  <2>5. /\ g \in Nat /\ o \in Nat /\ i \in 1..k /\ setup.nblocks \in Nat
    BY <1>5, <1>6, <2>4 DEF Gid, Gids, Placement, SetupOK
  <2> HIDE DEF O, r
  <2>6. Divided(Run(w, g), k, i) = Run(v, o) /\ o \div w = g \div w
    BY <2>4, <2>5, RunCut
  <2>7. ItemsWithin(ItemsOf(w, g, w, g), Run(v, o)) = ItemsOf(w, g, v, o)
    BY <2>4, <2>5, <2>6, ItemsCut
  <2>8. part(g, i) = Run(v, o)
    BY <1>2, <2>2, <2>6
  <2>9. for(g, i) = ItemsOf(w, g, v, o)
    <3>1. for(g, i) = ItemsWithin(items(g), part(g, i))
      BY <1>3, <1>8 DEF ItemsWithin
    <3> QED
      BY <2>2, <2>7, <2>8, <3>1
  <2>10. m.from = g /\ m.to = o /\ m.round = r + 1 /\ m.round - 1 = r /\ m.range = Run(v, o)
         /\ m.data = ItemsOf(w, g, v, o)
    BY <1>4, <1>5, <1>6, <2>8, <2>9
  <2> QED
    BY <1>8, <2>10 DEF QueueHolds
<1> QED
  BY <1>7, <1>8

\* What the callbacks of a round make of a block, which need not be active.
LEMMA CallbacksHold ==
  ASSUME Inv, DataInv, NEW p \in Proc,
         (pc[p] = "foreach" /\ round[p] < Rounds) \/ (pc[p] = "deferred" /\ round[p] = Rounds),
         NEW g \in Gid, rank(g) = p
  PROVE  (IF g \in Active(p) THEN Value(p, g) ELSE value[g]) = BlockHolds(g, round[p], pc[p] = "deferred")
<1> DEFINE r == round[p]
           K == Known(setup)
<1>0. /\ SetupOK /\ BalanceInv /\ Placement /\ PartnersMatch(setup) /\ ProgressInv
      /\ r \in 0..Rounds /\ r \in Nat /\ Rounds \in Nat /\ HasResolved(p)
      /\ pc[p] \in {"foreach", "deferred"}
  BY DEF Inv, MessagesInv, ProgressInv, PartnersMatch, Rounds, HasResolved, HasMoved, HasDecided
<1>1. g \in blocks[p]
  BY <1>0, Located
<1>2. Ran(p) = (IF r = 0 THEN 0 ELSE r - 1) /\ ~Ended(p)
  BY <1>0 DEF Ran, Ended
<1>3. CASE setup.op # "all_to_all"
  <2>1. BlockHolds(g, r, pc[p] = "deferred") = K[r][g]
    BY <1>3 DEF BlockHolds
  <2>2. CASE g \in Active(p)
    <3>1. value[g] \cup Found(p, g) = K[r][g]
      BY <1>0, <1>3, <2>2, KnownFound
    <3> QED
      BY <1>3, <2>1, <2>2, <3>1 DEF Value
  <2>3. CASE g \notin Active(p)
    <3>1. g \notin setup.part.active[r]
      BY <1>1, <2>3 DEF Active
    <3>2. value[g] = K[IF r = 0 THEN 0 ELSE r - 1][g]
      <4>1. value[g] = K[Ran(rank(g))][g]
        BY <1>3 DEF DataInv
      <4> QED
        BY <1>2, <4>1, Zenon
    <3>3. CASE r = 0
      BY <2>1, <2>3, <3>2, <3>3
    <3>4. CASE r # 0
      <4>1. r \in 1..Rounds
        BY <1>0, <3>4
      <4>2. K[r][g] = K[r - 1][g] \cup (IF g \in setup.part.active[r]
                                        THEN UNION {K[r - 1][h] : h \in Ins(r, g)} ELSE {})
        BY <1>0, <4>1, KnownOfRound
      <4> PICK S : S = UNION {K[r - 1][h] : h \in Ins(r, g)}
        OBVIOUS
      <4>3. K[r][g] = K[r - 1][g]
        <5>1. K[r][g] = K[r - 1][g] \cup {}
          BY <3>1, <4>2, Zenon
        <5> HIDE DEF K
        <5> QED
          BY <5>1
      <4> QED
        BY <2>1, <2>3, <3>2, <3>4, <4>3
    <3> QED
      BY <3>3, <3>4
  <2> QED
    BY <2>2, <2>3
<1>4. CASE setup.op = "all_to_all"
  <2>1. g \in Active(p)
    BY <1>0, <1>1, <1>4, RunWidths DEF Active
  <2>2. CASE pc[p] = "foreach"
    <3>1. Value(p, g) = {}
      BY <1>4, <2>2 DEF Value
    <3> QED
      BY <1>4, <2>1, <2>2, <3>1 DEF BlockHolds
  <2>3. CASE pc[p] = "deferred"
    <3>1. BlockHolds(g, r, pc[p] = "deferred") = Gid \X {g}
      BY <1>4, <2>3 DEF BlockHolds
    <3>2. CASE Rounds = 0
      <4>1. Width(setup)[0] = setup.nblocks /\ Width(setup)[Rounds] = 1
        BY <1>0, <1>4, RunWidths
      <4>2. Gid = {0} /\ g = 0
        BY <3>2, <4>1 DEF Gid, Gids
      <4>3. Gid \X {g} = {<<g, g>>}
        BY <4>2
      <4>4. Value(p, g) = {<<g, g>>}
        BY <1>0, <1>4, <2>3, <3>2 DEF Value
      <4> QED
        BY <2>1, <3>1, <4>3, <4>4
    <3>3. CASE Rounds # 0
      <4>1. Width(setup)[r] = 1 /\ r # 0 /\ setup.nblocks \in Positive
        BY <1>0, <1>4, <2>3, <3>3, RunWidths
      <4>2. Found(p, g) = ItemsOf(1, g, 1, g)
        <5> PICK v : v = Width(setup)[r]
          OBVIOUS
        <5>1. Found(p, g) = ItemsOf(v, g, v, g)
          BY <1>0, <1>4, <2>1, <4>1, ItemsFound
        <5> QED
          BY <4>1, <5>1
      <4>3. ItemsOf(1, g, 1, g) = Gid \X {g}
        BY <4>1, ItemsEnds
      <4>4. Value(p, g) = Found(p, g)
        BY <1>0, <1>4, <2>3, <3>3 DEF Value
      <4> QED
        BY <2>1, <3>1, <4>2, <4>3, <4>4
    <3> QED
      BY <3>2, <3>3
  <2> QED
    BY <1>0, <2>2, <2>3
<1> QED
  BY <1>3, <1>4

LEMMA CallbacksData ==
  ASSUME Inv, DataInv, NEW p \in Proc, Callbacks(p),
         (pc[p] = "foreach" /\ round[p] < Rounds) \/ (pc[p] = "deferred" /\ round[p] = Rounds),
         NEW st, DOMAIN st = Proc, \A q \in Proc : q # p => st[q] = pc[q],
         st[p] = IF pc[p] = "foreach" THEN "flush" ELSE "done", NEW g \in Gid
  PROVE  value'[g] = BlockHolds(g, RanAt(round, st, rank(g)), EndedAt(st, rank(g)))
<1> DEFINE r == round[p]
<1>0. /\ SetupOK /\ BalanceInv /\ PartnersMatch(setup) /\ ProgressInv
      /\ r \in 0..Rounds /\ r \in Nat /\ Rounds \in Nat /\ HasResolved(p)
  BY DEF Inv, MessagesInv, ProgressInv, PartnersMatch, Rounds, HasResolved, HasMoved, HasDecided
<1>1. value'[g] = IF g \in Active(p) THEN Value(p, g) ELSE value[g]
  BY DEF Callbacks
<1>2. CASE rank(g) = p
  <2>1. value'[g] = BlockHolds(g, r, pc[p] = "deferred")
    BY <1>1, <1>2, CallbacksHold
  <2>2. RanAt(round, st, p) = r /\ (EndedAt(st, p) <=> pc[p] = "deferred")
    BY <1>0 DEF RanAt, EndedAt
  <2>3. BlockHolds(g, RanAt(round, st, p), EndedAt(st, p)) = BlockHolds(g, r, pc[p] = "deferred")
    BY <2>2 DEF BlockHolds
  <2> QED
    BY <1>2, <2>1, <2>3
<1>3. CASE rank(g) # p
  <2>1. g \notin Active(p)
    <3>1. SUFFICES ASSUME g \in blocks[p] PROVE FALSE
      BY DEF Active
    <3> QED
      BY <1>0, <1>3, <3>1, Located
  <2>2. value[g] = BlockHolds(g, RanAt(round, pc, rank(g)), EndedAt(pc, rank(g)))
    BY DataNow DEF DataOK
  <2>3. RanAt(round, st, rank(g)) = RanAt(round, pc, rank(g)) /\ (EndedAt(st, rank(g)) <=> EndedAt(pc, rank(g)))
    BY <1>3 DEF RanAt, EndedAt
  <2> QED
    BY <1>1, <2>1, <2>2, <2>3 DEF BlockHolds
<1> QED
  BY <1>2, <1>3

LEMMA ReduceData ==
  ASSUME Inv, DataInv, NEW p \in Proc, ReduceStep(p)
  PROVE  DataInv'
<1> PICK st : st = pc'
  OBVIOUS
<1> PICK rd : rd = round'
  OBVIOUS
<1> PICK val : val = value'
  OBVIOUS
<1> PICK N : N = net'
  OBVIOUS
<1> PICK I : I = incoming_'
  OBVIOUS
<1>0. SetupOK /\ BalanceInv /\ PartnersMatch(setup) /\ ProgressInv
  BY DEF Inv, MessagesInv
<1>1. setup' = setup /\ rank_map_' = rank_map_ /\ \A g : rank(g)' = rank(g)
  BY <1>0, ReduceKeeps, SameRanks
<1>2. DOMAIN pc = Proc /\ DOMAIN incoming_ = Proc /\ DOMAIN round = Proc /\ round[p] \in Nat
  BY <1>0 DEF BalanceInv, Domains, ProgressInv, PartnersMatch, Rounds
<1>3. /\ \A m \in MailAt(net, incoming_) : QueueHolds(m)
      /\ \A g \in Gid : value[g] = BlockHolds(g, RanAt(round, pc, rank(g)), EndedAt(pc, rank(g)))
  BY DataNow DEF DataOK
<1>4. DataOK(rd, st, val, N, I)
  <2>1. CASE Round(p)
    <3>1. /\ N = net \cup {m \in Sent(p) : m.proc # p} /\ rd = round
          /\ I[p] = {m \in incoming_[p] : m.round # round[p]} \cup {m \in Sent(p) : m.proc = p}
          /\ \A q \in Proc : q # p => I[q] = incoming_[q]
          /\ DOMAIN st = Proc /\ st[p] = "flush" /\ \A q \in Proc : q # p => st[q] = pc[q]
          /\ pc[p] = "foreach" /\ round[p] < Rounds /\ Callbacks(p)
      BY <1>2, <2>1 DEF Round
    <3>2. \A m \in Sent(p) : QueueHolds(m)
      BY <3>1, SentHolds
    <3>3. \A m \in MailAt(N, I) : m \in MailAt(net, incoming_) \/ m \in Sent(p)
      BY <3>1 DEF MailAt
    <3>4. \A g \in Gid : val[g] = BlockHolds(g, RanAt(rd, st, rank(g)), EndedAt(st, rank(g)))
      BY <3>1, CallbacksData
    <3> QED
      BY <1>3, <3>2, <3>3, <3>4 DEF DataOK
  <2>2. CASE Receive(p)
    <3>1. st = pc /\ rd = round /\ val = value
      BY <2>2 DEF Receive, balanceVars
    <3>2. MailAt(N, I) = MailAt(net, incoming_)
      BY <1>2, <2>2 DEF Receive, MailAt
    <3> QED
      BY <1>3, <3>1, <3>2 DEF DataOK
  <2>3. CASE EndFlush(p) \/ Return(p)
    <3>1. val = value /\ N = net /\ I = incoming_
      BY <2>3 DEF EndFlush, Return, reduceVars
    <3>2. \A q : RanAt(rd, st, q) = RanAt(round, pc, q) /\ (EndedAt(st, q) <=> EndedAt(pc, q))
      <4>1. CASE EndFlush(p)
        <5>1. /\ pc[p] = "flush" /\ st[p] = "foreach" /\ rd[p] = round[p] + 1
              /\ \A q \in Proc : q # p => st[q] = pc[q] /\ rd[q] = round[q]
          BY <1>2, <4>1 DEF EndFlush
        <5> QED
          BY <1>2, <5>1 DEF RanAt, EndedAt
      <4>2. CASE Return(p)
        <5>1. /\ pc[p] = "foreach" /\ st[p] = "deferred" /\ rd = round
              /\ \A q \in Proc : q # p => st[q] = pc[q]
          BY <1>2, <4>2 DEF Return, reduceVars
        <5> QED
          BY <1>2, <5>1 DEF RanAt, EndedAt
      <4> QED
        BY <2>3, <4>1, <4>2
    <3>3. \A g \in Gid : BlockHolds(g, RanAt(rd, st, rank(g)), EndedAt(st, rank(g)))
                           = BlockHolds(g, RanAt(round, pc, rank(g)), EndedAt(pc, rank(g)))
      BY <3>2 DEF BlockHolds
    <3> QED
      BY <1>3, <3>1, <3>3 DEF DataOK
  <2>4. CASE execute(p)
    <3>1. /\ N = net /\ I = incoming_ /\ rd = round /\ Callbacks(p)
          /\ DOMAIN st = Proc /\ st[p] = "done" /\ \A q \in Proc : q # p => st[q] = pc[q]
          /\ pc[p] = "deferred"
      BY <1>2, <2>4 DEF execute
    <3>2. round[p] = Rounds
      BY <1>0, <3>1 DEF ProgressInv
    <3>3. \A g \in Gid : val[g] = BlockHolds(g, RanAt(rd, st, rank(g)), EndedAt(st, rank(g)))
      BY <3>1, <3>2, CallbacksData
    <3> QED
      BY <1>3, <3>1, <3>3 DEF DataOK
  <2> QED
    BY <2>1, <2>2, <2>3, <2>4 DEF ReduceStep
<1> QED
  BY <1>1, <1>4, DataPrimed

\* Until a rank has its links resolved none of its blocks has gathered anything.
LEMMA BalanceData ==
  ASSUME Inv, DataInv, NEW p \in Proc, BalanceNext(p), UNCHANGED reduceVars
  PROVE  DataInv'
<1> PICK st : st = pc'
  OBVIOUS
<1>0. /\ SetupOK /\ BalanceInv /\ PartnersMatch(setup) /\ ProgressInv /\ MailInv /\ HeardInv
      /\ setup' = setup /\ net' = net /\ incoming_' = incoming_ /\ round' = round /\ value' = value
  BY BalanceKeepsSetup DEF Inv, MessagesInv, reduceVars
<1>1. /\ pc[p] \in {"decompose", "gather", "decide", "move", "barrier"}
      /\ st[p] \in {"gather", "decide", "move", "barrier", "foreach"}
      /\ \A q \in Proc : q # p => st[q] = pc[q]
      /\ rank_map_' # rank_map_ => pc[p] = "move"
  BY <1>0, BalanceStages
<1>2. ~HasResolved(p) /\ round[p] = 0
  BY <1>0, <1>1 DEF HasResolved, HasMoved, HasDecided, ProgressInv
<1>3. \A q : RanAt(round, st, q) = RanAt(round, pc, q) /\ (EndedAt(st, q) <=> EndedAt(pc, q))
  BY <1>1, <1>2 DEF RanAt, EndedAt
<1>4. /\ \A m \in MailAt(net, incoming_) : QueueHolds(m)
      /\ \A g \in Gid : value[g] = BlockHolds(g, RanAt(round, pc, rank(g)), EndedAt(pc, rank(g)))
  BY DataNow DEF DataOK
<1>5. \A g \in Gid : value[g] = BlockHolds(g, RanAt(round, st, rank(g)), EndedAt(st, rank(g)))
  BY <1>3, <1>4 DEF BlockHolds
<1>6. CASE rank_map_' = rank_map_
  BY <1>0, <1>4, <1>5, <1>6, SameRanks, DataPrimed DEF DataOK
<1>7. CASE rank_map_' # rank_map_
  <2>1. \A q \in Proc : ~HasResolved(q)
    BY <1>0, <1>1, <1>7 DEF BalanceInv, StagesInv, Stage, HasMoved, SetupOK
  <2>2. \A q \in Proc : round[q] = 0 /\ st[q] # "done" /\ pc[q] # "done"
    BY <1>0, <1>1, <2>1 DEF ProgressInv, HasResolved, HasMoved, HasDecided
  <2>3. \A q : RanAt(round, pc, q) = 0 /\ ~EndedAt(pc, q)
    BY <2>2 DEF RanAt, EndedAt
  <2>4. \A q : (Ran(q) = 0 /\ ~Ended(q))'
    BY <1>0, <2>2 DEF Ran, Ended
  <2>5. Mail' = {}
    <3>1. \A q, s : s \in Nat => ~Past(q, s)
      BY <1>0, <2>1, PastResolved
    <3>2. Mail = {}
      <4>1. SUFFICES ASSUME NEW m \in Mail PROVE FALSE
        OBVIOUS
      <4> QED
        BY <1>0, <3>1, MailFacts
    <3> QED
      BY <1>0, <3>2 DEF Mail
  <2>6. Gid' = Gid
    BY <1>0 DEF Gid
  <2>7. ASSUME NEW g \in Gid
        PROVE  (value[g] = IF setup.op # "all_to_all" THEN Known(setup)[Ran(rank(g))][g]
                           ELSE IF Ended(rank(g)) THEN Gid \X {g} ELSE {})'
    <3>1. value[g] = IF setup.op # "all_to_all" THEN Known(setup)[0][g] ELSE {}
      BY <1>4, <2>3 DEF BlockHolds
    <3>2. (Ran(rank(g)) = 0 /\ ~Ended(rank(g)))'
      BY <2>4
    <3> QED
      BY <1>0, <3>1, <3>2
  <2> QED
    BY <2>5, <2>6, <2>7 DEF DataInv
<1> QED
  BY <1>6, <1>7

LEMMA DataStart ==
  ASSUME Init
  PROVE  DataInv
<1>1. PartnersMatch(setup) /\ \A q \in Proc : pc[q] = "decompose" /\ round[q] = 0 /\ incoming_[q] = {}
  BY InvStart DEF Inv, MessagesInv, Init, BalanceInit
<1>2. Mail = {} /\ \A q : Ran(q) = 0 /\ ~Ended(q)
  BY <1>1 DEF Init, Mail, Ran, Ended
<1>3. Known(setup)[0] = [g \in Gid |-> {g}]
  BY <1>1, KnownOfRound
<1>4. value = [g \in Gid |-> IF setup.op = "all_to_all" THEN {} ELSE {g}]
  BY DEF Init
<1>5. ASSUME NEW g \in Gid
      PROVE  value[g] = IF setup.op # "all_to_all" THEN Known(setup)[Ran(rank(g))][g]
                        ELSE IF Ended(rank(g)) THEN Gid \X {g} ELSE {}
  BY <1>2, <1>3, <1>4
<1> QED
  BY <1>2, <1>5 DEF DataInv

\* In every state each queue holds what its sender had, and each block what it has
\* heard so far, however far apart the ranks are.
THEOREM QueuesHoldWhatIsKnown == Spec => []DataInv
<1>1. Init => DataInv
  BY DataStart
<1>2. ASSUME Inv, DataInv, [Next]_vars PROVE DataInv'
  <2>1. CASE UNCHANGED vars
    <3>1. UNCHANGED <<setup, pc, rank_map_, round, value, net, incoming_>>
      BY <2>1 DEF vars, balanceVars, reduceVars
    <3> QED
      BY <1>2, <3>1, SameRanks, DataNow, DataPrimed
  <2>2. CASE Next
    <3>1. PICK p \in Proc : (BalanceNext(p) /\ UNCHANGED reduceVars) \/ ReduceStep(p)
      BY <2>2 DEF Next, Step, ReduceStep
    <3> QED
      BY <1>2, <3>1, BalanceData, ReduceData
  <2> QED
    BY <1>2, <2>1, <2>2
<1>3. Inv /\ DataInv /\ [Next]_vars => DataInv'
  BY <1>2
<1> QED
  BY <1>1, <1>3, ReduceInvariant, PTL DEF Spec

LEMMA DataReduces ==
  ASSUME Inv, DataInv
  PROVE  Reduced
<1>1. SUFFICES ASSUME \A p \in Proc : pc[p] = "done", NEW g \in Gid
               PROVE  CASE setup.op = "all_to_all" -> value[g] = Gid \X {g}
                        [] setup.op = "broadcast" -> 0 \in value[g]
                        [] setup.op = "merge" -> g \in setup.part.active[Rounds] => value[g] = Gid
                        [] OTHER -> value[g] = Gid
  BY Zenon DEF Reduced
<1>2. SetupOK /\ BalanceInv /\ Placement
  BY DEF Inv, MessagesInv
<1>3. rank(g) \in Proc
  <2>1. PICK p \in Proc : TRUE
    BY BalanceAssumption DEF Proc, Ranks
  <2>2. HasResolved(p)
    BY <1>1 DEF HasResolved, HasMoved, HasDecided
  <2> QED
    BY <1>2, <2>2, Located
<1>4. Ended(rank(g)) /\ Ran(rank(g)) = Rounds
  BY <1>1, <1>3 DEF Ran, Ended
<1>5. CASE setup.op = "all_to_all"
  <2>1. value[g] = Gid \X {g}
    BY <1>4, <1>5 DEF DataInv
  <2> QED
    BY <1>5, <2>1
<1>6. CASE setup.op # "all_to_all"
  <2>1. value[g] = Known(setup)[Rounds][g]
    <3>1. value[g] = Known(setup)[Ran(rank(g))][g]
      BY <1>6 DEF DataInv
    <3> QED
      BY <1>4, <3>1
  <2>2. /\ setup.op = "broadcast" => 0 \in Known(setup)[Rounds][g]
        /\ setup.op = "merge" => (g \in setup.part.active[Rounds] => Known(setup)[Rounds][g] = Gid)
        /\ setup.op \notin {"broadcast", "merge"} => Known(setup)[Rounds][g] = Gid
    BY <1>2, <1>6, ProgramData DEF KnowsAll, Rounds, Gid
  <2> QED
    BY <1>6, <2>1, <2>2
<1> QED
  BY <1>5, <1>6

\* When all ranks have returned, the reduction has brought to every block what it
\* promises: everything, to the blocks that a merge leaves and to all blocks of a swap
\* or an all-reduce, the value of the root in a broadcast, and in an all-to-all the
\* item of every block (reduce.hpp:46, all-to-all.hpp:52).
THEOREM ReductionsReduce == Spec => []Reduced
BY ReduceInvariant, QueuesHoldWhatIsKnown, DataReduces, PTL

\* All of it.
THEOREM ReduceCorrect == Spec => []ReduceInv
<1>1. Inv /\ DataInv /\ ReduceTypeOK => ReduceInv
  BY DEF Inv, MessagesInv, ReduceInv
<1> QED
  BY <1>1, ReduceInvariant, QueuesHoldWhatIsKnown, ReduceTypeCorrect, PTL
=============================================================================
