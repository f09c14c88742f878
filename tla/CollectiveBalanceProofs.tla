---------------------- MODULE CollectiveBalanceProofs ----------------------
(***************************************************************************)
(* Theorems about the steps of CollectiveBalance, for any number of ranks  *)
(* and any programs: the invariant BalanceInv holds in every state, and    *)
(* what follows from it.                                                   *)
(***************************************************************************)
EXTENDS CollectiveBalance, PlacementProofs, SequenceTheorems, FunctionTheorems,
        FiniteSetTheorems, WellFoundedInduction

\* What the proofs know of a program.
SetupOK ==
  /\ setup.nblocks \in Nat \ {0} /\ setup.balance \in BOOLEAN
  /\ setup.balance => setup.work \in [1..setup.nblocks -> Nat]

LEMMA SetupFacts ==
  ASSUME setup \in Setups
  PROVE  SetupOK
<1>1. PICK x \in Programs : setup = Constructed(x)
  BY DEF Setups
<1>2. setup.nblocks = x.nblocks /\ setup.balance = x.balance /\ setup.work = x.work
  BY <1>1, Zenon DEF Constructed
<1> QED
  BY <1>2, BalanceAssumption DEF SetupOK

LEMMA GidsFinite ==
  ASSUME SetupOK, NEW S, S \subseteq Gid
  PROVE  IsFiniteSet(S) /\ S \subseteq Nat
<1>1. setup.nblocks - 1 \in Int
  BY DEF SetupOK
<1>2. IsFiniteSet(0..(setup.nblocks - 1))
  BY <1>1, FS_Interval
<1>3. S \subseteq 0..(setup.nblocks - 1)
  BY DEF Gid, Gids
<1>4. IsFiniteSet(S)
  BY <1>2, <1>3, FS_Subset
<1>5. S \subseteq Nat
  BY <1>1, <1>3
<1> QED
  BY <1>4, <1>5

-----------------------------------------------------------------------------
(***************************************************************************)
(* The places of the static assigner, and the slots of the dynamic one.    *)
(***************************************************************************)
LEMMA ContiguousWithin ==
  ASSUME NEW size \in Nat \ {0}, NEW nblocks \in Nat, NEW p \in Ranks(size)
  PROVE  ContiguousGids(size, nblocks, p) \subseteq Gids(nblocks)
<1> DEFINE d == nblocks \div size
           m == nblocks % size
<1>1. d \in Nat /\ m \in Nat /\ m < size /\ nblocks = size * d + m
  <2>1. d \in Nat /\ m \in 0..(size - 1) /\ nblocks = size * d + m
    BY Zenon, NatDivision
  <2> HIDE DEF d, m
  <2> QED
    BY <2>1
<1>2. p \in Nat /\ p <= size - 1
  BY DEF Ranks
<1>3. ContiguousLow(size, nblocks, p) = p * (d + 1) /\ ContiguousLow(size, nblocks, p + 1) = (p + 1) * (d + 1)
  BY DEF ContiguousLow
<1>4. \A r : ContiguousHigh(size, nblocks, r) = m * (d + 1) + (r - m) * d
  BY Zenon DEF ContiguousHigh
<1> HIDE DEF d, m
<1>5. p * (d + 1) \in Nat /\ (p + 1) * (d + 1) \in Nat /\ m * (d + 1) \in Nat
  BY <1>1, <1>2
<1>6. p + 1 < m => (p + 1) * (d + 1) <= nblocks
  <2>1. SUFFICES ASSUME p + 1 < m PROVE (d + 1) * (p + 1) <= nblocks
    BY <1>1, <1>2
  <2>2. (d + 1) * (p + 1) <= (d + 1) * m
    BY <1>1, <1>2, <2>1, TimesMonotone
  <2>3. d * m <= d * size
    BY <1>1, TimesMonotone
  <2> QED
    BY <1>1, <1>2, <2>2, <2>3
<1>7. m <= p + 1 => m * (d + 1) + (p + 1 - m) * d <= nblocks
  <2>1. SUFFICES ASSUME m <= p + 1 PROVE m * (d + 1) + (p + 1 - m) * d <= nblocks
    OBVIOUS
  <2>2. d * (p + 1) <= d * size
    BY <1>1, <1>2, TimesMonotone
  <2> QED
    BY <1>1, <1>2, <2>2
<1>8. m <= p => (p - m) * d \in Nat
  BY <1>1, <1>2
<1>9. /\ p < m => ContiguousLow(size, nblocks, p) \in Nat
      /\ ~(p < m) => ContiguousHigh(size, nblocks, p) \in Nat
  BY <1>1, <1>2, <1>5, <1>8, <1>3, <1>4
<1>10. /\ p + 1 < m => ContiguousLow(size, nblocks, p + 1) \in Int /\ ContiguousLow(size, nblocks, p + 1) <= nblocks
       /\ ~(p + 1 < m) => ContiguousHigh(size, nblocks, p + 1) \in Int /\ ContiguousHigh(size, nblocks, p + 1) <= nblocks
  BY <1>1, <1>2, <1>5, <1>6, <1>7, <1>3, <1>4
<1> QED
  BY <1>9, <1>10 DEF ContiguousGids, Gids, m

LEMMA StaticPlaces ==
  ASSUME SetupOK
  PROVE  /\ \A p \in Proc : local_gids(p) = {g \in Gid : StaticRank(g) = p}
         /\ \A g \in Gid : \A h \in Gid : Slot(g) = Slot(h) => g = h
<1>1. NProc \in Nat \ {0} /\ setup.nblocks \in Nat
  BY BalanceAssumption DEF SetupOK
<1>2. ASSUME NEW p \in Proc PROVE local_gids(p) = {g \in Gid : StaticRank(g) = p}
  <2>1. p \in Ranks(NProc)
    BY DEF Proc
  <2>2. CASE setup.static = "contiguous"
    <3>1. ContiguousGids(NProc, setup.nblocks, p) \subseteq Gid
      BY <1>1, <2>1, ContiguousWithin DEF Gid
    <3>2. \A g \in Gid : g \in ContiguousGids(NProc, setup.nblocks, p)
                           <=> ContiguousRank(NProc, setup.nblocks, g) = p
      BY <1>1, <2>1, ContiguousInverse DEF Gid
    <3> QED
      BY <2>2, <3>1, <3>2, Zenon DEF local_gids, StaticRank
  <2>3. CASE setup.static # "contiguous"
    <3>1. RoundRobinGids(NProc, setup.nblocks, p) \subseteq Gid
      <4>1. SUFFICES ASSUME NEW i \in 0..setup.nblocks, p + i * NProc < setup.nblocks
                     PROVE  p + i * NProc \in 0..(setup.nblocks - 1)
        BY DEF RoundRobinGids, Gid, Gids
      <4>2. p \in Nat /\ i \in Nat
        BY <1>1, <2>1 DEF Ranks
      <4>3. i * NProc \in Nat
        BY <1>1, <4>2
      <4> QED
        BY <1>1, <4>1, <4>2, <4>3
    <3>2. \A g \in Gid : g \in RoundRobinGids(NProc, setup.nblocks, p) <=> RoundRobinRank(NProc, g) = p
      BY <1>1, <2>1, RoundRobinInverse DEF Gid
    <3> QED
      BY <2>3, <3>1, <3>2, Zenon DEF local_gids, StaticRank
  <2> QED
    BY <2>2, <2>3
<1>3. \A g \in Gid : \A h \in Gid : Slot(g) = Slot(h) => g = h
  BY <1>1, SlotsDistinct DEF Slot, Gid
<1> QED
  BY <1>2, <1>3

-----------------------------------------------------------------------------
(***************************************************************************)
(* The decision: the moves of decide_move_info can be carried out.         *)
(***************************************************************************)
LEMMA ProcFinite == IsFiniteSet(Proc) /\ Cardinality(Proc) = NProc /\ Proc \subseteq Nat /\ 0 \in Proc
<1>1. NProc \in Nat \ {0}
  BY BalanceAssumption
<1>2. /\ IsFiniteSet(0..(NProc - 1))
      /\ Cardinality(0..(NProc - 1)) = IF 0 > NProc - 1 THEN 0 ELSE (NProc - 1) - 0 + 1
  BY <1>1, FS_Interval
<1> QED
  BY <1>1, <1>2 DEF Proc, Ranks

LEMMA LightestLoad ==
  ASSUME NEW load \in [Proc -> Nat]
  PROVE  Lightest(load) \in Proc /\ \A q \in Proc : load[Lightest(load)] <= load[q]
<1> DEFINE S == {load[p] : p \in Proc}
           T == {p \in Proc : load[p] = Min(S)}
<1>1. S \subseteq Nat /\ S # {}
  BY ProcFinite
<1>2. Min(S) \in S /\ \A y \in S : Min(S) <= y
  BY <1>1, LeastNumber
<1>3. T \subseteq Nat /\ T # {}
  BY <1>2, ProcFinite
<1>4. Min(T) \in T /\ \A y \in T : Min(T) <= y
  BY <1>3, LeastNumber
<1>5. \A q \in Proc : load[Min(T)] < load[q] \/ (load[Min(T)] = load[q] /\ Min(T) <= q)
  <2>1. SUFFICES ASSUME NEW q \in Proc, ~(load[Min(T)] < load[q])
                 PROVE  load[Min(T)] = load[q] /\ Min(T) <= q
    OBVIOUS
  <2>2. load[Min(T)] = Min(S)
    BY <1>4
  <2>3. load[q] \in S /\ load[q] \in Nat /\ Min(S) \in Nat
    BY <1>1, <1>2
  <2>4. load[q] = Min(S)
    BY <1>2, <2>1, <2>2, <2>3
  <2> QED
    BY <1>4, <2>2, <2>4
<1> QED
  <2>1. \E p \in Proc : \A q \in Proc : load[p] < load[q] \/ (load[p] = load[q] /\ p <= q)
    BY <1>4, <1>5
  <2> DEFINE x == Lightest(load)
  <2>2. x \in Proc /\ \A q \in Proc : load[x] < load[q] \/ (load[x] = load[q] /\ x <= q)
    BY <2>1, Zenon DEF Lightest
  <2> HIDE DEF x
  <2>3. \A q \in Proc : load[q] \in Nat
    OBVIOUS
  <2>4. \A q \in Proc : load[x] <= load[q]
    BY <2>2, <2>3
  <2> QED
    BY <2>2, <2>4 DEF x

LEMMA LightestIsRank ==
  ASSUME NEW load \in [Proc -> Nat]
  PROVE  Lightest(load) \in Proc
BY LightestLoad

\* What the ranks have put into the all_gather.
Ready(infos) == \A p \in Proc : InfoOK(infos[p], p)

LEMMA SortedOrder ==
  ASSUME NEW infos, Ready(infos)
  PROVE  /\ Sorted(infos) \in [1..NProc -> Proc]
         /\ \A i, j \in 1..NProc : Sorted(infos)[i] = Sorted(infos)[j] => i = j
<1> DEFINE H(p, q) == Heavier(infos[p], infos[q])
           Before(p) == {q \in Proc : H(q, p)}
           pos == [p \in Proc |-> Cardinality(Before(p)) + 1]
<1>1. ASSUME NEW p \in Proc, NEW q \in Proc
      PROVE  H(p, q) <=> \/ infos[p].top_work > infos[q].top_work
                         \/ infos[p].top_work = infos[q].top_work /\ p < q
  BY Zenon DEF Heavier, Ready, InfoOK
<1>2. \A p \in Proc : infos[p].top_work \in Nat /\ p \in Nat
  BY ProcFinite DEF Ready, InfoOK
<1>3. \A p, q \in Proc : p # q => H(p, q) \/ H(q, p)
  BY <1>1, <1>2
<1>4. \A p \in Proc : ~H(p, p)
  BY <1>1, <1>2
<1>5. \A p, q, r \in Proc : H(p, q) /\ H(q, r) => H(p, r)
  BY <1>1, <1>2
<1> HIDE DEF H
<1>6. ASSUME NEW p \in Proc PROVE pos[p] \in 1..NProc
  <2>1. Before(p) \subseteq Proc /\ p \notin Before(p)
    BY <1>4
  <2>2. /\ IsFiniteSet(Before(p)) /\ Cardinality(Before(p)) <= Cardinality(Proc)
        /\ Cardinality(Proc) # Cardinality(Before(p))
    BY <2>1, ProcFinite, FS_Subset
  <2>3. Cardinality(Before(p)) \in Nat
    BY <2>2, FS_CardinalityType
  <2> QED
    BY <2>2, <2>3, ProcFinite, BalanceAssumption
<1>7. ASSUME NEW p \in Proc, NEW q \in Proc, H(q, p) PROVE pos[q] < pos[p]
  <2>1. Before(q) \subseteq Before(p) /\ q \in Before(p) /\ q \notin Before(q)
    BY <1>4, <1>5, <1>7
  <2>2. IsFiniteSet(Before(p))
    BY ProcFinite, FS_Subset
  <2>3. /\ IsFiniteSet(Before(q)) /\ Cardinality(Before(q)) <= Cardinality(Before(p))
        /\ Cardinality(Before(p)) # Cardinality(Before(q))
    BY <2>1, <2>2, FS_Subset
  <2>4. Cardinality(Before(p)) \in Nat /\ Cardinality(Before(q)) \in Nat
    BY <2>2, <2>3, FS_CardinalityType
  <2> QED
    BY <2>3, <2>4
<1>8. pos \in Injection(Proc, 1..NProc)
  <2>1. pos \in [Proc -> 1..NProc]
    BY <1>6
  <2>2. ASSUME NEW p \in Proc, NEW q \in Proc, p # q PROVE pos[p] # pos[q]
    <3>1. pos[p] \in Int /\ pos[q] \in Int
      BY <1>6
    <3> HIDE DEF pos
    <3> QED
      BY <1>3, <1>7, <2>2, <3>1
  <2> HIDE DEF pos
  <2> QED
    BY <2>1, <2>2 DEF Injection, IsInjective
<1> HIDE DEF pos
<1>9. pos \in Surjection(Proc, 1..NProc)
  <2>1. IsFiniteSet(1..NProc) /\ Cardinality(1..NProc) = NProc
    BY FS_Interval, BalanceAssumption
  <2> QED
    BY <1>8, <2>1, ProcFinite, FS_Injection
<1>10. \A i \in 1..NProc : \E p \in Proc : pos[p] = i
  BY <1>9 DEF Surjection
<1> DEFINE t == [i \in 1..NProc |-> CHOOSE p \in Proc : pos[p] = i]
<1>11. \A i \in 1..NProc : t[i] \in Proc /\ pos[t[i]] = i
  BY <1>10
<1>12. t \in [1..NProc -> Proc]
  BY <1>11
<1> HIDE DEF t
<1>13. \A i, j \in 1..NProc : i < j => H(t[i], t[j])
  BY <1>3, <1>7, <1>11
<1>14. \E s \in [1..NProc -> Proc] : \A i, j \in 1..NProc : i < j => H(s[i], s[j])
  BY <1>12, <1>13
<1>15. /\ Sorted(infos) \in [1..NProc -> Proc]
       /\ \A i, j \in 1..NProc : i < j => H(Sorted(infos)[i], Sorted(infos)[j])
  BY <1>14, Zenon DEF Sorted, H
<1>16. ASSUME NEW i \in 1..NProc, NEW j \in 1..NProc, Sorted(infos)[i] = Sorted(infos)[j]
       PROVE  i = j
  BY <1>4, <1>15, <1>16
<1> QED
  BY <1>15, <1>16

\* The walk over the first ranks of the order.
MoveOf == [src : Proc, dst : Proc, gid : Gid]
WalkOK(w, order, i) ==
  /\ w.load \in [Proc -> Nat] /\ w.moves \in Seq(MoveOf)
  /\ \A j \in DOMAIN w.moves : /\ StaticRank(w.moves[j].gid) = w.moves[j].src
                               /\ w.moves[j].dst # w.moves[j].src
                               /\ \E k \in 1..i : order[k] = w.moves[j].src
  /\ \A j, k \in DOMAIN w.moves : w.moves[j].src = w.moves[k].src => j = k

LEMMA WalkStep ==
  ASSUME SetupOK, NEW infos, Ready(infos), NEW order \in [1..NProc -> Proc],
         \A i, j \in 1..NProc : order[i] = order[j] => i = j,
         NEW n \in 0..(NProc - 1), NEW w, WalkOK(w, order, n)
  PROVE  WalkOK(Walk(w, infos[order[n + 1]]), order, n + 1)
<1>1. n \in Nat /\ n + 1 \in 1..NProc /\ NProc \in Nat
  BY BalanceAssumption
<1> DEFINE p == order[n + 1]
           dst == Lightest(w.load)
           move == [src |-> infos[p].proc_rank, dst |-> dst, gid |-> infos[p].top_gid]
           x == Walk(w, infos[p])
<1>2. p \in Proc /\ dst \in Proc /\ InfoOK(infos[p], p)
  BY <1>1, LightestIsRank DEF WalkOK, Ready
<1>3. ASSUME NEW j \in DOMAIN w.moves
      PROVE  /\ \E k \in 1..(n + 1) : order[k] = w.moves[j].src
             /\ w.moves[j].src # p
  <2>1. PICK k \in 1..n : order[k] = w.moves[j].src
    BY DEF WalkOK
  <2>2. k \in 1..NProc /\ k # n + 1 /\ k \in 1..(n + 1)
    BY <1>1
  <2> QED
    BY <1>1, <2>1, <2>2
<1>4. CASE ~Gives(infos[p], dst, w.load)
  <2>1. x = w
    BY <1>4 DEF Walk
  <2> HIDE DEF x
  <2> QED
    BY <1>3, <2>1 DEF WalkOK, x
<1>5. CASE Gives(infos[p], dst, w.load)
  <2>1. /\ x.load = [w.load EXCEPT ![dst] = (@ + infos[p].top_work) % WorkSize]
        /\ x.moves = Append(w.moves, move)
    BY <1>5, Zenon DEF Walk
  <2>2. /\ infos[p].nlids > 1 /\ infos[p].proc_rank # dst
        /\ infos[p].proc_rank = p /\ infos[p].top_work \in Nat /\ infos[p].top_gid \in local_gids(p)
    BY <1>2, <1>5 DEF Gives, InfoOK
  <2>3. infos[p].top_gid \in Gid /\ StaticRank(infos[p].top_gid) = p
    BY <1>2, <2>2, StaticPlaces
  <2>4. move.src = p /\ move.dst = dst /\ move.dst # move.src /\ StaticRank(move.gid) = p /\ move \in MoveOf
    BY <1>2, <2>2, <2>3 DEF MoveOf
  <2> HIDE DEF move, x
  <2>5. w.moves \in Seq(MoveOf) /\ w.load \in [Proc -> Nat]
    BY DEF WalkOK
  <2>6. x.load \in [Proc -> Nat]
    <3>1. (w.load[dst] + infos[p].top_work) % WorkSize \in Nat
      <4>1. w.load[dst] \in Nat /\ infos[p].top_work \in Nat /\ WorkSize \in Nat \ {0}
        BY <1>2, <2>2, <2>5, BalanceAssumption
      <4>2. w.load[dst] + infos[p].top_work \in Nat
        BY <4>1
      <4> QED
        BY <4>1, <4>2, NatDivision
    <3> HIDE DEF dst
    <3> QED
      BY <1>2, <2>1, <2>5, <3>1
  <2> DEFINE m == w.moves
             y == x.moves
  <2>7. /\ y \in Seq(MoveOf) /\ Len(m) \in Nat /\ DOMAIN m = 1..Len(m) /\ DOMAIN y = 1..(Len(m) + 1)
        /\ y[Len(m) + 1] = move /\ \A j \in 1..Len(m) : y[j] = m[j]
    BY <2>1, <2>4, <2>5
  <2>8. ASSUME NEW j \in DOMAIN y
        PROVE  /\ StaticRank(y[j].gid) = y[j].src /\ y[j].dst # y[j].src
               /\ \E k \in 1..(n + 1) : order[k] = y[j].src
    <3>1. CASE j = Len(m) + 1
      <4>1. y[j].src = p /\ y[j].dst # p /\ StaticRank(y[j].gid) = p
        BY <2>4, <2>7, <3>1
      <4>2. n + 1 \in 1..(n + 1) /\ order[n + 1] = p
        BY <1>1
      <4> QED
        BY <4>1, <4>2
    <3>2. CASE j # Len(m) + 1
      <4>1. j \in DOMAIN m /\ y[j] = m[j]
        BY <2>7, <3>2
      <4> QED
        BY <1>3, <4>1 DEF WalkOK
    <3> QED
      BY <3>1, <3>2
  <2>9. ASSUME NEW j \in DOMAIN y, NEW k \in DOMAIN y, y[j].src = y[k].src
        PROVE  j = k
    <3>0. \A i \in DOMAIN m : m[i].src # p
      BY <1>3
    <3>1. \A i \in DOMAIN y : i # Len(m) + 1 => i \in DOMAIN m /\ y[i] = m[i] /\ y[i].src # p
      <4> SUFFICES ASSUME NEW i \in DOMAIN y, i # Len(m) + 1 PROVE i \in DOMAIN m /\ y[i] = m[i] /\ y[i].src # p
        OBVIOUS
      <4>1. i \in DOMAIN m /\ y[i] = m[i]
        BY <2>7
      <4> QED
        BY Zenon, <3>0, <4>1
    <3>2. y[Len(m) + 1].src = p
      BY <2>4, <2>7
    <3>3. j \in DOMAIN m /\ k \in DOMAIN m => j = k
      BY <2>9, <2>7 DEF WalkOK
    <3> QED
      BY <2>9, <3>1, <3>2, <3>3
  <2>10. WalkOK(x, order, n + 1)
    BY <2>6, <2>7, <2>8, <2>9 DEF WalkOK
  <2> QED
    BY <2>10 DEF x
<1> QED
  BY <1>4, <1>5

\* The walk step by step (load-balance-collective.hpp:46).
WalkStart(infos) == [load |-> [p \in Proc |-> infos[p].proc_work], moves |-> <<>>]
IsWalk(walk, infos) ==
  /\ walk[0] = WalkStart(infos)
  /\ \A n \in 0..(NProc - 1) : walk[n + 1] = Walk(walk[n], infos[Sorted(infos)[n + 1]])
  /\ \A n \in 0..NProc : WalkOK(walk[n], Sorted(infos), n)
  /\ decide_move_info(infos) = walk[NProc].moves

LEMMA DecideWalk ==
  ASSUME SetupOK, NEW infos, Ready(infos)
  PROVE  \E walk : IsWalk(walk, infos)
<1> DEFINE order == Sorted(infos)
           base == [load |-> [p \in Proc |-> infos[p].proc_work], moves |-> <<>>]
           Body(f, i) == IF i = 0 THEN base ELSE Walk(f[i - 1], infos[order[i]])
           Exists(k) == \E f : f = [i \in 0..k |-> Body(f, i)]
           walk == CHOOSE f : f = [i \in 0..NProc |-> Body(f, i)]
<1>1. NProc \in Nat \ {0}
  BY BalanceAssumption
<1>2. order \in [1..NProc -> Proc] /\ \A i, j \in 1..NProc : order[i] = order[j] => i = j
  BY SortedOrder
<1>3. decide_move_info(infos) = walk[NProc].moves
  BY Zenon DEF decide_move_info
<1>4. WalkOK(base, order, 0)
  <2>1. base.load \in [Proc -> Nat]
    BY DEF Ready, InfoOK
  <2>2. base.moves = <<>>
    OBVIOUS
  <2> QED
    BY <2>1, <2>2 DEF WalkOK
<1> HIDE DEF order, base
<1>5. Exists(0)
  <2>1. [i \in 0..0 |-> base] = [i \in 0..0 |-> Body([j \in 0..0 |-> base], i)]
    OBVIOUS
  <2> QED
    BY <2>1
<1>6. ASSUME NEW k \in Nat, Exists(k) PROVE Exists(k + 1)
  <2>1. PICK f : f = [i \in 0..k |-> Body(f, i)]
    BY <1>6
  <2> DEFINE g == [i \in 0..(k + 1) |-> IF i = k + 1 THEN Body(f, i) ELSE f[i]]
  <2>2. \A i \in 0..(k + 1) : i # 0 => i - 1 \in 0..k /\ i - 1 # k + 1 /\ i - 1 \in 0..(k + 1)
    OBVIOUS
  <2>3. \A i \in 0..k : i \in 0..(k + 1) /\ i # k + 1
    OBVIOUS
  <2>4. \A i \in 0..k : g[i] = f[i]
    BY <2>3
  <2>5. ASSUME NEW i \in 0..(k + 1) PROVE g[i] = Body(g, i)
    <3>1. Body(g, i) = Body(f, i)
      BY <2>2, <2>4
    <3>2. CASE i = k + 1
      BY <3>1, <3>2
    <3>3. CASE i # k + 1
      <4>1. i \in 0..k
        BY <3>3
      <4>2. f[i] = Body(f, i)
        <5> HIDE DEF Body
        <5> QED
          BY <2>1, <4>1
      <4> QED
        BY <2>4, <3>1, <4>1, <4>2
    <3> QED
      BY <3>2, <3>3
  <2>6. g = [i \in 0..(k + 1) |-> g[i]]
    OBVIOUS
  <2> HIDE DEF g
  <2>7. g = [i \in 0..(k + 1) |-> Body(g, i)]
    <3> HIDE DEF Body
    <3> QED
      BY <2>5, <2>6
  <2> QED
    BY <2>7
<1>7. Exists(NProc)
  <2> DEFINE S == {k \in Nat : ~Exists(k)}
  <2> HIDE DEF Exists
  <2>1. S = {}
    <3>1. SUFFICES ASSUME S # {} PROVE FALSE
      OBVIOUS
    <3>2. Min(S) \in S /\ \A y \in S : Min(S) <= y
      BY <3>1, LeastNumber
    <3>3. Min(S) # 0
      BY <1>5, <3>2
    <3>4. Min(S) - 1 \in Nat /\ Min(S) - 1 \notin S
      BY <3>2, <3>3
    <3>5. Exists(Min(S) - 1)
      BY <3>4
    <3>6. Exists((Min(S) - 1) + 1)
      BY <1>6, <3>4, <3>5
    <3> QED
      BY <3>2, <3>6
  <2> QED
    BY <1>1, <2>1
<1>8. walk = [i \in 0..NProc |-> Body(walk, i)]
  <2> HIDE DEF Body
  <2> QED
    BY <1>7
<1> HIDE DEF walk
<1>9. walk[0] = base
  BY <1>1, <1>8
<1>10. ASSUME NEW n \in 0..(NProc - 1) PROVE walk[n + 1] = Walk(walk[n], infos[order[n + 1]])
  <2>1. n + 1 \in 0..NProc /\ n + 1 # 0 /\ (n + 1) - 1 = n
    BY <1>1
  <2>2. walk[n + 1] = Body(walk, n + 1)
    <3> HIDE DEF Body
    <3> QED
      BY <1>8, <2>1
  <2> QED
    BY <2>1, <2>2
<1>11. \A n \in 0..NProc : WalkOK(walk[n], order, n)
  <2> DEFINE S == {n \in 0..NProc : ~WalkOK(walk[n], order, n)}
  <2>1. S = {}
    <3>1. SUFFICES ASSUME S # {} PROVE FALSE
      OBVIOUS
    <3>2. Min(S) \in S /\ \A y \in S : Min(S) <= y
      BY <3>1, LeastNumber
    <3>3. Min(S) # 0
      BY <1>4, <1>9, <3>2
    <3>4. Min(S) - 1 \in 0..(NProc - 1) /\ Min(S) - 1 \notin S
      BY <1>1, <3>2, <3>3
    <3> DEFINE n == Min(S) - 1
    <3>5. n \in 0..(NProc - 1) /\ WalkOK(walk[n], order, n) /\ n + 1 = Min(S)
      BY <1>1, <3>2, <3>4
    <3> HIDE DEF n
    <3>6. WalkOK(Walk(walk[n], infos[order[n + 1]]), order, n + 1)
      BY <1>2, <3>5, WalkStep
    <3>7. WalkOK(walk[n + 1], order, n + 1)
      BY <1>10, <3>5, <3>6
    <3> QED
      BY <3>2, <3>5, <3>7
  <2> QED
    BY <1>1, <2>1
<1>12. base = WalkStart(infos)
  BY DEF base, WalkStart
<1>13. IsWalk(walk, infos)
  BY <1>3, <1>9, <1>10, <1>11, <1>12 DEF order, IsWalk
<1> QED
  BY <1>13

LEMMA DecideOK ==
  ASSUME SetupOK, NEW infos, Ready(infos)
  PROVE  MovesOK(decide_move_info(infos))
<1> DEFINE order == Sorted(infos)
<1> PICK walk : IsWalk(walk, infos)
  BY DecideWalk
<1>3. decide_move_info(infos) = walk[NProc].moves
  BY DEF IsWalk
<1>11. WalkOK(walk[NProc], order, NProc)
  BY BalanceAssumption DEF IsWalk
<1> DEFINE m == walk[NProc].moves
<1>12. /\ m \in Seq(MoveOf)
       /\ \A j \in DOMAIN m : StaticRank(m[j].gid) = m[j].src /\ m[j].dst # m[j].src
       /\ \A j, k \in DOMAIN m : m[j].src = m[k].src => j = k
  BY <1>11 DEF WalkOK
<1> HIDE DEF m
<1>13. \A j, k \in DOMAIN m : m[j].gid = m[k].gid => j = k
  BY <1>12
<1>14. MovesOK(m)
  BY <1>12, <1>13 DEF MovesOK, MoveOf
<1> QED
  BY <1>3, <1>14 DEF m

-----------------------------------------------------------------------------
(***************************************************************************)
(* The steps.                                                              *)
(***************************************************************************)
LEMMA SameSetup ==
  ASSUME setup' = setup
  PROVE  /\ Gid' = Gid
         /\ \A g : StaticRank(g)' = StaticRank(g) /\ Slot(g)' = Slot(g) /\ placed(g)' = placed(g)
         /\ \A p : local_gids(p)' = local_gids(p)
         /\ \A p, m, k : Kept(p, m, k)' = Kept(p, m, k)
         /\ \A m : MovesOK(m)' <=> MovesOK(m)
         /\ \A x, p : InfoOK(x, p)' <=> InfoOK(x, p)
         /\ \A S : Total(S)' = Total(S)
<1>1. Gid' = Gid /\ (\A g : StaticRank(g)' = StaticRank(g) /\ Slot(g)' = Slot(g)) /\ \A p : local_gids(p)' = local_gids(p)
  BY DEF Gid, StaticRank, Slot, local_gids
<1>2. \A g : placed(g)' = placed(g)
  BY <1>1 DEF placed
<1>3. \A p, m, k : Kept(p, m, k)' = Kept(p, m, k)
  BY <1>1 DEF Kept
<1>4. \A m : MovesOK(m)' <=> MovesOK(m)
  BY <1>1 DEF MovesOK
<1>5. \A S : Total(S)' = Total(S)
  BY DEF Total
<1>6. \A x, p : InfoOK(x, p)' <=> InfoOK(x, p)
  <2>1. \A p : Total(local_gids(p))' = Total(local_gids(p))
    BY Zenon, <1>1 DEF Total
  <2> QED
    BY Zenon, <1>1, <2>1 DEF InfoOK
<1> QED
  BY <1>1, <1>2, <1>3, <1>4, <1>5, <1>6

LEMMA SameMoves ==
  ASSUME all_work_info' = all_work_info
  PROVE  Moves' = Moves /\ Gathered' = Gathered
BY DEF Moves, Gathered

LEMMA MovingStages ==
  ASSUME SetupOK, BalanceInv, NEW p \in Proc, Moving(p),
         next_move' = [next_move EXCEPT ![p] = @ + 1],
         UNCHANGED <<setup, pc, link, rank_map_, all_work_info, all_move_info>>,
         DOMAIN blocks' = Proc, DOMAIN expected_' = Proc
  PROVE  /\ Domains' /\ StagesInv'
         /\ pc[p] = "move" /\ next_move[p] \in DOMAIN Moves /\ Move(p) = Moves[next_move[p]]
         /\ next_move[p] \in Nat /\ next_move'[p] = next_move[p] + 1
         /\ \A q \in Proc \ {p} : next_move'[q] = next_move[q]
         /\ \A q \in Proc : next_move[q] \in Nat
<1> DEFINE i == next_move[p]
<1>1. setup' = setup /\ Moves' = Moves /\ (Gathered' <=> Gathered)
  BY SameMoves
<1>2. /\ MovesOK(Moves) /\ \A q \in Proc : Stage(q)
      /\ DOMAIN Moves = 1..Len(Moves) /\ Len(Moves) \in Nat
  BY DEF BalanceInv, StagesInv, MovesOK
<1>3. pc[p] = "move" /\ all_move_info[p] = Moves /\ i \in DOMAIN Moves /\ Move(p) = Moves[i]
  BY <1>2 DEF Moving, Stage, HasDecided, Move
<1>4. ASSUME NEW q \in Proc PROVE Len(all_move_info[q]) \in Nat /\ next_move[q] \in Nat
  <2>1. Stage(q)
    BY <1>2
  <2>2. all_move_info[q] = Moves \/ all_move_info[q] = <<>>
    BY <2>1 DEF Stage
  <2> QED
    BY <1>2, <2>1, <2>2 DEF Stage
<1>5. /\ i \in Nat /\ next_move'[p] = i + 1
      /\ \A q \in Proc \ {p} : next_move'[q] = next_move[q]
      /\ DOMAIN next_move' = Proc
  BY <1>4 DEF BalanceInv, Domains
<1>6. Domains'
  BY <1>5, SameSetup DEF BalanceInv, Domains
<1>7. \A q : (HasDecided(q)' <=> HasDecided(q)) /\ (HasMoved(q)' <=> HasMoved(q)) /\ (HasResolved(q)' <=> HasResolved(q))
  BY DEF HasDecided, HasMoved, HasResolved
<1>8. ASSUME NEW q \in Proc PROVE Stage(q)'
  <2>1. Stage(q)
    BY <1>2
  <2>2. next_move'[q] \in 1..(Len(all_move_info'[q]) + 1)
    <3>1. CASE q = p
      BY <1>2, <1>3, <1>5, <3>1
    <3>2. CASE q # p
      BY <1>5, <2>1, <3>2 DEF Stage
    <3> QED
      BY <3>1, <3>2
  <2>3. HasMoved(q) => next_move'[q] = Len(Moves) + 1
    BY <1>3, <1>5, <2>1 DEF Stage, HasMoved
  <2>4. all_work_info[q] # <<>> => InfoOK(all_work_info[q], q)'
    BY <2>1, SameSetup DEF Stage, InfoOK
  <2> QED
    BY <1>1, <1>7, <2>1, <2>2, <2>3, <2>4 DEF Stage
<1>9. MovesOK(Moves)'
  BY <1>1, <1>2, SameSetup DEF MovesOK
<1> QED
  BY <1>3, <1>4, <1>5, <1>6, <1>8, <1>9 DEF StagesInv

LEMMA MovesFacts ==
  ASSUME NEW M, MovesOK(M)
  PROVE  /\ DOMAIN M = 1..Len(M) /\ Len(M) \in Nat
         /\ \A j \in DOMAIN M : /\ M[j].src \in Proc /\ M[j].dst \in Proc /\ M[j].gid \in Gid
                                /\ StaticRank(M[j].gid) = M[j].src /\ M[j].dst # M[j].src
         /\ \A j, l \in DOMAIN M : M[j].gid = M[l].gid => j = l
<1>1. M \in Seq(MoveOf)
  BY DEF MovesOK, MoveOf
<1>2. DOMAIN M = 1..Len(M) /\ Len(M) \in Nat /\ \A j \in DOMAIN M : M[j] \in MoveOf
  BY <1>1
<1> QED
  BY <1>2 DEF MovesOK, MoveOf

\* What is on its way, with the next moves "c" of the ranks.
Carried(M, c) ==
  {<<M[l].gid, M[l].dst>> : l \in {j \in DOMAIN M : c[M[j].dst] <= j /\ j < c[M[j].src]}}

LEMMA PlacesPrimed ==
  ASSUME setup' = setup, NEW M, M = Moves', NEW k, k = next_move',
         \A q \in Proc : blocks'[q] = IF pc'[q] = "decompose" THEN {} ELSE Kept(q, M, k[q]),
         moving' = Carried(M, k),
         \A j \in DOMAIN M : j < k[M[j].dst] => j < k[M[j].src],
         \A q \in Proc : setup.balance /\ HasMoved(q)' => \A g \in blocks'[q] : rank_map_'[Slot(g)] = q
  PROVE  PlacesInv'
<1>1. \A q : Kept(q, Moves, next_move[q])' = Kept(q, M, k[q])
  BY SameSetup DEF Kept
<1>2. OnWay(Moves)' = Carried(M, k)
  BY DEF OnWay, Carried
<1> QED
  BY <1>1, <1>2, SameSetup DEF PlacesInv

LEMMA MoveStep ==
  ASSUME SetupOK, BalanceInv, NEW p \in Proc, SendBlock(p) \/ RecvBlock(p) \/ SkipMove(p)
  PROVE  BalanceInv'
<1> DEFINE i == next_move[p]
           g == Move(p).gid
<1>1. /\ Moving(p) /\ next_move' = [next_move EXCEPT ![p] = @ + 1]
      /\ UNCHANGED <<setup, pc, link, rank_map_, all_work_info, all_move_info>>
      /\ DOMAIN blocks' = Proc /\ DOMAIN expected_' = Proc
  BY DEF SendBlock, RecvBlock, SkipMove, BalanceInv, Domains
<1>2. /\ Domains' /\ StagesInv' /\ Moves' = Moves
      /\ pc[p] = "move" /\ i \in DOMAIN Moves /\ Move(p) = Moves[i] /\ i \in Nat /\ next_move'[p] = i + 1
      /\ \A q \in Proc \ {p} : next_move'[q] = next_move[q]
      /\ \A q \in Proc : next_move[q] \in Nat
  BY <1>1, MovingStages, SameMoves
<1> PICK M : M = Moves
  OBVIOUS
<1> PICK n : n = next_move
  OBVIOUS
<1> PICK k : k = next_move'
  OBVIOUS
<1>3. /\ DOMAIN M = 1..Len(M) /\ Len(M) \in Nat /\ i \in DOMAIN M /\ Move(p) = M[i]
      /\ \A j \in DOMAIN M : /\ M[j].src \in Proc /\ M[j].dst \in Proc /\ M[j].gid \in Gid
                             /\ StaticRank(M[j].gid) = M[j].src /\ M[j].dst # M[j].src
      /\ \A j, l \in DOMAIN M : M[j].gid = M[l].gid => j = l
  <2>1. MovesOK(M)
    BY DEF BalanceInv, StagesInv
  <2> QED
    BY <1>2, <2>1, MovesFacts
<1>4. /\ \A q \in Proc : blocks[q] = IF pc[q] = "decompose" THEN {} ELSE Kept(q, M, n[q])
      /\ moving = Carried(M, n)
      /\ \A j \in DOMAIN M : j < n[M[j].dst] => j < n[M[j].src]
      /\ \A q \in Proc : setup.balance /\ HasMoved(q) => \A h \in blocks[q] : rank_map_[Slot(h)] = q
  BY DEF BalanceInv, PlacesInv, OnWay, Carried
<1>5. \/ M[i].src = p /\ blocks' = [blocks EXCEPT ![p] = @ \ {g}] /\ moving' = moving \cup {<<g, M[i].dst>>}
      \/ /\ M[i].dst = p /\ blocks' = [blocks EXCEPT ![p] = @ \cup {g}] /\ moving' = moving \ {<<g, p>>}
         /\ <<g, p>> \in moving
      \/ M[i].src # p /\ M[i].dst # p /\ blocks' = blocks /\ moving' = moving
  BY <1>3 DEF SendBlock, RecvBlock, SkipMove
<1>6. M[i].dst = p => i < n[M[i].src]
  <2>1. SUFFICES ASSUME M[i].dst = p PROVE i < n[M[i].src]
    OBVIOUS
  <2>2. <<M[i].gid, p>> \in Carried(M, n)
    BY <1>3, <1>4, <1>5, <2>1
  <2> QED
    BY <1>3, <2>2 DEF Carried
<1>7. M[i].src = p => n[M[i].dst] <= i
  BY <1>2, <1>3, <1>4
<1>8. ASSUME NEW q \in Proc PROVE blocks'[q] = IF pc'[q] = "decompose" THEN {} ELSE Kept(q, M, k[q])
  <2>1. DOMAIN blocks = Proc
    BY DEF BalanceInv, Domains
  <2>2. CASE q = p /\ M[i].src = p
    <3>1. Kept(p, M, k[p]) = Kept(p, M, n[p]) \ {M[i].gid}
      BY <1>2, <1>3, <2>2 DEF Kept
    <3>2. blocks'[p] = blocks[p] \ {M[i].gid}
      BY <1>3, <1>5, <2>1, <2>2
    <3> QED
      BY <1>1, <1>2, <1>4, <2>2, <3>1, <3>2
  <2>3. CASE q = p /\ M[i].dst = p
    <3>1. Kept(p, M, k[p]) = Kept(p, M, n[p]) \cup {M[i].gid}
      BY <1>2, <1>3, <2>3 DEF Kept
    <3>2. blocks'[p] = blocks[p] \cup {M[i].gid}
      BY <1>3, <1>5, <2>1, <2>3
    <3> QED
      BY <1>1, <1>2, <1>4, <2>3, <3>1, <3>2
  <2>4. CASE q = p /\ M[i].src # p /\ M[i].dst # p
    <3>1. Kept(p, M, k[p]) = Kept(p, M, n[p])
      BY <1>2, <1>3, <2>4 DEF Kept
    <3> QED
      BY <1>1, <1>2, <1>4, <1>5, <2>4, <3>1
  <2>5. CASE q # p
    BY <1>1, <1>2, <1>4, <1>5, <2>1, <2>5
  <2> QED
    BY <2>2, <2>3, <2>4, <2>5
<1>9. moving' = Carried(M, k)
  <2>1. CASE M[i].src = p
    <3>1. ASSUME NEW j \in DOMAIN M
          PROVE  k[M[j].dst] <= j /\ j < k[M[j].src] <=> j = i \/ (n[M[j].dst] <= j /\ j < n[M[j].src])
      <4> DEFINE s == M[j].src
                 d == M[j].dst
      <4>1. /\ j \in Nat /\ i \in Nat /\ s # d /\ n[s] \in Nat /\ n[d] \in Nat
            /\ n[p] = i /\ k[p] = i + 1 /\ (s # p => k[s] = n[s]) /\ (d # p => k[d] = n[d])
        BY <1>2, <1>3
      <4>2. (j = i => s = p /\ n[d] <= i) /\ (j < n[d] => j < n[s])
        BY <1>4, <1>7, <2>1
      <4> HIDE DEF s, d
      <4>3. k[d] <= j /\ j < k[s] <=> j = i \/ (n[d] <= j /\ j < n[s])
        BY <4>1, <4>2
      <4> QED
        BY <4>3 DEF s, d
    <3>2. Carried(M, k) = Carried(M, n) \cup {<<M[i].gid, M[i].dst>>}
      BY <1>3, <3>1 DEF Carried
    <3> QED
      BY <1>3, <1>4, <1>5, <2>1, <3>2
  <2>2. CASE M[i].dst = p
    <3>1. \A j \in DOMAIN M : k[M[j].dst] <= j /\ j < k[M[j].src] <=> j # i /\ (n[M[j].dst] <= j /\ j < n[M[j].src])
      BY <1>2, <1>3, <1>4, <1>6, <2>2
    <3>2. Carried(M, k) = Carried(M, n) \ {<<M[i].gid, p>>}
      BY <1>3, <2>2, <3>1 DEF Carried
    <3> QED
      BY <1>3, <1>4, <1>5, <2>2, <3>2
  <2>3. CASE M[i].src # p /\ M[i].dst # p
    <3>1. \A j \in DOMAIN M : k[M[j].dst] <= j /\ j < k[M[j].src] <=> n[M[j].dst] <= j /\ j < n[M[j].src]
      BY <1>2, <1>3, <1>4, <2>3
    <3>2. Carried(M, k) = Carried(M, n)
      BY <3>1 DEF Carried
    <3> QED
      BY <1>4, <1>5, <2>3, <3>2
  <2> QED
    BY <2>1, <2>2, <2>3
<1>10. \A j \in DOMAIN M : j < k[M[j].dst] => j < k[M[j].src]
  BY <1>2, <1>3, <1>4, <1>6
<1>11. \A q \in Proc : setup.balance /\ HasMoved(q)' => \A h \in blocks'[q] : rank_map_'[Slot(h)] = q
  <2>1. \A q : HasMoved(q)' <=> HasMoved(q)
    BY <1>1 DEF HasMoved, HasDecided
  <2>2. \A q \in Proc : HasMoved(q) => blocks'[q] = blocks[q]
    BY <1>2, <1>5 DEF BalanceInv, Domains, HasMoved
  <2> QED
    BY <1>1, <1>4, <2>1, <2>2
<1>12. PlacesInv'
  <2>1. setup' = setup /\ M = Moves'
    BY <1>1, <1>2
  <2> QED
    BY <1>8, <1>9, <1>10, <1>11, <2>1, PlacesPrimed
<1>13. LinksInv'
  <2>1. \A q : HasResolved(q)' <=> HasResolved(q)
    BY <1>1 DEF HasResolved, HasMoved, HasDecided
  <2>2. \A h : linked(h)' = linked(h) /\ placed(h)' = placed(h)
    BY <1>1, SameSetup DEF linked, rank, Slot, StaticRank
  <2>3. /\ \A q \in Proc : \A h \in blocks[q] : link[h] = IF HasResolved(q) THEN linked(h) ELSE placed(h)
        /\ \A m \in moving : link[m[1]] = placed(m[1])
    BY DEF BalanceInv, LinksInv
  <2>4. ~HasResolved(p)
    BY <1>2 DEF HasResolved, HasMoved
  <2>5. M[i].src = p => g \in blocks[p]
    <3>1. SUFFICES ASSUME M[i].src = p PROVE M[i].gid \in Kept(p, M, n[p])
      BY <1>2, <1>3, <1>4
    <3> QED
      BY <1>2, <1>3, <3>1 DEF Kept
  <2>6. \A q \in Proc : \A h \in blocks'[q] : h \in blocks[q] \/ (q = p /\ <<h, p>> \in moving)
    BY <1>5 DEF BalanceInv, Domains
  <2>7. \A m \in moving' : m \in moving \/ m[1] \in blocks[p]
    BY <1>5, <2>5
  <2> QED
    BY <1>1, <2>1, <2>2, <2>3, <2>4, <2>6, <2>7 DEF LinksInv
<1> QED
  BY <1>2, <1>12, <1>13 DEF BalanceInv

\* The invariant, with constants for the moves and the next ones.
LEMMA InvFacts ==
  ASSUME SetupOK, BalanceInv, NEW M, M = Moves, NEW n, n = next_move
  PROVE  /\ DOMAIN M = 1..Len(M) /\ Len(M) \in Nat
         /\ \A j \in DOMAIN M : /\ M[j].src \in Proc /\ M[j].dst \in Proc /\ M[j].gid \in Gid
                                /\ StaticRank(M[j].gid) = M[j].src /\ M[j].dst # M[j].src
         /\ \A j, l \in DOMAIN M : M[j].gid = M[l].gid => j = l
         /\ \A q \in Proc : blocks[q] = IF pc[q] = "decompose" THEN {} ELSE Kept(q, M, n[q])
         /\ moving = Carried(M, n)
         /\ \A j \in DOMAIN M : j < n[M[j].dst] => j < n[M[j].src]
         /\ \A q \in Proc : n[q] \in Nat
<1>1. MovesOK(M) /\ \A q \in Proc : Stage(q)
  BY DEF BalanceInv, StagesInv
<1>2. /\ \A q \in Proc : blocks[q] = IF pc[q] = "decompose" THEN {} ELSE Kept(q, M, n[q])
      /\ moving = Carried(M, n)
      /\ \A j \in DOMAIN M : j < n[M[j].dst] => j < n[M[j].src]
  BY DEF BalanceInv, PlacesInv, OnWay, Carried
<1>3. Len(M) \in Nat
  BY <1>1, MovesFacts
<1>4. ASSUME NEW q \in Proc PROVE n[q] \in Nat
  <2>1. n[q] \in 1..(Len(all_move_info[q]) + 1) /\ (all_move_info[q] = M \/ all_move_info[q] = <<>>)
    BY <1>1 DEF Stage
  <2> QED
    BY <1>3, <2>1
<1> QED
  BY <1>1, <1>2, <1>4, MovesFacts

\* A block is on one rank.
LEMMA Disjoint ==
  ASSUME SetupOK, BalanceInv, NEW p \in Proc, NEW q \in Proc, NEW g \in blocks[p], g \in blocks[q]
  PROVE  p = q /\ g \in Gid
<1> PICK M : M = Moves
  OBVIOUS
<1> PICK n : n = next_move
  OBVIOUS
<1>1. /\ \A j \in DOMAIN M : /\ j \in Nat /\ M[j].src \in Proc /\ M[j].dst \in Proc /\ M[j].gid \in Gid
                             /\ StaticRank(M[j].gid) = M[j].src /\ M[j].dst # M[j].src
      /\ \A j, l \in DOMAIN M : M[j].gid = M[l].gid => j = l
      /\ \A j \in DOMAIN M : j < n[M[j].dst] => j < n[M[j].src]
      /\ n[p] \in Nat /\ n[q] \in Nat
  BY InvFacts
<1>2. g \in Kept(p, M, n[p]) /\ g \in Kept(q, M, n[q])
  BY InvFacts
<1> QED
  BY <1>1, <1>2 DEF Kept

LEMMA DecomposeStep ==
  ASSUME SetupOK, BalanceInv, NEW p \in Proc, Decompose(p)
  PROVE  BalanceInv'
<1>1. \A q \in Proc : Stage(q)
  BY DEF BalanceInv, StagesInv
<1>2. pc[p] = "decompose" /\ all_work_info[p] = <<>> /\ ~Gathered /\ Moves = <<>>
  <2>1. pc[p] = "decompose"
    BY DEF Decompose
  <2>2. all_work_info[p] = <<>>
    BY <1>1, <2>1 DEF Stage, SetupOK
  <2> QED
    BY <2>1, <2>2 DEF Moves, Gathered
<1>3. /\ UNCHANGED <<setup, rank_map_, all_work_info, all_move_info, next_move, moving>>
      /\ Moves' = Moves /\ ~Gathered'
  BY <1>2, SameMoves DEF Decompose
<1>4. \A q \in Proc : all_move_info[q] = <<>> /\ next_move[q] = 1
  <2>1. \A q \in Proc : all_move_info[q] = <<>>
    BY <1>1, <1>2 DEF Stage
  <2> QED
    BY <1>1, <2>1 DEF Stage
<1>5. /\ \A q \in Proc \ {p} : pc'[q] = pc[q] /\ blocks'[q] = blocks[q]
      /\ pc'[p] = IF setup.balance THEN "gather" ELSE "foreach"
      /\ blocks'[p] = local_gids(p)
      /\ \A g \in Gid : link'[g] = IF g \in local_gids(p) THEN placed(g) ELSE link[g]
  BY DEF Decompose, BalanceInv, Domains
<1>6. Domains'
  BY <1>3, SameSetup DEF Decompose, BalanceInv, Domains
<1>7. ASSUME NEW q \in Proc PROVE Stage(q)'
  <2>1. Stage(q)
    BY <1>1
  <2>2. CASE q # p
    <3>1. /\ HasDecided(q)' <=> HasDecided(q)
          /\ HasMoved(q)' <=> HasMoved(q)
          /\ HasResolved(q)' <=> HasResolved(q)
      BY <1>5, <2>2 DEF HasDecided, HasMoved, HasResolved
    <3>2. ~(setup.balance /\ HasResolved(q))
      <4>1. ~HasMoved(p)
        BY <1>2 DEF HasMoved, HasDecided
      <4> QED
        BY <2>1, <4>1 DEF Stage
    <3>3. all_work_info[q] # <<>> => InfoOK(all_work_info[q], q)'
      BY <1>3, <2>1, SameSetup DEF Stage, InfoOK
    <3> QED
      BY <1>2, <1>3, <1>5, <2>1, <2>2, <3>1, <3>2, <3>3 DEF Stage
  <2>3. CASE q = p
    <3>1. /\ setup.balance => ~HasDecided(p)' /\ ~HasMoved(p)' /\ ~HasResolved(p)'
          /\ ~setup.balance => HasDecided(p)'
      BY <1>5 DEF HasDecided, HasMoved, HasResolved
    <3>2. all_move_info'[p] = <<>> /\ next_move'[p] = 1 /\ all_work_info'[p] = <<>> /\ Moves' = <<>>
      BY <1>2, <1>3, <1>4
    <3>3. Len(<<>>) = 0
      OBVIOUS
    <3> QED
      BY <1>3, <1>5, <2>3, <3>1, <3>2, <3>3 DEF Stage
  <2> QED
    BY <2>2, <2>3
<1>8. MovesOK(Moves)'
  BY <1>2, <1>3 DEF MovesOK
<1> PICK M : M = Moves
  OBVIOUS
<1> PICK n : n = next_move
  OBVIOUS
<1>9. ASSUME NEW q \in Proc PROVE Kept(q, M, n[q]) = local_gids(q)
  BY <1>2, <1>4, StaticPlaces DEF Kept
<1>10. ASSUME NEW q \in Proc PROVE blocks'[q] = IF pc'[q] = "decompose" THEN {} ELSE Kept(q, M, n[q])
  <2>1. CASE q = p
    BY <1>5, <1>9, <2>1
  <2>2. CASE q # p
    BY <1>5, <2>2, InvFacts
  <2> QED
    BY <2>1, <2>2
<1>11. moving = {} /\ moving = Carried(M, n)
  BY <1>2, InvFacts DEF Carried
<1>12. ASSUME NEW q \in Proc, setup.balance, HasMoved(q)' PROVE FALSE
  BY <1>3, <1>7, <1>12 DEF Stage, HasMoved
<1>13. PlacesInv'
  <2>1. setup' = setup /\ M = Moves' /\ n = next_move' /\ moving' = Carried(M, n) /\ DOMAIN M = {}
    BY <1>2, <1>3, <1>11
  <2> QED
    BY <1>10, <1>12, <2>1, PlacesPrimed
<1>14. LinksInv'
  <2>1. ASSUME NEW q \in Proc, NEW g \in blocks'[q]
        PROVE  link'[g] = IF HasResolved(q)' THEN linked(g)' ELSE placed(g)'
    <3>1. linked(g)' = linked(g) /\ placed(g)' = placed(g)
      BY <1>3, SameSetup DEF linked, rank
    <3>2. g \in local_gids(q) /\ g \in Gid /\ StaticRank(g) = q
      <4>1. g \in Kept(q, M, n[q])
        BY <1>10
      <4> QED
        BY <1>9, <4>1, StaticPlaces
    <3>3. CASE q = p
      <4>1. link'[g] = placed(g)
        BY <1>5, <3>2, <3>3
      <4>2. CASE setup.balance
        BY <1>5, <3>1, <3>3, <4>1, <4>2 DEF HasResolved, HasMoved, HasDecided
      <4>3. CASE ~setup.balance
        <5>1. \A h : rank(h) = StaticRank(h)
          BY <4>3 DEF rank
        <5>2. linked(g) = placed(g)
          BY <5>1 DEF linked, placed
        <5> QED
          BY <3>1, <4>1, <5>2
      <4> QED
        BY <4>2, <4>3
    <3>4. CASE q # p
      <4>1. g \notin local_gids(p) /\ g \in blocks[q]
        BY <1>5, <3>2, <3>4, StaticPlaces
      <4>2. link'[g] = link[g]
        BY <1>5, <3>2, <4>1
      <4>3. HasResolved(q)' <=> HasResolved(q)
        BY <1>5, <3>4 DEF HasResolved, HasMoved, HasDecided
      <4> QED
        BY <3>1, <4>1, <4>2, <4>3 DEF BalanceInv, LinksInv
    <3> QED
      BY <3>3, <3>4
  <2>2. moving' = {}
    BY <1>3, <1>11
  <2> QED
    BY <2>1, <2>2 DEF LinksInv
<1> QED
  BY <1>6, <1>7, <1>8, <1>13, <1>14 DEF BalanceInv, StagesInv

\* The work of blocks: a number, more for more blocks, and no more than the blocks'
\* own (algorithms.hpp:216).
Cells(S) == UNION {{g} \X (1..setup.work[g + 1]) : g \in S}

LEMMA WorkOfBlock ==
  ASSUME SetupOK, setup.balance, NEW g \in Gid
  PROVE  /\ setup.work[g + 1] \in Nat
         /\ IsFiniteSet({g} \X (1..setup.work[g + 1]))
         /\ Cardinality({g} \X (1..setup.work[g + 1])) = setup.work[g + 1]
<1> DEFINE x == setup.work[g + 1]
<1>1. x \in Nat
  <2>1. g + 1 \in 1..setup.nblocks
    BY DEF SetupOK, Gid, Gids
  <2> QED
    BY <2>1 DEF SetupOK
<1> HIDE DEF x
<1>2. IsFiniteSet(1..x) /\ Cardinality(1..x) = IF 1 > x THEN 0 ELSE x - 1 + 1
  BY <1>1, FS_Interval
<1>3. Cardinality(1..x) = x
  BY <1>1, <1>2
<1>4. IsFiniteSet({g}) /\ Cardinality({g}) = 1
  BY FS_Singleton
<1>5. IsFiniteSet({g} \X (1..x)) /\ Cardinality({g} \X (1..x)) = Cardinality({g}) * Cardinality(1..x)
  BY Zenon, <1>2, <1>4, FS_Product
<1>6. Cardinality({g} \X (1..x)) = x
  BY <1>1, <1>3, <1>4, <1>5
<1> QED
  BY <1>1, <1>5, <1>6 DEF x

LEMMA TotalFacts ==
  ASSUME SetupOK, setup.balance, NEW S, S \subseteq Gid
  PROVE  IsFiniteSet(Cells(S)) /\ Total(S) \in Nat /\ Total(S) = Cardinality(Cells(S))
<1> DEFINE f == [g \in S |-> {g} \X (1..setup.work[g + 1])]
<1>1. IsFiniteSet({f[g] : g \in S})
  <2>1. f \in Surjection(S, {f[g] : g \in S})
    BY DEF Surjection
  <2> HIDE DEF f
  <2> QED
    BY <2>1, GidsFinite, FS_Surjection
<1>2. \A T \in {f[g] : g \in S} : IsFiniteSet(T)
  BY WorkOfBlock
<1>3. UNION {f[g] : g \in S} = Cells(S)
  BY DEF Cells
<1> HIDE DEF f
<1>4. IsFiniteSet(Cells(S))
  BY <1>1, <1>2, <1>3, FS_UNION
<1>5. Total(S) = Cardinality(Cells(S))
  BY Zenon DEF Total, Cells
<1> QED
  BY <1>4, <1>5, FS_CardinalityType

LEMMA TotalGrows ==
  ASSUME SetupOK, setup.balance, NEW S, NEW T, S \subseteq T, T \subseteq Gid
  PROVE  Total(S) <= Total(T)
<1>1. Cells(S) \subseteq Cells(T)
  BY DEF Cells
<1>2. /\ IsFiniteSet(Cells(T)) /\ Total(T) = Cardinality(Cells(T)) /\ Total(T) \in Nat
      /\ Total(S) = Cardinality(Cells(S)) /\ Total(S) \in Nat
  BY TotalFacts
<1>3. Cardinality(Cells(S)) <= Cardinality(Cells(T))
  BY <1>1, <1>2, FS_Subset
<1> QED
  BY <1>2, <1>3

LEMMA TotalOfOneMore ==
  ASSUME SetupOK, setup.balance, NEW T, T \subseteq Gid, NEW g \in Gid
  PROVE  Total(T \cup {g}) <= Total(T) + setup.work[g + 1]
<1> DEFINE C == Cells(T)
           D == {g} \X (1..setup.work[g + 1])
           U == T \cup {g}
<1>1. IsFiniteSet(C) /\ Total(T) = Cardinality(C) /\ Total(T) \in Nat
  BY TotalFacts
<1>2. IsFiniteSet(D) /\ Cardinality(D) = setup.work[g + 1] /\ setup.work[g + 1] \in Nat
  BY WorkOfBlock
<1>3. Cells(U) = C \cup D
  BY DEF Cells
<1>4. U \subseteq Gid
  OBVIOUS
<1> HIDE DEF C, D, U
<1>5. Total(U) = Cardinality(Cells(U))
  BY <1>4, TotalFacts
<1>6. /\ Cardinality(C \cup D) = Cardinality(C) + Cardinality(D) - Cardinality(C \cap D)
      /\ Cardinality(C \cap D) \in Nat
  <2>1. IsFiniteSet(C \cap D)
    BY <1>1, FS_Subset
  <2> QED
    BY <1>1, <1>2, <2>1, FS_Union, FS_CardinalityType
<1>7. Total(U) <= Total(T) + setup.work[g + 1]
  BY <1>1, <1>2, <1>3, <1>5, <1>6
<1> QED
  BY <1>7 DEF U

\* A rank that has blocks has one with the most work.
Tops(B, w) == {g \in B : \A h \in B : w[h] <= w[g]}
LEMMA TopBlock ==
  ASSUME NEW B, IsFiniteSet(B), B \subseteq Nat, B # {}, NEW w, \A g \in B : w[g] \in Nat
  PROVE  Min(Tops(B, w)) \in Tops(B, w)
<1> DEFINE above(g) == {h \in B : w[h] > w[g]}
           K == {Cardinality(above(g)) : g \in B}
           tops == Tops(B, w)
<1>1. ASSUME NEW g \in B PROVE IsFiniteSet(above(g)) /\ Cardinality(above(g)) \in Nat
  BY FS_Subset, FS_CardinalityType
<1>2. K \subseteq Nat /\ K # {}
  BY <1>1
<1>3. Min(K) \in K /\ \A y \in K : Min(K) <= y
  BY <1>2, LeastNumber
<1>4. PICK g \in B : Min(K) = Cardinality(above(g))
  BY <1>3
<1>5. ASSUME NEW h \in B, w[h] > w[g] PROVE FALSE
  <2>1. above(h) \subseteq above(g) /\ h \in above(g) /\ h \notin above(h)
    <3>1. w[g] \in Int /\ w[h] \in Int /\ w[h] > w[g] /\ \A x \in B : w[x] \in Int
      BY <1>5
    <3>2. \A x \in B : w[x] > w[h] => w[x] > w[g]
      BY <3>1
    <3>3. ~(w[h] > w[h])
      BY <3>1
    <3> QED
      BY <1>5, <3>2, <3>3
  <2>2. /\ Cardinality(above(h)) <= Cardinality(above(g))
        /\ Cardinality(above(g)) # Cardinality(above(h))
    BY <1>1, <2>1, FS_Subset
  <2>3. Cardinality(above(g)) <= Cardinality(above(h))
    BY <1>3, <1>4
  <2> QED
    BY <1>1, <2>2, <2>3
<1>6. g \in tops
  BY <1>5 DEF Tops
<1>7. tops \subseteq Nat /\ tops # {}
  BY <1>6 DEF Tops
<1> HIDE DEF tops
<1>8. Min(tops) \in tops
  BY <1>7, LeastNumber
<1> QED
  BY <1>8 DEF tops

LEMMA MyInfo ==
  ASSUME SetupOK, setup.balance, NEW p \in Proc, blocks[p] = local_gids(p)
  PROVE  InfoOK(my_work_info(p), p) /\ my_work_info(p) # <<>>
<1> DEFINE B == blocks[p]
           w == [g \in Gid |-> setup.work[g + 1]]
           tops == Tops(B, w)
<1>1. B \subseteq Gid /\ IsFiniteSet(B) /\ B \subseteq Nat
  <2>1. B \subseteq Gid
    BY StaticPlaces
  <2> QED
    BY <2>1, GidsFinite
<1>2. \A g \in Gid : setup.work[g + 1] \in Nat
  <2>1. \A g \in Gid : g + 1 \in 1..setup.nblocks
    BY DEF SetupOK, Gid, Gids
  <2> QED
    BY <2>1 DEF SetupOK
<1>3. my_work_info(p) = [proc_rank |-> p,
                         top_gid   |-> IF tops = {} THEN -1 ELSE Min(tops),
                         top_work  |-> IF tops = {} THEN 0 ELSE setup.work[Min(tops) + 1],
                         proc_work |-> Total(B) % WorkSize,
                         nlids     |-> Cardinality(B)]
  <2>1. tops = {g \in blocks[p] : \A h \in blocks[p] : setup.work[h + 1] <= setup.work[g + 1]}
    BY <1>1 DEF Tops
  <2> HIDE DEF tops
  <2> QED
    BY <2>1, Zenon DEF my_work_info
<1>4. B # {} => Min(tops) \in tops
  <2>1. \A g \in B : w[g] \in Nat
    BY <1>1, <1>2
  <2>2. SUFFICES ASSUME B # {} PROVE Min(tops) \in tops
    OBVIOUS
  <2>3. IsFiniteSet(B) /\ B \subseteq Nat
    BY <1>1
  <2> HIDE DEF w, B
  <2> QED
    BY <2>1, <2>2, <2>3, TopBlock
<1>5. tops # {} => B # {}
  BY DEF Tops
<1>6. tops # {} => Min(tops) \in B
  BY <1>4, <1>5 DEF Tops
<1>7. Cardinality(B) > 1 => tops # {}
  <2>1. Cardinality({}) = 0
    BY FS_EmptySet
  <2>2. B = {} => ~(Cardinality(B) > 1)
    BY <2>1
  <2> HIDE DEF B, tops
  <2> QED
    BY <1>4, <2>2
<1>8. Total(B) % WorkSize \in Nat
  <2>1. Total(B) \in Nat
    BY <1>1, TotalFacts
  <2> QED
    BY <2>1, BalanceAssumption
<1> HIDE DEF tops
<1>9. InfoOK(my_work_info(p), p)
  BY <1>1, <1>2, <1>3, <1>6, <1>7, <1>8 DEF InfoOK
<1>10. my_work_info(p) # <<>>
  <2>1. "nlids" \in DOMAIN my_work_info(p)
    BY <1>3
  <2>2. DOMAIN <<>> = {}
    OBVIOUS
  <2> QED
    BY <2>1, <2>2
<1> QED
  BY <1>9, <1>10

LEMMA GatherStep ==
  ASSUME SetupOK, BalanceInv, NEW p \in Proc, exchange_work_info(p)
  PROVE  BalanceInv'
<1>1. \A q \in Proc : Stage(q)
  BY DEF BalanceInv, StagesInv
<1>2. pc[p] = "gather" /\ setup.balance /\ all_work_info[p] = <<>> /\ ~Gathered /\ Moves = <<>>
  <2>1. pc[p] = "gather" /\ setup.balance /\ all_work_info[p] = <<>>
    BY <1>1 DEF exchange_work_info, Stage, SetupOK
  <2> QED
    BY <2>1 DEF Moves, Gathered
<1>3. /\ UNCHANGED <<setup, blocks, link, rank_map_, all_move_info, next_move, moving>>
      /\ all_work_info'[p] = my_work_info(p) /\ pc'[p] = "decide"
      /\ \A q \in Proc \ {p} : all_work_info'[q] = all_work_info[q] /\ pc'[q] = pc[q]
  BY DEF exchange_work_info, BalanceInv, Domains
<1>4. \A q \in Proc : ~HasDecided(q) /\ all_move_info[q] = <<>> /\ next_move[q] = 1
  <2>1. \A q \in Proc : ~HasDecided(q) /\ all_move_info[q] = <<>>
    BY <1>1, <1>2 DEF Stage
  <2> QED
    BY <1>1, <2>1 DEF Stage
<1>5. Domains'
  BY <1>3, SameSetup DEF exchange_work_info, BalanceInv, Domains
<1> PICK n : n = next_move
  OBVIOUS
<1>6. \A q \in Proc : blocks[q] = IF pc[q] = "decompose" THEN {} ELSE local_gids(q)
  <2>1. \A q \in Proc : Kept(q, <<>>, n[q]) = local_gids(q)
    BY StaticPlaces DEF Kept
  <2> QED
    BY <1>2, <2>1, InvFacts
<1>7. InfoOK(all_work_info'[p], p) /\ all_work_info'[p] # <<>>
  BY <1>2, <1>3, <1>6, MyInfo
<1>8. \A q \in Proc : ~HasDecided(q)' /\ ~HasMoved(q)' /\ ~HasResolved(q)' /\ ~HasResolved(q)
  BY <1>3, <1>4 DEF HasDecided, HasMoved, HasResolved
<1>9. ASSUME NEW q \in Proc PROVE Stage(q)'
  <2>1. Stage(q)
    BY <1>1
  <2>2. all_work_info'[q] # <<>> => InfoOK(all_work_info'[q], q)
    BY <1>3, <1>7, <2>1 DEF Stage
  <2>3. InfoOK(all_work_info[q], q)' <=> InfoOK(all_work_info'[q], q)
    BY <1>3, SameSetup DEF InfoOK
  <2>4. Len(<<>>) = 0
    OBVIOUS
  <2> QED
    BY <1>2, <1>3, <1>4, <1>7, <1>8, <2>1, <2>2, <2>3, <2>4 DEF Stage
<1> PICK M : M = Moves'
  OBVIOUS
<1>10. MovesOK(M)
  <2>1. CASE Gathered'
    <3> PICK infos : infos = all_work_info'
      OBVIOUS
    <3>1. M = decide_move_info(infos)
      BY <2>1 DEF Moves
    <3>2. Ready(infos)
      BY <1>1, <1>3, <1>7, <2>1 DEF Ready, Gathered, Stage
    <3> QED
      BY <3>1, <3>2, DecideOK
  <2>2. CASE ~Gathered'
    BY <2>2 DEF Moves, MovesOK
  <2> QED
    BY <2>1, <2>2
<1>11. MovesOK(Moves)'
  BY <1>3, <1>10, SameSetup DEF MovesOK
<1>12. PlacesInv'
  <2>1. /\ \A j \in DOMAIN M : /\ j \in Nat /\ j >= 1 /\ M[j].src \in Proc /\ M[j].dst \in Proc /\ M[j].gid \in Gid
                               /\ StaticRank(M[j].gid) = M[j].src
    BY <1>10, MovesFacts
  <2>2. \A q \in Proc : n[q] = 1
    BY <1>4
  <2>3. \A q \in Proc : Kept(q, M, n[q]) = local_gids(q)
    BY <2>1, <2>2, StaticPlaces DEF Kept
  <2>4. Carried(M, n) = {} /\ moving = {}
    <3>1. Carried(M, n) = {}
      BY <2>1, <2>2 DEF Carried
    <3>2. Carried(<<>>, n) = {}
      BY DEF Carried
    <3> QED
      BY <1>2, <3>1, <3>2, InvFacts
  <2>5. \A q \in Proc : blocks'[q] = IF pc'[q] = "decompose" THEN {} ELSE Kept(q, M, n[q])
    <3>1. ASSUME NEW q \in Proc PROVE pc'[q] = "decompose" <=> pc[q] = "decompose"
      BY <1>2, <1>3
    <3> QED
      BY <1>3, <1>6, <2>3, <3>1
  <2>6. \A j \in DOMAIN M : j < n[M[j].dst] => j < n[M[j].src]
    BY <2>1, <2>2
  <2>7. setup' = setup /\ n = next_move' /\ moving' = Carried(M, n)
    BY <1>3, <2>4
  <2> QED
    BY <1>8, <2>5, <2>6, <2>7, PlacesPrimed
<1>13. LinksInv'
  <2>1. \A h : placed(h)' = placed(h)
    BY <1>3, SameSetup
  <2> QED
    BY <1>3, <1>8, <2>1 DEF BalanceInv, LinksInv
<1> QED
  BY <1>5, <1>9, <1>11, <1>12, <1>13 DEF BalanceInv, StagesInv

LEMMA DecideStep ==
  ASSUME SetupOK, BalanceInv, NEW p \in Proc, Decide(p)
  PROVE  BalanceInv'
<1>1. MovesOK(Moves) /\ \A q \in Proc : Stage(q)
  BY DEF BalanceInv, StagesInv
<1>2. /\ pc[p] = "decide" /\ setup.balance /\ Gathered /\ ~HasDecided(p)
      /\ all_move_info[p] = <<>> /\ next_move[p] = 1
  <2>1. pc[p] = "decide" /\ Gathered /\ ~HasDecided(p)
    BY DEF Decide, Gathered, HasDecided
  <2>2. setup.balance /\ all_move_info[p] = <<>>
    BY <1>1, <2>1 DEF Stage, SetupOK
  <2> QED
    BY <1>1, <2>1, <2>2 DEF Stage
<1>3. /\ UNCHANGED <<setup, blocks, link, rank_map_, all_work_info, next_move, moving>>
      /\ Moves' = Moves /\ (Gathered' <=> Gathered)
      /\ all_move_info'[p] = Moves /\ pc'[p] = "move"
      /\ \A q \in Proc \ {p} : all_move_info'[q] = all_move_info[q] /\ pc'[q] = pc[q]
  BY <1>2, SameMoves DEF Decide, BalanceInv, Domains, Moves
<1>4. Domains'
  BY <1>3, SameSetup DEF Decide, BalanceInv, Domains
<1>5. HasDecided(p)' /\ ~HasMoved(p)' /\ ~HasResolved(p)' /\ ~HasMoved(p) /\ ~HasResolved(p)
  BY <1>2, <1>3 DEF HasDecided, HasMoved, HasResolved
<1>6. \A q \in Proc \ {p} : /\ HasDecided(q)' <=> HasDecided(q)
                            /\ HasMoved(q)' <=> HasMoved(q)
                            /\ HasResolved(q)' <=> HasResolved(q)
  BY <1>3 DEF HasDecided, HasMoved, HasResolved
<1>7. ASSUME NEW q \in Proc PROVE Stage(q)'
  <2>1. Stage(q)
    BY <1>1
  <2>2. all_work_info[q] # <<>> => InfoOK(all_work_info[q], q)'
    BY <1>3, <2>1, SameSetup DEF Stage, InfoOK
  <2>3. CASE q = p
    <3>1. Len(Moves) \in Nat
      BY <1>1, MovesFacts
    <3>2. next_move'[p] \in 1..(Len(all_move_info'[p]) + 1)
      BY <1>2, <1>3, <3>1
    <3> QED
      BY <1>2, <1>3, <1>5, <2>1, <2>2, <2>3, <3>2 DEF Stage
  <2>4. CASE q # p
    <3>1. HasResolved(q) => FALSE
      BY <1>2, <1>5, <2>1 DEF Stage
    <3> QED
      BY <1>2, <1>3, <1>6, <2>1, <2>2, <2>4, <3>1 DEF Stage
  <2> QED
    BY <2>3, <2>4
<1>8. MovesOK(Moves)'
  BY <1>1, <1>3, SameSetup DEF MovesOK
<1>9. PlacesInv'
  <2> PICK M : M = Moves
    OBVIOUS
  <2> PICK n : n = next_move
    OBVIOUS
  <2>1. /\ setup' = setup /\ M = Moves' /\ n = next_move' /\ moving' = Carried(M, n)
        /\ \A j \in DOMAIN M : j < n[M[j].dst] => j < n[M[j].src]
    BY <1>3, InvFacts
  <2>2. \A q \in Proc : blocks'[q] = IF pc'[q] = "decompose" THEN {} ELSE Kept(q, M, n[q])
    <3>1. \A q \in Proc : pc'[q] = "decompose" <=> pc[q] = "decompose"
      BY <1>2, <1>3
    <3> QED
      BY <1>3, <3>1, InvFacts
  <2>3. \A q \in Proc : setup.balance /\ HasMoved(q)' => \A g \in blocks'[q] : rank_map_'[Slot(g)] = q
    BY <1>3, <1>5, <1>6 DEF BalanceInv, PlacesInv
  <2> QED
    BY <2>1, <2>2, <2>3, PlacesPrimed
<1>10. LinksInv'
  <2>1. \A h : linked(h)' = linked(h) /\ placed(h)' = placed(h)
    BY <1>3, SameSetup DEF linked, rank
  <2> QED
    BY <1>3, <1>5, <1>6, <2>1 DEF BalanceInv, LinksInv
<1> QED
  BY <1>4, <1>7, <1>8, <1>9, <1>10 DEF BalanceInv, StagesInv

LEMMA RecordStep ==
  ASSUME SetupOK, BalanceInv, NEW p \in Proc, record_local_gids(p)
  PROVE  BalanceInv'
<1>1. MovesOK(Moves) /\ \A q \in Proc : Stage(q)
  BY DEF BalanceInv, StagesInv
<1>2. /\ pc[p] = "move" /\ setup.balance /\ HasDecided(p) /\ ~HasMoved(p)
      /\ next_move[p] = Len(Moves) + 1
  <2>1. pc[p] = "move" /\ HasDecided(p) /\ ~HasMoved(p)
    BY DEF record_local_gids, HasDecided, HasMoved
  <2>2. setup.balance /\ all_move_info[p] = Moves
    BY <1>1, <2>1 DEF Stage, SetupOK
  <2>3. Len(Moves) \in Nat
    BY <1>1, MovesFacts
  <2>4. next_move[p] = Len(Moves) + 1
    BY <1>1, <2>2, <2>3 DEF Stage, record_local_gids
  <2> QED
    BY <2>1, <2>2, <2>4
<1>3. /\ UNCHANGED <<setup, blocks, link, all_work_info, all_move_info, next_move, moving>>
      /\ Moves' = Moves /\ (Gathered' <=> Gathered) /\ pc'[p] = "barrier"
      /\ \A q \in Proc \ {p} : pc'[q] = pc[q]
  BY <1>2, SameMoves DEF record_local_gids, BalanceInv, Domains
<1>4. Domains'
  BY <1>3, SameSetup DEF record_local_gids, BalanceInv, Domains
<1>5. HasDecided(p)' /\ HasMoved(p)' /\ ~HasResolved(p)' /\ ~HasResolved(p)
  BY <1>2, <1>3 DEF HasDecided, HasMoved, HasResolved
<1>6. \A q \in Proc \ {p} : /\ HasDecided(q)' <=> HasDecided(q)
                            /\ HasMoved(q)' <=> HasMoved(q)
                            /\ HasResolved(q)' <=> HasResolved(q)
  BY <1>3 DEF HasDecided, HasMoved, HasResolved
<1>7. \A q \in Proc : ~HasResolved(q) /\ ~HasResolved(q)'
  BY <1>1, <1>2, <1>5, <1>6 DEF Stage
<1>8. ASSUME NEW q \in Proc PROVE Stage(q)'
  <2>1. Stage(q)
    BY <1>1
  <2>2. all_work_info[q] # <<>> => InfoOK(all_work_info[q], q)'
    BY <1>3, <2>1, SameSetup DEF Stage, InfoOK
  <2>3. CASE q = p
    BY <1>2, <1>3, <1>5, <2>1, <2>2, <2>3 DEF Stage
  <2>4. CASE q # p
    BY <1>2, <1>3, <1>6, <1>7, <2>1, <2>2, <2>4 DEF Stage
  <2> QED
    BY <2>3, <2>4
<1>9. MovesOK(Moves)'
  BY <1>1, <1>3, SameSetup DEF MovesOK
<1>10. ASSUME NEW q \in Proc, HasMoved(q)', NEW g \in blocks'[q] PROVE rank_map_'[Slot(g)] = q
  <2>1. g \in blocks[q] /\ g \in Gid
    BY <1>3, <1>10, Disjoint
  <2>2. Slot(g) \in DOMAIN rank_map_
    BY <2>1 DEF BalanceInv, Domains
  <2>3. rank_map_'[Slot(g)] = IF \E h \in blocks[p] : Slot(h) = Slot(g) THEN p ELSE rank_map_[Slot(g)]
    BY <2>2 DEF record_local_gids
  <2>4. CASE q = p
    BY <2>1, <2>3, <2>4
  <2>5. CASE q # p
    <3>1. \A h \in blocks[p] : Slot(h) # Slot(g)
      <4>1. SUFFICES ASSUME NEW h \in blocks[p], Slot(h) = Slot(g) PROVE FALSE
        OBVIOUS
      <4>2. h \in Gid
        BY Disjoint
      <4>3. h = g
        BY <2>1, <4>1, <4>2, StaticPlaces
      <4> QED
        BY <2>1, <2>5, <4>1, <4>3, Disjoint
    <3>2. rank_map_[Slot(g)] = q
      BY <1>2, <1>6, <1>10, <2>1, <2>5 DEF BalanceInv, PlacesInv
    <3> QED
      BY <2>3, <3>1, <3>2
  <2> QED
    BY <2>4, <2>5
<1>11. PlacesInv'
  <2> PICK M : M = Moves
    OBVIOUS
  <2> PICK n : n = next_move
    OBVIOUS
  <2>1. /\ setup' = setup /\ M = Moves' /\ n = next_move' /\ moving' = Carried(M, n)
        /\ \A j \in DOMAIN M : j < n[M[j].dst] => j < n[M[j].src]
    BY <1>3, InvFacts
  <2>2. \A q \in Proc : blocks'[q] = IF pc'[q] = "decompose" THEN {} ELSE Kept(q, M, n[q])
    <3>1. \A q \in Proc : pc'[q] = "decompose" <=> pc[q] = "decompose"
      BY <1>2, <1>3
    <3> QED
      BY <1>3, <3>1, InvFacts
  <2> QED
    BY <1>10, <2>1, <2>2, PlacesPrimed
<1>12. LinksInv'
  <2>1. \A h : placed(h)' = placed(h)
    BY <1>3, SameSetup
  <2> QED
    BY <1>3, <1>7, <2>1 DEF BalanceInv, LinksInv
<1> QED
  BY <1>4, <1>8, <1>9, <1>11, <1>12 DEF BalanceInv, StagesInv

\* Once all ranks have carried out their moves nothing is on its way.
LEMMA AllMoved ==
  ASSUME SetupOK, BalanceInv, \A q \in Proc : HasMoved(q)
  PROVE  moving = {}
<1> PICK M : M = Moves
  OBVIOUS
<1> PICK n : n = next_move
  OBVIOUS
<1>1. \A q \in Proc : n[q] = Len(M) + 1
  BY DEF BalanceInv, StagesInv, Stage
<1>2. /\ \A j \in DOMAIN M : j \in Nat /\ j <= Len(M) /\ M[j].dst \in Proc
      /\ Len(M) \in Nat /\ moving = Carried(M, n)
  BY InvFacts
<1> QED
  BY <1>1, <1>2 DEF Carried

LEMMA UpdateStep ==
  ASSUME SetupOK, BalanceInv, NEW p \in Proc, update_links(p)
  PROVE  BalanceInv'
<1>1. MovesOK(Moves) /\ \A q \in Proc : Stage(q)
  BY DEF BalanceInv, StagesInv
<1>2. pc[p] = "barrier" /\ setup.balance /\ \A q \in Proc : HasMoved(q)
  BY <1>1 DEF update_links, Stage, HasMoved, HasDecided, SetupOK
<1>3. /\ UNCHANGED <<setup, blocks, rank_map_, all_work_info, all_move_info, next_move, moving>>
      /\ Moves' = Moves /\ (Gathered' <=> Gathered) /\ pc'[p] = "foreach"
      /\ \A q \in Proc \ {p} : pc'[q] = pc[q]
  BY <1>2, SameMoves DEF update_links, BalanceInv, Domains
<1>4. Domains'
  BY <1>3, SameSetup DEF update_links, BalanceInv, Domains
<1>5. /\ HasDecided(p)' /\ HasMoved(p)' /\ HasResolved(p)' /\ HasDecided(p) /\ ~HasResolved(p)
  BY <1>2, <1>3 DEF HasDecided, HasMoved, HasResolved
<1>6. \A q \in Proc \ {p} : /\ HasDecided(q)' <=> HasDecided(q)
                            /\ HasMoved(q)' <=> HasMoved(q)
                            /\ HasResolved(q)' <=> HasResolved(q)
  BY <1>3 DEF HasDecided, HasMoved, HasResolved
<1>7. \A q \in Proc : HasMoved(q)'
  BY <1>2, <1>5, <1>6
<1>8. ASSUME NEW q \in Proc PROVE Stage(q)'
  <2>1. Stage(q)
    BY <1>1
  <2>2. all_work_info[q] # <<>> => InfoOK(all_work_info[q], q)'
    BY <1>3, <2>1, SameSetup DEF Stage, InfoOK
  <2>3. CASE q = p
    BY <1>2, <1>3, <1>5, <1>7, <2>1, <2>2, <2>3 DEF Stage
  <2>4. CASE q # p
    BY <1>2, <1>3, <1>6, <1>7, <2>1, <2>2, <2>4 DEF Stage
  <2> QED
    BY <2>3, <2>4
<1>9. MovesOK(Moves)'
  BY <1>1, <1>3, SameSetup DEF MovesOK
<1>10. PlacesInv'
  <2> PICK M : M = Moves
    OBVIOUS
  <2> PICK n : n = next_move
    OBVIOUS
  <2>1. /\ setup' = setup /\ M = Moves' /\ n = next_move' /\ moving' = Carried(M, n)
        /\ \A j \in DOMAIN M : j < n[M[j].dst] => j < n[M[j].src]
    BY <1>3, InvFacts
  <2>2. \A q \in Proc : blocks'[q] = IF pc'[q] = "decompose" THEN {} ELSE Kept(q, M, n[q])
    <3>1. \A q \in Proc : pc'[q] = "decompose" <=> pc[q] = "decompose"
      BY <1>2, <1>3
    <3> QED
      BY <1>3, <3>1, InvFacts
  <2>3. \A q \in Proc : setup.balance /\ HasMoved(q)' => \A g \in blocks'[q] : rank_map_'[Slot(g)] = q
    BY <1>2, <1>3 DEF BalanceInv, PlacesInv
  <2> QED
    BY <2>1, <2>2, <2>3, PlacesPrimed
<1>11. LinksInv'
  <2>1. moving' = {}
    BY <1>2, <1>3, AllMoved
  <2>2. \A h : linked(h)' = linked(h) /\ placed(h)' = placed(h)
    BY <1>3, SameSetup DEF linked, rank
  <2>3. ASSUME NEW q \in Proc, NEW g \in blocks'[q]
        PROVE  link'[g] = IF HasResolved(q)' THEN linked(g)' ELSE placed(g)'
    <3>1. g \in blocks[q] /\ g \in Gid
      BY <1>3, Disjoint
    <3>2. link[g] = IF HasResolved(q) THEN linked(g) ELSE placed(g)
      BY <3>1 DEF BalanceInv, LinksInv
    <3>3. link'[g] = IF g \in blocks[p] THEN {[x EXCEPT !.proc = rank_map_[Slot(x.gid)]] : x \in link[g]} ELSE link[g]
      BY <3>1 DEF update_links
    <3>4. CASE q = p
      <4>1. link'[g] = {[x EXCEPT !.proc = rank_map_[Slot(x.gid)]] : x \in placed(g)}
        BY <1>5, <3>1, <3>2, <3>3, <3>4
      <4>2. \A h : rank(h) = rank_map_[Slot(h)]
        BY <1>2 DEF rank
      <4>3. {[x EXCEPT !.proc = rank_map_[Slot(x.gid)]] : x \in placed(g)} = linked(g)
        <5> DEFINE F(x) == [x EXCEPT !.proc = rank_map_[Slot(x.gid)]]
                   R(x) == [gid |-> x.gid, dir |-> x.dir, wrap |-> x.wrap, proc |-> StaticRank(x.gid)]
                   L(x) == [gid |-> x.gid, dir |-> x.dir, wrap |-> x.wrap, proc |-> rank(x.gid)]
        <5>1. \A x : F(R(x)) = L(x)
          BY <4>2
        <5>2. placed(g) = {R(x) : x \in setup.near[g]} /\ linked(g) = {L(x) : x \in setup.near[g]}
          BY DEF placed, linked
        <5>3. {[x EXCEPT !.proc = rank_map_[Slot(x.gid)]] : x \in placed(g)} = {F(x) : x \in placed(g)}
          OBVIOUS
        <5> HIDE DEF F, R, L
        <5>4. {F(x) : x \in placed(g)} = {L(x) : x \in setup.near[g]}
          BY <5>1, <5>2
        <5> QED
          BY <5>2, <5>3, <5>4
      <4> QED
        BY <1>5, <2>2, <3>4, <4>1, <4>3
    <3>5. CASE q # p
      <4>1. g \notin blocks[p]
        BY <3>1, <3>5, Disjoint
      <4> QED
        BY <1>6, <2>2, <3>2, <3>3, <3>5, <4>1
    <3> QED
      BY <3>4, <3>5
  <2> QED
    BY <2>1, <2>3 DEF LinksInv
<1> QED
  BY <1>4, <1>8, <1>9, <1>10, <1>11 DEF BalanceInv, StagesInv

\* The steps after the balancing leave everything of it alone.
LEMMA LaterStep ==
  ASSUME SetupOK, BalanceInv,
         UNCHANGED <<setup, blocks, link, rank_map_, all_work_info, all_move_info, next_move, moving>>,
         DOMAIN expected_' = Proc, DOMAIN pc' = Proc,
         \A q \in Proc : \/ pc'[q] = pc[q]
                         \/ {pc[q], pc'[q]} \subseteq {"foreach", "flush", "deferred", "done"}
  PROVE  BalanceInv'
<1>1. MovesOK(Moves) /\ \A q \in Proc : Stage(q)
  BY DEF BalanceInv, StagesInv
<1>2. Moves' = Moves /\ (Gathered' <=> Gathered)
  BY SameMoves
<1>3. Domains'
  BY SameSetup DEF BalanceInv, Domains
<1>4. \A q \in Proc : /\ HasDecided(q)' <=> HasDecided(q)
                      /\ HasMoved(q)' <=> HasMoved(q)
                      /\ HasResolved(q)' <=> HasResolved(q)
                      /\ pc'[q] \in {"decompose", "gather", "decide", "move", "barrier"} =>  pc'[q] = pc[q]
                      /\ pc[q] \in {"decompose", "gather", "decide", "move", "barrier"} =>  pc'[q] = pc[q]
  BY DEF HasDecided, HasMoved, HasResolved
<1>5. ASSUME NEW q \in Proc PROVE Stage(q)'
  <2>1. Stage(q)
    BY <1>1
  <2>2. all_work_info[q] # <<>> => InfoOK(all_work_info[q], q)'
    BY <2>1, SameSetup DEF Stage, InfoOK
  <2> QED
    BY <1>2, <1>4, <2>1, <2>2 DEF Stage
<1>6. MovesOK(Moves)'
  BY <1>1, <1>2, SameSetup DEF MovesOK
<1>7. PlacesInv'
  <2> PICK M : M = Moves
    OBVIOUS
  <2> PICK n : n = next_move
    OBVIOUS
  <2>1. /\ setup' = setup /\ M = Moves' /\ n = next_move' /\ moving' = Carried(M, n)
        /\ \A j \in DOMAIN M : j < n[M[j].dst] => j < n[M[j].src]
    BY <1>2, InvFacts
  <2>2. \A q \in Proc : blocks'[q] = IF pc'[q] = "decompose" THEN {} ELSE Kept(q, M, n[q])
    BY <1>4, InvFacts
  <2>3. \A q \in Proc : setup.balance /\ HasMoved(q)' => \A g \in blocks'[q] : rank_map_'[Slot(g)] = q
    BY <1>4 DEF BalanceInv, PlacesInv
  <2> QED
    BY <2>1, <2>2, <2>3, PlacesPrimed
<1>8. LinksInv'
  <2>1. \A h : linked(h)' = linked(h) /\ placed(h)' = placed(h)
    BY SameSetup DEF linked, rank
  <2> QED
    BY <1>4, <2>1 DEF BalanceInv, LinksInv
<1> QED
  BY <1>3, <1>5, <1>6, <1>7, <1>8 DEF BalanceInv, StagesInv

LEMMA BalanceStep ==
  ASSUME SetupOK, BalanceInv, NEW p \in Proc, BalanceNext(p)
  PROVE  BalanceInv' /\ SetupOK'
<1>1. BalanceInv'
  BY DecomposeStep, GatherStep, DecideStep, MoveStep, RecordStep, UpdateStep DEF BalanceNext
<1>2. setup' = setup
  BY DEF BalanceNext, Decompose, exchange_work_info, Decide, SendBlock, RecvBlock, SkipMove,
         record_local_gids, update_links
<1> QED
  BY <1>1, <1>2 DEF SetupOK

LEMMA BalanceStart ==
  ASSUME BalanceInit
  PROVE  BalanceInv /\ SetupOK
<1>1. SetupOK
  BY SetupFacts DEF BalanceInit
<1>2. \A q \in Proc : /\ pc[q] = "decompose" /\ all_work_info[q] = <<>> /\ all_move_info[q] = <<>>
                      /\ next_move[q] = 1 /\ blocks[q] = {}
  BY DEF BalanceInit
<1>3. Moves = <<>> /\ ~Gathered
  BY <1>2, ProcFinite DEF Moves, Gathered
<1>4. Domains
  BY DEF BalanceInit, Domains
<1>5. \A q \in Proc : ~HasDecided(q) /\ ~HasMoved(q) /\ ~HasResolved(q)
  BY <1>2 DEF HasDecided, HasMoved, HasResolved
<1>6. \A q \in Proc : Stage(q)
  <2>1. Len(<<>>) = 0
    OBVIOUS
  <2> QED
    BY <1>2, <1>5, <2>1 DEF Stage
<1>7. MovesOK(Moves)
  BY <1>3 DEF MovesOK
<1>8. PlacesInv
  <2>1. OnWay(Moves) = {}
    BY <1>3 DEF OnWay
  <2>2. \A i \in DOMAIN Moves : FALSE
    BY <1>3
  <2>3. moving = {}
    BY DEF BalanceInit
  <2> QED
    BY <1>2, <1>5, <2>1, <2>2, <2>3 DEF PlacesInv
<1>9. LinksInv
  BY <1>2 DEF LinksInv, BalanceInit
<1> QED
  BY <1>1, <1>4, <1>6, <1>7, <1>8, <1>9 DEF BalanceInv, StagesInv

-----------------------------------------------------------------------------
(***************************************************************************)
(* What follows from the invariant.                                        *)
(***************************************************************************)
LEMMA ContiguousRankIsRank ==
  ASSUME NEW size \in Nat \ {0}, NEW nblocks \in Nat, NEW g \in Gids(nblocks)
  PROVE  ContiguousRank(size, nblocks, g) \in Ranks(size)
<1>0. g \in Nat /\ g < nblocks
  BY DEF Gids
<1> DEFINE d == nblocks \div size
           m == nblocks % size
           r == g \div (d + 1)
           a == g - (d + 1) * m
<1>1. d \in Int /\ m \in 0..(size - 1) /\ nblocks = size * d + m
  BY <1>0, Division
<1>2. ContiguousRank(size, nblocks, g) = IF r < m THEN r ELSE m + a \div d
  BY Zenon DEF ContiguousRank
<1> HIDE DEF d, m
<1>3. d \in Nat
  <2>1. CASE d <= -1
    <3>1. size * d <= size * (-1)
      BY <1>0, <1>1, <2>1, TimesMonotone
    <3> QED
      BY <1>0, <1>1, <3>1
  <2> QED
    BY <1>1, <2>1
<1>4. r \in Int /\ (d + 1) * r <= g /\ g < (d + 1) * r + (d + 1)
  BY <1>0, <1>3, Quotient, Division
<1> HIDE DEF r
<1>5. r >= 0
  <2>1. CASE r <= -1
    <3>1. (d + 1) * r <= (d + 1) * (-1)
      BY <1>3, <1>4, <2>1, TimesMonotone
    <3> QED
      BY <1>0, <1>3, <1>4, <3>1
  <2> QED
    BY <1>4, <2>1
<1>6. CASE r < m
  BY <1>0, <1>1, <1>2, <1>4, <1>5, <1>6 DEF Ranks
<1>7. CASE ~(r < m)
  <2>1. (d + 1) * m <= (d + 1) * r /\ (d + 1) * m = d * m + m /\ (d + 1) * m \in Int /\ d * m \in Int
    BY <1>1, <1>3, <1>4, <1>7, TimesMonotone
  <2>2. a \in Nat
    <3> PICK x : x = (d + 1) * m
      OBVIOUS
    <3>1. x \in Int /\ x <= g
      BY <1>0, <1>3, <1>4, <2>1
    <3>2. a = g - x
      OBVIOUS
    <3> HIDE DEF a
    <3> QED
      BY <1>0, <3>1, <3>2
  <2>3. size - m \in Nat /\ d * (size - m) = size * d - d * m
    BY <1>0, <1>1, <1>3
  <2>4. a < d * (size - m)
    BY <1>0, <1>1, <2>1, <2>3
  <2> HIDE DEF a
  <2>5. d # 0
    BY <2>2, <2>3, <2>4
  <2> DEFINE s == a \div d
  <2>6. s \in Int /\ d * s <= a /\ a < d * s + d
    BY <1>3, <2>2, <2>5, Quotient, Division
  <2> HIDE DEF s
  <2>7. s >= 0
    <3>1. CASE s <= -1
      <4>1. d * s <= d * (-1)
        BY <1>3, <2>6, <3>1, TimesMonotone
      <4> QED
        BY <1>3, <2>2, <2>6, <4>1
    <3> QED
      BY <2>6, <3>1
  <2>8. s < size - m
    <3>1. CASE size - m <= s
      <4>1. d * (size - m) <= d * s
        BY <1>0, <1>1, <1>3, <2>6, <3>1, TimesMonotone
      <4>2. d * s \in Int /\ d * (size - m) \in Int
        BY <1>0, <1>1, <1>3, <2>6
      <4> QED
        BY <2>2, <2>4, <2>6, <4>1, <4>2
    <3> QED
      BY <1>0, <1>1, <2>6, <3>1
  <2>9. ContiguousRank(size, nblocks, g) = m + s
    BY <1>2, <1>7 DEF s
  <2> QED
    BY <1>0, <1>1, <2>6, <2>7, <2>8, <2>9 DEF Ranks
<1> QED
  BY <1>6, <1>7

LEMMA StaticRankIsRank ==
  ASSUME SetupOK, NEW g \in Gid
  PROVE  StaticRank(g) \in Proc
<1>1. NProc \in Nat \ {0} /\ setup.nblocks \in Nat /\ g \in Nat
  BY BalanceAssumption DEF SetupOK, Gid, Gids
<1>2. RoundRobinRank(NProc, g) \in Ranks(NProc)
  BY <1>1, Division DEF RoundRobinRank, Ranks
<1>3. ContiguousRank(NProc, setup.nblocks, g) \in Ranks(NProc)
  BY <1>1, ContiguousRankIsRank DEF Gid
<1> QED
  BY <1>2, <1>3 DEF StaticRank, Proc

\* A block that a move names, and one that none does.
LEMMA MovedBlock ==
  ASSUME SetupOK, BalanceInv, NEW M, M = Moves, NEW n, n = next_move, NEW i \in DOMAIN M
  PROVE  /\ \A q \in Proc : M[i].gid \in blocks[q] <=> \/ q = M[i].src /\ n[q] <= i
                                                       \/ q = M[i].dst /\ i < n[q]
         /\ \A d : <<M[i].gid, d>> \in moving <=> d = M[i].dst /\ n[M[i].dst] <= i /\ i < n[M[i].src]
<1>1. /\ \A j \in DOMAIN M : /\ j \in Nat /\ M[j].src \in Proc /\ M[j].dst \in Proc /\ M[j].gid \in Gid
                             /\ StaticRank(M[j].gid) = M[j].src /\ M[j].dst # M[j].src
      /\ \A j, l \in DOMAIN M : M[j].gid = M[l].gid => j = l
      /\ \A q \in Proc : n[q] \in Nat
      /\ moving = Carried(M, n)
  BY InvFacts
<1>2. ASSUME NEW q \in Proc PROVE pc[q] # "decompose"
  <2>1. Gathered
    BY DEF Moves
  <2>2. all_work_info[q] # <<>>
    BY <2>1 DEF Gathered
  <2> QED
    BY <2>2 DEF BalanceInv, StagesInv, Stage, SetupOK
<1>3. \A q \in Proc : blocks[q] = Kept(q, M, n[q])
  BY <1>2, InvFacts
<1>4. \A q \in Proc : M[i].gid \in Kept(q, M, n[q]) <=> \/ q = M[i].src /\ n[q] <= i
                                                        \/ q = M[i].dst /\ i < n[q]
  BY <1>1 DEF Kept
<1>5. \A d : <<M[i].gid, d>> \in Carried(M, n) <=> d = M[i].dst /\ n[M[i].dst] <= i /\ i < n[M[i].src]
  BY <1>1 DEF Carried
<1> QED
  BY <1>1, <1>3, <1>4, <1>5

LEMMA OtherBlock ==
  ASSUME SetupOK, BalanceInv, NEW g \in Gid, \A i \in DOMAIN Moves : Moves[i].gid # g
  PROVE  /\ \A q \in Proc : g \in blocks[q] <=> q = StaticRank(g) /\ pc[q] # "decompose"
         /\ \A d : <<g, d>> \notin moving
<1> PICK M : M = Moves
  OBVIOUS
<1> PICK n : n = next_move
  OBVIOUS
<1>1. /\ \A q \in Proc : blocks[q] = IF pc[q] = "decompose" THEN {} ELSE Kept(q, M, n[q])
      /\ moving = Carried(M, n)
  BY InvFacts
<1>2. \A q \in Proc : g \in Kept(q, M, n[q]) <=> q = StaticRank(g)
  BY DEF Kept
<1>3. \A d : <<g, d>> \notin Carried(M, n)
  BY DEF Carried
<1> QED
  BY <1>1, <1>2, <1>3

LEMMA MovingPairs ==
  ASSUME SetupOK, BalanceInv, NEW m \in moving
  PROVE  m = <<m[1], m[2]>> /\ m[1] \in Gid /\ m[2] \in Proc
<1> PICK M : M = Moves
  OBVIOUS
<1> PICK n : n = next_move
  OBVIOUS
<1>1. /\ moving = Carried(M, n)
      /\ \A j \in DOMAIN M : M[j].dst \in Proc /\ M[j].gid \in Gid
  BY InvFacts
<1> QED
  BY <1>1 DEF Carried

\* A block is in one place, a rank's or on its way.
LEMMA InOnePlace ==
  ASSUME SetupOK, BalanceInv, NEW g \in Gid
  PROVE  LET at == {p \in Proc : g \in blocks[p]}
             on == {m \in moving : m[1] = g}
         IN  \/ (\E p \in Proc : at = {p}) /\ on = {}
             \/ at = {} /\ \E m : on = {m}
             \/ at = {} /\ on = {} /\ ~Decomposed
<1> DEFINE at == {p \in Proc : g \in blocks[p]}
           on == {m \in moving : m[1] = g}
<1>1. \A m \in on : m = <<g, m[2]>>
  BY MovingPairs
<1>2. CASE \A i \in DOMAIN Moves : Moves[i].gid # g
  <2>1. on = {}
    BY <1>1, <1>2, OtherBlock
  <2>2. CASE pc[StaticRank(g)] # "decompose"
    <3>1. at = {StaticRank(g)} /\ StaticRank(g) \in Proc
      BY <1>2, <2>2, OtherBlock, StaticRankIsRank
    <3> QED
      BY <2>1, <3>1
  <2>3. CASE pc[StaticRank(g)] = "decompose"
    <3>1. at = {} /\ ~Decomposed
      BY <1>2, <2>3, OtherBlock, StaticRankIsRank DEF Decomposed
    <3> QED
      BY <2>1, <3>1
  <2> QED
    BY <2>2, <2>3
<1>3. CASE \E i \in DOMAIN Moves : Moves[i].gid = g
  <2> PICK M : M = Moves
    OBVIOUS
  <2> PICK n : n = next_move
    OBVIOUS
  <2>1. PICK i \in DOMAIN M : M[i].gid = g
    BY <1>3
  <2>2. /\ M[i].src \in Proc /\ M[i].dst \in Proc /\ M[i].dst # M[i].src /\ i \in Nat
        /\ n[M[i].src] \in Nat /\ n[M[i].dst] \in Nat
        /\ i < n[M[i].dst] => i < n[M[i].src]
    BY InvFacts
  <2>3. /\ \A q \in Proc : g \in blocks[q] <=> \/ q = M[i].src /\ n[q] <= i
                                               \/ q = M[i].dst /\ i < n[q]
        /\ \A d : <<g, d>> \in moving <=> d = M[i].dst /\ n[M[i].dst] <= i /\ i < n[M[i].src]
    BY <2>1, MovedBlock
  <2>4. CASE n[M[i].src] <= i
    <3>1. at = {M[i].src}
      BY <2>2, <2>3, <2>4
    <3>2. on = {}
      BY <1>1, <2>2, <2>3, <2>4
    <3> QED
      BY <2>2, <3>1, <3>2
  <2>5. CASE i < n[M[i].src] /\ n[M[i].dst] <= i
    <3>1. at = {}
      BY <2>2, <2>3, <2>5
    <3>2. on = {<<g, M[i].dst>>}
      BY <1>1, <2>2, <2>3, <2>5
    <3> QED
      BY <3>1, <3>2
  <2>6. CASE i < n[M[i].dst]
    <3>1. at = {M[i].dst}
      BY <2>2, <2>3, <2>6
    <3>2. on = {}
      BY <1>1, <2>2, <2>3, <2>6
    <3> QED
      BY <2>2, <3>1, <3>2
  <2> QED
    BY <2>2, <2>4, <2>5, <2>6
<1> QED
  BY <1>2, <1>3

\* The invariant has the first property of CollectiveBalance.
LEMMA BalanceImpliesOnOneRank ==
  ASSUME SetupOK, BalanceInv
  PROVE  OnOneRank
<1>1. Balanced => moving = {}
  BY AllMoved DEF Balanced, HasMoved, HasDecided
<1>2. ASSUME NEW g \in Gid
      PROVE  LET places == Cardinality({p \in Proc : g \in blocks[p]}) + Cardinality({m \in moving : m[1] = g})
             IN  places <= 1 /\ (Decomposed => places = 1)
  <2> DEFINE at == {p \in Proc : g \in blocks[p]}
             on == {m \in moving : m[1] = g}
  <2>1. \/ (\E p \in Proc : at = {p}) /\ on = {}
        \/ at = {} /\ \E m : on = {m}
        \/ at = {} /\ on = {} /\ ~Decomposed
    BY InOnePlace, Zenon
  <2> HIDE DEF at, on
  <2>2. \A x : Cardinality({x}) = 1
    BY FS_Singleton
  <2>3. Cardinality({}) = 0
    BY FS_EmptySet
  <2>4. (Cardinality(at) = 1 /\ Cardinality(on) = 0) \/ (Cardinality(at) = 0 /\ Cardinality(on) = 1)
        \/ (Cardinality(at) = 0 /\ Cardinality(on) = 0 /\ ~Decomposed)
    BY <2>1, <2>2, <2>3
  <2>5. Cardinality(at) + Cardinality(on) <= 1 /\ (Decomposed => Cardinality(at) + Cardinality(on) = 1)
    BY <2>4
  <2> QED
    BY <2>5 DEF at, on
<1> QED
  BY <1>1, <1>2 DEF OnOneRank

\* Where the dynamic assigner finds a block, once all blocks have moved.
LEMMA LocatedMoved ==
  ASSUME SetupOK, BalanceInv, setup.balance, \A q \in Proc : HasMoved(q), NEW g \in Gid
  PROVE  /\ rank(g) \in Proc /\ Decomposed
         /\ \A q \in Proc : g \in blocks[q] <=> rank(g) = q
<1> DEFINE at == {q \in Proc : g \in blocks[q]}
           on == {m \in moving : m[1] = g}
<1>1. moving = {} /\ Decomposed
  BY AllMoved DEF Decomposed, HasMoved, HasDecided
<1>2. \/ (\E q \in Proc : at = {q}) /\ on = {}
      \/ at = {} /\ \E m : on = {m}
      \/ at = {} /\ on = {} /\ ~Decomposed
  BY InOnePlace, Zenon
<1>3. \A m : on # {m}
  BY <1>1
<1>4. PICK x \in Proc : at = {x}
  <2> HIDE DEF at, on
  <2> QED
    BY <1>1, <1>2, <1>3
<1>5. \A q \in Proc : g \in blocks[q] <=> q = x
  BY <1>4
<1>6. rank(g) = x
  BY <1>5 DEF BalanceInv, PlacesInv, rank
<1> QED
  BY <1>1, <1>5, <1>6

\* Where the assigner finds a block, once the links of a rank are resolved.
LEMMA Located ==
  ASSUME SetupOK, BalanceInv, NEW p \in Proc, HasResolved(p), NEW g \in Gid
  PROVE  /\ rank(g) \in Proc
         /\ \A q \in Proc : HasResolved(q) => (g \in blocks[q] <=> rank(g) = q)
         /\ Decomposed => g \in blocks[rank(g)]
<1>1. \A q \in Proc : Stage(q)
  BY DEF BalanceInv, StagesInv
<1>2. CASE setup.balance
  <2>1. \A q \in Proc : HasMoved(q)
    BY <1>1, <1>2 DEF Stage
  <2> QED
    BY <1>2, <2>1, LocatedMoved
<1>3. CASE ~setup.balance
  <2>1. Moves = <<>>
    BY <1>1, <1>3 DEF Stage, Moves, Gathered
  <2>2. \A q \in Proc : g \in blocks[q] <=> q = StaticRank(g) /\ pc[q] # "decompose"
    BY <2>1, OtherBlock
  <2>3. rank(g) = StaticRank(g) /\ rank(g) \in Proc
    BY <1>3, StaticRankIsRank DEF rank
  <2>4. \A q \in Proc : HasResolved(q) => pc[q] # "decompose"
    BY DEF HasResolved, HasMoved, HasDecided
  <2> QED
    BY <2>2, <2>3, <2>4 DEF Decomposed
<1> QED
  BY <1>2, <1>3 DEF SetupOK

LEMMA BalanceImpliesLinksAgree ==
  ASSUME SetupOK, BalanceInv, GridAgrees(setup)
  PROVE  LinksAgree
<1>1. SUFFICES ASSUME Balanced, NEW p \in Proc, pc[p] # "barrier", NEW g \in blocks[p], NEW n \in link[g]
               PROVE  /\ n.proc \in Proc /\ n.gid \in blocks[n.proc]
                      /\ \E m \in link[n.gid] :
                           /\ m.gid = g
                           /\ \A i \in DOMAIN m.dir : m.dir[i] = -n.dir[i] /\ m.wrap[i] = -n.wrap[i]
  BY DEF LinksAgree
<1>2. HasResolved(p) /\ Decomposed
  BY <1>1 DEF Balanced, HasResolved, HasMoved, HasDecided, Decomposed
<1>3. g \in Gid /\ link[g] = linked(g)
  BY <1>2, Disjoint DEF BalanceInv, LinksInv
<1>4. PICK x \in setup.near[g] : n = [gid |-> x.gid, dir |-> x.dir, wrap |-> x.wrap, proc |-> rank(x.gid)]
  BY <1>3 DEF linked
<1>5. /\ x.gid \in Gid
      /\ \E y \in setup.near[x.gid] : y.gid = g /\ Opposite(x, y)
  BY <1>3 DEF GridAgrees, Gid
<1>6. rank(x.gid) \in Proc /\ x.gid \in blocks[rank(x.gid)]
  BY <1>2, <1>5, Located
<1>7. n.gid = x.gid /\ n.dir = x.dir /\ n.wrap = x.wrap /\ n.proc = rank(x.gid)
  BY <1>4
<1>8. PICK y \in setup.near[x.gid] : y.gid = g /\ Opposite(x, y)
  BY <1>5
<1>9. \E z : link[x.gid] = {[gid |-> w.gid, dir |-> w.dir, wrap |-> w.wrap, proc |-> z[w.gid]] : w \in setup.near[x.gid]}
  <2>1. link[x.gid] = linked(x.gid) \/ link[x.gid] = placed(x.gid)
    BY <1>6 DEF BalanceInv, LinksInv
  <2>2. CASE link[x.gid] = linked(x.gid)
    <3> DEFINE z == [h \in Gid |-> rank(h)]
    <3>1. \A w \in setup.near[x.gid] : z[w.gid] = rank(w.gid)
      BY <1>5 DEF GridAgrees, Gid
    <3> HIDE DEF z
    <3>2. linked(x.gid) = {[gid |-> w.gid, dir |-> w.dir, wrap |-> w.wrap, proc |-> z[w.gid]] : w \in setup.near[x.gid]}
      BY <3>1 DEF linked
    <3> QED
      BY <2>2, <3>2
  <2>3. CASE link[x.gid] = placed(x.gid)
    <3> DEFINE z == [h \in Gid |-> StaticRank(h)]
    <3>1. \A w \in setup.near[x.gid] : z[w.gid] = StaticRank(w.gid)
      BY <1>5 DEF GridAgrees, Gid
    <3> HIDE DEF z
    <3>2. placed(x.gid) = {[gid |-> w.gid, dir |-> w.dir, wrap |-> w.wrap, proc |-> z[w.gid]] : w \in setup.near[x.gid]}
      BY <3>1 DEF placed
    <3> QED
      BY <2>3, <3>2
  <2> QED
    BY <2>1, <2>2, <2>3
<1>10. PICK m \in link[x.gid] : m.gid = y.gid /\ m.dir = y.dir /\ m.wrap = y.wrap
  <2>1. PICK z : link[x.gid] = {[gid |-> w.gid, dir |-> w.dir, wrap |-> w.wrap, proc |-> z[w.gid]] : w \in setup.near[x.gid]}
    BY <1>9
  <2> DEFINE m == [gid |-> y.gid, dir |-> y.dir, wrap |-> y.wrap, proc |-> z[y.gid]]
  <2>2. m \in link[x.gid]
    BY <1>8, <2>1
  <2>3. m.gid = y.gid /\ m.dir = y.dir /\ m.wrap = y.wrap
    OBVIOUS
  <2> HIDE DEF m
  <2> QED
    BY <2>2, <2>3
<1>11. \A i \in DOMAIN m.dir : m.dir[i] = -n.dir[i] /\ m.wrap[i] = -n.wrap[i]
  BY <1>7, <1>8, <1>10 DEF Opposite
<1> QED
  BY <1>6, <1>7, <1>8, <1>10, <1>11

-----------------------------------------------------------------------------
(***************************************************************************)
(* How many queues a flush over the links waits for.                       *)
(***************************************************************************)
LEMMA PairsFinite ==
  ASSUME SetupOK, GridAgrees(setup), NEW S, S \subseteq Gid
  PROVE  IsFiniteSet(Pairs(S)) /\ Cardinality(Pairs(S)) \in Nat
<1> DEFINE f == [g \in S |-> {<<g, n.gid>> : n \in setup.near[g]}]
<1>1. IsFiniteSet({f[g] : g \in S})
  <2>1. f \in Surjection(S, {f[g] : g \in S})
    BY DEF Surjection
  <2>2. IsFiniteSet(S)
    BY GidsFinite
  <2> HIDE DEF f
  <2> QED
    BY <2>1, <2>2, FS_Surjection
<1>2. ASSUME NEW g \in S PROVE IsFiniteSet(f[g])
  <2> DEFINE N == setup.near[g]
             h == [n \in N |-> <<g, n.gid>>]
  <2>1. IsFiniteSet(N)
    BY DEF GridAgrees, Gid
  <2>2. h \in Surjection(N, {<<g, n.gid>> : n \in N})
    BY DEF Surjection
  <2>3. f[g] = {<<g, n.gid>> : n \in N}
    OBVIOUS
  <2> HIDE DEF h, f, N
  <2> QED
    BY <2>1, <2>2, <2>3, FS_Surjection
<1>3. UNION {f[g] : g \in S} = Pairs(S)
  BY DEF Pairs
<1> HIDE DEF f
<1>4. \A T \in {f[g] : g \in S} : IsFiniteSet(T)
  BY <1>2
<1>5. IsFiniteSet(Pairs(S))
  BY <1>1, <1>3, <1>4, FS_UNION
<1> QED
  BY <1>5, FS_CardinalityType

LEMMA PairsAdd ==
  ASSUME SetupOK, GridAgrees(setup), NEW S, S \subseteq Gid, NEW g \in Gid \ S
  PROVE  Cardinality(Pairs(S \cup {g})) = Cardinality(Pairs(S)) + Cardinality(Pairs({g}))
<1> DEFINE A == Pairs(S)
           B == Pairs({g})
<1>1. Pairs(S \cup {g}) = A \cup B
  BY DEF Pairs
<1>2. A \cap B = {}
  BY DEF Pairs
<1>3. IsFiniteSet(A) /\ IsFiniteSet(B) /\ Cardinality(A) \in Nat /\ Cardinality(B) \in Nat
  BY PairsFinite
<1> HIDE DEF A, B
<1>4. Cardinality(A \cup B) = Cardinality(A) + Cardinality(B) - Cardinality({})
  BY <1>2, <1>3, FS_Union
<1>5. Cardinality({}) = 0
  BY FS_EmptySet
<1>6. Cardinality(A \cup B) = Cardinality(A) + Cardinality(B)
  BY <1>3, <1>4, <1>5
<1> QED
  BY <1>1, <1>6 DEF A, B

\* What is computed from pairs, with different results for different ones, is as many.
LEMMA AsMany ==
  ASSUME SetupOK, GridAgrees(setup), NEW S, S \subseteq Gid, NEW f, NEW T,
         f \in [Pairs(S) -> T], \A t \in T : \E y \in Pairs(S) : f[y] = t,
         \A y, z \in Pairs(S) : f[y] = f[z] => y = z
  PROVE  Cardinality(T) = Cardinality(Pairs(S))
<1> DEFINE A == Pairs(S)
<1>1. IsFiniteSet(A)
  BY PairsFinite
<1>2. f \in Surjection(A, T) /\ f \in Injection(A, T)
  BY DEF Surjection, Injection, IsInjective
<1> HIDE DEF A
<1>3. Cardinality(T) = Cardinality(A)
  BY <1>1, <1>2, FS_Surjection
<1> QED
  BY <1>3 DEF A

\* The links of blocks, with one rank for each neighbor, count the neighbors.
LEMMA EdgesCount ==
  ASSUME SetupOK, GridAgrees(setup), NEW S, S \subseteq Gid, NEW R, NEW lk,
         \A g \in S : \A n \in lk[g] : \E x \in setup.near[g] : n.gid = x.gid /\ n.proc = R[x.gid],
         \A g \in S : \A x \in setup.near[g] : \E n \in lk[g] : n.gid = x.gid /\ n.proc = R[x.gid]
  PROVE  Cardinality(Edges(S, lk)) = Cardinality(Pairs(S))
<1> DEFINE f == [y \in Pairs(S) |-> <<y[1], y[2], R[y[2]]>>]
<1>1. \A y \in Pairs(S) : \E g \in S : \E x \in setup.near[g] : y = <<g, x.gid>>
  BY DEF Pairs
<1>2. \A g \in S : \A x \in setup.near[g] : <<g, x.gid>> \in Pairs(S)
  BY DEF Pairs
<1>3. ASSUME NEW y \in Pairs(S) PROVE f[y] \in Edges(S, lk)
  <2> PICK g \in S : \E x \in setup.near[g] : y = <<g, x.gid>>
    BY <1>1
  <2>1. PICK x \in setup.near[g] : y = <<g, x.gid>>
    OBVIOUS
  <2>2. PICK n \in lk[g] : n.gid = x.gid /\ n.proc = R[x.gid]
    BY <2>1
  <2>3. f[y] = <<g, x.gid, R[x.gid]>>
    BY <2>1
  <2>4. f[y] = <<g, n.gid, n.proc>>
    BY <2>2, <2>3
  <2>5. <<g, n.gid, n.proc>> \in Edges(S, lk)
    BY <2>1, <2>2 DEF Edges
  <2> QED
    BY <2>4, <2>5
<1>4. ASSUME NEW t \in Edges(S, lk) PROVE \E y \in Pairs(S) : f[y] = t
  <2> PICK g \in S : \E n \in lk[g] : t = <<g, n.gid, n.proc>>
    BY DEF Edges
  <2>1. PICK n \in lk[g] : t = <<g, n.gid, n.proc>>
    OBVIOUS
  <2>2. PICK x \in setup.near[g] : n.gid = x.gid /\ n.proc = R[x.gid]
    BY <2>1
  <2>3. <<g, x.gid>> \in Pairs(S)
    BY <1>2, <2>1, <2>2
  <2>4. f[<<g, x.gid>>] = <<g, x.gid, R[x.gid]>>
    BY <2>3
  <2>5. f[<<g, x.gid>>] = t
    BY <2>1, <2>2, <2>4
  <2> QED
    BY <2>3, <2>5
<1>5. ASSUME NEW y \in Pairs(S), NEW z \in Pairs(S), f[y] = f[z] PROVE y = z
  <2>1. y = <<y[1], y[2]>> /\ z = <<z[1], z[2]>>
    BY <1>1
  <2>2. y[1] = z[1] /\ y[2] = z[2]
    BY <1>5
  <2> QED
    BY <2>1, <2>2
<1>6. f \in [Pairs(S) -> Edges(S, lk)]
  BY <1>3
<1> HIDE DEF f
<1> QED
  BY <1>4, <1>5, <1>6, AsMany

\* What a link adds to and takes from expected_.
LEMMA UniqueCount ==
  ASSUME SetupOK, GridAgrees(setup), NEW g \in Gid
  PROVE  size_unique(placed(g)) = Cardinality(Pairs({g}))
<1> DEFINE U == {<<n.gid, n.proc>> : n \in placed(g)}
           f == [y \in Pairs({g}) |-> <<y[2], StaticRank(y[2])>>]
<1>1. \A y \in Pairs({g}) : \E x \in setup.near[g] : y = <<g, x.gid>>
  BY DEF Pairs
<1>2. \A x \in setup.near[g] : <<g, x.gid>> \in Pairs({g})
  BY DEF Pairs
<1>3. ASSUME NEW y \in Pairs({g}) PROVE f[y] \in U
  <2>1. PICK x \in setup.near[g] : y = <<g, x.gid>>
    BY <1>1
  <2> DEFINE n == [gid |-> x.gid, dir |-> x.dir, wrap |-> x.wrap, proc |-> StaticRank(x.gid)]
  <2>2. n \in placed(g)
    BY DEF placed
  <2>3. f[y] = <<n.gid, n.proc>>
    BY <2>1
  <2> HIDE DEF n
  <2> QED
    BY <2>2, <2>3
<1>4. ASSUME NEW t \in U PROVE \E y \in Pairs({g}) : f[y] = t
  <2>1. PICK n \in placed(g) : t = <<n.gid, n.proc>>
    OBVIOUS
  <2>2. PICK x \in setup.near[g] : n.gid = x.gid /\ n.proc = StaticRank(x.gid)
    BY DEF placed
  <2>3. <<g, x.gid>> \in Pairs({g})
    BY <1>2, <2>2
  <2>4. f[<<g, x.gid>>] = <<x.gid, StaticRank(x.gid)>>
    BY <2>3
  <2> QED
    BY <2>1, <2>2, <2>3, <2>4
<1>5. ASSUME NEW y \in Pairs({g}), NEW z \in Pairs({g}), f[y] = f[z] PROVE y = z
  <2>1. y = <<g, y[2]>> /\ z = <<g, z[2]>>
    <3>1. PICK a, b : y = <<g, a>> /\ z = <<g, b>>
      BY <1>1
    <3> QED
      BY <3>1
  <2>2. y[2] = z[2]
    BY <1>5
  <2> QED
    BY <2>1, <2>2
<1>6. f \in [Pairs({g}) -> U]
  BY <1>3
<1> HIDE DEF f
<1>7. Cardinality(U) = Cardinality(Pairs({g}))
  <2> HIDE DEF U
  <2>1. {g} \subseteq Gid
    OBVIOUS
  <2> QED
    BY <1>4, <1>5, <1>6, <2>1, AsMany
<1> QED
  BY <1>7 DEF size_unique

-----------------------------------------------------------------------------
(***************************************************************************)
(* Balancing helps.  Along the walk no load is more than one of the first  *)
(* loads, and none less than the work that the moves leave to the rank, as *)
(* long as no rank gives a block away after it got one.                    *)
(***************************************************************************)
FirstLoad(p) == Total(local_gids(p))
NoRelays(m) == \A i, j \in DOMAIN m : i < j => m[i].dst # m[j].src
Done(p, m) == Kept(p, m, Len(m) + 1)
Lightened(load, m) ==
  NoRelays(m) =>
    \A p \in Proc : /\ (\A i \in DOMAIN m : m[i].dst # p) => load[p] = FirstLoad(p)
                    /\ \E q \in Proc : load[p] <= FirstLoad(q)
                    /\ Total(Done(p, m)) <= load[p]

LEMMA SmallRemainder ==
  ASSUME NEW x \in Nat, NEW n \in Nat, x < n
  PROVE  x % n = x
BY SMT

LEMMA FirstWork ==
  ASSUME SetupOK, setup.balance, NoOverflow, NEW infos, Ready(infos), NEW p \in Proc
  PROVE  /\ FirstLoad(p) \in Nat /\ FirstLoad(p) < WorkSize
         /\ infos[p].proc_work = FirstLoad(p)
<1>1. local_gids(p) \subseteq Gid
  BY StaticPlaces
<1>2. FirstLoad(p) \in Nat
  BY <1>1, TotalFacts DEF FirstLoad
<1>3. FirstLoad(p) < WorkSize /\ infos[p].proc_work = FirstLoad(p) % WorkSize
  BY Zenon DEF NoOverflow, FirstLoad, Ready, InfoOK
<1> QED
  BY <1>2, <1>3, BalanceAssumption

LEMMA LightenedStart ==
  ASSUME SetupOK, setup.balance, NoOverflow, NEW infos, Ready(infos)
  PROVE  Lightened(WalkStart(infos).load, WalkStart(infos).moves)
<1> DEFINE load == WalkStart(infos).load
<1>1. WalkStart(infos).moves = <<>> /\ \A p \in Proc : load[p] = infos[p].proc_work
  BY DEF WalkStart
<1> HIDE DEF load
<1>2. ASSUME NEW p \in Proc
      PROVE  load[p] = FirstLoad(p) /\ load[p] <= FirstLoad(p) /\ Total(Done(p, <<>>)) <= load[p]
  <2>1. load[p] = FirstLoad(p) /\ FirstLoad(p) \in Nat
    BY <1>1, FirstWork
  <2>2. Done(p, <<>>) = local_gids(p)
    BY StaticPlaces DEF Done, Kept
  <2>3. Total(Done(p, <<>>)) = FirstLoad(p)
    BY Zenon, <2>2 DEF FirstLoad
  <2> QED
    BY <2>1, <2>3
<1> QED
  BY <1>1, <1>2 DEF Lightened, load

\* What one move more leaves to a rank.
LEMMA DoneAfter ==
  ASSUME NEW m \in Seq(MoveOf), NEW x \in MoveOf, NEW p \in Proc
  PROVE  /\ Done(p, m) \subseteq Gid
         /\ x.dst # p => Done(p, Append(m, x)) \subseteq Done(p, m)
         /\ Done(p, Append(m, x)) \subseteq Done(p, m) \cup {x.gid}
<1> DEFINE y == Append(m, x)
           n == Len(m)
<1>1. /\ n \in Nat /\ DOMAIN m = 1..n /\ DOMAIN y = 1..(n + 1) /\ Len(y) = n + 1
      /\ y[n + 1] = x /\ \A i \in 1..n : y[i] = m[i]
  OBVIOUS
<1> HIDE DEF y, n
<1>2. ASSUME NEW g \in Done(p, y) PROVE g \in Done(p, m) \/ (x.dst = p /\ g = x.gid)
  <2>1. g \in Gid
    BY DEF Done, Kept
  <2>2. CASE StaticRank(g) = p /\ \A i \in DOMAIN y : y[i].gid = g => Len(y) + 1 <= i
    <3>1. \A i \in DOMAIN m : m[i].gid = g => Len(m) + 1 <= i
      BY <1>1, <2>2 DEF n
    <3> QED
      BY <2>1, <2>2, <3>1 DEF Done, Kept
  <2>3. CASE \E i \in DOMAIN y : y[i].gid = g /\ y[i].dst = p /\ i < Len(y) + 1
    <3>1. PICK i \in DOMAIN y : y[i].gid = g /\ y[i].dst = p
      BY <2>3
    <3>2. CASE i = n + 1
      BY <1>1, <3>1, <3>2
    <3>3. CASE i # n + 1
      <4>1. i \in DOMAIN m /\ m[i].gid = g /\ m[i].dst = p /\ i < Len(m) + 1
        BY <1>1, <3>1, <3>3 DEF n
      <4> QED
        BY <2>1, <4>1 DEF Done, Kept
    <3> QED
      BY <3>2, <3>3
  <2> QED
    BY <2>2, <2>3 DEF Done, Kept
<1>3. Done(p, m) \subseteq Gid
  BY DEF Done, Kept
<1> QED
  BY <1>2, <1>3 DEF y

LEMMA LightenedStep ==
  ASSUME SetupOK, setup.balance, NoOverflow, NEW infos, Ready(infos), NEW p \in Proc,
         NEW w, w.load \in [Proc -> Nat], w.moves \in Seq(MoveOf), Lightened(w.load, w.moves)
  PROVE  Lightened(Walk(w, infos[p]).load, Walk(w, infos[p]).moves)
<1> DEFINE load == w.load
           m == w.moves
           dst == Lightest(load)
           top == infos[p].top_work
           move == [src |-> infos[p].proc_rank, dst |-> dst, gid |-> infos[p].top_gid]
           after == Walk(w, infos[p]).load
           y == Walk(w, infos[p]).moves
<1>1. CASE ~Gives(infos[p], dst, load)
  <2>1. Walk(w, infos[p]) = w
    BY Zenon, <1>1 DEF Walk
  <2> QED
    BY Zenon, <2>1
<1>2. CASE Gives(infos[p], dst, load)
  <2>1. /\ after = [load EXCEPT ![dst] = (@ + top) % WorkSize]
        /\ y = Append(m, move)
    BY <1>2, Zenon DEF Walk
  <2>2. dst \in Proc /\ load[dst] <= load[p] /\ load[dst] \in Nat /\ load[p] \in Nat
    BY LightestLoad
  <2>3. /\ infos[p].nlids > 1 /\ Minus(infos[p].proc_work, load[dst]) > top
        /\ infos[p].proc_rank = p /\ top \in Nat
        /\ infos[p].top_gid \in local_gids(p) /\ top = setup.work[infos[p].top_gid + 1]
    BY <1>2 DEF Gives, Ready, InfoOK
  <2>4. infos[p].top_gid \in Gid
    BY <2>3, StaticPlaces
  <2>5. move \in MoveOf /\ move.src = p /\ move.dst = dst /\ move.gid = infos[p].top_gid
    BY <2>2, <2>3, <2>4 DEF MoveOf
  <2>6. /\ FirstLoad(p) \in Nat /\ FirstLoad(p) < WorkSize /\ infos[p].proc_work = FirstLoad(p)
    BY FirstWork
  <2>7. load \in [Proc -> Nat] /\ m \in Seq(MoveOf) /\ Lightened(load, m)
    OBVIOUS
  <2> HIDE DEF load, m, dst, top, move, after, y
  <2>8. /\ Len(m) \in Nat /\ DOMAIN m = 1..Len(m) /\ DOMAIN y = 1..(Len(m) + 1)
        /\ y[Len(m) + 1] = move /\ \A i \in 1..Len(m) : y[i] = m[i]
    BY <2>1, <2>7
  <2> SUFFICES ASSUME NoRelays(y)
               PROVE  \A q \in Proc : /\ (\A i \in DOMAIN y : y[i].dst # q) => after[q] = FirstLoad(q)
                                      /\ \E r \in Proc : after[q] <= FirstLoad(r)
                                      /\ Total(Done(q, y)) <= after[q]
    BY DEF Lightened, after, y
  <2>9. NoRelays(m) /\ \A i \in DOMAIN m : m[i].dst # p
    <3>1. \A i, j \in DOMAIN m : i < j => m[i].dst # m[j].src
      BY <2>8 DEF NoRelays
    <3>2. \A i \in DOMAIN m : i \in DOMAIN y /\ Len(m) + 1 \in DOMAIN y /\ i < Len(m) + 1 /\ y[i] = m[i]
      BY <2>8
    <3>3. \A i \in DOMAIN m : m[i].dst # move.src
      BY <2>8, <3>2 DEF NoRelays
    <3> QED
      BY <2>5, <3>1, <3>3 DEF NoRelays
  <2>10. ASSUME NEW q \in Proc
         PROVE  /\ (\A i \in DOMAIN m : m[i].dst # q) => load[q] = FirstLoad(q)
                /\ \E r \in Proc : load[q] <= FirstLoad(r)
                /\ Total(Done(q, m)) <= load[q]
    BY <2>7, <2>9 DEF Lightened
  <2>11. load[dst] + top < FirstLoad(p) /\ after[dst] = load[dst] + top
    <3>1. load[p] = FirstLoad(p)
      BY <2>9, <2>10
    <3> DEFINE a == FirstLoad(p)
               b == load[dst]
    <3>0. a \in Nat /\ b \in Nat /\ top \in Nat /\ b <= a /\ a < WorkSize /\ WorkSize \in Nat
      BY <2>2, <2>3, <2>6, <3>1, BalanceAssumption
    <3>2. (a - b) % WorkSize > top
      BY <2>3, <2>6 DEF Minus
    <3>3. b + top < a /\ (b + top) % WorkSize = b + top
      <4> HIDE DEF a, b
      <4>1. a - b \in Nat /\ a - b < WorkSize
        BY <3>0
      <4>2. (a - b) % WorkSize = a - b
        BY <3>0, <4>1, SmallRemainder
      <4>3. b + top \in Nat /\ b + top < a /\ b + top < WorkSize
        BY <3>0, <3>2, <4>2
      <4> QED
        BY <3>0, <4>3, SmallRemainder
    <3> QED
      BY <2>1, <2>2, <2>7, <3>3
  <2>12. ASSUME NEW q \in Proc
         PROVE  /\ Done(q, m) \subseteq Gid
                /\ dst # q => Done(q, y) \subseteq Done(q, m)
                /\ Done(q, y) \subseteq Done(q, m) \cup {move.gid}
    BY <2>1, <2>5, <2>7, DoneAfter
  <2>13. ASSUME NEW q \in Proc, q # dst
         PROVE  /\ (\A i \in DOMAIN y : y[i].dst # q) => after[q] = FirstLoad(q)
                /\ \E r \in Proc : after[q] <= FirstLoad(r)
                /\ Total(Done(q, y)) <= after[q]
    <3>1. after[q] = load[q] /\ load[q] \in Nat
      BY <2>1, <2>7, <2>13
    <3>2. (\A i \in DOMAIN y : y[i].dst # q) => \A i \in DOMAIN m : m[i].dst # q
      BY <2>8
    <3>3. Total(Done(q, y)) <= Total(Done(q, m)) /\ Total(Done(q, y)) \in Nat /\ Total(Done(q, m)) \in Nat
      <4>1. Done(q, y) \subseteq Done(q, m) /\ Done(q, m) \subseteq Gid /\ Done(q, y) \subseteq Gid
        BY <2>12, <2>13
      <4> QED
        BY <4>1, TotalGrows, TotalFacts
    <3>4. Total(Done(q, y)) <= load[q]
      BY <2>10, <3>1, <3>3
    <3> QED
      BY <2>10, <3>1, <3>2, <3>4
  <2>14. /\ ~\A i \in DOMAIN y : y[i].dst # dst
         /\ \E r \in Proc : after[dst] <= FirstLoad(r)
         /\ Total(Done(dst, y)) <= after[dst]
    <3>1. ~\A i \in DOMAIN y : y[i].dst # dst
      BY <2>5, <2>8
    <3>2. after[dst] <= FirstLoad(p)
      BY <2>2, <2>3, <2>6, <2>11
    <3> DEFINE S == Done(dst, y)
               T == Done(dst, m)
               g == move.gid
    <3>3. T \subseteq Gid /\ g \in Gid /\ S \subseteq T \cup {g} /\ T \cup {g} \subseteq Gid /\ S \subseteq Gid
          /\ setup.work[g + 1] = top
      BY <2>2, <2>3, <2>4, <2>5, <2>12
    <3>4. Total(T) <= load[dst]
      BY <2>2, <2>10
    <3> HIDE DEF S, T, g
    <3>5. /\ Total(S) \in Nat /\ Total(T) \in Nat /\ Total(T \cup {g}) \in Nat
          /\ Total(S) <= Total(T \cup {g})
      BY <3>3, TotalFacts, TotalGrows
    <3>6. Total(T \cup {g}) <= Total(T) + setup.work[g + 1]
      BY <3>3, TotalOfOneMore
    <3>7. Total(S) <= after[dst]
      BY <2>2, <2>3, <2>11, <3>3, <3>4, <3>5, <3>6
    <3> QED
      BY <3>1, <3>2, <3>7 DEF S
  <2> QED
    BY <2>13, <2>14
<1> QED
  BY <1>1, <1>2

LEMMA DecisionHelps ==
  ASSUME SetupOK, setup.balance, NoOverflow, NEW infos, Ready(infos),
         NEW m, m = decide_move_info(infos), NoRelays(m), NEW p \in Proc
  PROVE  \E q \in Proc : Total(Done(p, m)) <= FirstLoad(q)
<1> DEFINE order == Sorted(infos)
<1> PICK walk : IsWalk(walk, infos)
  BY DecideWalk
<1> DEFINE P == {n \in 0..NProc : Lightened(walk[n].load, walk[n].moves)}
<1>1. NProc \in Nat /\ order \in [1..NProc -> Proc]
  BY SortedOrder, BalanceAssumption
<1>2. ASSUME NEW n \in 0..NProc PROVE walk[n].load \in [Proc -> Nat] /\ walk[n].moves \in Seq(MoveOf)
  BY DEF IsWalk, WalkOK
<1>3. 0 \in P
  <2>1. walk[0] = WalkStart(infos)
    BY DEF IsWalk
  <2> QED
    BY <1>1, <2>1, LightenedStart
<1>4. ASSUME NEW n \in 0..(NProc - 1), n \in P PROVE n + 1 \in P
  <2>1. n \in 0..NProc /\ n + 1 \in 0..NProc /\ order[n + 1] \in Proc
    BY <1>1
  <2>2. walk[n + 1] = Walk(walk[n], infos[order[n + 1]])
    BY DEF IsWalk
  <2> PICK w : w = walk[n]
    OBVIOUS
  <2> PICK q \in Proc : q = order[n + 1]
    BY <2>1
  <2>3. w.load \in [Proc -> Nat] /\ w.moves \in Seq(MoveOf) /\ Lightened(w.load, w.moves)
    BY <1>2, <1>4, <2>1
  <2>4. Lightened(Walk(w, infos[q]).load, Walk(w, infos[q]).moves)
    BY <2>3, LightenedStep
  <2> QED
    BY <2>1, <2>2, <2>4
<1> HIDE DEF P
<1>5. NProc \in P
  <2>1. 0..NProc \subseteq P
    BY <1>1, <1>3, <1>4, InductionTo
  <2> QED
    BY <1>1, <2>1
<1>6. m = walk[NProc].moves
  BY DEF IsWalk
<1> PICK load : load = walk[NProc].load
  OBVIOUS
<1>7. Lightened(load, m) /\ load \in [Proc -> Nat]
  BY <1>1, <1>2, <1>5, <1>6 DEF P
<1>8. PICK q \in Proc : load[p] <= FirstLoad(q) /\ Total(Done(p, m)) <= load[p]
  BY <1>7 DEF Lightened
<1>9. load[p] \in Nat /\ FirstLoad(q) \in Nat /\ Total(Done(p, m)) \in Nat
  <2>1. Done(p, m) \subseteq Gid
    BY DEF Done, Kept
  <2> QED
    BY <1>7, <2>1, FirstWork, TotalFacts
<1> QED
  BY <1>8, <1>9

LEMMA BalanceImpliesHelps ==
  ASSUME SetupOK, BalanceInv
  PROVE  BalanceHelps
<1> SUFFICES ASSUME Balanced, setup.balance, NoOverflow, Relays = {}
             PROVE  Heaviest(blocks) <= Heaviest([p \in Proc |-> local_gids(p)])
  BY DEF BalanceHelps
<1> PICK M : M = Moves
  OBVIOUS
<1> PICK n : n = next_move
  OBVIOUS
<1> PICK infos : infos = all_work_info
  OBVIOUS
<1>1. \A p \in Proc : HasMoved(p) /\ Stage(p) /\ pc[p] # "decompose"
  BY DEF Balanced, HasMoved, HasDecided, BalanceInv, StagesInv
<1>2. Gathered /\ M = decide_move_info(infos) /\ Ready(infos)
  <2>1. Gathered
    BY <1>1, ProcFinite DEF Stage, HasMoved
  <2>2. Ready(infos)
    BY <1>1, <2>1 DEF Stage, Gathered, Ready
  <2> QED
    BY <2>1, <2>2 DEF Moves
<1>3. \A p \in Proc : all_move_info[p] = M /\ n[p] = Len(M) + 1
  BY <1>1 DEF Stage, HasMoved
<1>4. \A p \in Proc : blocks[p] = Done(p, M)
  BY <1>1, <1>3, InvFacts DEF Done
<1>5. NoRelays(M)
  <2>1. \A i \in DOMAIN M : M[i].dst \in Proc
    BY InvFacts
  <2>2. ASSUME NEW i \in DOMAIN M, NEW j \in DOMAIN M, i < j, M[i].dst = M[j].src PROVE FALSE
    <3>1. M[i].dst \in Relays
      BY <1>3, <2>1, <2>2 DEF Relays
    <3> QED
      BY <3>1
  <2> QED
    BY <2>2 DEF NoRelays
<1>6. ASSUME NEW p \in Proc
      PROVE  /\ FirstLoad(p) \in 0..(WorkSize - 1)
             /\ \E q \in Proc : Total(blocks[p]) <= FirstLoad(q)
             /\ Total(blocks[p]) \in Nat
  <2>1. FirstLoad(p) \in Nat /\ FirstLoad(p) < WorkSize
    BY <1>2, FirstWork
  <2>2. \E q \in Proc : Total(blocks[p]) <= FirstLoad(q)
    BY <1>2, <1>4, <1>5, DecisionHelps
  <2>3. blocks[p] \subseteq Gid
    BY <1>4 DEF Done, Kept
  <2>4. Total(blocks[p]) \in Nat
    BY <2>3, TotalFacts
  <2> QED
    BY <2>1, <2>2, <2>4, BalanceAssumption
<1> DEFINE A == {Total(blocks[p]) : p \in Proc}
           B == {FirstLoad(p) : p \in Proc}
<1>7. A \subseteq 0..(WorkSize - 1) /\ A # {} /\ B \subseteq 0..(WorkSize - 1) /\ B # {} /\ WorkSize - 1 \in Nat
  <2>1. WorkSize - 1 \in Nat
    BY BalanceAssumption
  <2>2. ASSUME NEW p \in Proc PROVE Total(blocks[p]) \in 0..(WorkSize - 1)
    <3>1. PICK q \in Proc : Total(blocks[p]) <= FirstLoad(q)
      BY <1>6
    <3>2. FirstLoad(q) \in 0..(WorkSize - 1) /\ Total(blocks[p]) \in Nat
      BY <1>6
    <3> QED
      BY <2>1, <3>1, <3>2
  <2>3. \A p \in Proc : FirstLoad(p) \in 0..(WorkSize - 1)
    BY <1>6
  <2>4. 0 \in Proc
    BY ProcFinite
  <2> QED
    BY <2>1, <2>2, <2>3, <2>4
<1>8. \A x \in A : \E y \in B : x <= y
  BY <1>6
<1>9. Heaviest(blocks) = Max(A) /\ Heaviest([p \in Proc |-> local_gids(p)]) = Max(B)
  <2>1. {Total([q \in Proc |-> local_gids(q)][p]) : p \in Proc} = B
    BY DEF FirstLoad
  <2> HIDE DEF B
  <2> QED
    BY Zenon, <2>1 DEF Heaviest
<1> HIDE DEF A, B
<1>10. Max(A) \in A /\ Max(B) \in B /\ \A y \in B : Max(B) >= y
  BY <1>7, GreatestBounds
<1>11. PICK y \in B : Max(A) <= y
  BY <1>8, <1>10
<1>12. Max(A) \in Int /\ Max(B) \in Int /\ y \in Int /\ Max(B) >= y
  <2>1. \A x \in 0..(WorkSize - 1) : x \in Int
    OBVIOUS
  <2> QED
    BY <1>7, <1>10, <2>1
<1>13. Max(A) <= Max(B)
  BY <1>11, <1>12
<1> QED
  BY <1>9, <1>13
=============================================================================
