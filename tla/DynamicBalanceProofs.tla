------------------------ MODULE DynamicBalanceProofs ------------------------
(***************************************************************************)
(* Proofs about module DynamicBalance, for any ranks, blocks, links, works *)
(* and numbers of samples.                                                 *)
(***************************************************************************)
EXTENDS DynamicBalance, SequenceTheorems, FunctionTheorems, FiniteSetTheorems, WellFoundedInduction, TLAPS

(***************************************************************************)
(* Numbers, sets and sequences.                                            *)
(***************************************************************************)
LEMMA LeastNumber ==
  ASSUME NEW S, S \subseteq Nat, S # {}
  PROVE  Min(S) \in S
<1>1. PICK x \in S : \A y \in S : ~(<<y, x>> \in OpToRel(<, Nat))
  BY NatLessThanWellFounded, WFMin
<1>2. \A y \in S : ~(y < x)
  BY <1>1 DEF OpToRel
<1>3. \E z \in S : \A y \in S : z =< y
  BY <1>2
<1> QED
  BY <1>3, Zenon DEF Min

LEMMA FiniteImage ==
  ASSUME NEW S, IsFiniteSet(S), NEW g, DOMAIN g = S
  PROVE  IsFiniteSet({g[x] : x \in S})
<1>1. [x \in S |-> g[x]] \in Surjection(S, {g[x] : x \in S})
  BY DEF Surjection
<1> QED
  BY <1>1, FS_Surjection

LEMMA ToSetOf ==
  ASSUME NEW S, NEW s \in Seq(S)
  PROVE  /\ DOMAIN s = 1..Len(s) /\ Len(s) \in Nat
         /\ \A x : x \in ToSet(s) <=> \E i \in 1..Len(s) : s[i] = x
         /\ ToSet(s) \subseteq S
<1>1. DOMAIN s = 1..Len(s) /\ Len(s) \in Nat
  BY LenProperties
<1>2. \A i \in 1..Len(s) : s[i] \in S
  BY ElementOfSeq
<1> QED
  BY <1>1, <1>2 DEF ToSet

\* The last element in the place of another.
LEMMA WithoutOne ==
  ASSUME NEW S, NEW s \in Seq(S), NEW i \in 1..Len(s)
  PROVE  /\ Without(s, i) \in Seq(S)
         /\ Len(Without(s, i)) = Len(s) - 1
         /\ DOMAIN Without(s, i) = 1..(Len(s) - 1)
         /\ \A j \in 1..(Len(s) - 1) : Without(s, i)[j] = IF j = i THEN s[Len(s)] ELSE s[j]
<1> DEFINE t == [s EXCEPT ![i] = Last(s)]
<1>1. Len(s) \in Nat /\ Len(s) \in 1..Len(s)
  BY LenProperties
<1>2. Last(s) = s[Len(s)] /\ Last(s) \in S
  BY <1>1, ElementOfSeq DEF Last
<1>3. t \in Seq(S) /\ Len(t) = Len(s) /\ \A j \in 1..Len(s) : t[j] = IF j = i THEN Last(s) ELSE s[j]
  BY <1>2, ExceptSeq
<1> HIDE DEF t
<1>4. \A j \in 1..(Len(s) - 1) : t[j] \in S
  BY <1>1, <1>3, ElementOfSeq
<1>5. /\ SubSeq(t, 1, Len(s) - 1) \in Seq(S)
      /\ Len(SubSeq(t, 1, Len(s) - 1)) = IF 1 <= Len(s) - 1 THEN Len(s) - 1 ELSE 0
      /\ \A j \in 1..(Len(s) - 1) : SubSeq(t, 1, Len(s) - 1)[j] = t[j]
  BY <1>1, <1>4, SubSeqProperties, Z3
<1> DEFINE u == SubSeq(t, 1, Len(s) - 1)
<1>6. Without(s, i) = u
  BY <1>3 DEF Without, Front, t
<1> HIDE DEF u
<1>7. /\ Without(s, i) \in Seq(S) /\ Len(Without(s, i)) = Len(s) - 1
      /\ \A j \in 1..(Len(s) - 1) : Without(s, i)[j] = t[j]
  <2>1. /\ u \in Seq(S) /\ Len(u) = IF 1 <= Len(s) - 1 THEN Len(s) - 1 ELSE 0
        /\ \A j \in 1..(Len(s) - 1) : u[j] = t[j]
    BY <1>5 DEF u
  <2>2. (IF 1 <= Len(s) - 1 THEN Len(s) - 1 ELSE 0) = Len(s) - 1
    <3>1. \A n \in 1..Len(s) : (IF 1 <= n - 1 THEN n - 1 ELSE 0) = n - 1
      OBVIOUS
    <3> QED
      BY <1>1, <3>1
  <2> QED
    BY <1>6, <2>1, <2>2
<1>8. DOMAIN Without(s, i) = 1..(Len(s) - 1)
  BY <1>7, LenProperties
<1> QED
  BY <1>1, <1>2, <1>3, <1>7, <1>8

LEMMA AppendOne ==
  ASSUME NEW S, NEW s \in Seq(S), NEW e \in S
  PROVE  /\ Append(s, e) \in Seq(S)
         /\ Len(Append(s, e)) = Len(s) + 1 /\ DOMAIN Append(s, e) = 1..(Len(s) + 1)
         /\ \A i \in 1..Len(s) : Append(s, e)[i] = s[i]
         /\ Append(s, e)[Len(s) + 1] = e
         /\ ToSet(Append(s, e)) = ToSet(s) \cup {e}
<1>1. /\ Append(s, e) \in Seq(S) /\ Len(Append(s, e)) = Len(s) + 1
      /\ \A i \in 1..Len(s) : Append(s, e)[i] = s[i]
      /\ Append(s, e)[Len(s) + 1] = e
      /\ Len(s) \in Nat
  BY AppendProperties, LenProperties
<1>2. DOMAIN Append(s, e) = 1..(Len(s) + 1)
  BY <1>1, LenProperties
<1>3. ASSUME NEW x PROVE x \in ToSet(Append(s, e)) <=> x \in ToSet(s) \cup {e}
  <2>1. x \in ToSet(Append(s, e)) <=> \E i \in 1..(Len(s) + 1) : Append(s, e)[i] = x
    BY <1>2 DEF ToSet
  <2>2. x \in ToSet(s) <=> \E i \in 1..Len(s) : s[i] = x
    BY ToSetOf
  <2>3. \A i \in 1..(Len(s) + 1) : i \in 1..Len(s) \/ i = Len(s) + 1
    BY <1>1
  <2>4. \A i \in 1..Len(s) : i \in 1..(Len(s) + 1)
    BY <1>1
  <2>5. Len(s) + 1 \in 1..(Len(s) + 1)
    BY <1>1
  <2> QED
    BY <1>1, <2>1, <2>2, <2>3, <2>4, <2>5
<1> QED
  BY <1>1, <1>2, <1>3
-----------------------------------------------------------------------------
(***************************************************************************)
(* The work of free blocks.                                                *)
(***************************************************************************)
LEMMA FreeFinite ==
  ASSUME NEW S, S \subseteq FreeBlock
  PROVE  IsFiniteSet(S)
<1> DEFINE g == [x \in Block \X Proc |-> [gid |-> x[1], src_proc |-> x[2]]]
<1>1. IsFiniteSet(Block \X Proc)
  BY DynamicAssumption, FS_Product
<1>2. g \in Surjection(Block \X Proc, FreeBlock)
  <2>1. \A x \in Block \X Proc : g[x] \in FreeBlock
    BY DEF FreeBlock
  <2>2. ASSUME NEW f \in FreeBlock PROVE \E x \in Block \X Proc : g[x] = f
    <3>1. <<f.gid, f.src_proc>> \in Block \X Proc /\ f = [gid |-> f.gid, src_proc |-> f.src_proc]
      BY DEF FreeBlock
    <3>2. g[<<f.gid, f.src_proc>>] = f
      BY <3>1
    <3> QED
      BY <3>1, <3>2
  <2> QED
    BY <2>1, <2>2 DEF Surjection
<1>3. IsFiniteSet(FreeBlock)
  BY <1>1, <1>2, FS_Surjection
<1> QED
  BY <1>3, FS_Subset

LEMMA TotalWork ==
  ASSUME NEW S, S \subseteq FreeBlock
  PROVE  /\ Total(S) \in Nat
         /\ \A f \in FreeBlock \ S : Total(S \cup {f}) = Total(S) + Work(f)
         /\ \A f \in S : Total(S \ {f}) = Total(S) - Work(f)
<1> DEFINE Units(T) == UNION {{f} \X (1..WorkOf[f.gid]) : f \in T}
<1>1. ASSUME NEW f \in FreeBlock
      PROVE  /\ Work(f) \in Nat /\ IsFiniteSet({f} \X (1..WorkOf[f.gid]))
             /\ Cardinality({f} \X (1..WorkOf[f.gid])) = Work(f)
  <2>1. Work(f) \in Nat /\ Work(f) = WorkOf[f.gid]
    BY DynamicAssumption DEF FreeBlock, Work
  <2>2. IsFiniteSet(1..WorkOf[f.gid]) /\ Cardinality(1..WorkOf[f.gid]) = Work(f)
    <3>1. /\ IsFiniteSet(1..Work(f))
          /\ Cardinality(1..Work(f)) = IF 1 > Work(f) THEN 0 ELSE Work(f) - 1 + 1
      BY <2>1, FS_Interval
    <3> QED
      BY <2>1, <3>1
  <2>3. IsFiniteSet({f}) /\ Cardinality({f}) = 1
    BY FS_Singleton
  <2> DEFINE A == {f}
             B == 1..WorkOf[f.gid]
  <2>4. IsFiniteSet(A \X B) /\ Cardinality(A \X B) = Cardinality(A) * Cardinality(B)
    <3> HIDE DEF A, B
    <3>1. IsFiniteSet(A) /\ IsFiniteSet(B)
      BY <2>2, <2>3 DEF A, B
    <3> QED
      BY <3>1, FS_Product
  <2>5. Cardinality(A) * Cardinality(B) = Work(f)
    <3> HIDE DEF A, B
    <3>1. Cardinality(A) = 1 /\ Cardinality(B) = Work(f)
      BY <2>2, <2>3 DEF A, B
    <3> QED
      BY <2>1, <3>1
  <2> QED
    BY <2>1, <2>4, <2>5
<1>2. ASSUME NEW T, T \subseteq FreeBlock PROVE IsFiniteSet(Units(T))
  <2> DEFINE g == [f \in T |-> {f} \X (1..WorkOf[f.gid])]
  <2>1. IsFiniteSet(T)
    BY <1>2, FreeFinite
  <2>2. IsFiniteSet({g[f] : f \in T})
    <3>1. DOMAIN g = T
      OBVIOUS
    <3> HIDE DEF g
    <3> QED
      BY <2>1, <3>1, FiniteImage
  <2>3. {g[f] : f \in T} = {{f} \X (1..WorkOf[f.gid]) : f \in T}
    OBVIOUS
  <2>4. \A U \in {{f} \X (1..WorkOf[f.gid]) : f \in T} : IsFiniteSet(U)
    BY <1>1, <1>2
  <2> HIDE DEF g
  <2> QED
    BY <2>2, <2>3, <2>4, FS_UNION
<1>3. ASSUME NEW T, T \subseteq FreeBlock, NEW f \in FreeBlock \ T
      PROVE  Total(T \cup {f}) = Total(T) + Work(f)
  <2>1. Units(T \cup {f}) = Units(T) \cup ({f} \X (1..WorkOf[f.gid]))
    OBVIOUS
  <2>2. Units(T) \cap ({f} \X (1..WorkOf[f.gid])) = {}
    <3> SUFFICES ASSUME NEW u \in Units(T), u \in {f} \X (1..WorkOf[f.gid]) PROVE FALSE
      OBVIOUS
    <3>1. PICK g \in T : u \in {g} \X (1..WorkOf[g.gid])
      OBVIOUS
    <3> QED
      BY <1>3, <3>1
  <2>3. IsFiniteSet(Units(T))
    BY <1>2, <1>3
  <2> DEFINE A == Units(T)
             B == {f} \X (1..WorkOf[f.gid])
  <2>4. Cardinality(A \cup B) = Cardinality(A) + Cardinality(B) - Cardinality(A \cap B)
    <3>1. IsFiniteSet(A) /\ IsFiniteSet(B)
      BY <1>1, <2>3
    <3> HIDE DEF A, B
    <3> QED
      BY <3>1, FS_Union
  <2>5. Cardinality(A) \in Nat /\ Cardinality(A \cap B) = 0 /\ Cardinality(B) = Work(f) /\ Work(f) \in Nat
    BY <1>1, <2>2, <2>3, FS_CardinalityType, FS_EmptySet
  <2>6. Total(T \cup {f}) = Cardinality(A \cup B) /\ Total(T) = Cardinality(A)
    BY <2>1 DEF Total
  <2> HIDE DEF A, B
  <2> QED
    BY <2>4, <2>5, <2>6
<1>4. ASSUME NEW T, T \subseteq FreeBlock PROVE Total(T) \in Nat
  BY <1>2, <1>4, FS_CardinalityType DEF Total
<1>5. ASSUME NEW f \in S PROVE Total(S \ {f}) = Total(S) - Work(f)
  <2>1. (S \ {f}) \cup {f} = S /\ S \ {f} \subseteq FreeBlock /\ f \in FreeBlock \ (S \ {f})
    OBVIOUS
  <2>2. Total(S) = Total(S \ {f}) + Work(f)
    BY <1>3, <2>1
  <2>3. Total(S) \in Nat /\ Total(S \ {f}) \in Nat /\ Work(f) \in Nat
    BY <1>1, <1>4, <2>1
  <2> QED
    BY <2>2, <2>3
<1> QED
  BY <1>3, <1>4, <1>5

-----------------------------------------------------------------------------
(***************************************************************************)
(* The messages that are under way, c in the channels and o in the proxies.*)
(***************************************************************************)
Aux  == Seq(Msg) \ {<<>>}
Chan == [Proc \X Proc -> Seq(Aux)]
Out  == [Proc -> [Proc -> Seq(Msg)]]

Line(c, o, p, q) == Append(c[<<p, q>>], o[p][q])
Bears(m, b) == m.type = "block" /\ m.gid = b

Spots(c, o, b) == UNION {UNION {{<<p, q, i, j>> : j \in {k \in DOMAIN Line(c, o, p, q)[i] : Bears(Line(c, o, p, q)[i][k], b)}}
                                  : i \in DOMAIN Line(c, o, p, q)} : p, q \in Proc}

IsSpot(c, o, b, p, q, i, j) ==
  \/ i \in 1..Len(c[<<p, q>>]) /\ j \in 1..Len(c[<<p, q>>][i]) /\ Bears(c[<<p, q>>][i][j], b)
  \/ i = Len(c[<<p, q>>]) + 1 /\ j \in 1..Len(o[p][q]) /\ Bears(o[p][q][j], b)

LEMMA LineOf ==
  ASSUME NEW c \in Chan, NEW o \in Out, NEW p \in Proc, NEW q \in Proc
  PROVE  /\ c[<<p, q>>] \in Seq(Aux) /\ Len(c[<<p, q>>]) \in Nat
         /\ \A i \in 1..Len(c[<<p, q>>]) : c[<<p, q>>][i] \in Seq(Msg) /\ DOMAIN c[<<p, q>>][i] = 1..Len(c[<<p, q>>][i])
         /\ \A i \in 1..Len(c[<<p, q>>]) : Len(c[<<p, q>>][i]) \in Nat \ {0}
         /\ o[p][q] \in Seq(Msg) /\ DOMAIN o[p][q] = 1..Len(o[p][q]) /\ Len(o[p][q]) \in Nat
         /\ Line(c, o, p, q) \in Seq(Seq(Msg))
         /\ DOMAIN Line(c, o, p, q) = 1..(Len(c[<<p, q>>]) + 1)
         /\ \A i \in 1..Len(c[<<p, q>>]) : Line(c, o, p, q)[i] = c[<<p, q>>][i]
         /\ Line(c, o, p, q)[Len(c[<<p, q>>]) + 1] = o[p][q]
<1>1. c[<<p, q>>] \in Seq(Aux) /\ Len(c[<<p, q>>]) \in Nat
  BY LenProperties DEF Chan
<1>2. \A i \in 1..Len(c[<<p, q>>]) : c[<<p, q>>][i] \in Aux
  BY <1>1, ElementOfSeq
<1>3. \A i \in 1..Len(c[<<p, q>>]) : c[<<p, q>>][i] \in Seq(Msg) /\ DOMAIN c[<<p, q>>][i] = 1..Len(c[<<p, q>>][i])
  BY <1>2, LenProperties DEF Aux
<1>4. \A i \in 1..Len(c[<<p, q>>]) : Len(c[<<p, q>>][i]) \in Nat \ {0}
  BY <1>2, EmptySeq DEF Aux
<1>5. o[p][q] \in Seq(Msg)
  BY DEF Out
<1>6. DOMAIN o[p][q] = 1..Len(o[p][q]) /\ Len(o[p][q]) \in Nat
  BY <1>5, LenProperties
<1>7. c[<<p, q>>] \in Seq(Seq(Msg))
  BY <1>1, SeqMonotonic DEF Aux
<1>8. /\ Line(c, o, p, q) \in Seq(Seq(Msg))
      /\ DOMAIN Line(c, o, p, q) = 1..(Len(c[<<p, q>>]) + 1)
      /\ \A i \in 1..Len(c[<<p, q>>]) : Line(c, o, p, q)[i] = c[<<p, q>>][i]
      /\ Line(c, o, p, q)[Len(c[<<p, q>>]) + 1] = o[p][q]
  <2> DEFINE s == c[<<p, q>>]
             e == o[p][q]
  <2>1. s \in Seq(Seq(Msg)) /\ e \in Seq(Msg)
    BY <1>5, <1>7
  <2> HIDE DEF s, e
  <2>2. /\ Append(s, e) \in Seq(Seq(Msg)) /\ DOMAIN Append(s, e) = 1..(Len(s) + 1)
        /\ \A i \in 1..Len(s) : Append(s, e)[i] = s[i]
        /\ Append(s, e)[Len(s) + 1] = e
    BY <2>1, AppendOne
  <2> QED
    BY <2>2 DEF Line, s, e
<1> QED
  BY <1>1, <1>3, <1>4, <1>5, <1>6, <1>8

LEMMA SpotsMember ==
  ASSUME NEW c \in Chan, NEW o \in Out, NEW b, NEW w
  PROVE  w \in Spots(c, o, b) <=>
           \E p, q \in Proc : \E i, j \in Nat : w = <<p, q, i, j>> /\ IsSpot(c, o, b, p, q, i, j)
<1>1. w \in Spots(c, o, b) <=>
        \E p, q \in Proc : \E i \in DOMAIN Line(c, o, p, q) : \E j \in DOMAIN Line(c, o, p, q)[i] :
          w = <<p, q, i, j>> /\ Bears(Line(c, o, p, q)[i][j], b)
  <2> DEFINE M(p, q, i) == {<<p, q, i, j>> : j \in {k \in DOMAIN Line(c, o, p, q)[i] : Bears(Line(c, o, p, q)[i][k], b)}}
  <2>1. \A p, q, i : w \in M(p, q, i) <=>
          \E j \in DOMAIN Line(c, o, p, q)[i] : w = <<p, q, i, j>> /\ Bears(Line(c, o, p, q)[i][j], b)
    OBVIOUS
  <2>2. w \in Spots(c, o, b) <=> \E p, q \in Proc : \E i \in DOMAIN Line(c, o, p, q) : w \in M(p, q, i)
    <3> DEFINE L(p, q) == UNION {M(p, q, i) : i \in DOMAIN Line(c, o, p, q)}
    <3>1. w \in Spots(c, o, b) <=> w \in UNION {L(p, q) : p, q \in Proc}
      BY DEF Spots
    <3> HIDE DEF M
    <3>2. \A p, q : w \in L(p, q) <=> \E i \in DOMAIN Line(c, o, p, q) : w \in M(p, q, i)
      OBVIOUS
    <3> HIDE DEF L
    <3>3. w \in UNION {L(p, q) : p, q \in Proc} <=> \E p, q \in Proc : w \in L(p, q)
      OBVIOUS
    <3> QED
      BY <3>1, <3>2, <3>3
  <2> HIDE DEF M
  <2> QED
    BY <2>1, <2>2
<1>2. ASSUME NEW p \in Proc, NEW q \in Proc
      PROVE  (\E i \in DOMAIN Line(c, o, p, q) : \E j \in DOMAIN Line(c, o, p, q)[i] :
               w = <<p, q, i, j>> /\ Bears(Line(c, o, p, q)[i][j], b))
             <=> \E i, j \in Nat : w = <<p, q, i, j>> /\ IsSpot(c, o, b, p, q, i, j)
  <2> DEFINE n == Len(c[<<p, q>>])
             l == Line(c, o, p, q)
  <2>1. /\ n \in Nat /\ DOMAIN l = 1..(n + 1)
        /\ \A i \in 1..n : l[i] = c[<<p, q>>][i] /\ DOMAIN c[<<p, q>>][i] = 1..Len(c[<<p, q>>][i])
        /\ l[n + 1] = o[p][q] /\ DOMAIN o[p][q] = 1..Len(o[p][q])
        /\ \A i \in 1..n : Len(c[<<p, q>>][i]) \in Nat
        /\ Len(o[p][q]) \in Nat
    <3>1. n \in Nat
      BY LineOf
    <3>2. DOMAIN l = 1..(n + 1)
      BY LineOf
    <3>3. \A i \in 1..n : l[i] = c[<<p, q>>][i]
      BY LineOf
    <3>4. \A i \in 1..n : DOMAIN c[<<p, q>>][i] = 1..Len(c[<<p, q>>][i])
      BY LineOf
    <3>5. l[n + 1] = o[p][q] /\ DOMAIN o[p][q] = 1..Len(o[p][q]) /\ Len(o[p][q]) \in Nat
      BY LineOf
    <3>6. \A i \in 1..n : Len(c[<<p, q>>][i]) \in Nat \ {0}
      BY LineOf
    <3> HIDE DEF l, n
    <3> QED
      BY <3>1, <3>2, <3>3, <3>4, <3>5, <3>6
  <2> HIDE DEF l, n
  <2>2. \A i, j \in Nat : IsSpot(c, o, b, p, q, i, j) <=> i \in DOMAIN l /\ j \in DOMAIN l[i] /\ Bears(l[i][j], b)
    <3> SUFFICES ASSUME NEW i \in Nat, NEW j \in Nat
                 PROVE  IsSpot(c, o, b, p, q, i, j) <=> i \in DOMAIN l /\ j \in DOMAIN l[i] /\ Bears(l[i][j], b)
      OBVIOUS
    <3>1. CASE i \in 1..n
      <4>1. i # n + 1 /\ i \in DOMAIN l /\ l[i] = c[<<p, q>>][i] /\ DOMAIN l[i] = 1..Len(c[<<p, q>>][i])
        BY <2>1, <3>1
      <4> QED
        BY <3>1, <4>1 DEF IsSpot, n
    <3>2. CASE i = n + 1
      <4>1. i \notin 1..n /\ i \in DOMAIN l /\ l[i] = o[p][q] /\ DOMAIN l[i] = 1..Len(o[p][q])
        BY <2>1, <3>2
      <4> QED
        BY <3>2, <4>1 DEF IsSpot, n
    <3>3. CASE i \notin 1..(n + 1)
      <4>1. i \notin 1..n /\ i # n + 1 /\ i \notin DOMAIN l
        BY <2>1, <3>3
      <4> QED
        BY <4>1 DEF IsSpot, n
    <3> QED
      BY <2>1, <3>1, <3>2, <3>3
  <2>3. \A i \in DOMAIN l : i \in Nat /\ \A j \in DOMAIN l[i] : j \in Nat
    <3> SUFFICES ASSUME NEW i \in DOMAIN l PROVE i \in Nat /\ \A j \in DOMAIN l[i] : j \in Nat
      OBVIOUS
    <3>1. i \in 1..n \/ i = n + 1
      BY <2>1
    <3> QED
      BY <2>1, <3>1
  <2> QED
    BY <2>2, <2>3 DEF l
<1> QED
  BY <1>1, <1>2, Zenon

LEMMA SpotsFinite ==
  ASSUME NEW c \in Chan, NEW o \in Out, NEW b
  PROVE  IsFiniteSet(Spots(c, o, b))
<1> DEFINE M(p, q, i) == {<<p, q, i, j>> : j \in {k \in DOMAIN Line(c, o, p, q)[i] : Bears(Line(c, o, p, q)[i][k], b)}}
           L(p, q) == UNION {M(p, q, i) : i \in DOMAIN Line(c, o, p, q)}
<1>1. ASSUME NEW p \in Proc, NEW q \in Proc PROVE IsFiniteSet(L(p, q))
  <2>1. ASSUME NEW i \in DOMAIN Line(c, o, p, q) PROVE IsFiniteSet(M(p, q, i))
    <3> DEFINE J == {k \in DOMAIN Line(c, o, p, q)[i] : Bears(Line(c, o, p, q)[i][k], b)}
               g == [j \in J |-> <<p, q, i, j>>]
    <3>1. DOMAIN Line(c, o, p, q)[i] = 1..Len(Line(c, o, p, q)[i]) /\ Len(Line(c, o, p, q)[i]) \in Nat
      <4>1. Line(c, o, p, q) \in Seq(Seq(Msg))
        BY LineOf
      <4>2. Line(c, o, p, q)[i] \in Seq(Msg)
        BY <4>1, LenProperties, ElementOfSeq
      <4> QED
        BY <4>2, LenProperties
    <3>2. IsFiniteSet(DOMAIN Line(c, o, p, q)[i])
      <4>1. \A n \in Nat : IsFiniteSet(1..n)
        BY FS_Interval
      <4> QED
        BY <3>1, <4>1
    <3>3. IsFiniteSet(J)
      BY <3>2, FS_Subset
    <3>4. IsFiniteSet({g[j] : j \in J})
      <4> HIDE DEF J
      <4> QED
        BY <3>3, FiniteImage
    <3>5. {g[j] : j \in J} = M(p, q, i)
      OBVIOUS
    <3> QED
      BY <3>4, <3>5
  <2> DEFINE h == [i \in DOMAIN Line(c, o, p, q) |-> M(p, q, i)]
  <2>2. IsFiniteSet(DOMAIN Line(c, o, p, q))
    <3>1. \A n \in Nat : IsFiniteSet(1..n)
      BY FS_Interval
    <3>2. Len(c[<<p, q>>]) \in Nat
      BY LineOf
    <3>3. DOMAIN Line(c, o, p, q) = 1..(Len(c[<<p, q>>]) + 1)
      BY LineOf
    <3>4. Len(c[<<p, q>>]) + 1 \in Nat
      BY <3>2
    <3> QED
      BY <3>1, <3>3, <3>4
  <2>3. IsFiniteSet({h[i] : i \in DOMAIN Line(c, o, p, q)})
    <3> HIDE DEF M
    <3> QED
      BY <2>2, FiniteImage
  <2>4. {h[i] : i \in DOMAIN Line(c, o, p, q)} = {M(p, q, i) : i \in DOMAIN Line(c, o, p, q)}
    <3> HIDE DEF M
    <3> QED
      OBVIOUS
  <2> HIDE DEF M, h
  <2>5. \A T \in {M(p, q, i) : i \in DOMAIN Line(c, o, p, q)} : IsFiniteSet(T)
    BY <2>1
  <2> QED
    BY <2>3, <2>4, <2>5, FS_UNION
<1> DEFINE g == [x \in Proc \X Proc |-> L(x[1], x[2])]
<1>2. IsFiniteSet(Proc \X Proc)
  BY DynamicAssumption, FS_Product
<1>3. IsFiniteSet({g[x] : x \in Proc \X Proc})
  <2>1. DOMAIN g = Proc \X Proc
    OBVIOUS
  <2> HIDE DEF L, g
  <2> QED
    BY <1>2, <2>1, FiniteImage
<1> HIDE DEF L
<1>4. IsFiniteSet({L(p, q) : p, q \in Proc})
  <2> DEFINE G == {g[x] : x \in Proc \X Proc}
             U == {L(p, q) : p, q \in Proc}
  <2>1. ASSUME NEW p \in Proc, NEW q \in Proc PROVE L(p, q) \in G
    <3>1. <<p, q>> \in Proc \X Proc /\ g[<<p, q>>] = L(p, q)
      OBVIOUS
    <3> HIDE DEF g
    <3> QED
      BY <3>1
  <2>2. \A x \in Proc \X Proc : g[x] \in U
    <3>1. \A x \in Proc \X Proc : x[1] \in Proc /\ x[2] \in Proc /\ g[x] = L(x[1], x[2])
      OBVIOUS
    <3> HIDE DEF g
    <3> QED
      BY <3>1
  <2>3. ASSUME NEW T \in U PROVE T \in G
    <3>1. PICK p \in Proc, q \in Proc : T = L(p, q)
      OBVIOUS
    <3> HIDE DEF G
    <3> QED
      BY <2>1, <3>1
  <2>4. ASSUME NEW T \in G PROVE T \in U
    <3> HIDE DEF g
    <3>1. PICK x \in Proc \X Proc : T = g[x]
      OBVIOUS
    <3> HIDE DEF U
    <3> QED
      BY <2>2, <3>1
  <2>5. G = U
    <3> HIDE DEF G, U
    <3> QED
      BY <2>3, <2>4
  <2>6. IsFiniteSet(G)
    BY <1>3
  <2>7. IsFiniteSet(U)
    <3> HIDE DEF G, U
    <3> QED
      BY <2>5, <2>6
  <2> QED
    BY <2>7
<1>5. \A T \in {L(p, q) : p, q \in Proc} : IsFiniteSet(T)
  BY <1>1
<1>6. IsFiniteSet(UNION {L(p, q) : p, q \in Proc})
  <2> DEFINE U == {L(p, q) : p, q \in Proc}
  <2>1. IsFiniteSet(U) /\ \A T \in U : IsFiniteSet(T)
    BY <1>4, <1>5
  <2> HIDE DEF U
  <2>2. IsFiniteSet(UNION U)
    BY <2>1, FS_UNION
  <2> QED
    BY <2>2 DEF U
<1> QED
  BY <1>6 DEF L, Spots

\* Message m is the j-th of the i-th queue from p to q.
Lies(c, o, p, q, i, j, m) ==
  \/ i \in 1..Len(c[<<p, q>>]) /\ j \in 1..Len(c[<<p, q>>][i]) /\ c[<<p, q>>][i][j] = m
  \/ i = Len(c[<<p, q>>]) + 1 /\ j \in 1..Len(o[p][q]) /\ o[p][q][j] = m

LEMMA LiesWhere ==
  ASSUME NEW c \in Chan, NEW o \in Out, NEW p \in Proc, NEW q \in Proc, NEW i, NEW j, NEW m, Lies(c, o, p, q, i, j, m)
  PROVE  i \in Nat \ {0} /\ j \in Nat \ {0} /\ m \in Msg
<1>1. Len(c[<<p, q>>]) \in Nat
  BY LineOf
<1>2. \A k \in 1..Len(c[<<p, q>>]) : c[<<p, q>>][k] \in Seq(Msg) /\ Len(c[<<p, q>>][k]) \in Nat
  BY LineOf
<1>3. o[p][q] \in Seq(Msg) /\ Len(o[p][q]) \in Nat
  BY LineOf
<1>4. CASE i \in 1..Len(c[<<p, q>>]) /\ j \in 1..Len(c[<<p, q>>][i]) /\ c[<<p, q>>][i][j] = m
  BY <1>1, <1>2, <1>4, ElementOfSeq
<1>5. CASE i = Len(c[<<p, q>>]) + 1 /\ j \in 1..Len(o[p][q]) /\ o[p][q][j] = m
  BY <1>1, <1>3, <1>5, ElementOfSeq
<1> QED
  BY <1>4, <1>5 DEF Lies

LEMMA SpotsAre ==
  ASSUME NEW c \in Chan, NEW o \in Out, NEW b, NEW w
  PROVE  w \in Spots(c, o, b) <=>
           \E p, q \in Proc : \E i, j \in Nat \ {0} : \E m \in Msg :
             w = <<p, q, i, j>> /\ Lies(c, o, p, q, i, j, m) /\ Bears(m, b)
<1>1. \A p, q \in Proc : \A i, j \in Nat : IsSpot(c, o, b, p, q, i, j) <=> \E m : Lies(c, o, p, q, i, j, m) /\ Bears(m, b)
  BY DEF IsSpot, Lies
<1>2. \A p, q \in Proc : \A i, j \in Nat : \A m : Lies(c, o, p, q, i, j, m) => i \in Nat \ {0} /\ j \in Nat \ {0} /\ m \in Msg
  BY LiesWhere
<1>3. \A i \in Nat \ {0} : i \in Nat
  OBVIOUS
<1> QED
  BY <1>1, <1>2, <1>3, SpotsMember

\* The place behind the last one.
Behind(c, o, p, q, i, j) == i = Len(c[<<p, q>>]) + 1 /\ j = Len(o[p][q]) + 1

\* What is enqueued is the last of its queue.
Adds(c, o, e, p, Q, new) ==
  \A r, q \in Proc : \A i, j, m : Lies(c, e, r, q, i, j, m) <=>
    \/ Lies(c, o, r, q, i, j, m)
    \/ r = p /\ q \in Q /\ Behind(c, o, p, q, i, j) /\ m = new

LEMMA LiesEnqueue ==
  ASSUME NEW c \in Chan, NEW o \in Out, NEW p \in Proc, NEW Q, Q \subseteq Proc, NEW new \in Msg,
         NEW e, e = Enqueue(o, p, Q, new)
  PROVE  /\ e \in Out
         /\ Adds(c, o, e, p, Q, new)
<1>1. \A r, q \in Proc : e[r][q] = IF r = p /\ q \in Q THEN Append(o[p][q], new) ELSE o[r][q]
  BY DEF Enqueue, Out
<1>2. DOMAIN e = Proc /\ \A r \in Proc : e[r] = [q \in Proc |-> e[r][q]]
  BY DEF Enqueue, Out
<1>4. e = [r \in Proc |-> e[r]]
  BY DEF Enqueue, Out
<1>5. ASSUME NEW q \in Proc
      PROVE  /\ Append(o[p][q], new) \in Seq(Msg) /\ Len(o[p][q]) \in Nat
             /\ Len(Append(o[p][q], new)) = Len(o[p][q]) + 1
             /\ \A j \in 1..Len(o[p][q]) : Append(o[p][q], new)[j] = o[p][q][j]
             /\ Append(o[p][q], new)[Len(o[p][q]) + 1] = new
  <2>1. o[p][q] \in Seq(Msg)
    BY DEF Out
  <2> QED
    BY <2>1, AppendProperties, LenProperties
<1>6. e \in Out
  <2>1. \A r, q \in Proc : e[r][q] \in Seq(Msg)
    BY <1>1, <1>5 DEF Out
  <2>2. \A r \in Proc : e[r] \in [Proc -> Seq(Msg)]
    BY <1>2, <2>1
  <2> QED
    BY <1>4, <2>2 DEF Out
<1>7. ASSUME NEW r \in Proc, NEW q \in Proc, NEW i, NEW j, NEW m
      PROVE  Lies(c, e, r, q, i, j, m) <=>
               \/ Lies(c, o, r, q, i, j, m)
               \/ r = p /\ q \in Q /\ Behind(c, o, p, q, i, j) /\ m = new
  <2>1. CASE ~(r = p /\ q \in Q)
    BY <1>1, <2>1 DEF Lies
  <2>2. CASE r = p /\ q \in Q
    <3> DEFINE n == Len(o[p][q])
    <3>1. e[r][q] = Append(o[p][q], new)
      BY <1>1, <2>2
    <3>2. n \in Nat /\ (j \in 1..(n + 1) <=> j \in 1..n \/ j = n + 1) /\ n + 1 \notin 1..n
      BY <1>5
    <3>3. j \in 1..Len(e[r][q]) /\ e[r][q][j] = m <=> (j \in 1..n /\ o[p][q][j] = m) \/ (j = n + 1 /\ m = new)
      <4>1. Len(e[r][q]) = n + 1
        BY <1>5, <3>1
      <4>2. CASE j \in 1..n
        BY <1>5, <3>1, <3>2, <4>1, <4>2
      <4>3. CASE j = n + 1
        BY <1>5, <3>1, <3>2, <4>1, <4>3
      <4>4. CASE j \notin 1..(n + 1)
        BY <3>2, <4>1, <4>4
      <4> QED
        BY <3>2, <4>2, <4>3, <4>4
    <3> QED
      BY <2>2, <3>3 DEF Lies, Behind
  <2> QED
    BY <2>1, <2>2
<1> QED
  BY <1>6, <1>7 DEF Adds

\* The queue that a rank has filled leaves it.
Flushed(c, o, p) == [x \in Proc \X Proc |-> IF x[1] = p /\ o[p][x[2]] # <<>> THEN Append(c[x], o[p][x[2]]) ELSE c[x]]
Emptied(o, p) == [o EXCEPT ![p] = [q \in Proc |-> <<>>]]

LEMMA LiesReturn ==
  ASSUME NEW c \in Chan, NEW o \in Out, NEW p \in Proc
  PROVE  /\ Flushed(c, o, p) \in Chan /\ Emptied(o, p) \in Out
         /\ Emptied(o, p)[p] = [q \in Proc |-> <<>>] /\ \A r \in Proc \ {p} : Emptied(o, p)[r] = o[r]
         /\ \A r, q \in Proc : \A i, j, m : Lies(Flushed(c, o, p), Emptied(o, p), r, q, i, j, m)
                                            <=> Lies(c, o, r, q, i, j, m)
<1> DEFINE d == Flushed(c, o, p)
           e == Emptied(o, p)
<1>1. /\ e \in [Proc -> [Proc -> Seq(Msg)]]
      /\ e[p] = [q \in Proc |-> <<>>] /\ \A r \in Proc \ {p} : e[r] = o[r]
  <2>1. [q \in Proc |-> <<>>] \in [Proc -> Seq(Msg)]
    BY EmptySeq
  <2> QED
    BY <2>1 DEF Emptied, Out
<1>2. /\ \A r, q \in Proc : d[<<r, q>>] = IF r = p /\ o[p][q] # <<>> THEN Append(c[<<p, q>>], o[p][q]) ELSE c[<<r, q>>]
      /\ d = [x \in Proc \X Proc |-> d[x]]
  BY DEF Flushed
<1> HIDE DEF d, e
<1>3. ASSUME NEW q \in Proc, o[p][q] # <<>>
      PROVE  /\ Append(c[<<p, q>>], o[p][q]) \in Seq(Aux) /\ Len(c[<<p, q>>]) \in Nat
             /\ Len(Append(c[<<p, q>>], o[p][q])) = Len(c[<<p, q>>]) + 1
             /\ \A i \in 1..Len(c[<<p, q>>]) : Append(c[<<p, q>>], o[p][q])[i] = c[<<p, q>>][i]
             /\ Append(c[<<p, q>>], o[p][q])[Len(c[<<p, q>>]) + 1] = o[p][q]
  <2>1. c[<<p, q>>] \in Seq(Aux) /\ o[p][q] \in Aux
    BY <1>3 DEF Chan, Out, Aux
  <2> HIDE DEF Aux
  <2> QED
    BY <2>1, AppendProperties, LenProperties
<1>4. d \in Chan
  <2>1. \A r, q \in Proc : d[<<r, q>>] \in Seq(Aux)
    BY <1>2, <1>3 DEF Chan
  <2>2. \A x \in Proc \X Proc : d[x] \in Seq(Aux)
    BY <2>1
  <2> QED
    BY <1>2, <2>2 DEF Chan
<1>5. ASSUME NEW r \in Proc, NEW q \in Proc, NEW i, NEW j, NEW m
      PROVE  Lies(d, e, r, q, i, j, m) <=> Lies(c, o, r, q, i, j, m)
  <2>1. CASE r # p
    BY <1>1, <1>2, <2>1 DEF Lies
  <2>2. CASE r = p /\ o[p][q] = <<>>
    <3>1. e[r][q] = o[r][q] /\ d[<<r, q>>] = c[<<r, q>>]
      BY <1>1, <1>2, <2>2
    <3> QED
      BY <3>1 DEF Lies
  <2>3. CASE r = p /\ o[p][q] # <<>>
    <3> DEFINE n == Len(c[<<p, q>>])
               l == Append(c[<<p, q>>], o[p][q])
    <3>1. d[<<r, q>>] = l /\ Len(e[r][q]) = 0
      <4>1. d[<<r, q>>] = l
        BY <1>2, <2>3
      <4>2. e[r][q] = <<>>
        BY <1>1, <2>3
      <4> QED
        BY <4>1, <4>2, EmptySeq
    <3>2. n \in Nat /\ Len(l) = n + 1 /\ (\A k \in 1..n : l[k] = c[<<p, q>>][k]) /\ l[n + 1] = o[p][q]
      BY <1>3, <2>3
    <3> HIDE DEF l
    <3>3. Lies(d, e, r, q, i, j, m) <=> i \in 1..(n + 1) /\ j \in 1..Len(l[i]) /\ l[i][j] = m
      <4>1. j \notin 1..0
        OBVIOUS
      <4> QED
        BY <3>1, <3>2, <4>1 DEF Lies
    <3>4. (i \in 1..(n + 1) <=> i \in 1..n \/ i = n + 1) /\ n + 1 \notin 1..n
      BY <3>2
    <3>5. CASE i \in 1..n
      <4>1. i # n + 1 /\ l[i] = c[<<p, q>>][i]
        BY <3>2, <3>4, <3>5
      <4> QED
        BY <2>3, <3>3, <3>4, <3>5, <4>1 DEF Lies
    <3>6. CASE i = n + 1
      BY <2>3, <3>2, <3>3, <3>4, <3>6 DEF Lies
    <3>7. CASE i \notin 1..(n + 1)
      BY <2>3, <3>3, <3>4, <3>7 DEF Lies
    <3> QED
      BY <3>4, <3>5, <3>6, <3>7
  <2> QED
    BY <2>1, <2>2, <2>3
<1> QED
  BY <1>1, <1>4, <1>5 DEF d, e, Out

\* The first message of a queue is dequeued, and the queue with its last message.
Dequeued(c, q, p) == [c EXCEPT ![<<q, p>>] = (IF Tail(Head(@)) = <<>> THEN <<>> ELSE <<Tail(Head(@))>>) \o Tail(@)]

LEMMA LiesDequeue ==
  ASSUME NEW c \in Chan, NEW o \in Out, NEW p \in Proc, NEW q \in Proc, c[<<q, p>>] # <<>>
  PROVE  /\ Dequeued(c, q, p) \in Chan
         /\ Lies(c, o, q, p, 1, 1, Head(Head(c[<<q, p>>])))
         /\ \A m : Lies(c, o, q, p, 1, 1, m) => m = Head(Head(c[<<q, p>>]))
         /\ \A r, s \in Proc : \A i, j, m : ~(r = q /\ s = p) =>
              (Lies(Dequeued(c, q, p), o, r, s, i, j, m) <=> Lies(c, o, r, s, i, j, m))
         /\ Len(Head(c[<<q, p>>])) = 1 => \A i, j \in Nat \ {0} : \A m :
              /\ Lies(Dequeued(c, q, p), o, q, p, i, j, m) <=> Lies(c, o, q, p, i + 1, j, m)
              /\ Lies(c, o, q, p, 1, j, m) => j = 1
         /\ Len(Head(c[<<q, p>>])) # 1 => \A i, j \in Nat \ {0} : \A m :
              Lies(Dequeued(c, q, p), o, q, p, i, j, m) <=> Lies(c, o, q, p, i, IF i = 1 THEN j + 1 ELSE j, m)
<1> DEFINE s == c[<<q, p>>]
           n == Len(s)
           h == Head(s)
           t == Tail(s)
           rest == Tail(h)
           d == Dequeued(c, q, p)
           l == d[<<q, p>>]
<1>1. s \in Seq(Aux) /\ n \in Nat \ {0}
  <2>1. s \in Seq(Aux)
    BY DEF Chan
  <2> QED
    BY <2>1, EmptySeq, LenProperties
<1>2. h = s[1] /\ h \in Aux /\ t \in Seq(Aux) /\ Len(t) = n - 1 /\ \A i \in 1..(n - 1) : t[i] = s[i + 1]
  <2> HIDE DEF s
  <2>1. t \in Seq(Aux) /\ Len(t) = n - 1 /\ \A i \in 1..(n - 1) : t[i] = s[i + 1]
    BY <1>1, HeadTailProperties, EmptySeq
  <2>2. 1 \in 1..n
    BY <1>1
  <2>3. h = s[1]
    BY <1>1, HeadTailProperties, EmptySeq
  <2>4. s[1] \in Aux
    BY <1>1, <2>2, ElementOfSeq
  <2> QED
    BY <2>1, <2>3, <2>4
<1>3. /\ h \in Seq(Msg) /\ h # <<>> /\ Len(h) \in Nat \ {0}
      /\ rest \in Seq(Msg) /\ Len(rest) = Len(h) - 1 /\ \A j \in 1..(Len(h) - 1) : rest[j] = h[j + 1]
      /\ Head(h) = h[1]
  <2>1. h \in Seq(Msg) /\ h # <<>>
    BY <1>2 DEF Aux
  <2> HIDE DEF h
  <2> QED
    BY <2>1, HeadTailProperties, EmptySeq, LenProperties
<1>4. rest = <<>> <=> Len(h) = 1
  <2> HIDE DEF rest, h
  <2>1. rest = <<>> <=> Len(rest) = 0
    BY <1>3, EmptySeq
  <2> QED
    BY <1>3, <2>1
<1>5. /\ d = [x \in Proc \X Proc |-> d[x]]
      /\ \A r, z \in Proc : ~(r = q /\ z = p) => d[<<r, z>>] = c[<<r, z>>]
      /\ l = (IF rest = <<>> THEN <<>> ELSE <<rest>>) \o t
  BY DEF Dequeued, Chan
<1> HIDE DEF d
<1>6. Len(h) = 1 => l = t
  <2>1. Len(h) = 1 => l = <<>> \o t
    BY <1>4, <1>5
  <2> QED
    BY <1>2, <2>1, ConcatEmptySeq
<1>7. ASSUME Len(h) # 1
      PROVE  /\ l \in Seq(Aux) /\ Len(l) = n /\ l[1] = rest
             /\ \A i \in 2..n : l[i] = s[i]
  <2> DEFINE v == <<rest>>
  <2>1. v \in Seq(Aux) /\ Len(v) = 1 /\ v[1] = rest
    <3>1. rest \in Aux
      BY <1>3, <1>4, <1>7 DEF Aux
    <3> QED
      BY <3>1
  <2>2. l = v \o t
    BY <1>4, <1>5, <1>7
  <2> HIDE DEF v, t, s, rest, h
  <2>0. t \in Seq(Aux) /\ v \in Seq(Aux)
    BY <1>2, <2>1
  <2>3. /\ v \o t \in Seq(Aux) /\ Len(v \o t) = Len(v) + Len(t)
        /\ \A i \in 1..(Len(v) + Len(t)) : (v \o t)[i] = IF i <= Len(v) THEN v[i] ELSE t[i - Len(v)]
    BY <2>0, ConcatProperties
  <2>4. \A i \in 2..n : l[i] = t[i - 1] /\ i - 1 \in 1..(n - 1) /\ (i - 1) + 1 = i
    BY <1>1, <1>2, <2>1, <2>2, <2>3
  <2>5. \A i \in 2..n : l[i] = s[i]
    BY <1>2, <2>4
  <2>6. Len(l) = n /\ l[1] = v[1]
    <3>1. Len(v) + Len(t) = n /\ Len(v) = 1 /\ n \in Nat \ {0}
      BY <1>1, <1>2, <2>1
    <3>2. 1 \in 1..n
      BY <3>1
    <3>3. Len(l) = n /\ l[1] = IF 1 <= 1 THEN v[1] ELSE t[1 - 1]
      <4> HIDE DEF n, l
      <4> QED
        BY <2>2, <2>3, <3>1, <3>2
    <3> QED
      BY <3>3
  <2> QED
    BY <2>1, <2>2, <2>3, <2>5, <2>6
<1>8. d \in Chan
  <2>1. l \in Seq(Aux)
    BY <1>2, <1>6, <1>7
  <2>2. \A r, z \in Proc : d[<<r, z>>] \in Seq(Aux)
    BY <1>5, <2>1 DEF Chan
  <2>3. \A x \in Proc \X Proc : d[x] \in Seq(Aux)
    BY <2>2
  <2> QED
    BY <1>5, <2>3 DEF Chan
<1>9. \A r, z \in Proc : \A i, j, m : ~(r = q /\ z = p) => (Lies(d, o, r, z, i, j, m) <=> Lies(c, o, r, z, i, j, m))
  <2> SUFFICES ASSUME NEW r \in Proc, NEW z \in Proc, NEW i, NEW j, NEW m, ~(r = q /\ z = p)
               PROVE  Lies(d, o, r, z, i, j, m) <=> Lies(c, o, r, z, i, j, m)
    OBVIOUS
  <2>1. d[<<r, z>>] = c[<<r, z>>]
    BY <1>5
  <2> QED
    BY <2>1 DEF Lies
<1>10. Lies(c, o, q, p, 1, 1, Head(h)) /\ \A m : Lies(c, o, q, p, 1, 1, m) => m = Head(h)
  <2>1. 1 \in 1..n /\ 1 # n + 1 /\ s[1] = h /\ 1 \in 1..Len(h) /\ h[1] = Head(h)
    BY <1>1, <1>2, <1>3
  <2> QED
    BY <2>1 DEF Lies
<1>11. ASSUME Len(h) = 1, NEW i \in Nat \ {0}, NEW j \in Nat \ {0}, NEW m
       PROVE  /\ Lies(d, o, q, p, i, j, m) <=> Lies(c, o, q, p, i + 1, j, m)
              /\ Lies(c, o, q, p, 1, j, m) => j = 1
  <2>1. /\ i \in 1..(n - 1) <=> i + 1 \in 1..n
        /\ i = (n - 1) + 1 <=> i + 1 = n + 1
    BY <1>1
  <2>2. l = t /\ Len(l) = n - 1
    BY <1>2, <1>6, <1>11
  <2>3. i \in 1..(n - 1) => l[i] = s[i + 1]
    BY <1>2, <2>2
  <2>4. 1 \in 1..n /\ 1 # n + 1 /\ s[1] = h
    BY <1>1, <1>2
  <2>5. Lies(c, o, q, p, 1, j, m) => j \in 1..Len(h)
    BY <2>4 DEF Lies
  <2> HIDE DEF l, s
  <2>6. Lies(d, o, q, p, i, j, m) <=> \/ i \in 1..(n - 1) /\ j \in 1..Len(s[i + 1]) /\ s[i + 1][j] = m
                                      \/ i = (n - 1) + 1 /\ j \in 1..Len(o[q][p]) /\ o[q][p][j] = m
    BY <2>2, <2>3 DEF Lies, l
  <2>7. Lies(c, o, q, p, i + 1, j, m) <=> \/ i + 1 \in 1..n /\ j \in 1..Len(s[i + 1]) /\ s[i + 1][j] = m
                                          \/ i + 1 = n + 1 /\ j \in 1..Len(o[q][p]) /\ o[q][p][j] = m
    BY DEF Lies, s
  <2>8. Lies(c, o, q, p, 1, j, m) => j = 1
    <3> HIDE DEF h, n, t, rest
    <3>1. \A k : k \in 1..Len(h) => k = 1
      BY <1>11
    <3> QED
      BY <2>5, <3>1
  <2>9. Lies(d, o, q, p, i, j, m) <=> Lies(c, o, q, p, i + 1, j, m)
    BY <2>1, <2>6, <2>7
  <2> QED
    BY <2>8, <2>9
<1>12. ASSUME Len(h) # 1, NEW i \in Nat \ {0}, NEW j \in Nat \ {0}, NEW m
       PROVE  Lies(d, o, q, p, i, j, m) <=> Lies(c, o, q, p, i, IF i = 1 THEN j + 1 ELSE j, m)
  <2>1. Len(l) = n /\ l[1] = rest /\ \A k \in 2..n : l[k] = s[k]
    BY <1>7, <1>12
  <2>2. 1 \in 1..n /\ 1 # n + 1 /\ s[1] = h
    BY <1>1, <1>2
  <2>3. j \in 1..Len(rest) <=> j + 1 \in 1..Len(h)
    BY <1>3
  <2>4. j \in 1..Len(rest) => rest[j] = h[j + 1]
    BY <1>3
  <2>5. i # 1 => (i \in 1..n => i \in 2..n)
    BY <1>1
  <2> HIDE DEF l, s, rest, h, n
  <2>6. CASE i = 1
    <3>1. Lies(d, o, q, p, i, j, m) <=> j \in 1..Len(rest) /\ rest[j] = m
      BY <2>1, <2>2, <2>6 DEF Lies, l
    <3>2. Lies(c, o, q, p, i, j + 1, m) <=> j + 1 \in 1..Len(h) /\ h[j + 1] = m
      <4>1. Lies(c, o, q, p, i, j + 1, m) <=> \/ i \in 1..n /\ j + 1 \in 1..Len(s[i]) /\ s[i][j + 1] = m
                                              \/ i = n + 1 /\ j + 1 \in 1..Len(o[q][p]) /\ o[q][p][j + 1] = m
        BY DEF Lies, s, n
      <4> QED
        BY <2>2, <2>6, <4>1
    <3> QED
      BY <2>3, <2>4, <2>6, <3>1, <3>2
  <2>7. CASE i # 1
    <3>1. Lies(d, o, q, p, i, j, m) <=> \/ i \in 1..n /\ j \in 1..Len(l[i]) /\ l[i][j] = m
                                        \/ i = n + 1 /\ j \in 1..Len(o[q][p]) /\ o[q][p][j] = m
      BY <2>1 DEF Lies, l
    <3>2. Lies(c, o, q, p, i, j, m) <=> \/ i \in 1..n /\ j \in 1..Len(s[i]) /\ s[i][j] = m
                                        \/ i = n + 1 /\ j \in 1..Len(o[q][p]) /\ o[q][p][j] = m
      BY DEF Lies, s, n
    <3> QED
      BY <2>1, <2>5, <2>7, <3>1, <3>2
  <2> QED
    BY <2>6, <2>7
<1> QED
  BY <1>8, <1>9, <1>10, <1>11, <1>12 DEF d

Sole(S) == \E x : S = {x}

Loaded(m) == m.type = "block" => m.queues > 0

Carried(c, o) == \A p, q \in Proc : \A i \in DOMAIN Line(c, o, p, q) : \A j \in DOMAIN Line(c, o, p, q)[i] :
                   Loaded(Line(c, o, p, q)[i][j])

LEMMA CarriedIs ==
  ASSUME NEW c \in Chan, NEW o \in Out
  PROVE  Carried(c, o) <=> \A p, q \in Proc : \A i, j, m : Lies(c, o, p, q, i, j, m) => Loaded(m)
<1> SUFFICES ASSUME NEW p \in Proc, NEW q \in Proc
             PROVE  (\A i \in DOMAIN Line(c, o, p, q) : \A j \in DOMAIN Line(c, o, p, q)[i] : Loaded(Line(c, o, p, q)[i][j]))
                    <=> \A i, j, m : Lies(c, o, p, q, i, j, m) => Loaded(m)
  BY DEF Carried
<1> DEFINE l == Line(c, o, p, q)
           n == Len(c[<<p, q>>])
<1>1. n \in Nat /\ DOMAIN l = 1..(n + 1)
  <2>1. n \in Nat
    BY LineOf
  <2>2. DOMAIN l = 1..(n + 1)
    BY LineOf
  <2> QED
    BY <2>1, <2>2
<1>2. \A i \in 1..n : l[i] = c[<<p, q>>][i]
  BY LineOf
<1>3. \A i \in 1..n : DOMAIN c[<<p, q>>][i] = 1..Len(c[<<p, q>>][i])
  BY LineOf
<1>4. l[n + 1] = o[p][q] /\ DOMAIN o[p][q] = 1..Len(o[p][q])
  BY LineOf
<1>5. \A i : (i \in 1..(n + 1) <=> i \in 1..n \/ i = n + 1) /\ n + 1 \notin 1..n
  BY <1>1
<1> HIDE DEF l
<1>6. \A i, j, m : Lies(c, o, p, q, i, j, m) <=> i \in DOMAIN l /\ j \in DOMAIN l[i] /\ l[i][j] = m
  <2> SUFFICES ASSUME NEW i, NEW j, NEW m
               PROVE  Lies(c, o, p, q, i, j, m) <=> i \in DOMAIN l /\ j \in DOMAIN l[i] /\ l[i][j] = m
    OBVIOUS
  <2>1. Lies(c, o, p, q, i, j, m) <=> \/ i \in 1..n /\ j \in 1..Len(c[<<p, q>>][i]) /\ c[<<p, q>>][i][j] = m
                                      \/ i = n + 1 /\ j \in 1..Len(o[p][q]) /\ o[p][q][j] = m
    BY DEF Lies
  <2> HIDE DEF n
  <2>2. CASE i \in 1..n
    BY <1>1, <1>2, <1>3, <1>5, <2>1, <2>2
  <2>3. CASE i = n + 1
    BY <1>1, <1>4, <1>5, <2>1, <2>3
  <2>4. CASE i \notin 1..(n + 1)
    BY <1>1, <1>5, <2>1, <2>4
  <2> QED
    BY <2>2, <2>3, <2>4, <1>5
<1> HIDE DEF n
<1>7. (\A i \in DOMAIN l : \A j \in DOMAIN l[i] : Loaded(l[i][j])) <=> \A i, j, m : Lies(c, o, p, q, i, j, m) => Loaded(m)
  BY <1>6
<1> QED
  BY <1>7 DEF l

\* What the four operations on the messages do to the blocks under way.
LEMMA SpotsSame ==
  ASSUME NEW c \in Chan, NEW o \in Out, NEW d \in Chan, NEW e \in Out, NEW b,
         \A p, q \in Proc : \A i, j, m : Bears(m, b) => (Lies(d, e, p, q, i, j, m) <=> Lies(c, o, p, q, i, j, m))
  PROVE  Spots(d, e, b) = Spots(c, o, b)
<1>1. ASSUME NEW w PROVE w \in Spots(d, e, b) <=> w \in Spots(c, o, b)
  <2>1. w \in Spots(d, e, b) <=> \E p, q \in Proc : \E i, j \in Nat \ {0} : \E m \in Msg :
             w = <<p, q, i, j>> /\ Lies(d, e, p, q, i, j, m) /\ Bears(m, b)
    BY SpotsAre
  <2>2. w \in Spots(c, o, b) <=> \E p, q \in Proc : \E i, j \in Nat \ {0} : \E m \in Msg :
             w = <<p, q, i, j>> /\ Lies(c, o, p, q, i, j, m) /\ Bears(m, b)
    BY SpotsAre
  <2> QED
    BY <2>1, <2>2
<1> QED
  BY <1>1

Plain(m) == m.type # "block"

\* What p has enqueued, from o to e, has no block; or it has block g.
Quiet(c, o, e, p) == /\ e \in Out /\ \A r \in Proc \ {p} : e[r] = o[r]
                     /\ \A b : Spots(c, e, b) = Spots(c, o, b)
                     /\ Carried(c, o) => Carried(c, e)

Sent(c, o, e, p, g) == /\ e \in Out /\ \A r \in Proc \ {p} : e[r] = o[r]
                       /\ \A b : b # g => Spots(c, e, b) = Spots(c, o, b)
                       /\ Spots(c, o, g) = {} => Sole(Spots(c, e, g))
                       /\ Carried(c, o) => Carried(c, e)

LEMMA EnqueueOther ==
  ASSUME NEW c \in Chan, NEW o \in Out, NEW p \in Proc, NEW Q, Q \subseteq Proc, NEW new \in Msg, Plain(new),
         NEW e, e = Enqueue(o, p, Q, new)
  PROVE  Quiet(c, o, e, p)
<1>00. e \in Out
  BY LiesEnqueue
<1>01. \A r \in Proc \ {p} : e[r] = o[r]
  BY DEF Enqueue, Out
<1>02. Adds(c, o, e, p, Q, new)
  BY LiesEnqueue
<1>2. \A r, q \in Proc : \A i, j, m : Lies(c, e, r, q, i, j, m) => Lies(c, o, r, q, i, j, m) \/ m = new
  BY <1>02 DEF Adds
<1>3. \A r, q \in Proc : \A i, j, m : Lies(c, o, r, q, i, j, m) => Lies(c, e, r, q, i, j, m)
  BY <1>02 DEF Adds
<1>4. \A b : Spots(c, e, b) = Spots(c, o, b)
  <2> TAKE b
  <2>1. ~Bears(new, b)
    BY DEF Bears, Plain
  <2>2. \A r, q \in Proc : \A i, j, m : Bears(m, b) => (Lies(c, e, r, q, i, j, m) <=> Lies(c, o, r, q, i, j, m))
    BY <1>2, <1>3, <2>1
  <2> QED
    BY <1>00, <1>01, <2>2, SpotsSame
<1>5. Carried(c, o) => Carried(c, e)
  <2>1. Loaded(new)
    BY DEF Loaded, Plain
  <2> QED
    BY <1>00, <1>01, <1>2, <2>1, CarriedIs
<1> QED
  BY <1>00, <1>01, <1>4, <1>5 DEF Quiet

LEMMA SentWhole ==
  ASSUME NEW c \in Chan, NEW o \in Out, NEW e \in Out, NEW p \in Proc, NEW q \in Proc, NEW new \in Msg, Loaded(new),
         NEW g, Bears(new, g), \A r \in Proc \ {p} : e[r] = o[r],
         NEW Q, \A s : s \in Q <=> s = q, Adds(c, o, e, p, Q, new)
  PROVE  Sent(c, o, e, p, g)
<1> DEFINE k == Len(c[<<p, q>>]) + 1
           l == Len(o[p][q]) + 1
<1>3. \A r, s \in Proc : \A i, j, m : Lies(c, e, r, s, i, j, m) <=>
        Lies(c, o, r, s, i, j, m) \/ (r = p /\ s = q /\ Behind(c, o, p, q, i, j) /\ m = new)
  BY DEF Adds
<1>4. ASSUME NEW b, b # g PROVE Spots(c, e, b) = Spots(c, o, b)
  <2>1. ~Bears(new, b)
    BY <1>4 DEF Bears
  <2>2. \A r, s \in Proc : \A i, j, m : Bears(m, b) => (Lies(c, e, r, s, i, j, m) <=> Lies(c, o, r, s, i, j, m))
    BY <1>3, <2>1
  <2> QED
    BY <2>2, SpotsSame
<1>5. ASSUME Spots(c, o, g) = {} PROVE Spots(c, e, g) = {<<p, q, k, l>>}
  <2>1. \A r, s \in Proc : \A i, j \in Nat \ {0} : \A m \in Msg : ~(Lies(c, o, r, s, i, j, m) /\ Bears(m, g))
    <3> SUFFICES ASSUME NEW r \in Proc, NEW s \in Proc, NEW i \in Nat \ {0}, NEW j \in Nat \ {0}, NEW m \in Msg,
                        Lies(c, o, r, s, i, j, m), Bears(m, g)
                 PROVE  FALSE
      OBVIOUS
    <3> DEFINE w == <<r, s, i, j>>
    <3>1. w \in Spots(c, o, g)
      BY SpotsAre
    <3> QED
      BY <1>5, <3>1
  <2>2. k \in Nat \ {0} /\ l \in Nat \ {0} 
    <3>1. Len(c[<<p, q>>]) \in Nat
      BY LineOf
    <3>2. Len(o[p][q]) \in Nat
      BY LineOf
    <3> QED
      BY <3>1, <3>2
  <2>3. ASSUME NEW w PROVE w \in Spots(c, e, g) <=> w = <<p, q, k, l>>
    <3>1. w \in Spots(c, e, g) <=> \E r, s \in Proc : \E i, j \in Nat \ {0} : \E m \in Msg :
             w = <<r, s, i, j>> /\ Lies(c, e, r, s, i, j, m) /\ Bears(m, g)
      BY SpotsAre
    <3>2. \A i, j : Behind(c, o, p, q, i, j) <=> i = k /\ j = l
      BY DEF Behind
    <3> HIDE DEF k, l
    <3> QED
      BY <1>3, <2>1, <2>2, <3>1, <3>2
  <2> QED
    BY <2>3
<1>6. Carried(c, o) => Carried(c, e)
  BY <1>3, CarriedIs
<1> QED
  BY <1>4, <1>5, <1>6 DEF Sole, Sent

LEMMA EnqueueBlock ==
  ASSUME NEW c \in Chan, NEW o \in Out, NEW p \in Proc, NEW q \in Proc, NEW new \in Msg, Loaded(new),
         NEW g, Bears(new, g), NEW e, e = Enqueue(o, p, {q}, new)
  PROVE  Sent(c, o, e, p, g)
<1>1. e \in Out
  BY LiesEnqueue
<1>2. \A r \in Proc \ {p} : e[r] = o[r]
  BY DEF Enqueue, Out
<1>3. Adds(c, o, e, p, {q}, new)
  BY LiesEnqueue
<1>4. \A s : s \in {q} <=> s = q
  OBVIOUS
<1> QED
  BY <1>1, <1>2, <1>3, <1>4, SentWhole

LEMMA FlushSame ==
  ASSUME NEW c \in Chan, NEW o \in Out, NEW p \in Proc
  PROVE  /\ Flushed(c, o, p) \in Chan /\ Emptied(o, p) \in Out
         /\ \A b : Spots(Flushed(c, o, p), Emptied(o, p), b) = Spots(c, o, b)
         /\ Carried(c, o) => Carried(Flushed(c, o, p), Emptied(o, p))
<1> DEFINE d == Flushed(c, o, p)
           e == Emptied(o, p)
<1>1. d \in Chan /\ e \in Out
  BY LiesReturn
<1>2. \A r, q \in Proc : \A i, j, m : Lies(d, e, r, q, i, j, m) <=> Lies(c, o, r, q, i, j, m)
  BY LiesReturn
<1> HIDE DEF d, e
<1>3. \A b : Spots(d, e, b) = Spots(c, o, b)
  BY <1>1, <1>2, SpotsSame
<1>4. Carried(c, o) => Carried(d, e)
  BY <1>1, <1>2, CarriedIs
<1> QED
  BY <1>1, <1>3, <1>4 DEF d, e

\* One set becomes another: it stays empty, and what was alone stays alone.
Kept(S, T) == (S = {} => T = {}) /\ (Sole(S) => Sole(T))

\* Message m leaves, and with it the block that it has.
Leaves(c, d, o, m) == /\ \A b : ~Bears(m, b) => Kept(Spots(c, o, b), Spots(d, o, b))
                      /\ \A b : Bears(m, b) => Spots(c, o, b) # {} /\ (Sole(Spots(c, o, b)) => Spots(d, o, b) = {})
                      /\ Carried(c, o) => Loaded(m) /\ Carried(d, o)

LEMMA DequeueSpots ==
  ASSUME NEW c \in Chan, NEW o \in Out, NEW p \in Proc, NEW q \in Proc, c[<<q, p>>] # <<>>
  PROVE  /\ Dequeued(c, q, p) \in Chan /\ Head(Head(c[<<q, p>>])) \in Msg
         /\ Leaves(c, Dequeued(c, q, p), o, Head(Head(c[<<q, p>>])))
<1> DEFINE d == Dequeued(c, q, p)
           h == Head(Head(c[<<q, p>>]))
           one == Len(Head(c[<<q, p>>])) = 1
           I(r, s, i) == IF r = q /\ s = p /\ one THEN i + 1 ELSE i
           J(r, s, i, j) == IF r = q /\ s = p /\ ~one /\ i = 1 THEN j + 1 ELSE j
<1>1. d \in Chan
  BY LiesDequeue
<1>2. Lies(c, o, q, p, 1, 1, h) /\ \A m : Lies(c, o, q, p, 1, 1, m) => m = h
  BY LiesDequeue
<1>3. \A r, s \in Proc : \A i, j, m : ~(r = q /\ s = p) => (Lies(d, o, r, s, i, j, m) <=> Lies(c, o, r, s, i, j, m))
  BY LiesDequeue
<1>4. one => \A i, j \in Nat \ {0} : \A m : /\ Lies(d, o, q, p, i, j, m) <=> Lies(c, o, q, p, i + 1, j, m)
                                            /\ Lies(c, o, q, p, 1, j, m) => j = 1
  BY LiesDequeue
<1>5. ~one => \A i, j \in Nat \ {0} : \A m : Lies(d, o, q, p, i, j, m) <=> Lies(c, o, q, p, i, IF i = 1 THEN j + 1 ELSE j, m)
  BY LiesDequeue
<1>6. h \in Msg
  BY <1>2, LiesWhere
<1> HIDE DEF d, h, one
<1>7. ASSUME NEW r \in Proc, NEW s \in Proc, NEW i \in Nat \ {0}, NEW j \in Nat \ {0}, NEW m
      PROVE  Lies(d, o, r, s, i, j, m) <=> Lies(c, o, r, s, I(r, s, i), J(r, s, i, j), m)
  <2>1. CASE ~(r = q /\ s = p)
    BY <1>3, <2>1
  <2>2. CASE r = q /\ s = p /\ one
    BY <1>4, <2>2
  <2>3. CASE r = q /\ s = p /\ ~one
    BY <1>5, <2>3
  <2> QED
    BY <2>1, <2>2, <2>3
<1>8. ASSUME NEW r, NEW s, NEW i \in Nat \ {0}, NEW j \in Nat \ {0}
      PROVE  /\ I(r, s, i) \in Nat \ {0} /\ J(r, s, i, j) \in Nat \ {0}
             /\ ~(r = q /\ s = p /\ I(r, s, i) = 1 /\ J(r, s, i, j) = 1)
             /\ \A k, l \in Nat \ {0} : I(r, s, i) = I(r, s, k) /\ J(r, s, i, j) = J(r, s, k, l) => i = k /\ j = l
  OBVIOUS
<1>9. ASSUME NEW r \in Proc, NEW s \in Proc, NEW i \in Nat \ {0}, NEW j \in Nat \ {0}, NEW m,
             Lies(c, o, r, s, i, j, m), ~(r = q /\ s = p /\ i = 1 /\ j = 1)
      PROVE  \E k, l \in Nat \ {0} : I(r, s, k) = i /\ J(r, s, k, l) = j
  <2>1. CASE r = q /\ s = p /\ one
    <3>1. i # 1
      BY <1>4, <1>9, <2>1
    <3>2. i - 1 \in Nat \ {0} /\ (i - 1) + 1 = i
      BY <3>1
    <3>3. I(r, s, i - 1) = i /\ J(r, s, i - 1, j) = j
      BY <2>1, <3>2
    <3> QED
      BY <3>2, <3>3
  <2>2. CASE r = q /\ s = p /\ ~one /\ i = 1
    <3>1. j - 1 \in Nat \ {0} /\ (j - 1) + 1 = j
      BY <1>9, <2>2
    <3>2. I(r, s, i) = i /\ J(r, s, i, j - 1) = j
      BY <2>2, <3>1
    <3> QED
      BY <3>1, <3>2
  <2>3. CASE ~(r = q /\ s = p) \/ (~one /\ i # 1)
    <3>1. I(r, s, i) = i /\ J(r, s, i, j) = j
      BY <2>3
    <3> QED
      BY <3>1
  <2> QED
    BY <2>1, <2>2, <2>3
<1> HIDE DEF I, J
<1>10. \A b, w : w \in Spots(d, o, b) => \E r, s \in Proc : \E i, j \in Nat \ {0} :
         w = <<r, s, i, j>> /\ <<r, s, I(r, s, i), J(r, s, i, j)>> \in Spots(c, o, b)
  <2> SUFFICES ASSUME NEW b, NEW w \in Spots(d, o, b)
               PROVE  \E r, s \in Proc : \E i, j \in Nat \ {0} :
                        w = <<r, s, i, j>> /\ <<r, s, I(r, s, i), J(r, s, i, j)>> \in Spots(c, o, b)
    OBVIOUS
  <2>1. PICK r \in Proc, s \in Proc, i \in Nat \ {0}, j \in Nat \ {0}, m \in Msg :
          w = <<r, s, i, j>> /\ Lies(d, o, r, s, i, j, m) /\ Bears(m, b)
    BY <1>1, SpotsAre
  <2> DEFINE k == I(r, s, i)
             l == J(r, s, i, j)
  <2>2. Lies(c, o, r, s, k, l, m) /\ k \in Nat \ {0} /\ l \in Nat \ {0}
    BY <1>7, <1>8, <2>1
  <2> HIDE DEF k, l
  <2>3. <<r, s, k, l>> \in Spots(c, o, b)
    BY <2>1, <2>2, SpotsAre
  <2> QED
    BY <2>1, <2>3 DEF k, l
<1>11. \A b : Spots(c, o, b) = {} => Spots(d, o, b) = {}
  BY <1>10
<1>12. ASSUME NEW b, ~Bears(h, b), NEW v, Spots(c, o, b) = {v}
       PROVE  Sole(Spots(d, o, b))
  <2>1. PICK r \in Proc, s \in Proc, i \in Nat \ {0}, j \in Nat \ {0}, m \in Msg :
          v = <<r, s, i, j>> /\ Lies(c, o, r, s, i, j, m) /\ Bears(m, b)
    BY <1>12, SpotsAre
  <2>2. ~(r = q /\ s = p /\ i = 1 /\ j = 1)
    BY <1>2, <1>12, <2>1
  <2>3. PICK k \in Nat \ {0}, l \in Nat \ {0} : I(r, s, k) = i /\ J(r, s, k, l) = j
    BY <1>9, <2>1, <2>2
  <2>4. <<r, s, k, l>> \in Spots(d, o, b)
    <3>1. Lies(d, o, r, s, k, l, m)
      BY <1>7, <2>1, <2>3
    <3> QED
      BY <1>1, <2>1, <3>1, SpotsAre
  <2>5. ASSUME NEW w \in Spots(d, o, b) PROVE w = <<r, s, k, l>>
    <3>1. PICK r1 \in Proc, s1 \in Proc, i1 \in Nat \ {0}, j1 \in Nat \ {0} :
            w = <<r1, s1, i1, j1>> /\ <<r1, s1, I(r1, s1, i1), J(r1, s1, i1, j1)>> \in Spots(c, o, b)
      BY <1>10
    <3>2. <<r1, s1, I(r1, s1, i1), J(r1, s1, i1, j1)>> = <<r, s, i, j>>
      BY <1>12, <2>1, <3>1
    <3>3. r1 = r /\ s1 = s /\ I(r1, s1, i1) = I(r, s, k) /\ J(r1, s1, i1, j1) = J(r, s, k, l)
      BY <2>3, <3>2
    <3>4. i1 = k /\ j1 = l
      BY <1>8, <3>3
    <3> QED
      BY <3>1, <3>3, <3>4
  <2>6. Spots(d, o, b) = {<<r, s, k, l>>}
    BY <2>4, <2>5
  <2> QED
    BY <2>6 DEF Sole
<1>13. ASSUME NEW b, Bears(h, b)
       PROVE  Spots(c, o, b) # {} /\ (Sole(Spots(c, o, b)) => Spots(d, o, b) = {})
  <2> DEFINE u == <<q, p, 1, 1>>
  <2>1. u \in Spots(c, o, b)
    BY <1>2, <1>6, <1>13, SpotsAre
  <2>2. ASSUME Sole(Spots(c, o, b)), NEW w \in Spots(d, o, b) PROVE FALSE
    <3>1. Spots(c, o, b) = {u}
      BY <2>1, <2>2 DEF Sole
    <3>2. PICK r \in Proc, s \in Proc, i \in Nat \ {0}, j \in Nat \ {0} :
            <<r, s, I(r, s, i), J(r, s, i, j)>> \in Spots(c, o, b)
      BY <1>10
    <3>3. <<r, s, I(r, s, i), J(r, s, i, j)>> = <<q, p, 1, 1>>
      BY <3>1, <3>2
    <3>4. r = q /\ s = p /\ I(r, s, i) = 1 /\ J(r, s, i, j) = 1
      BY <3>3
    <3> QED
      BY <1>8, <3>4
  <2> QED
    BY <2>1, <2>2
<1>14. ASSUME Carried(c, o) PROVE Loaded(h) /\ Carried(d, o)
  <2>1. \A r, s \in Proc : \A i, j, m : Lies(c, o, r, s, i, j, m) => Loaded(m)
    BY <1>14, CarriedIs
  <2>2. \A r, s \in Proc : \A i, j, m : Lies(d, o, r, s, i, j, m) => Loaded(m)
    <3> SUFFICES ASSUME NEW r \in Proc, NEW s \in Proc, NEW i, NEW j, NEW m, Lies(d, o, r, s, i, j, m)
                 PROVE  Loaded(m)
      OBVIOUS
    <3>1. i \in Nat \ {0} /\ j \in Nat \ {0}
      BY <1>1, LiesWhere
    <3>2. Lies(c, o, r, s, I(r, s, i), J(r, s, i, j), m)
      BY <1>7, <3>1
    <3> QED
      BY <2>1, <3>2
  <2>3. Loaded(h)
    BY <1>2, <2>1
  <2> QED
    BY <1>1, <2>2, <2>3, CarriedIs
<1>15. \A b : ~Bears(h, b) => Kept(Spots(c, o, b), Spots(d, o, b))
  BY <1>11, <1>12, <1>13, <1>14 DEF Kept, Sole
<1>16. \A b : Bears(h, b) => Spots(c, o, b) # {} /\ (Sole(Spots(c, o, b)) => Spots(d, o, b) = {})
  BY <1>6, <1>11, <1>12, <1>13, <1>14 DEF Sole
<1>17. Leaves(c, d, o, h)
  BY <1>14, <1>15, <1>16 DEF Leaves
<1> QED
  BY <1>1, <1>6, <1>17 DEF d, h

-----------------------------------------------------------------------------
(***************************************************************************)
(* A block in one place: what the sums of InOnePlace and ProcessedOnce say.*)
(***************************************************************************)
InOne(M, R) == (Sole(M) /\ R = {}) \/ (M = {} /\ Sole(R))

OnceIn(n, M, F, P, W) ==
  \/ n = 1 /\ M = {} /\ F = {} /\ P = {} /\ W = {}
  \/ n = 0 /\ Sole(M) /\ F = {} /\ P = {} /\ W = {}
  \/ n = 0 /\ M = {} /\ Sole(F) /\ P = {} /\ W = {}
  \/ n = 0 /\ M = {} /\ F = {} /\ Sole(P) /\ W = {}
  \/ n = 0 /\ M = {} /\ F = {} /\ P = {} /\ Sole(W)

LEMMA SoleCardinality ==
  ASSUME NEW S, IsFiniteSet(S)
  PROVE  /\ Cardinality(S) \in Nat
         /\ Cardinality(S) = 0 <=> S = {}
         /\ Cardinality(S) = 1 <=> Sole(S)
<1>1. Cardinality(S) \in Nat
  BY FS_CardinalityType
<1>2. Cardinality(S) = 0 <=> S = {}
  BY FS_EmptySet
<1>3. Cardinality(S) = 1 <=> Sole(S)
  BY FS_Singleton DEF Sole
<1> QED
  BY <1>1, <1>2, <1>3

LEMMA InOneSum ==
  ASSUME NEW M, NEW R, IsFiniteSet(M), IsFiniteSet(R)
  PROVE  Cardinality(M) + Cardinality(R) = 1 <=> InOne(M, R)
<1>1. /\ Cardinality(M) \in Nat /\ (Cardinality(M) = 0 <=> M = {}) /\ (Cardinality(M) = 1 <=> Sole(M))
      /\ Cardinality(R) \in Nat /\ (Cardinality(R) = 0 <=> R = {}) /\ (Cardinality(R) = 1 <=> Sole(R))
  BY SoleCardinality
<1>2. \A i, j \in Nat : i + j = 1 <=> (i = 1 /\ j = 0) \/ (i = 0 /\ j = 1)
  OBVIOUS
<1> QED
  BY <1>1, <1>2 DEF InOne

LEMMA OnceSum ==
  ASSUME NEW n \in Nat, NEW M, NEW F, NEW P, NEW W,
         IsFiniteSet(M), IsFiniteSet(F), IsFiniteSet(P), IsFiniteSet(W)
  PROVE  n + Cardinality(M) + Cardinality(F) + Cardinality(P) + Cardinality(W) = 1 <=> OnceIn(n, M, F, P, W)
<1>1. /\ Cardinality(M) \in Nat /\ (Cardinality(M) = 0 <=> M = {}) /\ (Cardinality(M) = 1 <=> Sole(M))
      /\ Cardinality(F) \in Nat /\ (Cardinality(F) = 0 <=> F = {}) /\ (Cardinality(F) = 1 <=> Sole(F))
  BY SoleCardinality
<1>2. /\ Cardinality(P) \in Nat /\ (Cardinality(P) = 0 <=> P = {}) /\ (Cardinality(P) = 1 <=> Sole(P))
      /\ Cardinality(W) \in Nat /\ (Cardinality(W) = 0 <=> W = {}) /\ (Cardinality(W) = 1 <=> Sole(W))
  BY SoleCardinality
<1>3. \A i, j, k, l, m \in Nat : i + j + k + l + m = 1 <=>
        \/ i = 1 /\ j = 0 /\ k = 0 /\ l = 0 /\ m = 0
        \/ i = 0 /\ j = 1 /\ k = 0 /\ l = 0 /\ m = 0
        \/ i = 0 /\ j = 0 /\ k = 1 /\ l = 0 /\ m = 0
        \/ i = 0 /\ j = 0 /\ k = 0 /\ l = 1 /\ m = 0
        \/ i = 0 /\ j = 0 /\ k = 0 /\ l = 0 /\ m = 1
  OBVIOUS
<1> DEFINE u == Cardinality(M)
           v == Cardinality(F)
           x == Cardinality(P)
           y == Cardinality(W)
<1> HIDE DEF u, v, x, y
<1>4. /\ u \in Nat /\ (u = 0 <=> M = {}) /\ (u = 1 <=> Sole(M))
      /\ v \in Nat /\ (v = 0 <=> F = {}) /\ (v = 1 <=> Sole(F))
      /\ x \in Nat /\ (x = 0 <=> P = {}) /\ (x = 1 <=> Sole(P))
      /\ y \in Nat /\ (y = 0 <=> W = {}) /\ (y = 1 <=> Sole(W))
  BY <1>1, <1>2 DEF u, v, x, y
<1>5. n + u + v + x + y = 1 <=>
        \/ n = 1 /\ u = 0 /\ v = 0 /\ x = 0 /\ y = 0
        \/ n = 0 /\ u = 1 /\ v = 0 /\ x = 0 /\ y = 0
        \/ n = 0 /\ u = 0 /\ v = 1 /\ x = 0 /\ y = 0
        \/ n = 0 /\ u = 0 /\ v = 0 /\ x = 1 /\ y = 0
        \/ n = 0 /\ u = 0 /\ v = 0 /\ x = 0 /\ y = 1
  BY <1>3, <1>4
<1>6. n + u + v + x + y = 1 <=> OnceIn(n, M, F, P, W)
  BY <1>4, <1>5 DEF OnceIn
<1> QED
  BY <1>6 DEF u, v, x, y

(***************************************************************************)
(* The two tables of a Master, gids g and lids l.                          *)
(***************************************************************************)
Tables(g, l) ==
  /\ g \in Seq(Block) /\ l \in [ToSet(g) -> DOMAIN g]
  /\ \A i \in DOMAIN g : l[g[i]] = i
  /\ \A b \in DOMAIN l : l[b] \in DOMAIN g /\ g[l[b]] = b

LEMMA ReleaseTables ==
  ASSUME NEW g, NEW l, Tables(g, l), NEW b \in ToSet(g)
  PROVE  /\ Tables(Without(g, l[b]), [x \in DOMAIN l \ {b} |-> IF x = Last(g) THEN l[b] ELSE l[x]])
         /\ ToSet(Without(g, l[b])) = ToSet(g) \ {b}
<1> DEFINE n == Len(g)
           i == l[b]
           h == Without(g, i)
           k == [x \in DOMAIN l \ {b} |-> IF x = Last(g) THEN i ELSE l[x]]
<1>1. /\ g \in Seq(Block) /\ DOMAIN g = 1..n /\ n \in Nat
      /\ \A x : x \in ToSet(g) <=> \E j \in 1..n : g[j] = x
      /\ DOMAIN l = ToSet(g)
      /\ \A j \in 1..n : l[g[j]] = j
      /\ \A x \in ToSet(g) : l[x] \in 1..n /\ g[l[x]] = x
  <2>1. g \in Seq(Block)
    BY DEF Tables
  <2>2. DOMAIN g = 1..n /\ n \in Nat /\ \A x : x \in ToSet(g) <=> \E j \in 1..n : g[j] = x
    BY <2>1, ToSetOf
  <2> QED
    BY <2>1, <2>2 DEF Tables
<1>2. i \in 1..n /\ g[i] = b /\ n \in 1..n
  BY <1>1
<1>3. /\ h \in Seq(Block) /\ Len(h) = n - 1 /\ DOMAIN h = 1..(n - 1)
      /\ \A j \in 1..(n - 1) : h[j] = IF j = i THEN g[n] ELSE g[j]
  <2> HIDE DEF i
  <2>1. g \in Seq(Block) /\ i \in 1..Len(g)
    BY <1>1, <1>2
  <2>2. /\ Without(g, i) \in Seq(Block) /\ Len(Without(g, i)) = Len(g) - 1 /\ DOMAIN Without(g, i) = 1..(Len(g) - 1)
        /\ \A j \in 1..(Len(g) - 1) : Without(g, i)[j] = IF j = i THEN g[Len(g)] ELSE g[j]
    BY <2>1, WithoutOne
  <2> QED
    BY <2>2
<1>4. \A x : x \in ToSet(h) <=> \E j \in 1..(n - 1) : h[j] = x
  <2> HIDE DEF h
  <2> QED
    BY <1>3, ToSetOf
<1>5. Last(g) = g[n]
  BY DEF Last
<1>6. DOMAIN k = ToSet(g) \ {b} /\ \A x \in ToSet(g) \ {b} : k[x] = IF x = g[n] THEN i ELSE l[x]
  BY <1>1, <1>5
<1> HIDE DEF h, i, k, n
<1>7. \A j \in 1..n : j \in 1..(n - 1) \/ j = n
  BY <1>1
<1>8. \A j \in 1..(n - 1) : j \in 1..n /\ j # n
  BY <1>1
<1>9. \A j, m \in 1..n : g[j] = g[m] => j = m
  BY <1>1
<1>10. \A x : x \in ToSet(h) <=> x \in ToSet(g) \ {b}
  <2>1. ASSUME NEW x \in ToSet(h) PROVE x \in ToSet(g) \ {b}
    <3>1. PICK j \in 1..(n - 1) : h[j] = x
      BY <1>4
    <3> QED
      BY <1>1, <1>2, <1>3, <1>8, <1>9, <3>1
  <2>2. ASSUME NEW x \in ToSet(g) \ {b} PROVE x \in ToSet(h)
    <3>1. l[x] \in 1..n /\ g[l[x]] = x /\ l[x] # i
      BY <1>1, <1>2
    <3>2. CASE l[x] = n
      <4>1. i \in 1..(n - 1)
        BY <1>2, <1>7, <3>1, <3>2
      <4>2. h[i] = x
        BY <1>3, <3>1, <3>2, <4>1
      <4> QED
        BY <1>4, <4>1, <4>2
    <3>3. CASE l[x] # n
      <4>1. l[x] \in 1..(n - 1)
        BY <1>7, <3>1, <3>3
      <4>2. h[l[x]] = x
        BY <1>3, <3>1, <4>1
      <4> QED
        BY <1>4, <4>1, <4>2
    <3> QED
      BY <3>2, <3>3
  <2> QED
    BY <2>1, <2>2
<1>11. ToSet(h) = ToSet(g) \ {b}
  BY <1>10
<1>12. ASSUME NEW x \in ToSet(g) \ {b} PROVE k[x] \in 1..(n - 1) /\ h[k[x]] = x
  <2>1. l[x] \in 1..n /\ g[l[x]] = x /\ l[x] # i
    BY <1>1, <1>2
  <2>2. CASE x = g[n]
    <3>1. l[x] = n
      BY <1>2, <1>9, <2>1, <2>2
    <3>2. i \in 1..(n - 1)
      BY <1>2, <1>7, <2>1, <3>1
    <3> QED
      BY <1>3, <1>6, <2>2, <3>2
  <2>3. CASE x # g[n]
    <3>1. l[x] \in 1..(n - 1)
      BY <1>7, <2>1, <2>3
    <3> QED
      BY <1>3, <1>6, <2>1, <2>3, <3>1
  <2> QED
    BY <2>2, <2>3
<1>13. ASSUME NEW j \in 1..(n - 1) PROVE k[h[j]] = j
  <2>1. h[j] \in ToSet(g) \ {b}
    BY <1>4, <1>10
  <2>2. CASE j = i
    BY <1>3, <1>6, <2>1, <2>2
  <2>3. CASE j # i
    <3>1. h[j] = g[j] /\ j \in 1..n /\ j # n
      BY <1>3, <1>8, <2>3
    <3>2. g[j] # g[n] /\ l[g[j]] = j
      BY <1>1, <1>2, <1>9, <3>1
    <3> QED
      BY <1>6, <2>1, <3>1, <3>2
  <2> QED
    BY <2>2, <2>3
<1>14. k \in [ToSet(h) -> DOMAIN h]
  <2>1. k = [x \in DOMAIN k |-> k[x]]
    BY DEF k
  <2> QED
    BY <1>3, <1>6, <1>11, <1>12, <2>1
<1>15. Tables(h, k)
  BY <1>3, <1>6, <1>11, <1>12, <1>13, <1>14 DEF Tables
<1> QED
  BY <1>11, <1>15 DEF h, k, i

LEMMA AddTables ==
  ASSUME NEW g, NEW l, Tables(g, l), NEW b \in Block \ ToSet(g)
  PROVE  /\ Tables(Append(g, b), [x \in DOMAIN l \cup {b} |-> IF x = b THEN Len(g) + 1 ELSE l[x]])
         /\ ToSet(Append(g, b)) = ToSet(g) \cup {b}
         /\ \A i \in DOMAIN g : i \in DOMAIN Append(g, b) /\ Append(g, b)[i] = g[i]
<1> DEFINE n == Len(g)
           h == Append(g, b)
           k == [x \in DOMAIN l \cup {b} |-> IF x = b THEN n + 1 ELSE l[x]]
<1>1. /\ g \in Seq(Block) /\ DOMAIN g = 1..n /\ n \in Nat
      /\ \A x : x \in ToSet(g) <=> \E j \in 1..n : g[j] = x
      /\ DOMAIN l = ToSet(g)
      /\ \A j \in 1..n : l[g[j]] = j
      /\ \A x \in ToSet(g) : l[x] \in 1..n /\ g[l[x]] = x
  <2>1. g \in Seq(Block)
    BY DEF Tables
  <2>2. DOMAIN g = 1..n /\ n \in Nat /\ \A x : x \in ToSet(g) <=> \E j \in 1..n : g[j] = x
    BY <2>1, ToSetOf
  <2> QED
    BY <2>1, <2>2 DEF Tables
<1>2. /\ h \in Seq(Block) /\ Len(h) = n + 1 /\ DOMAIN h = 1..(n + 1)
      /\ \A i \in 1..n : h[i] = g[i]
      /\ h[n + 1] = b
      /\ ToSet(h) = ToSet(g) \cup {b}
  BY <1>1, AppendOne
<1>3. DOMAIN k = ToSet(g) \cup {b} /\ k[b] = n + 1 /\ \A x \in ToSet(g) : k[x] = l[x]
  BY <1>1
<1> HIDE DEF h, k, n
<1>4. \A i : (i \in 1..(n + 1) <=> i \in 1..n \/ i = n + 1) /\ n + 1 \in 1..(n + 1)
  BY <1>1
<1>5. \A x \in ToSet(h) : k[x] \in 1..(n + 1) /\ h[k[x]] = x
  BY <1>1, <1>2, <1>3, <1>4
<1>6. \A j \in 1..(n + 1) : k[h[j]] = j
  BY <1>1, <1>2, <1>3, <1>4
<1>7. k \in [ToSet(h) -> DOMAIN h]
  <2>1. k = [x \in DOMAIN k |-> k[x]]
    BY DEF k
  <2> QED
    BY <1>2, <1>3, <1>5, <2>1
<1>8. Tables(h, k)
  BY <1>2, <1>3, <1>5, <1>6, <1>7 DEF Tables
<1> QED
  BY <1>1, <1>2, <1>4, <1>8 DEF h, k, n

-----------------------------------------------------------------------------
(***************************************************************************)
(* The inductive invariant, with the sums and the tables in the forms that *)
(* steps preserve.                                                         *)
(***************************************************************************)
FreeIn(fb, b)  == UNION {{p} \X {f \in fb[p] : f.gid = b} : p \in Proc}
Residents(b)   == {p \in Proc : b \in ToSet(gids_[p])}
Planning(b)    == {p \in Proc : Planned(p, b)}
Working(b)     == {p \in Proc : work[p].gid = b}
HasFree(p, b)  == \E f \in free_blocks[p] : f.gid = b

TablesOK  == \A p \in Proc : Tables(gids_[p], lids_[p])
PlaceOK   == \A b \in Block : InOne(Spots(chan, out, b), Residents(b))
OnceOK    == \A b \in Block : OnceIn(processed[b], Spots(chan, out, b), FreeIn(free_blocks, b), Planning(b), Working(b))
HereOK    == \A b \in Block : \A p \in Proc :
               Planned(p, b) \/ work[p].gid = b \/ HasFree(p, b) => b \in ToSet(gids_[p]) /\ incoming_[p][b] > 0
CarriedOK == Carried(chan, out)

Inv == /\ MasterTypeOK
       /\ AuxTypeOK
       /\ ThreadsTypeOK
       /\ TablesOK
       /\ PlaceOK
       /\ OnceOK
       /\ HereOK
       /\ LooksUpItsOwn
       /\ Weighed
       /\ CarriedOK
       /\ InHand
       /\ Over
       /\ AtWork
       /\ Resolved

\* The free blocks of all ranks.
LEMMA FreeMember ==
  ASSUME NEW fb, NEW b, NEW x
  PROVE  x \in FreeIn(fb, b) <=> \E p \in Proc : \E f \in fb[p] : f.gid = b /\ x = <<p, f>>
<1> DEFINE G(p) == {p} \X {f \in fb[p] : f.gid = b}
<1>1. \A p : x \in G(p) <=> \E f \in fb[p] : f.gid = b /\ x = <<p, f>>
  OBVIOUS
<1>2. x \in FreeIn(fb, b) <=> x \in UNION {G(p) : p \in Proc}
  BY DEF FreeIn
<1> HIDE DEF G
<1>3. x \in UNION {G(p) : p \in Proc} <=> \E p \in Proc : x \in G(p)
  OBVIOUS
<1> QED
  BY <1>1, <1>2, <1>3

\* Block f is taken from the free blocks of p, fb, and gb is left, and the reverse.
Taken(fb, gb, p, f) == /\ gb[p] = fb[p] \ {f} /\ \A q \in Proc \ {p} : gb[q] = fb[q]
                       /\ \A b : b # f.gid => FreeIn(gb, b) = FreeIn(fb, b)
                       /\ FreeIn(fb, f.gid) # {}
                       /\ Sole(FreeIn(fb, f.gid)) => FreeIn(gb, f.gid) = {}

Given(fb, gb, p, f) == /\ gb[p] = fb[p] \cup {f} /\ \A q \in Proc \ {p} : gb[q] = fb[q]
                       /\ \A b : b # f.gid => FreeIn(gb, b) = FreeIn(fb, b)
                       /\ FreeIn(fb, f.gid) = {} => Sole(FreeIn(gb, f.gid)) /\ f \notin fb[p]

LEMMA FreeGrabbed ==
  ASSUME NEW fb, NEW gb, NEW p \in Proc, NEW f \in fb[p],
         gb[p] = fb[p] \ {f}, \A q \in Proc \ {p} : gb[q] = fb[q]
  PROVE  Taken(fb, gb, p, f)
<1>1. \A q \in Proc : \A g : g \in gb[q] <=> g \in fb[q] /\ ~(q = p /\ g = f)
  OBVIOUS
<1>2. \A b, x : /\ x \in FreeIn(gb, b) <=> \E q \in Proc : \E g \in gb[q] : g.gid = b /\ x = <<q, g>>
                /\ x \in FreeIn(fb, b) <=> \E q \in Proc : \E g \in fb[q] : g.gid = b /\ x = <<q, g>>
  BY FreeMember
<1>3. \A b, x : x \in FreeIn(gb, b) <=> x \in FreeIn(fb, b) /\ ~(x = <<p, f>>)
  BY <1>1, <1>2
<1>4. ASSUME NEW b, b # f.gid PROVE FreeIn(gb, b) = FreeIn(fb, b)
  <2>1. <<p, f>> \notin FreeIn(fb, b)
    BY <1>2, <1>4
  <2>2. \A x : x \in FreeIn(gb, b) <=> x \in FreeIn(fb, b)
    BY <1>3, <2>1
  <2> QED
    BY <2>2
<1>5. <<p, f>> \in FreeIn(fb, f.gid)
  BY <1>2
<1>6. ASSUME Sole(FreeIn(fb, f.gid)) PROVE FreeIn(gb, f.gid) = {}
  BY <1>3, <1>5, <1>6 DEF Sole
<1> QED
  BY <1>4, <1>5, <1>6 DEF Taken

LEMMA FreeAdded ==
  ASSUME NEW fb, NEW gb, NEW p \in Proc, NEW f,
         gb[p] = fb[p] \cup {f}, \A q \in Proc \ {p} : gb[q] = fb[q]
  PROVE  Given(fb, gb, p, f)
<1>1. \A q \in Proc : \A g : g \in gb[q] <=> g \in fb[q] \/ (q = p /\ g = f)
  OBVIOUS
<1>2. \A b, x : /\ x \in FreeIn(gb, b) <=> \E q \in Proc : \E g \in gb[q] : g.gid = b /\ x = <<q, g>>
                /\ x \in FreeIn(fb, b) <=> \E q \in Proc : \E g \in fb[q] : g.gid = b /\ x = <<q, g>>
  BY FreeMember
<1>3. \A b, x : x \in FreeIn(gb, b) <=> x \in FreeIn(fb, b) \/ (x = <<p, f>> /\ f.gid = b)
  BY <1>1, <1>2
<1>4. ASSUME NEW b, b # f.gid PROVE FreeIn(gb, b) = FreeIn(fb, b)
  <2>1. \A x : x \in FreeIn(gb, b) <=> x \in FreeIn(fb, b)
    BY <1>3, <1>4
  <2> QED
    BY <2>1
<1>5. ASSUME FreeIn(fb, f.gid) = {} PROVE Sole(FreeIn(gb, f.gid)) /\ f \notin fb[p]
  <2>1. FreeIn(gb, f.gid) = {<<p, f>>}
    BY <1>3, <1>5
  <2>2. f \in fb[p] => <<p, f>> \in FreeIn(fb, f.gid)
    BY <1>2
  <2> QED
    BY <1>5, <2>1, <2>2 DEF Sole
<1> QED
  BY <1>4, <1>5 DEF Given

\* Before the first rank leaves the iexchange.
LEMMA Early ==
  ASSUME Inv, NEW p \in Proc,
         InCallback(p) \/ ~done[p] \/ \E q \in Proc : chan[<<q, p>>] # <<>>
  PROVE  \A q \in Proc : ~Gone(q)
<1> SUFFICES ASSUME NEW q \in Proc, Gone(q) PROVE FALSE
  OBVIOUS
<1>1. /\ \A r \in Proc : done[r] /\ ~InCallback(r)
      /\ \A x \in Proc \X Proc : chan[x] = <<>>
  BY DEF Inv, Over
<1> QED
  BY <1>1

LEMMA StillEarly ==
  ASSUME Inv, \A q \in Proc : ~Gone(q), \A q \in Proc : ~Gone(q)', iexchange_done' = iexchange_done
  PROVE  Over' /\ Resolved'
<1>1. \A q \in Proc : iexchange_done[q] = FALSE
  BY DEF Inv, Over
<1>2. Over'
  <2>1. \A q \in Proc : iexchange_done'[q] = Gone(q)'
    <3> TAKE q \in Proc
    <3>1. Gone(q)' = FALSE
      BY DEF Gone
    <3> QED
      BY <1>1, <3>1
  <2> QED
    BY <2>1 DEF Over
<1>3. Resolved'
  BY DEF Resolved, Gone
<1> QED
  BY <1>2, <1>3

LEMMA StillAtWork ==
  ASSUME Inv, UNCHANGED <<wpc, work, disturbed, gids_>>, \A q \in Proc : Gone(q) => Gone(q)'
  PROVE  AtWork'
BY DEF Inv, AtWork, LookingUp

LEMMA FreeWeighed ==
  ASSUME Inv, NEW p \in Proc
  PROVE  /\ free_blocks[p] \subseteq FreeBlock
         /\ proc_work[p] = Total(free_blocks[p]) /\ Total(free_blocks[p]) \in Nat
<1>1. free_blocks[p] \subseteq FreeBlock
  BY DEF Inv, AuxTypeOK
<1> QED
  BY <1>1, TotalWork DEF Inv, Weighed

LEMMA GrabStep ==
  ASSUME Inv, NEW p \in Proc, NEW f, grab_heaviest_free_block(p, f)
  PROVE  /\ f \in free_blocks[p] /\ f \in FreeBlock /\ f.gid \in Block
         /\ free_blocks' \in [Proc -> SUBSET FreeBlock] /\ proc_work' \in [Proc -> Nat]
         /\ free_blocks'[p] = free_blocks[p] \ {f}
         /\ \A q \in Proc \ {p} : free_blocks'[q] = free_blocks[q]
         /\ Weighed'
         /\ \A b : b # f.gid => FreeIn(free_blocks', b) = FreeIn(free_blocks, b)
         /\ FreeIn(free_blocks', f.gid) = {}
         /\ \A b : OnceOK /\ b = f.gid => processed[b] = 0 /\ Spots(chan, out, b) = {} /\ Planning(b) = {} /\ Working(b) = {}
<1>1. f \in free_blocks[p]
  BY DEF grab_heaviest_free_block, Heaviest
<1>2. free_blocks \in [Proc -> SUBSET FreeBlock] /\ f \in FreeBlock /\ f.gid \in Block
  BY <1>1 DEF Inv, AuxTypeOK, FreeBlock
<1>3. free_blocks' = [free_blocks EXCEPT ![p] = @ \ {f}] /\ proc_work' = [proc_work EXCEPT ![p] = @ - Work(f)]
  BY DEF grab_heaviest_free_block
<1> DEFINE fb == free_blocks
           gb == free_blocks'
<1>4. /\ gb \in [Proc -> SUBSET FreeBlock] /\ f \in fb[p]
      /\ gb[p] = fb[p] \ {f} /\ \A q \in Proc \ {p} : gb[q] = fb[q]
  BY <1>1, <1>2, <1>3
<1> HIDE DEF fb, gb
<1>5. /\ gb[p] = fb[p] \ {f} /\ \A q \in Proc \ {p} : gb[q] = fb[q]
      /\ \A b : b # f.gid => FreeIn(gb, b) = FreeIn(fb, b)
      /\ FreeIn(fb, f.gid) # {}
      /\ Sole(FreeIn(fb, f.gid)) => FreeIn(gb, f.gid) = {}
  <2>1. Taken(fb, gb, p, f)
    BY <1>4, FreeGrabbed
  <2> QED
    BY <2>1 DEF Taken
<1>6. OnceIn(processed[f.gid], Spots(chan, out, f.gid), FreeIn(fb, f.gid), Planning(f.gid), Working(f.gid))
  BY <1>2 DEF Inv, OnceOK, fb
<1>7. /\ Sole(FreeIn(fb, f.gid)) /\ processed[f.gid] = 0 /\ Spots(chan, out, f.gid) = {}
      /\ Planning(f.gid) = {} /\ Working(f.gid) = {}
  BY <1>5, <1>6 DEF OnceIn
<1>8. \A q \in Proc : proc_work'[q] = Total(gb[q]) /\ Total(gb[q]) \in Nat
  <2> TAKE q \in Proc
  <2>1. fb[q] \subseteq FreeBlock /\ proc_work[q] = Total(fb[q]) /\ Total(fb[q]) \in Nat
    BY FreeWeighed DEF fb
  <2>2. proc_work \in [Proc -> Nat]
    BY DEF Inv, AuxTypeOK
  <2>3. CASE q = p
    <3>1. proc_work'[q] = proc_work[q] - Work(f)
      BY <1>3, <2>2, <2>3
    <3>2. fb[p] \subseteq FreeBlock /\ gb[p] \subseteq FreeBlock
      BY <1>4, <2>1, <2>3
    <3>3. Total(fb[p] \ {f}) = Total(fb[p]) - Work(f)
      BY <1>4, <3>2, TotalWork
    <3>4. Total(gb[p]) \in Nat
      BY <3>2, TotalWork
    <3> QED
      BY <1>5, <2>1, <2>3, <3>1, <3>3, <3>4
  <2>4. CASE q # p
    BY <1>3, <1>5, <2>1, <2>2, <2>4
  <2> QED
    BY <2>3, <2>4
<1>9. proc_work' \in [Proc -> Nat]
  <2>1. proc_work' = [q \in Proc |-> proc_work'[q]]
    BY <1>3 DEF Inv, AuxTypeOK
  <2> QED
    BY <1>8, <2>1
<1>10. Weighed'
  BY <1>8 DEF Weighed, gb
<1> QED
  BY <1>1, <1>2, <1>4, <1>5, <1>7, <1>9, <1>10 DEF fb, gb

LEMMA AddStep ==
  ASSUME Inv, NEW p \in Proc, NEW f \in FreeBlock, add_free_block(p, f), FreeIn(free_blocks, f.gid) = {}
  PROVE  /\ free_blocks' \in [Proc -> SUBSET FreeBlock] /\ proc_work' \in [Proc -> Nat]
         /\ free_blocks'[p] = free_blocks[p] \cup {f}
         /\ \A q \in Proc \ {p} : free_blocks'[q] = free_blocks[q]
         /\ Weighed'
         /\ \A b : b # f.gid => FreeIn(free_blocks', b) = FreeIn(free_blocks, b)
         /\ Sole(FreeIn(free_blocks', f.gid))
<1>1. free_blocks \in [Proc -> SUBSET FreeBlock]
  BY DEF Inv, AuxTypeOK
<1>2. free_blocks' = [free_blocks EXCEPT ![p] = @ \cup {f}] /\ proc_work' = [proc_work EXCEPT ![p] = @ + Work(f)]
  BY DEF add_free_block
<1> DEFINE fb == free_blocks
           gb == free_blocks'
<1>3. /\ gb \in [Proc -> SUBSET FreeBlock] /\ FreeIn(fb, f.gid) = {} /\ fb[p] \subseteq FreeBlock
      /\ gb[p] = fb[p] \cup {f} /\ \A q \in Proc \ {p} : gb[q] = fb[q]
  BY <1>1, <1>2
<1> HIDE DEF fb, gb
<1>4. /\ gb[p] = fb[p] \cup {f} /\ \A q \in Proc \ {p} : gb[q] = fb[q]
      /\ \A b : b # f.gid => FreeIn(gb, b) = FreeIn(fb, b)
      /\ Sole(FreeIn(gb, f.gid)) /\ f \notin fb[p]
  <2>1. Given(fb, gb, p, f)
    BY <1>3, FreeAdded
  <2> QED
    BY <1>3, <2>1 DEF Given
<1>5. \A q \in Proc : proc_work'[q] = Total(gb[q]) /\ Total(gb[q]) \in Nat
  <2> TAKE q \in Proc
  <2>1. fb[q] \subseteq FreeBlock /\ proc_work[q] = Total(fb[q]) /\ Total(fb[q]) \in Nat
    BY FreeWeighed DEF fb
  <2>2. proc_work \in [Proc -> Nat]
    BY DEF Inv, AuxTypeOK
  <2>3. CASE q = p
    <3>1. proc_work'[q] = proc_work[q] + Work(f)
      BY <1>2, <2>2, <2>3
    <3>2. fb[p] \subseteq FreeBlock /\ gb[p] \subseteq FreeBlock
      BY <1>3, <1>4
    <3>3. Total(fb[p] \cup {f}) = Total(fb[p]) + Work(f)
      BY <1>4, <3>2, TotalWork
    <3>4. Total(gb[p]) \in Nat
      BY <3>2, TotalWork
    <3> QED
      BY <1>4, <2>1, <2>3, <3>1, <3>3, <3>4
  <2>4. CASE q # p
    BY <1>2, <1>4, <2>1, <2>2, <2>4
  <2> QED
    BY <2>3, <2>4
<1>6. proc_work' \in [Proc -> Nat]
  <2>1. proc_work' = [q \in Proc |-> proc_work'[q]]
    BY <1>2 DEF Inv, AuxTypeOK
  <2> QED
    BY <1>5, <2>1
<1>7. Weighed'
  BY <1>5 DEF Weighed, gb
<1> QED
  BY <1>3, <1>4, <1>6, <1>7 DEF fb, gb

-----------------------------------------------------------------------------
(***************************************************************************)
(* The steps of the work thread.                                           *)
(***************************************************************************)
LEMMA GrabInv ==
  ASSUME Inv, NEW p \in Proc, Grab(p)
  PROVE  Inv'
<1>1. PICK f : /\ grab_heaviest_free_block(p, f)
               /\ work' = [work EXCEPT ![p] = [gid |-> f.gid, lid |-> lids_[p][f.gid], found |-> {}, enqueued |-> <<>>]]
  BY DEF Grab
<1>2. /\ UNCHANGED <<gids_, lids_, incoming_, link, outgoing_, prev_proc_work, nsent_reqs, requesters,
                     sample_work_info, iexchange_done, chan, out, done, from, mpc, plan, processed, disturbed, rank_map_>>
      /\ wpc[p] = "poll" /\ wpc' = [wpc EXCEPT ![p] = "gid"]
  BY DEF Grab, master, info, net
<1>3. /\ f \in free_blocks[p] /\ f.gid \in Block
      /\ free_blocks' \in [Proc -> SUBSET FreeBlock] /\ proc_work' \in [Proc -> Nat]
      /\ free_blocks'[p] = free_blocks[p] \ {f}
      /\ \A q \in Proc \ {p} : free_blocks'[q] = free_blocks[q]
      /\ Weighed'
      /\ \A b : b # f.gid => FreeIn(free_blocks', b) = FreeIn(free_blocks, b)
      /\ FreeIn(free_blocks', f.gid) = {}
  BY <1>1, GrabStep
<1>4. processed[f.gid] = 0 /\ Spots(chan, out, f.gid) = {} /\ Planning(f.gid) = {} /\ Working(f.gid) = {}
  BY <1>1, GrabStep DEF Inv
<1>5. /\ work \in [Proc -> [gid : Block \cup {NoBlock}, lid : Nat \cup {None}, found : SUBSET (Block \cup {NoBlock}),
                            enqueued : Enqueues]]
      /\ wpc \in [Proc -> {"poll", "gid", "block", "run", "exited"}]
      /\ work[p] = NoWork /\ work[p].gid \notin Block
  BY <1>2, DynamicAssumption DEF Inv, ThreadsTypeOK, AtWork, NoWork
<1>6. f.gid \in ToSet(gids_[p])
  BY <1>3 DEF Inv, HereOK, HasFree
<1>7. lids_[p][f.gid] \in DOMAIN gids_[p] /\ gids_[p][lids_[p][f.gid]] = f.gid /\ lids_[p][f.gid] \in Nat
  <2>1. Tables(gids_[p], lids_[p])
    BY DEF Inv, TablesOK
  <2>2. gids_[p] \in Seq(Block)
    BY <2>1 DEF Tables
  <2>3. DOMAIN gids_[p] = 1..Len(gids_[p])
    BY <2>2, LenProperties
  <2> QED
    BY <1>6, <2>1, <2>3 DEF Tables
<1>8. /\ work'[p] = [gid |-> f.gid, lid |-> lids_[p][f.gid], found |-> {}, enqueued |-> <<>>]
      /\ \A q \in Proc \ {p} : work'[q] = work[q] /\ wpc'[q] = wpc[q]
      /\ wpc'[p] = "gid"
  BY <1>1, <1>2, <1>5
<1>11. MasterTypeOK'
  BY <1>2 DEF Inv, MasterTypeOK
<1>12. AuxTypeOK'
  BY <1>2, <1>3 DEF Inv, AuxTypeOK
<1>13. ThreadsTypeOK'
  <2>1. work'[p] \in [gid : Block \cup {NoBlock}, lid : Nat \cup {None}, found : SUBSET (Block \cup {NoBlock}),
                      enqueued : Enqueues]
    BY <1>3, <1>7, <1>8 DEF Enqueues
  <2>2. work' \in [Proc -> [gid : Block \cup {NoBlock}, lid : Nat \cup {None}, found : SUBSET (Block \cup {NoBlock}),
                            enqueued : Enqueues]]
    BY <1>1, <1>5, <1>8, <2>1
  <2> QED
    BY <1>2, <1>5, <2>2 DEF Inv, ThreadsTypeOK
<1>14. TablesOK' /\ PlaceOK' /\ CarriedOK'
  BY <1>2 DEF Inv, TablesOK, PlaceOK, Residents, CarriedOK
<1>15. OnceOK'
  <2> SUFFICES ASSUME NEW b \in Block
               PROVE  OnceIn(processed'[b], Spots(chan', out', b), FreeIn(free_blocks', b), Planning(b)', Working(b)')
    BY DEF OnceOK
  <2>1. OnceIn(processed[b], Spots(chan, out, b), FreeIn(free_blocks, b), Planning(b), Working(b))
    BY DEF Inv, OnceOK
  <2>2. Planning(b)' = Planning(b) /\ Spots(chan', out', b) = Spots(chan, out, b) /\ processed'[b] = processed[b]
    BY <1>2 DEF Planning, Planned
  <2>3. CASE b = f.gid
    <3>1. Working(b)' = {p}
      BY <1>4, <1>8, <2>3 DEF Working
    <3> QED
      BY <1>3, <1>4, <2>2, <2>3, <3>1 DEF OnceIn, Sole
  <2>4. CASE b # f.gid
    <3>1. Working(b)' = Working(b)
      BY <1>5, <1>8, <2>4 DEF Working
    <3> QED
      BY <1>3, <2>1, <2>2, <2>4, <3>1
  <2> QED
    BY <2>3, <2>4
<1>16. HereOK'
  <2> SUFFICES ASSUME NEW b \in Block, NEW q \in Proc, (Planned(q, b) \/ work[q].gid = b \/ HasFree(q, b))'
               PROVE  (b \in ToSet(gids_[q]) /\ incoming_[q][b] > 0)'
    BY DEF HereOK
  <2>1. Planned(q, b) \/ work[q].gid = b \/ HasFree(q, b)
    BY <1>2, <1>3, <1>8 DEF Planned, HasFree
  <2> QED
    BY <1>2, <2>1 DEF Inv, HereOK
<1>17. LooksUpItsOwn'
  BY <1>2, <1>8 DEF Inv, LooksUpItsOwn
<1>18. InHand' /\ Over'
  BY <1>2, <1>3 DEF Inv, InHand, Over, Gone, InCallback
<1>19. AtWork'
  <2> SUFFICES ASSUME NEW q \in Proc
               PROVE  (/\ wpc[q] \in {"poll", "exited"} => work[q] = NoWork
                       /\ wpc[q] \notin {"poll", "exited"} => work[q].gid \in Block
                       /\ wpc[q] = "gid" => work[q].found = {}
                       /\ wpc[q] = "run" => work[q].enqueued \in [Neighbor[work[q].gid] -> Proc]
                       /\ wpc[q] = "exited" => Gone(q)
                       /\ LookingUp(q) /\ q \notin disturbed =>
                            work[q].lid \in DOMAIN gids_[q] /\ gids_[q][work[q].lid] = work[q].gid)'
    BY DEF AtWork
  <2>1. CASE q = p
    BY <1>2, <1>3, <1>7, <1>8, <2>1
  <2>2. CASE q # p
    BY <1>2, <1>8, <2>2 DEF Inv, AtWork, Gone, LookingUp
  <2> QED
    BY <2>1, <2>2
<1>20. Resolved'
  BY <1>2, <1>8 DEF Inv, Resolved
<1> QED
  BY <1>3, <1>11, <1>12, <1>13, <1>14, <1>15, <1>16, <1>17, <1>18, <1>19, <1>20 DEF Inv

LEMMA LookUpGidInv ==
  ASSUME Inv, NEW p \in Proc, LookUpGid(p)
  PROVE  Inv'
<1>1. /\ UNCHANGED <<gids_, lids_, incoming_, link, outgoing_, free_blocks, proc_work, prev_proc_work, nsent_reqs,
                     requesters, sample_work_info, iexchange_done, chan, out, done, from, mpc, plan, processed, disturbed,
                     rank_map_>>
      /\ wpc[p] = "gid" /\ wpc' = [wpc EXCEPT ![p] = "block"] /\ work' = [work EXCEPT ![p].found = Found(p)]
  BY DEF LookUpGid, master, aux, info, net
<1>2. /\ work \in [Proc -> [gid : Block \cup {NoBlock}, lid : Nat \cup {None}, found : SUBSET (Block \cup {NoBlock}),
                            enqueued : Enqueues]]
      /\ wpc \in [Proc -> {"poll", "gid", "block", "run", "exited"}]
  BY DEF Inv, ThreadsTypeOK
<1>3. /\ \A q \in Proc : work'[q].gid = work[q].gid /\ work'[q].lid = work[q].lid /\ work'[q].enqueued = work[q].enqueued
      /\ \A q \in Proc \ {p} : work'[q] = work[q] /\ wpc'[q] = wpc[q]
      /\ wpc'[p] = "block" /\ work'[p].found = Found(p)
  BY <1>1, <1>2
<1>4. Found(p) \in SUBSET (Block \cup {NoBlock})
  <2>1. gids_[p] \in Seq(Block)
    BY DEF Inv, MasterTypeOK
  <2>2. \A i \in DOMAIN gids_[p] : gids_[p][i] \in Block
    BY <2>1, LenProperties, ElementOfSeq
  <2> QED
    BY <2>2 DEF Found
<1>5. p \notin disturbed => Found(p) = {work[p].gid}
  BY <1>1 DEF Inv, AtWork, LookingUp, Found
<1>11. MasterTypeOK' /\ AuxTypeOK' /\ TablesOK' /\ PlaceOK' /\ CarriedOK' /\ Weighed'
  BY <1>1 DEF Inv, MasterTypeOK, AuxTypeOK, TablesOK, PlaceOK, Residents, CarriedOK, Weighed
<1>12. ThreadsTypeOK'
  <2>1. work' \in [Proc -> [gid : Block \cup {NoBlock}, lid : Nat \cup {None}, found : SUBSET (Block \cup {NoBlock}),
                            enqueued : Enqueues]]
    BY <1>1, <1>2, <1>4
  <2> QED
    BY <1>1, <1>2, <2>1 DEF Inv, ThreadsTypeOK
<1>13. OnceOK'
  <2>1. \A b : Working(b)' = Working(b) /\ Planning(b)' = Planning(b)
    BY <1>1, <1>3 DEF Working, Planning, Planned
  <2> QED
    BY <1>1, <2>1 DEF Inv, OnceOK
<1>14. HereOK'
  BY <1>1, <1>3 DEF Inv, HereOK, Planned, HasFree
<1>15. LooksUpItsOwn'
  BY <1>1, <1>3, <1>5 DEF Inv, LooksUpItsOwn
<1>16. InHand' /\ Over'
  BY <1>1 DEF Inv, InHand, Over, Gone, InCallback
<1>17. AtWork'
  BY <1>1, <1>3 DEF Inv, AtWork, Gone, LookingUp
<1>18. Resolved'
  BY <1>1, <1>3 DEF Inv, Resolved
<1> QED
  BY <1>11, <1>12, <1>13, <1>14, <1>15, <1>16, <1>17, <1>18 DEF Inv

LEMMA CallInv ==
  ASSUME Inv, NEW p \in Proc, Call(p)
  PROVE  Inv'
<1>1. /\ UNCHANGED <<gids_, lids_, incoming_, link, outgoing_, free_blocks, proc_work, prev_proc_work, nsent_reqs,
                     requesters, sample_work_info, iexchange_done, chan, out, done, from, mpc, plan, processed, disturbed,
                     rank_map_>>
      /\ wpc[p] = "block" /\ wpc' = [wpc EXCEPT ![p] = "run"]
      /\ work' = [work EXCEPT ![p].found = @ \cup Found(p), ![p].enqueued = link[work[p].gid]]
  BY DEF Call, master, aux, info, net
<1>2. /\ work \in [Proc -> [gid : Block \cup {NoBlock}, lid : Nat \cup {None}, found : SUBSET (Block \cup {NoBlock}),
                            enqueued : Enqueues]]
      /\ wpc \in [Proc -> {"poll", "gid", "block", "run", "exited"}]
  BY DEF Inv, ThreadsTypeOK
<1>3. /\ \A q \in Proc : work'[q].gid = work[q].gid /\ work'[q].lid = work[q].lid
      /\ \A q \in Proc \ {p} : work'[q] = work[q] /\ wpc'[q] = wpc[q]
      /\ wpc'[p] = "run" /\ work'[p].found = work[p].found \cup Found(p) /\ work'[p].enqueued = link[work[p].gid]
  BY <1>1, <1>2
<1>4. Found(p) \in SUBSET (Block \cup {NoBlock})
  <2>1. gids_[p] \in Seq(Block)
    BY DEF Inv, MasterTypeOK
  <2>2. \A i \in DOMAIN gids_[p] : gids_[p][i] \in Block
    BY <2>1, LenProperties, ElementOfSeq
  <2> QED
    BY <2>2 DEF Found
<1>5. p \notin disturbed => Found(p) = {work[p].gid}
  BY <1>1 DEF Inv, AtWork, LookingUp, Found
<1>6. work[p].gid \in Block /\ link[work[p].gid] \in [Neighbor[work[p].gid] -> Proc] /\ link[work[p].gid] \in Enqueues
  <2>1. work[p].gid \in Block
    BY <1>1 DEF Inv, AtWork
  <2>2. link[work[p].gid] \in [Neighbor[work[p].gid] -> Proc]
    BY <2>1 DEF Inv, MasterTypeOK
  <2> DEFINE F(b) == [Neighbor[b] -> Proc]
             u == work[p].gid
             v == link[u]
  <2>3. u \in Block /\ v \in F(u)
    BY <2>1, <2>2
  <2>4. Enqueues = {<<>>} \cup UNION {F(b) : b \in Block}
    BY DEF Enqueues
  <2>5. v \in Enqueues
    <3> HIDE DEF F, u, v
    <3> QED
      BY <2>3, <2>4
  <2> QED
    BY <2>1, <2>2, <2>5
<1>11. MasterTypeOK' /\ AuxTypeOK' /\ TablesOK' /\ PlaceOK' /\ CarriedOK' /\ Weighed'
  BY <1>1 DEF Inv, MasterTypeOK, AuxTypeOK, TablesOK, PlaceOK, Residents, CarriedOK, Weighed
<1>12. ThreadsTypeOK'
  <2>1. work' \in [Proc -> [gid : Block \cup {NoBlock}, lid : Nat \cup {None}, found : SUBSET (Block \cup {NoBlock}),
                            enqueued : Enqueues]]
    <3> DEFINE R == [gid : Block \cup {NoBlock}, lid : Nat \cup {None}, found : SUBSET (Block \cup {NoBlock}),
                     enqueued : Enqueues]
    <3>1. work'[p] = [work[p] EXCEPT !.found = @ \cup Found(p), !.enqueued = link[work[p].gid]]
      BY <1>1, <1>2
    <3>2. work'[p] \in R
      <4>1. work[p] \in R
        BY <1>2
      <4> QED
        BY <1>4, <1>6, <3>1, <4>1
    <3>3. \A q \in Proc : work'[q] \in R
      <4>1. work \in [Proc -> R]
        BY <1>2
      <4> HIDE DEF R
      <4> QED
        BY <1>3, <3>2, <4>1
    <3>4. work' = [q \in Proc |-> work'[q]]
      BY <1>1, <1>2
    <3> HIDE DEF R
    <3>5. work' \in [Proc -> R]
      BY <3>3, <3>4
    <3> QED
      BY <3>5 DEF R
  <2> QED
    BY <1>1, <1>2, <2>1 DEF Inv, ThreadsTypeOK
<1>13. OnceOK'
  <2>1. \A b : Working(b)' = Working(b) /\ Planning(b)' = Planning(b)
    BY <1>1, <1>3 DEF Working, Planning, Planned
  <2> QED
    BY <1>1, <2>1 DEF Inv, OnceOK
<1>14. HereOK'
  BY <1>1, <1>3 DEF Inv, HereOK, Planned, HasFree
<1>15. LooksUpItsOwn'
  BY <1>1, <1>3, <1>5 DEF Inv, LooksUpItsOwn
<1>16. InHand' /\ Over'
  BY <1>1 DEF Inv, InHand, Over, Gone, InCallback
<1>17. AtWork'
  <2> SUFFICES ASSUME NEW q \in Proc
               PROVE  (/\ wpc[q] \in {"poll", "exited"} => work[q] = NoWork
                       /\ wpc[q] \notin {"poll", "exited"} => work[q].gid \in Block
                       /\ wpc[q] = "gid" => work[q].found = {}
                       /\ wpc[q] = "run" => work[q].enqueued \in [Neighbor[work[q].gid] -> Proc]
                       /\ wpc[q] = "exited" => Gone(q)
                       /\ LookingUp(q) /\ q \notin disturbed =>
                            work[q].lid \in DOMAIN gids_[q] /\ gids_[q][work[q].lid] = work[q].gid)'
    BY DEF AtWork
  <2>1. CASE q = p
    <3>1. ~LookingUp(q)'
      BY <1>3, <2>1 DEF LookingUp
    <3> QED
      BY <1>3, <1>6, <2>1, <3>1
  <2>2. CASE q # p
    <3>1. wpc'[q] = wpc[q] /\ work'[q] = work[q] /\ UNCHANGED <<mpc, gids_, disturbed>>
      BY <1>1, <1>3, <2>2
    <3>2. (Gone(q)' <=> Gone(q)) /\ (LookingUp(q)' <=> LookingUp(q))
      BY <3>1 DEF Gone, LookingUp
    <3>3. AtWork
      BY DEF Inv
    <3> QED
      BY <3>1, <3>2, <3>3 DEF AtWork
  <2> QED
    BY <2>1, <2>2
<1>18. Resolved'
  BY <1>1, <1>3 DEF Inv, Resolved
<1> QED
  BY <1>11, <1>12, <1>13, <1>14, <1>15, <1>16, <1>17, <1>18 DEF Inv

LEMMA CopyOutInv ==
  ASSUME Inv, NEW p \in Proc, CopyOut(p)
  PROVE  Inv'
<1> DEFINE b == work[p].gid
           E == {<<b, n>> : n \in Neighbor[b]}
           D == DOMAIN outgoing_[p]
<1>1. /\ UNCHANGED <<gids_, lids_, incoming_, link, free_blocks, proc_work, prev_proc_work, nsent_reqs,
                     requesters, sample_work_info, iexchange_done, chan, out, done, from, mpc, plan, rank_map_>>
      /\ wpc[p] = "run" /\ wpc' = [wpc EXCEPT ![p] = "poll"] /\ work' = [work EXCEPT ![p] = NoWork]
      /\ disturbed' = disturbed \ {p} /\ processed' = [processed EXCEPT ![b] = @ + 1]
      /\ outgoing_' = [outgoing_ EXCEPT ![p] = [e \in D \cup E |-> IF e \in D THEN outgoing_[p][e] ELSE work[p].enqueued[e[2]]]]
  <2>1. outgoing_ = [q \in Proc |-> outgoing_[q]]
    BY DEF Inv, MasterTypeOK
  <2> QED
    BY <2>1 DEF CopyOut, master, aux, info, net
<1>2. /\ work \in [Proc -> [gid : Block \cup {NoBlock}, lid : Nat \cup {None}, found : SUBSET (Block \cup {NoBlock}),
                            enqueued : Enqueues]]
      /\ wpc \in [Proc -> {"poll", "gid", "block", "run", "exited"}]
      /\ processed \in [Block -> Nat] /\ disturbed \subseteq Proc
  BY DEF Inv, ThreadsTypeOK
<1>3. /\ \A q \in Proc \ {p} : work'[q] = work[q] /\ wpc'[q] = wpc[q]
      /\ wpc'[p] = "poll" /\ work'[p] = NoWork
  BY <1>1, <1>2
<1>4. /\ b \in Block /\ work[p].enqueued \in [Neighbor[b] -> Proc]
      /\ NoWork.gid \notin Block /\ NoWork.found = {} /\ NoWork.gid = NoBlock
  BY <1>1, DynamicAssumption DEF Inv, AtWork, NoWork
<1>5. /\ processed'[b] = processed[b] + 1 /\ processed' \in [Block -> Nat]
      /\ \A x \in Block \ {b} : processed'[x] = processed[x]
  BY <1>1, <1>2, <1>4
<1> HIDE DEF b
<1>6. \A e \in D \cup E : e \in Block \X Block
  <2>1. D \subseteq Block \X Block
    BY DEF Inv, MasterTypeOK
  <2>2. \A n \in Neighbor[b] : n \in Block
    BY <1>4, DynamicAssumption
  <2>3. \A e \in E : e \in Block \X Block
    BY <1>4, <2>2
  <2> HIDE DEF D, E
  <2> QED
    BY <2>1, <2>3
<1>7. \A e \in E : e[2] \in Neighbor[b]
  OBVIOUS
<1>8. \A e \in D : outgoing_[p][e] \in Proc
  BY DEF Inv, MasterTypeOK
<1> HIDE DEF D, E
<1>9. MasterTypeOK'
  <2> DEFINE new == [e \in D \cup E |-> IF e \in D THEN outgoing_[p][e] ELSE work[p].enqueued[e[2]]]
  <2>1. new \in [D \cup E -> Proc] /\ DOMAIN new = D \cup E
    BY <1>4, <1>7, <1>8
  <2> HIDE DEF new
  <2>2. outgoing_ = [q \in Proc |-> outgoing_[q]] /\ outgoing_' = [outgoing_ EXCEPT ![p] = new]
    BY <1>1 DEF Inv, MasterTypeOK, new
  <2>3. /\ outgoing_' = [q \in Proc |-> outgoing_'[q]] /\ outgoing_'[p] = new
        /\ \A q \in Proc \ {p} : outgoing_'[q] = outgoing_[q]
    BY <2>2
  <2>4. \A q \in Proc : DOMAIN outgoing_'[q] \subseteq Block \X Block /\ outgoing_'[q] \in [DOMAIN outgoing_'[q] -> Proc]
    <3> TAKE q \in Proc
    <3>1. CASE q = p
      BY <1>6, <2>1, <2>3, <3>1
    <3>2. CASE q # p
      BY <2>3, <3>2 DEF Inv, MasterTypeOK
    <3> QED
      BY <3>1, <3>2
  <2> QED
    BY <1>1, <2>3, <2>4 DEF Inv, MasterTypeOK
<1>10. AuxTypeOK' /\ TablesOK' /\ PlaceOK' /\ CarriedOK' /\ Weighed'
  BY <1>1 DEF Inv, AuxTypeOK, TablesOK, PlaceOK, Residents, CarriedOK, Weighed
<1>11. ThreadsTypeOK'
  <2>1. NoWork \in [gid : Block \cup {NoBlock}, lid : Nat \cup {None}, found : SUBSET (Block \cup {NoBlock}), enqueued : Enqueues]
    BY DEF NoWork, Enqueues
  <2>2. work' \in [Proc -> [gid : Block \cup {NoBlock}, lid : Nat \cup {None}, found : SUBSET (Block \cup {NoBlock}),
                            enqueued : Enqueues]]
    BY <1>1, <1>2, <2>1
  <2> QED
    BY <1>1, <1>2, <1>5, <2>2 DEF Inv, ThreadsTypeOK
<1>12. OnceOK'
  <2> SUFFICES ASSUME NEW x \in Block
               PROVE  OnceIn(processed'[x], Spots(chan', out', x), FreeIn(free_blocks', x), Planning(x)', Working(x)')
    BY DEF OnceOK
  <2>1. OnceIn(processed[x], Spots(chan, out, x), FreeIn(free_blocks, x), Planning(x), Working(x))
    BY DEF Inv, OnceOK
  <2>2. Planning(x)' = Planning(x) /\ Spots(chan', out', x) = Spots(chan, out, x) /\ free_blocks' = free_blocks
    BY <1>1 DEF Planning, Planned
  <2>3. CASE x = b
    <3>1. p \in Working(x)
      BY <2>3 DEF Working, b
    <3>2. /\ processed[x] = 0 /\ Spots(chan, out, x) = {} /\ FreeIn(free_blocks, x) = {} /\ Planning(x) = {}
          /\ Working(x) = {p}
      BY <2>1, <3>1 DEF OnceIn, Sole
    <3>3. Working(x)' = {}
      <4>1. \A q \in Proc : work[q].gid = x => q = p
        BY <3>2 DEF Working
      <4> QED
        BY <1>3, <1>4, <4>1 DEF Working
    <3>4. processed'[x] = 1
      BY <1>5, <2>3, <3>2
    <3> QED
      BY <2>2, <3>2, <3>3, <3>4 DEF OnceIn
  <2>4. CASE x # b
    <3>1. Working(x)' = Working(x)
      BY <1>3, <1>4, <2>4 DEF Working, b
    <3> QED
      BY <1>5, <2>1, <2>2, <2>4, <3>1
  <2> QED
    BY <2>3, <2>4
<1>13. HereOK'
  <2> SUFFICES ASSUME NEW x \in Block, NEW q \in Proc, (Planned(q, x) \/ work[q].gid = x \/ HasFree(q, x))'
               PROVE  (x \in ToSet(gids_[q]) /\ incoming_[q][x] > 0)'
    BY DEF HereOK
  <2>1. Planned(q, x) \/ work[q].gid = x \/ HasFree(q, x)
    BY <1>1, <1>3, <1>4 DEF Planned, HasFree
  <2> QED
    BY <1>1, <2>1 DEF Inv, HereOK
<1>14. LooksUpItsOwn'
  BY <1>1, <1>3, <1>4 DEF Inv, LooksUpItsOwn
<1>15. InHand' /\ Over'
  BY <1>1 DEF Inv, InHand, Over, Gone, InCallback
<1>16. AtWork'
  <2> SUFFICES ASSUME NEW q \in Proc
               PROVE  (/\ wpc[q] \in {"poll", "exited"} => work[q] = NoWork
                       /\ wpc[q] \notin {"poll", "exited"} => work[q].gid \in Block
                       /\ wpc[q] = "gid" => work[q].found = {}
                       /\ wpc[q] = "run" => work[q].enqueued \in [Neighbor[work[q].gid] -> Proc]
                       /\ wpc[q] = "exited" => Gone(q)
                       /\ LookingUp(q) /\ q \notin disturbed =>
                            work[q].lid \in DOMAIN gids_[q] /\ gids_[q][work[q].lid] = work[q].gid)'
    BY DEF AtWork
  <2>1. CASE q = p
    <3>1. ~LookingUp(q)'
      BY <1>3, <2>1 DEF LookingUp
    <3> QED
      BY <1>3, <2>1, <3>1
  <2>2. CASE q # p
    BY <1>1, <1>3, <2>2 DEF Inv, AtWork, Gone, LookingUp
  <2> QED
    BY <2>1, <2>2
<1>17. Resolved'
  <2>1. mpc[p] # "end"
    BY <1>1 DEF Inv, Resolved
  <2>2. \A q \in Proc \ {p} : outgoing_'[q] = outgoing_[q]
    <3>1. outgoing_ = [q \in Proc |-> outgoing_[q]]
      BY DEF Inv, MasterTypeOK
    <3> QED
      BY <1>1, <3>1
  <2> QED
    BY <1>1, <1>3, <2>1, <2>2 DEF Inv, Resolved
<1> QED
  BY <1>9, <1>10, <1>11, <1>12, <1>13, <1>14, <1>15, <1>16, <1>17 DEF Inv

LEMMA ExitInv ==
  ASSUME Inv, NEW p \in Proc, Exit(p)
  PROVE  Inv'
<1>1. /\ UNCHANGED <<gids_, lids_, outgoing_, link, free_blocks, proc_work, prev_proc_work, nsent_reqs,
                     requesters, sample_work_info, iexchange_done, chan, out, done, from, mpc, plan, work, processed,
                     disturbed, rank_map_>>
      /\ wpc[p] = "poll" /\ wpc' = [wpc EXCEPT ![p] = "exited"] /\ iexchange_done[p]
      /\ incoming_' = [incoming_ EXCEPT ![p] = [b \in Block |-> 0]]
  BY DEF Exit, aux, info, net
<1>2. /\ wpc \in [Proc -> {"poll", "gid", "block", "run", "exited"}]
      /\ incoming_ \in [Proc -> [Block -> Nat]]
  BY DEF Inv, ThreadsTypeOK, MasterTypeOK
<1>3. /\ \A q \in Proc \ {p} : incoming_'[q] = incoming_[q] /\ wpc'[q] = wpc[q]
      /\ wpc'[p] = "exited" /\ incoming_' \in [Proc -> [Block -> Nat]]
  BY <1>1, <1>2
<1>4. Gone(p)
  BY <1>1 DEF Inv, Over
<1>5. free_blocks[p] = {} /\ ~InCallback(p) /\ work[p].gid \notin Block
  <2>1. ~InCallback(p) /\ done[p]
    BY <1>4 DEF Inv, Over
  <2>2. free_blocks[p] = {}
    BY <2>1 DEF Inv, InHand
  <2> QED
    BY <1>1, <2>1, <2>2, DynamicAssumption DEF Inv, AtWork, NoWork
<1>6. MasterTypeOK'
  BY <1>1, <1>3 DEF Inv, MasterTypeOK
<1>7. AuxTypeOK' /\ TablesOK' /\ PlaceOK' /\ CarriedOK' /\ Weighed'
  BY <1>1 DEF Inv, AuxTypeOK, TablesOK, PlaceOK, Residents, CarriedOK, Weighed
<1>8. ThreadsTypeOK'
  BY <1>1, <1>2 DEF Inv, ThreadsTypeOK
<1>9. OnceOK'
  <2>1. \A b : Working(b)' = Working(b) /\ Planning(b)' = Planning(b)
    BY <1>1 DEF Working, Planning, Planned
  <2> QED
    BY <1>1, <2>1 DEF Inv, OnceOK
<1>10. HereOK'
  <2> SUFFICES ASSUME NEW b \in Block, NEW q \in Proc, (Planned(q, b) \/ work[q].gid = b \/ HasFree(q, b))'
               PROVE  (b \in ToSet(gids_[q]) /\ incoming_[q][b] > 0)'
    BY DEF HereOK
  <2>1. Planned(q, b) \/ work[q].gid = b \/ HasFree(q, b)
    BY <1>1 DEF Planned, HasFree
  <2>2. q # p
    BY <1>5, <2>1 DEF Planned, HasFree, InCallback
  <2> QED
    BY <1>1, <1>3, <2>1, <2>2 DEF Inv, HereOK
<1>11. LooksUpItsOwn'
  BY <1>1 DEF Inv, LooksUpItsOwn
<1>12. InHand' /\ Over'
  BY <1>1 DEF Inv, InHand, Over, Gone, InCallback
<1>13. AtWork'
  <2> SUFFICES ASSUME NEW q \in Proc
               PROVE  (/\ wpc[q] \in {"poll", "exited"} => work[q] = NoWork
                       /\ wpc[q] \notin {"poll", "exited"} => work[q].gid \in Block
                       /\ wpc[q] = "gid" => work[q].found = {}
                       /\ wpc[q] = "run" => work[q].enqueued \in [Neighbor[work[q].gid] -> Proc]
                       /\ wpc[q] = "exited" => Gone(q)
                       /\ LookingUp(q) /\ q \notin disturbed =>
                            work[q].lid \in DOMAIN gids_[q] /\ gids_[q][work[q].lid] = work[q].gid)'
    BY DEF AtWork
  <2>1. CASE q = p
    <3>1. ~LookingUp(q)' /\ work[q] = NoWork /\ Gone(q)'
      BY <1>1, <1>3, <1>4, <2>1 DEF LookingUp, Inv, AtWork, Gone
    <3> QED
      BY <1>1, <1>3, <2>1, <3>1
  <2>2. CASE q # p
    BY <1>1, <1>3, <2>2 DEF Inv, AtWork, Gone, LookingUp
  <2> QED
    BY <2>1, <2>2
<1>14. Resolved'
  BY <1>1, <1>3 DEF Inv, Resolved
<1> QED
  BY <1>6, <1>7, <1>8, <1>9, <1>10, <1>11, <1>12, <1>13, <1>14 DEF Inv

-----------------------------------------------------------------------------
(***************************************************************************)
(* The end: the steps of the calling thread after the iexchange.           *)
(***************************************************************************)
\* A step that changes only the place of a rank that is not about to move a block.
LEMMA PlaceStep ==
  ASSUME Inv, NEW p \in Proc, NEW to, Goto(p, to), mpc[p] # "move", to # "move",
         to \in {"iexchange", "grab", "move", "recv", "fix_links", "barrier", "join", "end"}
  PROVE  /\ \A q \in Proc \ {p} : mpc'[q] = mpc[q]
         /\ mpc'[p] = to
         /\ mpc' \in [Proc -> {"iexchange", "grab", "move", "recv", "fix_links", "barrier", "join", "end"}]
         /\ plan' = plan => \A q \in Proc : \A b : Planned(q, b)' <=> Planned(q, b)
         /\ plan' = plan => \A b : Planning(b)' = Planning(b)
<1>1. mpc \in [Proc -> {"iexchange", "grab", "move", "recv", "fix_links", "barrier", "join", "end"}]
  BY DEF Inv, ThreadsTypeOK
<1>2. (\A q \in Proc \ {p} : mpc'[q] = mpc[q]) /\ mpc'[p] = to
  BY <1>1 DEF Goto
<1>3. mpc' \in [Proc -> {"iexchange", "grab", "move", "recv", "fix_links", "barrier", "join", "end"}]
  BY <1>1 DEF Goto
<1>4. ASSUME plan' = plan PROVE \A q \in Proc : \A b : Planned(q, b)' <=> Planned(q, b)
  BY <1>2, <1>4 DEF Planned
<1>5. ASSUME plan' = plan PROVE \A b : Planning(b)' = Planning(b)
  BY <1>4, <1>5 DEF Planning
<1> QED
  BY <1>2, <1>3, <1>4, <1>5

LEMMA EndIExchangeInv ==
  ASSUME Inv, NEW p \in Proc, EndIExchange(p)
  PROVE  Inv'
<1>1. /\ UNCHANGED <<gids_, lids_, incoming_, outgoing_, link, free_blocks, proc_work, prev_proc_work, nsent_reqs,
                     requesters, sample_work_info, chan, out, done, from, plan, wpc, work, processed, disturbed, rank_map_>>
      /\ mpc[p] = "iexchange" /\ Goto(p, "fix_links")
      /\ iexchange_done' = [iexchange_done EXCEPT ![p] = TRUE]
      /\ \A q \in Proc : done[q] /\ ~InCallback(q)
      /\ \A x \in Proc \X Proc : chan[x] = <<>>
  BY DEF EndIExchange, master, aux, info, net, worker
<1>2. /\ \A q \in Proc \ {p} : mpc'[q] = mpc[q]
      /\ mpc'[p] = "fix_links"
      /\ mpc' \in [Proc -> {"iexchange", "grab", "move", "recv", "fix_links", "barrier", "join", "end"}]
      /\ \A q \in Proc : \A b : Planned(q, b)' <=> Planned(q, b)
      /\ \A b : Planning(b)' = Planning(b)
  BY <1>1, PlaceStep
<1>3. /\ iexchange_done' \in [Proc -> BOOLEAN] /\ iexchange_done'[p] = TRUE
      /\ \A q \in Proc \ {p} : iexchange_done'[q] = iexchange_done[q]
  BY <1>1 DEF Inv, AuxTypeOK
<1>4. MasterTypeOK' /\ TablesOK' /\ PlaceOK' /\ CarriedOK' /\ Weighed' /\ LooksUpItsOwn'
  BY <1>1 DEF Inv, MasterTypeOK, TablesOK, PlaceOK, Residents, CarriedOK, Weighed, LooksUpItsOwn
<1>5. AuxTypeOK'
  BY <1>1, <1>3 DEF Inv, AuxTypeOK
<1>6. ThreadsTypeOK'
  BY <1>1, <1>2 DEF Inv, ThreadsTypeOK
<1>7. OnceOK'
  BY <1>1, <1>2 DEF Inv, OnceOK, Working
<1>8. HereOK'
  BY <1>1, <1>2 DEF Inv, HereOK, HasFree
<1>9. InHand'
  BY <1>1, <1>2 DEF Inv, InHand, InCallback
<1>10. Over'
  <2>1. \A q \in Proc : ~InCallback(q)'
    BY <1>1, <1>2 DEF InCallback
  <2>2. \A q \in Proc : iexchange_done'[q] = Gone(q)'
    BY <1>1, <1>2, <1>3 DEF Inv, Over, Gone
  <2> QED
    BY <1>1, <2>1, <2>2 DEF Over
<1>11. AtWork'
  BY <1>1, <1>2, StillAtWork DEF Gone
<1>12. Resolved'
  BY <1>1, <1>2 DEF Inv, Resolved
<1> QED
  BY <1>4, <1>5, <1>6, <1>7, <1>8, <1>9, <1>10, <1>11, <1>12 DEF Inv

\* A step of one rank that has left the iexchange.
LEMMA GoneStep ==
  ASSUME Inv, NEW p \in Proc, NEW to, Goto(p, to), Gone(p), to \in {"barrier", "join", "end"},
         UNCHANGED <<gids_, lids_, incoming_, free_blocks, proc_work, prev_proc_work, nsent_reqs, requesters,
                     sample_work_info, iexchange_done, chan, out, done, from, plan, wpc, work, processed, disturbed>>
  PROVE  /\ AuxTypeOK' /\ ThreadsTypeOK' /\ TablesOK' /\ PlaceOK' /\ OnceOK' /\ HereOK' /\ LooksUpItsOwn'
         /\ Weighed' /\ CarriedOK' /\ InHand' /\ Over' /\ AtWork'
         /\ mpc'[p] = to /\ \A q \in Proc \ {p} : mpc'[q] = mpc[q]
<1>1. mpc[p] # "move" /\ to # "move"
  BY DEF Gone
<1>2. /\ \A q \in Proc \ {p} : mpc'[q] = mpc[q]
      /\ mpc'[p] = to
      /\ mpc' \in [Proc -> {"iexchange", "grab", "move", "recv", "fix_links", "barrier", "join", "end"}]
      /\ \A q \in Proc : \A b : Planned(q, b)' <=> Planned(q, b)
      /\ \A b : Planning(b)' = Planning(b)
  BY <1>1, PlaceStep
<1>3. \A q \in Proc : /\ Gone(q)' <=> Gone(q)
                      /\ InCallback(q)' <=> InCallback(q)
                      /\ mpc'[q] \in {"grab", "move"} <=> mpc[q] \in {"grab", "move"}
                      /\ mpc'[q] = "move" <=> mpc[q] = "move"
  BY <1>2 DEF Gone, InCallback
<1>4. AuxTypeOK' /\ TablesOK' /\ PlaceOK' /\ CarriedOK' /\ Weighed' /\ LooksUpItsOwn'
  BY DEF Inv, AuxTypeOK, TablesOK, PlaceOK, Residents, CarriedOK, Weighed, LooksUpItsOwn
<1>5. ThreadsTypeOK'
  BY <1>2 DEF Inv, ThreadsTypeOK
<1>6. OnceOK'
  BY <1>2 DEF Inv, OnceOK, Working
<1>7. HereOK'
  BY <1>2 DEF Inv, HereOK, HasFree
<1>8. InHand'
  BY <1>3 DEF Inv, InHand
<1>9. Over'
  <2>1. \A q \in Proc : iexchange_done'[q] = Gone(q)'
    <3> TAKE q \in Proc
    <3>1. iexchange_done[q] = Gone(q)
      BY DEF Inv, Over
    <3>2. Gone(q)' = Gone(q)
      BY <1>2 DEF Gone
    <3> QED
      BY <3>1, <3>2
  <2> QED
    BY <1>3, <2>1 DEF Inv, Over
<1>10. AtWork'
  BY <1>3, StillAtWork
<1> QED
  BY <1>2, <1>4, <1>5, <1>6, <1>7, <1>8, <1>9, <1>10

LEMMA RecordInv ==
  ASSUME Inv, NEW p \in Proc, record_local_gids(p)
  PROVE  Inv'
<1>1. /\ UNCHANGED <<gids_, lids_, incoming_, free_blocks, proc_work, prev_proc_work, nsent_reqs, requesters,
                     sample_work_info, iexchange_done, chan, out, done, from, plan, wpc, work, processed, disturbed>>
      /\ UNCHANGED <<outgoing_, link>>
      /\ mpc[p] = "fix_links" /\ Goto(p, "barrier")
      /\ rank_map_' = [b \in Block |-> IF b \in ToSet(gids_[p]) THEN p ELSE rank_map_[b]]
  BY DEF record_local_gids, master, aux, info, net, worker
<1>2. Gone(p)
  BY <1>1 DEF Gone
<1>3. /\ AuxTypeOK' /\ ThreadsTypeOK' /\ TablesOK' /\ PlaceOK' /\ OnceOK' /\ HereOK' /\ LooksUpItsOwn'
      /\ Weighed' /\ CarriedOK' /\ InHand' /\ Over' /\ AtWork'
      /\ mpc'[p] = "barrier" /\ \A q \in Proc \ {p} : mpc'[q] = mpc[q]
  BY <1>1, <1>2, GoneStep
<1>4. MasterTypeOK'
  <2>1. rank_map_' \in [Block -> Proc]
    BY <1>1 DEF Inv, MasterTypeOK
  <2> QED
    BY <1>1, <2>1 DEF Inv, MasterTypeOK
<1>5. \A q \in Proc \ {p} : \A b \in ToSet(gids_[q]) : b \notin ToSet(gids_[p]) /\ b \in Block
  <2> SUFFICES ASSUME NEW q \in Proc \ {p}, NEW b \in ToSet(gids_[q]) PROVE b \notin ToSet(gids_[p]) /\ b \in Block
    OBVIOUS
  <2>1. b \in Block
    <3>1. gids_[q] \in Seq(Block)
      BY DEF Inv, MasterTypeOK
    <3> QED
      BY <3>1, ToSetOf
  <2>2. InOne(Spots(chan, out, b), Residents(b))
    BY <2>1 DEF Inv, PlaceOK
  <2>3. q \in Residents(b)
    BY DEF Residents
  <2>4. Sole(Residents(b))
    BY <2>2, <2>3 DEF InOne
  <2>5. p \notin Residents(b)
    BY <2>3, <2>4 DEF Sole
  <2> QED
    BY <2>1, <2>5 DEF Residents
<1>6. Resolved'
  <2>1. \A q \in Proc : mpc[q] \notin {"join", "end"}
    BY <1>1 DEF Inv, Resolved
  <2>2. \A q \in Proc : mpc'[q] \notin {"join", "end"}
    BY <1>3, <2>1
  <2>3. ASSUME NEW q \in Proc, mpc'[q] \in {"barrier", "join", "end"}, NEW b \in ToSet(gids_[q])
        PROVE  rank_map_'[b] = q
    <3>1. gids_[q] \in Seq(Block)
      BY DEF Inv, MasterTypeOK
    <3>2. b \in Block
      BY <2>3, <3>1, ToSetOf
    <3>3. CASE q = p
      BY <1>1, <2>3, <3>2, <3>3
    <3>4. CASE q # p
      <4>1. mpc[q] \in {"barrier", "join", "end"}
        BY <1>3, <2>3, <3>4
      <4>2. rank_map_[b] = q
        BY <2>3, <4>1 DEF Inv, Resolved
      <4> QED
        BY <1>1, <1>5, <2>3, <3>2, <3>4, <4>2
    <3> QED
      BY <3>3, <3>4
  <2> QED
    BY <1>1, <2>2, <2>3 DEF Resolved
<1> QED
  BY <1>3, <1>4, <1>6 DEF Inv

LEMMA UpdateInv ==
  ASSUME Inv, NEW p \in Proc, update_links(p)
  PROVE  Inv'
<1>1. /\ UNCHANGED <<gids_, lids_, incoming_, free_blocks, proc_work, prev_proc_work, nsent_reqs, requesters,
                     sample_work_info, iexchange_done, chan, out, done, from, plan, wpc, work, processed, disturbed>>
      /\ UNCHANGED <<outgoing_, rank_map_>>
      /\ mpc[p] = "barrier" /\ Goto(p, "join")
      /\ \A q \in Proc : mpc[q] \in {"barrier", "join", "end"}
      /\ link' = [b \in Block |-> IF b \in ToSet(gids_[p]) THEN [n \in Neighbor[b] |-> rank_map_[n]] ELSE link[b]]
  BY DEF update_links, aux, info, net, worker
<1>2. Gone(p)
  BY <1>1 DEF Gone
<1>3. /\ AuxTypeOK' /\ ThreadsTypeOK' /\ TablesOK' /\ PlaceOK' /\ OnceOK' /\ HereOK' /\ LooksUpItsOwn'
      /\ Weighed' /\ CarriedOK' /\ InHand' /\ Over' /\ AtWork'
      /\ mpc'[p] = "join" /\ \A q \in Proc \ {p} : mpc'[q] = mpc[q]
  BY <1>1, <1>2, GoneStep
<1>4. \A b \in Block : /\ b \in ToSet(gids_[p]) => link'[b] = [n \in Neighbor[b] |-> rank_map_[n]]
                       /\ b \notin ToSet(gids_[p]) => link'[b] = link[b]
                       /\ \A n \in Neighbor[b] : n \in Block
  BY <1>1, DynamicAssumption
<1>5. MasterTypeOK'
  <2>1. link' = [b \in Block |-> link'[b]]
    BY <1>1
  <2>2. \A b \in Block : link'[b] \in [Neighbor[b] -> Proc]
    <3> TAKE b \in Block
    <3>1. CASE b \in ToSet(gids_[p])
      <4>1. rank_map_ \in [Block -> Proc]
        BY DEF Inv, MasterTypeOK
      <4> QED
        BY <1>4, <3>1, <4>1
    <3>2. CASE b \notin ToSet(gids_[p])
      BY <1>4, <3>2 DEF Inv, MasterTypeOK
    <3> QED
      BY <3>1, <3>2
  <2> QED
    BY <1>1, <2>1, <2>2 DEF Inv, MasterTypeOK
<1>6. Resolved'
  <2>1. \A q \in Proc : mpc'[q] \in {"barrier", "join", "end"}
    BY <1>1, <1>3
  <2>2. ASSUME NEW q \in Proc, mpc'[q] \in {"join", "end"}, NEW b \in ToSet(gids_[q]), NEW n \in Neighbor[b]
        PROVE  link'[b][n] = rank_map_[n]
    <3>1. gids_[q] \in Seq(Block)
      BY DEF Inv, MasterTypeOK
    <3>2. b \in Block
      BY <2>2, <3>1, ToSetOf
    <3>3. CASE b \in ToSet(gids_[p])
      BY <1>4, <2>2, <3>2, <3>3
    <3>4. CASE b \notin ToSet(gids_[p])
      <4>1. q # p
        BY <2>2, <3>4
      <4>2. mpc[q] \in {"join", "end"}
        BY <1>3, <2>2, <4>1
      <4>3. link[b][n] = rank_map_[n]
        BY <2>2, <4>2 DEF Inv, Resolved
      <4> QED
        BY <1>4, <3>2, <3>4, <4>3
    <3> QED
      BY <3>3, <3>4
  <2>3. ASSUME NEW q \in Proc, mpc'[q] = "end"
        PROVE  wpc[q] = "exited" /\ \A e \in DOMAIN outgoing_[q] : e[1] \in ToSet(gids_[q]) => outgoing_[q][e] = rank_map_[e[2]]
    <3>1. mpc[q] = "end"
      BY <1>3, <2>3
    <3> QED
      BY <3>1 DEF Inv, Resolved
  <2>4. \A q \in Proc : \A b \in ToSet(gids_[q]) : rank_map_[b] = q
    BY <1>1 DEF Inv, Resolved
  <2>5. \A q \in Proc : (/\ mpc[q] \in {"barrier", "join", "end"} => \A b \in ToSet(gids_[q]) : rank_map_[b] = q
                         /\ mpc[q] \in {"join", "end"} =>
                              /\ \A r \in Proc : mpc[r] \in {"barrier", "join", "end"}
                              /\ \A b \in ToSet(gids_[q]) : \A n \in Neighbor[b] : link[b][n] = rank_map_[n]
                         /\ mpc[q] = "end" =>
                              /\ wpc[q] = "exited"
                              /\ \A e \in DOMAIN outgoing_[q] : e[1] \in ToSet(gids_[q]) => outgoing_[q][e] = rank_map_[e[2]])'
    <3> TAKE q \in Proc
    <3>1. (mpc[q] \in {"barrier", "join", "end"} => \A b \in ToSet(gids_[q]) : rank_map_[b] = q)'
      BY <1>1, <2>4
    <3>2. (mpc[q] \in {"join", "end"} => /\ \A r \in Proc : mpc[r] \in {"barrier", "join", "end"}
                                        /\ \A b \in ToSet(gids_[q]) : \A n \in Neighbor[b] : link[b][n] = rank_map_[n])'
      BY <1>1, <2>1, <2>2
    <3>3. (mpc[q] = "end" => /\ wpc[q] = "exited"
                            /\ \A e \in DOMAIN outgoing_[q] : e[1] \in ToSet(gids_[q]) => outgoing_[q][e] = rank_map_[e[2]])'
      BY <1>1, <2>3
    <3> QED
      BY <3>1, <3>2, <3>3
  <2> QED
    BY <2>5 DEF Resolved
<1> QED
  BY <1>3, <1>5, <1>6 DEF Inv

LEMMA FixQueuesInv ==
  ASSUME Inv, NEW p \in Proc, fix_queues(p)
  PROVE  Inv'
<1> DEFINE D == DOMAIN outgoing_[p]
           To(e) == IF e[1] \notin ToSet(gids_[p]) THEN outgoing_[p][e]
                    ELSE IF e[2] \in Neighbor[e[1]] THEN link[e[1]][e[2]] ELSE rank_map_[e[2]]
<1>1. /\ UNCHANGED <<gids_, lids_, incoming_, free_blocks, proc_work, prev_proc_work, nsent_reqs, requesters,
                     sample_work_info, iexchange_done, chan, out, done, from, plan, wpc, work, processed, disturbed>>
      /\ UNCHANGED <<link, rank_map_>>
      /\ mpc[p] = "join" /\ wpc[p] = "exited" /\ Goto(p, "end")
  BY DEF fix_queues, master, aux, info, net, worker
<1>2. outgoing_' = [outgoing_ EXCEPT ![p] = [e \in D |-> To(e)]]
  <2>1. outgoing_ = [q \in Proc |-> outgoing_[q]]
    BY DEF Inv, MasterTypeOK
  <2> QED
    BY <2>1 DEF fix_queues
<1>3. Gone(p)
  BY <1>1 DEF Gone
<1>4. /\ AuxTypeOK' /\ ThreadsTypeOK' /\ TablesOK' /\ PlaceOK' /\ OnceOK' /\ HereOK' /\ LooksUpItsOwn'
      /\ Weighed' /\ CarriedOK' /\ InHand' /\ Over' /\ AtWork'
      /\ mpc'[p] = "end" /\ \A q \in Proc \ {p} : mpc'[q] = mpc[q]
  BY <1>1, <1>3, GoneStep
<1>5. \A e \in D : e[1] \in Block /\ e[2] \in Block /\ outgoing_[p][e] \in Proc
  BY DEF Inv, MasterTypeOK
<1>6. \A e \in D : To(e) \in Proc /\ (e[1] \in ToSet(gids_[p]) => To(e) = rank_map_[e[2]])
  <2> SUFFICES ASSUME NEW e \in D
               PROVE  To(e) \in Proc /\ (e[1] \in ToSet(gids_[p]) => To(e) = rank_map_[e[2]])
    OBVIOUS
  <2>1. rank_map_[e[2]] \in Proc
    BY <1>5 DEF Inv, MasterTypeOK
  <2>2. e[1] \in ToSet(gids_[p]) /\ e[2] \in Neighbor[e[1]] => link[e[1]][e[2]] = rank_map_[e[2]]
    BY <1>1 DEF Inv, Resolved
  <2> QED
    BY <1>5, <2>1, <2>2
<1> HIDE DEF To, D
<1>7. /\ outgoing_' = [q \in Proc |-> outgoing_'[q]] /\ DOMAIN outgoing_'[p] = D
      /\ \A e \in D : outgoing_'[p][e] = To(e)
      /\ outgoing_'[p] \in [D -> Proc]
      /\ \A q \in Proc \ {p} : outgoing_'[q] = outgoing_[q]
  <2>1. outgoing_ = [q \in Proc |-> outgoing_[q]]
    BY DEF Inv, MasterTypeOK
  <2> QED
    BY <1>2, <1>6, <2>1
<1>8. MasterTypeOK'
  <2>1. \A q \in Proc : DOMAIN outgoing_'[q] \subseteq Block \X Block /\ outgoing_'[q] \in [DOMAIN outgoing_'[q] -> Proc]
    <3> TAKE q \in Proc
    <3>1. CASE q = p
      <4>1. D \subseteq Block \X Block
        BY DEF Inv, MasterTypeOK, D
      <4> QED
        BY <1>7, <3>1, <4>1
    <3>2. CASE q # p
      BY <1>7, <3>2 DEF Inv, MasterTypeOK
    <3> QED
      BY <3>1, <3>2
  <2> QED
    BY <1>1, <1>7, <2>1 DEF Inv, MasterTypeOK
<1>9. Resolved'
  <2>1. \A q \in Proc : mpc'[q] \in {"barrier", "join", "end"} <=> mpc[q] \in {"barrier", "join", "end"}
    BY <1>1, <1>4
  <2>2. \A q \in Proc : mpc'[q] \in {"join", "end"} <=> mpc[q] \in {"join", "end"}
    BY <1>1, <1>4
  <2>3. ASSUME NEW q \in Proc, mpc'[q] = "end"
        PROVE  wpc'[q] = "exited" /\ \A e \in DOMAIN outgoing_'[q] : e[1] \in ToSet(gids_[q]) => outgoing_'[q][e] = rank_map_[e[2]]
    <3>1. CASE q = p
      BY <1>1, <1>6, <1>7, <3>1
    <3>2. CASE q # p
      <4>1. mpc[q] = "end"
        BY <1>4, <2>3, <3>2
      <4> QED
        BY <1>1, <1>7, <3>2, <4>1 DEF Inv, Resolved
    <3> QED
      BY <3>1, <3>2
  <2> QED
    BY <1>1, <2>1, <2>2, <2>3 DEF Inv, Resolved
<1> QED
  BY <1>4, <1>8, <1>9 DEF Inv

-----------------------------------------------------------------------------
(***************************************************************************)
(* The steps of the calling thread in the iexchange.                       *)
(***************************************************************************)
LEMMA ReleaseStep ==
  ASSUME Inv, NEW p \in Proc, NEW b \in ToSet(gids_[p]), release(p, b)
  PROVE  /\ TablesOK'
         /\ gids_' \in [Proc -> Seq(Block)] /\ lids_' = [q \in Proc |-> lids_'[q]]
         /\ ToSet(gids_'[p]) = ToSet(gids_[p]) \ {b}
         /\ \A q \in Proc \ {p} : gids_'[q] = gids_[q]
<1>1. gids_ \in [Proc -> Seq(Block)] /\ lids_ = [q \in Proc |-> lids_[q]]
  BY DEF Inv, MasterTypeOK
<1> DEFINE g == gids_[p]
           l == lids_[p]
           h == Without(g, l[b])
           k == [x \in DOMAIN l \ {b} |-> IF x = Last(g) THEN l[b] ELSE l[x]]
<1>2. gids_' = [gids_ EXCEPT ![p] = h] /\ lids_' = [lids_ EXCEPT ![p] = k]
  BY <1>1 DEF release
<1>3. Tables(h, k) /\ ToSet(h) = ToSet(g) \ {b}
  <2>1. Tables(g, l) /\ b \in ToSet(g)
    BY DEF Inv, TablesOK
  <2> HIDE DEF g, l
  <2> QED
    BY <2>1, ReleaseTables
<1> HIDE DEF h, k
<1>4. /\ gids_'[p] = h /\ lids_'[p] = k
      /\ \A q \in Proc \ {p} : gids_'[q] = gids_[q] /\ lids_'[q] = lids_[q]
      /\ lids_' = [q \in Proc |-> lids_'[q]]
  BY <1>1, <1>2
<1>5. h \in Seq(Block)
  BY <1>3 DEF Tables
<1>6. gids_' \in [Proc -> Seq(Block)]
  BY <1>1, <1>2, <1>5
<1>7. TablesOK'
  <2>1. \A q \in Proc : Tables(gids_'[q], lids_'[q])
    <3> TAKE q \in Proc
    <3>1. CASE q = p
      BY <1>3, <1>4, <3>1
    <3>2. CASE q # p
      BY <1>4, <3>2 DEF Inv, TablesOK
    <3> QED
      BY <3>1, <3>2
  <2> QED
    BY <2>1 DEF TablesOK
<1> QED
  BY <1>3, <1>4, <1>6, <1>7

LEMMA AddTableStep ==
  ASSUME Inv, NEW p \in Proc, NEW b \in Block \ ToSet(gids_[p]), add(p, b)
  PROVE  /\ TablesOK'
         /\ gids_' \in [Proc -> Seq(Block)] /\ lids_' = [q \in Proc |-> lids_'[q]]
         /\ ToSet(gids_'[p]) = ToSet(gids_[p]) \cup {b}
         /\ \A q \in Proc \ {p} : gids_'[q] = gids_[q]
         /\ \A i \in DOMAIN gids_[p] : i \in DOMAIN gids_'[p] /\ gids_'[p][i] = gids_[p][i]
<1>1. gids_ \in [Proc -> Seq(Block)] /\ lids_ = [q \in Proc |-> lids_[q]]
  BY DEF Inv, MasterTypeOK
<1> DEFINE g == gids_[p]
           l == lids_[p]
           h == Append(g, b)
           k == [x \in DOMAIN l \cup {b} |-> IF x = b THEN Len(g) + 1 ELSE l[x]]
<1>2. gids_' = [gids_ EXCEPT ![p] = h] /\ lids_' = [lids_ EXCEPT ![p] = k]
  BY <1>1 DEF add
<1>3. /\ Tables(h, k) /\ ToSet(h) = ToSet(g) \cup {b}
      /\ \A i \in DOMAIN g : i \in DOMAIN h /\ h[i] = g[i]
  <2>1. Tables(g, l) /\ b \in Block \ ToSet(g)
    BY DEF Inv, TablesOK
  <2> HIDE DEF g, l
  <2> QED
    BY <2>1, AddTables
<1> HIDE DEF h, k
<1>4. /\ gids_'[p] = h /\ lids_'[p] = k
      /\ \A q \in Proc \ {p} : gids_'[q] = gids_[q] /\ lids_'[q] = lids_[q]
      /\ lids_' = [q \in Proc |-> lids_'[q]]
  BY <1>1, <1>2
<1>5. h \in Seq(Block)
  BY <1>3 DEF Tables
<1>6. gids_' \in [Proc -> Seq(Block)]
  BY <1>1, <1>2, <1>5
<1>7. TablesOK'
  <2>1. \A q \in Proc : Tables(gids_'[q], lids_'[q])
    <3> TAKE q \in Proc
    <3>1. CASE q = p
      BY <1>3, <1>4, <3>1
    <3>2. CASE q # p
      BY <1>4, <3>2 DEF Inv, TablesOK
    <3> QED
      BY <3>1, <3>2
  <2> QED
    BY <2>1 DEF TablesOK
<1> QED
  BY <1>3, <1>4, <1>6, <1>7

\* A step of one rank in the iexchange.
LEMMA EarlyStep ==
  ASSUME Inv, NEW p \in Proc, \A q \in Proc : ~Gone(q),
         \A q \in Proc \ {p} : mpc'[q] = mpc[q], mpc'[p] \in {"iexchange", "grab", "move", "recv"},
         iexchange_done' = iexchange_done
  PROVE  Over' /\ Resolved' /\ \A q \in Proc : Gone(q) => Gone(q)'
<1>1. \A q \in Proc : ~Gone(q)'
  BY DEF Gone
<1> QED
  BY <1>1, StillEarly

LEMMA ReturnInv ==
  ASSUME Inv, NEW p \in Proc, Return(p)
  PROVE  Inv'
<1>1. /\ UNCHANGED <<gids_, lids_, incoming_, link, outgoing_, free_blocks, proc_work, prev_proc_work, nsent_reqs,
                     requesters, sample_work_info, iexchange_done, from, plan, wpc, work, processed, disturbed,
                     rank_map_>>
      /\ mpc[p] = "recv" /\ Goto(p, "iexchange")
      /\ done' = [done EXCEPT ![p] = ~any_free_blocks(p)]
      /\ chan' = Flushed(chan, out, p) /\ out' = Emptied(out, p)
  BY DEF Return, master, aux, info, worker, Flushed, Emptied
<1>2. /\ \A q \in Proc \ {p} : mpc'[q] = mpc[q]
      /\ mpc'[p] = "iexchange"
      /\ mpc' \in [Proc -> {"iexchange", "grab", "move", "recv", "fix_links", "barrier", "join", "end"}]
      /\ \A q \in Proc : \A b : Planned(q, b)' <=> Planned(q, b)
      /\ \A b : Planning(b)' = Planning(b)
  BY <1>1, PlaceStep
<1>3. \A q \in Proc : ~Gone(q)
  BY <1>1, Early DEF InCallback
<1>4. Over' /\ Resolved' /\ \A q \in Proc : Gone(q) => Gone(q)'
  BY <1>1, <1>2, <1>3, EarlyStep
<1>5. chan \in Chan /\ out \in Out
  BY DEF Inv, AuxTypeOK, Chan, Out, Aux
<1>6. /\ chan' \in Chan /\ out' \in Out
      /\ \A b : Spots(chan', out', b) = Spots(chan, out, b)
      /\ CarriedOK'
  <2>1. Carried(chan, out)
    BY DEF Inv, CarriedOK
  <2> QED
    BY <1>1, <1>5, <2>1, FlushSame DEF CarriedOK
<1>7. out'[p] = [q \in Proc |-> <<>>] /\ \A q \in Proc \ {p} : out'[q] = out[q]
  BY <1>1, <1>5 DEF Emptied, Out
<1>8. /\ done' \in [Proc -> BOOLEAN] /\ \A q \in Proc \ {p} : done'[q] = done[q]
      /\ done'[p] <=> free_blocks[p] = {}
  BY <1>1 DEF Inv, AuxTypeOK, any_free_blocks
<1>9. MasterTypeOK' /\ TablesOK' /\ Weighed' /\ LooksUpItsOwn'
  BY <1>1 DEF Inv, MasterTypeOK, TablesOK, Weighed, LooksUpItsOwn
<1>10. AuxTypeOK'
  BY <1>1, <1>6, <1>8 DEF Inv, AuxTypeOK, Chan, Out, Aux
<1>11. ThreadsTypeOK'
  BY <1>1, <1>2 DEF Inv, ThreadsTypeOK
<1>12. PlaceOK'
  BY <1>1, <1>6 DEF Inv, PlaceOK, Residents
<1>13. OnceOK'
  BY <1>1, <1>2, <1>6 DEF Inv, OnceOK, Working
<1>14. HereOK'
  BY <1>1, <1>2 DEF Inv, HereOK, HasFree
<1>15. InHand'
  BY <1>1, <1>2, <1>7, <1>8 DEF Inv, InHand, InCallback
<1>16. AtWork'
  BY <1>1, <1>4, StillAtWork
<1> QED
  BY <1>4, <1>6, <1>9, <1>10, <1>11, <1>12, <1>13, <1>14, <1>15, <1>16 DEF Inv

\* The destination is one of the samples.
LEMMA TargetSampled ==
  ASSUME Inv, NEW p \in Proc, Len(sample_work_info[p]) # 0,
         100 * Place(p) >= Quantile * Len(sample_work_info[p])
  PROVE  Target(p) \in DOMAIN sample_work_info[p] /\ Target(p) \in Nat
<1> DEFINE s == sample_work_info[p]
           n == Len(s)
           more == {i \in DOMAIN s : proc_work[p] < s[i].proc_work}
<1>1. s \in Seq(Info)
  BY DEF Inv, AuxTypeOK
<1>2. DOMAIN s = 1..n /\ n \in Nat \ {0}
  BY <1>1, LenProperties
<1>3. Place(p) \in 0..n
  <2>1. CASE more = {}
    BY <1>2, <2>1 DEF Place
  <2>2. CASE more # {}
    <3>1. more \subseteq Nat /\ more \subseteq 1..n
      BY <1>2
    <3>2. Min(more) \in more
      <4> HIDE DEF more
      <4> QED
        BY <2>2, <3>1, LeastNumber
    <3>3. Place(p) = Min(more) - 1
      BY <2>2 DEF Place
    <3>4. Min(more) \in 1..n
      BY <3>1, <3>2
    <3> DEFINE m == Min(more)
    <3>5. m \in 1..n /\ Place(p) = m - 1
      BY <3>3, <3>4
    <3> HIDE DEF m, n
    <3> QED
      BY <1>2, <3>5
  <2> QED
    BY <2>1, <2>2
<1>4. Place(p) # 0
  <2> SUFFICES ASSUME Place(p) = 0 PROVE FALSE
    OBVIOUS
  <2>1. Quantile \in Nat \ {0}
    BY DynamicAssumption
  <2>2. \A i, j \in Nat \ {0} : i * j > 0
    OBVIOUS
  <2> HIDE DEF n
  <2>3. Quantile * n > 0
    BY <1>2, <2>1, <2>2
  <2>4. 100 * 0 >= Quantile * n
    BY DEF n
  <2> DEFINE m == Quantile * n
  <2>5. m > 0 /\ 0 >= m /\ m \in Nat
    BY <1>2, <2>1, <2>3, <2>4
  <2> HIDE DEF m
  <2> QED
    BY <2>5
<1>5. Target(p) = n - Place(p) + 1
  BY DEF Target
<1> HIDE DEF n
<1> QED
  BY <1>2, <1>3, <1>4, <1>5

LEMMA CallbackInv ==
  ASSUME Inv, NEW p \in Proc, Callback(p)
  PROVE  Inv'
<1>1. PICK S \in kSubset(NSamples, Proc \ {p}) :
        LET told  == IF prev_proc_work[p] # proc_work[p] THEN requesters[p] ELSE {}
            asked == IF any_free_blocks(p) /\ nsent_reqs[p] = 0 THEN S ELSE {}
        IN  /\ out' = Enqueue(Enqueue(out, p, told, WorkInfo(p)), p, asked, [type |-> "work_info_req"])
            /\ nsent_reqs' = [nsent_reqs EXCEPT ![p] = IF asked # {} THEN NSamples ELSE @]
  BY DEF Callback
<1>2. /\ UNCHANGED <<gids_, lids_, incoming_, link, outgoing_, free_blocks, proc_work, requesters, sample_work_info,
                     iexchange_done, chan, done, from, wpc, work, processed, disturbed, rank_map_>>
      /\ mpc[p] = "iexchange" /\ (~done[p] \/ \E q \in Proc : chan[<<q, p>>] # <<>>)
      /\ prev_proc_work' = [prev_proc_work EXCEPT ![p] = proc_work[p]]
  BY DEF Callback, master, aux, worker
<1>3. \/ /\ Len(sample_work_info[p]) # 0 /\ 100 * Place(p) >= Quantile * Len(sample_work_info[p])
         /\ plan' = [plan EXCEPT ![p] = [work |-> proc_work[p], dst |-> Target(p), block |-> NoBlock]]
         /\ Goto(p, "grab")
      \/ plan' = plan /\ Goto(p, "recv")
  BY DEF Callback
<1>4. PICK to \in {"grab", "recv"} : Goto(p, to) /\ (to = "grab" =>
        /\ Len(sample_work_info[p]) # 0 /\ 100 * Place(p) >= Quantile * Len(sample_work_info[p])
        /\ plan' = [plan EXCEPT ![p] = [work |-> proc_work[p], dst |-> Target(p), block |-> NoBlock]])
        /\ (to = "recv" => plan' = plan)
  BY <1>3
<1>5. /\ \A q \in Proc \ {p} : mpc'[q] = mpc[q]
      /\ mpc'[p] = to
      /\ mpc' \in [Proc -> {"iexchange", "grab", "move", "recv", "fix_links", "barrier", "join", "end"}]
  BY <1>2, <1>4, PlaceStep
<1>6. /\ plan \in [Proc -> [work : Nat \cup {None}, dst : Nat \cup {None}, block : FreeBlock \cup {NoBlock}]]
      /\ proc_work[p] \in Nat
  BY DEF Inv, ThreadsTypeOK, AuxTypeOK
<1>7. to = "grab" => Target(p) \in DOMAIN sample_work_info[p] /\ Target(p) \in Nat
  BY <1>4, TargetSampled
<1>8. /\ plan' \in [Proc -> [work : Nat \cup {None}, dst : Nat \cup {None}, block : FreeBlock \cup {NoBlock}]]
      /\ \A q \in Proc \ {p} : plan'[q] = plan[q]
      /\ to = "grab" => plan'[p].dst = Target(p)
  BY <1>4, <1>6, <1>7
<1>9. \A q \in Proc : \A b : Planned(q, b)' <=> Planned(q, b)
  BY <1>2, <1>5, <1>8 DEF Planned
<1>10. \A q \in Proc : ~Gone(q)
  BY <1>2, Early
<1>11. Over' /\ Resolved' /\ \A q \in Proc : Gone(q) => Gone(q)'
  BY <1>2, <1>5, <1>10, EarlyStep
<1>12. chan \in Chan /\ out \in Out /\ Carried(chan, out)
  BY DEF Inv, AuxTypeOK, CarriedOK, Chan, Out, Aux
<1>13. /\ out' \in Out
       /\ \A b : Spots(chan', out', b) = Spots(chan, out, b)
       /\ CarriedOK'
       /\ \A q \in Proc \ {p} : out'[q] = out[q]
  <2> DEFINE told  == IF prev_proc_work[p] # proc_work[p] THEN requesters[p] ELSE {}
             asked == IF any_free_blocks(p) /\ nsent_reqs[p] = 0 THEN S ELSE {}
             req   == [type |-> "work_info_req"]
             o     == Enqueue(out, p, told, WorkInfo(p))
  <2>1. told \subseteq Proc
    BY DEF Inv, AuxTypeOK
  <2>2. asked \subseteq Proc
    BY DEF kSubset
  <2>3. WorkInfo(p) \in Msg /\ Plain(WorkInfo(p))
    BY <1>6 DEF WorkInfo, Msg, Info, Plain
  <2>4. req \in Msg /\ Plain(req)
    BY DEF Msg, Plain
  <2>5. out' = Enqueue(o, p, asked, req)
    BY <1>1
  <2> HIDE DEF told, asked, req
  <2>6. o = Enqueue(out, p, told, WorkInfo(p))
    OBVIOUS
  <2> HIDE DEF o
  <2>7. Quiet(chan, out, o, p)
    BY <1>12, <2>1, <2>3, <2>6, EnqueueOther
  <2>8. o \in Out
    BY <2>7 DEF Quiet
  <2>9. Quiet(chan, o, out', p)
    BY <1>12, <2>2, <2>4, <2>5, <2>8, EnqueueOther
  <2> QED
    BY <1>2, <1>12, <2>7, <2>9 DEF CarriedOK, Quiet
<1>14. MasterTypeOK' /\ TablesOK' /\ Weighed' /\ LooksUpItsOwn'
  BY <1>2 DEF Inv, MasterTypeOK, TablesOK, Weighed, LooksUpItsOwn
<1>15. AuxTypeOK'
  <2>1. nsent_reqs' \in [Proc -> {0, NSamples}] /\ prev_proc_work' \in [Proc -> Nat]
    BY <1>1, <1>2, <1>6 DEF Inv, AuxTypeOK
  <2> QED
    BY <1>2, <1>13, <2>1 DEF Inv, AuxTypeOK, Out
<1>16. ThreadsTypeOK'
  BY <1>2, <1>5, <1>8 DEF Inv, ThreadsTypeOK
<1>17. PlaceOK'
  BY <1>2, <1>13 DEF Inv, PlaceOK, Residents
<1>18. OnceOK'
  <2>1. \A b : Planning(b)' = Planning(b) /\ Working(b)' = Working(b)
    BY <1>2, <1>9 DEF Planning, Working
  <2> QED
    BY <1>2, <1>13, <2>1 DEF Inv, OnceOK
<1>19. HereOK'
  BY <1>2, <1>9 DEF Inv, HereOK, HasFree
<1>20. InHand'
  BY <1>2, <1>5, <1>7, <1>8, <1>13 DEF Inv, InHand, InCallback
<1>21. AtWork'
  BY <1>2, <1>11, StillAtWork
<1> QED
  BY <1>11, <1>13, <1>14, <1>15, <1>16, <1>17, <1>18, <1>19, <1>20, <1>21 DEF Inv

LEMMA GotoStep ==
  ASSUME Inv, NEW p \in Proc, NEW to, Goto(p, to),
         to \in {"iexchange", "grab", "move", "recv", "fix_links", "barrier", "join", "end"}
  PROVE  /\ \A q \in Proc \ {p} : mpc'[q] = mpc[q]
         /\ mpc'[p] = to
         /\ mpc' \in [Proc -> {"iexchange", "grab", "move", "recv", "fix_links", "barrier", "join", "end"}]
<1>1. mpc \in [Proc -> {"iexchange", "grab", "move", "recv", "fix_links", "barrier", "join", "end"}]
  BY DEF Inv, ThreadsTypeOK
<1>2. (\A q \in Proc \ {p} : mpc'[q] = mpc[q]) /\ mpc'[p] = to
  BY <1>1 DEF Goto
<1>3. mpc' \in [Proc -> {"iexchange", "grab", "move", "recv", "fix_links", "barrier", "join", "end"}]
  BY <1>1 DEF Goto
<1> QED
  BY <1>2, <1>3

\* The calling thread takes a block.
LEMMA TakeInv ==
  ASSUME Inv, NEW p \in Proc, GrabToSend(p), any_free_blocks(p)
  PROVE  Inv'
<1>1. PICK f : /\ grab_heaviest_free_block(p, f)
               /\ plan' = [plan EXCEPT ![p].block = f]
               /\ Goto(p, "move")
  BY DEF GrabToSend
<1>2. /\ UNCHANGED <<gids_, lids_, incoming_, link, outgoing_, prev_proc_work, nsent_reqs, requesters,
                     sample_work_info, iexchange_done, chan, out, done, from, wpc, work, processed, disturbed, rank_map_>>
      /\ mpc[p] = "grab"
  BY DEF GrabToSend, master, info, net, worker
<1>3. /\ f \in free_blocks[p] /\ f \in FreeBlock /\ f.gid \in Block
      /\ free_blocks' \in [Proc -> SUBSET FreeBlock] /\ proc_work' \in [Proc -> Nat]
      /\ free_blocks'[p] = free_blocks[p] \ {f}
      /\ \A q \in Proc \ {p} : free_blocks'[q] = free_blocks[q]
      /\ Weighed'
      /\ \A b : b # f.gid => FreeIn(free_blocks', b) = FreeIn(free_blocks, b)
      /\ FreeIn(free_blocks', f.gid) = {}
  BY <1>1, GrabStep
<1>4. processed[f.gid] = 0 /\ Spots(chan, out, f.gid) = {} /\ Planning(f.gid) = {} /\ Working(f.gid) = {}
  BY <1>1, GrabStep DEF Inv
<1>5. /\ \A q \in Proc \ {p} : mpc'[q] = mpc[q]
      /\ mpc'[p] = "move"
      /\ mpc' \in [Proc -> {"iexchange", "grab", "move", "recv", "fix_links", "barrier", "join", "end"}]
  BY <1>1, GotoStep
<1>6. plan \in [Proc -> [work : Nat \cup {None}, dst : Nat \cup {None}, block : FreeBlock \cup {NoBlock}]]
  BY DEF Inv, ThreadsTypeOK
<1>7. /\ plan' \in [Proc -> [work : Nat \cup {None}, dst : Nat \cup {None}, block : FreeBlock \cup {NoBlock}]]
      /\ \A q \in Proc \ {p} : plan'[q] = plan[q]
      /\ plan'[p].block = f /\ plan'[p].dst = plan[p].dst
  BY <1>1, <1>3, <1>6
<1>8. \A q \in Proc : \A b : Planned(q, b)' <=> Planned(q, b) \/ (q = p /\ b = f.gid)
  BY <1>2, <1>5, <1>7 DEF Planned
<1>9. \A q \in Proc : ~Gone(q)
  BY <1>2, Early DEF InCallback
<1>10. Over' /\ Resolved' /\ \A q \in Proc : Gone(q) => Gone(q)'
  BY <1>2, <1>5, <1>9, EarlyStep
<1>11. MasterTypeOK' /\ TablesOK' /\ LooksUpItsOwn' /\ PlaceOK' /\ CarriedOK'
  BY <1>2 DEF Inv, MasterTypeOK, TablesOK, LooksUpItsOwn, PlaceOK, Residents, CarriedOK
<1>12. AuxTypeOK'
  BY <1>2, <1>3 DEF Inv, AuxTypeOK
<1>13. ThreadsTypeOK'
  BY <1>2, <1>5, <1>7 DEF Inv, ThreadsTypeOK
<1>14. OnceOK'
  <2> SUFFICES ASSUME NEW b \in Block
               PROVE  OnceIn(processed'[b], Spots(chan', out', b), FreeIn(free_blocks', b), Planning(b)', Working(b)')
    BY DEF OnceOK
  <2>1. OnceIn(processed[b], Spots(chan, out, b), FreeIn(free_blocks, b), Planning(b), Working(b))
    BY DEF Inv, OnceOK
  <2>2. Working(b)' = Working(b) /\ Spots(chan', out', b) = Spots(chan, out, b) /\ processed'[b] = processed[b]
    BY <1>2 DEF Working
  <2>3. CASE b = f.gid
    <3>1. Planning(b)' = {p}
      BY <1>4, <1>8, <2>3 DEF Planning
    <3> QED
      BY <1>3, <1>4, <2>2, <2>3, <3>1 DEF OnceIn, Sole
  <2>4. CASE b # f.gid
    <3>1. Planning(b)' = Planning(b)
      BY <1>8, <2>4 DEF Planning
    <3> QED
      BY <1>3, <2>1, <2>2, <2>4, <3>1
  <2> QED
    BY <2>3, <2>4
<1>15. HereOK'
  <2> SUFFICES ASSUME NEW b \in Block, NEW q \in Proc, (Planned(q, b) \/ work[q].gid = b \/ HasFree(q, b))'
               PROVE  (b \in ToSet(gids_[q]) /\ incoming_[q][b] > 0)'
    BY DEF HereOK
  <2>1. Planned(q, b) \/ work[q].gid = b \/ HasFree(q, b)
    BY <1>2, <1>3, <1>8 DEF HasFree
  <2> QED
    BY <1>2, <2>1 DEF Inv, HereOK
<1>16. InHand'
  BY <1>2, <1>3, <1>5, <1>7 DEF Inv, InHand, InCallback
<1>17. AtWork'
  BY <1>2, <1>10, StillAtWork
<1> QED
  BY <1>3, <1>10, <1>11, <1>12, <1>13, <1>14, <1>15, <1>16, <1>17 DEF Inv

\* The work thread has taken the last one in the meantime.
LEMMA TakeNoneInv ==
  ASSUME Inv, NEW p \in Proc, GrabToSend(p), ~any_free_blocks(p)
  PROVE  Inv'
<1>1. plan' = [plan EXCEPT ![p] = NoPlan] /\ Goto(p, "recv")
  BY DEF GrabToSend
<1>2. /\ UNCHANGED <<gids_, lids_, incoming_, link, outgoing_, free_blocks, proc_work, prev_proc_work, nsent_reqs,
                     requesters, sample_work_info, iexchange_done, chan, out, done, from, wpc, work, processed, disturbed,
                     rank_map_>>
      /\ mpc[p] = "grab"
  BY DEF GrabToSend, master, aux, info, net, worker
<1>3. /\ \A q \in Proc \ {p} : mpc'[q] = mpc[q]
      /\ mpc'[p] = "recv"
      /\ mpc' \in [Proc -> {"iexchange", "grab", "move", "recv", "fix_links", "barrier", "join", "end"}]
  BY <1>1, GotoStep
<1>4. /\ plan' \in [Proc -> [work : Nat \cup {None}, dst : Nat \cup {None}, block : FreeBlock \cup {NoBlock}]]
      /\ \A q \in Proc \ {p} : plan'[q] = plan[q]
  BY <1>1 DEF Inv, ThreadsTypeOK, NoPlan
<1>5. \A q \in Proc : \A b : Planned(q, b)' <=> Planned(q, b)
  BY <1>2, <1>3, <1>4 DEF Planned
<1>6. \A b : Planning(b)' = Planning(b) /\ Working(b)' = Working(b)
  BY <1>2, <1>5 DEF Planning, Working
<1>7. \A q \in Proc : ~Gone(q)
  BY <1>2, Early DEF InCallback
<1>8. Over' /\ Resolved' /\ \A q \in Proc : Gone(q) => Gone(q)'
  BY <1>2, <1>3, <1>7, EarlyStep
<1>9. MasterTypeOK' /\ TablesOK' /\ LooksUpItsOwn' /\ PlaceOK' /\ CarriedOK' /\ AuxTypeOK' /\ Weighed'
  BY <1>2 DEF Inv, MasterTypeOK, TablesOK, LooksUpItsOwn, PlaceOK, Residents, CarriedOK, AuxTypeOK, Weighed
<1>10. ThreadsTypeOK'
  BY <1>2, <1>3, <1>4 DEF Inv, ThreadsTypeOK
<1>11. OnceOK'
  BY <1>2, <1>6 DEF Inv, OnceOK
<1>12. HereOK'
  BY <1>2, <1>5 DEF Inv, HereOK, HasFree
<1>13. InHand'
  BY <1>2, <1>3, <1>4 DEF Inv, InHand, InCallback
<1>14. AtWork'
  BY <1>2, <1>8, StillAtWork
<1> QED
  BY <1>8, <1>9, <1>10, <1>11, <1>12, <1>13, <1>14 DEF Inv

LEMMA PutBackInv ==
  ASSUME Inv, NEW p \in Proc, PutBack(p)
  PROVE  Inv'
<1> DEFINE f == plan[p].block
<1>1. plan' = [plan EXCEPT ![p] = NoPlan] /\ Goto(p, "recv") /\ add_free_block(p, f)
  BY DEF PutBack
<1>2. /\ UNCHANGED <<gids_, lids_, incoming_, link, outgoing_, prev_proc_work, nsent_reqs, requesters,
                     sample_work_info, iexchange_done, chan, out, done, from, wpc, work, processed, disturbed, rank_map_>>
      /\ mpc[p] = "move"
  BY DEF PutBack, master, info, net, worker
<1>3. f \in FreeBlock /\ f.gid \in Block /\ Planned(p, f.gid)
  BY <1>2 DEF Inv, InHand, FreeBlock, Planned
<1>4. Planning(f.gid) # {}
  BY <1>3 DEF Planning
<1>5. /\ processed[f.gid] = 0 /\ Spots(chan, out, f.gid) = {} /\ Working(f.gid) = {}
      /\ FreeIn(free_blocks, f.gid) = {} /\ Sole(Planning(f.gid))
  <2>1. OnceIn(processed[f.gid], Spots(chan, out, f.gid), FreeIn(free_blocks, f.gid), Planning(f.gid), Working(f.gid))
    BY <1>3 DEF Inv, OnceOK
  <2> QED
    BY <1>4, <2>1 DEF OnceIn
<1>6. \A q \in Proc : Planned(q, f.gid) => q = p
  BY <1>3, <1>5 DEF Planning, Sole
<1> HIDE DEF f
<1>7. /\ free_blocks' \in [Proc -> SUBSET FreeBlock] /\ proc_work' \in [Proc -> Nat]
      /\ free_blocks'[p] = free_blocks[p] \cup {f}
      /\ \A q \in Proc \ {p} : free_blocks'[q] = free_blocks[q]
      /\ Weighed'
      /\ \A b : b # f.gid => FreeIn(free_blocks', b) = FreeIn(free_blocks, b)
      /\ Sole(FreeIn(free_blocks', f.gid))
  BY <1>1, <1>3, <1>5, AddStep
<1>8. /\ \A q \in Proc \ {p} : mpc'[q] = mpc[q]
      /\ mpc'[p] = "recv"
      /\ mpc' \in [Proc -> {"iexchange", "grab", "move", "recv", "fix_links", "barrier", "join", "end"}]
  BY <1>1, GotoStep
<1>9. /\ plan' \in [Proc -> [work : Nat \cup {None}, dst : Nat \cup {None}, block : FreeBlock \cup {NoBlock}]]
      /\ \A q \in Proc \ {p} : plan'[q] = plan[q]
  BY <1>1 DEF Inv, ThreadsTypeOK, NoPlan
<1>10. \A q \in Proc : \A b : Planned(q, b)' <=> Planned(q, b) /\ q # p
  BY <1>8, <1>9 DEF Planned
<1>11. \A b : Planned(p, b) => b = f.gid
  BY DEF Planned, f
<1>12. \A q \in Proc : ~Gone(q)
  BY <1>2, Early DEF InCallback
<1>13. Over' /\ Resolved' /\ \A q \in Proc : Gone(q) => Gone(q)'
  BY <1>2, <1>8, <1>12, EarlyStep
<1>14. MasterTypeOK' /\ TablesOK' /\ LooksUpItsOwn' /\ PlaceOK' /\ CarriedOK'
  BY <1>2 DEF Inv, MasterTypeOK, TablesOK, LooksUpItsOwn, PlaceOK, Residents, CarriedOK
<1>15. AuxTypeOK'
  BY <1>2, <1>7 DEF Inv, AuxTypeOK
<1>16. ThreadsTypeOK'
  BY <1>2, <1>8, <1>9 DEF Inv, ThreadsTypeOK
<1>17. OnceOK'
  <2> SUFFICES ASSUME NEW b \in Block
               PROVE  OnceIn(processed'[b], Spots(chan', out', b), FreeIn(free_blocks', b), Planning(b)', Working(b)')
    BY DEF OnceOK
  <2>1. OnceIn(processed[b], Spots(chan, out, b), FreeIn(free_blocks, b), Planning(b), Working(b))
    BY DEF Inv, OnceOK
  <2>2. Working(b)' = Working(b) /\ Spots(chan', out', b) = Spots(chan, out, b) /\ processed'[b] = processed[b]
    BY <1>2 DEF Working
  <2>3. CASE b = f.gid
    <3>1. Planning(b)' = {}
      BY <1>6, <1>10, <2>3 DEF Planning
    <3> QED
      BY <1>5, <1>7, <2>2, <2>3, <3>1 DEF OnceIn
  <2>4. CASE b # f.gid
    <3>1. Planning(b)' = Planning(b)
      BY <1>10, <1>11, <2>4 DEF Planning
    <3> QED
      BY <1>7, <2>1, <2>2, <2>4, <3>1
  <2> QED
    BY <2>3, <2>4
<1>18. HereOK'
  <2> SUFFICES ASSUME NEW b \in Block, NEW q \in Proc, (Planned(q, b) \/ work[q].gid = b \/ HasFree(q, b))'
               PROVE  (b \in ToSet(gids_[q]) /\ incoming_[q][b] > 0)'
    BY DEF HereOK
  <2>1. Planned(q, b) \/ work[q].gid = b \/ HasFree(q, b)
    BY <1>2, <1>3, <1>7, <1>10 DEF HasFree
  <2> QED
    BY <1>2, <2>1 DEF Inv, HereOK
<1>19. InHand'
  BY <1>2, <1>7, <1>8, <1>9 DEF Inv, InHand, InCallback
<1>20. AtWork'
  BY <1>2, <1>13, StillAtWork
<1> QED
  BY <1>7, <1>13, <1>14, <1>15, <1>16, <1>17, <1>18, <1>19, <1>20 DEF Inv

LEMMA NoneFree ==
  ASSUME NEW b, FreeIn(free_blocks, b) = {}, NEW p \in Proc
  PROVE  ~HasFree(p, b)
<1> SUFFICES ASSUME NEW f \in free_blocks[p], f.gid = b PROVE FALSE
  BY DEF HasFree
<1> DEFINE x == <<p, f>>
<1>0. \E r \in Proc : \E g \in free_blocks[r] : g.gid = b /\ x = <<r, g>>
  OBVIOUS
<1> HIDE DEF x
<1>1. x \in FreeIn(free_blocks, b)
  BY <1>0, FreeMember
<1> QED
  BY <1>1

\* The block leaves.
LEMMA MoveBlockInv ==
  ASSUME Inv, NEW p \in Proc, MoveBlock(p)
  PROVE  Inv'
<1> DEFINE f == plan[p].block
           b == f.gid
           to == sample_work_info[p][plan[p].dst].proc_rank
           msg == [type |-> "block", gid |-> b, queues |-> incoming_[p][b]]
<1>1. plan' = [plan EXCEPT ![p] = NoPlan] /\ Goto(p, "recv") /\ release(p, b) /\ out' = Enqueue(out, p, {to}, msg)
  BY DEF MoveBlock
<1>2. /\ UNCHANGED <<incoming_, link, outgoing_, free_blocks, proc_work, prev_proc_work, nsent_reqs, requesters,
                     sample_work_info, iexchange_done, chan, done, from, wpc, work, processed, rank_map_>>
      /\ mpc[p] = "move"
      /\ disturbed' = disturbed \cup {q \in {p} : LookingUp(q)}
  BY DEF MoveBlock, aux, info
<1>3. b \in Block /\ Planned(p, b)
  BY <1>2 DEF Inv, InHand, FreeBlock, Planned
<1>4. to \in Proc
  <2>1. plan[p].dst \in DOMAIN sample_work_info[p]
    BY <1>2 DEF Inv, InHand
  <2>2. sample_work_info[p] \in Seq(Info)
    BY DEF Inv, AuxTypeOK
  <2>3. sample_work_info[p][plan[p].dst] \in Info
    BY <2>1, <2>2, ElementOfSeq, LenProperties
  <2> QED
    BY <2>3 DEF Info
<1>5. b \in ToSet(gids_[p]) /\ incoming_[p][b] > 0
  BY <1>3 DEF Inv, HereOK
<1>6. msg \in Msg /\ Loaded(msg) /\ Bears(msg, b)
  <2>1. incoming_[p][b] \in Nat
    BY <1>3 DEF Inv, MasterTypeOK
  <2> QED
    BY <1>3, <1>5, <2>1 DEF Msg, Loaded, Bears
<1>7. Planning(b) # {}
  BY <1>3 DEF Planning
<1>8. /\ processed[b] = 0 /\ Spots(chan, out, b) = {} /\ Working(b) = {}
      /\ FreeIn(free_blocks, b) = {} /\ Sole(Planning(b))
  <2>1. OnceIn(processed[b], Spots(chan, out, b), FreeIn(free_blocks, b), Planning(b), Working(b))
    BY <1>3 DEF Inv, OnceOK
  <2> QED
    BY <1>7, <2>1 DEF OnceIn
<1>9. \A q \in Proc : Planned(q, b) => q = p
  BY <1>3, <1>8 DEF Planning, Sole
<1>10. \A q \in Proc : b \in ToSet(gids_[q]) => q = p
  <2>1. InOne(Spots(chan, out, b), Residents(b))
    BY <1>3 DEF Inv, PlaceOK
  <2>2. Sole(Residents(b))
    BY <1>8, <2>1 DEF InOne, Sole
  <2> QED
    BY <1>5, <2>2 DEF Residents, Sole
<1>11. \A x : Planned(p, x) => x = b
  BY DEF Planned
<1> HIDE DEF f, b, to, msg
<1>12. /\ TablesOK'
       /\ gids_' \in [Proc -> Seq(Block)] /\ lids_' = [q \in Proc |-> lids_'[q]]
       /\ ToSet(gids_'[p]) = ToSet(gids_[p]) \ {b}
       /\ \A q \in Proc \ {p} : gids_'[q] = gids_[q]
  BY <1>1, <1>5, ReleaseStep
<1>13. chan \in Chan /\ out \in Out /\ Carried(chan, out)
  BY DEF Inv, AuxTypeOK, CarriedOK, Chan, Out, Aux
<1>14. Sent(chan, out, out', p, b)
  BY <1>1, <1>4, <1>6, <1>13, EnqueueBlock
<1>15. /\ out' \in Out /\ \A q \in Proc \ {p} : out'[q] = out[q]
       /\ \A x : x # b => Spots(chan', out', x) = Spots(chan, out, x)
       /\ Sole(Spots(chan', out', b))
       /\ CarriedOK'
  BY <1>2, <1>8, <1>13, <1>14 DEF Sent, CarriedOK
<1>16. /\ \A q \in Proc \ {p} : mpc'[q] = mpc[q]
       /\ mpc'[p] = "recv"
       /\ mpc' \in [Proc -> {"iexchange", "grab", "move", "recv", "fix_links", "barrier", "join", "end"}]
  BY <1>1, GotoStep
<1>17. /\ plan' \in [Proc -> [work : Nat \cup {None}, dst : Nat \cup {None}, block : FreeBlock \cup {NoBlock}]]
       /\ \A q \in Proc \ {p} : plan'[q] = plan[q]
  BY <1>1 DEF Inv, ThreadsTypeOK, NoPlan
<1>18. \A q \in Proc : \A x : Planned(q, x)' <=> Planned(q, x) /\ q # p
  BY <1>16, <1>17 DEF Planned
<1>19. \A q \in Proc : ~Gone(q)
  BY <1>2, Early DEF InCallback
<1>20. Over' /\ Resolved' /\ \A q \in Proc : Gone(q) => Gone(q)'
  BY <1>2, <1>16, <1>19, EarlyStep
<1>21. MasterTypeOK'
  BY <1>2, <1>12 DEF Inv, MasterTypeOK, TablesOK, Tables
<1>22. AuxTypeOK'
  BY <1>2, <1>15 DEF Inv, AuxTypeOK, Out
<1>23. ThreadsTypeOK'
  BY <1>2, <1>16, <1>17 DEF Inv, ThreadsTypeOK
<1>24. PlaceOK'
  <2> SUFFICES ASSUME NEW x \in Block
               PROVE  InOne(Spots(chan', out', x), Residents(x)')
    BY DEF PlaceOK
  <2>1. InOne(Spots(chan, out, x), Residents(x))
    BY DEF Inv, PlaceOK
  <2>2. CASE x = b
    <3>1. Residents(x)' = {}
      BY <1>10, <1>12, <2>2 DEF Residents
    <3> QED
      BY <1>15, <2>2, <3>1 DEF InOne
  <2>3. CASE x # b
    <3>1. \A q \in Proc : x \in ToSet(gids_'[q]) <=> x \in ToSet(gids_[q])
      BY <1>12, <2>3
    <3>2. Residents(x)' = Residents(x)
      BY <3>1 DEF Residents
    <3> QED
      BY <1>15, <2>1, <2>3, <3>2
  <2> QED
    BY <2>2, <2>3
<1>25. OnceOK'
  <2> SUFFICES ASSUME NEW x \in Block
               PROVE  OnceIn(processed'[x], Spots(chan', out', x), FreeIn(free_blocks', x), Planning(x)', Working(x)')
    BY DEF OnceOK
  <2>1. OnceIn(processed[x], Spots(chan, out, x), FreeIn(free_blocks, x), Planning(x), Working(x))
    BY DEF Inv, OnceOK
  <2>2. Working(x)' = Working(x) /\ FreeIn(free_blocks', x) = FreeIn(free_blocks, x) /\ processed'[x] = processed[x]
    BY <1>2 DEF Working
  <2>3. CASE x = b
    <3>1. Planning(x)' = {}
      BY <1>9, <1>18, <2>3 DEF Planning
    <3> QED
      BY <1>8, <1>15, <2>2, <2>3, <3>1 DEF OnceIn
  <2>4. CASE x # b
    <3>1. Planning(x)' = Planning(x)
      BY <1>11, <1>18, <2>4 DEF Planning
    <3> QED
      BY <1>15, <2>1, <2>2, <2>4, <3>1
  <2> QED
    BY <2>3, <2>4
<1>26. HereOK'
  <2> SUFFICES ASSUME NEW x \in Block, NEW q \in Proc, (Planned(q, x) \/ work[q].gid = x \/ HasFree(q, x))'
               PROVE  (x \in ToSet(gids_[q]) /\ incoming_[q][x] > 0)'
    BY DEF HereOK
  <2>1. (Planned(q, x) /\ q # p) \/ work[q].gid = x \/ HasFree(q, x)
    BY <1>2, <1>18 DEF HasFree
  <2>2. x \in ToSet(gids_[q]) /\ incoming_[q][x] > 0
    BY <2>1 DEF Inv, HereOK
  <2>3. x # b
    <3>1. ~HasFree(q, b)
      BY <1>8, NoneFree
    <3>2. work[q].gid # b
      BY <1>8 DEF Working
    <3> QED
      BY <1>9, <2>1, <3>1, <3>2
  <2> QED
    BY <1>2, <1>12, <2>2, <2>3
<1>27. InHand'
  BY <1>2, <1>15, <1>16, <1>17 DEF Inv, InHand, InCallback
<1>28. LooksUpItsOwn' /\ Weighed'
  BY <1>2 DEF Inv, LooksUpItsOwn, Weighed
<1>29. AtWork'
  <2> SUFFICES ASSUME NEW q \in Proc
               PROVE  (/\ wpc[q] \in {"poll", "exited"} => work[q] = NoWork
                       /\ wpc[q] \notin {"poll", "exited"} => work[q].gid \in Block
                       /\ wpc[q] = "gid" => work[q].found = {}
                       /\ wpc[q] = "run" => work[q].enqueued \in [Neighbor[work[q].gid] -> Proc]
                       /\ wpc[q] = "exited" => Gone(q)
                       /\ LookingUp(q) /\ q \notin disturbed =>
                            work[q].lid \in DOMAIN gids_[q] /\ gids_[q][work[q].lid] = work[q].gid)'
    BY DEF AtWork
  <2>1. CASE q = p
    <3>1. (LookingUp(q) => q \in disturbed)'
      BY <1>2, <2>1 DEF LookingUp
    <3> QED
      BY <1>2, <1>20, <2>1, <3>1 DEF Inv, AtWork
  <2>2. CASE q # p
    BY <1>2, <1>12, <1>20, <2>2 DEF Inv, AtWork, LookingUp
  <2> QED
    BY <2>1, <2>2
<1> QED
  BY <1>12, <1>15, <1>20, <1>21, <1>22, <1>23, <1>24, <1>25, <1>26, <1>27, <1>28, <1>29 DEF Inv

LEMMA FiniteToSet ==
  ASSUME NEW S, NEW s \in Seq(S)
  PROVE  IsFiniteSet(ToSet(s))
<1>1. IsFiniteSet(DOMAIN s)
  <2>1. DOMAIN s = 1..Len(s) /\ Len(s) \in Nat
    BY LenProperties
  <2>2. IsFiniteSet(1..Len(s))
    BY <2>1, FS_Interval
  <2> QED
    BY <2>1, <2>2
<1>2. IsFiniteSet({s[i] : i \in DOMAIN s})
  BY <1>1, FiniteImage
<1> QED
  BY <1>2 DEF ToSet

\* Dequeueing: the message, and what is left.
LEMMA DequeueStep ==
  ASSUME Inv, NEW p \in Proc, NEW q \in Proc, NEW type, Dequeue(p, q, type)
  PROVE  /\ mpc[p] = "recv" /\ chan[<<q, p>>] # <<>>
         /\ Message(p, q) \in Msg /\ Message(p, q).type = type
         /\ chan' = Dequeued(chan, q, p) /\ chan' \in Chan
         /\ from' \in [Proc -> Proc \cup {None}]
         /\ \A x \in Proc : ~Gone(x)
<1>1. mpc[p] = "recv" /\ chan[<<q, p>>] # <<>> /\ Message(p, q).type = type /\ chan' = Dequeued(chan, q, p)
  BY DEF Dequeue, Dequeued
<1>2. from' \in [Proc -> Proc \cup {None}]
  BY DEF Dequeue, Inv, AuxTypeOK
<1>3. chan \in Chan /\ out \in Out
  BY DEF Inv, AuxTypeOK, Chan, Out, Aux
<1>4. Dequeued(chan, q, p) \in Chan /\ Head(Head(chan[<<q, p>>])) \in Msg
  BY <1>1, <1>3, DequeueSpots
<1>5. \A x \in Proc : ~Gone(x)
  BY <1>1, Early DEF InCallback
<1> QED
  BY <1>1, <1>2, <1>4, <1>5 DEF Message

LEMMA DequeueBlock ==
  ASSUME Inv, NEW p \in Proc, NEW q \in Proc, NEW type, Dequeue(p, q, type)
  PROVE  Leaves(chan, chan', out, Message(p, q)) /\ Loaded(Message(p, q)) /\ Carried(chan', out)
<1>1. chan \in Chan /\ out \in Out /\ Carried(chan, out)
  BY DEF Inv, AuxTypeOK, CarriedOK, Chan, Out, Aux
<1>2. chan[<<q, p>>] # <<>> /\ chan' = Dequeued(chan, q, p)
  BY DequeueStep
<1>3. Leaves(chan, Dequeued(chan, q, p), out, Head(Head(chan[<<q, p>>])))
  BY <1>1, <1>2, DequeueSpots
<1> QED
  BY <1>1, <1>2, <1>3 DEF Message, Leaves

\* A message without a block leaves the blocks where they are.
LEMMA DequeuePlain ==
  ASSUME Inv, NEW p \in Proc, NEW q \in Proc, NEW type, Dequeue(p, q, type), type # "block"
  PROVE  /\ \A b : Kept(Spots(chan, out, b), Spots(chan', out, b))
         /\ Carried(chan', out)
<1>1. \A b : ~Bears(Message(p, q), b)
  BY DequeueStep DEF Bears
<1> QED
  BY <1>1, DequeueBlock DEF Leaves

LEMMA KeptPlace ==
  ASSUME Inv, NEW c \in Chan, NEW o \in Out,
         \A b : Kept(Spots(chan, out, b), Spots(c, o, b))
  PROVE  /\ \A b \in Block : InOne(Spots(c, o, b), Residents(b))
         /\ \A b \in Block : OnceIn(processed[b], Spots(c, o, b), FreeIn(free_blocks, b), Planning(b), Working(b))
<1>1. ASSUME NEW b \in Block PROVE InOne(Spots(c, o, b), Residents(b))
  <2>1. InOne(Spots(chan, out, b), Residents(b))
    BY DEF Inv, PlaceOK
  <2> QED
    BY <2>1 DEF InOne, Kept
<1>2. ASSUME NEW b \in Block
      PROVE  OnceIn(processed[b], Spots(c, o, b), FreeIn(free_blocks, b), Planning(b), Working(b))
  <2>1. OnceIn(processed[b], Spots(chan, out, b), FreeIn(free_blocks, b), Planning(b), Working(b))
    BY DEF Inv, OnceOK
  <2> QED
    BY <2>1 DEF OnceIn, Kept
<1> QED
  BY <1>1, <1>2

\* A request, and the answer.
LEMMA RecvRequestInv ==
  ASSUME Inv, NEW p \in Proc, NEW q \in Proc, RecvRequest(p, q)
  PROVE  Inv'
<1>1. /\ Dequeue(p, q, "work_info_req") /\ out' = Enqueue(out, p, {q}, WorkInfo(p))
      /\ requesters' = [requesters EXCEPT ![p] = @ \cup {q}]
      /\ UNCHANGED <<gids_, lids_, incoming_, link, outgoing_, free_blocks, proc_work, prev_proc_work, nsent_reqs,
                     sample_work_info, iexchange_done, done, mpc, plan, wpc, work, processed, disturbed, rank_map_>>
  BY DEF RecvRequest, master, aux, worker
<1>2. /\ mpc[p] = "recv" /\ chan' \in Chan
      /\ from' \in [Proc -> Proc \cup {None}]
      /\ \A x \in Proc : ~Gone(x)
  BY <1>1, DequeueStep
<1>3. /\ \A b : Kept(Spots(chan, out, b), Spots(chan', out, b))
      /\ Carried(chan', out)
  BY <1>1, DequeuePlain
<1>4. out \in Out
  BY DEF Inv, AuxTypeOK, Out
<1>5. Quiet(chan', out, out', p)
  <2>1. WorkInfo(p) \in Msg /\ Plain(WorkInfo(p))
    BY DEF WorkInfo, Msg, Info, Plain, Inv, AuxTypeOK
  <2>2. {q} \subseteq Proc
    OBVIOUS
  <2> QED
    BY <1>1, <1>2, <1>4, <2>1, <2>2, EnqueueOther
<1>6. /\ out' \in Out /\ \A r \in Proc \ {p} : out'[r] = out[r]
      /\ \A b : Spots(chan', out', b) = Spots(chan', out, b)
      /\ CarriedOK'
  BY <1>3, <1>5 DEF Quiet, CarriedOK
<1>7. \A b : Kept(Spots(chan, out, b), Spots(chan', out', b))
  BY <1>3, <1>6
<1>8. PlaceOK' /\ OnceOK'
  <2>1. /\ \A b \in Block : InOne(Spots(chan', out', b), Residents(b))
        /\ \A b \in Block : OnceIn(processed[b], Spots(chan', out', b), FreeIn(free_blocks, b), Planning(b), Working(b))
    BY <1>2, <1>6, <1>7, KeptPlace
  <2>2. \A b : Residents(b)' = Residents(b) /\ Planning(b)' = Planning(b) /\ Working(b)' = Working(b)
    BY <1>1 DEF Residents, Planning, Planned, Working
  <2> QED
    BY <1>1, <2>1, <2>2 DEF PlaceOK, OnceOK
<1>9. AuxTypeOK'
  <2>1. requesters' \in [Proc -> SUBSET Proc]
    BY <1>1 DEF Inv, AuxTypeOK
  <2> QED
    BY <1>1, <1>2, <1>6, <2>1 DEF Inv, AuxTypeOK, Out, Chan, Aux
<1>10. MasterTypeOK' /\ TablesOK' /\ LooksUpItsOwn' /\ ThreadsTypeOK' /\ Weighed'
  BY <1>1 DEF Inv, MasterTypeOK, TablesOK, LooksUpItsOwn, ThreadsTypeOK, Weighed
<1>11. HereOK'
  BY <1>1 DEF Inv, HereOK, HasFree, Planned
<1>12. InHand'
  BY <1>1, <1>2, <1>6 DEF Inv, InHand, InCallback
<1>13. Over' /\ Resolved' /\ \A x \in Proc : Gone(x) => Gone(x)'
  BY <1>1, <1>2, EarlyStep
<1>14. AtWork'
  BY <1>1, <1>13, StillAtWork
<1> QED
  BY <1>6, <1>8, <1>9, <1>10, <1>11, <1>12, <1>13, <1>14 DEF Inv

LEMMA RecvWorkInfoInv ==
  ASSUME Inv, NEW p \in Proc, NEW q \in Proc, RecvWorkInfo(p, q)
  PROVE  Inv'
<1> DEFINE new == Message(p, q)
           S   == {w \in ToSet(sample_work_info[p]) : w.proc_rank # new.proc_rank} \cup {new}
<1>1. /\ Dequeue(p, q, "work_info")
      /\ UNCHANGED <<gids_, lids_, incoming_, link, outgoing_, free_blocks, proc_work, prev_proc_work, nsent_reqs,
                     requesters, iexchange_done, out, done, mpc, plan, wpc, work, processed, disturbed, rank_map_>>
  BY DEF RecvWorkInfo, master, aux, worker
<1>2. PICK s \in SetToSeqs(S) : sample_work_info' = [sample_work_info EXCEPT ![p] = s]
  BY DEF RecvWorkInfo
<1>3. /\ mpc[p] = "recv" /\ chan' \in Chan /\ new \in Msg /\ new.type = "work_info"
      /\ from' \in [Proc -> Proc \cup {None}]
      /\ \A x \in Proc : ~Gone(x)
  BY <1>1, DequeueStep
<1>4. /\ \A b : Kept(Spots(chan, out, b), Spots(chan', out, b))
      /\ Carried(chan', out)
  BY <1>1, DequeuePlain
<1>5. s \in Seq(Info)
  <2>1. new \in Info
    BY <1>3 DEF Msg, Info
  <2>2. ToSet(sample_work_info[p]) \subseteq Info
    BY ToSetOf DEF Inv, AuxTypeOK
  <2>3. S \subseteq Info
    BY <2>1, <2>2
  <2>4. s \in [1..Cardinality(S) -> S] /\ Cardinality(S) \in Nat
    <3>1. IsFiniteSet(ToSet(sample_work_info[p]))
      BY FiniteToSet DEF Inv, AuxTypeOK
    <3>2. IsFiniteSet(S)
      <4> DEFINE T == {w \in ToSet(sample_work_info[p]) : w.proc_rank # new.proc_rank}
      <4>1. IsFiniteSet(T)
        BY <3>1, FS_Subset
      <4> QED
        BY <4>1, FS_AddElement
    <3> QED
      BY <3>2, FS_CardinalityType DEF SetToSeqs
  <2> HIDE DEF S
  <2> QED
    BY <2>3, <2>4, SeqDef
<1>6. /\ sample_work_info' \in [Proc -> Seq(Info)]
      /\ \A r \in Proc \ {p} : sample_work_info'[r] = sample_work_info[r]
  BY <1>2, <1>5 DEF Inv, AuxTypeOK
<1> HIDE DEF new, S
<1>7. PlaceOK' /\ OnceOK' /\ CarriedOK'
  <2>1. out \in Out
    BY DEF Inv, AuxTypeOK, Out
  <2>2. /\ \A b \in Block : InOne(Spots(chan', out, b), Residents(b))
        /\ \A b \in Block : OnceIn(processed[b], Spots(chan', out, b), FreeIn(free_blocks, b), Planning(b), Working(b))
    BY <1>3, <1>4, <2>1, KeptPlace
  <2>3. \A b : Residents(b)' = Residents(b) /\ Planning(b)' = Planning(b) /\ Working(b)' = Working(b)
    BY <1>1 DEF Residents, Planning, Planned, Working
  <2> QED
    BY <1>1, <1>4, <2>2, <2>3 DEF PlaceOK, OnceOK, CarriedOK
<1>8. AuxTypeOK'
  BY <1>1, <1>3, <1>6 DEF Inv, AuxTypeOK, Chan, Aux
<1>9. MasterTypeOK' /\ TablesOK' /\ LooksUpItsOwn' /\ ThreadsTypeOK' /\ Weighed'
  BY <1>1 DEF Inv, MasterTypeOK, TablesOK, LooksUpItsOwn, ThreadsTypeOK, Weighed
<1>10. HereOK'
  BY <1>1 DEF Inv, HereOK, HasFree, Planned
<1>11. InHand'
  BY <1>1, <1>3, <1>6 DEF Inv, InHand, InCallback
<1>12. Over' /\ Resolved' /\ \A x \in Proc : Gone(x) => Gone(x)'
  BY <1>1, <1>3, EarlyStep
<1>13. AtWork'
  BY <1>1, <1>12, StillAtWork
<1> QED
  BY <1>7, <1>8, <1>9, <1>10, <1>11, <1>12, <1>13 DEF Inv

\* A block comes, with its incoming queues.
LEMMA RecvBlockInv ==
  ASSUME Inv, NEW p \in Proc, NEW q \in Proc, RecvBlock(p, q)
  PROVE  Inv'
<1> DEFINE m == Message(p, q)
           b == m.gid
           f == [gid |-> b, src_proc |-> q]
<1>1. Dequeue(p, q, "block") /\ add(p, b) /\ add_free_block(p, f)
  BY DEF RecvBlock
<1>2. /\ UNCHANGED <<link, outgoing_, prev_proc_work, nsent_reqs, requesters, sample_work_info, iexchange_done, out,
                     done, mpc, plan, wpc, work, processed, disturbed, rank_map_>>
      /\ incoming_' = [incoming_ EXCEPT ![p][b] = @ + m.queues]
  BY DEF RecvBlock, info, worker
<1>3. /\ mpc[p] = "recv" /\ chan[<<q, p>>] # <<>>
      /\ chan' = Dequeued(chan, q, p) /\ chan' \in Chan
      /\ m \in Msg /\ m.type = "block"
      /\ from' \in [Proc -> Proc \cup {None}]
      /\ \A x \in Proc : ~Gone(x)
  BY <1>1, DequeueStep
<1>4. b \in Block /\ m.queues \in Nat /\ Bears(m, b) /\ f \in FreeBlock
  BY <1>3 DEF Msg, Info, Bears, FreeBlock
<1>5. chan \in Chan /\ out \in Out /\ Carried(chan, out)
  BY DEF Inv, AuxTypeOK, CarriedOK, Chan, Out, Aux
<1>6. /\ \A x : ~Bears(m, x) => Kept(Spots(chan, out, x), Spots(chan', out, x))
      /\ \A x : Bears(m, x) => Spots(chan, out, x) # {} /\ (Sole(Spots(chan, out, x)) => Spots(chan', out, x) = {})
      /\ Loaded(m) /\ Carried(chan', out)
  <2>1. Leaves(chan, chan', out, m) /\ Loaded(m) /\ Carried(chan', out)
    BY <1>1, DequeueBlock
  <2> HIDE DEF m
  <2> QED
    BY <2>1 DEF Leaves
<1>7. \A x : Bears(m, x) => x = b
  BY DEF Bears
<1>8. m.queues > 0
  BY <1>3, <1>6 DEF Loaded
<1>9. /\ Sole(Spots(chan, out, b)) /\ Spots(chan', out, b) = {}
      /\ processed[b] = 0 /\ FreeIn(free_blocks, b) = {} /\ Planning(b) = {} /\ Working(b) = {}
  <2>1. OnceIn(processed[b], Spots(chan, out, b), FreeIn(free_blocks, b), Planning(b), Working(b))
    BY <1>4 DEF Inv, OnceOK
  <2>2. Spots(chan, out, b) # {}
    BY <1>4, <1>6
  <2> HIDE DEF b
  <2>3. Sole(Spots(chan, out, b)) /\ processed[b] = 0 /\ FreeIn(free_blocks, b) = {} /\ Planning(b) = {} /\ Working(b) = {}
    BY <2>1, <2>2 DEF OnceIn
  <2> QED
    BY <1>4, <1>6, <2>3
<1>10. Residents(b) = {}
  <2>1. InOne(Spots(chan, out, b), Residents(b))
    BY <1>4 DEF Inv, PlaceOK
  <2> QED
    BY <1>9, <2>1 DEF InOne, Sole
<1>11. f.gid = b
  OBVIOUS
<1>12. /\ incoming_' \in [Proc -> [Block -> Nat]]
       /\ incoming_'[p][b] > 0
       /\ \A r \in Proc, x \in Block : ~(r = p /\ x = b) => incoming_'[r][x] = incoming_[r][x]
  <2>1. incoming_ \in [Proc -> [Block -> Nat]] /\ incoming_[p][b] \in Nat
    BY <1>4 DEF Inv, MasterTypeOK
  <2> DEFINE n == m.queues
             k == incoming_[p][b]
  <2>2. n \in Nat /\ n > 0 /\ k \in Nat /\ incoming_' = [incoming_ EXCEPT ![p][b] = k + n]
    BY <1>2, <1>4, <1>8, <2>1
  <2> HIDE DEF n, k, b
  <2>3. k + n \in Nat /\ k + n > 0
    BY <2>2
  <2> QED
    BY <1>4, <2>1, <2>2, <2>3
<1> HIDE DEF m, b, f
<1>13. b \in Block \ ToSet(gids_[p])
  BY <1>4, <1>10 DEF Residents
<1>14. /\ TablesOK'
       /\ gids_' \in [Proc -> Seq(Block)] /\ lids_' = [r \in Proc |-> lids_'[r]]
       /\ ToSet(gids_'[p]) = ToSet(gids_[p]) \cup {b}
       /\ \A r \in Proc \ {p} : gids_'[r] = gids_[r]
       /\ \A i \in DOMAIN gids_[p] : i \in DOMAIN gids_'[p] /\ gids_'[p][i] = gids_[p][i]
  BY <1>1, <1>13, AddTableStep
<1>15. /\ free_blocks' \in [Proc -> SUBSET FreeBlock] /\ proc_work' \in [Proc -> Nat]
       /\ free_blocks'[p] = free_blocks[p] \cup {f}
       /\ \A r \in Proc \ {p} : free_blocks'[r] = free_blocks[r]
       /\ Weighed'
       /\ \A x : x # b => FreeIn(free_blocks', x) = FreeIn(free_blocks, x)
       /\ Sole(FreeIn(free_blocks', b))
  BY <1>1, <1>4, <1>9, <1>11, AddStep
<1>16. Over' /\ Resolved' /\ \A x \in Proc : Gone(x) => Gone(x)'
  BY <1>2, <1>3, EarlyStep
<1>17. MasterTypeOK'
  BY <1>2, <1>12, <1>14 DEF Inv, MasterTypeOK, TablesOK, Tables
<1>18. AuxTypeOK'
  BY <1>2, <1>3, <1>15 DEF Inv, AuxTypeOK, Chan, Aux
<1>19. ThreadsTypeOK' /\ LooksUpItsOwn'
  BY <1>2 DEF Inv, ThreadsTypeOK, LooksUpItsOwn
<1>20. PlaceOK'
  <2> SUFFICES ASSUME NEW x \in Block
               PROVE  InOne(Spots(chan', out', x), Residents(x)')
    BY DEF PlaceOK
  <2>1. InOne(Spots(chan, out, x), Residents(x))
    BY DEF Inv, PlaceOK
  <2>2. CASE x = b
    <3>1. Residents(x)' = {p}
      BY <1>10, <1>14, <2>2 DEF Residents
    <3> QED
      BY <1>2, <1>9, <2>2, <3>1 DEF InOne, Sole
  <2>3. CASE x # b
    <3>1. \A r \in Proc : x \in ToSet(gids_'[r]) <=> x \in ToSet(gids_[r])
      BY <1>14, <2>3
    <3>2. Residents(x)' = Residents(x)
      BY <3>1 DEF Residents
    <3>3. Kept(Spots(chan, out, x), Spots(chan', out', x))
      BY <1>2, <1>6, <1>7, <2>3
    <3> QED
      BY <2>1, <3>2, <3>3 DEF InOne, Kept
  <2> QED
    BY <2>2, <2>3
<1>21. OnceOK'
  <2> SUFFICES ASSUME NEW x \in Block
               PROVE  OnceIn(processed'[x], Spots(chan', out', x), FreeIn(free_blocks', x), Planning(x)', Working(x)')
    BY DEF OnceOK
  <2>1. OnceIn(processed[x], Spots(chan, out, x), FreeIn(free_blocks, x), Planning(x), Working(x))
    BY DEF Inv, OnceOK
  <2>2. Working(x)' = Working(x) /\ Planning(x)' = Planning(x) /\ processed'[x] = processed[x]
    BY <1>2 DEF Working, Planning, Planned
  <2>3. CASE x = b
    BY <1>2, <1>9, <1>15, <2>2, <2>3 DEF OnceIn
  <2>4. CASE x # b
    <3>1. FreeIn(free_blocks', x) = FreeIn(free_blocks, x)
      BY <1>15, <2>4
    <3>2. Kept(Spots(chan, out, x), Spots(chan', out', x))
      BY <1>2, <1>6, <1>7, <2>4
    <3> QED
      BY <2>1, <2>2, <3>1, <3>2 DEF OnceIn, Kept
  <2> QED
    BY <2>3, <2>4
<1>22. HereOK'
  <2> SUFFICES ASSUME NEW x \in Block, NEW r \in Proc, (Planned(r, x) \/ work[r].gid = x \/ HasFree(r, x))'
               PROVE  (x \in ToSet(gids_[r]) /\ incoming_[r][x] > 0)'
    BY DEF HereOK
  <2>1. Planned(r, x) \/ work[r].gid = x \/ HasFree(r, x) \/ (r = p /\ x = b)
    BY <1>2, <1>11, <1>15 DEF HasFree, Planned
  <2>2. CASE r = p /\ x = b
    BY <1>12, <1>14, <2>2
  <2>3. CASE ~(r = p /\ x = b)
    BY <1>12, <1>14, <2>1, <2>3 DEF Inv, HereOK
  <2> QED
    BY <2>2, <2>3
<1>23. InHand'
  BY <1>2, <1>3, <1>15 DEF Inv, InHand, InCallback
<1>24. CarriedOK'
  BY <1>2, <1>6 DEF CarriedOK
<1>25. AtWork'
  <2> SUFFICES ASSUME NEW r \in Proc
               PROVE  (/\ wpc[r] \in {"poll", "exited"} => work[r] = NoWork
                       /\ wpc[r] \notin {"poll", "exited"} => work[r].gid \in Block
                       /\ wpc[r] = "gid" => work[r].found = {}
                       /\ wpc[r] = "run" => work[r].enqueued \in [Neighbor[work[r].gid] -> Proc]
                       /\ wpc[r] = "exited" => Gone(r)
                       /\ LookingUp(r) /\ r \notin disturbed =>
                            work[r].lid \in DOMAIN gids_[r] /\ gids_[r][work[r].lid] = work[r].gid)'
    BY DEF AtWork
  <2>1. CASE r = p
    BY <1>2, <1>14, <1>16, <2>1 DEF Inv, AtWork, LookingUp
  <2>2. CASE r # p
    BY <1>2, <1>14, <1>16, <2>2 DEF Inv, AtWork, LookingUp
  <2> QED
    BY <2>1, <2>2
<1> QED
  BY <1>14, <1>15, <1>16, <1>17, <1>18, <1>19, <1>20, <1>21, <1>22, <1>23, <1>24, <1>25 DEF Inv

-----------------------------------------------------------------------------
(***************************************************************************)
(* The initial states.                                                     *)
(***************************************************************************)
Lists(g, S) == /\ g \in Seq(S) /\ ToSet(g) = S
               /\ \A i, j \in DOMAIN g : g[i] = g[j] => i = j

LEMMA SetToSeqLists ==
  ASSUME NEW S, IsFiniteSet(S)
  PROVE  Lists(SetToSeq(S), S)
<1> DEFINE n == Cardinality(S)
           g == SetToSeq(S)
<1>1. n \in Nat
  BY FS_CardinalityType
<1>2. \E f \in [1..n -> S] : IsInjective(f)
  <2>1. PICK m \in Nat : ExistsBijection(1..m, S)
    BY FS_NatBijection
  <2>2. m = n
    BY <2>1, FS_CountingElements
  <2>3. PICK f : f \in Bijection(1..n, S)
    BY <2>1, <2>2 DEF ExistsBijection
  <2> QED
    BY <2>3 DEF Bijection, Injection, IsInjective
<1>3. g \in [1..n -> S] /\ IsInjective(g)
  BY <1>2 DEF SetToSeq
<1> HIDE DEF g
<1> DEFINE T == {g[i] : i \in 1..n}
<1>4. T \subseteq S
  BY <1>3
<1>5. T = S
  <2>1. g \in Surjection(1..n, T) /\ g \in Injection(1..n, T)
    BY <1>3 DEF Surjection, Injection, IsInjective
  <2>2. IsFiniteSet(1..n) /\ Cardinality(1..n) = n
    BY <1>1, FS_Interval
  <2> HIDE DEF T
  <2>3. Cardinality(T) = Cardinality(1..n)
    BY <2>1, <2>2, FS_Surjection
  <2>4. Cardinality(S) = Cardinality(T)
    BY <2>2, <2>3
  <2> QED
    BY <1>4, <2>4, FS_Subset
<1>6. ToSet(g) = T
  BY <1>3 DEF ToSet
<1>7. g \in Seq(S)
  BY <1>1, <1>3, SeqDef
<1>8. \A i, j \in DOMAIN g : g[i] = g[j] => i = j
  BY <1>3 DEF IsInjective
<1> HIDE DEF T
<1> QED
  BY <1>5, <1>6, <1>7, <1>8 DEF Lists, g

LEMMA ListedTables ==
  ASSUME NEW S, S \subseteq Block, NEW g, Lists(g, S)
  PROVE  Tables(g, [b \in S |-> CHOOSE i \in DOMAIN g : g[i] = b])
<1> DEFINE l == [b \in S |-> CHOOSE i \in DOMAIN g : g[i] = b]
<1>1. g \in Seq(S) /\ ToSet(g) = S /\ \A i, j \in DOMAIN g : g[i] = g[j] => i = j
  BY DEF Lists
<1>2. g \in Seq(Block)
  BY <1>1
<1>3. DOMAIN g = 1..Len(g) /\ \A x : x \in S <=> \E i \in 1..Len(g) : g[i] = x
  BY <1>1, ToSetOf
<1>4. ASSUME NEW b \in S PROVE l[b] \in DOMAIN g /\ g[l[b]] = b
  <2>1. \E i \in DOMAIN g : g[i] = b
    BY <1>3
  <2>2. l[b] = CHOOSE i \in DOMAIN g : g[i] = b
    OBVIOUS
  <2> QED
    BY <2>1, <2>2
<1>5. DOMAIN l = S /\ l \in [S -> DOMAIN g]
  BY <1>4
<1> HIDE DEF l
<1>6. ASSUME NEW i \in DOMAIN g PROVE l[g[i]] = i
  <2>1. g[i] \in S
    BY <1>3
  <2>2. l[g[i]] \in DOMAIN g /\ g[l[g[i]]] = g[i]
    BY <1>4, <2>1
  <2> QED
    BY <1>1, <2>2
<1> QED
  BY <1>1, <1>2, <1>4, <1>5, <1>6 DEF Tables, l

LEMMA InitTables ==
  ASSUME Init
  PROVE  /\ TablesOK
         /\ \A p \in Proc : ToSet(gids_[p]) = Local(p)
         /\ gids_ \in [Proc -> Seq(Block)] /\ lids_ = [p \in Proc |-> lids_[p]]
<1>1. ASSUME NEW p \in Proc PROVE Tables(gids_[p], lids_[p]) /\ ToSet(gids_[p]) = Local(p)
  <2>1. Local(p) \subseteq Block
    BY DEF Local
  <2>2. IsFiniteSet(Local(p))
    BY <2>1, FS_Subset, DynamicAssumption
  <2>3. gids_[p] = SetToSeq(Local(p))
    BY DEF Init
  <2>4. Lists(gids_[p], Local(p))
    BY <2>2, <2>3, SetToSeqLists
  <2>5. lids_[p] = [b \in Local(p) |-> CHOOSE i \in DOMAIN gids_[p] : gids_[p][i] = b]
    BY DEF Init
  <2>6. Tables(gids_[p], lids_[p])
    BY <2>1, <2>4, <2>5, ListedTables
  <2>7. ToSet(gids_[p]) = Local(p)
    BY <2>4 DEF Lists
  <2> QED
    BY <2>6, <2>7
<1>2. gids_ = [p \in Proc |-> gids_[p]] /\ lids_ = [p \in Proc |-> lids_[p]]
  BY DEF Init
<1>3. gids_ \in [Proc -> Seq(Block)]
  BY <1>1, <1>2 DEF Tables
<1> QED
  BY <1>1, <1>2, <1>3 DEF TablesOK

LEMMA NoSpots ==
  ASSUME NEW c \in Chan, NEW o \in Out,
         \A x \in Proc \X Proc : c[x] = <<>>, \A p, q \in Proc : o[p][q] = <<>>
  PROVE  /\ \A p, q \in Proc : \A i, j, m : ~Lies(c, o, p, q, i, j, m)
         /\ \A b : Spots(c, o, b) = {}
<1>1. \A p, q \in Proc : \A i, j, m : ~Lies(c, o, p, q, i, j, m)
  <2> SUFFICES ASSUME NEW p \in Proc, NEW q \in Proc, NEW i, NEW j, NEW m, Lies(c, o, p, q, i, j, m)
               PROVE  FALSE
    OBVIOUS
  <2>1. c[<<p, q>>] = <<>> /\ o[p][q] = <<>> /\ Len(<<>>) = 0
    BY EmptySeq
  <2> QED
    BY <2>1 DEF Lies
<1>2. \A b : Spots(c, o, b) = {}
  <2> TAKE b
  <2> SUFFICES ASSUME NEW w \in Spots(c, o, b) PROVE FALSE
    OBVIOUS
  <2>1. \E p, q \in Proc : \E i, j \in Nat \ {0} : \E m \in Msg :
          w = <<p, q, i, j>> /\ Lies(c, o, p, q, i, j, m) /\ Bears(m, b)
    BY SpotsAre
  <2> QED
    BY <1>1, <2>1
<1> QED
  BY <1>1, <1>2

LEMMA InitSpots ==
  ASSUME Init
  PROVE  /\ chan \in Chan /\ out \in Out
         /\ \A b : Spots(chan, out, b) = {}
         /\ CarriedOK
<1>1. <<>> \in Seq(Msg) /\ <<>> \in Seq(Aux) /\ Len(<<>>) = 0
  BY EmptySeq
<1>2. (\A x \in Proc \X Proc : chan[x] = <<>>) /\ (\A p, q \in Proc : out[p][q] = <<>>)
  BY DEF Init
<1>3. chan \in Chan /\ out \in Out
  BY <1>1 DEF Init, Chan, Out
<1>4. /\ \A p, q \in Proc : \A i, j, m : ~Lies(chan, out, p, q, i, j, m)
      /\ \A b : Spots(chan, out, b) = {}
  BY <1>2, <1>3, NoSpots
<1>6. CarriedOK
  BY <1>3, <1>4, CarriedIs DEF CarriedOK
<1> QED
  BY <1>3, <1>4, <1>6

LEMMA InitTypes ==
  ASSUME Init
  PROVE  MasterTypeOK /\ AuxTypeOK /\ ThreadsTypeOK /\ Weighed
<1>1. Owner \in [Block -> Proc] /\ Neighbor \in [Block -> SUBSET Block]
  BY DynamicAssumption
<1>2. MasterTypeOK
  <2>1. gids_ \in [Proc -> Seq(Block)] /\ lids_ = [p \in Proc |-> lids_[p]]
        /\ \A p \in Proc : lids_[p] \in [ToSet(gids_[p]) -> DOMAIN gids_[p]]
    BY InitTables DEF TablesOK, Tables
  <2>2. incoming_ \in [Proc -> [Block -> Nat]]
    BY DEF Init
  <2>3. link = [b \in Block |-> link[b]] /\ \A b \in Block : link[b] \in [Neighbor[b] -> Proc]
    BY <1>1 DEF Init
  <2>4. rank_map_ \in [Block -> Proc]
    BY <1>1 DEF Init
  <2>5. outgoing_ = [p \in Proc |-> outgoing_[p]]
    BY DEF Init
  <2>6. ASSUME NEW p \in Proc
        PROVE  DOMAIN outgoing_[p] \subseteq Block \X Block /\ outgoing_[p] \in [DOMAIN outgoing_[p] -> Proc]
    <3> DEFINE D == {x \in (Local(p) \cap Enqueued) \X Block : x[2] \in Neighbor[x[1]]}
    <3>1. outgoing_[p] = [e \in D |-> Owner[e[2]]]
      BY DEF Init
    <3>2. D \subseteq Block \X Block
      BY DynamicAssumption DEF Local
    <3>3. \A e \in D : Owner[e[2]] \in Proc
      BY <1>1, <3>2
    <3> HIDE DEF D
    <3> QED
      BY <3>1, <3>2, <3>3
  <2> QED
    BY <2>1, <2>2, <2>3, <2>4, <2>5, <2>6 DEF MasterTypeOK
<1>3. /\ free_blocks \in [Proc -> SUBSET FreeBlock]
      /\ proc_work \in [Proc -> Nat]
      /\ \A p \in Proc : proc_work[p] = Total(free_blocks[p])
  <2>1. free_blocks \in [Proc -> SUBSET FreeBlock]
    <3>1. \A p \in Proc : free_blocks[p] = {[gid |-> b, src_proc |-> p] : b \in Local(p)}
      BY DEF Init
    <3>2. \A p \in Proc : free_blocks[p] \subseteq FreeBlock
      BY <3>1 DEF FreeBlock, Local
    <3>3. free_blocks = [p \in Proc |-> free_blocks[p]]
      BY DEF Init
    <3> QED
      BY <3>2, <3>3
  <2>2. \A p \in Proc : proc_work[p] = Total(free_blocks[p])
    BY DEF Init
  <2>3. \A p \in Proc : Total(free_blocks[p]) \in Nat
    BY <2>1, TotalWork
  <2>4. proc_work = [p \in Proc |-> proc_work[p]]
    BY DEF Init
  <2> QED
    BY <2>1, <2>2, <2>3, <2>4
<1>4. AuxTypeOK
  <2>1. chan \in [Proc \X Proc -> Seq(Seq(Msg) \ {<<>>})] /\ out \in [Proc -> [Proc -> Seq(Msg)]]
    BY InitSpots DEF Chan, Out, Aux
  <2>2. prev_proc_work \in [Proc -> Nat]
    BY <1>3 DEF Init
  <2>3. /\ nsent_reqs \in [Proc -> {0, NSamples}] /\ requesters \in [Proc -> SUBSET Proc]
        /\ sample_work_info \in [Proc -> Seq(Info)] /\ iexchange_done \in [Proc -> BOOLEAN]
        /\ done \in [Proc -> BOOLEAN] /\ from \in [Proc -> Proc \cup {None}]
    BY EmptySeq DEF Init
  <2> QED
    BY <1>3, <2>1, <2>2, <2>3 DEF AuxTypeOK
<1>5. ThreadsTypeOK
  BY DEF Init, ThreadsTypeOK, NoPlan, NoWork, Enqueues
<1> QED
  BY <1>2, <1>3, <1>4, <1>5 DEF Weighed

LEMMA InitInv ==
  ASSUME Init
  PROVE  Inv
<1>1. MasterTypeOK /\ AuxTypeOK /\ ThreadsTypeOK /\ Weighed
  BY InitTypes
<1>2. \A b : Spots(chan, out, b) = {}
  BY InitSpots
<1>3. PlaceOK
  <2> SUFFICES ASSUME NEW b \in Block PROVE InOne(Spots(chan, out, b), Residents(b))
    BY DEF PlaceOK
  <2>1. Residents(b) = {Owner[b]}
    <3>1. \A p \in Proc : b \in ToSet(gids_[p]) <=> Owner[b] = p
      BY InitTables DEF Local
    <3>2. Owner[b] \in Proc
      BY DynamicAssumption
    <3> QED
      BY <3>1, <3>2 DEF Residents
  <2> QED
    BY <1>2, <2>1 DEF InOne, Sole
<1>4. \A p \in Proc : work[p] = NoWork /\ plan[p] = NoPlan /\ mpc[p] = "iexchange" /\ wpc[p] = "poll"
  BY DEF Init
<1>5. \A p \in Proc : \A f : f \in free_blocks[p] <=> f \in FreeBlock /\ f.src_proc = p /\ Owner[f.gid] = p
  <2> SUFFICES ASSUME NEW p \in Proc, NEW f
               PROVE  f \in free_blocks[p] <=> f \in FreeBlock /\ f.src_proc = p /\ Owner[f.gid] = p
    OBVIOUS
  <2>1. free_blocks[p] = {[gid |-> b, src_proc |-> p] : b \in Local(p)}
    BY DEF Init
  <2> QED
    BY <2>1 DEF FreeBlock, Local
<1>6. OnceOK
  <2> SUFFICES ASSUME NEW b \in Block
               PROVE  OnceIn(processed[b], Spots(chan, out, b), FreeIn(free_blocks, b), Planning(b), Working(b))
    BY DEF OnceOK
  <2>1. processed[b] = 0
    BY DEF Init
  <2>2. Planning(b) = {}
    BY <1>4 DEF Planning, Planned
  <2>3. Working(b) = {}
    BY <1>4, DynamicAssumption DEF Working, NoWork
  <2> DEFINE f == [gid |-> b, src_proc |-> Owner[b]]
             x == <<Owner[b], f>>
  <2>4. Owner[b] \in Proc /\ f \in FreeBlock
    BY DynamicAssumption DEF FreeBlock
  <2>5. ASSUME NEW y PROVE y \in FreeIn(free_blocks, b) <=> y = x
    <3>1. y \in FreeIn(free_blocks, b) <=> \E p \in Proc : \E g \in free_blocks[p] : g.gid = b /\ y = <<p, g>>
      BY FreeMember
    <3>2. f \in free_blocks[Owner[b]]
      BY <1>5, <2>4
    <3>3. \A p \in Proc : \A g \in free_blocks[p] : g.gid = b => p = Owner[b] /\ g = f
      BY <1>5 DEF FreeBlock
    <3>4. f.gid = b
      OBVIOUS
    <3> HIDE DEF f
    <3> QED
      BY <2>4, <3>1, <3>2, <3>3, <3>4
  <2>6. FreeIn(free_blocks, b) = {x}
    BY <2>5
  <2> QED
    BY <1>2, <2>1, <2>2, <2>3, <2>6 DEF OnceIn, Sole
<1>7. HereOK
  <2> SUFFICES ASSUME NEW b \in Block, NEW p \in Proc, Planned(p, b) \/ work[p].gid = b \/ HasFree(p, b)
               PROVE  b \in ToSet(gids_[p]) /\ incoming_[p][b] > 0
    BY DEF HereOK
  <2>1. HasFree(p, b)
    BY <1>4, DynamicAssumption DEF Planned, NoWork
  <2>2. b \in Local(p)
    BY <1>5, <2>1 DEF HasFree, Local, FreeBlock
  <2>3. incoming_[p][b] = 1
    BY <2>2 DEF Init
  <2> QED
    BY <2>2, <2>3, InitTables
<1>8. LooksUpItsOwn
  BY <1>4 DEF LooksUpItsOwn, NoWork
<1>9. InHand
  BY <1>4 DEF InHand, InCallback, Init
<1>10. Over /\ Resolved
  <2>1. \A p \in Proc : Gone(p) = FALSE
    BY <1>4 DEF Gone
  <2>2. \A p \in Proc : iexchange_done[p] = FALSE
    BY DEF Init
  <2>3. Over
    BY <2>1, <2>2 DEF Over
  <2>4. Resolved
    BY <1>4 DEF Resolved
  <2> QED
    BY <2>3, <2>4
<1>11. AtWork
  BY <1>4 DEF AtWork, LookingUp
<1> QED
  BY <1>1, <1>3, <1>6, <1>7, <1>8, <1>9, <1>10, <1>11, InitTables, InitSpots DEF Inv

-----------------------------------------------------------------------------
(***************************************************************************)
(* The theorems.                                                           *)
(***************************************************************************)
LEMMA NextInv ==
  ASSUME Inv, [Next]_vars
  PROVE  Inv'
<1>1. ASSUME NEW p \in Proc, Main(p) PROVE Inv'
  <2>1. CASE Callback(p)
    BY <2>1, CallbackInv
  <2>2. CASE GrabToSend(p)
    BY <2>2, TakeInv, TakeNoneInv
  <2>3. CASE MoveBlock(p)
    BY <2>3, MoveBlockInv
  <2>4. CASE PutBack(p)
    BY <2>4, PutBackInv
  <2>5. CASE \E q \in Proc : Receive(p, q)
    BY <2>5, RecvRequestInv, RecvWorkInfoInv, RecvBlockInv DEF Receive
  <2>6. CASE Return(p)
    BY <2>6, ReturnInv
  <2>7. CASE EndIExchange(p)
    BY <2>7, EndIExchangeInv
  <2>8. CASE record_local_gids(p)
    BY <2>8, RecordInv
  <2>9. CASE update_links(p)
    BY <2>9, UpdateInv
  <2>10. CASE fix_queues(p)
    BY <2>10, FixQueuesInv
  <2> QED
    BY <1>1, <2>1, <2>2, <2>3, <2>4, <2>5, <2>6, <2>7, <2>8, <2>9, <2>10 DEF Main
<1>2. ASSUME NEW p \in Proc, Worker(p) PROVE Inv'
  BY <1>2, GrabInv, LookUpGidInv, CallInv, CopyOutInv, ExitInv DEF Worker
<1>3. ASSUME UNCHANGED vars PROVE Inv'
  <2>1. UNCHANGED <<gids_, lids_, incoming_, link, outgoing_, free_blocks, proc_work, prev_proc_work, nsent_reqs,
                    requesters, sample_work_info, iexchange_done, chan, out, done, from, mpc, plan, wpc, work, processed,
                    disturbed, rank_map_>>
    BY <1>3 DEF vars, master, aux, info, net, worker
  <2>2. MasterTypeOK' /\ AuxTypeOK' /\ ThreadsTypeOK'
    BY <2>1 DEF Inv, MasterTypeOK, AuxTypeOK, ThreadsTypeOK
  <2>3. TablesOK' /\ PlaceOK' /\ HereOK' /\ LooksUpItsOwn' /\ Weighed' /\ CarriedOK'
    BY <2>1 DEF Inv, TablesOK, PlaceOK, Residents, HereOK, Planned, HasFree, LooksUpItsOwn, Weighed, CarriedOK
  <2>4. OnceOK'
    BY <2>1 DEF Inv, OnceOK, Planning, Planned, Working
  <2>5. InHand' /\ Over'
    BY <2>1 DEF Inv, InHand, InCallback, Over, Gone
  <2>6. AtWork'
    BY <2>1 DEF Inv, AtWork, LookingUp, Gone
  <2>7. Resolved'
    BY <2>1 DEF Inv, Resolved
  <2> QED
    BY <2>2, <2>3, <2>4, <2>5, <2>6, <2>7 DEF Inv
<1> QED
  BY <1>1, <1>2, <1>3 DEF Next, Finished

\* The sums and the tables, in the forms that the runs check.
LEMMA InvImplies ==
  ASSUME Inv
  PROVE  DynamicInv
<1>1. chan \in Chan /\ out \in Out
  BY DEF Inv, AuxTypeOK, Chan, Out, Aux
<1>2. \A b : Moving(b) = Spots(chan, out, b)
  BY DEF Moving, Spots, FromTo, Line, Bears
<1>3. \A b : IsFiniteSet(Spots(chan, out, b))
  BY <1>1, SpotsFinite
<1>4. InOnePlace
  <2>1. ASSUME NEW b \in Block
        PROVE  Cardinality(Moving(b)) + Cardinality({p \in Proc : b \in ToSet(gids_[p])}) = 1
    <3>1. IsFiniteSet(Residents(b))
      BY FS_Subset, DynamicAssumption DEF Residents
    <3>2. InOne(Spots(chan, out, b), Residents(b))
      BY DEF Inv, PlaceOK
    <3>3. Cardinality(Spots(chan, out, b)) + Cardinality(Residents(b)) = 1
      BY <1>3, <3>1, <3>2, InOneSum
    <3> QED
      BY <1>2, <3>3 DEF Residents
  <2>2. ASSUME NEW p \in Proc
        PROVE  /\ \A i \in DOMAIN gids_[p] : lids_[p][gids_[p][i]] = i
               /\ \A b \in DOMAIN lids_[p] : lids_[p][b] \in DOMAIN gids_[p] /\ gids_[p][lids_[p][b]] = b
    BY DEF Inv, TablesOK, Tables
  <2> QED
    BY <2>1, <2>2 DEF InOnePlace
<1>5. ProcessedOnce
  <2>1. ASSUME NEW b \in Block
        PROVE  processed[b] + Cardinality(Moving(b)) + Cardinality(Free(b)) + Cardinality({p \in Proc : Planned(p, b)})
                 + Cardinality({p \in Proc : work[p].gid = b}) = 1
    <3>1. IsFiniteSet(Planning(b)) /\ IsFiniteSet(Working(b))
      BY FS_Subset, DynamicAssumption DEF Planning, Working
    <3>2. IsFiniteSet(FreeIn(free_blocks, b))
      <4>1. FreeIn(free_blocks, b) \subseteq Proc \X FreeBlock
        BY DEF FreeIn, Inv, AuxTypeOK
      <4>2. IsFiniteSet(Proc \X FreeBlock)
        BY FreeFinite, FS_Product, DynamicAssumption
      <4> QED
        BY <4>1, <4>2, FS_Subset
    <3>3. OnceIn(processed[b], Spots(chan, out, b), FreeIn(free_blocks, b), Planning(b), Working(b))
      BY DEF Inv, OnceOK
    <3>4. processed[b] \in Nat
      BY DEF Inv, ThreadsTypeOK
    <3>5. processed[b] + Cardinality(Spots(chan, out, b)) + Cardinality(FreeIn(free_blocks, b)) + Cardinality(Planning(b))
            + Cardinality(Working(b)) = 1
      BY <1>3, <3>1, <3>2, <3>3, <3>4, OnceSum
    <3>6. Free(b) = FreeIn(free_blocks, b)
      BY DEF Free, FreeIn
    <3> QED
      BY <1>2, <3>5, <3>6 DEF Planning, Working
  <2>2. ASSUME NEW b \in Block, NEW p \in Proc, Planned(p, b) \/ work[p].gid = b \/ \E f \in free_blocks[p] : f.gid = b
        PROVE  b \in ToSet(gids_[p]) /\ incoming_[p][b] > 0
    BY <2>2 DEF Inv, HereOK, HasFree
  <2> QED
    BY <2>1, <2>2 DEF ProcessedOnce
<1>6. Accompanied
  BY DEF Inv, CarriedOK, Carried, Loaded, Line, FromTo, Accompanied
<1> QED
  BY <1>4, <1>5, <1>6 DEF Inv, DynamicInv, DynamicTypeOK

\* A rank that has come to the end: nothing is under way or free any more, and
\* the map has every block's rank.
LEMMA InvFixed ==
  ASSUME Inv
  PROVE  FixedAtEnd
<1> SUFFICES ASSUME NEW p \in Proc, mpc[p] = "end"
             PROVE  /\ \A b \in Block : processed[b] = 1 \/ \E q \in Proc : work[q].gid = b
                    /\ \A b \in ToSet(gids_[p]) :
                         /\ \A n \in Neighbor[b] : n \in ToSet(gids_[link[b][n]])
                         /\ \A e \in DOMAIN outgoing_[p] : e[1] = b => e[2] \in ToSet(gids_[outgoing_[p][e]])
  BY DEF FixedAtEnd
<1>1. /\ \A q \in Proc : done[q] /\ ~InCallback(q)
      /\ \A x \in Proc \X Proc : chan[x] = <<>>
  BY DEF Inv, Over, Gone
<1>2. \A q \in Proc : free_blocks[q] = {} /\ out[q] = [r \in Proc |-> <<>>]
  BY <1>1 DEF Inv, InHand
<1>3. \A b : Spots(chan, out, b) = {}
  <2>1. chan \in Chan /\ out \in Out
    BY DEF Inv, AuxTypeOK, Chan, Out, Aux
  <2>2. \A q, r \in Proc : out[q][r] = <<>>
    BY <1>2
  <2> QED
    BY <1>1, <2>1, <2>2, NoSpots
<1>4. ASSUME NEW b \in Block PROVE processed[b] = 1 \/ \E q \in Proc : work[q].gid = b
  <2>1. OnceIn(processed[b], Spots(chan, out, b), FreeIn(free_blocks, b), Planning(b), Working(b))
    BY DEF Inv, OnceOK
  <2>2. FreeIn(free_blocks, b) = {}
    BY <1>2, FreeMember
  <2>3. Planning(b) = {}
    BY <1>1 DEF Planning, Planned, InCallback
  <2>4. processed[b] = 1 \/ Working(b) # {}
    BY <1>3, <2>1, <2>2, <2>3 DEF OnceIn, Sole
  <2> QED
    BY <2>4 DEF Working
<1>5. ASSUME NEW n \in Block PROVE n \in ToSet(gids_[rank_map_[n]])
  <2>1. InOne(Spots(chan, out, n), Residents(n))
    BY DEF Inv, PlaceOK
  <2>2. Residents(n) # {}
    BY <1>3, <2>1 DEF InOne, Sole
  <2>3. PICK q \in Proc : n \in ToSet(gids_[q])
    BY <2>2 DEF Residents
  <2>4. mpc[q] \in {"barrier", "join", "end"}
    BY DEF Inv, Resolved
  <2>5. rank_map_[n] = q
    BY <2>3, <2>4 DEF Inv, Resolved
  <2> QED
    BY <2>3, <2>5
<1>6. ASSUME NEW b \in ToSet(gids_[p]), NEW n \in Neighbor[b] PROVE n \in ToSet(gids_[link[b][n]])
  <2>1. b \in Block
    BY ToSetOf DEF Inv, MasterTypeOK
  <2>2. n \in Block
    BY <2>1, DynamicAssumption
  <2>3. link[b][n] = rank_map_[n]
    BY DEF Inv, Resolved
  <2> QED
    BY <1>5, <2>2, <2>3
<1>7. ASSUME NEW e \in DOMAIN outgoing_[p], e[1] \in ToSet(gids_[p]) PROVE e[2] \in ToSet(gids_[outgoing_[p][e]])
  <2>1. e \in Block \X Block
    BY DEF Inv, MasterTypeOK
  <2>2. outgoing_[p][e] = rank_map_[e[2]]
    BY <1>7 DEF Inv, Resolved
  <2> QED
    BY <1>5, <2>1, <2>2
<1> QED
  BY <1>4, <1>6, <1>7

\* The inductive invariant in the form that the steps preserve.
THEOREM Invariance == Spec => []Inv
<1>1. Init => Inv
  BY InitInv
<1>2. Inv /\ [Next]_vars => Inv'
  BY NextInv
<1> QED
  BY <1>1, <1>2, PTL DEF Spec

\* The inductive invariant that the run checks.
THEOREM DynamicInvariant == Spec => []DynamicInv
<1>1. Inv => DynamicInv
  BY InvImplies
<1> QED
  BY <1>1, Invariance, PTL

\* The types of the two threads' shared state and of the messages.
THEOREM DynamicTypes == Spec => []DynamicTypeOK
<1>1. DynamicInv => DynamicTypeOK
  BY DEF DynamicInv
<1> QED
  BY <1>1, DynamicInvariant, PTL

\* Whatever is moved while the work thread runs, a block is in one Master or in
\* one message, and add and release keep the Master's tables each other's inverse.
THEOREM DynamicInOnePlace == Spec => []InOnePlace
<1>1. DynamicInv => InOnePlace
  BY DEF DynamicInv
<1> QED
  BY <1>1, DynamicInvariant, PTL

\* No block is run twice and none is forgotten, whichever thread takes it from
\* the free blocks, and it is free or held where it is, with its incoming queues.
THEOREM DynamicProcessedOnce == Spec => []ProcessedOnce
<1>1. DynamicInv => ProcessedOnce
  BY DEF DynamicInv
<1> QED
  BY <1>1, DynamicInvariant, PTL

\* The work thread gets its own block by its lid, unless the calling thread has
\* released another one since it looked the lid up.
THEOREM DynamicLooksUpItsOwn == Spec => []LooksUpItsOwn
<1>1. DynamicInv => LooksUpItsOwn
  BY DEF DynamicInv
<1> QED
  BY <1>1, DynamicInvariant, PTL

\* When dynamic_foreach returns on a rank, all blocks have run, and the links and
\* outgoing queues there name the ranks on which the blocks are.
THEOREM DynamicFixedAtEnd == Spec => []FixedAtEnd
<1>1. Inv => FixedAtEnd
  BY InvFixed
<1> QED
  BY <1>1, Invariance, PTL
=============================================================================
