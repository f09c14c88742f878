-------------------------- MODULE OutOfCoreProofs --------------------------
(***************************************************************************)
(* Proofs about module OutOfCore: the limit on the blocks in memory, types *)
(* in memory and in files, the files of the storage, and that OutOfCore    *)
(* implements InCore, for any blocks, links, calls, threads and limits.    *)
(* The last two hold where no large queue takes one of the two ways on     *)
(* which the code leaves it in its file (FewLarge).                        *)
(***************************************************************************)
EXTENDS OutOfCore, FiniteSetTheorems, FunctionTheorems, WellFoundedInduction, TLAPS

-----------------------------------------------------------------------------
(***************************************************************************)
(* The storage.                                                            *)
(***************************************************************************)
LEMMA LinksFinite == IsFiniteSet(Link) /\ IsFiniteSet(FromHere) /\ IsFiniteSet(ToHere)
<1>1. IsFiniteSet(Block \cup Away)
  BY OutOfCoreAssumption, FS_Union
<1>2. IsFiniteSet((Block \cup Away) \X (Block \cup Away))
  BY <1>1, FS_Product
<1>3. IsFiniteSet(Link)
  BY <1>2, OutOfCoreAssumption, FS_Subset
<1>4. FromHere \subseteq Link /\ ToHere \subseteq Link
  BY DEF FromHere, ToHere
<1> QED
  BY <1>3, <1>4, FS_Subset

\* There are enough numbers for new files.
LEMMA NewFilesFresh ==
  ASSUME IsFiniteSet(DOMAIN files), NEW S, IsFiniteSet(S)
  PROVE  /\ NewFiles(S) \in [S -> Nat \ {0}]
         /\ \A x \in S : NewFiles(S)[x] \notin DOMAIN files
         /\ \A x, y \in S : NewFiles(S)[x] = NewFiles(S)[y] => x = y
<1> DEFINE F == DOMAIN files
           m == Cardinality(S)
           n == Cardinality(F)
           D == 1..(n + m)
           free == D \ F
           k == Cardinality(free)
<1>1. m \in Nat /\ n \in Nat /\ ExistsBijection(1..m, S)
  BY FS_CardinalityType
<1>2. IsFiniteSet(D) /\ Cardinality(D) = n + m
  <2>1. \A i \in Nat : IsFiniteSet(1..i) /\ Cardinality(1..i) = i
    BY FS_Interval
  <2>2. n + m \in Nat
    BY <1>1
  <2> HIDE DEF n, m
  <2> QED
    BY <2>1, <2>2
<1>3. D \subseteq Nat \ {0}
  BY <1>1
<1> HIDE DEF D
<1>4. Cardinality(D \cap F) <= n /\ IsFiniteSet(D \cap F)
  BY FS_Intersection, <1>1
<1>5. IsFiniteSet(free) /\ k = Cardinality(D) - Cardinality(D \cap F)
  BY <1>2, FS_Difference
<1>6. k \in Nat /\ ExistsBijection(1..k, free)
  BY <1>5, FS_CardinalityType
<1>7. Cardinality(D \cap F) \in Nat
  BY <1>4, FS_CardinalityType
<1>8. m <= k
  <2> HIDE DEF k, m, n, F
  <2> QED
    BY <1>1, <1>2, <1>4, <1>5, <1>6, <1>7
<1>9. ExistsInjection(S, 1..m)
  <2>1. ExistsBijection(S, 1..m)
    BY <1>1, Fun_ExistsBijSymmetric
  <2> QED
    BY <2>1 DEF ExistsBijection, ExistsInjection, Bijection
<1>10. ExistsInjection(1..m, 1..k)
  <2>1. [i \in 1..m |-> i] \in Injection(1..m, 1..k)
    <3>1. [i \in 1..m |-> i] \in [1..m -> 1..k]
      BY <1>1, <1>6, <1>8
    <3> QED
      BY <3>1, Fun_IsInj
  <2> QED
    BY <2>1 DEF ExistsInjection
<1>11. ExistsInjection(1..k, free)
  BY <1>6 DEF ExistsBijection, ExistsInjection, Bijection
<1>12. ExistsInjection(S, free)
  BY <1>9, <1>10, <1>11, Fun_ExistsInjTransitive
<1>13. \E f \in [S -> free] : IsInjective(f)
  BY <1>12 DEF ExistsInjection, Injection
<1>14. NewFiles(S) \in [S -> free] /\ IsInjective(NewFiles(S))
  BY <1>13 DEF NewFiles, D
<1>15. free \subseteq Nat \ {0} /\ free \cap DOMAIN files = {}
  BY <1>3
<1> HIDE DEF free
<1> QED
  BY <1>14, <1>15 DEF IsInjective

\* What can be in a file, and what of it is in memory.
AllPlaces == UNION {Places(b) : b \in Block}
Mem(x) == IF x[1] = "block" THEN elements_[x[2]] ELSE RecordAt(x).buffer_

LEMMA PlaceForms ==
  ASSUME NEW x
  PROVE  x \in AllPlaces <=> \/ \E b \in Block : x = <<"block", b>>
                             \/ \E l \in FromHere : x = <<"out", l>>
                             \/ \E k \in 0..Rounds, l \in ToHere : x = <<"in", k, l>>
BY DEF AllPlaces, Places, FromHere, ToHere, In, Out

LEMMA BlockPlace ==
  ASSUME NEW b \in Block
  PROVE  /\ <<"block", b>> \in AllPlaces /\ <<"block", b>>[1] = "block"
         /\ FileOf(<<"block", b>>) = external_[b] /\ Mem(<<"block", b>>) = elements_[b]
BY DEF AllPlaces, Places, FileOf, Mem

LEMMA OutPlace ==
  ASSUME NEW l \in FromHere
  PROVE  /\ <<"out", l>> \in AllPlaces /\ <<"out", l>>[1] # "block" /\ RecordAt(<<"out", l>>) = outgoing_[l]
         /\ FileOf(<<"out", l>>) = outgoing_[l].external_ /\ Mem(<<"out", l>>) = outgoing_[l].buffer_
BY PlaceForms DEF FileOf, Mem, RecordAt

LEMMA InPlace ==
  ASSUME NEW k \in 0..Rounds, NEW l \in ToHere
  PROVE  /\ <<"in", k, l>> \in AllPlaces /\ <<"in", k, l>>[1] # "block" /\ RecordAt(<<"in", k, l>>) = incoming_[k][l]
         /\ FileOf(<<"in", k, l>>) = incoming_[k][l].external_ /\ Mem(<<"in", k, l>>) = incoming_[k][l].buffer_
BY PlaceForms DEF FileOf, Mem, RecordAt

\* Two places are the same only if their parts are.
LEMMA PlacesDiffer ==
  /\ \A b, l : <<"block", b>> # <<"out", l>>
  /\ \A b, k, l : <<"block", b>> # <<"in", k, l>>
  /\ \A m, k, l : <<"out", m>> # <<"in", k, l>>
  /\ \A b, c : <<"block", b>> = <<"block", c>> => b = c
  /\ \A b, c : <<"out", b>> = <<"out", c>> => b = c
  /\ \A b, c, k, l : <<"in", k, b>> = <<"in", l, c>> => k = l /\ b = c
<1>1. \A b, l : <<"block", b>>[1] # <<"out", l>>[1]
  OBVIOUS
<1>2. \A b, k, l : <<"block", b>>[1] # <<"in", k, l>>[1]
  OBVIOUS
<1>3. \A m, k, l : <<"out", m>>[1] # <<"in", k, l>>[1]
  OBVIOUS
<1> QED
  BY <1>1, <1>2, <1>3

Domains == /\ DOMAIN elements_ = Block /\ DOMAIN external_ = Block
           /\ DOMAIN outgoing_ = FromHere /\ DOMAIN incoming_ = 0..Rounds
           /\ \A k \in 0..Rounds : DOMAIN incoming_[k] = ToHere

\* What is written to files: each of the places gets a new file of its own.
LEMMA PutEffect ==
  ASSUME IsFiniteSet(DOMAIN files), NEW S \in SUBSET AllPlaces, IsFiniteSet(S), Put(S)
  PROVE  /\ Domains'
         /\ \A x \in AllPlaces \ S : /\ FileOf(x)' = FileOf(x) /\ Mem(x)' = Mem(x)
                                     /\ x[1] # "block" => RecordAt(x)' = RecordAt(x)
         /\ \A x \in S : /\ FileOf(x)' \in Nat \ {0} /\ FileOf(x)' \notin DOMAIN files
                         /\ files'[FileOf(x)'] = Mem(x)
                         /\ Mem(x)' = IF x[1] = "block" THEN Absent ELSE <<>>
                         /\ x[1] # "block" => RecordAt(x)' = Unloaded(RecordAt(x), FileOf(x)')
         /\ \A x, y \in S : FileOf(x)' = FileOf(y)' => x = y
         /\ DOMAIN files' = DOMAIN files \cup {FileOf(x)' : x \in S}
         /\ \A n \in DOMAIN files : files'[n] = files[n]
<1> DEFINE f == NewFiles(S)
           Body(x) == IF x[1] = "block" THEN elements_[x[2]] ELSE RecordAt(x).buffer_
<1>1. /\ f \in [S -> Nat \ {0}]
      /\ \A x \in S : f[x] \notin DOMAIN files
      /\ \A x, y \in S : f[x] = f[y] => x = y
  BY NewFilesFresh
<1>2. /\ files' = [n \in DOMAIN files \cup {f[x] : x \in S} |->
                     IF n \in DOMAIN files THEN files[n] ELSE Body(CHOOSE x \in S : f[x] = n)]
      /\ elements_' = [b \in Block |-> IF <<"block", b>> \in S THEN Absent ELSE elements_[b]]
      /\ external_' = [b \in Block |-> IF <<"block", b>> \in S THEN f[<<"block", b>>] ELSE external_[b]]
      /\ outgoing_' = [l \in FromHere |->
           IF <<"out", l>> \in S THEN Unloaded(outgoing_[l], f[<<"out", l>>]) ELSE outgoing_[l]]
      /\ incoming_' = [k \in 0..Rounds |-> [l \in ToHere |->
           IF <<"in", k, l>> \in S THEN Unloaded(incoming_[k][l], f[<<"in", k, l>>]) ELSE incoming_[k][l]]]
  BY DEF Put
<1> HIDE DEF f
<1>3. \A b \in Block : /\ <<"block", b>> \notin S => elements_'[b] = elements_[b] /\ external_'[b] = external_[b]
                       /\ <<"block", b>> \in S => elements_'[b] = Absent /\ external_'[b] = f[<<"block", b>>]
  BY <1>2
<1>4. \A l \in FromHere : /\ <<"out", l>> \notin S => outgoing_'[l] = outgoing_[l]
                          /\ <<"out", l>> \in S => outgoing_'[l] = Unloaded(outgoing_[l], f[<<"out", l>>])
  BY <1>2
<1>5. \A k \in 0..Rounds, l \in ToHere :
        /\ <<"in", k, l>> \notin S => incoming_'[k][l] = incoming_[k][l]
        /\ <<"in", k, l>> \in S => incoming_'[k][l] = Unloaded(incoming_[k][l], f[<<"in", k, l>>])
  BY <1>2
<1>6. \A x \in AllPlaces \ S : /\ FileOf(x)' = FileOf(x) /\ Mem(x)' = Mem(x)
                               /\ x[1] # "block" => RecordAt(x)' = RecordAt(x)
  <2> SUFFICES ASSUME NEW x \in AllPlaces \ S
               PROVE  /\ FileOf(x)' = FileOf(x) /\ Mem(x)' = Mem(x)
                      /\ x[1] # "block" => RecordAt(x)' = RecordAt(x)
    OBVIOUS
  <2>1. CASE \E b \in Block : x = <<"block", b>>
    BY <2>1, <1>3 DEF FileOf, Mem
  <2>2. CASE \E l \in FromHere : x = <<"out", l>>
    BY <2>2, <1>4 DEF FileOf, Mem, RecordAt
  <2>3. CASE \E k \in 0..Rounds, l \in ToHere : x = <<"in", k, l>>
    BY <2>3, <1>5 DEF FileOf, Mem, RecordAt
  <2> QED
    BY <2>1, <2>2, <2>3, PlaceForms
<1>7. \A x \in S : /\ FileOf(x)' = f[x]
                   /\ Mem(x)' = IF x[1] = "block" THEN Absent ELSE <<>>
                   /\ x[1] # "block" => RecordAt(x)' = Unloaded(RecordAt(x), f[x])
  <2> SUFFICES ASSUME NEW x \in S
               PROVE  /\ FileOf(x)' = f[x]
                      /\ Mem(x)' = IF x[1] = "block" THEN Absent ELSE <<>>
                      /\ x[1] # "block" => RecordAt(x)' = Unloaded(RecordAt(x), f[x])
    OBVIOUS
  <2>1. CASE \E b \in Block : x = <<"block", b>>
    BY <2>1, <1>3 DEF FileOf, Mem
  <2>2. CASE \E l \in FromHere : x = <<"out", l>>
    BY <2>2, <1>4 DEF FileOf, Mem, RecordAt, Unloaded
  <2>3. CASE \E k \in 0..Rounds, l \in ToHere : x = <<"in", k, l>>
    BY <2>3, <1>5 DEF FileOf, Mem, RecordAt, Unloaded
  <2> QED
    BY <2>1, <2>2, <2>3, PlaceForms
<1>8. DOMAIN files' = DOMAIN files \cup {f[x] : x \in S} /\ \A n \in DOMAIN files : files'[n] = files[n]
  BY <1>2
<1>9. \A x \in S : files'[f[x]] = Mem(x)
  <2> SUFFICES ASSUME NEW x \in S PROVE files'[f[x]] = Mem(x)
    OBVIOUS
  <2>1. f[x] \notin DOMAIN files /\ f[x] \in {f[y] : y \in S}
    BY <1>1
  <2>2. (CHOOSE y \in S : f[y] = f[x]) = x
    BY <1>1
  <2>3. files'[f[x]] = Body(CHOOSE y \in S : f[y] = f[x])
    BY <1>2, <2>1
  <2> QED
    BY <2>2, <2>3 DEF Mem
<1>10. Domains'
  BY <1>2 DEF Domains
<1>11. {FileOf(x)' : x \in S} = {f[x] : x \in S}
  BY <1>7
<1> QED
  BY <1>1, <1>6, <1>7, <1>8, <1>9, <1>10, <1>11

\* What is read from files, which are removed.
LEMMA GetEffect ==
  ASSUME NEW S \in SUBSET Outside, Get(S)
  PROVE  /\ Domains'
         /\ \A x \in AllPlaces \ S : /\ FileOf(x)' = FileOf(x) /\ Mem(x)' = Mem(x)
                                     /\ x[1] # "block" => RecordAt(x)' = RecordAt(x)
         /\ \A x \in S : /\ FileOf(x)' = None /\ Mem(x)' = files[FileOf(x)]
                         /\ x[1] # "block" => RecordAt(x)' = QueueRecord(files[FileOf(x)])
         /\ DOMAIN files' = DOMAIN files \ {FileOf(x) : x \in S}
         /\ \A n \in DOMAIN files' : files'[n] = files[n]
<1> DEFINE f == [x \in S |-> IF x[1] = "block" THEN external_[x[2]] ELSE RecordAt(x).external_]
<1>1. /\ files' = [n \in DOMAIN files \ {f[x] : x \in S} |-> files[n]]
      /\ elements_' = [b \in Block |-> IF <<"block", b>> \in S THEN files[external_[b]] ELSE elements_[b]]
      /\ external_' = [b \in Block |-> IF <<"block", b>> \in S THEN None ELSE external_[b]]
      /\ outgoing_' = [l \in FromHere |-> IF <<"out", l>> \in S THEN Loaded(outgoing_[l]) ELSE outgoing_[l]]
      /\ incoming_' = [k \in 0..Rounds |-> [l \in ToHere |->
           IF <<"in", k, l>> \in S THEN Loaded(incoming_[k][l]) ELSE incoming_[k][l]]]
  BY DEF Get
<1>2. \A x \in S : f[x] = FileOf(x)
  BY DEF FileOf
<1> HIDE DEF f
<1>3. \A b \in Block : /\ <<"block", b>> \notin S => elements_'[b] = elements_[b] /\ external_'[b] = external_[b]
                       /\ <<"block", b>> \in S => elements_'[b] = files[external_[b]] /\ external_'[b] = None
  BY <1>1
<1>4. \A l \in FromHere : /\ <<"out", l>> \notin S => outgoing_'[l] = outgoing_[l]
                          /\ <<"out", l>> \in S => outgoing_'[l] = QueueRecord(files[outgoing_[l].external_])
  BY <1>1 DEF Loaded
<1>5. \A k \in 0..Rounds, l \in ToHere :
        /\ <<"in", k, l>> \notin S => incoming_'[k][l] = incoming_[k][l]
        /\ <<"in", k, l>> \in S => incoming_'[k][l] = QueueRecord(files[incoming_[k][l].external_])
  BY <1>1 DEF Loaded
<1>6. \A x \in AllPlaces \ S : /\ FileOf(x)' = FileOf(x) /\ Mem(x)' = Mem(x)
                               /\ x[1] # "block" => RecordAt(x)' = RecordAt(x)
  <2> SUFFICES ASSUME NEW x \in AllPlaces \ S
               PROVE  /\ FileOf(x)' = FileOf(x) /\ Mem(x)' = Mem(x)
                      /\ x[1] # "block" => RecordAt(x)' = RecordAt(x)
    OBVIOUS
  <2>1. CASE \E b \in Block : x = <<"block", b>>
    BY <2>1, <1>3 DEF FileOf, Mem
  <2>2. CASE \E l \in FromHere : x = <<"out", l>>
    BY <2>2, <1>4 DEF FileOf, Mem, RecordAt
  <2>3. CASE \E k \in 0..Rounds, l \in ToHere : x = <<"in", k, l>>
    BY <2>3, <1>5 DEF FileOf, Mem, RecordAt
  <2> QED
    BY <2>1, <2>2, <2>3, PlaceForms
<1>7. \A x \in S : /\ FileOf(x)' = None /\ Mem(x)' = files[FileOf(x)]
                   /\ x[1] # "block" => RecordAt(x)' = QueueRecord(files[FileOf(x)])
  <2> SUFFICES ASSUME NEW x \in S
               PROVE  /\ FileOf(x)' = None /\ Mem(x)' = files[FileOf(x)]
                      /\ x[1] # "block" => RecordAt(x)' = QueueRecord(files[FileOf(x)])
    OBVIOUS
  <2>1. CASE \E b \in Block : x = <<"block", b>>
    BY <2>1, <1>3 DEF FileOf, Mem
  <2>2. CASE \E l \in FromHere : x = <<"out", l>>
    BY <2>2, <1>4 DEF FileOf, Mem, RecordAt, QueueRecord
  <2>3. CASE \E k \in 0..Rounds, l \in ToHere : x = <<"in", k, l>>
    BY <2>3, <1>5 DEF FileOf, Mem, RecordAt, QueueRecord
  <2>4. x \in AllPlaces
    BY DEF Outside, AllPlaces
  <2> QED
    BY <2>1, <2>2, <2>3, <2>4, PlaceForms
<1>8. {FileOf(x) : x \in S} = {f[x] : x \in S}
  BY <1>2
<1>9. DOMAIN files' = DOMAIN files \ {f[x] : x \in S} /\ \A n \in DOMAIN files' : files'[n] = files[n]
  BY <1>1
<1>10. Domains'
  BY <1>1 DEF Domains
<1> QED
  BY <1>6, <1>7, <1>8, <1>9, <1>10

LEMMA OutsidePlaces == Outside = {x \in AllPlaces : FileOf(x) # None}
BY DEF Outside, AllPlaces

LEMMA OutsideNext == Outside' = {x \in AllPlaces : FileOf(x)' # None}
BY DEF Outside, AllPlaces, Places, In, Out

LEMMA PutStorage ==
  ASSUME StorageInv, NEW S \in SUBSET AllPlaces, IsFiniteSet(S), Put(S)
  PROVE  StorageInv'
<1> DEFINE F == DOMAIN files
<1>1. /\ IsFiniteSet(F) /\ None \notin F
      /\ \A x \in Outside : FileOf(x) \in F
      /\ \A x, y \in Outside : FileOf(x) = FileOf(y) => x = y
      /\ \A x \in Outside : x[1] # "block" => RecordAt(x).size_ = Len(files[FileOf(x)])
  BY DEF StorageInv
<1>2. /\ \A x \in AllPlaces \ S : FileOf(x)' = FileOf(x) /\ (x[1] # "block" => RecordAt(x)' = RecordAt(x))
      /\ \A x \in S : /\ FileOf(x)' \in Nat \ {0} /\ FileOf(x)' \notin F
                      /\ files'[FileOf(x)'] = Mem(x)
                      /\ x[1] # "block" => RecordAt(x)' = Unloaded(RecordAt(x), FileOf(x)')
      /\ \A x, y \in S : FileOf(x)' = FileOf(y)' => x = y
      /\ DOMAIN files' = F \cup {FileOf(x)' : x \in S}
      /\ \A n \in F : files'[n] = files[n]
  BY <1>1, PutEffect
<1>3. Outside' = {x \in AllPlaces : FileOf(x)' # None}
  BY OutsideNext
<1>4. IsFiniteSet((DOMAIN files)') /\ None \notin (DOMAIN files)'
  <2>1. IsFiniteSet({FileOf(x)' : x \in S})
    <3> DEFINE g == [x \in S |-> FileOf(x)']
    <3>1. g \in [S -> Range(g)]
      BY DEF Range
    <3>2. g \in Surjection(S, Range(g))
      BY <3>1, Fun_RangeProperties
    <3>3. IsFiniteSet(Range(g))
      <4> HIDE DEF g
      <4> QED
        BY <3>2, FS_Surjection
    <3>4. Range(g) = {FileOf(x)' : x \in S}
      BY DEF Range
    <3> QED
      BY <3>3, <3>4, Zenon
  <2>2. IsFiniteSet(F \cup {FileOf(x)' : x \in S})
    BY <2>1, <1>1, FS_Union
  <2> QED
    BY <2>2, <1>1, <1>2 DEF None
<1>5. \A x \in Outside' : (FileOf(x) \in DOMAIN files)'
  BY <1>1, <1>2, <1>3, OutsidePlaces
<1>6. \A x, y \in Outside' : FileOf(x)' = FileOf(y)' => x = y
  BY <1>1, <1>2, <1>3, OutsidePlaces
<1>7. \A x \in Outside' : x[1] # "block" => RecordAt(x)'.size_ = Len(files'[FileOf(x)'])
  <2> SUFFICES ASSUME NEW x \in Outside', x[1] # "block"
               PROVE  RecordAt(x)'.size_ = Len(files'[FileOf(x)'])
    OBVIOUS
  <2>1. CASE x \in S
    BY <2>1, <1>2 DEF Mem, Unloaded
  <2>2. CASE x \notin S
    BY <2>2, <1>1, <1>2, <1>3, OutsidePlaces
  <2> QED
    BY <2>1, <2>2
<1> QED
  BY <1>4, <1>5, <1>6, <1>7 DEF StorageInv

LEMMA GetStorage ==
  ASSUME StorageInv, NEW S \in SUBSET Outside, Get(S)
  PROVE  StorageInv'
<1> DEFINE F == DOMAIN files
<1>1. /\ IsFiniteSet(F) /\ None \notin F
      /\ \A x \in Outside : FileOf(x) \in F
      /\ \A x, y \in Outside : FileOf(x) = FileOf(y) => x = y
      /\ \A x \in Outside : x[1] # "block" => RecordAt(x).size_ = Len(files[FileOf(x)])
  BY DEF StorageInv
<1>2. /\ \A x \in AllPlaces \ S : FileOf(x)' = FileOf(x) /\ (x[1] # "block" => RecordAt(x)' = RecordAt(x))
      /\ \A x \in S : FileOf(x)' = None
      /\ DOMAIN files' = F \ {FileOf(x) : x \in S}
      /\ \A n \in DOMAIN files' : files'[n] = files[n]
  BY GetEffect
<1>3. Outside' = {x \in AllPlaces : FileOf(x)' # None}
  BY OutsideNext
<1>4. Outside' = Outside \ S
  BY <1>2, <1>3, OutsidePlaces
<1>5. IsFiniteSet((DOMAIN files)') /\ None \notin (DOMAIN files)'
  <2> DEFINE G == {FileOf(x) : x \in S}
  <2>1. IsFiniteSet(F \ G)
    BY <1>1, FS_Difference
  <2>2. (DOMAIN files)' = F \ G
    BY <1>2
  <2> QED
    BY <2>1, <2>2, <1>1, Zenon
<1>6. \A x \in Outside' : FileOf(x)' = FileOf(x) /\ FileOf(x) \in DOMAIN files'
  BY <1>1, <1>2, <1>4, OutsidePlaces
<1>7. \A x \in Outside' : x[1] # "block" => RecordAt(x)' = RecordAt(x)
  BY <1>2, <1>4, OutsidePlaces
<1> QED
  BY <1>1, <1>2, <1>4, <1>5, <1>6, <1>7 DEF StorageInv

\* Whether a block is in memory, afterwards.
LEMMA PutInMemory ==
  ASSUME IsFiniteSet(DOMAIN files), NEW S \in SUBSET AllPlaces, IsFiniteSet(S), Put(S)
  PROVE  \A b \in Block : InMemory(b)' <=> InMemory(b) /\ <<"block", b>> \notin S
<1> SUFFICES ASSUME NEW b \in Block PROVE InMemory(b)' <=> InMemory(b) /\ <<"block", b>> \notin S
  OBVIOUS
<1>1. Mem(<<"block", b>>)' = IF <<"block", b>> \in S THEN Absent ELSE Mem(<<"block", b>>)
  BY PutEffect, BlockPlace
<1>2. Mem(<<"block", b>>) = elements_[b] /\ Mem(<<"block", b>>)' = elements_'[b]
  BY DEF Mem
<1> QED
  BY <1>1, <1>2 DEF InMemory

LEMMA GetInMemory ==
  ASSUME StorageInv, BlocksInv, NEW S \in SUBSET Outside, Get(S)
  PROVE  \A b \in Block : InMemory(b)' <=> InMemory(b) \/ <<"block", b>> \in S
<1> SUFFICES ASSUME NEW b \in Block PROVE InMemory(b)' <=> InMemory(b) \/ <<"block", b>> \in S
  OBVIOUS
<1>1. Mem(<<"block", b>>) = elements_[b] /\ Mem(<<"block", b>>)' = elements_'[b]
  BY DEF Mem
<1>2. CASE <<"block", b>> \notin S
  BY <1>1, <1>2, GetEffect, BlockPlace DEF InMemory
<1>3. CASE <<"block", b>> \in S
  <2>1. external_[b] # None /\ elements_'[b] = files[external_[b]]
    <3> DEFINE x == <<"block", b>>
    <3>1. x \in Outside /\ FileOf(x) = external_[b]
      BY <1>3, BlockPlace
    <3>2. \A y \in S : Mem(y)' = files[FileOf(y)]
      BY GetEffect
    <3>3. Mem(x)' = files[FileOf(x)]
      BY <1>3, <3>2
    <3>4. FileOf(x) # None
      BY <3>1, OutsidePlaces
    <3> QED
      BY <1>1, <3>1, <3>3, <3>4
  <2>2. elements_'[b].runs \in Nat
    BY <2>1 DEF BlocksInv
  <2> QED
    BY <1>3, <2>2 DEF InMemory, Absent
<1> QED
  BY <1>2, <1>3

LEMMA PutBlocks ==
  ASSUME StorageInv, BlocksInv, NEW S \in SUBSET AllPlaces, IsFiniteSet(S), Put(S), phase' = phase,
         \A b \in Block : <<"block", b>> \in S => InMemory(b)
  PROVE  BlocksInv'
<1> SUFFICES ASSUME NEW b \in Block
             PROVE  /\ elements_'[b] = Absent \/ elements_'[b].runs \in Nat
                    /\ external_'[b] # None => ~InMemory(b)' /\ files'[external_'[b]].runs \in Nat
                    /\ phase' # "add" => Added(b)'
  BY DEF BlocksInv
<1>1. /\ Mem(<<"block", b>>) = elements_[b] /\ Mem(<<"block", b>>)' = elements_'[b]
      /\ FileOf(<<"block", b>>) = external_[b] /\ FileOf(<<"block", b>>)' = external_'[b]
      /\ <<"block", b>>[1] = "block"
  BY DEF Mem, FileOf
<1>2. IsFiniteSet(DOMAIN files)
  BY DEF StorageInv
<1>3. CASE <<"block", b>> \notin S
  <2>1. elements_'[b] = elements_[b] /\ external_'[b] = external_[b]
    BY <1>1, <1>2, <1>3, PutEffect, BlockPlace
  <2>2. external_[b] # None => files'[external_[b]] = files[external_[b]]
    <3>1. external_[b] # None => external_[b] \in DOMAIN files
      BY BlockPlace, OutsidePlaces DEF StorageInv
    <3> QED
      BY <3>1, <1>2, PutEffect
  <2> QED
    BY <2>1, <2>2 DEF BlocksInv, InMemory, Added
<1>4. CASE <<"block", b>> \in S
  <2>1. /\ elements_'[b] = Absent /\ external_'[b] \in Nat \ {0}
        /\ files'[external_'[b]] = elements_[b]
    <3>1. \A x \in S : /\ FileOf(x)' \in Nat \ {0} /\ files'[FileOf(x)'] = Mem(x)
                       /\ Mem(x)' = IF x[1] = "block" THEN Absent ELSE <<>>
      BY <1>2, PutEffect
    <3> QED
      BY <1>1, <1>4, <3>1
  <2>2. elements_[b].runs \in Nat
    BY <1>4 DEF BlocksInv, InMemory
  <2> QED
    BY <2>1, <2>2 DEF InMemory, Added, None
<1> QED
  BY <1>3, <1>4

LEMMA GetBlocks ==
  ASSUME StorageInv, BlocksInv, NEW S \in SUBSET Outside, Get(S), phase' = phase
  PROVE  BlocksInv'
<1> SUFFICES ASSUME NEW b \in Block
             PROVE  /\ elements_'[b] = Absent \/ elements_'[b].runs \in Nat
                    /\ external_'[b] # None => ~InMemory(b)' /\ files'[external_'[b]].runs \in Nat
                    /\ phase' # "add" => Added(b)'
  BY DEF BlocksInv
<1>1. /\ Mem(<<"block", b>>) = elements_[b] /\ Mem(<<"block", b>>)' = elements_'[b]
      /\ FileOf(<<"block", b>>) = external_[b] /\ FileOf(<<"block", b>>)' = external_'[b]
  BY DEF Mem, FileOf
<1>2. CASE <<"block", b>> \notin S
  <2>1. elements_'[b] = elements_[b] /\ external_'[b] = external_[b]
    BY <1>1, <1>2, GetEffect, BlockPlace
  <2>2. external_'[b] # None => files'[external_'[b]] = files[external_[b]]
    <3>1. external_'[b] # None => external_'[b] \in (DOMAIN files)'
      <4>1. StorageInv'
        BY GetStorage
      <4>2. external_'[b] # None => <<"block", b>> \in Outside'
        <5>1. Outside' = {x \in AllPlaces : FileOf(x)' # None}
          BY OutsideNext
        <5> QED
          BY <5>1, <1>1, BlockPlace
      <4> QED
        BY <4>1, <4>2, <1>1 DEF StorageInv
    <3> QED
      BY <3>1, <2>1, GetEffect
  <2> QED
    BY <2>1, <2>2 DEF BlocksInv, InMemory, Added
<1>3. CASE <<"block", b>> \in S
  <2>1. external_[b] # None /\ elements_'[b] = files[external_[b]] /\ external_'[b] = None
    BY <1>1, <1>3, GetEffect, BlockPlace, OutsidePlaces
  <2>2. elements_'[b].runs \in Nat
    BY <2>1 DEF BlocksInv
  <2>3. InMemory(b)'
    BY <2>2 DEF InMemory, Absent
  <2> QED
    BY <2>1, <2>2, <2>3 DEF Added
<1> QED
  BY <1>2, <1>3

\* What a place holds, in memory or in its file.
Kept(x) == IF FileOf(x) # None THEN files[FileOf(x)] ELSE Mem(x)

\* What is written is kept, unless a part of it was in a file already.
LEMMA PutKeeps ==
  ASSUME StorageInv, NEW S \in SUBSET AllPlaces, IsFiniteSet(S), S \cap Outside = {}, Put(S)
  PROVE  /\ \A x \in AllPlaces : Kept(x)' = Kept(x)
         /\ NoneLost => NoneLost'
<1>1. IsFiniteSet(DOMAIN files) /\ None \notin DOMAIN files /\ \A x \in Outside : FileOf(x) \in DOMAIN files
  BY DEF StorageInv
<1>2. /\ \A x \in AllPlaces \ S : FileOf(x)' = FileOf(x) /\ Mem(x)' = Mem(x)
      /\ \A x \in S : FileOf(x)' \in Nat \ {0} /\ files'[FileOf(x)'] = Mem(x)
      /\ DOMAIN files' = DOMAIN files \cup {FileOf(x)' : x \in S}
      /\ \A n \in DOMAIN files : files'[n] = files[n]
  BY <1>1, PutEffect
<1>3. \A x \in S : Kept(x)' = Kept(x)
  <2>1. \A x \in S : FileOf(x) = None /\ FileOf(x)' # None
    BY <1>2, OutsidePlaces DEF None
  <2> QED
    BY <2>1, <1>2 DEF Kept
<1>4. \A x \in AllPlaces \ S : Kept(x)' = Kept(x)
  <2>1. \A x \in AllPlaces : FileOf(x) # None => FileOf(x) \in DOMAIN files
    BY <1>1, OutsidePlaces
  <2> QED
    BY <2>1, <1>2 DEF Kept
<1>5. ASSUME NoneLost PROVE NoneLost'
  <2> SUFFICES ASSUME NEW n \in DOMAIN files' PROVE \E x \in Outside' : FileOf(x)' = n
    BY DEF NoneLost
  <2>1. CASE n \in DOMAIN files
    <3>1. PICK x \in Outside : FileOf(x) = n
      BY <1>5, <2>1 DEF NoneLost
    <3>2. x \in AllPlaces \ S /\ FileOf(x) # None
      BY OutsidePlaces
    <3> QED
      BY <3>1, <3>2, <1>2, OutsideNext
  <2>2. CASE n \notin DOMAIN files
    <3>1. PICK x \in S : FileOf(x)' = n
      BY <1>2, <2>2
    <3> QED
      BY <3>1, <1>2, OutsideNext DEF None
  <2> QED
    BY <2>1, <2>2
<1> QED
  BY <1>3, <1>4, <1>5

LEMMA GetKeeps ==
  ASSUME StorageInv, NEW S \in SUBSET Outside, Get(S)
  PROVE  /\ \A x \in AllPlaces : Kept(x)' = Kept(x)
         /\ NoneLost => NoneLost'
<1>1. /\ \A x \in Outside : FileOf(x) \in DOMAIN files
      /\ \A x, y \in Outside : FileOf(x) = FileOf(y) => x = y
  BY DEF StorageInv
<1>2. /\ \A x \in AllPlaces \ S : FileOf(x)' = FileOf(x) /\ Mem(x)' = Mem(x)
      /\ \A x \in S : FileOf(x)' = None /\ Mem(x)' = files[FileOf(x)]
      /\ DOMAIN files' = DOMAIN files \ {FileOf(x) : x \in S}
      /\ \A n \in DOMAIN files' : files'[n] = files[n]
  BY GetEffect
<1>3. \A x \in S : Kept(x)' = Kept(x)
  BY <1>2, OutsidePlaces DEF Kept
<1>4. \A x \in AllPlaces \ S : Kept(x)' = Kept(x)
  <2>1. \A x \in AllPlaces \ S : FileOf(x) # None => FileOf(x) \in DOMAIN files'
    BY <1>1, <1>2, OutsidePlaces
  <2> QED
    BY <2>1, <1>2 DEF Kept
<1>5. ASSUME NoneLost PROVE NoneLost'
  <2> SUFFICES ASSUME NEW n \in DOMAIN files' PROVE \E x \in Outside' : FileOf(x)' = n
    BY DEF NoneLost
  <2>1. PICK x \in Outside : FileOf(x) = n
    BY <1>5, <1>2 DEF NoneLost
  <2>2. x \in AllPlaces \ S /\ FileOf(x) # None
    BY <2>1, <1>2, OutsidePlaces
  <2> QED
    BY <2>1, <2>2, <1>2, OutsideNext
<1> QED
  BY <1>3, <1>4, <1>5

-----------------------------------------------------------------------------
(***************************************************************************)
(* What is unloaded and loaded.                                            *)
(***************************************************************************)
LEMMA AllPlacesFinite == IsFiniteSet(AllPlaces)
<1> DEFINE g == [p \in (0..Rounds) \X ToHere |-> <<"in", p[1], p[2]>>]
<1>1. IsFiniteSet({"block"} \X Block) /\ IsFiniteSet({"out"} \X FromHere)
  BY OutOfCoreAssumption, LinksFinite, FS_Singleton, FS_Product
<1>2. IsFiniteSet((0..Rounds) \X ToHere)
  <2>1. \A n \in Nat : IsFiniteSet(0..n)
    BY FS_Interval
  <2>2. IsFiniteSet(0..Rounds)
    BY <2>1, OutOfCoreAssumption
  <2> QED
    BY <2>2, LinksFinite, FS_Product
<1>3. IsFiniteSet(Range(g))
  <2>1. g \in [(0..Rounds) \X ToHere -> Range(g)]
    BY DEF Range
  <2> HIDE DEF g
  <2>2. g \in Surjection((0..Rounds) \X ToHere, Range(g))
    BY <2>1, Fun_RangeProperties
  <2> QED
    BY <1>2, <2>2, FS_Surjection
<1>4. IsFiniteSet(({"block"} \X Block) \cup ({"out"} \X FromHere))
  BY <1>1, FS_Union
<1>5. IsFiniteSet((({"block"} \X Block) \cup ({"out"} \X FromHere)) \cup Range(g))
  BY <1>3, <1>4, FS_Union
<1>6. AllPlaces \subseteq (({"block"} \X Block) \cup ({"out"} \X FromHere)) \cup Range(g)
  <2> SUFFICES ASSUME NEW x \in AllPlaces
               PROVE  x \in (({"block"} \X Block) \cup ({"out"} \X FromHere)) \cup Range(g)
    OBVIOUS
  <2>1. CASE \E b \in Block : x = <<"block", b>>
    BY <2>1
  <2>2. CASE \E l \in FromHere : x = <<"out", l>>
    BY <2>2
  <2>3. CASE \E k \in 0..Rounds, l \in ToHere : x = <<"in", k, l>>
    <3>1. PICK k \in 0..Rounds, l \in ToHere : x = <<"in", k, l>>
      BY <2>3
    <3>2. <<k, l>> \in DOMAIN g /\ g[<<k, l>>] = x
      BY <3>1
    <3> QED
      BY <3>2 DEF Range
  <2> QED
    BY <2>1, <2>2, <2>3, PlaceForms
<1> QED
  BY <1>5, <1>6, FS_Subset

UnloadSet(B) == UNION {LargeQueues(b) \cup {<<"block", b>>} : b \in B}

LEMMA LargePlaces ==
  ASSUME NEW b \in Block
  PROVE  /\ LargeQueues(b) \subseteq AllPlaces /\ IsFiniteSet(LargeQueues(b))
         /\ \A c : <<"block", c>> \notin LargeQueues(b)
         /\ \A l : <<"out", l>> \in LargeQueues(b) <=> l \in Out(b) /\ Unloads(l, outgoing_[l])
         /\ \A k, l : <<"in", k, l>> \in LargeQueues(b) <=>
                        k \in 0..Rounds /\ l \in In(b) /\ Unloads(l, incoming_[k][l])
<1>1. LargeQueues(b) \subseteq AllPlaces
  BY DEF LargeQueues, AllPlaces
<1>2. IsFiniteSet(LargeQueues(b))
  BY <1>1, AllPlacesFinite, FS_Subset
<1>3. \A c : <<"block", c>> \notin LargeQueues(b)
  BY DEF LargeQueues
<1>4. ASSUME NEW l
      PROVE  <<"out", l>> \in LargeQueues(b) <=> l \in Out(b) /\ Unloads(l, outgoing_[l])
  <2>1. Last(<<"out", l>>) = l /\ RecordAt(<<"out", l>>) = outgoing_[l] /\ <<"out", l>>[1] # "block"
    BY DEF Last, RecordAt
  <2>2. <<"out", l>> \in Places(b) <=> l \in Out(b)
    BY PlacesDiffer DEF Places
  <2> QED
    BY <2>1, <2>2 DEF LargeQueues
<1>5. ASSUME NEW k, NEW l
      PROVE  <<"in", k, l>> \in LargeQueues(b) <=> k \in 0..Rounds /\ l \in In(b) /\ Unloads(l, incoming_[k][l])
  <2>1. Last(<<"in", k, l>>) = l /\ RecordAt(<<"in", k, l>>) = incoming_[k][l] /\ <<"in", k, l>>[1] # "block"
    BY DEF Last, RecordAt
  <2>2. <<"in", k, l>> \in Places(b) <=> k \in 0..Rounds /\ l \in In(b)
    BY PlacesDiffer DEF Places
  <2> QED
    BY <2>1, <2>2 DEF LargeQueues
<1> QED
  BY <1>1, <1>2, <1>3, <1>4, <1>5

LEMMA UnloadPlaces ==
  ASSUME NEW B \in SUBSET Block
  PROVE  /\ UnloadSet(B) \subseteq AllPlaces /\ IsFiniteSet(UnloadSet(B))
         /\ \A b \in Block : <<"block", b>> \in UnloadSet(B) <=> b \in B
         /\ \A l : <<"out", l>> \in UnloadSet(B) <=> l \in FromHere /\ l[1] \in B /\ Unloads(l, outgoing_[l])
         /\ \A k, l : <<"in", k, l>> \in UnloadSet(B) <=>
                        k \in 0..Rounds /\ l \in ToHere /\ l[2] \in B /\ Unloads(l, incoming_[k][l])
         /\ Unload(B) <=> Put(UnloadSet(B))
<1>1. UnloadSet(B) \subseteq AllPlaces
  BY LargePlaces, BlockPlace DEF UnloadSet
<1>2. IsFiniteSet(UnloadSet(B))
  BY <1>1, AllPlacesFinite, FS_Subset
<1>3. \A x : x \in UnloadSet(B) <=> \E b \in B : x \in LargeQueues(b) \/ x = <<"block", b>>
  BY DEF UnloadSet
<1>4. \A b \in Block : <<"block", b>> \in UnloadSet(B) <=> b \in B
  <2>1. ASSUME NEW b \in Block PROVE <<"block", b>> \in UnloadSet(B) <=> b \in B
    <3>1. \A c \in B : <<"block", b>> \notin LargeQueues(c)
      BY LargePlaces
    <3>2. \A c \in B : <<"block", b>> = <<"block", c>> <=> b = c
      BY PlacesDiffer
    <3> QED
      BY <1>3, <3>1, <3>2
  <2> QED
    BY <2>1
<1>5. \A l : <<"out", l>> \in UnloadSet(B) <=> l \in FromHere /\ l[1] \in B /\ Unloads(l, outgoing_[l])
  <2>1. \A l, b : l \in Out(b) /\ b \in B <=> l \in FromHere /\ l[1] \in B /\ b = l[1]
    BY DEF Out, FromHere
  <2>2. \A l : <<"out", l>> \in UnloadSet(B) <=> \E b \in B : l \in Out(b) /\ Unloads(l, outgoing_[l])
    BY <1>3, LargePlaces, PlacesDiffer
  <2> QED
    BY <2>1, <2>2
<1>7. \A k, l : <<"in", k, l>> \in UnloadSet(B) <=>
                  k \in 0..Rounds /\ l \in ToHere /\ l[2] \in B /\ Unloads(l, incoming_[k][l])
  <2>1. \A l, b : l \in In(b) /\ b \in B <=> l \in ToHere /\ l[2] \in B /\ b = l[2]
    BY DEF In, ToHere
  <2>2. ASSUME NEW k, NEW l
        PROVE  <<"in", k, l>> \in UnloadSet(B) <=>
                 \E b \in B : k \in 0..Rounds /\ l \in In(b) /\ Unloads(l, incoming_[k][l])
    <3>1. \A b \in B : <<"in", k, l>> \in LargeQueues(b) <=>
                         k \in 0..Rounds /\ l \in In(b) /\ Unloads(l, incoming_[k][l])
      BY LargePlaces
    <3>2. \A b \in B : <<"in", k, l>> # <<"block", b>>
      BY PlacesDiffer
    <3> QED
      BY <1>3, <3>1, <3>2
  <2> QED
    BY <2>1, <2>2
<1>6. Unload(B) <=> Put(UnloadSet(B))
  BY DEF Unload, UnloadSet
<1> QED
  BY <1>1, <1>2, <1>4, <1>5, <1>6, <1>7

LEMMA LoadPlaces ==
  ASSUME NEW b \in Block, exchange_round_ \in 0..Rounds
  PROVE  /\ OutgoingToLoad(b) \subseteq Outside /\ QueuesToLoad(b) \subseteq Outside
         /\ \A c : <<"block", c>> \notin QueuesToLoad(b)
         /\ \A l : /\ <<"out", l>> \in OutgoingToLoad(b) <=>
                        l \in FromHere /\ l[1] = b /\ external(outgoing_[l]) /\ l[2] \in Away
                   /\ <<"out", l>> \in QueuesToLoad(b) <=> <<"out", l>> \in OutgoingToLoad(b)
         /\ \A k, l : /\ <<"in", k, l>> \notin OutgoingToLoad(b)
                      /\ <<"in", k, l>> \in QueuesToLoad(b) <=>
                           /\ k = exchange_round_ /\ l \in ToHere /\ l[2] = b
                           /\ external(incoming_[exchange_round_][l])
<1>1. OutgoingToLoad(b) \subseteq Outside
  BY OutPlace, OutsidePlaces DEF OutgoingToLoad, Out, FromHere, external
<1>2. {<<"in", exchange_round_, l>> : l \in {x \in In(b) : external(incoming_[exchange_round_][x])}} \subseteq Outside
  BY InPlace, OutsidePlaces DEF In, ToHere, external
<1>3. QueuesToLoad(b) \subseteq Outside
  BY <1>1, <1>2 DEF QueuesToLoad
<1>4. \A c : <<"block", c>> \notin QueuesToLoad(b)
  BY PlacesDiffer DEF QueuesToLoad, OutgoingToLoad
<1>5. \A l : <<"out", l>> \in OutgoingToLoad(b) <=>
                l \in FromHere /\ l[1] = b /\ external(outgoing_[l]) /\ l[2] \in Away
  BY PlacesDiffer DEF OutgoingToLoad, Out, FromHere
<1>6. \A l : <<"out", l>> \in QueuesToLoad(b) <=> <<"out", l>> \in OutgoingToLoad(b)
  BY PlacesDiffer DEF QueuesToLoad
<1>7. \A k, l : <<"in", k, l>> \notin OutgoingToLoad(b)
  BY PlacesDiffer DEF OutgoingToLoad
<1>8. \A k, l : <<"in", k, l>> \in QueuesToLoad(b) <=>
                  k = exchange_round_ /\ l \in ToHere /\ l[2] = b /\ external(incoming_[exchange_round_][l])
  BY PlacesDiffer DEF QueuesToLoad, OutgoingToLoad, In, ToHere
<1> QED
  BY <1>1, <1>3, <1>4, <1>5, <1>6, <1>7, <1>8

\* What becomes of the queues.
LEMMA PutQueues ==
  ASSUME StorageInv, NEW S \in SUBSET AllPlaces, IsFiniteSet(S), Put(S)
  PROVE  /\ \A l \in FromHere : IF <<"out", l>> \in S
                                THEN outgoing_'[l].external_ # None
                                ELSE outgoing_'[l] = outgoing_[l]
         /\ \A k \in 0..Rounds, l \in ToHere : IF <<"in", k, l>> \in S
                                               THEN incoming_'[k][l].external_ # None
                                               ELSE incoming_'[k][l] = incoming_[k][l]
<1>1. /\ \A x \in AllPlaces \ S : x[1] # "block" => RecordAt(x)' = RecordAt(x)
      /\ \A x \in S : FileOf(x)' \in Nat \ {0}
  BY PutEffect DEF StorageInv
<1>2. ASSUME NEW l \in FromHere
      PROVE  IF <<"out", l>> \in S THEN outgoing_'[l].external_ # None ELSE outgoing_'[l] = outgoing_[l]
  <2> DEFINE x == <<"out", l>>
  <2>1. x \in AllPlaces /\ x[1] # "block" /\ RecordAt(x) = outgoing_[l] /\ RecordAt(x)' = outgoing_'[l]
        /\ FileOf(x)' = outgoing_'[l].external_
    BY OutPlace DEF RecordAt, FileOf
  <2> HIDE DEF x
  <2>2. IF x \in S THEN outgoing_'[l].external_ # None ELSE outgoing_'[l] = outgoing_[l]
    BY <1>1, <2>1 DEF None
  <2> QED
    BY <2>2 DEF x
<1>3. ASSUME NEW k \in 0..Rounds, NEW l \in ToHere
      PROVE  IF <<"in", k, l>> \in S THEN incoming_'[k][l].external_ # None
                                     ELSE incoming_'[k][l] = incoming_[k][l]
  <2> DEFINE x == <<"in", k, l>>
  <2>1. x \in AllPlaces /\ x[1] # "block" /\ RecordAt(x) = incoming_[k][l] /\ RecordAt(x)' = incoming_'[k][l]
        /\ FileOf(x)' = incoming_'[k][l].external_
    BY InPlace DEF RecordAt, FileOf
  <2> HIDE DEF x
  <2>2. IF x \in S THEN incoming_'[k][l].external_ # None ELSE incoming_'[k][l] = incoming_[k][l]
    BY <1>1, <2>1 DEF None
  <2> QED
    BY <2>2 DEF x
<1> QED
  BY <1>2, <1>3

LEMMA GetQueues ==
  ASSUME StorageInv, NEW S \in SUBSET Outside, Get(S)
  PROVE  /\ \A l \in FromHere : IF <<"out", l>> \in S
                                THEN outgoing_'[l].external_ = None
                                ELSE outgoing_'[l] = outgoing_[l]
         /\ \A k \in 0..Rounds, l \in ToHere : IF <<"in", k, l>> \in S
                                               THEN incoming_'[k][l].external_ = None
                                               ELSE incoming_'[k][l] = incoming_[k][l]
         /\ \A k \in 0..Rounds, l \in ToHere : SizeOf(incoming_'[k][l]) = SizeOf(incoming_[k][l])
<1>1. /\ \A x \in AllPlaces \ S : x[1] # "block" => RecordAt(x)' = RecordAt(x)
      /\ \A x \in S : x[1] # "block" => RecordAt(x)' = QueueRecord(files[FileOf(x)])
      /\ \A x \in S : x[1] # "block" => RecordAt(x).size_ = Len(files[FileOf(x)])
      /\ \A x \in S : FileOf(x) # None
  BY GetEffect, OutsidePlaces DEF StorageInv
<1>2. ASSUME NEW l \in FromHere
      PROVE  IF <<"out", l>> \in S THEN outgoing_'[l].external_ = None ELSE outgoing_'[l] = outgoing_[l]
  <2> DEFINE x == <<"out", l>>
  <2>1. x \in AllPlaces /\ x[1] # "block" /\ RecordAt(x) = outgoing_[l] /\ RecordAt(x)' = outgoing_'[l]
    BY OutPlace DEF RecordAt
  <2> HIDE DEF x
  <2>2. IF x \in S THEN outgoing_'[l].external_ = None ELSE outgoing_'[l] = outgoing_[l]
    BY <1>1, <2>1 DEF QueueRecord
  <2> QED
    BY <2>2 DEF x
<1>3. ASSUME NEW k \in 0..Rounds, NEW l \in ToHere
      PROVE  /\ IF <<"in", k, l>> \in S THEN incoming_'[k][l].external_ = None
                                        ELSE incoming_'[k][l] = incoming_[k][l]
             /\ SizeOf(incoming_'[k][l]) = SizeOf(incoming_[k][l])
  <2> DEFINE x == <<"in", k, l>>
  <2>1. x \in AllPlaces /\ x[1] # "block" /\ RecordAt(x) = incoming_[k][l] /\ RecordAt(x)' = incoming_'[k][l]
        /\ FileOf(x) = incoming_[k][l].external_
    BY InPlace DEF RecordAt
  <2> HIDE DEF x
  <2>2. IF x \in S THEN incoming_'[k][l].external_ = None ELSE incoming_'[k][l] = incoming_[k][l]
    BY <1>1, <2>1 DEF QueueRecord
  <2>3. SizeOf(incoming_'[k][l]) = SizeOf(incoming_[k][l])
    <3>1. CASE x \in S
      <4>1. incoming_'[k][l] = QueueRecord(files[FileOf(x)]) /\ incoming_[k][l].size_ = Len(files[FileOf(x)])
            /\ incoming_[k][l].external_ # None
        BY <1>1, <2>1, <3>1
      <4> QED
        BY <4>1 DEF SizeOf, external, QueueRecord
    <3>2. CASE x \notin S
      BY <2>2, <3>2
    <3> QED
      BY <3>1, <3>2
  <2> QED
    BY <2>2, <2>3 DEF x
<1> QED
  BY <1>2, <1>3

LEMMA NoQueueStays == \A l : ~Unloads(l, NoQueue) /\ ~external(NoQueue) /\ SizeOf(NoQueue) = 0
BY DEF Unloads, SizeOf, external, NoQueue

\* unload.
LEMMA UnloadEffect ==
  ASSUME StorageInv, BlocksInv, NEW B \in SUBSET Block, \A b \in B : InMemory(b), Unload(B), phase' = phase
  PROVE  /\ Domains' /\ StorageInv' /\ BlocksInv'
         /\ \A b \in Block : InMemory(b)' <=> InMemory(b) /\ b \notin B
         /\ \A l \in FromHere : \/ outgoing_'[l] = outgoing_[l]
                                \/ /\ l \in Large /\ l[1] \in B /\ external(outgoing_'[l])
                                   /\ outgoing_[l] # NoQueue
         /\ \A k \in 0..Rounds, l \in ToHere : \/ incoming_'[k][l] = incoming_[k][l]
                                               \/ /\ l \in Large /\ l[2] \in B /\ external(incoming_'[k][l])
                                                  /\ incoming_[k][l] # NoQueue
<1> DEFINE S == UnloadSet(B)
<1>1. S \subseteq AllPlaces /\ IsFiniteSet(S) /\ Put(S)
  BY UnloadPlaces
<1>2. \A b \in Block : <<"block", b>> \in S <=> b \in B
  BY UnloadPlaces
<1>3. /\ \A l : <<"out", l>> \in S <=> l \in FromHere /\ l[1] \in B /\ Unloads(l, outgoing_[l])
      /\ \A k, l : <<"in", k, l>> \in S <=>
           k \in 0..Rounds /\ l \in ToHere /\ l[2] \in B /\ Unloads(l, incoming_[k][l])
  BY UnloadPlaces
<1> HIDE DEF S
<1>4. IsFiniteSet(DOMAIN files)
  BY DEF StorageInv
<1>5. Domains'
  BY <1>1, <1>4, PutEffect
<1>6. StorageInv' /\ BlocksInv'
  BY <1>1, <1>2, PutStorage, PutBlocks
<1>7. \A b \in Block : InMemory(b)' <=> InMemory(b) /\ b \notin B
  BY <1>1, <1>2, <1>4, PutInMemory
<1>8. /\ \A l \in FromHere : IF <<"out", l>> \in S
                             THEN outgoing_'[l].external_ # None
                             ELSE outgoing_'[l] = outgoing_[l]
      /\ \A k \in 0..Rounds, l \in ToHere : IF <<"in", k, l>> \in S
                                            THEN incoming_'[k][l].external_ # None
                                            ELSE incoming_'[k][l] = incoming_[k][l]
  BY <1>1, PutQueues
<1>9. \A l \in FromHere : \/ outgoing_'[l] = outgoing_[l]
                          \/ /\ l \in Large /\ l[1] \in B /\ external(outgoing_'[l])
                             /\ outgoing_[l] # NoQueue
  <2> SUFFICES ASSUME NEW l \in FromHere, outgoing_'[l] # outgoing_[l]
               PROVE  l \in Large /\ l[1] \in B /\ external(outgoing_'[l]) /\ outgoing_[l] # NoQueue
    OBVIOUS
  <2>1. <<"out", l>> \in S
    BY <1>8
  <2>2. l[1] \in B /\ Unloads(l, outgoing_[l]) /\ external(outgoing_'[l])
    BY <2>1, <1>3, <1>8 DEF external
  <2> QED
    BY <2>2, NoQueueStays DEF Unloads
<1>10. \A k \in 0..Rounds, l \in ToHere : \/ incoming_'[k][l] = incoming_[k][l]
                                          \/ /\ l \in Large /\ l[2] \in B /\ external(incoming_'[k][l])
                                             /\ incoming_[k][l] # NoQueue
  <2> SUFFICES ASSUME NEW k \in 0..Rounds, NEW l \in ToHere, incoming_'[k][l] # incoming_[k][l]
               PROVE  l \in Large /\ l[2] \in B /\ external(incoming_'[k][l]) /\ incoming_[k][l] # NoQueue
    OBVIOUS
  <2>1. <<"in", k, l>> \in S
    BY <1>8
  <2>2. l[2] \in B /\ Unloads(l, incoming_[k][l]) /\ external(incoming_'[k][l])
    BY <2>1, <1>3, <1>8 DEF external
  <2> QED
    BY <2>2, NoQueueStays DEF Unloads
<1> QED
  BY <1>5, <1>6, <1>7, <1>9, <1>10

\* unload_queues.
LEMMA UnloadQueuesEffect ==
  ASSUME StorageInv, BlocksInv, NEW b \in Block, Put(LargeQueues(b)), phase' = phase
  PROVE  /\ Domains' /\ StorageInv' /\ BlocksInv'
         /\ \A c \in Block : InMemory(c)' <=> InMemory(c)
         /\ \A l \in FromHere : \/ outgoing_'[l] = outgoing_[l]
                                \/ /\ l \in Large /\ l[1] = b /\ external(outgoing_'[l])
                                   /\ outgoing_[l] # NoQueue
         /\ \A k \in 0..Rounds, l \in ToHere : \/ incoming_'[k][l] = incoming_[k][l]
                                               \/ /\ l \in Large /\ l[2] = b /\ external(incoming_'[k][l])
                                                  /\ incoming_[k][l] # NoQueue
<1> DEFINE S == LargeQueues(b)
<1>1. S \subseteq AllPlaces /\ IsFiniteSet(S) /\ Put(S) /\ \A c \in Block : <<"block", c>> \notin S
  BY LargePlaces
<1>3. /\ \A l : <<"out", l>> \in S <=> l \in Out(b) /\ Unloads(l, outgoing_[l])
      /\ \A k, l : <<"in", k, l>> \in S <=> k \in 0..Rounds /\ l \in In(b) /\ Unloads(l, incoming_[k][l])
  BY LargePlaces
<1> HIDE DEF S
<1>4. IsFiniteSet(DOMAIN files)
  BY DEF StorageInv
<1>5. Domains'
  BY <1>1, <1>4, PutEffect
<1>6. StorageInv' /\ BlocksInv'
  BY <1>1, PutStorage, PutBlocks
<1>7. \A c \in Block : InMemory(c)' <=> InMemory(c)
  BY <1>1, <1>4, PutInMemory
<1>8. /\ \A l \in FromHere : IF <<"out", l>> \in S
                             THEN outgoing_'[l].external_ # None
                             ELSE outgoing_'[l] = outgoing_[l]
      /\ \A k \in 0..Rounds, l \in ToHere : IF <<"in", k, l>> \in S
                                            THEN incoming_'[k][l].external_ # None
                                            ELSE incoming_'[k][l] = incoming_[k][l]
  BY <1>1, PutQueues
<1>9. \A l \in FromHere : \/ outgoing_'[l] = outgoing_[l]
                          \/ /\ l \in Large /\ l[1] = b /\ external(outgoing_'[l])
                             /\ outgoing_[l] # NoQueue
  <2> SUFFICES ASSUME NEW l \in FromHere, outgoing_'[l] # outgoing_[l]
               PROVE  l \in Large /\ l[1] = b /\ external(outgoing_'[l]) /\ outgoing_[l] # NoQueue
    OBVIOUS
  <2>1. <<"out", l>> \in S
    BY <1>8
  <2>2. l \in Out(b) /\ Unloads(l, outgoing_[l]) /\ external(outgoing_'[l])
    BY <2>1, <1>3, <1>8 DEF external
  <2> QED
    BY <2>2, NoQueueStays DEF Unloads, Out
<1>10. \A k \in 0..Rounds, l \in ToHere : \/ incoming_'[k][l] = incoming_[k][l]
                                          \/ /\ l \in Large /\ l[2] = b /\ external(incoming_'[k][l])
                                             /\ incoming_[k][l] # NoQueue
  <2> SUFFICES ASSUME NEW k \in 0..Rounds, NEW l \in ToHere, incoming_'[k][l] # incoming_[k][l]
               PROVE  l \in Large /\ l[2] = b /\ external(incoming_'[k][l]) /\ incoming_[k][l] # NoQueue
    OBVIOUS
  <2>1. <<"in", k, l>> \in S
    BY <1>8
  <2>2. l \in In(b) /\ Unloads(l, incoming_[k][l]) /\ external(incoming_'[k][l])
    BY <2>1, <1>3, <1>8 DEF external
  <2> QED
    BY <2>2, NoQueueStays DEF Unloads, In
<1> QED
  BY <1>5, <1>6, <1>7, <1>9, <1>10

\* What is loaded.
LEMMA GetStays ==
  ASSUME StorageInv, NEW S \in SUBSET Outside, Get(S)
  PROVE  \A k \in 0..Rounds, l \in ToHere : incoming_[k][l] = NoQueue => incoming_'[k][l] = NoQueue
<1> SUFFICES ASSUME NEW k \in 0..Rounds, NEW l \in ToHere, incoming_[k][l] = NoQueue
             PROVE  incoming_'[k][l] = NoQueue
  OBVIOUS
<1>1. FileOf(<<"in", k, l>>) = None
  BY InPlace DEF NoQueue
<1>2. <<"in", k, l>> \notin S
  BY <1>1, OutsidePlaces
<1> QED
  BY <1>2, GetQueues

-----------------------------------------------------------------------------
(***************************************************************************)
(* What the threads do to each other's blocks: nothing.                    *)
(***************************************************************************)
BaseInv == Shape /\ StorageInv /\ BlocksInv /\ ThreadsInv /\ LoadedFirst /\ QueuesInv

\* Sets, so that a step can speak of the next state's blocks.
LEMMA LoadedSets == /\ \A b \in Block : b \in loaded <=> InMemory(b)
                    /\ \A b \in Block : b \in idle <=> AllSkip(b)
                    /\ loaded \subseteq Block /\ idle \subseteq Block
BY DEF loaded, idle

LEMMA SameSkip ==
  ASSUME NEW b \in Block, exchange_round_' = exchange_round_, commands_' = commands_,
         \A l \in In(b) : SizeOf(incoming_'[exchange_round_][l]) = SizeOf(incoming_[exchange_round_][l])
  PROVE  b \in idle' <=> b \in idle
<1>1. HasIncoming(b)' <=> \E l \in In(b) : SizeOf(incoming_'[exchange_round_][l]) > 0
  BY DEF HasIncoming, In, SizeOf, external
<1>2. HasIncoming(b)' <=> HasIncoming(b)
  BY <1>1 DEF HasIncoming
<1> QED
  BY <1>2 DEF AllSkip, idle

\* A step of thread t that unloads blocks of its own, and may load its next one.
LEMMA ThreadFrame ==
  ASSUME Shape, ThreadsInv, NEW t \in Worker, at[t] # "next",
         blocks' = blocks, phase' = phase, Shape',
         \A u \in Worker : u # t => cur'[u] = cur[u] /\ at'[u] = at[u] /\ local'[u] = local[u],
         \A b \in Block : b # cur[t] /\ b \notin local[t] => (b \in loaded' <=> b \in loaded) /\ (b \in idle' <=> b \in idle),
         cur'[t] = cur[t] \/ cur'[t] = NoBlock,
         local'[t] \subseteq local[t] \cup {cur[t]},
         ThreadOK(t)'
  PROVE  ThreadsInv'
<1>1. phase = "execute" /\ phase' = "execute"
  BY DEF ThreadsInv
<1>2. cur[t] # NoBlock /\ cur[t] \in Block
  BY DEF ThreadsInv, ThreadOK, Shape
<1>3. \A u \in Worker : u # t => /\ cur[u] = cur[t] => cur[u] = NoBlock
                                 /\ local[u] \cap local[t] = {}
                                 /\ cur[u] \notin local[t] /\ cur[t] \notin local[u]
  BY DEF ThreadsInv, Apart
<1>4. \A u \in Worker : ThreadOK(u)'
  <2> SUFFICES ASSUME NEW u \in Worker, u # t PROVE ThreadOK(u)'
    OBVIOUS
  <2>1. ThreadOK(u) /\ cur'[u] = cur[u] /\ at'[u] = at[u] /\ local'[u] = local[u]
    BY DEF ThreadsInv
  <2>2. \A b \in local[u] : b \in Block /\ b # cur[t] /\ b \notin local[t]
    BY <1>3 DEF Shape
  <2>3. local[u] \subseteq loaded'
    BY <2>1, <2>2 DEF ThreadOK
  <2>4. at[u] # "next" => cur[u] \in Block /\ cur[u] # cur[t] /\ cur[u] \notin local[t]
    BY <1>3, <2>1 DEF Shape, ThreadOK
  <2>5. at[u] # "next" => (cur[u] \in loaded' <=> cur[u] \in loaded) /\ (cur[u] \in idle' <=> cur[u] \in idle)
    BY <2>4
  <2> QED
    BY <2>1, <2>3, <2>5 DEF ThreadOK
<1>5. ASSUME NEW u \in Worker, NEW v \in Worker, u # v PROVE Apart(u, v)'
  <2>1. Apart(u, v) /\ (u # t => Apart(u, t) /\ Apart(t, u)) /\ (v # t => Apart(v, t) /\ Apart(t, v))
    BY <1>5 DEF ThreadsInv
  <2>2. /\ u # t => cur'[u] = cur[u] /\ local'[u] = local[u]
        /\ v # t => cur'[v] = cur[v] /\ local'[v] = local[v]
        /\ cur'[t] = cur[t] \/ cur'[t] = NoBlock
        /\ local'[t] \subseteq local[t] \cup {cur[t]}
    OBVIOUS
  <2>3. \A w \in Worker : NoBlock \notin local[w]
    BY OutOfCoreAssumption DEF Shape
  <2>4. CASE u # t /\ v # t
    BY <2>1, <2>2, <2>4 DEF Apart
  <2>5. CASE u = t
    BY <2>1, <2>2, <2>3, <2>5, <1>2, <1>5 DEF Apart
  <2>6. CASE v = t
    BY <2>1, <2>2, <2>3, <2>6, <1>2, <1>5 DEF Apart
  <2> QED
    BY <2>4, <2>5, <2>6
<1>6. \A i, j \in DOMAIN blocks' : blocks'[i] = blocks'[j] => i = j
  BY DEF ThreadsInv
<1> QED
  BY <1>1, <1>4, <1>5, <1>6 DEF ThreadsInv

LEMMA LoadedFrame ==
  ASSUME Shape, ThreadsInv, LoadedFirst, NEW t \in Worker, at[t] # "next",
         blocks' = blocks, phase' = phase, Shape',
         \A u \in Worker : u # t => cur'[u] = cur[u] /\ at'[u] = at[u] /\ local'[u] = local[u],
         \A b \in Block : b # cur[t] /\ b \notin local[t] => (b \in loaded' <=> b \in loaded),
         at'[t] = "taken" => at[t] = "taken" /\ cur'[t] = cur[t] /\ (cur[t] \in loaded' <=> cur[t] \in loaded),
         \A b \in local[t] \cup {cur[t]} : b \in loaded' => b \in local'[t] \/ (b = cur'[t] /\ at'[t] = "taken"),
         Cardinality(local'[t]) <= blocks_per_thread
  PROVE  LoadedFirst'
<1>1. phase = "execute"
  BY DEF ThreadsInv
<1>2. \A b \in ToSet(blocks) : b \in Block /\ (b \in loaded' <=> b \in loaded)
  <2>1. cur[t] \notin ToSet(blocks) /\ local[t] \cap ToSet(blocks) = {}
    BY DEF ThreadsInv, ThreadOK
  <2>2. \A b \in ToSet(blocks) : b \in Block
    BY DEF Shape, ToSet
  <2> QED
    BY <2>1, <2>2
<1>3. \A i, j \in DOMAIN blocks' : i < j /\ blocks'[j] \in loaded' => blocks'[i] \in loaded'
  <2> SUFFICES ASSUME NEW i \in DOMAIN blocks, NEW j \in DOMAIN blocks, i < j, blocks[j] \in loaded'
               PROVE  blocks[i] \in loaded'
    OBVIOUS
  <2>1. blocks[i] \in ToSet(blocks) /\ blocks[j] \in ToSet(blocks)
    BY DEF ToSet
  <2> QED
    BY <2>1, <1>2 DEF LoadedFirst
<1>4. ASSUME NEW u \in Worker, at'[u] = "taken", cur'[u] \notin loaded'
      PROVE  ToSet(blocks') \cap loaded' = {}
  <2>1. at[u] = "taken" /\ cur'[u] = cur[u] /\ cur[u] \in Block
    BY <1>4 DEF ThreadsInv, ThreadOK, Shape
  <2>2. u # t => cur[u] # cur[t] /\ cur[u] \notin local[t]
    BY <2>1, OutOfCoreAssumption DEF ThreadsInv, Apart
  <2>3. cur[u] \in loaded' <=> cur[u] \in loaded
    BY <2>1, <2>2, <1>4
  <2>4. ToSet(blocks) \cap loaded = {}
    BY <1>4, <2>1, <2>3 DEF LoadedFirst
  <2> QED
    BY <2>4, <1>2
<1>5. \A u \in Worker : Cardinality(local'[u]) <= blocks_per_thread
  BY DEF LoadedFirst
<1>6. \A b \in loaded' : \/ b \in ToSet(blocks')
                         \/ \E u \in Worker : b = cur'[u] /\ at'[u] = "taken"
                         \/ \E u \in Worker : b \in local'[u]
  <2> SUFFICES ASSUME NEW b \in loaded', b \notin ToSet(blocks), b # cur[t], b \notin local[t]
               PROVE  \/ \E u \in Worker : b = cur'[u] /\ at'[u] = "taken"
                      \/ \E u \in Worker : b \in local'[u]
    OBVIOUS
  <2>1. b \in Block
    BY DEF loaded
  <2>2. b \in loaded
    BY <2>1
  <2>3. \/ \E u \in Worker : b = cur[u] /\ at[u] = "taken"
        \/ \E u \in Worker : b \in local[u]
    BY <1>1, <2>2 DEF LoadedFirst
  <2> QED
    BY <2>3
<1> QED
  BY <1>3, <1>4, <1>5, <1>6 DEF LoadedFirst

LEMMA QueuesFrame ==
  ASSUME Shape, QueuesInv, phase = "execute",
         UNCHANGED <<phase, called, commands_, exchange_round_, gid_order>>,
         \A k \in 0..Rounds, l \in ToHere : incoming_[k][l] = NoQueue => incoming_'[k][l] = NoQueue,
         \A l \in ToHere : ToRun(l[2]) /\ ~ToRun(l[2])' => incoming_'[exchange_round_][l] = NoQueue
  PROVE  QueuesInv'
<1>1. \A k \in 0..Rounds, l \in ToHere :
        incoming_'[k][l] # NoQueue => \/ k = exchange_round_ /\ (l \in Inside => ~ToBeSent(l))
                                      \/ k = exchange_round_ + 1 /\ l \in Early
  BY DEF QueuesInv
<1>2. \A l : ToBeSent(l)' <=> ToBeSent(l)
  BY DEF ToBeSent
<1>3. \A l \in ToHere : ~ToRun(l[2])' => incoming_'[exchange_round_][l] = NoQueue
  BY DEF QueuesInv, Shape
<1> QED
  BY <1>1, <1>2, <1>3 DEF QueuesInv

-----------------------------------------------------------------------------
(***************************************************************************)
(* The steps of a thread.                                                  *)
(***************************************************************************)
LEMMA UnloadMoves ==
  ASSUME Shape, StorageInv, BlocksInv, NEW B \in SUBSET loaded, Unload(B), UNCHANGED program
  PROVE  /\ Domains' /\ StorageInv' /\ BlocksInv'
         /\ loaded' = loaded \ B
         /\ \A b \in Block \ B : b \in idle' <=> b \in idle
         /\ \A k \in 0..Rounds, l \in ToHere : incoming_[k][l] = NoQueue => incoming_'[k][l] = NoQueue
<1>1. B \in SUBSET Block /\ (\A b \in B : InMemory(b)) /\ phase' = phase
  BY DEF loaded, program
<1>2. /\ Domains' /\ StorageInv' /\ BlocksInv'
      /\ \A b \in Block : InMemory(b)' <=> InMemory(b) /\ b \notin B
      /\ \A k \in 0..Rounds, l \in ToHere : \/ incoming_'[k][l] = incoming_[k][l]
                                            \/ l[2] \in B /\ incoming_[k][l] # NoQueue
  BY <1>1, UnloadEffect
<1>3. loaded' = loaded \ B
  BY <1>2 DEF loaded
<1>4. ASSUME NEW b \in Block \ B PROVE b \in idle' <=> b \in idle
  <2>1. \A l \in In(b) : l \in ToHere /\ l[2] \notin B
    BY DEF In, ToHere
  <2>2. exchange_round_ \in 0..Rounds /\ exchange_round_' = exchange_round_ /\ commands_' = commands_
    BY DEF Shape, program
  <2>3. \A l \in In(b) : incoming_'[exchange_round_][l] = incoming_[exchange_round_][l]
    BY <1>2, <2>1, <2>2
  <2>4. \A l \in In(b) : SizeOf(incoming_'[exchange_round_][l]) = SizeOf(incoming_[exchange_round_][l])
    BY <2>3
  <2> QED
    BY <2>2, <2>4, SameSkip
<1> QED
  BY <1>2, <1>3, <1>4

LEMMA UnloadQueuesMoves ==
  ASSUME Shape, StorageInv, BlocksInv, NEW b \in Block, Put(LargeQueues(b)), UNCHANGED program
  PROVE  /\ Domains' /\ StorageInv' /\ BlocksInv'
         /\ loaded' = loaded
         /\ \A c \in Block \ {b} : c \in idle' <=> c \in idle
         /\ \A k \in 0..Rounds, l \in ToHere : incoming_[k][l] = NoQueue => incoming_'[k][l] = NoQueue
<1>1. phase' = phase
  BY DEF program
<1>2. /\ Domains' /\ StorageInv' /\ BlocksInv'
      /\ \A c \in Block : InMemory(c)' <=> InMemory(c)
      /\ \A k \in 0..Rounds, l \in ToHere : \/ incoming_'[k][l] = incoming_[k][l]
                                            \/ l[2] = b /\ incoming_[k][l] # NoQueue
  BY <1>1, UnloadQueuesEffect
<1>3. loaded' = loaded
  BY <1>2 DEF loaded
<1>4. ASSUME NEW c \in Block \ {b} PROVE c \in idle' <=> c \in idle
  <2>1. \A l \in In(c) : l \in ToHere /\ l[2] # b
    BY DEF In, ToHere
  <2>2. exchange_round_ \in 0..Rounds /\ exchange_round_' = exchange_round_ /\ commands_' = commands_
    BY DEF Shape, program
  <2>3. \A l \in In(c) : incoming_'[exchange_round_][l] = incoming_[exchange_round_][l]
    BY <1>2, <2>1, <2>2
  <2>4. \A l \in In(c) : SizeOf(incoming_'[exchange_round_][l]) = SizeOf(incoming_[exchange_round_][l])
    BY <2>3
  <2> QED
    BY <2>2, <2>4, SameSkip
<1> QED
  BY <1>2, <1>3, <1>4

LEMMA GetMoves ==
  ASSUME Shape, StorageInv, BlocksInv, NEW S \in SUBSET Outside, Get(S), UNCHANGED program
  PROVE  /\ Domains' /\ StorageInv' /\ BlocksInv'
         /\ \A b \in Block : b \in loaded' <=> b \in loaded \/ <<"block", b>> \in S
         /\ \A b \in Block : b \in idle' <=> b \in idle
         /\ \A k \in 0..Rounds, l \in ToHere : incoming_[k][l] = NoQueue => incoming_'[k][l] = NoQueue
<1>1. phase' = phase
  BY DEF program
<1>2. Domains' /\ StorageInv' /\ BlocksInv'
  BY <1>1, GetEffect, GetStorage, GetBlocks
<1>3. \A b \in Block : b \in loaded' <=> b \in loaded \/ <<"block", b>> \in S
  BY GetInMemory DEF loaded
<1>4. ASSUME NEW b \in Block PROVE b \in idle' <=> b \in idle
  <2>1. \A l \in In(b) : l \in ToHere
    BY DEF In, ToHere
  <2>2. exchange_round_ \in 0..Rounds /\ exchange_round_' = exchange_round_ /\ commands_' = commands_
    BY DEF Shape, program
  <2>3. \A k \in 0..Rounds, l \in ToHere : SizeOf(incoming_'[k][l]) = SizeOf(incoming_[k][l])
    BY GetQueues
  <2>4. \A l \in In(b) : SizeOf(incoming_'[exchange_round_][l]) = SizeOf(incoming_[exchange_round_][l])
    BY <2>1, <2>2, <2>3
  <2> QED
    BY <2>2, <2>4, SameSkip
<1> QED
  BY <1>2, <1>3, <1>4, GetStays

\* A thread may keep a block at least, and one more when it is not full.
LEMMA BlocksPerThread ==
  ASSUME Shape, NEW t \in Worker, Cardinality(local[t]) <= blocks_per_thread, NEW b \in Block
  PROVE  /\ blocks_per_thread \in Nat /\ 1 <= blocks_per_thread /\ Cardinality({b}) = 1
         /\ IsFiniteSet(local[t])
         /\ ~Full(t) => Cardinality(local[t] \cup {b}) <= blocks_per_thread
<1>1. local[t] \subseteq Block /\ IsFiniteSet(Block) /\ IsFiniteSet(local[t])
  BY OutOfCoreAssumption, FS_Subset DEF Shape
<1>2. Cardinality({b}) = 1 /\ Cardinality({}) = 0 /\ Cardinality(Block) \in Nat /\ Cardinality(local[t]) \in Nat
  BY <1>1, FS_Singleton, FS_EmptySet, FS_CardinalityType
<1>3. 1 <= Cardinality(Block)
  BY <1>1, <1>2, FS_Subset, {b} \subseteq Block
<1>4. ASSUME limit_ # -1 PROVE limit_ \div num_threads \in Nat /\ 1 <= limit_ \div num_threads
  <2>1. limit_ \in Nat /\ num_threads \in Nat /\ 1 <= num_threads /\ num_threads <= limit_
    BY <1>4, OutOfCoreAssumption DEF num_threads
  <2> DEFINE L == limit_  n == num_threads
  <2>2. L \in Nat /\ n \in Nat /\ 1 <= n /\ n <= L
    BY <2>1
  <2> HIDE DEF L, n
  <2>3. L \div n \in Nat /\ 1 <= L \div n
    BY <2>2
  <2> QED
    BY <2>3 DEF L, n
<1>6. blocks_per_thread \in Nat /\ 1 <= blocks_per_thread
  BY <1>2, <1>3, <1>4 DEF blocks_per_thread
<1>7. ASSUME ~Full(t) PROVE Cardinality(local[t] \cup {b}) <= blocks_per_thread
  <2> DEFINE S == local[t]
  <2>4. IsFiniteSet(S)
    BY <1>1
  <2> HIDE DEF S
  <2>5. Cardinality(S \cup {b}) = (IF b \in S THEN Cardinality(S) ELSE Cardinality(S) + 1)
    BY <2>4, FS_AddElement
  <2>6. Cardinality(local[t] \cup {b}) = (IF b \in local[t] THEN Cardinality(local[t]) ELSE Cardinality(local[t]) + 1)
    BY <2>5, Zenon DEF S
  <2>1. Cardinality(local[t] \cup {b}) <= Cardinality(local[t]) + 1
    BY <1>2, <2>6
  <2>2. Cardinality(local[t] \cup {b}) \in Nat
    BY <1>1, FS_AddElement, FS_CardinalityType
  <2>3. Cardinality(local[t]) # blocks_per_thread
    BY <1>7 DEF Full
  <2> QED
    BY <1>2, <1>6, <2>1, <2>2, <2>3
<1> QED
  BY <1>1, <1>2, <1>6, <1>7

LEMMA AtThread ==
  ASSUME BaseInv, NEW t \in Worker, at[t] # "next"
  PROVE  /\ phase = "execute" /\ cur[t] \in Block /\ cur[t] # NoBlock /\ exchange_round_ \in 0..Rounds
         /\ local[t] \subseteq loaded /\ local[t] \subseteq Block /\ loaded \subseteq Block
         /\ cur[t] \notin ToSet(blocks) /\ local[t] \cap ToSet(blocks) = {}
         /\ cur[t] \in local[t] => at[t] = "ready"
         /\ at[t] = "ready" => cur[t] \in local[t] \cup (idle \ loaded)
         /\ at[t] = "skipped" => cur[t] \notin loaded
         /\ Cardinality(local[t]) <= blocks_per_thread
<1>1. Shape /\ ThreadsInv /\ LoadedFirst /\ ThreadOK(t)
  BY DEF BaseInv, ThreadsInv
<1>2. phase = "execute" /\ cur[t] # NoBlock /\ cur[t] \in Block
  BY <1>1 DEF ThreadsInv, ThreadOK, Shape
<1> QED
  BY <1>1, <1>2 DEF ThreadOK, LoadedFirst, Shape, loaded

\* What a step of a thread must do for all of this to hold on.
LEMMA ThreadStep ==
  ASSUME BaseInv, NEW t \in Worker, at[t] # "next", blocks' = blocks, UNCHANGED program,
         Domains', StorageInv', BlocksInv',
         cur' \in [Worker -> Block \cup {NoBlock}], at' \in [Worker -> {"next", "taken", "ready", "skipped"}],
         local' \in [Worker -> SUBSET Block],
         \A u \in Worker : u # t => cur'[u] = cur[u] /\ at'[u] = at[u] /\ local'[u] = local[u],
         \A b \in Block : b # cur[t] /\ b \notin local[t] => (b \in loaded' <=> b \in loaded) /\ (b \in idle' <=> b \in idle),
         cur'[t] = cur[t] \/ cur'[t] = NoBlock,
         local'[t] \subseteq local[t] \cup {cur[t]}, local'[t] \subseteq loaded',
         Cardinality(local'[t]) <= blocks_per_thread,
         at'[t] = "next" <=> cur'[t] = NoBlock,
         cur'[t] \in local'[t] => at'[t] = "ready",
         at'[t] = "ready" => cur'[t] \in local'[t] \cup (idle' \ loaded'),
         at'[t] = "skipped" => cur'[t] \notin loaded',
         at'[t] = "taken" => at[t] = "taken" /\ cur'[t] = cur[t] /\ (cur[t] \in loaded' <=> cur[t] \in loaded),
         \A b \in local[t] \cup {cur[t]} : b \in loaded' => b \in local'[t] \/ (b = cur'[t] /\ at'[t] = "taken"),
         \A k \in 0..Rounds, l \in ToHere : incoming_[k][l] = NoQueue => incoming_'[k][l] = NoQueue,
         at[t] \in {"taken", "ready"} =>
           \/ at'[t] \in {"taken", "ready"} /\ cur'[t] = cur[t]
           \/ \A l \in ToHere : l[2] = cur[t] => incoming_'[exchange_round_][l] = NoQueue
  PROVE  BaseInv'
<1>1. /\ Shape /\ ThreadsInv /\ LoadedFirst /\ QueuesInv /\ phase = "execute"
      /\ cur[t] # NoBlock /\ cur[t] \notin ToSet(blocks) /\ local[t] \cap ToSet(blocks) = {}
  BY AtThread DEF BaseInv
<1>2. UNCHANGED <<phase, called, commands_, exchange_round_, gid_order>>
  BY DEF program
<1>3. Shape'
  BY <1>1, <1>2 DEF Shape, Domains
<1>4. ThreadOK(t)'
  <2>1. NoBlock \notin ToSet(blocks)
    BY <1>1, OutOfCoreAssumption DEF Shape, ToSet
  <2>2. cur'[t] \notin ToSet(blocks') /\ local'[t] \cap ToSet(blocks') = {}
    BY <1>1, <2>1
  <2> QED
    BY <2>2 DEF ThreadOK
<1>5. ThreadsInv'
  BY <1>1, <1>2, <1>3, <1>4, ThreadFrame
<1>6. LoadedFirst'
  BY <1>1, <1>2, <1>3, LoadedFrame
<1>7. ASSUME NEW l \in ToHere, ToRun(l[2]), ~ToRun(l[2])' PROVE incoming_'[exchange_round_][l] = NoQueue
  <2>1. PICK u \in Worker : cur[u] = l[2] /\ at[u] \in {"taken", "ready"}
    BY <1>1, <1>2, <1>7 DEF ToRun
  <2>2. u = t
    BY <1>7, <2>1 DEF ToRun
  <2>3. ~(at'[t] \in {"taken", "ready"} /\ cur'[t] = cur[t])
    BY <1>7, <2>1, <2>2 DEF ToRun
  <2> QED
    BY <2>1, <2>2, <2>3
<1>8. QueuesInv'
  BY <1>1, <1>2, <1>7, QueuesFrame
<1> QED
  BY <1>3, <1>5, <1>6, <1>8 DEF BaseInv

LEMMA HoldStep ==
  ASSUME BaseInv, NEW t \in Worker, Hold(t)
  PROVE  BaseInv'
<1> DEFINE B == IF Full(t) THEN local[t] ELSE {}
<1>1. at[t] = "taken" /\ InMemory(cur[t]) /\ Unload(B) /\ blocks' = blocks /\ UNCHANGED program
  BY DEF Hold
<1>2. /\ local' = [local EXCEPT ![t] = (IF Full(t) THEN {} ELSE @) \cup {cur[t]}]
      /\ at' = [at EXCEPT ![t] = "ready"] /\ cur' = cur
  BY DEF Hold
<1>3. Shape /\ StorageInv /\ BlocksInv
  BY DEF BaseInv
<1>4. /\ cur[t] \in Block /\ cur[t] # NoBlock /\ local[t] \subseteq loaded /\ local[t] \subseteq Block
      /\ cur[t] \notin local[t] /\ Cardinality(local[t]) <= blocks_per_thread /\ cur[t] \in loaded
  BY <1>1, AtThread DEF loaded
<1>5. B \in SUBSET loaded /\ cur[t] \notin B /\ B \subseteq local[t]
  BY <1>4
<1> HIDE DEF B
<1>6. /\ Domains' /\ StorageInv' /\ BlocksInv'
      /\ loaded' = loaded \ B
      /\ \A b \in Block \ B : b \in idle' <=> b \in idle
      /\ \A k \in 0..Rounds, l \in ToHere : incoming_[k][l] = NoQueue => incoming_'[k][l] = NoQueue
  BY <1>1, <1>3, <1>5, UnloadMoves
<1>7. /\ local'[t] = (IF Full(t) THEN {} ELSE local[t]) \cup {cur[t]}
      /\ at'[t] = "ready" /\ cur'[t] = cur[t]
      /\ \A u \in Worker : u # t => cur'[u] = cur[u] /\ at'[u] = at[u] /\ local'[u] = local[u]
      /\ cur' \in [Worker -> Block \cup {NoBlock}] /\ at' \in [Worker -> {"next", "taken", "ready", "skipped"}]
      /\ local' \in [Worker -> SUBSET Block]
  BY <1>2, <1>3, <1>4 DEF Shape
<1>8. Cardinality(local'[t]) <= blocks_per_thread
  <2>1. /\ 1 <= blocks_per_thread /\ Cardinality({cur[t]}) = 1
        /\ ~Full(t) => Cardinality(local[t] \cup {cur[t]}) <= blocks_per_thread
    BY <1>3, <1>4, BlocksPerThread
  <2>2. local'[t] = IF Full(t) THEN {cur[t]} ELSE local[t] \cup {cur[t]}
    BY <1>7
  <2> QED
    BY <2>1, <2>2, Zenon
<1>9. local'[t] \subseteq loaded' /\ local'[t] \subseteq local[t] \cup {cur[t]}
  BY <1>4, <1>5, <1>6, <1>7 DEF B
<1>10. \A b \in local[t] \cup {cur[t]} : b \in loaded' => b \in local'[t]
  BY <1>6, <1>7 DEF B
<1> QED
  BY <1>1, <1>4, <1>5, <1>6, <1>7, <1>8, <1>9, <1>10, ThreadStep

LEMMA LoadQueuesStep ==
  ASSUME BaseInv, NEW t \in Worker, LoadQueues(t)
  PROVE  BaseInv'
<1>1. /\ at[t] = "taken" /\ ~InMemory(cur[t]) /\ AllSkip(cur[t]) /\ Get(QueuesToLoad(cur[t]))
      /\ at' = [at EXCEPT ![t] = "ready"] /\ blocks' = blocks /\ cur' = cur /\ local' = local /\ UNCHANGED program
  BY DEF LoadQueues
<1>2. Shape /\ StorageInv /\ BlocksInv
  BY DEF BaseInv
<1>3. /\ cur[t] \in Block /\ cur[t] # NoBlock /\ local[t] \subseteq loaded /\ exchange_round_ \in 0..Rounds
      /\ cur[t] \notin local[t] /\ Cardinality(local[t]) <= blocks_per_thread
  BY <1>1, AtThread
<1>4. cur[t] \notin loaded /\ cur[t] \in idle
  BY <1>1, <1>3 DEF loaded, idle
<1>5. QueuesToLoad(cur[t]) \in SUBSET Outside /\ \A c : <<"block", c>> \notin QueuesToLoad(cur[t])
  BY <1>3, LoadPlaces
<1>6. /\ Domains' /\ StorageInv' /\ BlocksInv'
      /\ \A b \in Block : (b \in loaded' <=> b \in loaded) /\ (b \in idle' <=> b \in idle)
      /\ \A k \in 0..Rounds, l \in ToHere : incoming_[k][l] = NoQueue => incoming_'[k][l] = NoQueue
  BY <1>1, <1>2, <1>5, GetMoves
<1>7. /\ at'[t] = "ready"
      /\ \A u \in Worker : u # t => at'[u] = at[u]
      /\ cur' \in [Worker -> Block \cup {NoBlock}] /\ at' \in [Worker -> {"next", "taken", "ready", "skipped"}]
      /\ local' \in [Worker -> SUBSET Block]
  BY <1>1, <1>2 DEF Shape
<1>8. local'[t] \subseteq loaded' /\ \A b \in local[t] \cup {cur[t]} : b \in loaded' => b \in local'[t]
  BY <1>1, <1>2, <1>3, <1>4, <1>6 DEF Shape
<1> QED
  BY <1>1, <1>3, <1>4, <1>6, <1>7, <1>8, ThreadStep

LEMMA MakeRoomStep ==
  ASSUME BaseInv, NEW t \in Worker, MakeRoom(t)
  PROVE  BaseInv'
<1>1. /\ at[t] = "taken" /\ ~InMemory(cur[t]) /\ Unload(local[t])
      /\ local' = [local EXCEPT ![t] = {}] /\ blocks' = blocks /\ cur' = cur /\ at' = at /\ UNCHANGED program
  BY DEF MakeRoom
<1>2. Shape /\ StorageInv /\ BlocksInv
  BY DEF BaseInv
<1>3. /\ cur[t] \in Block /\ cur[t] # NoBlock /\ local[t] \in SUBSET loaded
      /\ cur[t] \notin local[t] /\ Cardinality(local[t]) <= blocks_per_thread
  BY <1>1, AtThread
<1>4. cur[t] \notin loaded
  BY <1>1, <1>3 DEF loaded
<1>5. /\ Domains' /\ StorageInv' /\ BlocksInv'
      /\ loaded' = loaded \ local[t]
      /\ \A b \in Block \ local[t] : b \in idle' <=> b \in idle
      /\ \A k \in 0..Rounds, l \in ToHere : incoming_[k][l] = NoQueue => incoming_'[k][l] = NoQueue
  BY <1>1, <1>2, <1>3, UnloadMoves
<1>6. /\ local'[t] = {}
      /\ \A u \in Worker : u # t => local'[u] = local[u]
      /\ cur' \in [Worker -> Block \cup {NoBlock}] /\ at' \in [Worker -> {"next", "taken", "ready", "skipped"}]
      /\ local' \in [Worker -> SUBSET Block]
  BY <1>1, <1>2 DEF Shape
<1>7. Cardinality(local'[t]) <= blocks_per_thread
  <2>1. blocks_per_thread \in Nat
    BY <1>2, <1>3, BlocksPerThread
  <2>2. Cardinality(local'[t]) = 0
    BY <1>6, FS_EmptySet
  <2> QED
    BY <2>1, <2>2
<1> QED
  BY <1>1, <1>3, <1>4, <1>5, <1>6, <1>7, ThreadStep

LEMMA LoadStep ==
  ASSUME BaseInv, NEW t \in Worker, Load(t)
  PROVE  BaseInv'
<1> DEFINE S == {<<"block", cur[t]>>} \cup QueuesToLoad(cur[t])
<1>1. /\ at[t] = "taken" /\ ~InMemory(cur[t]) /\ ~Full(t) /\ Get(S)
      /\ local' = [local EXCEPT ![t] = @ \cup {cur[t]}] /\ at' = [at EXCEPT ![t] = "ready"]
      /\ blocks' = blocks /\ cur' = cur /\ UNCHANGED program
  BY DEF Load
<1>2. Shape /\ StorageInv /\ BlocksInv
  BY DEF BaseInv
<1>3. /\ cur[t] \in Block /\ cur[t] # NoBlock /\ local[t] \subseteq loaded /\ exchange_round_ \in 0..Rounds
      /\ cur[t] \notin local[t] /\ Cardinality(local[t]) <= blocks_per_thread /\ phase = "execute"
  BY <1>1, AtThread
<1>4. external_[cur[t]] # None
  BY <1>1, <1>2, <1>3 DEF BlocksInv, Added
<1>5. <<"block", cur[t]>> \in Outside
  BY <1>3, <1>4, BlockPlace, OutsidePlaces
<1>6. QueuesToLoad(cur[t]) \in SUBSET Outside /\ \A c : <<"block", c>> \notin QueuesToLoad(cur[t])
  BY <1>3, LoadPlaces
<1>7. S \in SUBSET Outside /\ \A c : <<"block", c>> \in S <=> c = cur[t]
  BY <1>5, <1>6, PlacesDiffer
<1> HIDE DEF S
<1>8. /\ Domains' /\ StorageInv' /\ BlocksInv'
      /\ \A b \in Block : b \in loaded' <=> b \in loaded \/ b = cur[t]
      /\ \A b \in Block : b \in idle' <=> b \in idle
      /\ \A k \in 0..Rounds, l \in ToHere : incoming_[k][l] = NoQueue => incoming_'[k][l] = NoQueue
  BY <1>1, <1>2, <1>7, GetMoves
<1>9. /\ local'[t] = local[t] \cup {cur[t]} /\ at'[t] = "ready"
      /\ \A u \in Worker : u # t => at'[u] = at[u] /\ local'[u] = local[u]
      /\ cur' \in [Worker -> Block \cup {NoBlock}] /\ at' \in [Worker -> {"next", "taken", "ready", "skipped"}]
      /\ local' \in [Worker -> SUBSET Block]
  BY <1>1, <1>2, <1>3 DEF Shape
<1>10. Cardinality(local'[t]) <= blocks_per_thread
  <2>1. Cardinality(local[t] \cup {cur[t]}) <= blocks_per_thread
    BY <1>1, <1>2, <1>3, BlocksPerThread
  <2> QED
    BY <2>1, <1>9, Zenon
<1>11. local'[t] \subseteq loaded'
  BY <1>2, <1>3, <1>8, <1>9 DEF Shape
<1> QED
  BY <1>1, <1>3, <1>8, <1>9, <1>10, <1>11, ThreadStep

LEMMA UnloadQueuesStep ==
  ASSUME BaseInv, NEW t \in Worker, UnloadQueues(t)
  PROVE  BaseInv'
<1>1. /\ at[t] = "skipped" /\ Put(LargeQueues(cur[t]))
      /\ at' = [at EXCEPT ![t] = "next"] /\ cur' = [cur EXCEPT ![t] = NoBlock]
      /\ blocks' = blocks /\ local' = local /\ UNCHANGED program
  BY DEF UnloadQueues
<1>2. Shape /\ StorageInv /\ BlocksInv
  BY DEF BaseInv
<1>3. /\ cur[t] \in Block /\ cur[t] # NoBlock /\ local[t] \subseteq loaded /\ cur[t] \notin loaded
      /\ cur[t] \notin local[t] /\ Cardinality(local[t]) <= blocks_per_thread
  BY <1>1, AtThread
<1>4. /\ Domains' /\ StorageInv' /\ BlocksInv'
      /\ loaded' = loaded
      /\ \A b \in Block \ {cur[t]} : b \in idle' <=> b \in idle
      /\ \A k \in 0..Rounds, l \in ToHere : incoming_[k][l] = NoQueue => incoming_'[k][l] = NoQueue
  BY <1>1, <1>2, <1>3, UnloadQueuesMoves
<1>5. /\ at'[t] = "next" /\ cur'[t] = NoBlock
      /\ \A u \in Worker : u # t => at'[u] = at[u] /\ cur'[u] = cur[u]
      /\ cur' \in [Worker -> Block \cup {NoBlock}] /\ at' \in [Worker -> {"next", "taken", "ready", "skipped"}]
      /\ local' \in [Worker -> SUBSET Block]
  BY <1>1, <1>2 DEF Shape
<1>6. NoBlock \notin local'[t]
  BY <1>1, <1>2, OutOfCoreAssumption DEF Shape
<1> QED
  BY <1>1, <1>3, <1>4, <1>5, <1>6, ThreadStep

LEMMA TakeStep ==
  ASSUME BaseInv, NEW t \in Worker, Take(t)
  PROVE  BaseInv'
<1>1. /\ at[t] = "next" /\ blocks # <<>> /\ phase = "execute" /\ blocks' = Tail(blocks)
      /\ cur' = [cur EXCEPT ![t] = Head(blocks)] /\ at' = [at EXCEPT ![t] = "taken"] /\ local' = local
      /\ UNCHANGED <<elements_, external_, outgoing_, incoming_, files>> /\ UNCHANGED program
  BY DEF Take, stored
<1>2. Shape /\ StorageInv /\ BlocksInv /\ ThreadsInv /\ LoadedFirst /\ QueuesInv
  BY DEF BaseInv
<1>3. UNCHANGED <<phase, called, commands_, exchange_round_, gid_order>>
  BY <1>1 DEF program
<1>4. /\ Head(blocks) = blocks[1] /\ 1 \in DOMAIN blocks /\ blocks' \in Seq(Block) /\ blocks[1] \in Block
      /\ DOMAIN blocks' = 1..(Len(blocks) - 1) /\ DOMAIN blocks = 1..Len(blocks) /\ Len(blocks) \in Nat
      /\ \A i \in DOMAIN blocks' : blocks'[i] = blocks[i + 1]
  BY <1>1, <1>2 DEF Shape
<1>5. Shape'
  BY <1>1, <1>2, <1>3, <1>4 DEF Shape
<1>6. /\ cur'[t] = blocks[1] /\ at'[t] = "taken"
      /\ \A u \in Worker : u # t => at'[u] = at[u] /\ cur'[u] = cur[u]
  BY <1>1, <1>2, <1>4 DEF Shape
<1>7. loaded' = loaded /\ idle' = idle
  BY <1>1, <1>3 DEF loaded, idle, InMemory, AllSkip, HasIncoming
<1>8. StorageInv' /\ BlocksInv'
  BY <1>1, <1>2, <1>3 DEF StorageInv, BlocksInv, InMemory, Added, Outside, Places, FileOf, RecordAt
<1>9. blocks[1] \in ToSet(blocks) /\ blocks[1] \notin ToSet(blocks') /\ ToSet(blocks) = ToSet(blocks') \cup {blocks[1]}
  <2>1. \A i, j \in DOMAIN blocks : blocks[i] = blocks[j] => i = j
    BY <1>2 DEF ThreadsInv
  <2>2. \A i \in DOMAIN blocks : i # 1 => i - 1 \in DOMAIN blocks' /\ blocks'[i - 1] = blocks[i]
    BY <1>4
  <2>3. \A i \in DOMAIN blocks' : i + 1 \in DOMAIN blocks /\ i + 1 # 1
    BY <1>4
  <2>4. blocks[1] \notin ToSet(blocks')
    BY <1>4, <2>1, <2>3 DEF ToSet
  <2>5. ToSet(blocks') \subseteq ToSet(blocks)
    BY <1>4, <2>3 DEF ToSet
  <2>6. ToSet(blocks) \subseteq ToSet(blocks') \cup {blocks[1]}
    BY <1>4, <2>2 DEF ToSet
  <2>7. blocks[1] \in ToSet(blocks)
    BY <1>4 DEF ToSet
  <2> QED
    BY <2>4, <2>5, <2>6, <2>7
<1>10. ThreadsInv'
  <2>1. \A i, j \in DOMAIN blocks' : blocks'[i] = blocks'[j] => i = j
    <3> SUFFICES ASSUME NEW i \in DOMAIN blocks', NEW j \in DOMAIN blocks', blocks'[i] = blocks'[j] PROVE i = j
      OBVIOUS
    <3>1. i + 1 \in DOMAIN blocks /\ j + 1 \in DOMAIN blocks /\ blocks[i + 1] = blocks[j + 1] /\ i \in Int /\ j \in Int
      BY <1>4
    <3>2. i + 1 = j + 1
      BY <1>2, <3>1 DEF ThreadsInv
    <3> QED
      BY <3>1, <3>2
  <2>2. \A u \in Worker : local[u] \cap ToSet(blocks) = {} /\ cur[u] \notin ToSet(blocks) /\ ThreadOK(u)
    BY <1>2 DEF ThreadsInv, ThreadOK
  <2>3. blocks[1] # NoBlock
    BY <1>4, OutOfCoreAssumption
  <2>4. ASSUME NEW u \in Worker PROVE ThreadOK(u)'
    BY <1>1, <1>6, <1>7, <1>9, <2>2, <2>3 DEF ThreadOK
  <2>5. ASSUME NEW u \in Worker, NEW v \in Worker, u # v PROVE Apart(u, v)'
    <3>1. Apart(u, v)
      BY <1>2, <2>5 DEF ThreadsInv
    <3> QED
      BY <3>1, <1>1, <1>6, <1>9, <2>2, <2>5 DEF Apart
  <2> QED
    BY <1>1, <1>3, <2>1, <2>4, <2>5 DEF ThreadsInv
<1>11. LoadedFirst'
  <2>1. \A i, j \in DOMAIN blocks' : i < j /\ blocks'[j] \in loaded' => blocks'[i] \in loaded'
    <3> SUFFICES ASSUME NEW i \in DOMAIN blocks', NEW j \in DOMAIN blocks', i < j, blocks'[j] \in loaded'
                 PROVE  blocks'[i] \in loaded'
      OBVIOUS
    <3>1. /\ i + 1 \in DOMAIN blocks /\ j + 1 \in DOMAIN blocks /\ i + 1 < j + 1
          /\ blocks'[i] = blocks[i + 1] /\ blocks'[j] = blocks[j + 1]
      BY <1>4
    <3> QED
      BY <1>2, <1>7, <3>1 DEF LoadedFirst
  <2>2. blocks[1] \notin loaded => ToSet(blocks) \cap loaded = {}
    <3> SUFFICES ASSUME blocks[1] \notin loaded, NEW j \in DOMAIN blocks, blocks[j] \in loaded PROVE FALSE
      BY DEF ToSet
    <3>1. 1 < j
      BY <1>4
    <3> QED
      BY <1>2, <1>4, <3>1 DEF LoadedFirst
  <2>3. ASSUME NEW u \in Worker, at'[u] = "taken", cur'[u] \notin loaded' PROVE ToSet(blocks') \cap loaded' = {}
    BY <1>2, <1>6, <1>7, <1>9, <2>2, <2>3 DEF LoadedFirst
  <2>4. \A b \in loaded' : \/ b \in ToSet(blocks')
                           \/ \E u \in Worker : b = cur'[u] /\ at'[u] = "taken"
                           \/ \E u \in Worker : b \in local'[u]
    BY <1>1, <1>2, <1>6, <1>7, <1>9 DEF LoadedFirst
  <2> QED
    BY <1>1, <1>2, <2>1, <2>3, <2>4 DEF LoadedFirst
<1>12. QueuesInv'
  <2>1. ASSUME NEW l \in ToHere, ToRun(l[2]) PROVE ToRun(l[2])'
    <3>1. CASE l[2] \in ToSet(blocks)
      BY <3>1, <1>3, <1>6, <1>9 DEF ToRun
    <3>2. CASE l[2] \notin ToSet(blocks)
      <4>1. PICK u \in Worker : cur[u] = l[2] /\ at[u] \in {"taken", "ready"}
        BY <2>1, <3>2, <1>1 DEF ToRun
      <4>2. u # t
        BY <4>1, <1>1
      <4> QED
        BY <4>1, <4>2, <1>6 DEF ToRun
    <3> QED
      BY <3>1, <3>2
  <2>2. \A k \in 0..Rounds, l \in ToHere : incoming_[k][l] = NoQueue => incoming_'[k][l] = NoQueue
    BY <1>1
  <2> QED
    BY <1>1, <1>2, <1>3, <2>1, <2>2, QueuesFrame
<1> QED
  BY <1>5, <1>8, <1>10, <1>11, <1>12 DEF BaseInv

\* A step that changes queues in memory, and forgets some that are in files.
LEMMA FewerFiles ==
  ASSUME StorageInv, files' = files, external_' = external_,
         \A l \in FromHere : outgoing_'[l] = outgoing_[l] \/ outgoing_'[l].external_ = None,
         \A k \in 0..Rounds, l \in ToHere : incoming_'[k][l] = incoming_[k][l] \/ incoming_'[k][l].external_ = None
  PROVE  /\ StorageInv'
         /\ \A x \in Outside' : x \in Outside /\ FileOf(x)' = FileOf(x)
<1>1. ASSUME NEW x \in AllPlaces, FileOf(x)' # None
      PROVE  FileOf(x)' = FileOf(x) /\ (x[1] # "block" => RecordAt(x)' = RecordAt(x))
  <2>1. CASE \E b \in Block : x = <<"block", b>>
    BY <2>1 DEF FileOf
  <2>2. CASE \E l \in FromHere : x = <<"out", l>>
    BY <1>1, <2>2 DEF FileOf, RecordAt
  <2>3. CASE \E k \in 0..Rounds, l \in ToHere : x = <<"in", k, l>>
    BY <1>1, <2>3 DEF FileOf, RecordAt
  <2> QED
    BY <2>1, <2>2, <2>3, PlaceForms
<1>2. \A x \in Outside' : /\ x \in Outside /\ FileOf(x)' = FileOf(x)
                          /\ x[1] # "block" => RecordAt(x)' = RecordAt(x)
  BY <1>1, OutsidePlaces, OutsideNext
<1> QED
  BY <1>2 DEF StorageInv

\* The block of a thread that runs callbacks stays where it is.
LEMMA RunLoaded ==
  ASSUME BaseInv, NEW t \in Worker, Run(t)
  PROVE  /\ loaded' = loaded
         /\ \A c \in Block : /\ InMemory(c)' <=> InMemory(c)
                             /\ elements_'[c] = Absent \/ elements_'[c].runs \in Nat
         /\ \A c \in Block : c # cur[t] \/ AllSkip(cur[t]) => elements_'[c] = elements_[c]
<1> DEFINE b == cur[t]
           skip == AllSkip(b)
<1>1. /\ at[t] = "ready" /\ external_' = external_ /\ files' = files /\ blocks' = blocks /\ local' = local
      /\ UNCHANGED program
      /\ elements_' = IF skip THEN elements_
                      ELSE [elements_ EXCEPT ![b] =
                              [runs |-> @.runs + Len(commands_),
                               read |-> [l \in In(b) |-> elements_[b].read[l]
                                                         + Len(Moved(incoming_[exchange_round_][l]))]]]
      /\ \E to \in Sendings(b) :
           outgoing_' = [l \in FromHere |->
             IF l[1] # b \/ (outgoing_[l] = NoQueue /\ Mail(to, l[2]) = <<>>) THEN outgoing_[l]
             ELSE QueueRecord(Moved(outgoing_[l]) \o Mail(to, l[2]))]
      /\ incoming_' = [incoming_ EXCEPT ![exchange_round_] = [l \in ToHere |-> IF l[2] = b THEN NoQueue ELSE @[l]]]
      /\ at' = [at EXCEPT ![t] = IF skip /\ ~InMemory(b) THEN "skipped" ELSE "next"]
      /\ cur' = [cur EXCEPT ![t] = IF skip /\ ~InMemory(b) THEN b ELSE NoBlock]
  BY DEF Run
<1>2. Shape /\ StorageInv /\ BlocksInv
  BY DEF BaseInv
<1>3. /\ b \in Block /\ b # NoBlock /\ local[t] \subseteq loaded /\ exchange_round_ \in 0..Rounds
      /\ Cardinality(local[t]) <= blocks_per_thread /\ b \in local[t] \cup (idle \ loaded)
  BY <1>1, AtThread
<1>4. (b \in idle <=> skip) /\ (b \in loaded <=> InMemory(b))
  BY <1>3 DEF idle, loaded
<1> HIDE DEF b, skip
<1>5. ~skip => InMemory(b) /\ elements_[b].runs \in Nat /\ Len(commands_) \in Nat /\ elements_'[b].runs \in Nat
  <2> SUFFICES ASSUME ~skip
               PROVE  InMemory(b) /\ elements_[b].runs \in Nat /\ Len(commands_) \in Nat /\ elements_'[b].runs \in Nat
    OBVIOUS
  <2>1. InMemory(b) /\ elements_[b].runs \in Nat
    BY <1>2, <1>3, <1>4 DEF BlocksInv, InMemory
  <2>2. Len(commands_) \in Nat
    BY <1>2 DEF Shape
  <2>3. elements_'[b].runs = elements_[b].runs + Len(commands_)
    BY <1>1, <1>2, <1>3 DEF Shape
  <2> QED
    BY <2>1, <2>2, <2>3
<1>6. \A c \in Block : c # b \/ skip => elements_'[c] = elements_[c]
  BY <1>1, <1>2 DEF Shape
<1>7. \A c \in Block : /\ InMemory(c)' <=> InMemory(c)
                       /\ elements_'[c] = Absent \/ elements_'[c].runs \in Nat
  <2>1. ~skip => elements_'[b] # Absent /\ InMemory(b) /\ elements_'[b].runs \in Nat
    BY <1>5 DEF Absent
  <2> QED
    BY <1>2, <1>6, <2>1 DEF InMemory, BlocksInv
<1>8. loaded' = loaded
  BY <1>7 DEF loaded
<1> QED
  BY <1>6, <1>7, <1>8 DEF b, skip

LEMMA RunStep ==
  ASSUME BaseInv, NEW t \in Worker, Run(t)
  PROVE  BaseInv'
<1> DEFINE b == cur[t]
           skip == AllSkip(b)
<1>1. /\ at[t] = "ready" /\ external_' = external_ /\ files' = files /\ blocks' = blocks /\ local' = local
      /\ UNCHANGED program
      /\ elements_' = IF skip THEN elements_
                      ELSE [elements_ EXCEPT ![b] =
                              [runs |-> @.runs + Len(commands_),
                               read |-> [l \in In(b) |-> elements_[b].read[l]
                                                         + Len(Moved(incoming_[exchange_round_][l]))]]]
      /\ \E to \in Sendings(b) :
           outgoing_' = [l \in FromHere |->
             IF l[1] # b \/ (outgoing_[l] = NoQueue /\ Mail(to, l[2]) = <<>>) THEN outgoing_[l]
             ELSE QueueRecord(Moved(outgoing_[l]) \o Mail(to, l[2]))]
      /\ incoming_' = [incoming_ EXCEPT ![exchange_round_] = [l \in ToHere |-> IF l[2] = b THEN NoQueue ELSE @[l]]]
      /\ at' = [at EXCEPT ![t] = IF skip /\ ~InMemory(b) THEN "skipped" ELSE "next"]
      /\ cur' = [cur EXCEPT ![t] = IF skip /\ ~InMemory(b) THEN b ELSE NoBlock]
  BY DEF Run
<1>2. Shape /\ StorageInv /\ BlocksInv
  BY DEF BaseInv
<1>3. /\ b \in Block /\ b # NoBlock /\ local[t] \subseteq loaded /\ exchange_round_ \in 0..Rounds
      /\ Cardinality(local[t]) <= blocks_per_thread /\ b \in local[t] \cup (idle \ loaded)
  BY <1>1, AtThread
<1>4. (b \in idle <=> skip) /\ (b \in loaded <=> InMemory(b))
  BY <1>3 DEF idle, loaded
<1> HIDE DEF b, skip
<1>7. \A c \in Block : /\ InMemory(c)' <=> InMemory(c)
                       /\ elements_'[c] = Absent \/ elements_'[c].runs \in Nat
  BY RunLoaded
<1>8. loaded' = loaded
  BY RunLoaded
<1>9. /\ \A l \in FromHere : outgoing_'[l] = outgoing_[l] \/ outgoing_'[l].external_ = None
      /\ \A k \in 0..Rounds, l \in ToHere :
           incoming_'[k][l] = IF k = exchange_round_ /\ l[2] = b THEN NoQueue ELSE incoming_[k][l]
      /\ Domains'
  BY <1>1, <1>2, <1>3 DEF QueueRecord, Domains, Shape
<1>10. \A k \in 0..Rounds, l \in ToHere : incoming_'[k][l] = incoming_[k][l] \/ incoming_'[k][l].external_ = None
  BY <1>9 DEF NoQueue
<1>11. StorageInv'
  BY <1>1, <1>2, <1>9, <1>10, FewerFiles
<1>12. BlocksInv'
  <2>1. phase' = phase
    BY <1>1 DEF program
  <2> QED
    BY <1>1, <1>2, <1>7, <2>1 DEF BlocksInv, Added
<1>13. \A c \in Block : c # b => (c \in idle' <=> c \in idle)
  <2> SUFFICES ASSUME NEW c \in Block, c # b PROVE c \in idle' <=> c \in idle
    OBVIOUS
  <2>1. exchange_round_' = exchange_round_ /\ commands_' = commands_
    BY <1>1 DEF program
  <2>2. \A l \in In(c) : l \in ToHere /\ l[2] # b
    BY DEF In, ToHere
  <2>3. \A l \in In(c) : SizeOf(incoming_'[exchange_round_][l]) = SizeOf(incoming_[exchange_round_][l])
    BY <1>3, <1>9, <2>2
  <2> QED
    BY <2>1, <2>3, SameSkip
<1>14. /\ at'[t] = (IF skip /\ ~InMemory(b) THEN "skipped" ELSE "next")
       /\ cur'[t] = (IF skip /\ ~InMemory(b) THEN b ELSE NoBlock)
       /\ \A u \in Worker : u # t => at'[u] = at[u] /\ cur'[u] = cur[u]
       /\ cur' \in [Worker -> Block \cup {NoBlock}] /\ at' \in [Worker -> {"next", "taken", "ready", "skipped"}]
       /\ local' \in [Worker -> SUBSET Block]
  BY <1>1, <1>2, <1>3 DEF Shape
<1>15. /\ NoBlock \notin local'[t] /\ (b \in loaded => b \in local[t]) /\ (b \notin loaded => b \notin local'[t])
  BY <1>1, <1>2, <1>3, OutOfCoreAssumption DEF Shape
<1>16. \A k \in 0..Rounds, l \in ToHere : incoming_[k][l] = NoQueue => incoming_'[k][l] = NoQueue
  BY <1>9
<1>17. \A l \in ToHere : l[2] = cur[t] => incoming_'[exchange_round_][l] = NoQueue
  BY <1>3, <1>9 DEF b
<1>18. cur[t] = b
  BY DEF b
<1>19. /\ \A c \in Block : c # cur[t] /\ c \notin local[t] => (c \in loaded' <=> c \in loaded) /\ (c \in idle' <=> c \in idle)
       /\ cur'[t] = cur[t] \/ cur'[t] = NoBlock
       /\ local'[t] \subseteq local[t] \cup {cur[t]} /\ local'[t] \subseteq loaded'
       /\ Cardinality(local'[t]) <= blocks_per_thread
       /\ at'[t] = "next" <=> cur'[t] = NoBlock
       /\ cur'[t] \notin local'[t] /\ at'[t] \in {"next", "skipped"}
       /\ at'[t] = "skipped" => cur'[t] \notin loaded'
       /\ \A c \in local[t] \cup {cur[t]} : c \in loaded' => c \in local'[t]
  BY <1>1, <1>3, <1>4, <1>8, <1>13, <1>14, <1>15, <1>18
<1> QED
  BY <1>1, <1>9, <1>11, <1>12, <1>14, <1>16, <1>17, <1>19, ThreadStep

-----------------------------------------------------------------------------
(***************************************************************************)
(* The other steps.                                                        *)
(***************************************************************************)
LEMMA RoomForNone == Cardinality({}) <= blocks_per_thread
<1>1. Cardinality({}) = 0 /\ Cardinality(Block) \in Nat
  BY OutOfCoreAssumption, FS_EmptySet, FS_CardinalityType
<1>2. ASSUME limit_ # -1 PROVE limit_ \div num_threads \in Nat
  <2>1. limit_ \in Nat /\ num_threads \in Nat /\ 1 <= num_threads
    BY <1>2, OutOfCoreAssumption DEF num_threads
  <2> DEFINE L == limit_  n == num_threads
  <2>2. L \in Nat /\ n \in Nat /\ 1 <= n
    BY <2>1
  <2> HIDE DEF L, n
  <2>3. L \div n \in Nat
    BY <2>2
  <2> QED
    BY <2>3 DEF L, n
<1> QED
  BY <1>1, <1>2 DEF blocks_per_thread

LEMMA FinishStep ==
  ASSUME BaseInv, Finish
  PROVE  BaseInv'
<1>1. /\ phase = "execute" /\ blocks = <<>> /\ \A t \in Worker : at[t] = "next"
      /\ incoming_' = [incoming_ EXCEPT ![exchange_round_] = [l \in ToHere |-> NoQueue]]
      /\ phase' \in {"thrown", "foreach"} /\ commands_' = <<>> /\ local' = [t \in Worker |-> {}]
      /\ UNCHANGED <<elements_, external_, outgoing_, files, blocks, cur, at, called, exchange_round_, gid_order>>
  BY DEF Finish
<1>2. Shape /\ StorageInv /\ BlocksInv /\ ThreadsInv /\ QueuesInv
  BY DEF BaseInv
<1>3. Shape'
  BY <1>1, <1>2 DEF Shape
<1>4. \A k \in 0..Rounds, l \in ToHere :
        incoming_'[k][l] = IF k = exchange_round_ THEN NoQueue ELSE incoming_[k][l]
  BY <1>1, <1>2 DEF Shape
<1>5. \A k \in 0..Rounds, l \in ToHere : incoming_'[k][l] = incoming_[k][l] \/ incoming_'[k][l].external_ = None
  BY <1>4 DEF NoQueue
<1>6. StorageInv'
  BY <1>1, <1>2, <1>5, FewerFiles
<1>7. BlocksInv'
  BY <1>1, <1>2 DEF BlocksInv, InMemory, Added
<1>8. \A t \in Worker : local'[t] = {} /\ at'[t] = "next" /\ cur'[t] = NoBlock
  BY <1>1, <1>2 DEF ThreadsInv, ThreadOK
<1>9. ToSet(blocks') = {} /\ DOMAIN blocks' = {}
  BY <1>1 DEF ToSet
<1>10. ThreadsInv'
  <2>1. \A t \in Worker : ThreadOK(t)'
    BY <1>8, <1>9 DEF ThreadOK
  <2>2. \A t, u \in Worker : Apart(t, u)'
    BY <1>8 DEF Apart
  <2> QED
    BY <1>1, <1>8, <1>9, <2>1, <2>2 DEF ThreadsInv
<1>11. LoadedFirst'
  BY <1>1, <1>8, <1>9, RoomForNone DEF LoadedFirst
<1>12. QueuesInv'
  <2>1. gid_order' = {}
    BY <1>1, <1>2 DEF QueuesInv
  <2>2. \A l \in ToHere : incoming_'[exchange_round_'][l] = NoQueue
    BY <1>1, <1>2, <1>4 DEF Shape
  <2>3. \A k \in 0..Rounds, l \in ToHere :
          incoming_'[k][l] # NoQueue => \/ k = exchange_round_' /\ (l \in Inside => ~ToBeSent(l)')
                                        \/ k = exchange_round_' + 1 /\ l \in Early
    BY <1>1, <1>2, <1>4 DEF QueuesInv
  <2> QED
    BY <1>1, <2>1, <2>2, <2>3 DEF QueuesInv
<1> QED
  BY <1>3, <1>6, <1>7, <1>10, <1>11, <1>12 DEF BaseInv

LEMMA OrderedLists ==
  ASSUME NEW s \in Ordered
  PROVE  /\ s \in Seq(Block) /\ ToSet(s) = Block
         /\ \A i, j \in DOMAIN s : s[i] = s[j] => i = j
         /\ \A i, j \in DOMAIN s : i < j => Before(s[i], s[j])
<1> DEFINE n == Cardinality(Block)
<1>1. n \in Nat /\ IsFiniteSet(Block)
  BY OutOfCoreAssumption, FS_CardinalityType
<1>2. s \in [1..n -> Block] /\ (\A i, j \in 1..n : i # j => s[i] # s[j]) /\ (\A i, j \in DOMAIN s : i < j => Before(s[i], s[j]))
  BY DEF Ordered, SetToSeqs
<1>3. s \in Injection(1..n, Block)
  BY <1>2 DEF Injection, IsInjective
<1>4. Cardinality(1..n) = Cardinality(Block)
  <2>1. Cardinality(1..n) = IF 1 > n THEN 0 ELSE n - 1 + 1
    BY <1>1, FS_Interval
  <2>2. Cardinality(1..n) = n
    BY <1>1, <2>1
  <2> QED
    BY <2>2
<1>5. s \in Surjection(1..n, Block)
  BY <1>1, <1>3, <1>4, FS_Injection
<1>6. ToSet(s) = Block
  BY <1>2, <1>5 DEF Surjection, ToSet
<1> QED
  BY <1>1, <1>2, <1>6

\* When no threads run, there is nothing to say about them.
LEMMA NoThreads ==
  ASSUME BaseInv, phase # "execute", phase' # "execute", UNCHANGED threads
  PROVE  ThreadsInv' /\ LoadedFirst'
<1>1. Shape /\ ThreadsInv
  BY DEF BaseInv
<1>2. blocks' = <<>> /\ \A t \in Worker : local'[t] = {} /\ at'[t] = "next" /\ cur'[t] = NoBlock
  BY <1>1 DEF ThreadsInv, ThreadOK, threads
<1>3. ToSet(blocks') = {} /\ DOMAIN blocks' = {}
  BY <1>2 DEF ToSet
<1>4. (\A t \in Worker : ThreadOK(t)') /\ (\A t, u \in Worker : Apart(t, u)')
  BY <1>2, <1>3 DEF ThreadOK, Apart
<1>5. ThreadsInv'
  BY <1>2, <1>3, <1>4 DEF ThreadsInv
<1>6. LoadedFirst'
  BY <1>2, <1>3, RoomForNone DEF LoadedFirst
<1> QED
  BY <1>5, <1>6

\* foreach, set_immediate, exchange: commands are added, and may be executed.
LEMMA ForeachStep ==
  ASSUME BaseInv, phase = "foreach", UNCHANGED <<stored, cur, at, local, exchange_round_, gid_order>>,
         called' \in 0..Foreachs, commands_' \in Seq(1..Foreachs),
         commands_' # <<>> => called' > 0,
         called' > 0 /\ commands_' = <<>> => called > 0 /\ commands_ = <<>>,
         \/ phase' = phase /\ blocks' = blocks
         \/ phase' = "execute" /\ commands_' # <<>> /\ blocks' \in Ordered
  PROVE  BaseInv'
<1>1. UNCHANGED <<elements_, external_, outgoing_, incoming_, files>> /\ UNCHANGED <<cur, at, local, exchange_round_, gid_order>>
  BY DEF stored
<1>2. Shape /\ StorageInv /\ BlocksInv /\ ThreadsInv /\ QueuesInv
  BY DEF BaseInv
<1>3. blocks' \in Ordered => blocks' \in Seq(Block)
  BY OrderedLists
<1>4. Shape'
  BY <1>1, <1>2, <1>3 DEF Shape
<1>5. StorageInv'
  BY <1>1, <1>2, FewerFiles
<1>6. BlocksInv'
  BY <1>1, <1>2 DEF BlocksInv, InMemory, Added
<1>7. CASE phase' = phase /\ blocks' = blocks
  <2>1. ThreadsInv' /\ LoadedFirst'
    BY <1>1, <1>7, NoThreads DEF threads
  <2>2. QueuesInv'
    BY <1>1, <1>2, <1>7 DEF QueuesInv, ToBeSent
  <2> QED
    BY <1>4, <1>5, <1>6, <2>1, <2>2 DEF BaseInv
<1>8. CASE phase' = "execute" /\ commands_' # <<>> /\ blocks' \in Ordered
  <2>1. /\ ToSet(blocks') = Block /\ \A i, j \in DOMAIN blocks' : blocks'[i] = blocks'[j] => i = j
        /\ \A i, j \in DOMAIN blocks' : i < j => Before(blocks'[i], blocks'[j])
    BY <1>8, OrderedLists
  <2>2. \A t \in Worker : local'[t] = {} /\ at'[t] = "next" /\ cur'[t] = NoBlock
    BY <1>1, <1>2 DEF ThreadsInv, ThreadOK
  <2>3. (\A t \in Worker : ThreadOK(t)') /\ (\A t, u \in Worker : Apart(t, u)')
    BY <2>1, <2>2, OutOfCoreAssumption DEF ThreadOK, Apart
  <2>4. ThreadsInv'
    BY <1>8, <2>1, <2>3 DEF ThreadsInv
  <2>5. loaded' = loaded /\ loaded \subseteq Block
    BY <1>1 DEF loaded, InMemory
  <2>6. \A i, j \in DOMAIN blocks' : i < j /\ blocks'[j] \in loaded' => blocks'[i] \in loaded'
    <3> SUFFICES ASSUME NEW i \in DOMAIN blocks', NEW j \in DOMAIN blocks', i < j, blocks'[j] \in loaded'
                 PROVE  blocks'[i] \in loaded'
      OBVIOUS
    <3> DEFINE b == blocks'[i]  c == blocks'[j]
    <3>1. Before(b, c)
      BY <2>1
    <3>2. b \in Block /\ c \in loaded
      BY <2>1, <2>5 DEF ToSet
    <3> HIDE DEF b, c
    <3>3. b \in loaded
      BY <3>1, <3>2 DEF Before, loaded
    <3> QED
      BY <2>5, <3>3 DEF b
  <2>7. LoadedFirst'
    BY <2>1, <2>2, <2>5, <2>6, RoomForNone DEF LoadedFirst
  <2>8. QueuesInv'
    <3>1. \A l \in ToHere : ToRun(l[2])'
      BY <2>1 DEF ToRun, ToHere
    <3> QED
      BY <1>1, <1>2, <1>8, <3>1 DEF QueuesInv, ToBeSent
  <2> QED
    BY <1>4, <1>5, <1>6, <2>4, <2>7, <2>8 DEF BaseInv
<1> QED
  BY <1>7, <1>8

LEMMA CommandSteps ==
  ASSUME BaseInv, Foreach \/ (\E i \in BOOLEAN : SetImmediate(i)) \/ ExecutePending
  PROVE  BaseInv'
<1>1. Shape /\ QueuesInv
  BY DEF BaseInv
<1>2. CASE Foreach
  <2>1. /\ phase = "foreach" /\ called' = called + 1 /\ called < Foreachs /\ commands_' = Append(commands_, called')
        /\ called \in 0..Foreachs /\ commands_ \in Seq(1..Foreachs) /\ Foreachs \in Nat
    BY <1>1, <1>2, OutOfCoreAssumption DEF Foreach, Shape
  <2>2. called' \in 1..Foreachs /\ commands_' \in Seq(1..Foreachs) /\ commands_' # <<>>
    BY <2>1
  <2> QED
    BY <1>2, <2>1, <2>2, ForeachStep DEF Foreach
<1>3. CASE \E i \in BOOLEAN : SetImmediate(i)
  <2> SUFFICES ASSUME NEW i \in BOOLEAN, SetImmediate(i) PROVE BaseInv'
    BY <1>3
  <2>1. /\ phase = "foreach" /\ UNCHANGED <<called, commands_>>
        /\ called \in 0..Foreachs /\ commands_ \in Seq(1..Foreachs) /\ (commands_ # <<>> => called > 0)
    BY <1>1 DEF SetImmediate, Shape, QueuesInv
  <2> QED
    BY <2>1, ForeachStep DEF SetImmediate
<1>4. CASE ExecutePending
  <2>1. /\ phase = "foreach" /\ UNCHANGED <<called, commands_>> /\ commands_ # <<>>
        /\ called \in 0..Foreachs /\ commands_ \in Seq(1..Foreachs) /\ (commands_ # <<>> => called > 0)
    BY <1>1, <1>4 DEF ExecutePending, Shape, QueuesInv
  <2> QED
    BY <1>4, <2>1, ForeachStep DEF ExecutePending
<1> QED
  BY <1>2, <1>3, <1>4

LEMMA UnloadAllStep ==
  ASSUME BaseInv, UnloadAll
  PROVE  BaseInv'
<1>1. phase = "add" /\ Unload(loaded) /\ UNCHANGED threads /\ UNCHANGED program
  BY DEF UnloadAll
<1>2. Shape /\ StorageInv /\ BlocksInv /\ QueuesInv
  BY DEF BaseInv
<1>3. /\ UNCHANGED <<phase, called, commands_, exchange_round_, gid_order>> /\ UNCHANGED <<blocks, cur, at, local>>
  BY <1>1 DEF program, threads
<1>4. loaded \in SUBSET Block /\ \A b \in loaded : InMemory(b)
  BY DEF loaded
<1>5. /\ Domains' /\ StorageInv' /\ BlocksInv'
      /\ \A l \in FromHere : outgoing_'[l] = outgoing_[l] \/ outgoing_[l] # NoQueue
      /\ \A k \in 0..Rounds, l \in ToHere : incoming_'[k][l] = incoming_[k][l] \/ incoming_[k][l] # NoQueue
  BY <1>1, <1>2, <1>3, <1>4, UnloadEffect
<1>6. Shape'
  BY <1>2, <1>3, <1>5 DEF Shape, Domains
<1>7. ThreadsInv' /\ LoadedFirst'
  BY <1>1, <1>3, NoThreads
<1>8. QueuesInv'
  <2>1. \A k \in 0..Rounds, l \in ToHere :
          incoming_'[k][l] # NoQueue => \/ k = exchange_round_ /\ (l \in Inside => ~ToBeSent(l))
                                        \/ k = exchange_round_ + 1 /\ l \in Early
    BY <1>2, <1>5 DEF QueuesInv
  <2>2. \A l \in ToHere : incoming_'[exchange_round_][l] = NoQueue
    BY <1>1, <1>2, <1>5 DEF QueuesInv, Shape
  <2>3. \A l \in FromHere : ~ToBeSent(l) => outgoing_'[l] = NoQueue
    BY <1>1, <1>2, <1>5 DEF QueuesInv
  <2> QED
    BY <1>1, <1>2, <1>3, <2>1, <2>2, <2>3 DEF QueuesInv, ToBeSent
<1> QED
  BY <1>5, <1>6, <1>7, <1>8 DEF BaseInv

LEMMA AddStep ==
  ASSUME BaseInv, NEW b \in Block, Add(b)
  PROVE  BaseInv'
<1>1. /\ phase = "add" /\ ~Added(b) /\ elements_' = [elements_ EXCEPT ![b] = NewBlock(b)]
      /\ phase' = (IF \A c \in Block \ {b} : Added(c) THEN "foreach" ELSE phase)
      /\ UNCHANGED <<external_, outgoing_, incoming_, files, threads, called, commands_, exchange_round_, gid_order>>
  BY DEF Add
<1>2. Shape /\ StorageInv /\ BlocksInv /\ QueuesInv
  BY DEF BaseInv
<1>3. UNCHANGED <<blocks, cur, at, local>>
  BY <1>1 DEF threads
<1>4. Shape'
  BY <1>1, <1>2, <1>3 DEF Shape
<1>5. StorageInv'
  BY <1>1, <1>2, FewerFiles
<1>6. /\ elements_'[b].runs \in Nat /\ elements_'[b] # Absent /\ external_[b] = None
      /\ \A c \in Block : c # b => elements_'[c] = elements_[c]
  <2>1. elements_'[b] = NewBlock(b) /\ \A c \in Block : c # b => elements_'[c] = elements_[c]
    BY <1>1, <1>2 DEF Shape
  <2>2. NewBlock(b).runs = 0 /\ Absent.runs = -1
    BY DEF NewBlock, Absent
  <2>3. NewBlock(b) # Absent
    BY <2>2
  <2> QED
    BY <1>1, <2>1, <2>2, <2>3 DEF Added
<1>7. BlocksInv'
  BY <1>1, <1>2, <1>6 DEF BlocksInv, InMemory, Added
<1>8. ThreadsInv' /\ LoadedFirst'
  BY <1>1, NoThreads
<1>9. QueuesInv'
  BY <1>1, <1>2 DEF QueuesInv, ToBeSent
<1> QED
  BY <1>4, <1>5, <1>7, <1>8, <1>9 DEF BaseInv

LEMMA BeginExchangeStep ==
  ASSUME BaseInv, BeginExchange
  PROVE  BaseInv'
<1>1. /\ phase = "foreach" /\ commands_ = <<>> /\ exchange_round_ < Rounds
      /\ outgoing_' = [l \in FromHere |-> IF outgoing_[l] = NoQueue THEN QueueRecord(<<>>) ELSE outgoing_[l]]
      /\ incoming_' = [incoming_ EXCEPT ![exchange_round_] = [l \in ToHere |-> NoQueue]]
      /\ exchange_round_' = exchange_round_ + 1 /\ called' = 0 /\ gid_order' = Block /\ phase' = "flush"
      /\ UNCHANGED <<elements_, external_, files, threads, commands_>>
  BY DEF BeginExchange
<1>2. Shape /\ StorageInv /\ BlocksInv /\ QueuesInv
  BY DEF BaseInv
<1>3. /\ UNCHANGED <<blocks, cur, at, local>> /\ exchange_round_ \in 0..Rounds /\ exchange_round_' \in 0..Rounds
      /\ 0 \in 0..Foreachs
  BY <1>1, <1>2, OutOfCoreAssumption DEF threads, Shape
<1>4. /\ \A l \in FromHere : outgoing_'[l] = outgoing_[l] \/ outgoing_'[l].external_ = None
      /\ \A k \in 0..Rounds, l \in ToHere :
           incoming_'[k][l] = IF k = exchange_round_ THEN NoQueue ELSE incoming_[k][l]
      /\ Shape'
  BY <1>1, <1>2, <1>3 DEF QueueRecord, Shape
<1>5. \A k \in 0..Rounds, l \in ToHere : incoming_'[k][l] = incoming_[k][l] \/ incoming_'[k][l].external_ = None
  BY <1>4 DEF NoQueue
<1>6. StorageInv'
  BY <1>1, <1>2, <1>4, <1>5, FewerFiles
<1>7. BlocksInv'
  BY <1>1, <1>2 DEF BlocksInv, InMemory, Added
<1>8. ThreadsInv' /\ LoadedFirst'
  BY <1>1, NoThreads
<1>9. QueuesInv'
  <2>1. \A l \in FromHere : ToBeSent(l)'
    BY <1>1 DEF ToBeSent, FromHere
  <2>2. ASSUME NEW k \in 0..Rounds, NEW l \in ToHere, incoming_'[k][l] # NoQueue
        PROVE  k = exchange_round_' /\ (l \in Inside => ~ToBeSent(l)')
    <3>1. k = exchange_round_ + 1 /\ l \in Early
      BY <1>2, <1>4, <2>2 DEF QueuesInv
    <3>2. l \notin Inside
      BY <3>1, OutOfCoreAssumption DEF Inside
    <3> QED
      BY <1>1, <3>1, <3>2
  <2> QED
    BY <1>1, <2>1, <2>2 DEF QueuesInv
<1> QED
  BY <1>4, <1>6, <1>7, <1>8, <1>9 DEF BaseInv

LEMMA LoadOutgoingStep ==
  ASSUME BaseInv, NEW b \in Block, LoadOutgoing(b)
  PROVE  BaseInv'
<1>1. phase = "flush" /\ b \in gid_order /\ Get(OutgoingToLoad(b)) /\ UNCHANGED threads /\ UNCHANGED program
  BY DEF LoadOutgoing
<1>2. Shape /\ StorageInv /\ BlocksInv /\ QueuesInv
  BY DEF BaseInv
<1>3. UNCHANGED <<phase, called, commands_, exchange_round_, gid_order>> /\ UNCHANGED <<blocks, cur, at, local>>
  BY <1>1 DEF program, threads
<1>4. /\ OutgoingToLoad(b) \in SUBSET Outside
      /\ \A l : <<"out", l>> \in OutgoingToLoad(b) => l \in FromHere /\ l[1] = b
  BY <1>2, LoadPlaces DEF Shape
<1>5. /\ Domains' /\ StorageInv' /\ BlocksInv'
      /\ \A k \in 0..Rounds, l \in ToHere : incoming_[k][l] = NoQueue => incoming_'[k][l] = NoQueue
  BY <1>1, <1>2, <1>4, GetMoves
<1>6. \A l \in FromHere : l[1] # b => outgoing_'[l] = outgoing_[l]
  BY <1>1, <1>2, <1>4, GetQueues
<1>7. Shape'
  BY <1>2, <1>3, <1>5 DEF Shape, Domains
<1>8. ThreadsInv' /\ LoadedFirst'
  BY <1>1, <1>3, NoThreads
<1>9. QueuesInv'
  <2>1. \A k \in 0..Rounds, l \in ToHere :
          incoming_'[k][l] # NoQueue => \/ k = exchange_round_ /\ (l \in Inside => ~ToBeSent(l))
                                        \/ k = exchange_round_ + 1 /\ l \in Early
    BY <1>2, <1>5 DEF QueuesInv
  <2>2. \A l \in FromHere : ~ToBeSent(l) => outgoing_'[l] = NoQueue
    BY <1>1, <1>2, <1>6 DEF QueuesInv, ToBeSent
  <2> QED
    BY <1>1, <1>2, <1>3, <2>1, <2>2 DEF QueuesInv, ToBeSent
<1> QED
  BY <1>5, <1>7, <1>8, <1>9 DEF BaseInv

LEMMA EndExchangeStep ==
  ASSUME BaseInv, EndExchange
  PROVE  BaseInv'
<1>1. /\ phase = "flush" /\ gid_order = {} /\ outgoing_' = [l \in FromHere |-> NoQueue] /\ phase' = "foreach"
      /\ UNCHANGED <<elements_, external_, incoming_, files, threads, called, commands_, exchange_round_, gid_order>>
  BY DEF EndExchange
<1>2. Shape /\ StorageInv /\ BlocksInv /\ QueuesInv
  BY DEF BaseInv
<1>3. UNCHANGED <<blocks, cur, at, local>> /\ \A l \in FromHere : outgoing_'[l].external_ = None
  BY <1>1 DEF threads, NoQueue
<1>4. Shape'
  BY <1>1, <1>2, <1>3 DEF Shape
<1>5. StorageInv'
  BY <1>1, <1>2, <1>3, FewerFiles
<1>6. BlocksInv'
  BY <1>1, <1>2 DEF BlocksInv, InMemory, Added
<1>7. ThreadsInv' /\ LoadedFirst'
  BY <1>1, NoThreads
<1>8. QueuesInv'
  BY <1>1, <1>2 DEF QueuesInv, ToBeSent
<1> QED
  BY <1>4, <1>5, <1>6, <1>7, <1>8 DEF BaseInv

\* A step that moves what is in files to other places, by g, and writes what is
\* at the places S to new files.
FileMoves(S, g) ==
  /\ S \in SUBSET AllPlaces /\ IsFiniteSet(S)
  /\ \A x \in Outside' \ S : /\ g[x] \in Outside /\ FileOf(x)' = FileOf(g[x])
                             /\ x[1] # "block" => g[x][1] # "block" /\ RecordAt(x)' = RecordAt(g[x])
  /\ \A x, y \in Outside' \ S : g[x] = g[y] => x = y
  /\ \A x \in S : /\ FileOf(x)' # None /\ FileOf(x)' \notin DOMAIN files
                  /\ x[1] # "block" => RecordAt(x)'.size_ = Len(files'[FileOf(x)'])
  /\ \A x, y \in S : FileOf(x)' = FileOf(y)' => x = y
  /\ \A n : n \in DOMAIN files' <=> n \in DOMAIN files \/ \E x \in S : n = FileOf(x)'
  /\ \A n \in DOMAIN files : files'[n] = files[n]

LEMMA FilesMoved ==
  ASSUME StorageInv, NEW S, NEW g, FileMoves(S, g)
  PROVE  /\ StorageInv'
         /\ NoneLost /\ (\A y \in Outside : \E x \in Outside' \ S : g[x] = y) => NoneLost'
<1>0. /\ S \in SUBSET AllPlaces /\ IsFiniteSet(S)
      /\ \A x \in Outside' \ S : /\ g[x] \in Outside /\ FileOf(x)' = FileOf(g[x])
                                 /\ x[1] # "block" => g[x][1] # "block" /\ RecordAt(x)' = RecordAt(g[x])
      /\ \A x, y \in Outside' \ S : g[x] = g[y] => x = y
      /\ \A x \in S : /\ FileOf(x)' # None /\ FileOf(x)' \notin DOMAIN files
                      /\ x[1] # "block" => RecordAt(x)'.size_ = Len(files'[FileOf(x)'])
      /\ \A x, y \in S : FileOf(x)' = FileOf(y)' => x = y
      /\ \A n : n \in DOMAIN files' <=> n \in DOMAIN files \/ \E x \in S : n = FileOf(x)'
      /\ \A n \in DOMAIN files : files'[n] = files[n]
  BY DEF FileMoves
<1> DEFINE F == DOMAIN files
           new == {FileOf(x)' : x \in S}
<1>1. /\ IsFiniteSet(F) /\ None \notin F
      /\ \A x \in Outside : FileOf(x) \in F
      /\ \A x, y \in Outside : FileOf(x) = FileOf(y) => x = y
      /\ \A x \in Outside : x[1] # "block" => RecordAt(x).size_ = Len(files[FileOf(x)])
  BY DEF StorageInv
<1>2. IsFiniteSet(new)
  <2> DEFINE h == [x \in S |-> FileOf(x)']
  <2>1. h \in Surjection(S, new)
    BY Fun_RangeProperties DEF Surjection
  <2> HIDE DEF h, new
  <2> QED
    BY <1>0, <2>1, FS_Surjection
<1>3. IsFiniteSet(F \cup new)
  <2> HIDE DEF F, new
  <2> QED
    BY <1>1, <1>2, FS_Union
<1>4. IsFiniteSet((DOMAIN files)') /\ None \notin (DOMAIN files)'
  <2>3. \A n : n \in (DOMAIN files)' <=> n \in F \/ n \in new
    BY <1>0
  <2>2. None \notin F \cup new
    BY <1>0, <1>1
  <2> HIDE DEF F, new
  <2>1. (DOMAIN files)' = F \cup new
    BY <2>3
  <2> QED
    BY <1>3, <2>1, <2>2, Zenon
<1>5. S \subseteq Outside' /\ Outside' \subseteq AllPlaces
  BY <1>0, OutsideNext
<1>6. ASSUME NEW x \in Outside'
      PROVE  /\ FileOf(x)' \in DOMAIN files'
             /\ x[1] # "block" => RecordAt(x)'.size_ = Len(files'[FileOf(x)'])
  <2>1. CASE x \in S
    BY <1>0, <2>1
  <2>2. CASE x \notin S
    <3>1. g[x] \in Outside /\ FileOf(x)' = FileOf(g[x]) /\ FileOf(g[x]) \in DOMAIN files
      BY <1>0, <2>2, <1>1
    <3> QED
      BY <1>0, <2>2, <3>1, <1>1
  <2> QED
    BY <2>1, <2>2
<1>7. ASSUME NEW x \in Outside', NEW y \in Outside', FileOf(x)' = FileOf(y)' PROVE x = y
  <2>1. \A z \in Outside' \ S : g[z] \in Outside /\ FileOf(z)' = FileOf(g[z]) /\ FileOf(z)' \in DOMAIN files
    BY <1>0, <1>1
  <2>2. CASE x \in S /\ y \in S
    BY <1>0, <1>7, <2>2
  <2>3. CASE x \notin S /\ y \notin S
    <3>1. FileOf(g[x]) = FileOf(g[y]) /\ g[x] \in Outside /\ g[y] \in Outside
      BY <1>7, <2>1, <2>3
    <3>2. g[x] = g[y]
      BY <3>1, <1>1
    <3> QED
      BY <1>0, <2>3, <3>2
  <2> QED
    BY <1>0, <1>7, <2>1, <2>2, <2>3
<1>8. StorageInv'
  BY <1>4, <1>6, <1>7 DEF StorageInv
<1>9. ASSUME NoneLost, \A y \in Outside : \E x \in Outside' \ S : g[x] = y PROVE NoneLost'
  <2> SUFFICES ASSUME NEW n \in DOMAIN files' PROVE \E x \in Outside' : FileOf(x)' = n
    BY DEF NoneLost
  <2>1. CASE n \in DOMAIN files
    <3>1. PICK y \in Outside : FileOf(y) = n
      BY <1>9, <2>1 DEF NoneLost
    <3>2. PICK x \in Outside' \ S : g[x] = y
      BY <1>9
    <3> QED
      BY <1>0, <3>1, <3>2
  <2>2. CASE n \notin DOMAIN files
    BY <1>0, <2>2, <1>5
  <2> QED
    BY <2>1, <2>2
<1> QED
  BY <1>8, <1>9

SentNow(b) == Out(b) \cap Inside
SentToFile(b) == {l \in SentNow(b) : ~external(outgoing_[l]) /\ ~InMemory(l[2]) /\ Unloads(l, outgoing_[l])}

\* What send_outgoing_queues leaves where.
LEMMA SendEffect ==
  ASSUME BaseInv, NEW b \in Block, SendBlock(b), NEW k \in 0..Rounds, k = exchange_round_
  PROVE  /\ \A l \in FromHere : outgoing_'[l] = IF l[1] = b THEN NoQueue ELSE outgoing_[l]
         /\ \A j \in 0..Rounds, l \in ToHere :
              j # k \/ l \notin SentNow(b) => incoming_'[j][l] = incoming_[j][l]
         /\ \A l \in SentNow(b) \ SentToFile(b) : incoming_'[k][l] = outgoing_[l]
         /\ \A l \in SentToFile(b) :
              LET qr == incoming_'[k][l]
              IN  /\ qr.external_ # None /\ qr.external_ \notin DOMAIN files
                  /\ files'[qr.external_] = outgoing_[l].buffer_ /\ qr.size_ = Len(outgoing_[l].buffer_)
         /\ \A l, m \in SentToFile(b) :
              incoming_'[k][l].external_ = incoming_'[k][m].external_ => l = m
         /\ \A n : n \in DOMAIN files' <=> \/ n \in DOMAIN files
                                          \/ \E l \in SentToFile(b) : n = incoming_'[k][l].external_
         /\ \A n \in DOMAIN files : files'[n] = files[n]
         /\ IsFiniteSet(SentToFile(b)) /\ Domains'
<1> DEFINE here == SentNow(b)
           out == SentToFile(b)
           f == NewFiles(out)
<1>1. /\ incoming_' = [incoming_ EXCEPT ![k] = [l \in ToHere |->
                         IF l \in out THEN Unloaded(outgoing_[l], f[l])
                         ELSE IF l \in here THEN outgoing_[l] ELSE @[l]]]
      /\ files' = [n \in DOMAIN files \cup {f[l] : l \in out} |->
                     IF n \in DOMAIN files THEN files[n] ELSE outgoing_[CHOOSE l \in out : f[l] = n].buffer_]
      /\ outgoing_' = [l \in FromHere |-> IF l[1] = b THEN NoQueue ELSE outgoing_[l]]
      /\ UNCHANGED <<elements_, external_>>
  BY DEF SendBlock, SentNow, SentToFile
<1>2. Shape /\ StorageInv
  BY DEF BaseInv
<1>3. here \subseteq ToHere /\ here \subseteq FromHere /\ out \subseteq here /\ IsFiniteSet(out)
  <2>1. here \subseteq ToHere /\ here \subseteq FromHere /\ out \subseteq here /\ out \subseteq FromHere
    BY DEF SentNow, SentToFile, Out, Inside, ToHere, FromHere
  <2> QED
    BY <2>1, LinksFinite, FS_Subset
<1>4. /\ f \in [out -> Nat \ {0}]
      /\ \A x \in out : f[x] \notin DOMAIN files
      /\ \A x, y \in out : f[x] = f[y] => x = y
  BY <1>2, <1>3, NewFilesFresh DEF StorageInv
<1> HIDE DEF f, out, here
<1>5. /\ \A j \in 0..Rounds, l \in ToHere : j # k => incoming_'[j][l] = incoming_[j][l]
      /\ \A l \in ToHere : incoming_'[k][l] = IF l \in out THEN Unloaded(outgoing_[l], f[l])
                                              ELSE IF l \in here THEN outgoing_[l] ELSE incoming_[k][l]
      /\ Domains'
  BY <1>1, <1>2 DEF Domains, Shape
<1>6. \A l \in out : incoming_'[k][l].external_ = f[l] /\ incoming_'[k][l].size_ = Len(outgoing_[l].buffer_)
  <2> SUFFICES ASSUME NEW l \in out
               PROVE  incoming_'[k][l].external_ = f[l] /\ incoming_'[k][l].size_ = Len(outgoing_[l].buffer_)
    OBVIOUS
  <2>1. incoming_'[k][l] = Unloaded(outgoing_[l], f[l])
    BY <1>3, <1>5
  <2> QED
    BY <2>1 DEF Unloaded
<1>7. \A l \in out : files'[f[l]] = outgoing_[l].buffer_
  <2> SUFFICES ASSUME NEW l \in out PROVE files'[f[l]] = outgoing_[l].buffer_
    OBVIOUS
  <2>1. (CHOOSE m \in out : f[m] = f[l]) = l
    BY <1>4
  <2>2. files'[f[l]] = outgoing_[CHOOSE m \in out : f[m] = f[l]].buffer_
    BY <1>1, <1>4
  <2> QED
    BY <2>1, <2>2
<1>8. /\ DOMAIN files' = DOMAIN files \cup {f[l] : l \in out} /\ \A n \in DOMAIN files : files'[n] = files[n]
  BY <1>1, <1>6
<1>9. \A l \in FromHere : outgoing_'[l] = IF l[1] = b THEN NoQueue ELSE outgoing_[l]
  BY <1>1
<1>10. /\ \A l \in out : LET qr == incoming_'[k][l]
                         IN  /\ qr.external_ # None /\ qr.external_ \notin DOMAIN files
                             /\ files'[qr.external_] = outgoing_[l].buffer_ /\ qr.size_ = Len(outgoing_[l].buffer_)
       /\ \A l, m \in out : incoming_'[k][l].external_ = incoming_'[k][m].external_ => l = m
       /\ \A n : n \in DOMAIN files' <=> n \in DOMAIN files \/ \E l \in out : n = incoming_'[k][l].external_
  BY <1>4, <1>6, <1>7, <1>8 DEF None
<1>11. /\ \A j \in 0..Rounds, l \in ToHere : j # k \/ l \notin here => incoming_'[j][l] = incoming_[j][l]
       /\ \A l \in here \ out : incoming_'[k][l] = outgoing_[l]
  BY <1>3, <1>5
<1> QED
  BY <1>3, <1>5, <1>8, <1>9, <1>10, <1>11 DEF out, here

\* Where what is in a file after the step was before it.
Sender(b, x) == IF x[1] = "in" /\ x[2] = exchange_round_ /\ x[3] \in SentNow(b) THEN <<"out", x[3]>> ELSE x
NewAt(b) == {<<"in", exchange_round_, l>> : l \in SentToFile(b)}

LEMMA SendStorage ==
  ASSUME BaseInv, NEW b \in Block, SendBlock(b)
  PROVE  StorageInv' /\ (NoneLost => NoneLost')
<1>0. PICK k \in 0..Rounds : k = exchange_round_
  BY DEF BaseInv, Shape
<1> DEFINE S == NewAt(b)
           g == [x \in Outside' \ S |-> Sender(b, x)]
<1>1. /\ \A l \in FromHere : outgoing_'[l] = IF l[1] = b THEN NoQueue ELSE outgoing_[l]
      /\ \A j \in 0..Rounds, l \in ToHere : j # k \/ l \notin SentNow(b) => incoming_'[j][l] = incoming_[j][l]
      /\ \A l \in SentNow(b) \ SentToFile(b) : incoming_'[k][l] = outgoing_[l]
      /\ \A l \in SentToFile(b) :
           LET qr == incoming_'[k][l]
           IN  /\ qr.external_ # None /\ qr.external_ \notin DOMAIN files
               /\ files'[qr.external_] = outgoing_[l].buffer_ /\ qr.size_ = Len(outgoing_[l].buffer_)
      /\ \A l, m \in SentToFile(b) : incoming_'[k][l].external_ = incoming_'[k][m].external_ => l = m
      /\ \A n : n \in DOMAIN files' <=> \/ n \in DOMAIN files
                                       \/ \E l \in SentToFile(b) : n = incoming_'[k][l].external_
      /\ \A n \in DOMAIN files : files'[n] = files[n]
      /\ IsFiniteSet(SentToFile(b))
  BY <1>0, SendEffect
<1>2. /\ Shape /\ StorageInv /\ QueuesInv /\ k = exchange_round_ /\ b \in gid_order /\ phase = "flush"
      /\ UNCHANGED <<elements_, external_>> /\ OutgoingToLoad(b) = {}
  BY <1>0 DEF BaseInv, SendBlock
<1>3. /\ SentNow(b) = {l \in FromHere : l \in ToHere /\ l[1] = b} /\ SentToFile(b) \subseteq SentNow(b)
      /\ \A l \in FromHere : l[1] = b /\ external(outgoing_[l]) => l \in ToHere
      /\ \A l \in SentToFile(b) : ~external(outgoing_[l])
  <2>1. SentNow(b) = {l \in FromHere : l \in ToHere /\ l[1] = b}
    BY DEF SentNow, Out, Inside, FromHere, ToHere
  <2>2. ASSUME NEW l \in FromHere, l[1] = b, external(outgoing_[l]) PROVE l \in ToHere
    <3>1. l[2] \notin Away
      BY <1>2, <2>2 DEF OutgoingToLoad, Out, FromHere
    <3>2. l \in Link /\ l[2] \in Block \cup Away
      BY OutOfCoreAssumption DEF FromHere
    <3> QED
      BY <3>1, <3>2 DEF ToHere
  <2> QED
    BY <2>1, <2>2 DEF SentToFile
<1>4. \A l \in SentNow(b) : incoming_[k][l] = NoQueue
  <2> SUFFICES ASSUME NEW l \in SentNow(b), incoming_[k][l] # NoQueue PROVE FALSE
    OBVIOUS
  <2>1. l \in Inside /\ ToBeSent(l) /\ l \in ToHere
    BY <1>2 DEF SentNow, ToBeSent, Out, Inside, ToHere
  <2>2. k # exchange_round_ + 1
    BY <1>2
  <2> QED
    BY <1>2, <2>1, <2>2 DEF QueuesInv
<1>5. /\ \A l : <<"in", k, l>> \in S <=> l \in SentToFile(b)
      /\ \A x \in S : \E l \in SentToFile(b) : x = <<"in", k, l>>
      /\ S \in SUBSET AllPlaces
  <2>1. \A l \in SentToFile(b) : <<"in", k, l>> \in AllPlaces
    BY <1>2, <1>3, InPlace
  <2> QED
    BY <1>2, <2>1, PlacesDiffer DEF NewAt
<1>6. IsFiniteSet(S)
  <2> DEFINE h == [l \in SentToFile(b) |-> <<"in", k, l>>]
  <2>1. h \in Surjection(SentToFile(b), S)
    BY <1>2, Fun_RangeProperties DEF Surjection, NewAt
  <2> HIDE DEF h, S
  <2> QED
    BY <1>1, <2>1, FS_Surjection
<1> HIDE DEF S
<1>7. ASSUME NEW x \in Outside' \ S
      PROVE  /\ Sender(b, x) \in Outside /\ FileOf(x)' = FileOf(Sender(b, x))
             /\ x[1] # "block" => Sender(b, x)[1] # "block" /\ RecordAt(x)' = RecordAt(Sender(b, x))
             /\ \A l \in SentNow(b) : x # <<"out", l>>
             /\ \/ Sender(b, x) = x
                \/ \E l \in SentNow(b) : x = <<"in", k, l>> /\ Sender(b, x) = <<"out", l>>
  <2>1. x \in AllPlaces /\ FileOf(x)' # None /\ x \notin S
    BY <1>7, OutsideNext
  <2>2. CASE \E c \in Block : x = <<"block", c>>
    <3>1. PICK c \in Block : x = <<"block", c>>
      BY <2>2
    <3>2. Sender(b, x) = x /\ x[1] = "block" /\ FileOf(x)' = FileOf(x)
      BY <1>2, <3>1 DEF Sender, FileOf
    <3> QED
      BY <2>1, <3>1, <3>2, OutsidePlaces, PlacesDiffer
  <2>3. CASE \E l \in FromHere : x = <<"out", l>>
    <3>1. PICK l \in FromHere : x = <<"out", l>>
      BY <2>3
    <3>2. Sender(b, x) = x /\ x[1] # "block" /\ FileOf(x)' = outgoing_'[l].external_ /\ RecordAt(x)' = outgoing_'[l]
          /\ FileOf(x) = outgoing_[l].external_ /\ RecordAt(x) = outgoing_[l]
      BY <3>1 DEF Sender, FileOf, RecordAt
    <3>3. l[1] # b
      BY <1>1, <2>1, <3>2 DEF NoQueue
    <3>4. outgoing_'[l] = outgoing_[l]
      BY <1>1, <3>3
    <3>5. \A m \in SentNow(b) : m # l
      BY <1>3, <3>3
    <3> QED
      BY <2>1, <3>1, <3>2, <3>4, <3>5, OutsidePlaces, PlacesDiffer
  <2>4. CASE \E j \in 0..Rounds, l \in ToHere : x = <<"in", j, l>>
    <3>1. PICK j \in 0..Rounds, l \in ToHere : x = <<"in", j, l>>
      BY <2>4
    <3>2. x[1] # "block" /\ FileOf(x)' = incoming_'[j][l].external_ /\ RecordAt(x)' = incoming_'[j][l]
          /\ FileOf(x) = incoming_[j][l].external_ /\ RecordAt(x) = incoming_[j][l]
      BY <3>1 DEF FileOf, RecordAt
    <3>3. CASE j = k /\ l \in SentNow(b)
      <4>1. l \notin SentToFile(b)
        BY <1>5, <2>1, <3>1, <3>3
      <4>2. incoming_'[j][l] = outgoing_[l] /\ l \in FromHere
        BY <1>1, <1>3, <3>3, <4>1
      <4>3. Sender(b, x) = <<"out", l>>
        BY <1>2, <3>1, <3>3 DEF Sender
      <4>4. /\ <<"out", l>> \in AllPlaces /\ <<"out", l>>[1] # "block" /\ RecordAt(<<"out", l>>) = outgoing_[l]
            /\ FileOf(<<"out", l>>) = outgoing_[l].external_
        BY <4>2, OutPlace
      <4>5. \A m \in SentNow(b) : x # <<"out", m>>
        BY <3>1, PlacesDiffer
      <4>6. <<"out", l>> \in Outside
        BY <2>1, <3>2, <4>2, <4>4, OutsidePlaces
      <4>7. FileOf(x)' = FileOf(<<"out", l>>) /\ RecordAt(x)' = RecordAt(<<"out", l>>)
        BY <3>2, <4>2, <4>4
      <4>8. \E m \in SentNow(b) : x = <<"in", k, m>> /\ Sender(b, x) = <<"out", m>>
        BY <3>1, <3>3, <4>3
      <4> QED
        BY <4>3, <4>4, <4>5, <4>6, <4>7, <4>8
    <3>4. CASE ~(j = k /\ l \in SentNow(b))
      <4>1. Sender(b, x) = x /\ incoming_'[j][l] = incoming_[j][l]
        BY <1>1, <1>2, <3>1, <3>4 DEF Sender
      <4>2. \A m \in SentNow(b) : x # <<"out", m>>
        BY <3>1, PlacesDiffer
      <4> QED
        BY <2>1, <3>2, <4>1, <4>2, OutsidePlaces
    <3> QED
      BY <3>3, <3>4
  <2> QED
    BY <2>1, <2>2, <2>3, <2>4, PlaceForms
<1>8. (\A x \in Outside' \ S : g[x] \in Outside) /\ \A x \in Outside' \ S : g[x] = Sender(b, x)
  BY <1>7
<1> HIDE DEF g
<1>9. ASSUME NEW x \in Outside' \ S, NEW y \in Outside' \ S, g[x] = g[y] PROVE x = y
  <2>1. Sender(b, x) = Sender(b, y)
    BY <1>8, <1>9
  <2>2. CASE Sender(b, x) = x /\ Sender(b, y) = y
    BY <2>1, <2>2
  <2>3. CASE Sender(b, x) = x /\ \E l \in SentNow(b) : y = <<"in", k, l>> /\ Sender(b, y) = <<"out", l>>
    BY <1>7, <2>1, <2>3
  <2>4. CASE Sender(b, y) = y /\ \E l \in SentNow(b) : x = <<"in", k, l>> /\ Sender(b, x) = <<"out", l>>
    BY <1>7, <2>1, <2>4
  <2>5. CASE /\ \E l \in SentNow(b) : x = <<"in", k, l>> /\ Sender(b, x) = <<"out", l>>
             /\ \E l \in SentNow(b) : y = <<"in", k, l>> /\ Sender(b, y) = <<"out", l>>
    BY <2>1, <2>5, PlacesDiffer
  <2> QED
    BY <1>7, <2>2, <2>3, <2>4, <2>5
<1>10. ASSUME NEW x \in S
       PROVE  /\ FileOf(x)' # None /\ FileOf(x)' \notin DOMAIN files
              /\ x[1] # "block" => RecordAt(x)'.size_ = Len(files'[FileOf(x)'])
              /\ \E l \in SentToFile(b) : x = <<"in", k, l>> /\ FileOf(x)' = incoming_'[k][l].external_
  <2>1. PICK l \in SentToFile(b) : x = <<"in", k, l>>
    BY <1>5
  <2>2. FileOf(x)' = incoming_'[k][l].external_ /\ RecordAt(x)' = incoming_'[k][l]
    BY <2>1 DEF FileOf, RecordAt
  <2>3. /\ incoming_'[k][l].external_ # None /\ incoming_'[k][l].external_ \notin DOMAIN files
        /\ files'[incoming_'[k][l].external_] = outgoing_[l].buffer_ /\ incoming_'[k][l].size_ = Len(outgoing_[l].buffer_)
    BY <1>1, <2>1
  <2> QED
    BY <2>1, <2>2, <2>3
<1>11. \A x, y \in S : FileOf(x)' = FileOf(y)' => x = y
  BY <1>1, <1>10
<1>12. \A l \in SentToFile(b) : <<"in", k, l>> \in S /\ FileOf(<<"in", k, l>>)' = incoming_'[k][l].external_
  BY <1>5 DEF FileOf, RecordAt
<1>13. \A y \in Outside : \E x \in Outside' \ S : g[x] = y
  <2> SUFFICES ASSUME NEW y \in Outside PROVE \E x \in Outside' \ S : g[x] = y
    OBVIOUS
  <2>1. y \in AllPlaces /\ FileOf(y) # None
    BY OutsidePlaces
  <2>2. CASE \E c \in Block : y = <<"block", c>>
    <3>1. Sender(b, y) = y /\ FileOf(y)' = FileOf(y)
      BY <1>2, <2>2 DEF Sender, FileOf
    <3>2. y \notin S
      BY <1>5, <2>2, PlacesDiffer
    <3>3. y \in Outside' \ S
      BY <2>1, <3>1, <3>2, OutsideNext
    <3> QED
      BY <1>8, <3>1, <3>3
  <2>3. CASE \E l \in FromHere : y = <<"out", l>>
    <3>1. PICK l \in FromHere : y = <<"out", l>>
      BY <2>3
    <3>2. FileOf(y) = outgoing_[l].external_ /\ Sender(b, y) = y /\ FileOf(y)' = outgoing_'[l].external_
      BY <3>1 DEF FileOf, RecordAt, Sender
    <3>3. CASE l[1] # b
      <4>1. outgoing_'[l] = outgoing_[l]
        BY <1>1, <3>3
      <4>2. y \notin S
        BY <1>5, <3>1, PlacesDiffer
      <4>3. y \in Outside' \ S
        BY <2>1, <3>2, <4>1, <4>2, OutsideNext
      <4> QED
        BY <1>8, <3>2, <4>3
    <3>4. CASE l[1] = b
      <4>1. external(outgoing_[l])
        BY <2>1, <3>2 DEF external
      <4>2. l \in SentNow(b) /\ l \notin SentToFile(b) /\ l \in ToHere
        BY <1>3, <3>4, <4>1
      <4>x. PICK x : x = <<"in", k, l>>
        OBVIOUS
      <4>3. incoming_'[k][l] = outgoing_[l] /\ x \in AllPlaces /\ x \notin S
        BY <1>1, <1>2, <1>5, <4>x, <4>2, InPlace
      <4>4. FileOf(x)' = incoming_'[k][l].external_ /\ Sender(b, x) = <<"out", l>>
        BY <1>2, <4>x, <4>2 DEF FileOf, RecordAt, Sender
      <4>5. x \in Outside' \ S
        BY <2>1, <3>2, <4>3, <4>4, OutsideNext
      <4> QED
        BY <1>8, <3>1, <4>4, <4>5
    <3> QED
      BY <3>3, <3>4
  <2>4. CASE \E j \in 0..Rounds, l \in ToHere : y = <<"in", j, l>>
    <3>1. PICK j \in 0..Rounds, l \in ToHere : y = <<"in", j, l>>
      BY <2>4
    <3>2. FileOf(y) = incoming_[j][l].external_ /\ FileOf(y)' = incoming_'[j][l].external_
      BY <3>1 DEF FileOf, RecordAt
    <3>3. ~(j = k /\ l \in SentNow(b))
      BY <1>4, <2>1, <3>2 DEF NoQueue
    <3>4. Sender(b, y) = y /\ incoming_'[j][l] = incoming_[j][l] /\ y \notin S
      BY <1>1, <1>2, <1>3, <1>5, <3>1, <3>3, PlacesDiffer DEF Sender
    <3>5. y \in Outside' \ S
      BY <2>1, <3>2, <3>4, OutsideNext
    <3> QED
      BY <1>8, <3>4, <3>5
  <2> QED
    BY <2>1, <2>2, <2>3, <2>4, PlaceForms
<1>14. \A n : n \in DOMAIN files' <=> n \in DOMAIN files \/ \E x \in S : n = FileOf(x)'
  <2>1. ASSUME NEW n \in DOMAIN files', n \notin DOMAIN files PROVE \E x \in S : n = FileOf(x)'
    <3>1. PICK l \in SentToFile(b) : n = incoming_'[k][l].external_
      BY <1>1, <2>1
    <3>2. <<"in", k, l>> \in S /\ FileOf(<<"in", k, l>>)' = n
      BY <1>12, <3>1
    <3> QED
      BY <3>2
  <2>2. ASSUME NEW x \in S PROVE FileOf(x)' \in DOMAIN files'
    BY <1>1, <1>10
  <2>3. DOMAIN files \subseteq DOMAIN files'
    BY <1>1
  <2> QED
    BY <2>1, <2>2, <2>3
<1>15. \A x \in Outside' \ S : /\ FileOf(x)' = FileOf(g[x])
                               /\ x[1] # "block" => g[x][1] # "block" /\ RecordAt(x)' = RecordAt(g[x])
  BY <1>7, <1>8
<1>16. FileMoves(S, g)
  BY <1>1, <1>5, <1>6, <1>8, <1>9, <1>10, <1>11, <1>14, <1>15 DEF FileMoves
<1>17. StorageInv' /\ (NoneLost /\ (\A y \in Outside : \E x \in Outside' \ S : g[x] = y) => NoneLost')
  BY <1>2, <1>16, FilesMoved
<1> QED
  BY <1>13, <1>17

LEMMA SendStep ==
  ASSUME BaseInv, NEW b \in Block, SendBlock(b)
  PROVE  BaseInv'
<1>0. PICK k \in 0..Rounds : k = exchange_round_
  BY DEF BaseInv, Shape
<1>1. /\ \A l \in FromHere : outgoing_'[l] = IF l[1] = b THEN NoQueue ELSE outgoing_[l]
      /\ \A j \in 0..Rounds, l \in ToHere : j # k \/ l \notin SentNow(b) => incoming_'[j][l] = incoming_[j][l]
      /\ \A n \in DOMAIN files : n \in DOMAIN files' /\ files'[n] = files[n]
      /\ Domains'
  BY <1>0, SendEffect
<1>2. /\ phase = "flush" /\ b \in gid_order /\ gid_order' = gid_order \ {b}
      /\ UNCHANGED <<elements_, external_, threads, phase, called, commands_, exchange_round_>>
  BY DEF SendBlock
<1>3. Shape /\ StorageInv /\ BlocksInv /\ QueuesInv /\ UNCHANGED <<blocks, cur, at, local>>
  BY <1>2 DEF BaseInv, threads
<1>4. Shape'
  BY <1>1, <1>2, <1>3 DEF Shape, Domains
<1>5. BlocksInv'
  <2>1. ASSUME NEW c \in Block, external_[c] # None PROVE files'[external_[c]] = files[external_[c]]
    <3>1. <<"block", c>> \in Outside
      BY <2>1, BlockPlace, OutsidePlaces
    <3>2. external_[c] \in DOMAIN files
      BY <1>3, <3>1, BlockPlace DEF StorageInv
    <3> QED
      BY <1>1, <3>2
  <2> QED
    BY <1>2, <1>3, <2>1 DEF BlocksInv, InMemory, Added
<1>6. ThreadsInv' /\ LoadedFirst'
  BY <1>2, NoThreads
<1>7. QueuesInv'
  <2>1. ASSUME NEW j \in 0..Rounds, NEW l \in ToHere, incoming_'[j][l] # NoQueue
        PROVE  \/ j = k /\ (l \in Inside => ~ToBeSent(l)')
               \/ j = k + 1 /\ l \in Early
    <3>1. CASE j = k /\ l \in SentNow(b)
      BY <1>2, <3>1 DEF SentNow, Out, ToBeSent
    <3>2. CASE ~(j = k /\ l \in SentNow(b))
      <4>1. incoming_[j][l] # NoQueue
        BY <1>1, <2>1, <3>2
      <4> QED
        BY <1>0, <1>2, <1>3, <4>1 DEF QueuesInv, ToBeSent
    <3> QED
      BY <3>1, <3>2
  <2>2. \A l \in FromHere : ~ToBeSent(l)' => outgoing_'[l] = NoQueue
    BY <1>1, <1>2, <1>3 DEF QueuesInv, ToBeSent
  <2> QED
    BY <1>0, <1>2, <1>3, <2>1, <2>2 DEF QueuesInv
<1> QED
  BY <1>4, <1>5, <1>6, <1>7, SendStorage DEF BaseInv

\* What comes from another rank: it was nowhere before.
LEMMA ArriveEffect ==
  ASSUME BaseInv, NEW l \in ToHere, NEW k \in 0..Rounds, Arrive(l, k)
  PROVE  /\ Domains' /\ l \notin Inside /\ incoming_[k][l] = NoQueue
         /\ \A j \in 0..Rounds, m \in ToHere : j # k \/ m # l => incoming_'[j][m] = incoming_[j][m]
         /\ \E items \in {<<>>, <<<<k - 1, 1>>>>} :
              \/ /\ ~ToFile(l, k, QueueRecord(items))
                 /\ incoming_'[k][l] = QueueRecord(items) /\ files' = files
              \/ LET qr == incoming_'[k][l]
                 IN  /\ ToFile(l, k, QueueRecord(items))
                     /\ qr.external_ # None /\ qr.external_ \notin DOMAIN files /\ qr.size_ = Len(items)
                     /\ DOMAIN files' = DOMAIN files \cup {qr.external_}
                     /\ files'[qr.external_] = items
                     /\ \A n \in DOMAIN files : files'[n] = files[n]
<1>1. /\ l \notin Inside /\ incoming_[k][l] = NoQueue /\ UNCHANGED <<elements_, external_, outgoing_>>
  BY DEF Arrive
<1>2. PICK items \in {<<>>, <<<<k - 1, 1>>>>} :
        LET qr == QueueRecord(items)
            f  == NewFiles({l})
        IN  /\ incoming_' = [incoming_ EXCEPT ![k][l] = IF ToFile(l, k, qr) THEN Unloaded(qr, f[l]) ELSE qr]
            /\ files' = IF ToFile(l, k, qr)
                        THEN [n \in DOMAIN files \cup {f[l]} |-> IF n = f[l] THEN items ELSE files[n]]
                        ELSE files
  BY DEF Arrive
<1>3. Shape /\ StorageInv
  BY DEF BaseInv
<1> DEFINE qr == QueueRecord(items)
           n1 == NewFiles({l})[l]
<1>4. n1 # None /\ n1 \notin DOMAIN files
  <2>1. IsFiniteSet({l}) /\ IsFiniteSet(DOMAIN files) /\ l \in {l}
    BY <1>3, FS_Singleton DEF StorageInv
  <2> DEFINE S == {l}
  <2>2. IsFiniteSet(S) /\ l \in S
    BY <2>1
  <2> HIDE DEF S
  <2>3. NewFiles(S) \in [S -> Nat \ {0}] /\ \A x \in S : NewFiles(S)[x] \notin DOMAIN files
    BY <2>1, <2>2, NewFilesFresh
  <2>4. NewFiles(S)[l] # None /\ NewFiles(S)[l] \notin DOMAIN files
    BY <2>2, <2>3 DEF None
  <2> QED
    BY <2>4 DEF S
<1>5. /\ incoming_' = [incoming_ EXCEPT ![k][l] = IF ToFile(l, k, qr) THEN Unloaded(qr, n1) ELSE qr]
      /\ files' = IF ToFile(l, k, qr)
                  THEN [n \in DOMAIN files \cup {n1} |-> IF n = n1 THEN items ELSE files[n]]
                  ELSE files
  BY <1>2
<1>6. qr.buffer_ = items
  BY DEF QueueRecord
<1> HIDE DEF qr, n1
<1>7. /\ \A j \in 0..Rounds, m \in ToHere : j # k \/ m # l => incoming_'[j][m] = incoming_[j][m]
      /\ incoming_'[k][l] = IF ToFile(l, k, qr) THEN Unloaded(qr, n1) ELSE qr
      /\ Domains'
  BY <1>1, <1>3, <1>5 DEF Domains, Shape
<1>8. ToFile(l, k, qr) => /\ incoming_'[k][l].external_ = n1 /\ incoming_'[k][l].size_ = Len(items)
                          /\ DOMAIN files' = DOMAIN files \cup {n1} /\ files'[n1] = items
                          /\ \A n \in DOMAIN files : files'[n] = files[n]
  BY <1>4, <1>5, <1>6, <1>7 DEF Unloaded
<1>9. \/ ~ToFile(l, k, qr) /\ incoming_'[k][l] = qr /\ files' = files
      \/ /\ ToFile(l, k, qr)
         /\ incoming_'[k][l].external_ # None /\ incoming_'[k][l].external_ \notin DOMAIN files
         /\ incoming_'[k][l].size_ = Len(items)
         /\ DOMAIN files' = DOMAIN files \cup {incoming_'[k][l].external_}
         /\ files'[incoming_'[k][l].external_] = items
         /\ \A n \in DOMAIN files : files'[n] = files[n]
  BY <1>4, <1>5, <1>7, <1>8
<1> QED
  BY <1>1, <1>7, <1>9 DEF qr

LEMMA ArriveStorage ==
  ASSUME BaseInv, NEW l \in ToHere, NEW k \in 0..Rounds, Arrive(l, k)
  PROVE  StorageInv' /\ (NoneLost => NoneLost')
<1>1. /\ incoming_[k][l] = NoQueue
      /\ \A j \in 0..Rounds, m \in ToHere : j # k \/ m # l => incoming_'[j][m] = incoming_[j][m]
      /\ UNCHANGED <<elements_, external_, outgoing_>>
  BY ArriveEffect DEF Arrive
<1>2. StorageInv
  BY DEF BaseInv
<1>3. PICK x1 : x1 = <<"in", k, l>>
  OBVIOUS
<1>4. /\ x1 \in AllPlaces /\ x1[1] # "block" /\ FileOf(x1) = None
      /\ FileOf(x1)' = incoming_'[k][l].external_ /\ RecordAt(x1)' = incoming_'[k][l]
  <2>1. x1 \in AllPlaces /\ x1[1] # "block" /\ FileOf(x1) = incoming_[k][l].external_
    BY <1>3, InPlace
  <2> QED
    BY <1>1, <1>3, <2>1 DEF FileOf, RecordAt, NoQueue
<1>5. \A x \in AllPlaces : x # x1 => FileOf(x)' = FileOf(x) /\ (x[1] # "block" => RecordAt(x)' = RecordAt(x))
  <2> SUFFICES ASSUME NEW x \in AllPlaces, x # x1
               PROVE  FileOf(x)' = FileOf(x) /\ (x[1] # "block" => RecordAt(x)' = RecordAt(x))
    OBVIOUS
  <2>1. CASE \E b \in Block : x = <<"block", b>>
    BY <1>1, <2>1 DEF FileOf
  <2>2. CASE \E m \in FromHere : x = <<"out", m>>
    BY <1>1, <2>2 DEF FileOf, RecordAt
  <2>3. CASE \E j \in 0..Rounds, m \in ToHere : x = <<"in", j, m>>
    BY <1>1, <1>3, <2>3 DEF FileOf, RecordAt
  <2> QED
    BY <2>1, <2>2, <2>3, PlaceForms
<1>6. Outside' = {x \in AllPlaces : FileOf(x)' # None} /\ Outside = {x \in AllPlaces : FileOf(x) # None}
  BY OutsideNext, OutsidePlaces
<1>7. PICK g : g = [x \in AllPlaces |-> x]
  OBVIOUS
<1>8. \A x \in AllPlaces : g[x] = x
  BY <1>7
<1>9. PICK items \in {<<>>, <<<<k - 1, 1>>>>} :
        \/ incoming_'[k][l] = QueueRecord(items) /\ files' = files
        \/ LET qr == incoming_'[k][l]
           IN  /\ qr.external_ # None /\ qr.external_ \notin DOMAIN files /\ qr.size_ = Len(items)
               /\ DOMAIN files' = DOMAIN files \cup {qr.external_}
               /\ files'[qr.external_] = items
               /\ \A n \in DOMAIN files : files'[n] = files[n]
  BY ArriveEffect
<1>10. CASE incoming_'[k][l] = QueueRecord(items) /\ files' = files
  <2>1. FileOf(x1)' = None
    BY <1>4, <1>10 DEF QueueRecord
  <2>2. Outside' = Outside /\ \A x \in Outside : x # x1
    BY <1>4, <1>5, <1>6, <2>1
  <2>3. IsFiniteSet({}) /\ {} \in SUBSET AllPlaces
    BY FS_EmptySet
  <2>4. FileMoves({}, g)
    BY <1>5, <1>6, <1>8, <1>10, <2>2, <2>3 DEF FileMoves
  <2>5. \A y \in Outside : \E x \in Outside' \ {} : g[x] = y
    BY <1>6, <1>8, <2>2
  <2> QED
    BY <1>2, <2>4, <2>5, FilesMoved
<1>11. CASE LET qr == incoming_'[k][l]
            IN  /\ qr.external_ # None /\ qr.external_ \notin DOMAIN files /\ qr.size_ = Len(items)
                /\ DOMAIN files' = DOMAIN files \cup {qr.external_}
                /\ files'[qr.external_] = items
                /\ \A n \in DOMAIN files : files'[n] = files[n]
  <2>1. PICK S : S = {x1}
    OBVIOUS
  <2>2. IsFiniteSet(S) /\ S \in SUBSET AllPlaces
    BY <1>4, <2>1, FS_Singleton
  <2>3. Outside' \ S = Outside
    BY <1>4, <1>5, <1>6, <2>1
  <2>4. \A x \in Outside : x \in AllPlaces /\ x # x1
    BY <1>4, <1>6
  <2>5. /\ FileOf(x1)' # None /\ FileOf(x1)' \notin DOMAIN files /\ RecordAt(x1)'.size_ = Len(files'[FileOf(x1)'])
        /\ DOMAIN files' = DOMAIN files \cup {FileOf(x1)'} /\ \A n \in DOMAIN files : files'[n] = files[n]
    BY <1>4, <1>11
  <2>6. FileMoves(S, g)
    BY <1>5, <1>8, <2>1, <2>2, <2>3, <2>4, <2>5 DEF FileMoves
  <2>7. \A y \in Outside : \E x \in Outside' \ S : g[x] = y
    BY <1>8, <2>3, <2>4
  <2> QED
    BY <1>2, <2>6, <2>7, FilesMoved
<1> QED
  BY <1>9, <1>10, <1>11

LEMMA ArriveStep ==
  ASSUME BaseInv, NEW l \in ToHere, NEW k \in 0..Rounds, Arrive(l, k)
  PROVE  BaseInv'
<1>1. /\ Domains' /\ l \notin Inside
      /\ \A j \in 0..Rounds, m \in ToHere : j # k \/ m # l => incoming_'[j][m] = incoming_[j][m]
      /\ \A n \in DOMAIN files : files'[n] = files[n]
  BY ArriveEffect
<1>2. /\ phase = "flush" /\ (k = exchange_round_ \/ (k = exchange_round_ + 1 /\ l \in Early))
      /\ UNCHANGED <<elements_, external_, outgoing_, threads, phase, called, commands_, exchange_round_, gid_order>>
  BY DEF Arrive
<1>3. Shape /\ StorageInv /\ BlocksInv /\ QueuesInv /\ UNCHANGED <<blocks, cur, at, local>>
  BY <1>2 DEF BaseInv, threads
<1>4. Shape'
  BY <1>1, <1>2, <1>3 DEF Shape, Domains
<1>5. BlocksInv'
  <2>1. ASSUME NEW c \in Block, external_[c] # None PROVE files'[external_[c]] = files[external_[c]]
    <3>1. <<"block", c>> \in Outside
      BY <2>1, BlockPlace, OutsidePlaces
    <3>2. external_[c] \in DOMAIN files
      BY <1>3, <3>1, BlockPlace DEF StorageInv
    <3> QED
      BY <1>1, <3>2
  <2> QED
    BY <1>2, <1>3, <2>1 DEF BlocksInv, InMemory, Added
<1>6. ThreadsInv' /\ LoadedFirst'
  BY <1>2, NoThreads
<1>7. QueuesInv'
  <2>1. ASSUME NEW j \in 0..Rounds, NEW m \in ToHere, incoming_'[j][m] # NoQueue
        PROVE  \/ j = exchange_round_ /\ (m \in Inside => ~ToBeSent(m))
               \/ j = exchange_round_ + 1 /\ m \in Early
    BY <1>1, <1>2, <1>3, <2>1 DEF QueuesInv
  <2> QED
    BY <1>2, <1>3, <2>1 DEF QueuesInv, ToBeSent
<1> QED
  BY <1>4, <1>5, <1>6, <1>7, ArriveStorage DEF BaseInv

LEMMA BaseInit ==
  ASSUME Init
  PROVE  BaseInv
<1>1. /\ phase \in {"add", "foreach"} /\ called = 0 /\ commands_ = <<>> /\ exchange_round_ = 0
      /\ elements_ = [b \in Block |-> Absent] /\ external_ = [b \in Block |-> None]
      /\ outgoing_ = [l \in FromHere |-> NoQueue]
      /\ incoming_ = [k \in 0..Rounds |-> [l \in ToHere |-> NoQueue]]
      /\ files = [f \in {} |-> <<>>] /\ blocks = <<>> /\ cur = [t \in Worker |-> NoBlock]
      /\ at = [t \in Worker |-> "next"] /\ local = [t \in Worker |-> {}] /\ gid_order = {}
      /\ (Block # {} => phase = "add")
  BY DEF Init
<1>2. Shape
  BY <1>1, OutOfCoreAssumption DEF Shape
<1>3. \A x \in AllPlaces : FileOf(x) = None
  <2> SUFFICES ASSUME NEW x \in AllPlaces PROVE FileOf(x) = None
    OBVIOUS
  <2>1. CASE \E b \in Block : x = <<"block", b>>
    BY <1>1, <2>1 DEF FileOf
  <2>2. CASE \E m \in FromHere : x = <<"out", m>>
    BY <1>1, <2>2 DEF FileOf, RecordAt, NoQueue
  <2>3. CASE \E j \in 0..Rounds, m \in ToHere : x = <<"in", j, m>>
    BY <1>1, <2>3 DEF FileOf, RecordAt, NoQueue
  <2> QED
    BY <2>1, <2>2, <2>3, PlaceForms
<1>4. StorageInv
  <2>1. Outside = {}
    BY <1>3, OutsidePlaces
  <2>2. DOMAIN files = {}
    BY <1>1
  <2>3. IsFiniteSet(DOMAIN files)
    BY <2>2, FS_EmptySet, Zenon
  <2> QED
    BY <2>1, <2>2, <2>3 DEF StorageInv
<1>5. BlocksInv
  BY <1>1 DEF BlocksInv, None
<1>6. ToSet(blocks) = {} /\ DOMAIN blocks = {}
  BY <1>1 DEF ToSet
<1>7. ThreadsInv
  <2>1. \A t \in Worker : cur[t] = NoBlock /\ at[t] = "next" /\ local[t] = {}
    BY <1>1
  <2>2. (\A t \in Worker : ThreadOK(t)) /\ \A t, u \in Worker : Apart(t, u)
    BY <1>6, <2>1 DEF ThreadOK, Apart
  <2> QED
    BY <1>1, <1>6, <2>1, <2>2 DEF ThreadsInv
<1>8. LoadedFirst
  BY <1>1, <1>6, RoomForNone DEF LoadedFirst
<1>9. QueuesInv
  BY <1>1, <1>2 DEF QueuesInv, Shape
<1> QED
  BY <1>2, <1>4, <1>5, <1>7, <1>8, <1>9 DEF BaseInv

LEMMA BaseStutter ==
  ASSUME BaseInv, UNCHANGED vars
  PROVE  BaseInv'
<1>1. /\ UNCHANGED <<elements_, external_, outgoing_, incoming_, files>> /\ UNCHANGED <<blocks, cur, at, local>>
      /\ UNCHANGED <<phase, called, commands_, exchange_round_, gid_order>>
  BY DEF vars, stored, threads, program
<1>2. loaded' = loaded /\ idle' = idle
  BY <1>1 DEF loaded, idle, InMemory, AllSkip, HasIncoming
<1>3. StorageInv'
  BY <1>1, FewerFiles DEF BaseInv
<1>4. Shape' /\ BlocksInv'
  BY <1>1 DEF BaseInv, Shape, BlocksInv, InMemory, Added
<1>5. ThreadsInv' /\ LoadedFirst'
  BY <1>1, <1>2 DEF BaseInv, ThreadsInv, LoadedFirst, ThreadOK, Apart
<1>6. QueuesInv'
  BY <1>1 DEF BaseInv, QueuesInv, ToBeSent, ToRun
<1> QED
  BY <1>3, <1>4, <1>5, <1>6 DEF BaseInv

LEMMA BaseStep ==
  ASSUME BaseInv, [Next]_vars
  PROVE  BaseInv'
<1>1. CASE UNCHANGED vars
  BY <1>1, BaseStutter
<1>2. CASE UnloadAll
  BY <1>2, UnloadAllStep
<1>3. CASE \E b \in Block : Add(b)
  BY <1>3, AddStep
<1>4. CASE Foreach \/ (\E i \in BOOLEAN : SetImmediate(i)) \/ ExecutePending
  BY <1>4, CommandSteps
<1>5. CASE \E t \in Worker : Thread(t)
  <2> SUFFICES ASSUME NEW t \in Worker, Thread(t) PROVE BaseInv'
    BY <1>5
  <2> QED
    BY TakeStep, HoldStep, LoadQueuesStep, MakeRoomStep, LoadStep, RunStep, UnloadQueuesStep DEF Thread
<1>6. CASE Finish
  BY <1>6, FinishStep
<1>7. CASE BeginExchange
  BY <1>7, BeginExchangeStep
<1>8. CASE \E b \in Block : LoadOutgoing(b) \/ SendBlock(b)
  BY <1>8, LoadOutgoingStep, SendStep
<1>9. CASE \E l \in ToHere, k \in 0..Rounds : Arrive(l, k)
  BY <1>9, ArriveStep
<1>10. CASE EndExchange
  BY <1>10, EndExchangeStep
<1>11. CASE Finished
  BY <1>11, BaseStutter DEF Finished
<1> QED
  BY <1>1, <1>2, <1>3, <1>4, <1>5, <1>6, <1>7, <1>8, <1>9, <1>10, <1>11 DEF Next

LEMMA AlwaysBase == Spec => []BaseInv
<1>1. Init => BaseInv
  BY BaseInit
<1>2. BaseInv /\ [Next]_vars => BaseInv'
  BY BaseStep
<1> QED
  BY <1>1, <1>2, PTL DEF Spec

-----------------------------------------------------------------------------
(***************************************************************************)
(* The limit on the blocks in memory.  Each of the n threads keeps at most *)
(* limit_ \div n blocks.                                                   *)
(***************************************************************************)
LEMMA Threads ==
  /\ num_threads \in Nat /\ 1 <= num_threads
  /\ IsFiniteSet(Worker) /\ Cardinality(Worker) = num_threads
  /\ limit_ # -1 => /\ limit_ \in Nat /\ num_threads <= limit_ /\ blocks_per_thread \in Nat
                    /\ num_threads * blocks_per_thread <= limit_
<1>1. num_threads \in Nat /\ 1 <= num_threads /\ (limit_ # -1 => limit_ \in Nat /\ num_threads <= limit_)
  BY OutOfCoreAssumption DEF num_threads
<1> DEFINE L == limit_  n == num_threads
<1>2. n \in Nat /\ 1 <= n /\ (L # -1 => L \in Nat)
  BY <1>1
<1> HIDE DEF L, n
<1>3. IsFiniteSet(1..n) /\ Cardinality(1..n) = n
  <2>1. IsFiniteSet(1..n) /\ Cardinality(1..n) = IF 1 > n THEN 0 ELSE n - 1 + 1
    BY <1>2, FS_Interval
  <2> QED
    BY <1>2, <2>1
<1>4. L # -1 => L \div n \in Nat /\ n * (L \div n) <= L
  BY <1>2
<1>5. limit_ # -1 => blocks_per_thread = L \div n
  BY DEF blocks_per_thread, L, n
<1>6. Worker = 1..n
  BY DEF Worker, n
<1>7. IsFiniteSet(Worker) /\ Cardinality(Worker) = n
  BY <1>3, <1>6, Zenon
<1> QED
  BY <1>1, <1>4, <1>5, <1>7 DEF L, n

LEMMA SmallInjection ==
  ASSUME NEW S, IsFiniteSet(S), NEW n \in Nat, Cardinality(S) <= n
  PROVE  \E h \in [S -> 1..n] : \A x, y \in S : h[x] = h[y] => x = y
<1>1. Cardinality(S) \in Nat /\ ExistsBijection(1..Cardinality(S), S)
  BY FS_CardinalityType
<1>2. ExistsBijection(S, 1..Cardinality(S))
  BY <1>1, Fun_ExistsBijSymmetric
<1>3. PICK h \in Bijection(S, 1..Cardinality(S)) : TRUE
  BY <1>2 DEF ExistsBijection
<1>4. h \in [S -> 1..Cardinality(S)] /\ \A x, y \in S : h[x] = h[y] => x = y
  BY <1>3, Fun_BijectionProperties DEF Injection, IsInjective
<1>5. 1..Cardinality(S) \subseteq 1..n
  BY <1>1
<1>6. h \in [S -> 1..n]
  BY <1>4, <1>5
<1> QED
  BY <1>4, <1>6

LEMMA KeptBound ==
  ASSUME limit_ # -1, NEW f, \A u \in Worker : f[u] \subseteq Block /\ Cardinality(f[u]) <= blocks_per_thread,
         NEW U, \A b \in U : \E u \in Worker : b \in f[u]
  PROVE  IsFiniteSet(U) /\ Cardinality(U) \in Nat /\ Cardinality(U) <= num_threads * blocks_per_thread
<1> DEFINE m == blocks_per_thread
           T == 1..m
           P == Worker \X T
           h == [u \in Worker |-> CHOOSE i \in [f[u] -> T] : \A x, y \in f[u] : i[x] = i[y] => x = y]
           w == [b \in U |-> CHOOSE u \in Worker : b \in f[u]]
           g == [b \in U |-> <<w[b], h[w[b]][b]>>]
<1>1. m \in Nat
  BY Threads
<1>2. \A u \in Worker : IsFiniteSet(f[u])
  BY OutOfCoreAssumption, FS_Subset
<1>3. \A u \in Worker : h[u] \in [f[u] -> T] /\ \A x, y \in f[u] : h[u][x] = h[u][y] => x = y
  <2> SUFFICES ASSUME NEW u \in Worker
               PROVE  h[u] \in [f[u] -> T] /\ \A x, y \in f[u] : h[u][x] = h[u][y] => x = y
    OBVIOUS
  <2>1. \E i \in [f[u] -> T] : \A x, y \in f[u] : i[x] = i[y] => x = y
    <3> DEFINE S == f[u]
    <3>1. IsFiniteSet(S) /\ Cardinality(S) <= m
      BY <1>2
    <3> HIDE DEF S, m
    <3>2. \E i \in [S -> 1..m] : \A x, y \in S : i[x] = i[y] => x = y
      BY <1>1, <3>1, SmallInjection
    <3> QED
      BY <3>2 DEF S
  <2>2. h[u] = CHOOSE i \in [f[u] -> T] : \A x, y \in f[u] : i[x] = i[y] => x = y
    OBVIOUS
  <2> HIDE DEF h, T
  <2> QED
    BY <2>1, <2>2
<1> HIDE DEF h
<1>4. \A b \in U : w[b] \in Worker /\ b \in f[w[b]]
  OBVIOUS
<1> HIDE DEF w, T
<1>5. g \in [U -> P]
  BY <1>3, <1>4
<1>6. ASSUME NEW x \in U, NEW y \in U, g[x] = g[y] PROVE x = y
  <2>1. w[x] = w[y] /\ h[w[x]][x] = h[w[y]][y]
    BY <1>6
  <2> QED
    BY <1>3, <1>4, <2>1
<1> HIDE DEF g
<1>7. g \in Injection(U, P)
  BY <1>5, <1>6 DEF Injection, IsInjective
<1>8. IsFiniteSet(T) /\ Cardinality(T) = m
  <2> HIDE DEF m
  <2>1. IsFiniteSet(1..m) /\ Cardinality(1..m) = IF 1 > m THEN 0 ELSE m - 1 + 1
    BY <1>1, FS_Interval
  <2>2. IsFiniteSet(1..m) /\ Cardinality(1..m) = m
    BY <1>1, <2>1
  <2> QED
    BY <2>2 DEF T
<1>9. IsFiniteSet(P) /\ Cardinality(P) = num_threads * m
  <2>1. IsFiniteSet(Worker) /\ Cardinality(Worker) = num_threads
    BY Threads
  <2> HIDE DEF m
  <2>2. IsFiniteSet(P) /\ Cardinality(P) = Cardinality(Worker) * Cardinality(T)
    BY <2>1, <1>8, FS_Product
  <2> QED
    BY <2>1, <2>2, <1>8, Zenon
<1> HIDE DEF P
<1>10. IsFiniteSet(U) /\ Cardinality(U) <= Cardinality(P)
  BY <1>7, <1>9, FS_Injection
<1>11. Cardinality(U) \in Nat
  BY <1>10, FS_CardinalityType
<1>12. Cardinality(U) <= num_threads * m
  BY <1>9, <1>10, Zenon
<1> QED
  BY <1>10, <1>11, <1>12 DEF m

\* One thread is at a block that is not in memory, and the others at one each.
LEMMA LoadedBound ==
  ASSUME limit_ # -1, NEW f, \A u \in Worker : f[u] \subseteq Block /\ Cardinality(f[u]) <= blocks_per_thread,
         NEW c, NEW t \in Worker, NEW L \in SUBSET Block,
         \A b \in L : (\E u \in Worker : b \in f[u]) \/ (\E u \in Worker \ {t} : b = c[u])
  PROVE  Cardinality(L) <= limit_ + num_threads - 1
<1> DEFINE U == {b \in L : \E u \in Worker : b \in f[u]}
           W == Worker \ {t}
           g == [u \in W |-> c[u]]
           V == {g[u] : u \in W}
<1>1. IsFiniteSet(U) /\ Cardinality(U) \in Nat /\ Cardinality(U) <= limit_
  <2>1. \A b \in U : \E u \in Worker : b \in f[u]
    OBVIOUS
  <2> HIDE DEF U
  <2>2. IsFiniteSet(U) /\ Cardinality(U) \in Nat /\ Cardinality(U) <= num_threads * blocks_per_thread
    BY <2>1, KeptBound
  <2>3. num_threads * blocks_per_thread <= limit_ /\ limit_ \in Int /\ num_threads * blocks_per_thread \in Int
    BY Threads
  <2> QED
    BY <2>2, <2>3
<1>2. IsFiniteSet(W) /\ Cardinality(W) = num_threads - 1
  <2>1. IsFiniteSet(Worker) /\ Cardinality(Worker) = num_threads
    BY Threads
  <2>2. IsFiniteSet(W) /\ Cardinality(W) = (IF t \in Worker THEN Cardinality(Worker) - 1 ELSE Cardinality(Worker))
    BY <2>1, FS_RemoveElement
  <2> QED
    BY <2>1, <2>2
<1>3. IsFiniteSet(V) /\ Cardinality(V) <= Cardinality(W)
  <2>1. g \in Surjection(W, V)
    BY Fun_RangeProperties DEF Surjection
  <2> HIDE DEF g, W, V
  <2> QED
    BY <1>2, <2>1, FS_Surjection
<1>4. L \subseteq U \cup V
  <2> SUFFICES ASSUME NEW b \in L, b \notin U PROVE b \in V
    OBVIOUS
  <2>1. PICK u \in W : b = c[u]
    OBVIOUS
  <2>2. g[u] = b
    BY <2>1
  <2> QED
    BY <2>2
<1> HIDE DEF U, V, W
<1>5. IsFiniteSet(U \cup V) /\ Cardinality(U \cup V) = Cardinality(U) + Cardinality(V) - Cardinality(U \cap V)
  BY <1>1, <1>3, FS_Union
<1>6. IsFiniteSet(U \cap V)
  BY <1>1, FS_Intersection
<1>7. Cardinality(U \cap V) \in Nat /\ Cardinality(V) \in Nat /\ Cardinality(U \cup V) \in Nat
  BY <1>3, <1>5, <1>6, FS_CardinalityType
<1>8. Cardinality(L) <= Cardinality(U \cup V) /\ IsFiniteSet(L)
  BY <1>4, <1>5, FS_Subset
<1>9. Cardinality(L) \in Nat
  BY <1>8, FS_CardinalityType
<1>10. limit_ \in Nat /\ num_threads \in Nat
  BY Threads
<1> QED
  BY <1>1, <1>2, <1>3, <1>5, <1>7, <1>8, <1>9, <1>10

LEMMA LoadedFinite ==
  /\ loaded \subseteq Block /\ IsFiniteSet(Block)
  /\ \A S \in SUBSET Block : IsFiniteSet(S) /\ Cardinality(S) \in Nat
  /\ in_memory = Cardinality(loaded)
<1>1. loaded \subseteq Block /\ IsFiniteSet(Block) /\ in_memory = Cardinality(loaded)
  BY OutOfCoreAssumption DEF loaded, in_memory
<1>2. \A S \in SUBSET Block : IsFiniteSet(S)
  BY <1>1, FS_Subset
<1> QED
  BY <1>1, <1>2, FS_CardinalityType

\* A step that loads no block, and does not end execute().
LEMMA LimitStays ==
  ASSUME WithinLimit, loaded' \subseteq loaded, phase' # "thrown",
         phase' = phase \/ phase' = "execute" \/ (phase # "execute" /\ phase' # "execute")
  PROVE  WithinLimit'
<1>1. Cardinality(loaded') <= Cardinality(loaded) /\ Cardinality(loaded') \in Nat /\ Cardinality(loaded) \in Nat
  <2>1. loaded \in SUBSET Block /\ loaded' \in SUBSET Block /\ IsFiniteSet(loaded)
    BY LoadedFinite
  <2> QED
    BY <2>1, LoadedFinite, FS_Subset
<1>2. in_memory = Cardinality(loaded) /\ in_memory' = Cardinality(loaded')
  BY DEF in_memory
<1>3. num_threads \in Nat /\ 1 <= num_threads /\ (limit_ # -1 => limit_ \in Nat)
  BY Threads
<1> QED
  BY <1>1, <1>2, <1>3 DEF WithinLimit

LEMMA LimitAdd ==
  ASSUME BaseInv, WithinLimit, NEW b \in Block, Add(b)
  PROVE  WithinLimit'
<1>1. /\ phase = "add" /\ in_memory # limit_ /\ elements_' = [elements_ EXCEPT ![b] = NewBlock(b)]
      /\ phase' \in {"add", "foreach"}
  BY DEF Add
<1>2. loaded' \subseteq loaded \cup {b}
  BY <1>1 DEF BaseInv, Shape, loaded, InMemory
<1>3. loaded \cup {b} \in SUBSET Block /\ loaded' \in SUBSET Block /\ IsFiniteSet(loaded)
  BY LoadedFinite, <1>2
<1>4. Cardinality(loaded \cup {b}) = (IF b \in loaded THEN Cardinality(loaded) ELSE Cardinality(loaded) + 1)
  <2> DEFINE S == loaded
  <2>1. IsFiniteSet(S)
    BY <1>3
  <2> HIDE DEF S
  <2>2. Cardinality(S \cup {b}) = (IF b \in S THEN Cardinality(S) ELSE Cardinality(S) + 1)
    BY <2>1, FS_AddElement
  <2> QED
    BY <2>2, Zenon DEF S
<1>5. Cardinality(loaded') <= Cardinality(loaded \cup {b})
  <2> DEFINE S == loaded \cup {b}
  <2>1. IsFiniteSet(S) /\ loaded' \in SUBSET S
    BY <1>2, <1>3, LoadedFinite
  <2> HIDE DEF S
  <2>2. Cardinality(loaded') <= Cardinality(S)
    BY <2>1, FS_Subset
  <2> QED
    BY <2>2, Zenon DEF S
<1>6. Cardinality(loaded') \in Nat /\ Cardinality(loaded) \in Nat
  BY <1>3, LoadedFinite
<1>7. in_memory = Cardinality(loaded) /\ in_memory' = Cardinality(loaded')
  BY DEF in_memory
<1>8. limit_ # -1 => limit_ \in Nat
  BY Threads
<1>9. limit_ # -1 => Cardinality(loaded) <= limit_ /\ Cardinality(loaded) # limit_
  BY <1>1, <1>7 DEF WithinLimit
<1> QED
  BY <1>1, <1>4, <1>5, <1>6, <1>7, <1>8, <1>9 DEF WithinLimit

\* All blocks in memory are with threads, when a thread loads one.
LEMMA LimitLoad ==
  ASSUME BaseInv, WithinLimit, NEW t \in Worker, Load(t)
  PROVE  WithinLimit'
<1>1. /\ at[t] = "taken" /\ ~InMemory(cur[t]) /\ ~Full(t) /\ UNCHANGED program
      /\ Get({<<"block", cur[t]>>} \cup QueuesToLoad(cur[t]))
  BY DEF Load
<1>2. Shape /\ StorageInv /\ BlocksInv /\ ThreadsInv /\ LoadedFirst
  BY DEF BaseInv
<1>3. /\ cur[t] \in Block /\ exchange_round_ \in 0..Rounds /\ phase = "execute" /\ local[t] \subseteq Block
      /\ Cardinality(local[t]) <= blocks_per_thread /\ phase' = "execute" /\ cur[t] \notin loaded
  <2>1. /\ cur[t] \in Block /\ exchange_round_ \in 0..Rounds /\ phase = "execute" /\ local[t] \subseteq Block
        /\ Cardinality(local[t]) <= blocks_per_thread
    BY <1>1, AtThread
  <2> QED
    BY <1>1, <2>1 DEF program, loaded
<1>4. loaded' \subseteq loaded \cup {cur[t]}
  <2> DEFINE S == {<<"block", cur[t]>>} \cup QueuesToLoad(cur[t])
  <2>1. external_[cur[t]] # None
    BY <1>1, <1>2, <1>3 DEF BlocksInv, Added
  <2>2. <<"block", cur[t]>> \in Outside
    BY <1>3, <2>1, BlockPlace, OutsidePlaces
  <2>3. QueuesToLoad(cur[t]) \in SUBSET Outside /\ \A c : <<"block", c>> \notin QueuesToLoad(cur[t])
    BY <1>3, LoadPlaces
  <2>4. S \in SUBSET Outside /\ \A c : <<"block", c>> \in S <=> c = cur[t]
    BY <2>2, <2>3, PlacesDiffer
  <2>5. Get(S)
    BY <1>1
  <2> HIDE DEF S
  <2>6. \A b \in Block : b \in loaded' <=> b \in loaded \/ <<"block", b>> \in S
    BY <1>1, <1>2, <2>4, <2>5, GetMoves
  <2>7. loaded' \subseteq Block
    BY DEF loaded
  <2> QED
    BY <2>4, <2>6, <2>7
<1>5. ToSet(blocks) \cap loaded = {}
  BY <1>1, <1>2, <1>3 DEF LoadedFirst
<1>6. \A b \in loaded : (\E u \in Worker : b \in local[u]) \/ (\E u \in Worker \ {t} : b = cur[u])
  BY <1>2, <1>3, <1>5 DEF LoadedFirst
<1> DEFINE f == [u \in Worker |-> IF u = t THEN local[t] \cup {cur[t]} ELSE local[u]]
<1>7. \A u \in Worker : f[u] \subseteq Block /\ Cardinality(f[u]) <= blocks_per_thread
  <2>1. Cardinality(local[t] \cup {cur[t]}) <= blocks_per_thread
    BY <1>1, <1>2, <1>3, BlocksPerThread
  <2>2. \A u \in Worker : u # t => f[u] = local[u] /\ Cardinality(local[u]) <= blocks_per_thread /\ local[u] \subseteq Block
    BY <1>2 DEF LoadedFirst, Shape
  <2>3. f[t] = local[t] \cup {cur[t]}
    OBVIOUS
  <2> HIDE DEF f
  <2>4. Cardinality(f[t]) <= blocks_per_thread
    BY <2>1, <2>3, Zenon
  <2>5. \A u \in Worker : u # t => f[u] \subseteq Block /\ Cardinality(f[u]) <= blocks_per_thread
    BY <2>2, Zenon
  <2>6. f[t] \subseteq Block
    BY <1>3, <2>3
  <2> QED
    BY <2>4, <2>5, <2>6
<1>8. \A b \in loaded' : (\E u \in Worker : b \in f[u]) \/ (\E u \in Worker \ {t} : b = cur[u])
  BY <1>4, <1>6
<1> HIDE DEF f
<1>9. loaded' \in SUBSET Block
  BY DEF loaded
<1>10. limit_ # -1 => Cardinality(loaded') <= limit_ + num_threads - 1
  BY <1>7, <1>8, <1>9, LoadedBound
<1>11. in_memory' = Cardinality(loaded')
  BY DEF in_memory
<1> QED
  BY <1>3, <1>10, <1>11 DEF WithinLimit

\* When all threads have returned, each has at most the blocks that it may keep.
LEMMA LimitFinish ==
  ASSUME BaseInv, WithinLimit, Finish
  PROVE  WithinLimit'
<1>1. /\ phase = "execute" /\ blocks = <<>> /\ (\A t \in Worker : at[t] = "next") /\ elements_' = elements_
      /\ phase' = IF limit_ # -1 /\ in_memory > limit_ THEN "thrown" ELSE "foreach"
  BY DEF Finish
<1>2. Shape /\ ThreadsInv /\ LoadedFirst
  BY DEF BaseInv
<1>3. loaded' = loaded /\ loaded \in SUBSET Block
  BY <1>1 DEF loaded, InMemory
<1>4. \A b \in loaded : \E u \in Worker : b \in local[u]
  <2>1. ToSet(blocks) = {}
    BY <1>1 DEF ToSet
  <2> QED
    BY <1>1, <1>2, <2>1 DEF LoadedFirst
<1>5. \A u \in Worker : local[u] \subseteq Block /\ Cardinality(local[u]) <= blocks_per_thread
  BY <1>2 DEF Shape, LoadedFirst
<1>6. limit_ # -1 => Cardinality(loaded) \in Nat /\ Cardinality(loaded) <= num_threads * blocks_per_thread
  BY <1>4, <1>5, KeptBound
<1>7. limit_ # -1 => limit_ \in Nat /\ num_threads * blocks_per_thread <= limit_ /\ num_threads * blocks_per_thread \in Int
  BY Threads
<1>8. limit_ # -1 => Cardinality(loaded) <= limit_
  BY <1>6, <1>7
<1>9. in_memory = Cardinality(loaded) /\ in_memory' = Cardinality(loaded)
  BY <1>3 DEF in_memory
<1>10. limit_ # -1 => phase' = "foreach"
  BY <1>1, <1>6, <1>7, <1>8, <1>9
<1> QED
  BY <1>8, <1>9, <1>10 DEF WithinLimit

LEMMA LimitThread ==
  ASSUME BaseInv, WithinLimit, NEW t \in Worker, Thread(t)
  PROVE  WithinLimit'
<1>1. Shape /\ StorageInv /\ BlocksInv
  BY DEF BaseInv
<1>2. at[t] # "next" => /\ phase = "execute" /\ cur[t] \in Block /\ exchange_round_ \in 0..Rounds /\ local[t] \subseteq loaded
  BY AtThread
<1>3. CASE Take(t)
  <2>1. loaded' = loaded /\ phase = "execute" /\ phase' = phase
    BY <1>3 DEF Take, stored, program, loaded, InMemory
  <2> QED
    BY <2>1, LimitStays
<1>4. CASE Hold(t)
  <2> DEFINE B == IF Full(t) THEN local[t] ELSE {}
  <2>1. at[t] = "taken" /\ Unload(B) /\ UNCHANGED program /\ B \in SUBSET loaded /\ phase = "execute" /\ phase' = phase
    BY <1>2, <1>4 DEF Hold, program
  <2> HIDE DEF B
  <2>2. loaded' = loaded \ B
    BY <1>1, <2>1, UnloadMoves
  <2> QED
    BY <2>1, <2>2, LimitStays
<1>5. CASE LoadQueues(t)
  <2>1. at[t] = "taken" /\ Get(QueuesToLoad(cur[t])) /\ UNCHANGED program /\ phase' = phase
    BY <1>5 DEF LoadQueues, program
  <2>2. QueuesToLoad(cur[t]) \in SUBSET Outside /\ \A c : <<"block", c>> \notin QueuesToLoad(cur[t])
    BY <1>2, <2>1, LoadPlaces
  <2>3. \A b \in Block : b \in loaded' <=> b \in loaded
    BY <1>1, <2>1, <2>2, GetMoves
  <2>4. loaded' \subseteq loaded
    BY <2>3 DEF loaded
  <2> QED
    BY <1>2, <2>1, <2>4, LimitStays
<1>6. CASE MakeRoom(t)
  <2>1. at[t] = "taken" /\ Unload(local[t]) /\ UNCHANGED program /\ phase' = phase
    BY <1>6 DEF MakeRoom, program
  <2>2. loaded' = loaded \ local[t]
    BY <1>1, <1>2, <2>1, UnloadMoves
  <2> QED
    BY <1>2, <2>1, <2>2, LimitStays
<1>7. CASE Load(t)
  BY <1>7, LimitLoad
<1>8. CASE Run(t)
  <2>1. at[t] = "ready" /\ phase' = phase
    BY <1>8 DEF Run, program
  <2> QED
    BY <1>2, <1>8, <2>1, RunLoaded, LimitStays
<1>9. CASE UnloadQueues(t)
  <2>1. at[t] = "skipped" /\ Put(LargeQueues(cur[t])) /\ UNCHANGED program /\ phase' = phase
    BY <1>9 DEF UnloadQueues, program
  <2>2. loaded' = loaded
    BY <1>1, <1>2, <2>1, UnloadQueuesMoves
  <2> QED
    BY <1>2, <2>1, <2>2, LimitStays
<1> QED
  BY <1>3, <1>4, <1>5, <1>6, <1>7, <1>8, <1>9 DEF Thread

LEMMA LimitStep ==
  ASSUME BaseInv, WithinLimit, [Next]_vars
  PROVE  WithinLimit'
<1>1. Shape /\ StorageInv /\ BlocksInv
  BY DEF BaseInv
<1>2. CASE UNCHANGED vars \/ Finished
  <2>1. elements_' = elements_ /\ phase' = phase
    BY <1>2 DEF vars, stored, program, Finished
  <2> QED
    BY <2>1 DEF WithinLimit, in_memory, loaded, InMemory
<1>3. CASE UnloadAll
  <2>1. phase' = phase /\ phase = "add" /\ Unload(loaded) /\ UNCHANGED program /\ loaded \in SUBSET loaded
    BY <1>3 DEF UnloadAll, program
  <2>2. loaded' = loaded \ loaded
    BY <1>1, <2>1, UnloadMoves
  <2> QED
    BY <2>1, <2>2, LimitStays
<1>4. CASE \E b \in Block : Add(b)
  BY <1>4, LimitAdd
<1>5. CASE Foreach \/ (\E i \in BOOLEAN : SetImmediate(i)) \/ ExecutePending
  <2>1. /\ phase = "foreach" /\ phase' \in {"foreach", "execute"} /\ elements_' = elements_
    BY <1>5 DEF Foreach, SetImmediate, ExecutePending, stored
  <2>2. loaded' = loaded
    BY <2>1 DEF loaded, InMemory
  <2> QED
    BY <2>1, <2>2, LimitStays
<1>6. CASE \E t \in Worker : Thread(t)
  BY <1>6, LimitThread
<1>7. CASE Finish
  BY <1>7, LimitFinish
<1>8. CASE BeginExchange \/ EndExchange
  <2>1. phase # "execute" /\ phase' # "execute" /\ phase' # "thrown" /\ elements_' = elements_
    BY <1>8 DEF BeginExchange, EndExchange
  <2>2. loaded' = loaded
    BY <2>1 DEF loaded, InMemory
  <2> QED
    BY <2>1, <2>2, LimitStays
<1>9. CASE \E b \in Block : SendBlock(b)
  <2>1. phase = "flush" /\ phase' = "flush" /\ elements_' = elements_
    BY <1>9 DEF SendBlock
  <2>2. loaded' = loaded
    BY <2>1 DEF loaded, InMemory
  <2> QED
    BY <2>1, <2>2, LimitStays
<1>10. CASE \E l \in ToHere, k \in 0..Rounds : Arrive(l, k)
  <2>1. phase = "flush" /\ phase' = "flush" /\ elements_' = elements_
    BY <1>10 DEF Arrive
  <2>2. loaded' = loaded
    BY <2>1 DEF loaded, InMemory
  <2> QED
    BY <2>1, <2>2, LimitStays
<1>11. CASE \E b \in Block : LoadOutgoing(b)
  <2>1. PICK b \in Block : LoadOutgoing(b)
    BY <1>11
  <2>2. phase = "flush" /\ Get(OutgoingToLoad(b)) /\ UNCHANGED program /\ phase' = phase
    BY <2>1 DEF LoadOutgoing, program
  <2>3. /\ OutgoingToLoad(b) \in SUBSET Outside /\ \A c : <<"block", c>> \notin QueuesToLoad(b)
        /\ OutgoingToLoad(b) \subseteq QueuesToLoad(b)
    BY <1>1, LoadPlaces DEF QueuesToLoad, Shape
  <2>4. \A c \in Block : c \in loaded' <=> c \in loaded
    BY <1>1, <2>2, <2>3, GetMoves
  <2>5. loaded' \subseteq loaded
    BY <2>4 DEF loaded
  <2> QED
    BY <2>2, <2>5, LimitStays
<1> QED
  BY <1>2, <1>3, <1>4, <1>5, <1>6, <1>7, <1>8, <1>9, <1>10, <1>11 DEF Next

\* execute() never ends with more than limit_ blocks in memory, whatever the
\* number of threads, and while it runs there are at most as many more as there
\* are further threads (master.hpp: execute, ProcessBlock).
THEOREM LimitKept == Spec => []WithinLimit
<1>1. ASSUME Init PROVE WithinLimit
  <2>1. loaded = {} /\ phase \in {"add", "foreach"}
    BY <1>1 DEF Init, loaded, InMemory
  <2>2. in_memory = 0
    BY <2>1, FS_EmptySet DEF in_memory
  <2>3. limit_ # -1 => limit_ \in Nat
    BY Threads
  <2> QED
    BY <2>1, <2>2, <2>3 DEF WithinLimit
<1>2. Spec => []BaseInv
  BY AlwaysBase
<1>3. BaseInv /\ WithinLimit /\ [Next]_vars => WithinLimit'
  BY LimitStep
<1> QED
  BY <1>1, <1>2, <1>3, PTL DEF Spec

-----------------------------------------------------------------------------
(***************************************************************************)
(* The files of the storage.  Two things are needed for them to be kept:   *)
(* no queue between blocks of the rank is large enough to be unloaded, as  *)
(* load_outgoing leaves it in its file and execute() does not load it for  *)
(* a block in memory; and none that may come a round early, as             *)
(* check_incoming_queues unloads it then also for a block in memory.       *)
(***************************************************************************)
FewLarge == Large \cap Inside = {} /\ Large \cap Early = {}

\* A step that forgets no file.
LEMMA SameFiles ==
  ASSUME NoneLost, files' = files, external_' = external_,
         \A l \in FromHere : outgoing_'[l] = outgoing_[l] \/ outgoing_[l].external_ = None,
         \A k \in 0..Rounds, l \in ToHere : incoming_'[k][l] = incoming_[k][l] \/ incoming_[k][l].external_ = None
  PROVE  NoneLost'
<1>1. ASSUME NEW x \in AllPlaces, FileOf(x) # None PROVE FileOf(x)' = FileOf(x)
  <2>1. CASE \E b \in Block : x = <<"block", b>>
    BY <2>1 DEF FileOf
  <2>2. CASE \E l \in FromHere : x = <<"out", l>>
    BY <1>1, <2>2 DEF FileOf, RecordAt
  <2>3. CASE \E k \in 0..Rounds, l \in ToHere : x = <<"in", k, l>>
    BY <1>1, <2>3 DEF FileOf, RecordAt
  <2> QED
    BY <2>1, <2>2, <2>3, PlaceForms
<1>2. \A x \in Outside : x \in Outside' /\ FileOf(x)' = FileOf(x)
  BY <1>1, OutsidePlaces, OutsideNext
<1> QED
  BY <1>2 DEF NoneLost

\* Blocks and queues that are unloaded are in memory before.
LEMMA UnloadsFresh ==
  ASSUME BaseInv, FilesInv, NEW B \in SUBSET loaded
  PROVE  UnloadSet(B) \cap Outside = {}
<1>1. B \in SUBSET Block /\ \A b \in B : InMemory(b)
  BY DEF loaded
<1>2. /\ UnloadSet(B) \subseteq AllPlaces
      /\ \A b \in Block : <<"block", b>> \in UnloadSet(B) <=> b \in B
      /\ \A l : <<"out", l>> \in UnloadSet(B) => l \in FromHere /\ l[1] \in B
      /\ \A k, l : <<"in", k, l>> \in UnloadSet(B) => l \in ToHere /\ l[2] \in B
  BY <1>1, UnloadPlaces
<1> SUFFICES ASSUME NEW x \in UnloadSet(B), FileOf(x) # None PROVE FALSE
  BY OutsidePlaces
<1>3. CASE \E b \in Block : x = <<"block", b>>
  <2>1. PICK b \in Block : x = <<"block", b>>
    BY <1>3
  <2>2. InMemory(b) /\ external_[b] # None
    BY <1>1, <1>2, <2>1, BlockPlace
  <2> QED
    BY <2>2 DEF BaseInv, BlocksInv
<1>4. CASE \E l \in FromHere : x = <<"out", l>>
  <2>1. PICK l \in FromHere : x = <<"out", l>>
    BY <1>4
  <2>2. l[1] \in B /\ external(outgoing_[l])
    BY <1>2, <2>1, OutPlace DEF external
  <2> QED
    BY <2>2 DEF FilesInv, Resting
<1>5. CASE \E k \in 0..Rounds, l \in ToHere : x = <<"in", k, l>>
  <2>1. PICK k \in 0..Rounds, l \in ToHere : x = <<"in", k, l>>
    BY <1>5
  <2>2. l[2] \in B /\ external(incoming_[k][l])
    BY <1>2, <2>1, InPlace DEF external
  <2> QED
    BY <2>2 DEF FilesInv, Resting
<1> QED
  BY <1>2, <1>3, <1>4, <1>5, PlaceForms

LEMMA QueuesFresh ==
  ASSUME BaseInv, FilesInv, NEW t \in Worker, at[t] = "skipped"
  PROVE  LargeQueues(cur[t]) \cap Outside = {}
<1>1. cur[t] \in Block
  BY AtThread
<1>2. /\ LargeQueues(cur[t]) \subseteq AllPlaces
      /\ \A c : <<"block", c>> \notin LargeQueues(cur[t])
      /\ \A l : <<"out", l>> \in LargeQueues(cur[t]) => l[1] = cur[t]
      /\ \A k, l : <<"in", k, l>> \in LargeQueues(cur[t]) => l[2] = cur[t]
  BY <1>1, LargePlaces DEF In, Out
<1> SUFFICES ASSUME NEW x \in LargeQueues(cur[t]), FileOf(x) # None PROVE FALSE
  BY OutsidePlaces
<1>3. ~Resting(cur[t])
  BY DEF Resting
<1>4. CASE \E l \in FromHere : x = <<"out", l>>
  <2>1. PICK l \in FromHere : x = <<"out", l>>
    BY <1>4
  <2>2. l[1] = cur[t] /\ external(outgoing_[l])
    BY <1>2, <2>1, OutPlace DEF external
  <2>3. Resting(l[1])
    BY <2>2 DEF FilesInv
  <2> QED
    BY <1>3, <2>2, <2>3
<1>5. CASE \E k \in 0..Rounds, l \in ToHere : x = <<"in", k, l>>
  <2>1. PICK k \in 0..Rounds, l \in ToHere : x = <<"in", k, l>>
    BY <1>5
  <2>2. l[2] = cur[t] /\ external(incoming_[k][l])
    BY <1>2, <2>1, InPlace DEF external
  <2>3. Resting(l[2])
    BY <2>2 DEF FilesInv
  <2> QED
    BY <1>3, <2>2, <2>3
<1> QED
  BY <1>2, <1>4, <1>5, PlaceForms

LEMMA UnloadFiles ==
  ASSUME BaseInv, FilesInv, NEW B \in SUBSET loaded, Unload(B), UNCHANGED program, cur' = cur,
         \A u \in Worker : cur[u] \notin B /\ (at'[u] = at[u] \/ cur[u] \in loaded)
  PROVE  FilesInv' /\ \A x \in AllPlaces : Kept(x)' = Kept(x)
<1>1. B \in SUBSET Block /\ (\A b \in B : InMemory(b)) /\ phase' = phase
  BY DEF loaded, program
<1>2. Shape /\ StorageInv /\ BlocksInv
  BY DEF BaseInv
<1>3. /\ \A l \in FromHere : outgoing_'[l] = outgoing_[l] \/ (l \in Large /\ l[1] \in B)
      /\ \A k \in 0..Rounds, l \in ToHere : incoming_'[k][l] = incoming_[k][l] \/ (l \in Large /\ l[2] \in B)
  BY <1>1, <1>2, UnloadEffect
<1>4. loaded' = loaded \ B
  BY <1>2, UnloadMoves
<1>5. \A b : b \in B \/ Resting(b) => Resting(b)'
  BY <1>4 DEF Resting
<1>6. (\A x \in AllPlaces : Kept(x)' = Kept(x)) /\ NoneLost'
  <2>1. UnloadSet(B) \in SUBSET AllPlaces /\ IsFiniteSet(UnloadSet(B)) /\ Put(UnloadSet(B))
    BY <1>1, UnloadPlaces
  <2> QED
    BY <1>2, <2>1, UnloadsFresh, PutKeeps DEF FilesInv
<1> QED
  BY <1>3, <1>5, <1>6 DEF FilesInv

\* What a thread reads with a block is all there is in files.
LEMMA GetFiles ==
  ASSUME BaseInv, FilesInv, FewLarge, NEW t \in Worker, at[t] = "taken", NEW S \in SUBSET Outside, Get(S),
         QueuesToLoad(cur[t]) \subseteq S, \A b \in Block : <<"block", b>> \in S => b = cur[t],
         UNCHANGED program, cur' = cur, \A u \in Worker : u # t => at'[u] = at[u]
  PROVE  FilesInv' /\ \A x \in AllPlaces : Kept(x)' = Kept(x)
<1>1. Shape /\ StorageInv /\ BlocksInv /\ QueuesInv /\ phase = "execute"
  BY AtThread DEF BaseInv
<1>2. cur[t] \in Block /\ exchange_round_ \in 0..Rounds
  BY AtThread
<1>3. /\ \A l \in FromHere : outgoing_'[l] = outgoing_[l] \/ outgoing_'[l].external_ = None
      /\ \A k \in 0..Rounds, l \in ToHere : incoming_'[k][l] = incoming_[k][l] \/ incoming_'[k][l].external_ = None
      /\ \A l \in FromHere : <<"out", l>> \in S => outgoing_'[l].external_ = None
      /\ \A k \in 0..Rounds, l \in ToHere : <<"in", k, l>> \in S => incoming_'[k][l].external_ = None
  BY <1>1, GetQueues
<1>4. \A b \in Block : b \in loaded' => b \in loaded \/ b = cur[t]
  BY <1>1, GetMoves
<1>5. \A b : Resting(b) /\ b # cur[t] => Resting(b)'
  BY <1>4 DEF Resting, loaded
<1>6. ASSUME NEW l \in FromHere, external(outgoing_'[l]) PROVE l \in Large /\ Resting(l[1])'
  <2>1. external(outgoing_[l])
    BY <1>3, <1>6 DEF external
  <2>2. l \in Large /\ Resting(l[1])
    BY <2>1 DEF FilesInv
  <2>3. l[1] # cur[t]
    <3> SUFFICES ASSUME l[1] = cur[t] PROVE FALSE
      OBVIOUS
    <3>1. l[2] \in Away
      BY <2>2, OutOfCoreAssumption DEF FewLarge, Inside, FromHere
    <3>2. <<"out", l>> \in QueuesToLoad(cur[t])
      BY <1>2, <2>1, <3>1, LoadPlaces
    <3> QED
      BY <1>3, <1>6, <3>2 DEF external
  <2> QED
    BY <1>5, <2>2, <2>3
<1>7. ASSUME NEW k \in 0..Rounds, NEW l \in ToHere, external(incoming_'[k][l]) PROVE l \in Large /\ Resting(l[2])'
  <2>1. external(incoming_[k][l])
    BY <1>3, <1>7 DEF external
  <2>2. l \in Large /\ Resting(l[2])
    BY <2>1 DEF FilesInv
  <2>3. incoming_[k][l] # NoQueue
    BY <2>1, NoQueueStays
  <2>4. k = exchange_round_
    BY <1>1, <2>2, <2>3 DEF QueuesInv, FewLarge
  <2>5. l[2] # cur[t]
    <3> SUFFICES ASSUME l[2] = cur[t] PROVE FALSE
      OBVIOUS
    <3>1. <<"in", k, l>> \in QueuesToLoad(cur[t])
      BY <1>2, <2>1, <2>4, LoadPlaces
    <3> QED
      BY <1>3, <1>7, <3>1 DEF external
  <2> QED
    BY <1>5, <2>2, <2>5
<1>8. (\A x \in AllPlaces : Kept(x)' = Kept(x)) /\ NoneLost'
  BY <1>1, GetKeeps DEF FilesInv
<1> QED
  BY <1>6, <1>7, <1>8 DEF FilesInv

\* What moves blocks and queues, and what is the same for that afterwards.
LEMMA MoveFiles ==
  ASSUME BaseInv, FilesInv, FewLarge,
         NEW t \in Worker, Hold(t) \/ LoadQueues(t) \/ MakeRoom(t) \/ Load(t) \/ UnloadQueues(t)
  PROVE  FilesInv' /\ \A x \in AllPlaces : Kept(x)' = Kept(x)
<1>1. /\ at[t] \in {"taken", "skipped"} /\ UNCHANGED program
      /\ Hold(t) \/ LoadQueues(t) \/ MakeRoom(t) \/ Load(t) => at[t] = "taken" /\ cur' = cur
  BY DEF Hold, LoadQueues, MakeRoom, Load, UnloadQueues
<1>2. Shape /\ StorageInv /\ BlocksInv /\ ThreadsInv
  BY DEF BaseInv
<1>3. /\ cur[t] \in Block /\ cur[t] # NoBlock /\ phase = "execute" /\ local[t] \in SUBSET loaded
      /\ exchange_round_ \in 0..Rounds
      /\ at[t] = "taken" => cur[t] \notin local[t]
  BY <1>1, AtThread
<1>4. \A u \in Worker : u # t => cur[u] # cur[t] /\ cur[u] \notin local[t]
  BY <1>2, <1>3 DEF ThreadsInv, Apart
<1>5. CASE Hold(t)
  <2> DEFINE B == IF Full(t) THEN local[t] ELSE {}
  <2>1. Unload(B) /\ InMemory(cur[t]) /\ at' = [at EXCEPT ![t] = "ready"]
    BY <1>5 DEF Hold
  <2>2. B \in SUBSET loaded /\ \A u \in Worker : cur[u] \notin B
    BY <1>1, <1>3, <1>4, <1>5
  <2>3. \A u \in Worker : at'[u] = at[u] \/ cur[u] \in loaded
    BY <1>2, <1>3, <2>1 DEF Shape, loaded
  <2> HIDE DEF B
  <2> QED
    BY <1>1, <1>5, <2>1, <2>2, <2>3, UnloadFiles
<1>6. CASE MakeRoom(t)
  <2>1. Unload(local[t]) /\ at' = at /\ at[t] = "taken"
    BY <1>6 DEF MakeRoom
  <2>2. \A u \in Worker : cur[u] \notin local[t]
    BY <1>3, <1>4, <2>1
  <2> QED
    BY <1>1, <1>3, <1>6, <2>1, <2>2, UnloadFiles
<1>7. CASE LoadQueues(t)
  <2>1. Get(QueuesToLoad(cur[t])) /\ at' = [at EXCEPT ![t] = "ready"]
    BY <1>7 DEF LoadQueues
  <2>2. QueuesToLoad(cur[t]) \in SUBSET Outside /\ \A c : <<"block", c>> \notin QueuesToLoad(cur[t])
    BY <1>3, LoadPlaces
  <2>3. \A u \in Worker : u # t => at'[u] = at[u]
    BY <1>2, <2>1 DEF Shape
  <2> QED
    BY <1>1, <1>7, <2>1, <2>2, <2>3, GetFiles
<1>8. CASE Load(t)
  <2> DEFINE S == {<<"block", cur[t]>>} \cup QueuesToLoad(cur[t])
  <2>1. Get(S) /\ at' = [at EXCEPT ![t] = "ready"] /\ ~InMemory(cur[t])
    BY <1>8 DEF Load
  <2>2. QueuesToLoad(cur[t]) \in SUBSET Outside /\ \A c : <<"block", c>> \notin QueuesToLoad(cur[t])
    BY <1>3, LoadPlaces
  <2>3. <<"block", cur[t]>> \in Outside
    <3>1. external_[cur[t]] # None
      BY <1>2, <1>3, <2>1 DEF BlocksInv, Added
    <3> QED
      BY <1>3, <3>1, BlockPlace, OutsidePlaces
  <2>4. S \in SUBSET Outside /\ QueuesToLoad(cur[t]) \subseteq S /\ \A b \in Block : <<"block", b>> \in S => b = cur[t]
    BY <2>2, <2>3, PlacesDiffer
  <2>5. \A u \in Worker : u # t => at'[u] = at[u]
    BY <1>2, <2>1 DEF Shape
  <2> HIDE DEF S
  <2> QED
    BY <1>1, <1>8, <2>1, <2>4, <2>5, GetFiles
<1>9. CASE UnloadQueues(t)
  <2>1. /\ at[t] = "skipped" /\ Put(LargeQueues(cur[t])) /\ phase' = phase
        /\ at' = [at EXCEPT ![t] = "next"] /\ cur' = [cur EXCEPT ![t] = NoBlock]
    BY <1>1, <1>9 DEF UnloadQueues, program
  <2>2. /\ \A l \in FromHere : outgoing_'[l] = outgoing_[l] \/ (l \in Large /\ l[1] = cur[t])
        /\ \A k \in 0..Rounds, l \in ToHere : incoming_'[k][l] = incoming_[k][l] \/ (l \in Large /\ l[2] = cur[t])
    BY <1>2, <1>3, <2>1, UnloadQueuesEffect
  <2>3. loaded' = loaded /\ cur[t] \notin loaded
    <3>1. cur[t] \notin loaded
      BY <2>1, AtThread
    <3>2. loaded' = loaded
      BY <1>1, <1>2, <1>3, <2>1, UnloadQueuesMoves
    <3> QED
      BY <3>1, <3>2
  <2>4. \A b \in Block : b = cur[t] \/ Resting(b) => Resting(b)'
    <3>1. \A u \in Worker : u # t => cur'[u] = cur[u] /\ at'[u] = at[u]
      BY <1>2, <2>1 DEF Shape
    <3>2. cur'[t] = NoBlock /\ NoBlock \notin Block
      BY <1>2, <2>1, OutOfCoreAssumption DEF Shape
    <3> QED
      BY <1>4, <2>3, <3>1, <3>2 DEF Resting
  <2>5. (\A x \in AllPlaces : Kept(x)' = Kept(x)) /\ NoneLost'
    <3>1. LargeQueues(cur[t]) \subseteq AllPlaces /\ IsFiniteSet(LargeQueues(cur[t]))
      BY <1>3, LargePlaces
    <3>2. LargeQueues(cur[t]) \cap Outside = {}
      BY <2>1, QueuesFresh
    <3> QED
      BY <1>2, <2>1, <3>1, <3>2, PutKeeps DEF FilesInv
  <2>6. (\A l \in FromHere : l[1] \in Block) /\ (\A l \in ToHere : l[2] \in Block)
    BY DEF FromHere, ToHere
  <2> QED
    BY <2>2, <2>4, <2>5, <2>6 DEF FilesInv
<1> QED
  BY <1>5, <1>6, <1>7, <1>8, <1>9

\* A step that puts no queue into a file.
LEMMA FilesStay ==
  ASSUME FilesInv, NoneLost',
         \A l \in FromHere : external(outgoing_'[l]) => external(outgoing_[l]) /\ (Resting(l[1]) => Resting(l[1])'),
         \A k \in 0..Rounds, l \in ToHere :
           external(incoming_'[k][l]) => external(incoming_[k][l]) /\ (Resting(l[2]) => Resting(l[2])')
  PROVE  FilesInv'
BY DEF FilesInv

LEMMA TakeFiles ==
  ASSUME BaseInv, FilesInv, NEW t \in Worker, Take(t)
  PROVE  FilesInv'
<1>1. /\ at[t] = "next" /\ cur' = [cur EXCEPT ![t] = Head(blocks)] /\ at' = [at EXCEPT ![t] = "taken"]
      /\ UNCHANGED <<elements_, external_, outgoing_, incoming_, files>>
  BY DEF Take, stored
<1>2. Shape
  BY DEF BaseInv
<1>3. loaded' = loaded
  BY <1>1 DEF loaded, InMemory
<1>4. \A u \in Worker : at'[u] = "taken" \/ (cur'[u] = cur[u] /\ at'[u] = at[u])
  BY <1>1, <1>2 DEF Shape
<1>5. \A b : Resting(b) => Resting(b)'
  BY <1>3, <1>4 DEF Resting
<1>6. NoneLost'
  BY <1>1, SameFiles DEF FilesInv
<1> QED
  BY <1>1, <1>5, <1>6, FilesStay

LEMMA RunFiles ==
  ASSUME BaseInv, FilesInv, NEW t \in Worker, Run(t)
  PROVE  FilesInv'
<1> DEFINE b == cur[t]
           stays == AllSkip(b) /\ ~InMemory(b)
<1>1. /\ at[t] = "ready" /\ external_' = external_ /\ files' = files /\ UNCHANGED program
      /\ \E to \in Sendings(b) :
           outgoing_' = [l \in FromHere |->
             IF l[1] # b \/ (outgoing_[l] = NoQueue /\ Mail(to, l[2]) = <<>>) THEN outgoing_[l]
             ELSE QueueRecord(Moved(outgoing_[l]) \o Mail(to, l[2]))]
      /\ incoming_' = [incoming_ EXCEPT ![exchange_round_] = [l \in ToHere |-> IF l[2] = b THEN NoQueue ELSE @[l]]]
      /\ at' = [at EXCEPT ![t] = IF stays THEN "skipped" ELSE "next"]
      /\ cur' = [cur EXCEPT ![t] = IF stays THEN b ELSE NoBlock]
  BY DEF Run
<1>2. Shape
  BY DEF BaseInv
<1>3. b \in Block /\ b # NoBlock /\ exchange_round_ \in 0..Rounds
  BY <1>1, AtThread
<1>4. ~Resting(b) /\ cur[t] = b
  BY <1>1 DEF Resting
<1>5. loaded' = loaded
  BY RunLoaded
<1> HIDE DEF b, stays
<1>6. \A c \in Block : c # b /\ Resting(c) => Resting(c)'
  <2>1. \A u \in Worker : u # t => cur'[u] = cur[u] /\ at'[u] = at[u]
    BY <1>1, <1>2 DEF Shape
  <2>2. cur'[t] \in {b, NoBlock} /\ NoBlock \notin Block
    BY <1>1, <1>2, OutOfCoreAssumption DEF Shape
  <2> QED
    BY <1>5, <2>1, <2>2 DEF Resting
<1>7. \A l \in FromHere : /\ l[1] # b => outgoing_'[l] = outgoing_[l]
                          /\ l[1] = b => outgoing_[l].external_ = None
  BY <1>1, <1>4 DEF FilesInv, external
<1>8. \A k \in 0..Rounds, l \in ToHere : /\ l[2] # b => incoming_'[k][l] = incoming_[k][l]
                                         /\ l[2] = b => incoming_[k][l].external_ = None
  <2>1. \A k \in 0..Rounds, l \in ToHere : l[2] # b => incoming_'[k][l] = incoming_[k][l]
    BY <1>1, <1>2, <1>3 DEF Shape
  <2>2. \A k \in 0..Rounds, l \in ToHere : l[2] = b => incoming_[k][l].external_ = None
    BY <1>4 DEF FilesInv, external
  <2> QED
    BY <2>1, <2>2
<1>9. NoneLost'
  BY <1>1, <1>7, <1>8, SameFiles DEF FilesInv
<1>10. /\ \A l \in FromHere : l[1] = b => ~external(outgoing_'[l])
       /\ \A k \in 0..Rounds, l \in ToHere : l[2] = b => ~external(incoming_'[k][l])
  <2>1. ASSUME NEW l \in FromHere, l[1] = b PROVE ~external(outgoing_'[l])
    <3>1. PICK to \in Sendings(b) :
            outgoing_' = [m \in FromHere |->
              IF m[1] # b \/ (outgoing_[m] = NoQueue /\ Mail(to, m[2]) = <<>>) THEN outgoing_[m]
              ELSE QueueRecord(Moved(outgoing_[m]) \o Mail(to, m[2]))]
      BY <1>1
    <3>2. outgoing_'[l] = outgoing_[l] \/ outgoing_'[l] = QueueRecord(Moved(outgoing_[l]) \o Mail(to, l[2]))
      BY <3>1
    <3>3. \A s : QueueRecord(s).external_ = None
      BY DEF QueueRecord
    <3> QED
      BY <1>7, <2>1, <3>2, <3>3 DEF external
  <2>2. ASSUME NEW k \in 0..Rounds, NEW l \in ToHere, l[2] = b PROVE ~external(incoming_'[k][l])
    <3>1. incoming_'[k][l] = incoming_[k][l] \/ incoming_'[k][l] = NoQueue
      BY <1>1, <1>2, <2>2 DEF Shape
    <3> QED
      BY <1>8, <2>2, <3>1, NoQueueStays DEF external
  <2> QED
    BY <2>1, <2>2
<1>11. (\A l \in FromHere : l[1] \in Block) /\ (\A l \in ToHere : l[2] \in Block)
  BY DEF FromHere, ToHere
<1> QED
  BY <1>6, <1>7, <1>8, <1>9, <1>10, <1>11, FilesStay

\* When execute() ends, and when exchange() begins, no block has queues to read.
LEMMA NothingUnread ==
  ASSUME BaseInv, Finish \/ BeginExchange
  PROVE  \A k \in 0..Rounds, l \in ToHere : incoming_'[k][l] = incoming_[k][l]
<1>1. Shape /\ QueuesInv
  BY DEF BaseInv
<1>2. incoming_' = [incoming_ EXCEPT ![exchange_round_] = [l \in ToHere |-> NoQueue]]
  BY DEF Finish, BeginExchange
<1>3. \A l \in ToHere : incoming_[exchange_round_][l] = NoQueue
  <2>1. CASE Finish
    <3>1. phase = "execute" /\ blocks = <<>> /\ \A t \in Worker : at[t] = "next"
      BY <2>1 DEF Finish
    <3>2. \A b : ~ToRun(b)
      BY <3>1 DEF ToRun, ToSet
    <3> QED
      BY <1>1, <3>1, <3>2 DEF QueuesInv
  <2>2. CASE BeginExchange
    <3>1. phase = "foreach" /\ called = Foreachs /\ commands_ = <<>>
      BY <2>2 DEF BeginExchange
    <3>2. called > 0
      BY <3>1, OutOfCoreAssumption
    <3> QED
      BY <1>1, <3>1, <3>2 DEF QueuesInv
  <2> QED
    BY <2>1, <2>2
<1> QED
  BY <1>1, <1>2, <1>3 DEF Shape

\* The steps of the program itself, between the calls of execute().
LEMMA ProgramFiles ==
  ASSUME BaseInv, FilesInv,
         \/ Foreach \/ (\E i \in BOOLEAN : SetImmediate(i)) \/ ExecutePending
         \/ Finish \/ BeginExchange \/ EndExchange \/ UNCHANGED vars
  PROVE  FilesInv'
<1>1. UNCHANGED <<elements_, external_, files, cur, at>>
  BY DEF Foreach, SetImmediate, ExecutePending, Finish, BeginExchange, EndExchange, vars, stored, threads
<1>2. Shape /\ ThreadsInv /\ QueuesInv
  BY DEF BaseInv
<1>3. \A b : Resting(b) => Resting(b)'
  <2>1. loaded' = loaded
    BY <1>1 DEF loaded, InMemory
  <2> QED
    BY <1>1, <2>1 DEF Resting
<1>4. /\ \A l \in FromHere : outgoing_'[l] = outgoing_[l] \/ (~external(outgoing_[l]) /\ ~external(outgoing_'[l]))
      /\ \A k \in 0..Rounds, l \in ToHere : incoming_'[k][l] = incoming_[k][l]
  <2>1. CASE UNCHANGED stored
    BY <2>1 DEF stored
  <2>2. CASE Finish
    BY <2>2, NothingUnread DEF Finish
  <2>3. CASE BeginExchange
    <3>1. outgoing_' = [l \in FromHere |-> IF outgoing_[l] = NoQueue THEN QueueRecord(<<>>) ELSE outgoing_[l]]
      BY <2>3 DEF BeginExchange
    <3>2. ~external(QueueRecord(<<>>))
      BY DEF external, QueueRecord
    <3> QED
      BY <2>3, <3>1, <3>2, NothingUnread, NoQueueStays
  <2>4. CASE EndExchange
    <3>1. phase = "flush" /\ gid_order = {} /\ incoming_' = incoming_ /\ outgoing_' = [l \in FromHere |-> NoQueue]
      BY <2>4 DEF EndExchange
    <3>2. \A l \in FromHere : outgoing_[l] = NoQueue
      BY <1>2, <3>1 DEF QueuesInv, ToBeSent
    <3> QED
      BY <3>1, <3>2
  <2> QED
    BY <2>1, <2>2, <2>3, <2>4 DEF Foreach, SetImmediate, ExecutePending, vars
<1>5. NoneLost'
  BY <1>1, <1>4, SameFiles DEF FilesInv, external
<1> QED
  BY <1>3, <1>4, <1>5, FilesStay

\* While blocks are added there are no queues in files.
LEMMA AddFiles ==
  ASSUME BaseInv, FilesInv, FewLarge, NEW b \in Block, Add(b)
  PROVE  FilesInv'
<1>1. phase = "add" /\ UNCHANGED <<external_, outgoing_, incoming_, files>>
  BY DEF Add
<1>2. QueuesInv
  BY DEF BaseInv
<1>3. \A l \in FromHere : ~external(outgoing_[l])
  <2>1. gid_order = {}
    BY <1>1, <1>2 DEF QueuesInv
  <2> QED
    BY <1>1, <1>2, <2>1, NoQueueStays DEF QueuesInv, ToBeSent
<1>4. \A k \in 0..Rounds, l \in ToHere : ~external(incoming_[k][l])
  <2> SUFFICES ASSUME NEW k \in 0..Rounds, NEW l \in ToHere, external(incoming_[k][l]) PROVE FALSE
    OBVIOUS
  <2>1. l \in Large /\ incoming_[k][l] # NoQueue
    BY NoQueueStays DEF FilesInv
  <2>2. k = exchange_round_
    BY <1>2, <2>1 DEF QueuesInv, FewLarge
  <2> QED
    BY <1>1, <1>2, <2>1, <2>2 DEF QueuesInv
<1>5. NoneLost'
  BY <1>1, SameFiles DEF FilesInv
<1> QED
  BY <1>1, <1>3, <1>4, <1>5, FilesStay

LEMMA UnloadAllFiles ==
  ASSUME BaseInv, FilesInv, UnloadAll
  PROVE  FilesInv' /\ \A x \in AllPlaces : Kept(x)' = Kept(x)
<1>1. phase = "add" /\ Unload(loaded) /\ UNCHANGED program /\ cur' = cur /\ at' = at
  BY DEF UnloadAll, threads
<1>2. \A u \in Worker : cur[u] \notin loaded
  <2>1. \A u \in Worker : cur[u] = NoBlock
    BY <1>1 DEF BaseInv, ThreadsInv, ThreadOK
  <2> QED
    BY <2>1, OutOfCoreAssumption DEF loaded
<1> QED
  BY <1>1, <1>2, UnloadFiles

LEMMA LoadOutgoingFiles ==
  ASSUME BaseInv, FilesInv, NEW b \in Block, LoadOutgoing(b)
  PROVE  FilesInv' /\ \A x \in AllPlaces : Kept(x)' = Kept(x)
<1>1. Get(OutgoingToLoad(b)) /\ UNCHANGED program /\ cur' = cur /\ at' = at
  BY DEF LoadOutgoing, threads
<1>2. Shape /\ StorageInv /\ BlocksInv
  BY DEF BaseInv
<1>3. OutgoingToLoad(b) \in SUBSET Outside /\ \A c : <<"block", c>> \notin OutgoingToLoad(b)
  <2>1. OutgoingToLoad(b) \subseteq QueuesToLoad(b)
    BY DEF QueuesToLoad
  <2> QED
    BY <1>2, <2>1, LoadPlaces DEF Shape
<1>4. \A c \in Block : c \in loaded' <=> c \in loaded
  BY <1>1, <1>2, <1>3, GetMoves
<1>5. \A c \in Block : Resting(c) => Resting(c)'
  BY <1>1, <1>4 DEF Resting
<1>6. /\ \A l \in FromHere : outgoing_'[l] = outgoing_[l] \/ outgoing_'[l].external_ = None
      /\ \A k \in 0..Rounds, l \in ToHere : incoming_'[k][l] = incoming_[k][l] \/ incoming_'[k][l].external_ = None
  BY <1>1, <1>2, <1>3, GetQueues
<1>7. (\A x \in AllPlaces : Kept(x)' = Kept(x)) /\ NoneLost'
  BY <1>1, <1>2, <1>3, GetKeeps DEF FilesInv
<1>8. (\A l \in FromHere : l[1] \in Block) /\ (\A l \in ToHere : l[2] \in Block)
  BY DEF FromHere, ToHere
<1> QED
  BY <1>5, <1>6, <1>7, <1>8, FilesStay DEF external

\* Queues between blocks of the rank are not large, and so in memory.
LEMMA SendFiles ==
  ASSUME BaseInv, FilesInv, FewLarge, NEW b \in Block, SendBlock(b)
  PROVE  FilesInv'
<1>0. PICK k \in 0..Rounds : k = exchange_round_
  BY DEF BaseInv, Shape
<1>1. /\ \A l \in FromHere : outgoing_'[l] = IF l[1] = b THEN NoQueue ELSE outgoing_[l]
      /\ \A j \in 0..Rounds, l \in ToHere : j # k \/ l \notin SentNow(b) => incoming_'[j][l] = incoming_[j][l]
      /\ \A l \in SentNow(b) \ SentToFile(b) : incoming_'[k][l] = outgoing_[l]
  BY <1>0, SendEffect
<1>2. \A l \in SentNow(b) : l \in FromHere /\ l \notin Large
  BY DEF SentNow, FewLarge, Inside, FromHere
<1>3. SentToFile(b) = {}
  BY <1>2 DEF SentToFile, Unloads
<1>4. \A l \in SentNow(b) : ~external(incoming_'[k][l])
  BY <1>1, <1>2, <1>3 DEF FilesInv
<1>5. \A c : Resting(c) => Resting(c)'
  <2>1. elements_' = elements_ /\ cur' = cur /\ at' = at
    BY DEF SendBlock, threads
  <2> QED
    BY <2>1 DEF Resting, loaded, InMemory
<1>6. NoneLost'
  BY SendStorage DEF FilesInv
<1>7. \A l \in FromHere : external(outgoing_'[l]) => external(outgoing_[l])
  BY <1>1, NoQueueStays
<1>8. ASSUME NEW j \in 0..Rounds, NEW l \in ToHere, external(incoming_'[j][l]) PROVE external(incoming_[j][l])
  BY <1>1, <1>4, <1>8
<1> QED
  BY <1>5, <1>6, <1>7, <1>8, FilesStay

\* What goes to a file when it comes is of this round and for a block in a file.
LEMMA ArriveFiles ==
  ASSUME BaseInv, FilesInv, FewLarge, NEW l \in ToHere, NEW k \in 0..Rounds, Arrive(l, k)
  PROVE  FilesInv'
<1>1. /\ \A j \in 0..Rounds, m \in ToHere : j # k \/ m # l => incoming_'[j][m] = incoming_[j][m]
      /\ \E items \in {<<>>, <<<<k - 1, 1>>>>} : \/ ToFile(l, k, QueueRecord(items))
                                                 \/ incoming_'[k][l] = QueueRecord(items)
  BY ArriveEffect
<1>2. /\ phase = "flush" /\ (k = exchange_round_ \/ l \in Early)
      /\ UNCHANGED <<elements_, external_, outgoing_>> /\ cur' = cur /\ at' = at
  BY DEF Arrive, threads
<1>3. loaded' = loaded
  BY <1>2 DEF loaded, InMemory
<1>4. \A c : Resting(c) => Resting(c)'
  BY <1>2, <1>3 DEF Resting
<1>5. external(incoming_'[k][l]) => l \in Large /\ Resting(l[2])'
  <2> SUFFICES ASSUME external(incoming_'[k][l]) PROVE l \in Large /\ Resting(l[2])'
    OBVIOUS
  <2>1. \A s : ~external(QueueRecord(s))
    BY DEF external, QueueRecord
  <2>2. PICK items : ToFile(l, k, QueueRecord(items))
    BY <1>1, <2>1
  <2>3. l \in Large
    BY <2>2 DEF ToFile, Unloads
  <2>4. ~InMemory(l[2])
    BY <1>2, <2>2, <2>3 DEF ToFile, FewLarge
  <2>5. \A u \in Worker : cur[u] = NoBlock
    BY <1>2 DEF BaseInv, ThreadsInv, ThreadOK
  <2>6. l[2] # NoBlock
    BY OutOfCoreAssumption DEF ToHere
  <2>7. Resting(l[2])
    BY <2>4, <2>5, <2>6 DEF Resting, loaded
  <2> QED
    BY <1>4, <2>3, <2>7
<1>6. NoneLost'
  BY ArriveStorage DEF FilesInv
<1>7. \A m \in FromHere : external(outgoing_'[m]) => m \in Large /\ Resting(m[1])'
  BY <1>2, <1>4 DEF FilesInv
<1>8. ASSUME NEW j \in 0..Rounds, NEW m \in ToHere, external(incoming_'[j][m])
      PROVE  m \in Large /\ Resting(m[2])'
  BY <1>1, <1>4, <1>5, <1>8 DEF FilesInv
<1> QED
  BY <1>6, <1>7, <1>8 DEF FilesInv

LEMMA FilesStep ==
  ASSUME BaseInv, FilesInv, FewLarge, [Next]_vars
  PROVE  FilesInv'
<1>1. CASE \/ Foreach \/ (\E i \in BOOLEAN : SetImmediate(i)) \/ ExecutePending
           \/ Finish \/ BeginExchange \/ EndExchange \/ Finished \/ UNCHANGED vars
  BY <1>1, ProgramFiles DEF Finished
<1>2. CASE UnloadAll
  BY <1>2, UnloadAllFiles
<1>3. CASE \E b \in Block : Add(b)
  BY <1>3, AddFiles
<1>4. CASE \E t \in Worker : Thread(t)
  <2> SUFFICES ASSUME NEW t \in Worker, Thread(t) PROVE FilesInv'
    BY <1>4
  <2> QED
    BY TakeFiles, RunFiles, MoveFiles DEF Thread
<1>5. CASE \E b \in Block : LoadOutgoing(b) \/ SendBlock(b)
  BY <1>5, LoadOutgoingFiles, SendFiles
<1>6. CASE \E l \in ToHere, k \in 0..Rounds : Arrive(l, k)
  BY <1>6, ArriveFiles
<1> QED
  BY <1>1, <1>2, <1>3, <1>4, <1>5, <1>6 DEF Next

LEMMA AlwaysFiles ==
  ASSUME FewLarge
  PROVE  Spec => []FilesInv
<1>1. Init => FilesInv
  <2> SUFFICES ASSUME Init PROVE FilesInv
    OBVIOUS
  <2>1. /\ outgoing_ = [l \in FromHere |-> NoQueue]
        /\ incoming_ = [k \in 0..Rounds |-> [l \in ToHere |-> NoQueue]]
        /\ files = [f \in {} |-> <<>>]
    BY DEF Init
  <2>2. NoneLost
    BY <2>1 DEF NoneLost
  <2> QED
    BY <2>1, <2>2, NoQueueStays DEF FilesInv
<1>2. Spec => []BaseInv
  BY AlwaysBase
<1>3. BaseInv /\ FilesInv /\ [Next]_vars => FilesInv'
  BY FilesStep
<1> QED
  BY <1>1, <1>2, <1>3, PTL DEF Spec

\* FilesKept, of every number of blocks, threads, rounds and calls: no file of
\* the storage is forgotten, and none is that of two queues (Collection::unload,
\* unload_queues, load_queues, send_same_rank, check_incoming_queues).
THEOREM FilesNeverLost ==
  ASSUME FewLarge
  PROVE  Spec => []FilesKept
<1>1. BaseInv /\ FilesInv => FilesKept
  <2> SUFFICES ASSUME BaseInv, FilesInv PROVE FilesKept
    OBVIOUS
  <2>1. /\ \A x \in Outside : FileOf(x) \in DOMAIN files
        /\ \A x, y \in Outside : FileOf(x) = FileOf(y) => x = y
    BY DEF BaseInv, StorageInv
  <2>2. \A n \in DOMAIN files : \E x \in Outside : FileOf(x) = n
    BY DEF FilesInv, NoneLost
  <2> QED
    BY <2>1, <2>2 DEF FilesKept
<1> QED
  BY <1>1, AlwaysBase, AlwaysFiles, PTL


-----------------------------------------------------------------------------
(***************************************************************************)
(* Types, of what is in memory and of what is in the files.  What the      *)
(* callbacks enqueue is put in the order of the calls, which exists for    *)
(* every set of them, by induction.                                        *)
(***************************************************************************)
\* Induction, for a set of numbers.
LEMMA Induction ==
  ASSUME NEW P, 0 \in P, \A n \in Nat : n \in P => n + 1 \in P
  PROVE  Nat \subseteq P
<1> DEFINE R == {ss \in Nat \X Nat : ss[1] < ss[2]}
           T == Nat \ P
<1> SUFFICES ASSUME T # {} PROVE FALSE
  OBVIOUS
<1>1. IsWellFoundedOn(R, Nat)
  BY NatLessThanWellFounded DEF OpToRel
<1>2. PICK x \in T : \A y \in T : ~(<<y, x>> \in R)
  <2>1. T \subseteq Nat
    OBVIOUS
  <2> HIDE DEF R, T
  <2> QED
    BY <1>1, <2>1, WFMin
<1>3. x # 0 /\ x - 1 \in Nat /\ <<x - 1, x>> \in R
  OBVIOUS
<1>4. x - 1 \in P
  BY <1>2, <1>3
<1>5. x - 1 + 1 \in P
  BY <1>3, <1>4
<1> QED
  BY <1>3, <1>5

\* Every set of numbers can be put in order.
Sorted(s) == \A i, j \in DOMAIN s : i < j => s[i] < s[j]
CanBeSorted(m) == \A S \in SUBSET (1..m) : \E s \in [1..Cardinality(S) -> S] : Sorted(s)

LEMMA OneMore ==
  ASSUME NEW m \in Nat, NEW c \in Nat, NEW T \in SUBSET (1..m), NEW s \in [1..c -> T], Sorted(s)
  PROVE  \E u \in [1..c + 1 -> T \cup {m + 1}] : Sorted(u)
<1> DEFINE u == [i \in 1..c + 1 |-> IF i = c + 1 THEN m + 1 ELSE s[i]]
<1>1. u \in [1..c + 1 -> T \cup {m + 1}]
  <2> SUFFICES ASSUME NEW i \in 1..c + 1 PROVE (IF i = c + 1 THEN m + 1 ELSE s[i]) \in T \cup {m + 1}
    OBVIOUS
  <2>1. i # c + 1 => i \in 1..c
    OBVIOUS
  <2> QED
    BY <2>1
<1>2. Sorted(u)
  <2> SUFFICES ASSUME NEW i \in 1..c + 1, NEW j \in 1..c + 1, i < j PROVE u[i] < u[j]
    BY DEF Sorted
  <2>1. i \in 1..c /\ u[i] = s[i] /\ s[i] \in 1..m
    <3>1. i \in 1..c
      OBVIOUS
    <3>2. s[i] \in T
      BY <3>1
    <3>3. u[i] = s[i]
      BY <3>1
    <3> QED
      BY <3>1, <3>2, <3>3
  <2>2. CASE j = c + 1
    BY <2>1, <2>2
  <2>3. CASE j # c + 1
    <3>1. j \in 1..c /\ u[j] = s[j]
      BY <2>3
    <3>2. i \in DOMAIN s /\ j \in DOMAIN s
      BY <2>1, <3>1
    <3> QED
      BY <2>1, <3>1, <3>2 DEF Sorted
  <2> QED
    BY <2>2, <2>3
<1> QED
  BY <1>1, <1>2

LEMMA Orders ==
  ASSUME NEW n \in Nat, NEW D \in SUBSET (1..n)
  PROVE  Cardinality(D) \in Nat /\ InOrder(D) \in [1..Cardinality(D) -> D]
<1> DEFINE P == {m \in Nat : CanBeSorted(m)}
<1>1. \A m \in Nat : \A S \in SUBSET (1..m) : IsFiniteSet(S) /\ Cardinality(S) \in Nat
  <2> SUFFICES ASSUME NEW m \in Nat, NEW S \in SUBSET (1..m) PROVE IsFiniteSet(S) /\ Cardinality(S) \in Nat
    OBVIOUS
  <2>1. IsFiniteSet(1..m)
    BY FS_Interval
  <2>2. IsFiniteSet(S)
    BY <2>1, FS_Subset
  <2> QED
    BY <2>2, FS_CardinalityType
<1>2. CanBeSorted(0)
  <2> SUFFICES ASSUME NEW S \in SUBSET (1..0) PROVE \E s \in [1..Cardinality(S) -> S] : Sorted(s)
    BY DEF CanBeSorted
  <2>1. S = {}
    OBVIOUS
  <2>2. Cardinality(S) = 0
    BY <2>1, FS_EmptySet
  <2>3. <<>> \in [1..Cardinality(S) -> S] /\ Sorted(<<>>)
    BY <2>2 DEF Sorted
  <2> QED
    BY <2>3
<1>3. ASSUME NEW m \in Nat, CanBeSorted(m) PROVE CanBeSorted(m + 1)
  <2> SUFFICES ASSUME NEW S \in SUBSET (1..m + 1) PROVE \E s \in [1..Cardinality(S) -> S] : Sorted(s)
    BY DEF CanBeSorted
  <2>1. CASE m + 1 \notin S
    <3>1. S \in SUBSET (1..m)
      BY <2>1
    <3> QED
      BY <1>3, <3>1 DEF CanBeSorted
  <2>2. CASE m + 1 \in S
    <3>1. PICK T \in SUBSET (1..m) : T = S \ {m + 1}
      <4>1. \A x \in S \ {m + 1} : x \in 1..m
        OBVIOUS
      <4> QED
        BY <4>1
    <3>2. PICK s \in [1..Cardinality(T) -> T] : Sorted(s)
      BY <1>3 DEF CanBeSorted
    <3>3. IsFiniteSet(S) /\ Cardinality(T) \in Nat /\ Cardinality(S) \in Nat
      <4>1. m + 1 \in Nat
        OBVIOUS
      <4> QED
        BY <1>1, <4>1
    <3>4. Cardinality(T) = Cardinality(S) - 1
      BY <2>2, <3>1, <3>3, FS_RemoveElement
    <3>5. PICK c \in Nat : c = Cardinality(T) /\ Cardinality(S) = c + 1
      BY <3>3, <3>4
    <3>6. \E u \in [1..c + 1 -> T \cup {m + 1}] : Sorted(u)
      BY <3>2, <3>5, OneMore
    <3>7. T \cup {m + 1} = S
      BY <2>2, <3>1
    <3> QED
      BY <3>5, <3>6, <3>7
  <2> QED
    BY <2>1, <2>2
<1>4. n \in P
  <2> HIDE DEF CanBeSorted
  <2>1. 0 \in P /\ \A m \in Nat : m \in P => m + 1 \in P
    BY <1>2, <1>3
  <2> HIDE DEF P
  <2> QED
    BY <2>1, Induction
<1>5. \E s \in [1..Cardinality(D) -> D] : Sorted(s)
  BY <1>4 DEF CanBeSorted
<1>6. InOrder(D) \in [1..Cardinality(D) -> D]
  BY <1>5 DEF InOrder, Sorted
<1> QED
  BY <1>1, <1>6

LEMMA MailTyped ==
  ASSUME commands_ \in Seq(1..Foreachs), exchange_round_ \in 0..Rounds, NEW to, DOMAIN to = DOMAIN commands_, NEW c
  PROVE  Mail(to, c) \in Seq(Item)
<1>1. PICK n \in Nat : DOMAIN commands_ = 1..n /\ commands_ \in [1..n -> 1..Foreachs]
  <2>1. \A S : \A s \in Seq(S) : Len(s) \in Nat /\ DOMAIN s = 1..Len(s) /\ s \in [1..Len(s) -> S]
    OBVIOUS
  <2> QED
    BY <2>1
<1>2. PICK D \in SUBSET (1..n) : D = {i \in DOMAIN to : c \in to[i]}
  <2>1. {i \in DOMAIN to : c \in to[i]} \in SUBSET (1..n)
    BY <1>1
  <2> QED
    BY <2>1
<1>3. PICK m \in Nat : m = Cardinality(D) /\ InOrder(D) \in [1..m -> D]
  BY Orders
<1>4. PICK calls \in [1..m -> D] : calls = InOrder(D)
  BY <1>3
<1>5. \A j \in 1..m : commands_[calls[j]] \in 1..Foreachs
  <2>1. \A i \in 1..n : commands_[i] \in 1..Foreachs
    BY <1>1
  <2> QED
    BY <1>4, <2>1
<1>6. [j \in 1..m |-> <<exchange_round_, commands_[calls[j]]>>] \in [1..m -> Item]
  BY <1>5 DEF Item
<1>7. Mail(to, c) = [j \in 1..m |-> <<exchange_round_, commands_[calls[j]]>>]
  BY <1>2, <1>4 DEF Mail
<1> QED
  BY <1>6, <1>7

\* What a queue holds, f being the files.
QueueRecords == [size_ : Nat \cup {-1}, external_ : Nat, buffer_ : Seq(Item)]
TypedIn(qr, f) == /\ qr \in QueueRecords
                  /\ qr.external_ # None => f[qr.external_] \in Seq(Item)

ElementTyped(b) == /\ elements_[b] \in BlockContent(b) \cup {Absent}
                   /\ external_[b] # None => files[external_[b]] \in BlockContent(b)

StoredTyped == /\ \A b \in Block : ElementTyped(b)
               /\ \A l \in FromHere : TypedIn(outgoing_[l], files)
               /\ \A k \in 0..Rounds, l \in ToHere : TypedIn(incoming_[k][l], files)

ProgramTyped == /\ immediate_ \in BOOLEAN
                /\ received \in [0..Rounds -> Nat]
                /\ wire \in [FromHere \ Inside -> Seq(Item)]
                /\ phase = "flush" => exchange_round_ > 0

TypesInv == StoredTyped /\ ProgramTyped

LEMMA TypedNew ==
  /\ \A f : TypedIn(NoQueue, f)
  /\ \A items \in Seq(Item) : QueueRecord(items) \in QueueRecords /\ QueueRecord(items).external_ = None
  /\ \A f, items : items \in Seq(Item) => TypedIn(QueueRecord(items), f)
<1>1. NoQueue \in QueueRecords /\ NoQueue.external_ = None
  BY DEF NoQueue, QueueRecords, None
<1>2. \A items \in Seq(Item) : QueueRecord(items) \in QueueRecords /\ QueueRecord(items).external_ = None
  BY DEF QueueRecord, QueueRecords, None
<1> QED
  BY <1>1, <1>2 DEF TypedIn

LEMMA TypedUnloaded ==
  ASSUME NEW qr \in QueueRecords, NEW n \in Nat, NEW f, f[n] = qr.buffer_
  PROVE  TypedIn(Unloaded(qr, n), f)
<1>1. qr.buffer_ \in Seq(Item) /\ Len(qr.buffer_) \in Nat
  BY DEF QueueRecords
<1>2. Unloaded(qr, n) \in QueueRecords /\ Unloaded(qr, n).external_ = n
  BY <1>1 DEF Unloaded, QueueRecords
<1> QED
  BY <1>1, <1>2 DEF TypedIn

LEMMA TypedSame ==
  ASSUME NEW qr, NEW f, NEW g, TypedIn(qr, f), qr.external_ # None => g[qr.external_] = f[qr.external_]
  PROVE  TypedIn(qr, g)
BY DEF TypedIn

\* Queues that stay are typed as they were.
LEMMA StayTyped ==
  ASSUME StorageInv, StoredTyped, \A n \in DOMAIN files : files'[n] = files[n]
  PROVE  /\ \A b \in Block : external_[b] # None => files'[external_[b]] = files[external_[b]]
         /\ \A l \in FromHere : TypedIn(outgoing_[l], files')
         /\ \A k \in 0..Rounds, l \in ToHere : TypedIn(incoming_[k][l], files')
<1>1. \A x \in AllPlaces : FileOf(x) # None => FileOf(x) \in DOMAIN files
  BY OutsidePlaces DEF StorageInv
<1>2. \A b \in Block : external_[b] # None => files'[external_[b]] = files[external_[b]]
  BY <1>1, BlockPlace
<1>3. ASSUME NEW l \in FromHere PROVE TypedIn(outgoing_[l], files')
  <2>1. TypedIn(outgoing_[l], files)
    BY DEF StoredTyped
  <2>2. outgoing_[l].external_ # None => files'[outgoing_[l].external_] = files[outgoing_[l].external_]
    BY <1>1, OutPlace
  <2> QED
    BY <2>1, <2>2, TypedSame
<1>4. ASSUME NEW k \in 0..Rounds, NEW l \in ToHere PROVE TypedIn(incoming_[k][l], files')
  <2>1. TypedIn(incoming_[k][l], files)
    BY DEF StoredTyped
  <2>2. incoming_[k][l].external_ # None => files'[incoming_[k][l].external_] = files[incoming_[k][l].external_]
    BY <1>1, InPlace
  <2> QED
    BY <2>1, <2>2, TypedSame
<1> QED
  BY <1>2, <1>3, <1>4

LEMMA PutTyped ==
  ASSUME StorageInv, StoredTyped, NEW S \in SUBSET AllPlaces, IsFiniteSet(S), Put(S),
         \A b \in Block : <<"block", b>> \in S => InMemory(b)
  PROVE  StoredTyped'
<1>1. IsFiniteSet(DOMAIN files)
  BY DEF StorageInv
<1>2. /\ \A x \in AllPlaces \ S : /\ FileOf(x)' = FileOf(x) /\ Mem(x)' = Mem(x)
                                  /\ x[1] # "block" => RecordAt(x)' = RecordAt(x)
      /\ \A x \in S : /\ FileOf(x)' \in Nat \ {0}
                      /\ files'[FileOf(x)'] = Mem(x)
                      /\ Mem(x)' = IF x[1] = "block" THEN Absent ELSE <<>>
                      /\ x[1] # "block" => RecordAt(x)' = Unloaded(RecordAt(x), FileOf(x)')
      /\ \A n \in DOMAIN files : files'[n] = files[n]
  BY <1>1, PutEffect
<1>3. /\ \A b \in Block : external_[b] # None => files'[external_[b]] = files[external_[b]]
      /\ \A l \in FromHere : TypedIn(outgoing_[l], files')
      /\ \A k \in 0..Rounds, l \in ToHere : TypedIn(incoming_[k][l], files')
  BY <1>2, StayTyped
<1>4. ASSUME NEW b \in Block PROVE ElementTyped(b)'
  <2>0. ElementTyped(b)
    BY DEF StoredTyped
  <2>1. /\ <<"block", b>> \in AllPlaces /\ <<"block", b>>[1] = "block"
        /\ FileOf(<<"block", b>>) = external_[b] /\ Mem(<<"block", b>>) = elements_[b]
    BY BlockPlace
  <2>2. FileOf(<<"block", b>>)' = external_'[b] /\ Mem(<<"block", b>>)' = elements_'[b]
    BY BlockPlace DEF FileOf, Mem
  <2>3. CASE <<"block", b>> \in S
    <3>1. /\ elements_'[b] = Absent
          /\ files'[external_'[b]] = elements_[b]
      BY <1>2, <2>1, <2>2, <2>3
    <3>2. elements_[b] \in BlockContent(b)
      BY <2>0, <2>3 DEF ElementTyped, InMemory
    <3> QED
      BY <3>1, <3>2 DEF ElementTyped, BlockContent, In
  <2>4. CASE <<"block", b>> \notin S
    <3>1. elements_'[b] = elements_[b] /\ external_'[b] = external_[b]
      BY <1>2, <2>1, <2>2, <2>4
    <3> QED
      BY <1>3, <2>0, <3>1 DEF ElementTyped, BlockContent, In
  <2> QED
    BY <2>3, <2>4
<1>5. ASSUME NEW l \in FromHere PROVE TypedIn(outgoing_'[l], files')
  <2>1. /\ <<"out", l>> \in AllPlaces /\ <<"out", l>>[1] # "block" /\ RecordAt(<<"out", l>>) = outgoing_[l]
        /\ FileOf(<<"out", l>>) = outgoing_[l].external_ /\ Mem(<<"out", l>>) = outgoing_[l].buffer_
    BY OutPlace
  <2>2. RecordAt(<<"out", l>>)' = outgoing_'[l]
    BY DEF RecordAt
  <2>3. CASE <<"out", l>> \in S
    <3>1. PICK n \in Nat : n = FileOf(<<"out", l>>)'
      BY <1>2, <2>3
    <3>2. files'[n] = outgoing_[l].buffer_ /\ outgoing_'[l] = Unloaded(outgoing_[l], n)
      BY <1>2, <2>1, <2>2, <2>3, <3>1
    <3>3. outgoing_[l] \in QueueRecords
      BY DEF StoredTyped, TypedIn
    <3> QED
      BY <3>2, <3>3, TypedUnloaded
  <2>4. CASE <<"out", l>> \notin S
    BY <1>2, <1>3, <2>1, <2>2, <2>4
  <2> QED
    BY <2>3, <2>4
<1>6. ASSUME NEW k \in 0..Rounds, NEW l \in ToHere PROVE TypedIn(incoming_'[k][l], files')
  <2>1. /\ <<"in", k, l>> \in AllPlaces /\ <<"in", k, l>>[1] # "block" /\ RecordAt(<<"in", k, l>>) = incoming_[k][l]
        /\ FileOf(<<"in", k, l>>) = incoming_[k][l].external_ /\ Mem(<<"in", k, l>>) = incoming_[k][l].buffer_
    BY InPlace
  <2>2. RecordAt(<<"in", k, l>>)' = incoming_'[k][l]
    BY DEF RecordAt
  <2>3. CASE <<"in", k, l>> \in S
    <3>1. PICK n \in Nat : n = FileOf(<<"in", k, l>>)'
      BY <1>2, <2>3
    <3>2. files'[n] = incoming_[k][l].buffer_ /\ incoming_'[k][l] = Unloaded(incoming_[k][l], n)
      BY <1>2, <2>1, <2>2, <2>3, <3>1
    <3>3. incoming_[k][l] \in QueueRecords
      BY DEF StoredTyped, TypedIn
    <3> QED
      BY <3>2, <3>3, TypedUnloaded
  <2>4. CASE <<"in", k, l>> \notin S
    BY <1>2, <1>3, <2>1, <2>2, <2>4
  <2> QED
    BY <2>3, <2>4
<1> QED
  BY <1>4, <1>5, <1>6 DEF StoredTyped

LEMMA GetTyped ==
  ASSUME StorageInv, StoredTyped, NEW S \in SUBSET Outside, Get(S)
  PROVE  StoredTyped'
<1>1. /\ \A x \in AllPlaces \ S : /\ FileOf(x)' = FileOf(x) /\ Mem(x)' = Mem(x)
                                  /\ x[1] # "block" => RecordAt(x)' = RecordAt(x)
      /\ \A x \in S : /\ FileOf(x)' = None /\ Mem(x)' = files[FileOf(x)]
                      /\ x[1] # "block" => RecordAt(x)' = QueueRecord(files[FileOf(x)])
  BY GetEffect
<1>2. \A x \in AllPlaces : FileOf(x)' # None => x \notin S /\ files'[FileOf(x)] = files[FileOf(x)]
  <2> SUFFICES ASSUME NEW x \in AllPlaces, FileOf(x)' # None
               PROVE  x \notin S /\ files'[FileOf(x)] = files[FileOf(x)]
    OBVIOUS
  <2>1. x \notin S /\ FileOf(x)' = FileOf(x)
    BY <1>1
  <2>2. Kept(x)' = Kept(x)
    BY GetKeeps
  <2> QED
    BY <2>1, <2>2 DEF Kept
<1>3. ASSUME NEW b \in Block PROVE ElementTyped(b)'
  <2>0. ElementTyped(b)
    BY DEF StoredTyped
  <2>1. /\ <<"block", b>> \in AllPlaces /\ <<"block", b>>[1] = "block"
        /\ FileOf(<<"block", b>>) = external_[b] /\ Mem(<<"block", b>>) = elements_[b]
    BY BlockPlace
  <2>2. FileOf(<<"block", b>>)' = external_'[b] /\ Mem(<<"block", b>>)' = elements_'[b]
    BY BlockPlace DEF FileOf, Mem
  <2>3. CASE <<"block", b>> \in S
    <3>1. elements_'[b] = files[external_[b]] /\ external_'[b] = None /\ external_[b] # None
      BY <1>1, <2>1, <2>2, <2>3, OutsidePlaces
    <3> QED
      BY <2>0, <3>1 DEF ElementTyped, BlockContent, In
  <2>4. CASE <<"block", b>> \notin S
    <3>1. elements_'[b] = elements_[b] /\ external_'[b] = external_[b]
      BY <1>1, <2>1, <2>2, <2>4
    <3>2. external_[b] # None => files'[external_[b]] = files[external_[b]]
      BY <1>2, <2>1, <2>2, <3>1
    <3> QED
      BY <2>0, <3>1, <3>2 DEF ElementTyped, BlockContent, In
  <2> QED
    BY <2>3, <2>4
<1>4. ASSUME NEW l \in FromHere PROVE TypedIn(outgoing_'[l], files')
  <2>0. TypedIn(outgoing_[l], files)
    BY DEF StoredTyped
  <2>1. /\ <<"out", l>> \in AllPlaces /\ <<"out", l>>[1] # "block" /\ RecordAt(<<"out", l>>) = outgoing_[l]
        /\ FileOf(<<"out", l>>) = outgoing_[l].external_
    BY OutPlace
  <2>2. RecordAt(<<"out", l>>)' = outgoing_'[l] /\ FileOf(<<"out", l>>)' = outgoing_'[l].external_
    BY <2>1 DEF RecordAt, FileOf
  <2>3. CASE <<"out", l>> \in S
    <3>1. outgoing_[l].external_ # None /\ outgoing_'[l] = QueueRecord(files[outgoing_[l].external_])
      BY <1>1, <2>1, <2>2, <2>3, OutsidePlaces
    <3>2. files[outgoing_[l].external_] \in Seq(Item)
      BY <2>0, <3>1 DEF TypedIn
    <3> QED
      BY <3>1, <3>2, TypedNew
  <2>4. CASE <<"out", l>> \notin S
    <3>1. outgoing_'[l] = outgoing_[l]
      BY <1>1, <2>1, <2>2, <2>4
    <3>2. outgoing_[l].external_ # None => files'[outgoing_[l].external_] = files[outgoing_[l].external_]
      BY <1>2, <2>1, <2>2, <3>1
    <3> QED
      BY <2>0, <3>1, <3>2, TypedSame
  <2> QED
    BY <2>3, <2>4
<1>5. ASSUME NEW k \in 0..Rounds, NEW l \in ToHere PROVE TypedIn(incoming_'[k][l], files')
  <2>0. TypedIn(incoming_[k][l], files)
    BY DEF StoredTyped
  <2>1. /\ <<"in", k, l>> \in AllPlaces /\ <<"in", k, l>>[1] # "block" /\ RecordAt(<<"in", k, l>>) = incoming_[k][l]
        /\ FileOf(<<"in", k, l>>) = incoming_[k][l].external_
    BY InPlace
  <2>2. RecordAt(<<"in", k, l>>)' = incoming_'[k][l] /\ FileOf(<<"in", k, l>>)' = incoming_'[k][l].external_
    BY <2>1 DEF RecordAt, FileOf
  <2>3. CASE <<"in", k, l>> \in S
    <3>1. incoming_[k][l].external_ # None /\ incoming_'[k][l] = QueueRecord(files[incoming_[k][l].external_])
      BY <1>1, <2>1, <2>2, <2>3, OutsidePlaces
    <3>2. files[incoming_[k][l].external_] \in Seq(Item)
      BY <2>0, <3>1 DEF TypedIn
    <3> QED
      BY <3>1, <3>2, TypedNew
  <2>4. CASE <<"in", k, l>> \notin S
    <3>1. incoming_'[k][l] = incoming_[k][l]
      BY <1>1, <2>1, <2>2, <2>4
    <3>2. incoming_[k][l].external_ # None => files'[incoming_[k][l].external_] = files[incoming_[k][l].external_]
      BY <1>2, <2>1, <2>2, <3>1
    <3> QED
      BY <2>0, <3>1, <3>2, TypedSame
  <2> QED
    BY <2>3, <2>4
<1> QED
  BY <1>3, <1>4, <1>5 DEF StoredTyped


\* What moves blocks and queues.
LEMMA MoveTyped ==
  ASSUME BaseInv, StoredTyped,
         \/ UnloadAll \/ (\E b \in Block : LoadOutgoing(b))
         \/ \E t \in Worker : Hold(t) \/ LoadQueues(t) \/ MakeRoom(t) \/ Load(t) \/ UnloadQueues(t)
  PROVE  StoredTyped' /\ UNCHANGED program
<1>1. Shape /\ StorageInv
  BY DEF BaseInv
<1>2. ASSUME NEW B \in SUBSET loaded, Unload(B) PROVE StoredTyped'
  <2>1. B \in SUBSET Block /\ \A b \in B : InMemory(b)
    BY DEF loaded
  <2>2. /\ UnloadSet(B) \subseteq AllPlaces /\ IsFiniteSet(UnloadSet(B))
        /\ \A b \in Block : <<"block", b>> \in UnloadSet(B) <=> b \in B
        /\ Unload(B) <=> Put(UnloadSet(B))
    BY <2>1, UnloadPlaces
  <2>3. PICK S \in SUBSET AllPlaces : S = UnloadSet(B)
    BY <2>2
  <2>4. IsFiniteSet(S) /\ Put(S) /\ \A b \in Block : <<"block", b>> \in S => InMemory(b)
    BY <1>2, <2>1, <2>2, <2>3
  <2> QED
    BY <1>1, <2>4, PutTyped
<1>3. CASE UnloadAll
  BY <1>2, <1>3 DEF UnloadAll
<1>4. CASE \E b \in Block : LoadOutgoing(b)
  <2>1. PICK b \in Block : LoadOutgoing(b)
    BY <1>4
  <2>2. OutgoingToLoad(b) \in SUBSET Outside
    BY <1>1, LoadPlaces DEF Shape
  <2> QED
    BY <1>1, <2>1, <2>2, GetTyped DEF LoadOutgoing
<1>5. ASSUME NEW t \in Worker, Hold(t) \/ MakeRoom(t) PROVE StoredTyped' /\ UNCHANGED program
  <2>1. local[t] \in SUBSET loaded /\ {} \in SUBSET loaded
    BY <1>5, AtThread DEF Hold, MakeRoom
  <2> QED
    BY <1>2, <1>5, <2>1 DEF Hold, MakeRoom
<1>6. ASSUME NEW t \in Worker, LoadQueues(t) \/ Load(t) PROVE StoredTyped' /\ UNCHANGED program
  <2>1. at[t] = "taken" /\ ~InMemory(cur[t])
    BY <1>6 DEF LoadQueues, Load
  <2>2. cur[t] \in Block /\ exchange_round_ \in 0..Rounds /\ phase = "execute"
    BY <2>1, AtThread
  <2>3. QueuesToLoad(cur[t]) \in SUBSET Outside
    BY <2>2, LoadPlaces
  <2>4. external_[cur[t]] # None
    BY <2>1, <2>2 DEF BaseInv, BlocksInv, Added
  <2>5. {<<"block", cur[t]>>} \cup QueuesToLoad(cur[t]) \in SUBSET Outside
    BY <2>2, <2>3, <2>4, BlockPlace, OutsidePlaces
  <2> QED
    BY <1>1, <1>6, <2>3, <2>5, GetTyped DEF LoadQueues, Load
<1>7. ASSUME NEW t \in Worker, UnloadQueues(t) PROVE StoredTyped' /\ UNCHANGED program
  <2>1. cur[t] \in Block /\ Put(LargeQueues(cur[t])) /\ UNCHANGED program
    BY <1>7, AtThread DEF UnloadQueues
  <2>2. PICK S \in SUBSET AllPlaces : S = LargeQueues(cur[t]) /\ IsFiniteSet(S) /\ \A b : <<"block", b>> \notin S
    BY <2>1, LargePlaces
  <2> QED
    BY <1>1, <2>1, <2>2, PutTyped
<1> QED
  BY <1>3, <1>4, <1>5, <1>6, <1>7

LEMMA SameElements ==
  ASSUME StoredTyped, UNCHANGED <<elements_, external_>>,
         \A b \in Block : external_[b] # None => files'[external_[b]] = files[external_[b]]
  PROVE  \A b \in Block : ElementTyped(b)'
BY DEF StoredTyped, ElementTyped, BlockContent, In

LEMMA RunTyped ==
  ASSUME BaseInv, StoredTyped, NEW t \in Worker, Run(t)
  PROVE  StoredTyped' /\ UNCHANGED program
<1>0. PICK b \in Block : b = cur[t]
  BY AtThread DEF Run
<1>1. PICK k \in 0..Rounds : k = exchange_round_
  BY DEF BaseInv, Shape
<1>2. /\ at[t] = "ready" /\ external_' = external_ /\ files' = files /\ UNCHANGED program
      /\ elements_' = IF AllSkip(b) THEN elements_
                      ELSE [elements_ EXCEPT ![b] =
                              [runs |-> @.runs + Len(commands_),
                               read |-> [l \in In(b) |-> elements_[b].read[l] + Len(Moved(incoming_[k][l]))]]]
      /\ \E to \in Sendings(b) :
           outgoing_' = [l \in FromHere |->
             IF l[1] # b \/ (outgoing_[l] = NoQueue /\ Mail(to, l[2]) = <<>>) THEN outgoing_[l]
             ELSE QueueRecord(Moved(outgoing_[l]) \o Mail(to, l[2]))]
      /\ incoming_' = [incoming_ EXCEPT ![k] = [l \in ToHere |-> IF l[2] = b THEN NoQueue ELSE @[l]]]
  BY <1>0, <1>1 DEF Run
<1>3. b \in local[t] \cup (idle \ loaded) /\ local[t] \subseteq loaded
  BY <1>0, <1>2, AtThread
<1>4. Shape
  BY DEF BaseInv
<1>5. ASSUME NEW c \in Block PROVE ElementTyped(c)'
  <2>0. ElementTyped(c)
    BY DEF StoredTyped
  <2>1. CASE c # b \/ AllSkip(b)
    <3>1. elements_'[c] = elements_[c]
      BY <1>2, <1>4, <2>1 DEF Shape
    <3> QED
      BY <1>2, <2>0, <3>1 DEF ElementTyped, BlockContent, In
  <2>2. CASE c = b /\ ~AllSkip(b)
    <3>1. elements_'[b] = [runs |-> elements_[b].runs + Len(commands_),
                           read |-> [l \in In(b) |-> elements_[b].read[l] + Len(Moved(incoming_[k][l]))]]
      BY <1>2, <1>4, <2>2 DEF Shape
    <3>2. elements_[b] \in BlockContent(b)
      BY <1>3, <2>0, <2>2 DEF idle, loaded, InMemory, ElementTyped
    <3>3. \A l \in In(b) : Len(Moved(incoming_[k][l])) \in Nat
      <4>1. \A l \in In(b) : l \in ToHere
        BY DEF In, ToHere
      <4>2. \A l \in ToHere : incoming_[k][l] \in QueueRecords
        BY DEF StoredTyped, TypedIn
      <4> QED
        BY <4>1, <4>2 DEF QueueRecords, Moved
    <3>4. Len(commands_) \in Nat
      BY <1>4 DEF Shape
    <3>5. elements_'[b] \in BlockContent(b)
      BY <3>1, <3>2, <3>3, <3>4 DEF BlockContent
    <3> QED
      BY <1>2, <2>0, <2>2, <3>5 DEF ElementTyped, BlockContent, In
  <2> QED
    BY <2>1, <2>2
<1>6. ASSUME NEW l \in FromHere PROVE TypedIn(outgoing_'[l], files')
  <2>0. TypedIn(outgoing_[l], files)
    BY DEF StoredTyped
  <2>1. PICK to \in Sendings(b) :
          outgoing_' = [m \in FromHere |->
            IF m[1] # b \/ (outgoing_[m] = NoQueue /\ Mail(to, m[2]) = <<>>) THEN outgoing_[m]
            ELSE QueueRecord(Moved(outgoing_[m]) \o Mail(to, m[2]))]
    BY <1>2
  <2>2. outgoing_'[l] = outgoing_[l] \/ outgoing_'[l] = QueueRecord(Moved(outgoing_[l]) \o Mail(to, l[2]))
    BY <2>1
  <2>3. Moved(outgoing_[l]) \in Seq(Item)
    BY <2>0 DEF TypedIn, QueueRecords, Moved
  <2>4. Mail(to, l[2]) \in Seq(Item)
    <3>1. DOMAIN to = DOMAIN commands_
      BY <2>1 DEF Sendings
    <3> QED
      BY <1>4, <3>1, MailTyped DEF Shape
  <2>5. Moved(outgoing_[l]) \o Mail(to, l[2]) \in Seq(Item)
    BY <2>3, <2>4
  <2> QED
    BY <1>2, <2>0, <2>2, <2>5, TypedNew
<1>7. ASSUME NEW j \in 0..Rounds, NEW l \in ToHere PROVE TypedIn(incoming_'[j][l], files')
  <2>0. TypedIn(incoming_[j][l], files)
    BY DEF StoredTyped
  <2>1. incoming_'[j][l] = incoming_[j][l] \/ incoming_'[j][l] = NoQueue
    BY <1>2, <1>4 DEF Shape
  <2> QED
    BY <1>2, <2>0, <2>1, TypedNew
<1> QED
  BY <1>2, <1>5, <1>6, <1>7 DEF StoredTyped

LEMMA SendTyped ==
  ASSUME BaseInv, TypesInv, NEW b \in Block, SendBlock(b)
  PROVE  TypesInv'
<1>1. PICK k \in 0..Rounds : k = exchange_round_
  BY DEF BaseInv, Shape
<1> DEFINE here == SentNow(b)
           out  == SentToFile(b)
<1>2. StoredTyped /\ ProgramTyped /\ StorageInv
  BY DEF TypesInv, BaseInv
<1>3. /\ \A l \in FromHere : outgoing_'[l] = IF l[1] = b THEN NoQueue ELSE outgoing_[l]
      /\ \A j \in 0..Rounds, l \in ToHere : j # k \/ l \notin here => incoming_'[j][l] = incoming_[j][l]
      /\ \A l \in here \ out : incoming_'[k][l] = outgoing_[l]
      /\ \A l \in out : files'[incoming_'[k][l].external_] = outgoing_[l].buffer_
      /\ \A n \in DOMAIN files : files'[n] = files[n]
      /\ IsFiniteSet(out)
  BY <1>1, SendEffect
<1>4. /\ \A b_ \in Block : external_[b_] # None => files'[external_[b_]] = files[external_[b_]]
      /\ \A l \in FromHere : TypedIn(outgoing_[l], files')
      /\ \A j \in 0..Rounds, l \in ToHere : TypedIn(incoming_[j][l], files')
  BY <1>2, <1>3, StayTyped
<1>5. here \subseteq FromHere /\ here \subseteq ToHere
  BY DEF SentNow, Out, Inside, FromHere, ToHere
<1>6. \A l \in out : \E n \in Nat : incoming_'[k][l] = Unloaded(outgoing_[l], n)
  <2>1. NewFiles(out) \in [out -> Nat \ {0}]
    BY <1>2, <1>3, NewFilesFresh DEF StorageInv
  <2>2. \A l \in ToHere : l \in out => incoming_'[k][l] = Unloaded(outgoing_[l], NewFiles(out)[l])
    <3> DEFINE f == NewFiles(out)
    <3>1. incoming_' = [incoming_ EXCEPT ![k] = [l \in ToHere |->
                          IF l \in out THEN Unloaded(outgoing_[l], f[l])
                          ELSE IF l \in here THEN outgoing_[l] ELSE @[l]]]
      BY <1>1 DEF SendBlock, SentNow, SentToFile
    <3> HIDE DEF f, out, here
    <3>2. \A l \in ToHere : l \in out => incoming_'[k][l] = Unloaded(outgoing_[l], f[l])
      BY <3>1 DEF BaseInv, Shape
    <3> QED
      BY <3>2 DEF f
  <2>3. out \subseteq ToHere
    BY <1>5 DEF SentToFile
  <2> QED
    BY <2>1, <2>2, <2>3
<1>7. UNCHANGED <<elements_, external_, phase, immediate_, exchange_round_>>
  BY DEF SendBlock
<1>8. ASSUME NEW j \in 0..Rounds, NEW l \in ToHere PROVE TypedIn(incoming_'[j][l], files')
  <2>1. CASE j # k \/ l \notin here
    BY <1>3, <1>4, <2>1
  <2>2. CASE j = k /\ l \in here \ out
    BY <1>3, <1>4, <1>5, <2>2
  <2>3. CASE j = k /\ l \in out
    <3>1. l \in FromHere
      BY <1>5, <2>3 DEF SentToFile
    <3>2. PICK n \in Nat : incoming_'[k][l] = Unloaded(outgoing_[l], n)
      BY <1>6, <2>3
    <3>3. outgoing_[l] \in QueueRecords
      BY <1>2, <3>1 DEF StoredTyped, TypedIn
    <3>4. incoming_'[k][l].external_ = n
      BY <3>2 DEF Unloaded
    <3>5. files'[n] = outgoing_[l].buffer_
      BY <1>3, <2>3, <3>4
    <3> QED
      BY <2>3, <3>2, <3>3, <3>5, TypedUnloaded
  <2> QED
    BY <2>1, <2>2, <2>3 DEF SentToFile
<1>9. ASSUME NEW l \in FromHere PROVE TypedIn(outgoing_'[l], files')
  BY <1>3, <1>4, TypedNew
<1>10. StoredTyped'
  BY <1>2, <1>4, <1>7, <1>8, <1>9, SameElements DEF StoredTyped
<1>11. received' \in [0..Rounds -> Nat]
  <2>1. received' = [received EXCEPT ![k] = @ + Cardinality(Out(b) \cap Inside)]
    BY <1>1 DEF SendBlock
  <2>2. Cardinality(Out(b) \cap Inside) \in Nat
    <3>1. Out(b) \cap Inside \subseteq Link
      BY DEF Out
    <3>2. IsFiniteSet(Out(b) \cap Inside)
      BY <3>1, LinksFinite, FS_Subset
    <3> QED
      BY <3>2, FS_CardinalityType
  <2> QED
    BY <1>2, <2>1, <2>2 DEF ProgramTyped
<1>12. wire' \in [FromHere \ Inside -> Seq(Item)]
  <2>1. wire' = [l \in FromHere \ Inside |-> IF l[1] = b THEN outgoing_[l].buffer_ ELSE wire[l]]
    BY DEF SendBlock
  <2>2. \A l \in FromHere : outgoing_[l].buffer_ \in Seq(Item)
    BY <1>2 DEF StoredTyped, TypedIn, QueueRecords
  <2>3. wire \in [FromHere \ Inside -> Seq(Item)]
    BY <1>2 DEF ProgramTyped
  <2> QED
    BY <2>1, <2>2, <2>3
<1> QED
  BY <1>2, <1>7, <1>10, <1>11, <1>12 DEF TypesInv, ProgramTyped

LEMMA ArriveTyped ==
  ASSUME BaseInv, TypesInv, NEW l \in ToHere, NEW k \in 0..Rounds, Arrive(l, k)
  PROVE  TypesInv'
<1>1. StoredTyped /\ ProgramTyped /\ StorageInv
  BY DEF TypesInv, BaseInv
<1>2. PICK items \in {<<>>, <<<<k - 1, 1>>>>} :
        LET qr == QueueRecord(items)
            f  == NewFiles({l})
        IN  /\ incoming_' = [incoming_ EXCEPT ![k][l] = IF ToFile(l, k, qr) THEN Unloaded(qr, f[l]) ELSE qr]
            /\ files' = IF ToFile(l, k, qr)
                        THEN [n \in DOMAIN files \cup {f[l]} |-> IF n = f[l] THEN items ELSE files[n]]
                        ELSE files
  BY DEF Arrive
<1>3. items \in Seq(Item)
  <2>1. k = exchange_round_ \/ k = exchange_round_ + 1
    BY DEF Arrive
  <2>2. k - 1 \in 0..Rounds
    <3>1. exchange_round_ \in 0..Rounds /\ exchange_round_ > 0
      BY <1>1 DEF Arrive, ProgramTyped, BaseInv, Shape
    <3> QED
      BY <2>1, <3>1, OutOfCoreAssumption
  <2>3. <<k - 1, 1>> \in Item
    BY <2>2, OutOfCoreAssumption DEF Item
  <2>4. CASE items = <<>>
    BY <2>4
  <2>5. CASE items = <<<<k - 1, 1>>>>
    BY <2>3, <2>5
  <2> QED
    BY <2>4, <2>5
<1>4. PICK n \in Nat \ {0} : n = NewFiles({l})[l] /\ n \notin DOMAIN files
  <2>1. PICK S : S = {l} /\ IsFiniteSet(S) /\ l \in S
    BY FS_Singleton
  <2>2. NewFiles(S) \in [S -> Nat \ {0}] /\ \A x \in S : NewFiles(S)[x] \notin DOMAIN files
    BY <1>1, <2>1, NewFilesFresh DEF StorageInv
  <2>3. NewFiles(S)[l] \in Nat \ {0} /\ NewFiles(S)[l] \notin DOMAIN files
    BY <2>1, <2>2
  <2> QED
    BY <2>1, <2>3
<1>5. PICK qr : qr = QueueRecord(items)
  OBVIOUS
<1>6. qr \in QueueRecords /\ qr.buffer_ = items /\ \A f : TypedIn(qr, f)
  BY <1>3, <1>5, TypedNew DEF QueueRecord
<1>7. /\ incoming_' = [incoming_ EXCEPT ![k][l] = IF ToFile(l, k, qr) THEN Unloaded(qr, n) ELSE qr]
      /\ files' = IF ToFile(l, k, qr)
                  THEN [m \in DOMAIN files \cup {n} |-> IF m = n THEN items ELSE files[m]]
                  ELSE files
  BY <1>2, <1>4, <1>5
<1>8. \A m \in DOMAIN files : files'[m] = files[m]
  BY <1>4, <1>7
<1>9. /\ \A b \in Block : external_[b] # None => files'[external_[b]] = files[external_[b]]
      /\ \A m \in FromHere : TypedIn(outgoing_[m], files')
      /\ \A j \in 0..Rounds, m \in ToHere : TypedIn(incoming_[j][m], files')
  BY <1>1, <1>8, StayTyped
<1>10. ASSUME NEW j \in 0..Rounds, NEW m \in ToHere PROVE TypedIn(incoming_'[j][m], files')
  <2>1. j # k \/ m # l => incoming_'[j][m] = incoming_[j][m]
    BY <1>7 DEF BaseInv, Shape
  <2>2. incoming_'[k][l] = IF ToFile(l, k, qr) THEN Unloaded(qr, n) ELSE qr
    BY <1>7 DEF BaseInv, Shape
  <2>3. CASE j # k \/ m # l
    BY <1>9, <2>1, <2>3
  <2>4. CASE j = k /\ m = l /\ ToFile(l, k, qr)
    <3>1. files'[n] = items
      BY <1>7, <2>4
    <3>2. TypedIn(Unloaded(qr, n), files')
      BY <1>4, <1>6, <3>1, TypedUnloaded
    <3> QED
      BY <2>2, <2>4, <3>2
  <2>5. CASE j = k /\ m = l /\ ~ToFile(l, k, qr)
    BY <1>6, <2>2, <2>5
  <2> QED
    BY <2>3, <2>4, <2>5
<1>11. /\ UNCHANGED <<elements_, external_, outgoing_, phase, immediate_, exchange_round_, wire>>
       /\ received' = [received EXCEPT ![k] = @ + 1]
  BY DEF Arrive
<1>12. StoredTyped'
  BY <1>1, <1>9, <1>10, <1>11, SameElements DEF StoredTyped
<1> QED
  BY <1>1, <1>11, <1>12 DEF TypesInv, ProgramTyped

\* The other steps of the program.
LEMMA ProgramSteps ==
  ASSUME BaseInv, TypesInv,
         \/ Foreach \/ (\E i \in BOOLEAN : SetImmediate(i)) \/ ExecutePending \/ Finish
         \/ BeginExchange \/ EndExchange \/ UNCHANGED vars
  PROVE  TypesInv'
<1>1. StoredTyped /\ ProgramTyped /\ Shape
  BY DEF TypesInv, BaseInv
<1>2. UNCHANGED <<elements_, external_, files>>
  BY DEF Foreach, SetImmediate, ExecutePending, Finish, BeginExchange, EndExchange, vars, stored
<1>3. \A l \in FromHere : \/ outgoing_'[l] = outgoing_[l]
                          \/ outgoing_'[l] = NoQueue
                          \/ outgoing_'[l] = QueueRecord(<<>>)
  BY DEF Foreach, SetImmediate, ExecutePending, Finish, BeginExchange, EndExchange, vars, stored
<1>4. \A k \in 0..Rounds, l \in ToHere : incoming_'[k][l] = incoming_[k][l] \/ incoming_'[k][l] = NoQueue
  <2>1. \/ incoming_' = incoming_
        \/ incoming_' = [incoming_ EXCEPT ![exchange_round_] = [l \in ToHere |-> NoQueue]]
    BY DEF Foreach, SetImmediate, ExecutePending, Finish, BeginExchange, EndExchange, vars, stored
  <2> QED
    BY <1>1, <2>1 DEF Shape
<1>5. <<>> \in Seq(Item)
  OBVIOUS
<1>6. ASSUME NEW l \in FromHere PROVE TypedIn(outgoing_'[l], files')
  <2>1. TypedIn(outgoing_[l], files)
    BY <1>1 DEF StoredTyped
  <2> QED
    BY <1>2, <1>3, <1>5, <2>1, TypedNew
<1>7. ASSUME NEW k \in 0..Rounds, NEW l \in ToHere PROVE TypedIn(incoming_'[k][l], files')
  <2>1. TypedIn(incoming_[k][l], files)
    BY <1>1 DEF StoredTyped
  <2> QED
    BY <1>2, <1>4, <2>1, TypedNew
<1>8. StoredTyped'
  BY <1>1, <1>2, <1>6, <1>7, SameElements DEF StoredTyped
<1>9. ProgramTyped'
  <2>1. immediate_' \in BOOLEAN
    BY <1>1 DEF ProgramTyped, Foreach, SetImmediate, ExecutePending, Finish, BeginExchange, EndExchange, vars, program
  <2>2. received' \in [0..Rounds -> Nat]
    <3>1. received' = received \/ received' = [received EXCEPT ![exchange_round_] = 0]
      BY DEF Foreach, SetImmediate, ExecutePending, Finish, BeginExchange, EndExchange, vars, program
    <3> QED
      BY <1>1, <3>1 DEF ProgramTyped
  <2>3. wire' \in [FromHere \ Inside -> Seq(Item)]
    <3>1. wire' = wire \/ wire' = [l \in FromHere \ Inside |-> <<>>]
      BY DEF Foreach, SetImmediate, ExecutePending, Finish, BeginExchange, EndExchange, vars, program
    <3> QED
      BY <1>1, <1>5, <3>1 DEF ProgramTyped
  <2>4. phase' = "flush" => exchange_round_' > 0
    <3>1. \/ phase' # "flush"
          \/ phase' = phase /\ exchange_round_' = exchange_round_
          \/ exchange_round_' = exchange_round_ + 1
      BY DEF Foreach, SetImmediate, ExecutePending, Finish, BeginExchange, EndExchange, vars, program
    <3> QED
      BY <1>1, <3>1 DEF ProgramTyped, Shape
  <2> QED
    BY <2>1, <2>2, <2>3, <2>4 DEF ProgramTyped
<1> QED
  BY <1>8, <1>9 DEF TypesInv

LEMMA AddTyped ==
  ASSUME BaseInv, TypesInv, NEW b \in Block, Add(b)
  PROVE  TypesInv'
<1>1. StoredTyped /\ ProgramTyped /\ Shape
  BY DEF TypesInv, BaseInv
<1>2. /\ elements_' = [elements_ EXCEPT ![b] = NewBlock(b)] /\ phase' \in {"foreach", phase}
      /\ UNCHANGED <<external_, outgoing_, incoming_, files, immediate_, exchange_round_, received, wire>>
  BY DEF Add
<1>3. NewBlock(b) \in BlockContent(b)
  BY DEF NewBlock, BlockContent
<1>4. ASSUME NEW c \in Block PROVE ElementTyped(c)'
  <2>1. ElementTyped(c)
    BY <1>1 DEF StoredTyped
  <2>2. elements_'[c] = IF c = b THEN NewBlock(b) ELSE elements_[c]
    BY <1>1, <1>2 DEF Shape
  <2> QED
    BY <1>2, <1>3, <2>1, <2>2 DEF ElementTyped, BlockContent, In
<1>5. StoredTyped'
  BY <1>1, <1>2, <1>4 DEF StoredTyped
<1> QED
  BY <1>1, <1>2, <1>5 DEF TypesInv, ProgramTyped

LEMMA TypesStep ==
  ASSUME BaseInv, TypesInv, [Next]_vars
  PROVE  TypesInv'
<1>1. ASSUME StoredTyped', UNCHANGED program PROVE TypesInv'
  BY <1>1 DEF TypesInv, ProgramTyped, program
<1>2. StoredTyped
  BY DEF TypesInv
<1>3. CASE \/ UnloadAll \/ (\E b \in Block : LoadOutgoing(b))
           \/ \E t \in Worker : Hold(t) \/ LoadQueues(t) \/ MakeRoom(t) \/ Load(t) \/ UnloadQueues(t)
  BY <1>1, <1>2, <1>3, MoveTyped
<1>4. CASE \E t \in Worker : Run(t)
  BY <1>1, <1>2, <1>4, RunTyped
<1>5. CASE \E t \in Worker : Take(t)
  <2>1. UNCHANGED <<elements_, external_, outgoing_, incoming_, files>> /\ UNCHANGED program
    BY <1>5 DEF Take, stored
  <2>2. \A b \in Block : ElementTyped(b)'
    BY <1>2, <2>1, SameElements
  <2>3. StoredTyped'
    BY <1>2, <2>1, <2>2 DEF StoredTyped
  <2> QED
    BY <1>1, <2>1, <2>3
<1>6. CASE \E b \in Block : Add(b) \/ SendBlock(b)
  BY <1>6, AddTyped, SendTyped
<1>7. CASE \E l \in ToHere, k \in 0..Rounds : Arrive(l, k)
  BY <1>7, ArriveTyped
<1>8. CASE \/ Foreach \/ (\E i \in BOOLEAN : SetImmediate(i)) \/ ExecutePending \/ Finish
           \/ BeginExchange \/ EndExchange \/ Finished \/ UNCHANGED vars
  BY <1>8, ProgramSteps DEF Finished
<1> QED
  BY <1>3, <1>4, <1>5, <1>6, <1>7, <1>8 DEF Next, Thread

LEMMA TypesInit == Init => TypesInv
<1> SUFFICES ASSUME Init PROVE TypesInv
  OBVIOUS
<1>1. \A b \in Block : ElementTyped(b)
  BY DEF Init, ElementTyped
<1>2. \A l \in FromHere : TypedIn(outgoing_[l], files)
  BY TypedNew DEF Init
<1>3. \A k \in 0..Rounds, l \in ToHere : TypedIn(incoming_[k][l], files)
  BY TypedNew DEF Init
<1>4. ProgramTyped
  <2>1. <<>> \in Seq(Item)
    OBVIOUS
  <2> QED
    BY <2>1 DEF Init, ProgramTyped
<1> QED
  BY <1>1, <1>2, <1>3, <1>4 DEF TypesInv, StoredTyped

LEMMA TypesHold == BaseInv /\ TypesInv => OutOfCoreTypeOK
<1> SUFFICES ASSUME BaseInv, TypesInv PROVE OutOfCoreTypeOK
  OBVIOUS
<1>1. Shape /\ StorageInv /\ BlocksInv /\ QueuesInv /\ StoredTyped /\ ProgramTyped
  BY DEF BaseInv, TypesInv
<1>2. \A qr : TypedIn(qr, files) => TypedQueue(qr)
  <2> SUFFICES ASSUME NEW qr, TypedIn(qr, files) PROVE TypedQueue(qr)
    OBVIOUS
  <2>1. qr \in QueueRecords /\ (qr.external_ # None => files[qr.external_] \in Seq(Item))
    BY DEF TypedIn
  <2>2. qr.buffer_ \in Seq(Item)
    BY <2>1 DEF QueueRecords
  <2>3. Held(qr) \in Seq(Item)
    BY <2>1, <2>2 DEF Held, external
  <2> QED
    BY <2>1, <2>3 DEF TypedQueue, QueueRecords
<1>3. ASSUME NEW b \in Block PROVE TypedBlock(b)
  <2>1. ElementTyped(b)
    BY <1>1 DEF StoredTyped
  <2>2. external_[b] # None => external_[b] \in DOMAIN files
    BY <1>1, BlockPlace, OutsidePlaces DEF StorageInv
  <2>3. external_[b] # None => ~InMemory(b)
    BY <1>1 DEF BlocksInv
  <2> QED
    BY <2>1, <2>2, <2>3 DEF TypedBlock, ElementTyped
<1>4. \A l \in FromHere : TypedQueue(outgoing_[l])
  BY <1>1, <1>2 DEF StoredTyped
<1>5. \A k \in 0..Rounds, l \in ToHere : TypedQueue(incoming_[k][l])
  BY <1>1, <1>2 DEF StoredTyped
<1> QED
  BY <1>1, <1>3, <1>4, <1>5 DEF OutOfCoreTypeOK, Shape, QueuesInv, ProgramTyped

\* OutOfCoreTypeOK, of every number of blocks, threads, rounds and calls: the
\* types of the Master's state, of what is in its files, and that a block is in
\* memory or in a file (QueueRecord, Collection, Proxy::enqueue).
THEOREM OutOfCoreTypeCorrect == Spec => []OutOfCoreTypeOK
<1>1. Init => TypesInv
  BY TypesInit
<1>2. BaseInv /\ TypesInv /\ [Next]_vars => TypesInv'
  BY TypesStep
<1>3. BaseInv /\ TypesInv => OutOfCoreTypeOK
  BY TypesHold
<1> QED
  BY <1>1, <1>2, <1>3, AlwaysBase, PTL DEF Spec

\* OutOfCoreInv, of every number of blocks, threads, rounds and calls: where
\* blocks and queues are, what the threads have and what the files hold, whichever
\* of the threads comes first (execute, ProcessBlock, load, unload, exchange).
THEOREM OutOfCoreInductive ==
  ASSUME FewLarge
  PROVE  Spec => []OutOfCoreInv
<1>1. BaseInv /\ FilesInv /\ OutOfCoreTypeOK => OutOfCoreInv
  BY DEF BaseInv, OutOfCoreInv
<1> QED
  BY <1>1, AlwaysBase, AlwaysFiles, OutOfCoreTypeCorrect, PTL

-----------------------------------------------------------------------------
(***************************************************************************)
(* OutOfCore implements InCore: what a block or a queue holds is what is   *)
(* kept at its place, in memory or in a file, and so the same before and   *)
(* after it is moved.                                                      *)
(***************************************************************************)
MappingAt(k) ==
  /\ Content = [b \in Block |-> IF Kept(<<"block", b>>) = Absent THEN NewBlock(b) ELSE Kept(<<"block", b>>)]
  /\ ToRead = [l \in Link |-> ToRead[l]]
  /\ \A l \in FromHere : ToRead[l] = IF ToBeSent(l) THEN Kept(<<"out", l>>)
                                     ELSE IF l \in Inside THEN Kept(<<"in", k, l>>) ELSE wire[l]
  /\ \A l \in ToHere \ Inside : ToRead[l] = Kept(<<"in", k, l>>)
  /\ ToExchange = [l \in Link |-> ToExchange[l]]
  /\ \A l \in FromHere : ToExchange[l] = IF phase = "flush" THEN <<>> ELSE Kept(<<"out", l>>)
  /\ \A l \in ToHere \ Inside : ToExchange[l] = IF k = Rounds THEN <<>> ELSE Kept(<<"in", k + 1, l>>)

Mapping == \A k \in 0..Rounds : k = exchange_round_ => MappingAt(k)

LEMMA LinkEnds ==
  /\ Link = FromHere \cup (ToHere \ Inside) /\ Inside \subseteq FromHere \cap ToHere
  /\ \A l \in FromHere : l[1] \in Block /\ l[1] \notin Away /\ (l \in Inside <=> l[2] \notin Away)
  /\ \A l \in ToHere \ Inside : l[1] \in Away /\ l[1] \notin Block /\ l[2] \in Block
  /\ \A l \in ToHere : l[2] \in Block /\ l[2] \notin Away
BY OutOfCoreAssumption DEF FromHere, ToHere, Inside

LEMMA Mapped == BaseInv => Mapping
<1> SUFFICES ASSUME BaseInv, NEW k \in 0..Rounds, k = exchange_round_
             PROVE  /\ Content = [b \in Block |-> IF Kept(<<"block", b>>) = Absent THEN NewBlock(b)
                                                  ELSE Kept(<<"block", b>>)]
                    /\ ToRead = [l \in Link |-> ToRead[l]]
                    /\ \A l \in FromHere : ToRead[l] = IF ToBeSent(l) THEN Kept(<<"out", l>>)
                                                       ELSE IF l \in Inside THEN Kept(<<"in", k, l>>) ELSE wire[l]
                    /\ \A l \in ToHere \ Inside : ToRead[l] = Kept(<<"in", k, l>>)
                    /\ ToExchange = [l \in Link |-> ToExchange[l]]
                    /\ \A l \in FromHere : ToExchange[l] = IF phase = "flush" THEN <<>> ELSE Kept(<<"out", l>>)
                    /\ \A l \in ToHere \ Inside : ToExchange[l] = IF k = Rounds THEN <<>> ELSE Kept(<<"in", k + 1, l>>)
  BY DEF Mapping, MappingAt
<1>1. \A b \in Block : Kept(<<"block", b>>) = IF external_[b] # None THEN files[external_[b]] ELSE elements_[b]
  BY BlockPlace DEF Kept
<1>2. \A l \in FromHere : Kept(<<"out", l>>) = Held(outgoing_[l])
  BY OutPlace DEF Kept, Held, external
<1>3. \A j \in 0..Rounds, l \in ToHere : Kept(<<"in", j, l>>) = Held(incoming_[j][l])
  BY InPlace DEF Kept, Held, external
<1>4. Content = [b \in Block |-> IF Kept(<<"block", b>>) = Absent THEN NewBlock(b) ELSE Kept(<<"block", b>>)]
  <2>1. ASSUME NEW b \in Block
        PROVE  (IF InMemory(b) THEN elements_[b] ELSE IF Added(b) THEN files[external_[b]] ELSE NewBlock(b))
                 = IF Kept(<<"block", b>>) = Absent THEN NewBlock(b) ELSE Kept(<<"block", b>>)
    <3>1. external_[b] # None => ~InMemory(b) /\ files[external_[b]].runs \in Nat
      BY DEF BaseInv, BlocksInv
    <3>2. Absent.runs \notin Nat
      BY DEF Absent
    <3>3. external_[b] # None => files[external_[b]] # Absent
      BY <3>1, <3>2
    <3> QED
      BY <1>1, <3>1, <3>3 DEF InMemory, Added
  <2> QED
    BY <2>1 DEF Content
<1>5. \A l \in FromHere : l \in Link /\ ToRead[l] = IF ToBeSent(l) THEN Held(outgoing_[l])
                                                    ELSE IF l \in Inside THEN Held(incoming_[k][l]) ELSE wire[l]
  BY LinkEnds DEF ToRead
<1>6. \A l \in FromHere : ToRead[l] = IF ToBeSent(l) THEN Kept(<<"out", l>>)
                                      ELSE IF l \in Inside THEN Kept(<<"in", k, l>>) ELSE wire[l]
  BY <1>2, <1>3, <1>5, LinkEnds
<1>7. ASSUME NEW l \in ToHere \ Inside PROVE ToRead[l] = Kept(<<"in", k, l>>)
  <2>1. l \in Link /\ l[2] \notin Away
    BY LinkEnds
  <2>2. ~ToBeSent(l)
    BY LinkEnds DEF ToBeSent, BaseInv, QueuesInv
  <2> QED
    BY <1>3, <2>1, <2>2 DEF ToRead
<1>8. \A l \in FromHere : ToExchange[l] = IF phase = "flush" THEN <<>> ELSE Kept(<<"out", l>>)
  BY <1>2, LinkEnds DEF ToExchange
<1>9. ASSUME NEW l \in ToHere \ Inside
      PROVE  ToExchange[l] = IF k = Rounds THEN <<>> ELSE Kept(<<"in", k + 1, l>>)
  <2>1. l \in Link /\ l[1] \in Away
    BY LinkEnds
  <2>2. k # Rounds => k + 1 \in 0..Rounds
    BY OutOfCoreAssumption
  <2> QED
    BY <1>3, <2>1, <2>2 DEF ToExchange
<1>10. ToRead = [l \in Link |-> ToRead[l]] /\ ToExchange = [l \in Link |-> ToExchange[l]]
  BY DEF ToRead, ToExchange
<1> QED
  BY <1>4, <1>6, <1>7, <1>8, <1>9, <1>10

LEMMA MappedNext == BaseInv' => Mapping'
BY Mapped, PTL

LEMMA SameContent ==
  ASSUME BaseInv, BaseInv', \A x \in AllPlaces : x[1] = "block" => Kept(x)' = Kept(x)
  PROVE  Content' = Content
<1>1. PICK k \in 0..Rounds : k = exchange_round_
  BY DEF BaseInv, Shape
<1>2. PICK j \in 0..Rounds : j = exchange_round_'
  BY DEF BaseInv, Shape
<1>3. MappingAt(k) /\ MappingAt(j)'
  BY <1>1, <1>2, Mapped, MappedNext DEF Mapping
<1>4. \A b \in Block : Kept(<<"block", b>>)' = Kept(<<"block", b>>)
  BY BlockPlace
<1> QED
  BY <1>3, <1>4 DEF MappingAt, NewBlock

LEMMA SameQueues ==
  ASSUME BaseInv, BaseInv', \A x \in AllPlaces : x[1] # "block" => Kept(x)' = Kept(x),
         UNCHANGED <<exchange_round_, wire, gid_order>>, phase' = "flush" <=> phase = "flush"
  PROVE  ToRead' = ToRead /\ ToExchange' = ToExchange
<1>1. PICK k \in 0..Rounds : k = exchange_round_
  BY DEF BaseInv, Shape
<1>2. MappingAt(k) /\ MappingAt(k)'
  BY <1>1, Mapped, MappedNext DEF Mapping
<1>3. /\ \A l \in FromHere : Kept(<<"out", l>>)' = Kept(<<"out", l>>)
      /\ \A j \in 0..Rounds, l \in ToHere : Kept(<<"in", j, l>>)' = Kept(<<"in", j, l>>)
  BY OutPlace, InPlace
<1>4. \A l : ToBeSent(l)' <=> ToBeSent(l)
  BY DEF ToBeSent
<1>5. \A l \in FromHere : ToRead'[l] = ToRead[l] /\ ToExchange'[l] = ToExchange[l]
  <2> SUFFICES ASSUME NEW l \in FromHere PROVE ToRead'[l] = ToRead[l] /\ ToExchange'[l] = ToExchange[l]
    OBVIOUS
  <2>1. /\ ToRead[l] = IF ToBeSent(l) THEN Kept(<<"out", l>>) ELSE IF l \in Inside THEN Kept(<<"in", k, l>>) ELSE wire[l]
        /\ ToExchange[l] = IF phase = "flush" THEN <<>> ELSE Kept(<<"out", l>>)
    BY <1>2 DEF MappingAt
  <2>2. /\ ToRead'[l] = IF ToBeSent(l)' THEN Kept(<<"out", l>>)'
                        ELSE IF l \in Inside THEN Kept(<<"in", k, l>>)' ELSE wire'[l]
        /\ ToExchange'[l] = IF phase' = "flush" THEN <<>> ELSE Kept(<<"out", l>>)'
    BY <1>2 DEF MappingAt
  <2>3. /\ Kept(<<"out", l>>)' = Kept(<<"out", l>>)
        /\ l \in Inside => Kept(<<"in", k, l>>)' = Kept(<<"in", k, l>>)
    BY <1>1, <1>3, LinkEnds
  <2> QED
    BY <1>4, <2>1, <2>2, <2>3
<1>6. \A l \in ToHere \ Inside : ToRead'[l] = ToRead[l] /\ ToExchange'[l] = ToExchange[l]
  <2> SUFFICES ASSUME NEW l \in ToHere \ Inside PROVE ToRead'[l] = ToRead[l] /\ ToExchange'[l] = ToExchange[l]
    OBVIOUS
  <2>1. /\ ToRead[l] = Kept(<<"in", k, l>>)
        /\ ToExchange[l] = IF k = Rounds THEN <<>> ELSE Kept(<<"in", k + 1, l>>)
    BY <1>2 DEF MappingAt
  <2>2. /\ ToRead'[l] = Kept(<<"in", k, l>>)'
        /\ ToExchange'[l] = IF k = Rounds THEN <<>> ELSE Kept(<<"in", k + 1, l>>)'
    BY <1>2 DEF MappingAt
  <2>3. k # Rounds => k + 1 \in 0..Rounds
    BY OutOfCoreAssumption
  <2>4. /\ Kept(<<"in", k, l>>)' = Kept(<<"in", k, l>>)
        /\ k # Rounds => Kept(<<"in", k + 1, l>>)' = Kept(<<"in", k + 1, l>>)
    BY <1>1, <1>3, <2>3
  <2> QED
    BY <2>1, <2>2, <2>4
<1>7. \A l \in Link : ToRead'[l] = ToRead[l] /\ ToExchange'[l] = ToExchange[l]
  BY <1>5, <1>6, LinkEnds
<1>8. /\ ToRead = [l \in Link |-> ToRead[l]] /\ ToRead' = [l \in Link |-> ToRead'[l]]
      /\ ToExchange = [l \in Link |-> ToExchange[l]] /\ ToExchange' = [l \in Link |-> ToExchange'[l]]
  BY <1>2 DEF MappingAt
<1> QED
  BY <1>7, <1>8

LEMMA SameStored ==
  ASSUME UNCHANGED stored
  PROVE  \A x : Kept(x)' = Kept(x)
BY DEF stored, Kept, FileOf, Mem, RecordAt

\* Moving blocks and queues is no step of InCore, nor is beginning or ending to
\* execute.
LEMMA CoreStays ==
  ASSUME BaseInv, BaseInv', \A x \in AllPlaces : Kept(x)' = Kept(x),
         UNCHANGED <<called, exchange_round_, wire, gid_order>>, phase' = "flush" <=> phase = "flush",
         CallsLeft' = CallsLeft
  PROVE  UNCHANGED Core!vars
<1>1. Content' = Content
  BY SameContent
<1>2. ToRead' = ToRead /\ ToExchange' = ToExchange
  BY SameQueues
<1>3. UNCHANGED <<exchange_round_, called, phase = "flush">>
  OBVIOUS
<1> QED
  BY <1>1, <1>2, <1>3 DEF Core!vars

\* What a block has still to run, by the threads and the list.
LEMMA SameCalls ==
  ASSUME commands_' = commands_, \A b \in Block : ToRun(b)' <=> ToRun(b)
  PROVE  CallsLeft' = CallsLeft
BY DEF CallsLeft

LEMMA CoreMoves ==
  ASSUME BaseInv, BaseInv', FilesInv, FewLarge,
         NEW t \in Worker, Hold(t) \/ LoadQueues(t) \/ MakeRoom(t) \/ Load(t) \/ UnloadQueues(t)
  PROVE  UNCHANGED Core!vars
<1>1. /\ UNCHANGED program /\ blocks' = blocks
      /\ \/ /\ at[t] = "taken" /\ cur' = cur
            /\ at' = at \/ at' = [at EXCEPT ![t] = "ready"]
         \/ /\ at[t] = "skipped"
            /\ at' = [at EXCEPT ![t] = "next"] /\ cur' = [cur EXCEPT ![t] = NoBlock]
  BY DEF Hold, LoadQueues, MakeRoom, Load, UnloadQueues
<1>2. UNCHANGED <<phase, called, commands_, exchange_round_, wire, gid_order>>
  BY <1>1 DEF program
<1>3. Shape
  BY DEF BaseInv
<1>4. /\ \A u \in Worker : u # t => cur'[u] = cur[u] /\ at'[u] = at[u]
      /\ \/ at[t] = "taken" /\ cur'[t] = cur[t] /\ at'[t] \in {"taken", "ready"}
         \/ at[t] = "skipped" /\ at'[t] = "next"
  BY <1>1, <1>3 DEF Shape
<1>5. \A b \in Block : ToRun(b)' <=> ToRun(b)
  BY <1>1, <1>2, <1>4 DEF ToRun
<1>6. CallsLeft' = CallsLeft
  BY <1>2, <1>5, SameCalls
<1>7. \A x \in AllPlaces : Kept(x)' = Kept(x)
  BY MoveFiles
<1> QED
  BY <1>2, <1>6, <1>7, CoreStays

LEMMA CoreTake ==
  ASSUME BaseInv, BaseInv', NEW t \in Worker, Take(t)
  PROVE  UNCHANGED Core!vars
<1>1. /\ at[t] = "next" /\ blocks # <<>> /\ blocks' = Tail(blocks)
      /\ cur' = [cur EXCEPT ![t] = Head(blocks)] /\ at' = [at EXCEPT ![t] = "taken"]
      /\ UNCHANGED stored /\ UNCHANGED program
  BY DEF Take
<1>2. UNCHANGED <<phase, called, commands_, exchange_round_, wire, gid_order>>
  BY <1>1 DEF program
<1>3. Shape
  BY DEF BaseInv
<1>4. /\ \A u \in Worker : u # t => cur'[u] = cur[u] /\ at'[u] = at[u]
      /\ cur'[t] = Head(blocks) /\ at'[t] = "taken"
  BY <1>1, <1>3 DEF Shape
<1>5. \A b : b \in ToSet(blocks) <=> b = Head(blocks) \/ b \in ToSet(Tail(blocks))
  <2>1. blocks \in Seq(Block) /\ blocks # <<>>
    BY <1>1, <1>3 DEF Shape
  <2>2. /\ DOMAIN blocks = 1..Len(blocks) /\ DOMAIN Tail(blocks) = 1..(Len(blocks) - 1)
        /\ Len(blocks) \in Nat \ {0} /\ Head(blocks) = blocks[1]
        /\ \A i \in 1..(Len(blocks) - 1) : Tail(blocks)[i] = blocks[i + 1]
    BY <2>1
  <2>3. \A i \in 1..Len(blocks) : i = 1 \/ i - 1 \in 1..(Len(blocks) - 1)
    BY <2>2
  <2>4. \A i \in 1..(Len(blocks) - 1) : i + 1 \in 1..Len(blocks) /\ (i + 1) - 1 = i
    BY <2>2
  <2>5. \A i \in 1..Len(blocks) : i # 1 => Tail(blocks)[i - 1] = blocks[i]
    BY <2>2, <2>3
  <2> QED
    BY <2>2, <2>3, <2>4, <2>5 DEF ToSet
<1>6. \A b \in Block : ToRun(b)' <=> ToRun(b)
  BY <1>1, <1>2, <1>4, <1>5 DEF ToRun
<1>7. CallsLeft' = CallsLeft
  BY <1>2, <1>6, SameCalls
<1> QED
  BY <1>1, <1>2, <1>7, SameStored, CoreStays

\* Outside of execute() and flush() every block has to run what is pending.
LEMMA CoreProgram ==
  ASSUME BaseInv, BaseInv', FilesInv, UnloadAll \/ (\E b \in Block : LoadOutgoing(b)) \/ UNCHANGED vars
  PROVE  UNCHANGED Core!vars
<1>1. UNCHANGED threads /\ UNCHANGED program /\ \A x \in AllPlaces : Kept(x)' = Kept(x)
  BY UnloadAllFiles, LoadOutgoingFiles, SameStored DEF UnloadAll, LoadOutgoing, vars
<1>2. UNCHANGED <<phase, called, commands_, exchange_round_, wire, gid_order>>
  BY <1>1 DEF program
<1>3. \A b \in Block : ToRun(b)' <=> ToRun(b)
  BY <1>1, <1>2 DEF ToRun, threads
<1>4. CallsLeft' = CallsLeft
  BY <1>2, <1>3, SameCalls
<1> QED
  BY <1>1, <1>2, <1>4, CoreStays

LEMMA SamePlaces ==
  ASSUME UNCHANGED <<elements_, external_, files>>,
         \A l \in FromHere : outgoing_'[l] = outgoing_[l],
         \A k \in 0..Rounds, l \in ToHere : incoming_'[k][l] = incoming_[k][l]
  PROVE  \A x \in AllPlaces : Kept(x)' = Kept(x)
<1> SUFFICES ASSUME NEW x \in AllPlaces PROVE Kept(x)' = Kept(x)
  OBVIOUS
<1>1. CASE \E b \in Block : x = <<"block", b>>
  BY <1>1 DEF Kept, FileOf, Mem
<1>2. CASE \E l \in FromHere : x = <<"out", l>>
  BY <1>2 DEF Kept, FileOf, Mem, RecordAt
<1>3. CASE \E k \in 0..Rounds, l \in ToHere : x = <<"in", k, l>>
  BY <1>3 DEF Kept, FileOf, Mem, RecordAt
<1> QED
  BY <1>1, <1>2, <1>3, PlaceForms

LEMMA CallsOfAll ==
  /\ commands_ = <<>> => CallsLeft = [b \in Block |-> <<>>]
  /\ phase = "foreach" => CallsLeft = [b \in Block |-> commands_]
  /\ blocks \in Ordered => CallsLeft = [b \in Block |-> commands_]
<1>1. ASSUME commands_ = <<>> PROVE CallsLeft = [b \in Block |-> <<>>]
  BY <1>1 DEF CallsLeft
<1>2. ASSUME phase = "foreach" PROVE CallsLeft = [b \in Block |-> commands_]
  BY <1>2 DEF CallsLeft, ToRun
<1>3. ASSUME blocks \in Ordered PROVE CallsLeft = [b \in Block |-> commands_]
  <2>1. ToSet(blocks) = Block
    BY <1>3, OrderedLists
  <2>2. \A b \in Block : ToRun(b)
    BY <2>1 DEF ToRun
  <2> QED
    BY <2>2 DEF CallsLeft
<1> QED
  BY <1>1, <1>2, <1>3

LEMMA CoreForeach ==
  ASSUME BaseInv, BaseInv', Foreach
  PROVE  Core!Foreach
<1>1. /\ phase = "foreach" /\ called < Foreachs /\ called' = called + 1 /\ commands_' = Append(commands_, called')
      /\ phase' = "foreach" \/ (phase' = "execute" /\ blocks' \in Ordered)
      /\ UNCHANGED stored /\ UNCHANGED <<exchange_round_, wire, gid_order>>
  BY DEF Foreach
<1>2. CallsLeft = [b \in Block |-> commands_]
  BY <1>1, CallsOfAll
<1>3. CallsLeft' = [b \in Block |-> commands_']
  <2>1. CASE phase' = "foreach"
    BY <2>1 DEF CallsLeft, ToRun
  <2>2. CASE blocks' \in Ordered
    <3>1. ToSet(blocks') = Block
      BY <2>2, OrderedLists
    <3>2. \A b \in Block : ToRun(b)'
      BY <3>1 DEF ToRun
    <3> QED
      BY <3>2 DEF CallsLeft
  <2> QED
    BY <1>1, <2>1, <2>2
<1>4. CallsLeft' = [b \in Block |-> Append(CallsLeft[b], called')]
  BY <1>1, <1>2, <1>3
<1>5. Content' = Content /\ ToRead' = ToRead /\ ToExchange' = ToExchange
  <2>1. \A x : Kept(x)' = Kept(x)
    BY <1>1, SameStored
  <2>2. phase' = "flush" <=> phase = "flush"
    BY <1>1
  <2> QED
    BY <1>1, <2>1, <2>2, SameContent, SameQueues
<1> QED
  BY <1>1, <1>4, <1>5 DEF Core!Foreach

LEMMA CoreExecute ==
  ASSUME BaseInv, BaseInv', (\E i \in BOOLEAN : SetImmediate(i)) \/ ExecutePending
  PROVE  UNCHANGED Core!vars
<1>1. /\ phase = "foreach" /\ commands_' = commands_
      /\ phase' = "foreach" \/ (phase' = "execute" /\ blocks' \in Ordered)
      /\ UNCHANGED stored /\ UNCHANGED <<called, exchange_round_, wire, gid_order>>
  BY DEF SetImmediate, ExecutePending
<1>2. \A b \in Block : ToRun(b) /\ ToRun(b)'
  <2>1. CASE phase' = "foreach"
    BY <1>1, <2>1 DEF ToRun
  <2>2. CASE blocks' \in Ordered
    <3>1. ToSet(blocks') = Block
      BY <2>2, OrderedLists
    <3> QED
      BY <1>1, <3>1 DEF ToRun
  <2> QED
    BY <1>1, <2>1, <2>2
<1>3. CallsLeft' = CallsLeft
  BY <1>1, <1>2, SameCalls
<1>4. phase' = "flush" <=> phase = "flush"
  BY <1>1
<1> QED
  BY <1>1, <1>3, <1>4, SameStored, CoreStays

LEMMA CoreAdd ==
  ASSUME BaseInv, BaseInv', NEW b \in Block, Add(b)
  PROVE  UNCHANGED Core!vars
<1>1. /\ phase = "add" /\ phase' \in {"add", "foreach"} /\ ~Added(b) /\ elements_' = [elements_ EXCEPT ![b] = NewBlock(b)]
      /\ UNCHANGED <<external_, outgoing_, incoming_, files>>
      /\ UNCHANGED <<called, commands_, exchange_round_, wire, gid_order>>
  BY DEF Add
<1>2. PICK k \in 0..Rounds : k = exchange_round_
  BY DEF BaseInv, Shape
<1>3. MappingAt(k) /\ MappingAt(k)'
  BY <1>1, <1>2, Mapped, MappedNext DEF Mapping
<1>4. Content' = Content
  <2>1. \A c \in Block : Kept(<<"block", c>>) = IF external_[c] # None THEN files[external_[c]] ELSE elements_[c]
    BY BlockPlace DEF Kept
  <2>2. \A c \in Block : Kept(<<"block", c>>)' = IF external_'[c] # None THEN files'[external_'[c]] ELSE elements_'[c]
    BY DEF Kept, FileOf, Mem
  <2>3. /\ \A c \in Block : c # b => elements_'[c] = elements_[c]
        /\ elements_'[b] = NewBlock(b) /\ elements_[b] = Absent /\ external_[b] = None
    BY <1>1 DEF Added, InMemory, BaseInv, Shape
  <2>4. /\ \A c \in Block \ {b} : Kept(<<"block", c>>)' = Kept(<<"block", c>>)
        /\ Kept(<<"block", b>>) = Absent /\ Kept(<<"block", b>>)' = NewBlock(b)
    BY <1>1, <2>1, <2>2, <2>3
  <2>5. \A c \in Block : Content'[c] = Content[c]
    <3>1. \A c \in Block : /\ Content[c] = IF Kept(<<"block", c>>) = Absent THEN NewBlock(c) ELSE Kept(<<"block", c>>)
                           /\ Content'[c] = IF Kept(<<"block", c>>)' = Absent THEN NewBlock(c) ELSE Kept(<<"block", c>>)'
      BY <1>3 DEF MappingAt, NewBlock
    <3> QED
      BY <2>4, <3>1
  <2> QED
    BY <2>5 DEF Content
<1>5. ToRead' = ToRead /\ ToExchange' = ToExchange
  <2>1. \A x \in AllPlaces : x[1] # "block" => Kept(x)' = Kept(x)
    BY <1>1 DEF Kept, FileOf, Mem, RecordAt
  <2> QED
    BY <1>1, <2>1, SameQueues
<1>6. CallsLeft' = CallsLeft
  <2>1. commands_ = <<>> /\ commands_' = <<>>
    BY <1>1 DEF BaseInv, QueuesInv
  <2> QED
    BY <2>1 DEF CallsLeft
<1> QED
  BY <1>1, <1>4, <1>5, <1>6 DEF Core!vars

LEMMA CoreFinish ==
  ASSUME BaseInv, BaseInv', Finish
  PROVE  UNCHANGED Core!vars
<1>1. /\ phase = "execute" /\ phase' \in {"thrown", "foreach"} /\ blocks = <<>> /\ commands_' = <<>>
      /\ \A t \in Worker : at[t] = "next"
      /\ UNCHANGED <<elements_, external_, outgoing_, files>> /\ UNCHANGED <<called, exchange_round_, wire, gid_order>>
  BY DEF Finish
<1>2. \A x \in AllPlaces : Kept(x)' = Kept(x)
  BY <1>1, NothingUnread, SamePlaces
<1>3. CallsLeft' = CallsLeft
  <2>1. \A b : ~ToRun(b)
    BY <1>1 DEF ToRun, ToSet
  <2> QED
    BY <1>1, <2>1 DEF CallsLeft
<1> QED
  BY <1>1, <1>2, <1>3, CoreStays

LEMMA CoreBeginExchange ==
  ASSUME BaseInv, BaseInv', BeginExchange
  PROVE  Core!BeginExchange
<1>1. /\ phase = "foreach" /\ called = Foreachs /\ commands_ = <<>> /\ exchange_round_ < Rounds
      /\ outgoing_' = [l \in FromHere |-> IF outgoing_[l] = NoQueue THEN QueueRecord(<<>>) ELSE outgoing_[l]]
      /\ exchange_round_' = exchange_round_ + 1 /\ called' = 0 /\ gid_order' = Block /\ phase' = "flush"
      /\ UNCHANGED <<elements_, external_, files, commands_>>
  BY DEF BeginExchange
<1>2. PICK k \in 0..Rounds : k = exchange_round_
  BY DEF BaseInv, Shape
<1>3. k # Rounds /\ k + 1 \in 0..Rounds /\ k + 1 = exchange_round_' /\ (k + 1) + 1 # k /\ (k + 1) + 1 # k + 1
      /\ (k + 1 # Rounds => (k + 1) + 1 \in 0..Rounds)
  BY <1>1, <1>2, OutOfCoreAssumption
<1>4. MappingAt(k) /\ MappingAt(k + 1)'
  BY <1>2, <1>3, Mapped, MappedNext DEF Mapping
<1>5. \A j \in 0..Rounds, l \in ToHere : Kept(<<"in", j, l>>)' = Kept(<<"in", j, l>>)
  BY <1>1, NothingUnread DEF Kept, FileOf, Mem, RecordAt
<1>6. \A l \in FromHere : Kept(<<"out", l>>)' = Kept(<<"out", l>>)
  <2> SUFFICES ASSUME NEW l \in FromHere PROVE Kept(<<"out", l>>)' = Kept(<<"out", l>>)
    OBVIOUS
  <2>1. outgoing_'[l].external_ = outgoing_[l].external_ /\ outgoing_'[l].buffer_ = outgoing_[l].buffer_
    BY <1>1 DEF NoQueue, QueueRecord
  <2> QED
    BY <1>1, <2>1 DEF Kept, FileOf, Mem, RecordAt
<1>7. ToRead' = ToExchange
  <2>1. ASSUME NEW l \in FromHere PROVE ToRead'[l] = ToExchange[l]
    <3>1. ToBeSent(l)'
      BY <1>1, LinkEnds DEF ToBeSent
    <3>2. ToRead'[l] = Kept(<<"out", l>>)'
      BY <1>4, <3>1 DEF MappingAt
    <3>3. ToExchange[l] = Kept(<<"out", l>>)
      BY <1>1, <1>4 DEF MappingAt
    <3> QED
      BY <1>6, <3>2, <3>3
  <2>2. ASSUME NEW l \in ToHere \ Inside PROVE ToRead'[l] = ToExchange[l]
    <3>1. ToRead'[l] = Kept(<<"in", k + 1, l>>)'
      BY <1>4 DEF MappingAt
    <3>2. ToExchange[l] = Kept(<<"in", k + 1, l>>)
      BY <1>3, <1>4 DEF MappingAt
    <3> QED
      BY <1>3, <1>5, <3>1, <3>2
  <2>3. \A l \in Link : ToRead'[l] = ToExchange[l]
    BY <2>1, <2>2, LinkEnds
  <2>4. ToRead' = [l \in Link |-> ToRead'[l]] /\ ToExchange = [l \in Link |-> ToExchange[l]]
    BY <1>4 DEF MappingAt
  <2> QED
    BY <2>3, <2>4
<1>8. ToExchange' = [l \in Link |-> <<>>]
  <2>1. \A l \in FromHere : ToExchange'[l] = <<>>
    BY <1>1, <1>4 DEF MappingAt
  <2>2. ASSUME NEW l \in ToHere \ Inside PROVE ToExchange'[l] = <<>>
    <3>1. ToExchange'[l] = IF k + 1 = Rounds THEN <<>> ELSE Kept(<<"in", (k + 1) + 1, l>>)'
      BY <1>4 DEF MappingAt
    <3>2. ASSUME NEW j \in 0..Rounds, j = (k + 1) + 1 PROVE Kept(<<"in", j, l>>)' = <<>>
      <4>1. incoming_[j][l] = NoQueue
        BY <1>2, <1>3, <3>2 DEF BaseInv, QueuesInv
      <4>2. Kept(<<"in", j, l>>) = <<>>
        BY <4>1 DEF Kept, FileOf, Mem, RecordAt, NoQueue
      <4> QED
        BY <1>5, <4>2
    <3> QED
      BY <1>3, <3>1, <3>2
  <2>3. \A l \in Link : ToExchange'[l] = <<>>
    BY <2>1, <2>2, LinkEnds
  <2>4. ToExchange' = [l \in Link |-> ToExchange'[l]]
    BY <1>4 DEF MappingAt
  <2> QED
    BY <2>3, <2>4
<1>9. Content' = Content
  <2>1. \A x : x[1] = "block" => Kept(x)' = Kept(x)
    BY <1>1 DEF Kept, FileOf, Mem
  <2> QED
    BY <2>1, SameContent
<1>10. CallsLeft' = CallsLeft /\ \A b \in Block : CallsLeft[b] = <<>>
  BY <1>1 DEF CallsLeft
<1> QED
  BY <1>1, <1>7, <1>8, <1>9, <1>10 DEF Core!BeginExchange

LEMMA CoreEndExchange ==
  ASSUME BaseInv, BaseInv', EndExchange
  PROVE  Core!EndExchange
<1>1. /\ phase = "flush" /\ gid_order = {} /\ outgoing_' = [l \in FromHere |-> NoQueue] /\ phase' = "foreach"
      /\ UNCHANGED <<elements_, external_, incoming_, files, called, commands_, exchange_round_, wire, gid_order>>
  BY DEF EndExchange
<1>2. PICK k \in 0..Rounds : k = exchange_round_
  BY DEF BaseInv, Shape
<1>3. MappingAt(k) /\ MappingAt(k)'
  BY <1>1, <1>2, Mapped, MappedNext DEF Mapping
<1>4. \A j \in 0..Rounds, l \in ToHere : Kept(<<"in", j, l>>)' = Kept(<<"in", j, l>>)
  BY <1>1 DEF Kept, FileOf, Mem, RecordAt
<1>5. \A l \in FromHere : Kept(<<"out", l>>)' = <<>>
  BY <1>1 DEF Kept, FileOf, Mem, RecordAt, NoQueue
<1>6. \A l \in FromHere : ToRead'[l] = ToRead[l] /\ ToExchange'[l] = ToExchange[l]
  <2> SUFFICES ASSUME NEW l \in FromHere PROVE ToRead'[l] = ToRead[l] /\ ToExchange'[l] = ToExchange[l]
    OBVIOUS
  <2>1. ~ToBeSent(l) /\ ~ToBeSent(l)'
    BY <1>1 DEF ToBeSent
  <2>2. /\ ToRead[l] = IF l \in Inside THEN Kept(<<"in", k, l>>) ELSE wire[l]
        /\ ToExchange[l] = <<>>
    BY <1>1, <1>3, <2>1 DEF MappingAt
  <2>3. /\ ToRead'[l] = IF l \in Inside THEN Kept(<<"in", k, l>>)' ELSE wire'[l]
        /\ ToExchange'[l] = Kept(<<"out", l>>)'
    BY <1>1, <1>3, <2>1 DEF MappingAt
  <2>4. l \in Inside => Kept(<<"in", k, l>>)' = Kept(<<"in", k, l>>)
    BY <1>2, <1>4, LinkEnds
  <2> QED
    BY <1>1, <1>5, <2>2, <2>3, <2>4
<1>7. \A l \in ToHere \ Inside : ToRead'[l] = ToRead[l] /\ ToExchange'[l] = ToExchange[l]
  <2> SUFFICES ASSUME NEW l \in ToHere \ Inside PROVE ToRead'[l] = ToRead[l] /\ ToExchange'[l] = ToExchange[l]
    OBVIOUS
  <2>1. /\ ToRead[l] = Kept(<<"in", k, l>>)
        /\ ToExchange[l] = IF k = Rounds THEN <<>> ELSE Kept(<<"in", k + 1, l>>)
    BY <1>3 DEF MappingAt
  <2>2. /\ ToRead'[l] = Kept(<<"in", k, l>>)'
        /\ ToExchange'[l] = IF k = Rounds THEN <<>> ELSE Kept(<<"in", k + 1, l>>)'
    BY <1>3 DEF MappingAt
  <2>3. k # Rounds => k + 1 \in 0..Rounds
    BY OutOfCoreAssumption
  <2>4. /\ Kept(<<"in", k, l>>)' = Kept(<<"in", k, l>>)
        /\ k # Rounds => Kept(<<"in", k + 1, l>>)' = Kept(<<"in", k + 1, l>>)
    BY <1>2, <1>4, <2>3
  <2> QED
    BY <2>1, <2>2, <2>4
<1>8. ToRead' = ToRead /\ ToExchange' = ToExchange
  <2>1. \A l \in Link : ToRead'[l] = ToRead[l] /\ ToExchange'[l] = ToExchange[l]
    BY <1>6, <1>7, LinkEnds
  <2>2. /\ ToRead = [l \in Link |-> ToRead[l]] /\ ToRead' = [l \in Link |-> ToRead'[l]]
        /\ ToExchange = [l \in Link |-> ToExchange[l]] /\ ToExchange' = [l \in Link |-> ToExchange'[l]]
    BY <1>3 DEF MappingAt
  <2> QED
    BY <2>1, <2>2
<1>9. Content' = Content
  <2>1. \A x : x[1] = "block" => Kept(x)' = Kept(x)
    BY <1>1 DEF Kept, FileOf, Mem
  <2> QED
    BY <2>1, SameContent
<1>10. CallsLeft' = CallsLeft
  <2>1. commands_ = <<>>
    BY <1>1 DEF BaseInv, QueuesInv
  <2> QED
    BY <1>1, <2>1 DEF CallsLeft
<1> QED
  BY <1>1, <1>8, <1>9, <1>10 DEF Core!EndExchange

\* Sending changes only where the queues are.
LEMMA CoreSend ==
  ASSUME BaseInv, BaseInv', FilesInv, FewLarge, NEW b \in Block, SendBlock(b)
  PROVE  UNCHANGED Core!vars
<1>1. PICK k \in 0..Rounds : k = exchange_round_
  BY DEF BaseInv, Shape
<1>2. /\ \A l \in FromHere : outgoing_'[l] = IF l[1] = b THEN NoQueue ELSE outgoing_[l]
      /\ \A j \in 0..Rounds, l \in ToHere : j # k \/ l \notin SentNow(b) => incoming_'[j][l] = incoming_[j][l]
      /\ \A l \in SentNow(b) \ SentToFile(b) : incoming_'[k][l] = outgoing_[l]
      /\ \A n \in DOMAIN files : files'[n] = files[n]
  BY <1>1, SendEffect
<1>3. /\ phase = "flush" /\ b \in gid_order /\ gid_order' = gid_order \ {b} /\ OutgoingToLoad(b) = {}
      /\ wire' = [l \in FromHere \ Inside |-> IF l[1] = b THEN outgoing_[l].buffer_ ELSE wire[l]]
      /\ UNCHANGED <<elements_, external_, phase, called, commands_, exchange_round_>>
  BY DEF SendBlock
<1>4. MappingAt(k) /\ MappingAt(k)'
  BY <1>1, <1>3, Mapped, MappedNext DEF Mapping
<1>5. \A l \in FromHere : l[1] = b => ~external(outgoing_[l])
  <2> SUFFICES ASSUME NEW l \in FromHere, l[1] = b, external(outgoing_[l]) PROVE FALSE
    OBVIOUS
  <2>1. CASE l[2] \in Away
    <3>1. <<"out", l>> \in OutgoingToLoad(b)
      BY <1>1, <2>1, LoadPlaces
    <3> QED
      BY <1>3, <3>1
  <2>2. CASE l[2] \notin Away
    BY <2>2, LinkEnds DEF FilesInv, FewLarge
  <2> QED
    BY <2>1, <2>2
<1>6. SentToFile(b) = {}
  BY DEF SentToFile, SentNow, Unloads, FewLarge
<1>7. \A x \in AllPlaces : FileOf(x)' = FileOf(x) /\ Mem(x)' = Mem(x) => Kept(x)' = Kept(x)
  <2> SUFFICES ASSUME NEW x \in AllPlaces, FileOf(x)' = FileOf(x), Mem(x)' = Mem(x) PROVE Kept(x)' = Kept(x)
    OBVIOUS
  <2>1. FileOf(x) # None => FileOf(x) \in DOMAIN files
    BY OutsidePlaces DEF BaseInv, StorageInv
  <2> QED
    BY <1>2, <2>1 DEF Kept
<1>8. \A l \in FromHere : l[1] # b => Kept(<<"out", l>>)' = Kept(<<"out", l>>)
  BY <1>2, <1>7, OutPlace DEF FileOf, Mem, RecordAt
<1>9. \A j \in 0..Rounds, l \in ToHere : j # k \/ l \notin SentNow(b) => Kept(<<"in", j, l>>)' = Kept(<<"in", j, l>>)
  BY <1>2, <1>7, InPlace DEF FileOf, Mem, RecordAt
<1>10. \A l \in FromHere : l[1] = b => Kept(<<"out", l>>) = outgoing_[l].buffer_
  BY <1>5 DEF Kept, FileOf, Mem, RecordAt, external
<1>11. \A l \in SentNow(b) : Kept(<<"in", k, l>>)' = outgoing_[l].buffer_
  <2> SUFFICES ASSUME NEW l \in SentNow(b) PROVE Kept(<<"in", k, l>>)' = outgoing_[l].buffer_
    OBVIOUS
  <2>1. l \in FromHere /\ l[1] = b
    BY LinkEnds DEF SentNow, Out
  <2>2. incoming_'[k][l] = outgoing_[l] /\ outgoing_[l].external_ = None
    BY <1>2, <1>5, <1>6, <2>1 DEF external
  <2> QED
    BY <2>2 DEF Kept, FileOf, Mem, RecordAt
<1>12. \A l \in FromHere : l \in SentNow(b) <=> l[1] = b /\ l \in Inside
  BY LinkEnds DEF SentNow, Out
<1>13. \A l \in FromHere : ToRead'[l] = ToRead[l] /\ ToExchange'[l] = ToExchange[l]
  <2> SUFFICES ASSUME NEW l \in FromHere PROVE ToRead'[l] = ToRead[l] /\ ToExchange'[l] = ToExchange[l]
    OBVIOUS
  <2>1. /\ ToRead[l] = IF ToBeSent(l) THEN Kept(<<"out", l>>) ELSE IF l \in Inside THEN Kept(<<"in", k, l>>) ELSE wire[l]
        /\ ToExchange[l] = IF phase = "flush" THEN <<>> ELSE Kept(<<"out", l>>)
    BY <1>4 DEF MappingAt
  <2>2. /\ ToRead'[l] = IF ToBeSent(l)' THEN Kept(<<"out", l>>)'
                        ELSE IF l \in Inside THEN Kept(<<"in", k, l>>)' ELSE wire'[l]
        /\ ToExchange'[l] = IF phase' = "flush" THEN <<>> ELSE Kept(<<"out", l>>)'
    BY <1>4 DEF MappingAt
  <2>3. CASE l[1] = b
    <3>1. ToBeSent(l) /\ ~ToBeSent(l)'
      BY <1>3, <2>3 DEF ToBeSent
    <3>2. ToRead[l] = outgoing_[l].buffer_
      BY <1>10, <2>1, <2>3, <3>1
    <3>3. ToRead'[l] = outgoing_[l].buffer_
      <4>1. CASE l \in Inside
        BY <1>11, <1>12, <2>2, <2>3, <3>1, <4>1
      <4>2. CASE l \notin Inside
        BY <1>3, <2>2, <2>3, <3>1, <4>2
      <4> QED
        BY <4>1, <4>2
    <3> QED
      BY <1>3, <2>1, <2>2, <3>2, <3>3
  <2>4. CASE l[1] # b
    <3>1. ToBeSent(l) <=> ToBeSent(l)'
      BY <1>3, <2>4 DEF ToBeSent
    <3>2. Kept(<<"out", l>>)' = Kept(<<"out", l>>)
      BY <1>8, <2>4
    <3>3. l \in Inside => Kept(<<"in", k, l>>)' = Kept(<<"in", k, l>>)
      BY <1>9, <1>12, <2>4, LinkEnds
    <3>4. l \notin Inside => wire'[l] = wire[l]
      BY <1>3, <2>4
    <3> QED
      BY <1>3, <2>1, <2>2, <3>1, <3>2, <3>3, <3>4
  <2> QED
    BY <2>3, <2>4
<1>14. \A l \in ToHere \ Inside : ToRead'[l] = ToRead[l] /\ ToExchange'[l] = ToExchange[l]
  <2> SUFFICES ASSUME NEW l \in ToHere \ Inside PROVE ToRead'[l] = ToRead[l] /\ ToExchange'[l] = ToExchange[l]
    OBVIOUS
  <2>1. /\ ToRead[l] = Kept(<<"in", k, l>>)
        /\ ToExchange[l] = IF k = Rounds THEN <<>> ELSE Kept(<<"in", k + 1, l>>)
    BY <1>4 DEF MappingAt
  <2>2. /\ ToRead'[l] = Kept(<<"in", k, l>>)'
        /\ ToExchange'[l] = IF k = Rounds THEN <<>> ELSE Kept(<<"in", k + 1, l>>)'
    BY <1>4 DEF MappingAt
  <2>3. l \notin SentNow(b) /\ (k # Rounds => k + 1 \in 0..Rounds)
    BY OutOfCoreAssumption DEF SentNow
  <2>4. /\ Kept(<<"in", k, l>>)' = Kept(<<"in", k, l>>)
        /\ k # Rounds => Kept(<<"in", k + 1, l>>)' = Kept(<<"in", k + 1, l>>)
    BY <1>9, <2>3
  <2> QED
    BY <2>1, <2>2, <2>4
<1>15. ToRead' = ToRead /\ ToExchange' = ToExchange
  <2>1. \A l \in Link : ToRead'[l] = ToRead[l] /\ ToExchange'[l] = ToExchange[l]
    BY <1>13, <1>14, LinkEnds
  <2>2. /\ ToRead = [l \in Link |-> ToRead[l]] /\ ToRead' = [l \in Link |-> ToRead'[l]]
        /\ ToExchange = [l \in Link |-> ToExchange[l]] /\ ToExchange' = [l \in Link |-> ToExchange'[l]]
    BY <1>4 DEF MappingAt
  <2> QED
    BY <2>1, <2>2
<1>16. Content' = Content
  <2>1. \A x \in AllPlaces : x[1] = "block" => FileOf(x)' = FileOf(x) /\ Mem(x)' = Mem(x)
    BY <1>3 DEF FileOf, Mem
  <2> QED
    BY <1>7, <2>1, SameContent
<1>17. CallsLeft' = CallsLeft
  <2>1. commands_ = <<>>
    BY <1>3 DEF BaseInv, QueuesInv
  <2> QED
    BY <1>3, <2>1 DEF CallsLeft
<1> QED
  BY <1>3, <1>15, <1>16, <1>17 DEF Core!vars

LEMMA CoreArrive ==
  ASSUME BaseInv, BaseInv', FewLarge, NEW l \in ToHere, NEW j \in 0..Rounds, Arrive(l, j)
  PROVE  Core!Come(l) \/ UNCHANGED Core!vars
<1>1. PICK k \in 0..Rounds : k = exchange_round_
  BY DEF BaseInv, Shape
<1>2. /\ l \notin Inside /\ incoming_[j][l] = NoQueue
      /\ \A i \in 0..Rounds, m \in ToHere : i # j \/ m # l => incoming_'[i][m] = incoming_[i][m]
  BY ArriveEffect
<1>3. /\ phase = "flush" /\ (j = k \/ (j = k + 1 /\ l \in Early))
      /\ UNCHANGED <<elements_, external_, outgoing_, phase, called, commands_, exchange_round_, wire, gid_order>>
  BY <1>1 DEF Arrive
<1>4. MappingAt(k) /\ MappingAt(k)'
  BY <1>1, <1>3, Mapped, MappedNext DEF Mapping
<1>5. PICK items \in {<<>>, <<<<j - 1, 1>>>>} :
        \/ incoming_'[j][l] = QueueRecord(items) /\ files' = files
        \/ /\ incoming_'[j][l].external_ # None /\ files'[incoming_'[j][l].external_] = items
           /\ \A n \in DOMAIN files : files'[n] = files[n]
  <2>1. \E items \in {<<>>, <<<<j - 1, 1>>>>} :
          \/ /\ ~ToFile(l, j, QueueRecord(items))
             /\ incoming_'[j][l] = QueueRecord(items) /\ files' = files
          \/ LET qr == incoming_'[j][l]
             IN  /\ ToFile(l, j, QueueRecord(items))
                 /\ qr.external_ # None /\ qr.external_ \notin DOMAIN files /\ qr.size_ = Len(items)
                 /\ DOMAIN files' = DOMAIN files \cup {qr.external_}
                 /\ files'[qr.external_] = items
                 /\ \A n \in DOMAIN files : files'[n] = files[n]
    BY ArriveEffect
  <2> QED
    BY <2>1
<1>6. Kept(<<"in", j, l>>) = <<>> /\ Kept(<<"in", j, l>>)' = items
  BY <1>2, <1>5 DEF Kept, FileOf, Mem, RecordAt, NoQueue, QueueRecord
<1>7. \A x \in AllPlaces : FileOf(x)' = FileOf(x) /\ Mem(x)' = Mem(x) => Kept(x)' = Kept(x)
  <2> SUFFICES ASSUME NEW x \in AllPlaces, FileOf(x)' = FileOf(x), Mem(x)' = Mem(x) PROVE Kept(x)' = Kept(x)
    OBVIOUS
  <2>1. FileOf(x) # None => FileOf(x) \in DOMAIN files
    BY OutsidePlaces DEF BaseInv, StorageInv
  <2> QED
    BY <1>5, <2>1 DEF Kept
<1>8. \A m \in FromHere : Kept(<<"out", m>>)' = Kept(<<"out", m>>)
  BY <1>3, <1>7, OutPlace DEF FileOf, Mem, RecordAt
<1>9. \A i \in 0..Rounds, m \in ToHere : i # j \/ m # l => Kept(<<"in", i, m>>)' = Kept(<<"in", i, m>>)
  BY <1>2, <1>7, InPlace DEF FileOf, Mem, RecordAt
<1>10. \A m : ToBeSent(m)' <=> ToBeSent(m)
  BY <1>3 DEF ToBeSent
<1>11. \A m \in FromHere : m # l /\ ToRead'[m] = ToRead[m] /\ ToExchange'[m] = ToExchange[m]
  <2> SUFFICES ASSUME NEW m \in FromHere PROVE m # l /\ ToRead'[m] = ToRead[m] /\ ToExchange'[m] = ToExchange[m]
    OBVIOUS
  <2>1. /\ ToRead[m] = IF ToBeSent(m) THEN Kept(<<"out", m>>) ELSE IF m \in Inside THEN Kept(<<"in", k, m>>) ELSE wire[m]
        /\ ToExchange[m] = <<>>
    BY <1>3, <1>4 DEF MappingAt
  <2>2. /\ ToRead'[m] = IF ToBeSent(m)' THEN Kept(<<"out", m>>)'
                        ELSE IF m \in Inside THEN Kept(<<"in", k, m>>)' ELSE wire'[m]
        /\ ToExchange'[m] = <<>>
    BY <1>3, <1>4 DEF MappingAt
  <2>3. m # l
    BY <1>2, LinkEnds
  <2>4. m \in Inside => Kept(<<"in", k, m>>)' = Kept(<<"in", k, m>>)
    BY <1>9, <2>3, LinkEnds
  <2> QED
    BY <1>3, <1>8, <1>10, <2>1, <2>2, <2>3, <2>4
<1>12. /\ k # Rounds => k + 1 \in 0..Rounds
       /\ j = k + 1 => k # Rounds
       /\ k # k + 1
  BY <1>1, OutOfCoreAssumption
<1>13. \A m \in ToHere \ Inside :
         /\ ToRead'[m] = IF m = l /\ j = k THEN items ELSE ToRead[m]
         /\ ToExchange'[m] = IF m = l /\ j = k + 1 THEN items ELSE ToExchange[m]
  <2> SUFFICES ASSUME NEW m \in ToHere \ Inside
               PROVE  /\ ToRead'[m] = IF m = l /\ j = k THEN items ELSE ToRead[m]
                      /\ ToExchange'[m] = IF m = l /\ j = k + 1 THEN items ELSE ToExchange[m]
    OBVIOUS
  <2>1. /\ ToRead[m] = Kept(<<"in", k, m>>)
        /\ ToExchange[m] = IF k = Rounds THEN <<>> ELSE Kept(<<"in", k + 1, m>>)
    BY <1>4 DEF MappingAt
  <2>2. /\ ToRead'[m] = Kept(<<"in", k, m>>)'
        /\ ToExchange'[m] = IF k = Rounds THEN <<>> ELSE Kept(<<"in", k + 1, m>>)'
    BY <1>4 DEF MappingAt
  <2>3. ToRead'[m] = IF m = l /\ j = k THEN items ELSE ToRead[m]
    BY <1>6, <1>9, <2>1, <2>2
  <2>4. ToExchange'[m] = IF m = l /\ j = k + 1 THEN items ELSE ToExchange[m]
    <3>1. CASE k = Rounds
      BY <1>12, <2>1, <2>2, <3>1
    <3>2. CASE k # Rounds
      <4>1. k + 1 \in 0..Rounds
        BY <1>12, <3>2
      <4>2. m = l /\ j = k + 1 => Kept(<<"in", k + 1, m>>)' = items
        BY <1>6
      <4>3. ~(m = l /\ j = k + 1) => Kept(<<"in", k + 1, m>>)' = Kept(<<"in", k + 1, m>>)
        BY <1>9, <4>1
      <4> QED
        BY <2>1, <2>2, <3>2, <4>2, <4>3
    <3> QED
      BY <3>1, <3>2
  <2> QED
    BY <2>3, <2>4
<1>14. /\ l \in Link /\ l[1] \in Away /\ l \in ToHere \ Inside
       /\ j = k => ToRead[l] = <<>>
       /\ j = k + 1 => ToExchange[l] = <<>>
  <2>1. l \in ToHere \ Inside /\ l \in Link /\ l[1] \in Away
    BY <1>2, LinkEnds
  <2>2. /\ ToRead[l] = Kept(<<"in", k, l>>)
        /\ ToExchange[l] = IF k = Rounds THEN <<>> ELSE Kept(<<"in", k + 1, l>>)
    BY <1>4, <2>1 DEF MappingAt
  <2> QED
    BY <1>6, <2>1, <2>2
<1>15. \A m \in Link : /\ ToRead'[m] = IF m = l /\ j = k THEN items ELSE ToRead[m]
                       /\ ToExchange'[m] = IF m = l /\ j = k + 1 THEN items ELSE ToExchange[m]
  BY <1>11, <1>13, LinkEnds
<1>16. /\ ToRead = [m \in Link |-> ToRead[m]] /\ ToRead' = [m \in Link |-> ToRead'[m]]
       /\ ToExchange = [m \in Link |-> ToExchange[m]] /\ ToExchange' = [m \in Link |-> ToExchange'[m]]
  BY <1>4 DEF MappingAt
<1>17. Content' = Content
  <2>1. \A x \in AllPlaces : x[1] = "block" => FileOf(x)' = FileOf(x) /\ Mem(x)' = Mem(x)
    BY <1>3 DEF FileOf, Mem
  <2> QED
    BY <1>7, <2>1, SameContent
<1>18. CallsLeft' = CallsLeft
  <2>1. commands_ = <<>>
    BY <1>3 DEF BaseInv, QueuesInv
  <2> QED
    BY <1>3, <2>1 DEF CallsLeft
<1>19. CASE items = <<>>
  <2>1. ToRead' = ToRead /\ ToExchange' = ToExchange
    BY <1>14, <1>15, <1>16, <1>19
  <2> QED
    BY <1>3, <1>17, <1>18, <2>1 DEF Core!vars
<1>20. CASE items = <<<<j - 1, 1>>>>
  <2>1. CASE j = k
    <3>1. ToExchange' = ToExchange
      BY <1>12, <1>15, <1>16, <2>1
    <3>2. ToRead' = [ToRead EXCEPT ![l] = <<<<exchange_round_ - 1, 1>>>>]
      BY <1>1, <1>14, <1>15, <1>16, <1>20, <2>1
    <3>3. ToRead[l] = <<>>
      BY <1>14, <2>1
    <3> QED
      BY <1>3, <1>14, <1>17, <1>18, <3>1, <3>2, <3>3 DEF Core!Come
  <2>2. CASE j = k + 1
    <3>1. ToRead' = ToRead
      BY <1>12, <1>15, <1>16, <2>2
    <3>2. j - 1 = exchange_round_
      BY <1>1, <2>2
    <3>3. ToExchange' = [ToExchange EXCEPT ![l] = <<<<exchange_round_, 1>>>>]
      BY <1>14, <1>15, <1>16, <1>20, <2>2, <3>2
    <3>4. ToExchange[l] = <<>>
      BY <1>14, <2>2
    <3> QED
      BY <1>3, <1>14, <1>17, <1>18, <3>1, <3>3, <3>4 DEF Core!Come
  <2> QED
    BY <1>3, <2>1, <2>2
<1> QED
  BY <1>19, <1>20

LEMMA CoreRun ==
  ASSUME BaseInv, BaseInv', FilesInv, NEW t \in Worker, Run(t)
  PROVE  Core!Run(cur[t])
<1>0. PICK b \in Block : b = cur[t]
  BY AtThread DEF Run
<1>1. PICK k \in 0..Rounds : k = exchange_round_
  BY DEF BaseInv, Shape
<1>2. /\ at[t] = "ready" /\ external_' = external_ /\ files' = files /\ blocks' = blocks /\ UNCHANGED program
      /\ elements_' = IF AllSkip(b) THEN elements_
                      ELSE [elements_ EXCEPT ![b] =
                              [runs |-> @.runs + Len(commands_),
                               read |-> [l \in In(b) |-> elements_[b].read[l] + Len(Moved(incoming_[k][l]))]]]
      /\ \E to \in Sendings(b) :
           outgoing_' = [l \in FromHere |->
             IF l[1] # b \/ (outgoing_[l] = NoQueue /\ Mail(to, l[2]) = <<>>) THEN outgoing_[l]
             ELSE QueueRecord(Moved(outgoing_[l]) \o Mail(to, l[2]))]
      /\ incoming_' = [incoming_ EXCEPT ![k] = [l \in ToHere |-> IF l[2] = b THEN NoQueue ELSE @[l]]]
      /\ at' = [at EXCEPT ![t] = IF AllSkip(b) /\ ~InMemory(b) THEN "skipped" ELSE "next"]
      /\ cur' = [cur EXCEPT ![t] = IF AllSkip(b) /\ ~InMemory(b) THEN b ELSE NoBlock]
  BY <1>0, <1>1 DEF Run
<1>3. /\ UNCHANGED <<phase, called, commands_, exchange_round_, wire, gid_order>>
      /\ phase = "execute" /\ b # NoBlock /\ b \in local[t] \cup (idle \ loaded) /\ local[t] \subseteq loaded
  BY <1>0, <1>2, AtThread DEF program
<1>4. Shape /\ ThreadsInv /\ QueuesInv /\ BlocksInv
  BY DEF BaseInv
<1>5. MappingAt(k) /\ MappingAt(k)'
  BY <1>1, <1>3, Mapped, MappedNext DEF Mapping
<1>6. ~Resting(b)
  BY <1>0, <1>2 DEF Resting
<1>7. /\ \A l \in FromHere : l[1] = b => outgoing_[l].external_ = None
      /\ \A l \in ToHere : l[2] = b => incoming_[k][l].external_ = None
  BY <1>6 DEF FilesInv, external
\* The calls.
<1>8. CallsLeft[b] = commands_ /\ commands_ # <<>>
  <2>1. ToRun(b)
    BY <1>0, <1>2 DEF ToRun
  <2> QED
    BY <1>3, <1>4, <2>1 DEF CallsLeft, QueuesInv
<1>9. CallsLeft' = [CallsLeft EXCEPT ![b] = <<>>]
  <2>1. \A u \in Worker : u # t => cur'[u] = cur[u] /\ at'[u] = at[u] /\ cur[u] # b
    BY <1>0, <1>2, <1>3, <1>4 DEF Shape, ThreadsInv, Apart
  <2>2. cur'[t] \in {b, NoBlock} /\ at'[t] \notin {"taken", "ready"}
    BY <1>2, <1>4 DEF Shape
  <2>3. b \notin ToSet(blocks)
    BY <1>0, <1>4 DEF ThreadsInv, ThreadOK
  <2>4. ~ToRun(b)'
    BY <1>2, <1>3, <2>1, <2>2, <2>3 DEF ToRun
  <2>5. \A c \in Block : c # b => (ToRun(c)' <=> ToRun(c))
    BY <1>0, <1>2, <1>3, <2>1, <2>2 DEF ToRun
  <2> QED
    BY <1>3, <2>4, <2>5 DEF CallsLeft
\* The queues.
<1>10. \A l \in FromHere : l[1] # b => Kept(<<"out", l>>)' = Kept(<<"out", l>>)
  BY <1>2 DEF Kept, FileOf, Mem, RecordAt
<1>11. /\ \A j \in 0..Rounds, l \in ToHere : j # k \/ l[2] # b => Kept(<<"in", j, l>>)' = Kept(<<"in", j, l>>)
       /\ \A l \in ToHere : l[2] = b => /\ Kept(<<"in", k, l>>)' = <<>>
                                       /\ Kept(<<"in", k, l>>) = incoming_[k][l].buffer_
  <2>1. \A j \in 0..Rounds, l \in ToHere : j # k \/ l[2] # b => incoming_'[j][l] = incoming_[j][l]
    BY <1>2, <1>4 DEF Shape
  <2>2. \A l \in ToHere : l[2] = b => incoming_'[k][l] = NoQueue
    BY <1>2, <1>4 DEF Shape
  <2>3. \A l \in ToHere : l[2] = b => Kept(<<"in", k, l>>)' = <<>>
    BY <2>2 DEF Kept, FileOf, Mem, RecordAt, NoQueue
  <2>4. \A l \in ToHere : l[2] = b => Kept(<<"in", k, l>>) = incoming_[k][l].buffer_
    BY <1>7 DEF Kept, FileOf, Mem, RecordAt
  <2>5. \A j \in 0..Rounds, l \in ToHere : j # k \/ l[2] # b => Kept(<<"in", j, l>>)' = Kept(<<"in", j, l>>)
    BY <1>2, <2>1 DEF Kept, FileOf, Mem, RecordAt
  <2> QED
    BY <2>3, <2>4, <2>5
<1>12. \A l : ~ToBeSent(l) /\ ~ToBeSent(l)'
  BY <1>3, <1>4 DEF ToBeSent, QueuesInv
<1>13. \A l \in ToHere : ToRead[l] = Kept(<<"in", k, l>>) /\ ToRead'[l] = Kept(<<"in", k, l>>)'
  <2> SUFFICES ASSUME NEW l \in ToHere PROVE ToRead[l] = Kept(<<"in", k, l>>) /\ ToRead'[l] = Kept(<<"in", k, l>>)'
    OBVIOUS
  <2>1. CASE l \in Inside
    BY <1>5, <1>12, <2>1, LinkEnds DEF MappingAt
  <2>2. CASE l \notin Inside
    BY <1>5, <2>2 DEF MappingAt
  <2> QED
    BY <2>1, <2>2
<1>14. \A l \in FromHere \ Inside : l[2] # b /\ ToRead'[l] = ToRead[l]
  <2> SUFFICES ASSUME NEW l \in FromHere \ Inside PROVE l[2] # b /\ ToRead'[l] = ToRead[l]
    OBVIOUS
  <2>1. ToRead[l] = wire[l]
    BY <1>5, <1>12 DEF MappingAt
  <2>2. ToRead'[l] = wire'[l]
    BY <1>5, <1>12 DEF MappingAt
  <2>3. l[2] \in Away
    BY LinkEnds
  <2>4. wire' = wire
    BY <1>3
  <2> QED
    BY <2>1, <2>2, <2>3, <2>4, OutOfCoreAssumption
<1>15. ToRead' = [l \in Link |-> IF l[2] = b THEN <<>> ELSE ToRead[l]]
  <2>1. ASSUME NEW l \in ToHere PROVE ToRead'[l] = IF l[2] = b THEN <<>> ELSE ToRead[l]
    <3>1. ToRead[l] = Kept(<<"in", k, l>>) /\ ToRead'[l] = Kept(<<"in", k, l>>)'
      BY <1>13
    <3>2. l[2] = b => Kept(<<"in", k, l>>)' = <<>>
      BY <1>11
    <3>3. l[2] # b => Kept(<<"in", k, l>>)' = Kept(<<"in", k, l>>)
      BY <1>11
    <3> QED
      BY <3>1, <3>2, <3>3
  <2>2. \A l \in Link : ToRead'[l] = IF l[2] = b THEN <<>> ELSE ToRead[l]
    BY <1>14, <2>1, LinkEnds
  <2>3. ToRead' = [l \in Link |-> ToRead'[l]]
    BY <1>5 DEF MappingAt
  <2> QED
    BY <2>2, <2>3
<1>16. /\ \A l \in FromHere : ToExchange[l] = Kept(<<"out", l>>) /\ ToExchange'[l] = Kept(<<"out", l>>)'
       /\ \A l \in ToHere \ Inside : ToExchange'[l] = ToExchange[l]
  <2>1. \A l \in FromHere : ToExchange[l] = Kept(<<"out", l>>) /\ ToExchange'[l] = Kept(<<"out", l>>)'
    BY <1>3, <1>5 DEF MappingAt
  <2>2. k # Rounds => k + 1 \in 0..Rounds /\ k + 1 # k
    BY OutOfCoreAssumption
  <2>3. \A l \in ToHere : k # Rounds => Kept(<<"in", k + 1, l>>)' = Kept(<<"in", k + 1, l>>)
    BY <1>11, <2>2
  <2>4. \A l \in ToHere \ Inside : /\ ToExchange[l] = IF k = Rounds THEN <<>> ELSE Kept(<<"in", k + 1, l>>)
                                   /\ ToExchange'[l] = IF k = Rounds THEN <<>> ELSE Kept(<<"in", k + 1, l>>)'
    BY <1>5 DEF MappingAt
  <2> QED
    BY <2>1, <2>3, <2>4
<1>17. \E to \in Core!Sendings(b, CallsLeft[b]) :
         ToExchange' = [l \in Link |-> IF l[1] = b
                                       THEN ToExchange[l] \o Core!Mail(exchange_round_, CallsLeft[b], to, l[2])
                                       ELSE ToExchange[l]]
  <2>1. PICK to \in Sendings(b) :
          outgoing_' = [l \in FromHere |->
            IF l[1] # b \/ (outgoing_[l] = NoQueue /\ Mail(to, l[2]) = <<>>) THEN outgoing_[l]
            ELSE QueueRecord(Moved(outgoing_[l]) \o Mail(to, l[2]))]
    BY <1>2
  <2>2. to \in Core!Sendings(b, CallsLeft[b]) /\ DOMAIN to = DOMAIN commands_
    <3>1. /\ to \in [DOMAIN commands_ -> SUBSET {l[2] : l \in Out(b)}]
          /\ \A i \in DOMAIN commands_ : to[i] \in Targets[b, commands_[i]]
      BY <2>1 DEF Sendings
    <3>2. {l[2] : l \in Out(b)} \subseteq {l[2] : l \in Link}
      BY DEF Out
    <3>3. to \in [DOMAIN commands_ -> SUBSET {l[2] : l \in Link}]
      BY <3>1, <3>2
    <3> QED
      BY <1>8, <3>1, <3>3 DEF Core!Sendings
  <2>3. \A c : Core!Mail(exchange_round_, CallsLeft[b], to, c) = Mail(to, c)
    <3>1. \A c : Core!Mail(exchange_round_, commands_, to, c) = Mail(to, c)
      <4> SUFFICES ASSUME NEW c PROVE Core!Mail(exchange_round_, commands_, to, c) = Mail(to, c)
        OBVIOUS
      <4>1. \A D : Core!InOrder(D) = InOrder(D)
        BY DEF InOrder, Core!InOrder, Cardinality, Core!Cardinality
      <4>2. PICK calls : calls = InOrder({i \in DOMAIN commands_ : c \in to[i]})
        OBVIOUS
      <4>3. Mail(to, c) = [j \in DOMAIN calls |-> <<exchange_round_, commands_[calls[j]]>>]
        BY <2>2, <4>2 DEF Mail
      <4>4. Core!Mail(exchange_round_, commands_, to, c) = [j \in DOMAIN calls |-> <<exchange_round_, commands_[calls[j]]>>]
        BY <4>1, <4>2 DEF Core!Mail
      <4> QED
        BY <4>3, <4>4
    <3> QED
      BY <1>8, <3>1, Zenon
  <2>4. ASSUME NEW l \in FromHere, l[1] = b
        PROVE  Kept(<<"out", l>>)' = Kept(<<"out", l>>) \o Mail(to, l[2])
    <3>1. outgoing_[l].external_ = None
      BY <1>7, <2>4
    <3>2. outgoing_'[l].external_ = None /\ outgoing_'[l].buffer_ = outgoing_[l].buffer_ \o Mail(to, l[2])
      <4>1. CASE outgoing_[l] = NoQueue /\ Mail(to, l[2]) = <<>>
        <5>1. outgoing_'[l] = NoQueue
          BY <2>1, <4>1
        <5>2. NoQueue.buffer_ = <<>> /\ NoQueue.external_ = None /\ <<>> \o <<>> = <<>>
          BY DEF NoQueue
        <5> QED
          BY <4>1, <5>1, <5>2
      <4>2. CASE ~(outgoing_[l] = NoQueue /\ Mail(to, l[2]) = <<>>)
        <5>1. outgoing_'[l] = QueueRecord(outgoing_[l].buffer_ \o Mail(to, l[2]))
          BY <2>1, <2>4, <4>2 DEF Moved
        <5>2. \A s : QueueRecord(s).external_ = None /\ QueueRecord(s).buffer_ = s
          BY DEF QueueRecord
        <5> QED
          BY <5>1, <5>2
      <4> QED
        BY <4>1, <4>2
    <3>3. Kept(<<"out", l>>) = outgoing_[l].buffer_
      BY <3>1 DEF Kept, FileOf, Mem, RecordAt
    <3>4. Kept(<<"out", l>>)' = outgoing_'[l].buffer_
      BY <3>2 DEF Kept, FileOf, Mem, RecordAt
    <3> QED
      BY <3>2, <3>3, <3>4
  <2>5. \A l \in Link : ToExchange'[l] = IF l[1] = b THEN ToExchange[l] \o Mail(to, l[2]) ELSE ToExchange[l]
    <3>1. \A l \in FromHere : ToExchange'[l] = IF l[1] = b THEN ToExchange[l] \o Mail(to, l[2]) ELSE ToExchange[l]
      BY <1>10, <1>16, <2>4
    <3>2. \A l \in ToHere \ Inside : l[1] # b
      BY LinkEnds
    <3> QED
      BY <1>16, <3>1, <3>2, LinkEnds
  <2>6. ToExchange' = [l \in Link |-> ToExchange'[l]]
    BY <1>5 DEF MappingAt
  <2>7. ToExchange' = [l \in Link |-> IF l[1] = b THEN ToExchange[l] \o Mail(to, l[2]) ELSE ToExchange[l]]
    BY <2>5, <2>6
  <2>8. ToExchange' = [l \in Link |-> IF l[1] = b
                                      THEN ToExchange[l] \o Core!Mail(exchange_round_, CallsLeft[b], to, l[2])
                                      ELSE ToExchange[l]]
    BY <2>3, <2>7
  <2> QED
    BY <2>2, <2>8
\* The content.
<1>18. AllSkip(b) <=> Core!ToSet(CallsLeft[b]) \subseteq Skips /\ ~Core!HasIncoming(b)
  <2>1. Core!ToSet(CallsLeft[b]) = ToSet(commands_)
    BY <1>8 DEF Core!ToSet, ToSet
  <2>2. \A l \in In(b) : l \in ToHere /\ l[2] = b /\ SizeOf(incoming_[k][l]) = Len(ToRead[l])
    <3>1. \A l \in In(b) : l \in ToHere /\ l[2] = b
      BY DEF In, ToHere
    <3>2. \A l \in In(b) : ToRead[l] = incoming_[k][l].buffer_
      BY <1>11, <1>13, <3>1
    <3> QED
      BY <1>7, <3>1, <3>2 DEF SizeOf, external
  <2>3. HasIncoming(b) <=> Core!HasIncoming(b)
    BY <1>1, <2>2 DEF HasIncoming, Core!HasIncoming, Core!In, In
  <2> QED
    BY <2>1, <2>3 DEF AllSkip
<1>19. /\ \A c \in Block : c # b \/ AllSkip(b) => Content'[c] = Content[c]
       /\ ~AllSkip(b) => Content[b] = elements_[b] /\ Content'[b] = elements_'[b]
  <2>1. \A c \in Block : c # b \/ AllSkip(b) => elements_'[c] = elements_[c]
    BY <1>0, RunLoaded
  <2>2. \A c \in Block : InMemory(c)' <=> InMemory(c)
    BY RunLoaded
  <2>3. \A c \in Block : Content[c] = IF InMemory(c) THEN elements_[c]
                                      ELSE IF Added(c) THEN files[external_[c]] ELSE NewBlock(c)
    BY DEF Content
  <2>4. \A c \in Block : Content'[c] = IF InMemory(c)' THEN elements_'[c]
                                       ELSE IF Added(c)' THEN files'[external_'[c]] ELSE NewBlock(c)
    BY DEF Content, NewBlock
  <2>5. \A c \in Block : Added(c)' <=> Added(c)
    BY <1>2, <2>2 DEF Added
  <2>6. ~AllSkip(b) => InMemory(b)
    BY <1>3 DEF idle, loaded
  <2> QED
    BY <1>2, <2>1, <2>2, <2>3, <2>4, <2>5, <2>6
<1>20. Content' = IF Core!ToSet(CallsLeft[b]) \subseteq Skips /\ ~Core!HasIncoming(b) THEN Content
                  ELSE [Content EXCEPT ![b] =
                          [runs |-> @.runs + Len(CallsLeft[b]),
                           read |-> [l \in Core!In(b) |-> Content[b].read[l] + Len(ToRead[l])]]]
  <2>1. CASE AllSkip(b)
    <3>1. Content' = Content
      BY <1>19, <2>1 DEF Content
    <3> QED
      BY <1>18, <2>1, <3>1
  <2>2. CASE ~AllSkip(b)
    <3>1. elements_'[b] = [runs |-> elements_[b].runs + Len(commands_),
                           read |-> [l \in In(b) |-> elements_[b].read[l] + Len(incoming_[k][l].buffer_)]]
      BY <1>2, <1>4, <2>2 DEF Shape, Moved
    <3>2. \A l \in In(b) : ToRead[l] = incoming_[k][l].buffer_
      BY <1>11, <1>13 DEF In, ToHere
    <3>3. [l \in In(b) |-> elements_[b].read[l] + Len(incoming_[k][l].buffer_)]
            = [l \in Core!In(b) |-> Content[b].read[l] + Len(ToRead[l])]
      BY <1>19, <2>2, <3>2 DEF In, Core!In
    <3>4. Content'[b] = [runs |-> Content[b].runs + Len(CallsLeft[b]),
                         read |-> [l \in Core!In(b) |-> Content[b].read[l] + Len(ToRead[l])]]
      BY <1>8, <1>19, <2>2, <3>1, <3>3, Zenon
    <3>5. Content' = [Content EXCEPT ![b] =
                        [runs |-> @.runs + Len(CallsLeft[b]),
                         read |-> [l \in Core!In(b) |-> Content[b].read[l] + Len(ToRead[l])]]]
      <4> DEFINE new == [runs |-> Content[b].runs + Len(CallsLeft[b]),
                         read |-> [l \in Core!In(b) |-> Content[b].read[l] + Len(ToRead[l])]]
      <4>1. Content'[b] = new /\ \A c \in Block : c # b => Content'[c] = Content[c]
        BY <1>19, <3>4
      <4> HIDE DEF new
      <4>2. DOMAIN Content = Block /\ Content' = [c \in Block |-> Content'[c]] /\ Content = [c \in Block |-> Content[c]]
        BY DEF Content
      <4>3. Content' = [Content EXCEPT ![b] = new]
        BY <4>1, <4>2
      <4> QED
        BY <4>3 DEF new
    <3> QED
      BY <1>18, <2>2, <3>5
  <2> QED
    BY <2>1, <2>2
<1>21. UNCHANGED <<exchange_round_, called, phase = "flush">>
  BY <1>3
<1>22. CallsLeft[b] # <<>>
  BY <1>8
<1>23. Core!Run(b)
  BY <1>9, <1>15, <1>17, <1>20, <1>21, <1>22, Zenon DEF Core!Run
<1> QED
  BY <1>0, <1>23


LEMMA CoreInit == Init => Core!Init
<1> SUFFICES ASSUME Init PROVE Core!Init
  OBVIOUS
<1>1. /\ phase # "flush" /\ called = 0 /\ commands_ = <<>> /\ exchange_round_ = 0 /\ gid_order = {}
      /\ elements_ = [b \in Block |-> Absent] /\ external_ = [b \in Block |-> None]
      /\ outgoing_ = [l \in FromHere |-> NoQueue]
      /\ incoming_ = [k \in 0..Rounds |-> [l \in ToHere |-> NoQueue]]
      /\ wire = [l \in FromHere \ Inside |-> <<>>]
  BY DEF Init
<1>2. CallsLeft = [b \in Block |-> <<>>]
  BY <1>1 DEF CallsLeft
<1>3. Content = [b \in Block |-> [runs |-> 0, read |-> [l \in Core!In(b) |-> 0]]]
  <2>1. \A b \in Block : ~InMemory(b) /\ ~Added(b)
    BY <1>1 DEF InMemory, Added
  <2> QED
    BY <2>1 DEF Content, NewBlock, In, Core!In
<1>4. Held(NoQueue) = <<>>
  BY DEF Held, NoQueue, external
<1>5. \A l \in ToHere, k \in 0..Rounds : Held(incoming_[k][l]) = <<>>
  BY <1>1, <1>4
<1>6. ToRead = [l \in Link |-> <<>>]
  <2>1. \A l \in Link : ~ToBeSent(l)
    BY <1>1 DEF ToBeSent
  <2>2. ASSUME NEW l \in Link, l[2] \in Away PROVE wire[l] = <<>>
    BY <1>1, <2>2, OutOfCoreAssumption DEF FromHere, Inside
  <2>3. ASSUME NEW l \in Link, l[2] \notin Away PROVE Held(incoming_[exchange_round_][l]) = <<>>
    <3>1. l \in ToHere
      BY <2>3, OutOfCoreAssumption DEF ToHere
    <3>2. PICK k \in 0..Rounds : k = exchange_round_
      BY <1>1, OutOfCoreAssumption
    <3>3. Held(incoming_[k][l]) = <<>>
      BY <1>5, <3>1
    <3> QED
      BY <3>2, <3>3, Zenon
  <2> QED
    BY <2>1, <2>2, <2>3 DEF ToRead
<1>7. ToExchange = [l \in Link |-> <<>>]
  <2>1. ASSUME NEW l \in Link, l[1] \in Away, exchange_round_ # Rounds
        PROVE  Held(incoming_[exchange_round_ + 1][l]) = <<>>
    <3>1. l \in ToHere
      BY <2>1, OutOfCoreAssumption DEF ToHere
    <3>2. PICK k \in 0..Rounds : k = exchange_round_ + 1
      BY <1>1, <2>1, OutOfCoreAssumption
    <3>3. Held(incoming_[k][l]) = <<>>
      BY <1>5, <3>1
    <3> QED
      BY <3>2, <3>3, Zenon
  <2>2. ASSUME NEW l \in Link, l[1] \notin Away PROVE Held(outgoing_[l]) = <<>>
    BY <1>1, <1>4, <2>2, OutOfCoreAssumption DEF FromHere
  <2> QED
    BY <2>1, <2>2 DEF ToExchange
<1>8. (phase = "flush") = FALSE
  BY <1>1
<1> QED
  BY <1>1, <1>2, <1>3, <1>6, <1>7, <1>8 DEF Core!Init

\* Every step is one of InCore or leaves what InCore sees as it is.
LEMMA CoreStep ==
  ASSUME BaseInv, BaseInv', FilesInv, FewLarge, [Next]_vars
  PROVE  [Core!Next]_(Core!vars)
<1>1. CASE UnloadAll \/ (\E b \in Block : LoadOutgoing(b)) \/ Finished \/ UNCHANGED vars
  BY <1>1, CoreProgram DEF Finished
<1>2. CASE Foreach
  BY <1>2, CoreForeach DEF Core!Next
<1>3. CASE (\E i \in BOOLEAN : SetImmediate(i)) \/ ExecutePending
  BY <1>3, CoreExecute
<1>4. CASE \E t \in Worker : Thread(t)
  <2> SUFFICES ASSUME NEW t \in Worker, Thread(t) PROVE [Core!Next]_(Core!vars)
    BY <1>4
  <2>1. CASE Run(t)
    <3>1. cur[t] \in Block
      BY <2>1, AtThread DEF Run
    <3> QED
      BY <2>1, <3>1, CoreRun DEF Core!Next
  <2> QED
    BY <2>1, CoreMoves, CoreTake DEF Thread
<1>5. CASE Finish
  BY <1>5, CoreFinish
<1>6. CASE BeginExchange
  BY <1>6, CoreBeginExchange DEF Core!Next
<1>7. CASE \E b \in Block : Add(b) \/ SendBlock(b)
  BY <1>7, CoreAdd, CoreSend
<1>8. CASE \E l \in ToHere, k \in 0..Rounds : Arrive(l, k)
  <2> SUFFICES ASSUME NEW l \in ToHere, NEW k \in 0..Rounds, Arrive(l, k) PROVE [Core!Next]_(Core!vars)
    BY <1>8
  <2>1. l \in Link
    BY DEF ToHere
  <2> QED
    BY <2>1, CoreArrive DEF Core!Next
<1>9. CASE EndExchange
  BY <1>9, CoreEndExchange DEF Core!Next
<1> QED
  BY <1>1, <1>2, <1>3, <1>4, <1>5, <1>6, <1>7, <1>8, <1>9 DEF Next

\* KeepsInCore, of every number of blocks, threads, rounds and calls: the blocks
\* and their queues are moved out of memory and back with no change to what the
\* callbacks see and to what is exchanged (Master::foreach, execute, ProcessBlock,
\* load, unload, exchange, flush).
THEOREM ImplementsInCore ==
  ASSUME FewLarge
  PROVE  Spec => KeepsInCore
<1>1. Init => Core!Init
  BY CoreInit
<1>2. BaseInv /\ BaseInv' /\ FilesInv /\ [Next]_vars => [Core!Next]_(Core!vars)
  BY CoreStep
<1>3. Spec => []BaseInv
  BY AlwaysBase
<1>4. Spec => []FilesInv
  BY AlwaysFiles
<1> QED
  BY <1>1, <1>2, <1>3, <1>4, PTL DEF Spec, KeepsInCore, Core!Spec
=============================================================================
