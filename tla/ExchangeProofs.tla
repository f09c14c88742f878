--------------------------- MODULE ExchangeProofs ---------------------------
(***************************************************************************)
(* Proofs about module Exchange, for any ranks, blocks, links, rounds and  *)
(* numbers of parts.                                                       *)
(***************************************************************************)
EXTENDS Exchange, SequenceTheorems, FunctionTheorems, FiniteSetTheorems, TLAPS

(***************************************************************************)
(* Queues and their messages.                                              *)
(***************************************************************************)
LEMMA PartsType ==
  ASSUME NEW x \in Queue
  PROVE  /\ x.from \in Block /\ x.to \in Block /\ x.round \in 1..Rounds
         /\ Owner[x.from] \in Proc /\ Owner[x.to] \in Proc
         /\ NParts(x) \in Nat
<1>1. x.from \in Block /\ x.to \in Block /\ x.round \in 1..Rounds
  BY DEF Queue
<1>2. Parts[x.from, x.to] \in Nat
  BY <1>1, ExchangeAssumption
<1> QED
  BY <1>1, <1>2, ExchangeAssumption DEF NParts

LEMMA MessagesType ==
  ASSUME NEW x \in Queue
  PROVE  /\ Messages(x) \in Seq(Message)
         /\ Len(Messages(x)) = 1 + NParts(x)
         /\ \A i \in 1..(1 + NParts(x)) : Messages(x)[i] = Part(x, i - 1)
<1>1. NParts(x) \in Nat
  BY PartsType
<1>2. \A i \in 1..(1 + NParts(x)) : Part(x, i - 1) \in Message
  BY <1>1 DEF Part, Message
<1>3. Messages(x) \in [1..(1 + NParts(x)) -> Message]
  BY <1>2 DEF Messages
<1>4. 1 + NParts(x) \in Nat
  BY <1>1
<1>5. Messages(x) \in Seq(Message)
  BY <1>3, <1>4, SeqDef
<1>6. DOMAIN Messages(x) = 1..(1 + NParts(x))
  BY DEF Messages
<1>7. Len(Messages(x)) = 1 + NParts(x)
  BY <1>4, <1>5, <1>6, LenProperties
<1> QED
  BY <1>5, <1>7 DEF Messages

\* The messages of a queue tell which queue it is.
LEMMA MessagesInjective ==
  ASSUME NEW x \in Queue, NEW y \in Queue, Messages(x) = Messages(y)
  PROVE  x = y
<1>1. Messages(x)[1] = Part(x, 0) /\ Messages(y)[1] = Part(y, 0)
  BY PartsType, MessagesType
<1> QED
  BY <1>1 DEF Part

\* What a queue in the making is when its last part has come.
LEMMA WholeQueue ==
  ASSUME NEW x \in Queue, NEW s \in Seq(Message),
         Len(s) = NParts(x) + 1, \A i \in 1..Len(s) : s[i] = Part(x, i - 1)
  PROVE  s = Messages(x)
<1>1. Len(Messages(x)) = Len(s) /\ NParts(x) \in Nat
  BY MessagesType, PartsType
<1>2. \A i \in 1..Len(s) : s[i] = Messages(x)[i]
  BY <1>1, MessagesType
<1> QED
  BY <1>1, <1>2, MessagesType, SeqEqual

-----------------------------------------------------------------------------
(***************************************************************************)
(* A stream of messages from a rank to a rank, as it grows and shrinks.    *)
(***************************************************************************)
LEMMA ToSetOf ==
  ASSUME NEW n \in Seq(Message)
  PROVE  \A m : m \in ToSet(n) <=> \E i \in 1..Len(n) : m = n[i]
<1>1. DOMAIN n = 1..Len(n)
  BY LenProperties
<1> QED
  BY <1>1 DEF ToSet

LEMMA ContinuesAfterSend ==
  ASSUME NEW n \in Seq(Message), NEW ir, Continues(n, ir),
         NEW x \in Queue, \A m \in ToSet(n) : m.queue # x
  PROVE  Continues(n \o Messages(x), ir)
<1> DEFINE s == Messages(x)
           t == n \o s
<1>1. NParts(x) \in Nat /\ Len(n) \in Nat
  BY PartsType, LenProperties
<1>2. /\ s \in Seq(Message) /\ Len(s) = 1 + NParts(x)
      /\ \A i \in 1..(1 + NParts(x)) : s[i].queue = x /\ s[i].part = i - 1
  <2>1. /\ s \in Seq(Message) /\ Len(s) = 1 + NParts(x)
        /\ \A i \in 1..(1 + NParts(x)) : s[i] = Part(x, i - 1)
    BY MessagesType
  <2> HIDE DEF s
  <2> QED
    BY <2>1 DEF Part
<1>3. /\ t \in Seq(Message) /\ Len(t) = Len(n) + Len(s)
      /\ \A i \in 1..Len(n) + Len(s) : t[i] = IF i <= Len(n) THEN n[i] ELSE s[i - Len(n)]
  BY <1>2, ConcatProperties
<1> HIDE DEF s, t
<1>4. \A i \in 1..Len(n) : t[i] = n[i] /\ n[i] \in Message /\ n[i].queue # x
  BY <1>1, <1>2, <1>3, ToSetOf, ElementOfSeq
<1>5. \A i \in (Len(n) + 1)..(Len(n) + 1 + NParts(x)) :
        t[i] \in Message /\ t[i].queue = x /\ t[i].part = i - Len(n) - 1
  <2> SUFFICES ASSUME NEW i \in (Len(n) + 1)..(Len(n) + 1 + NParts(x))
               PROVE  t[i] \in Message /\ t[i].queue = x /\ t[i].part = i - Len(n) - 1
    OBVIOUS
  <2>1. i \in 1..(Len(n) + Len(s)) /\ ~(i <= Len(n)) /\ i - Len(n) \in 1..(1 + NParts(x))
    BY <1>1, <1>2
  <2>2. t[i] = s[i - Len(n)]
    BY <1>3, <2>1
  <2>3. t[i] \in Message
    BY <1>3, <2>1, ElementOfSeq
  <2> QED
    BY <1>1, <1>2, <2>1, <2>2, <2>3
<1>6. \A i \in 1..Len(t) : t[i].part <= NParts(t[i].queue)
  <2> SUFFICES ASSUME NEW i \in 1..Len(t) PROVE t[i].part <= NParts(t[i].queue)
    OBVIOUS
  <2>1. CASE i \in 1..Len(n)
    BY <1>4, <2>1 DEF Continues
  <2>2. CASE i \in (Len(n) + 1)..(Len(n) + 1 + NParts(x))
    BY <1>1, <1>5, <2>2
  <2> QED
    BY <1>1, <1>2, <1>3, <2>1, <2>2
<1>7. \A i \in 1..(Len(t) - 1) :
        t[i + 1] = IF t[i].part < NParts(t[i].queue) THEN Part(t[i].queue, t[i].part + 1)
                                                     ELSE Part(t[i + 1].queue, 0)
  <2> SUFFICES ASSUME NEW i \in 1..(Len(t) - 1)
               PROVE  t[i + 1] = IF t[i].part < NParts(t[i].queue)
                                 THEN Part(t[i].queue, t[i].part + 1) ELSE Part(t[i + 1].queue, 0)
    OBVIOUS
  <2>1. CASE i \in 1..(Len(n) - 1)
    <3>1. i + 1 \in 1..Len(n) /\ i \in 1..Len(n)
      BY <1>1, <2>1
    <3>2. t[i] = n[i] /\ t[i + 1] = n[i + 1]
      BY <1>4, <3>1
    <3> QED
      BY <2>1, <3>2 DEF Continues
  <2>2. CASE i = Len(n)
    <3>1. n # <<>> /\ i \in 1..Len(n) /\ i + 1 \in (Len(n) + 1)..(Len(n) + 1 + NParts(x))
      BY <1>1, <2>2, EmptySeq
    <3>2. t[i].part = NParts(t[i].queue)
      BY <1>4, <2>2, <3>1 DEF Continues
    <3>3. t[i + 1] \in Message /\ t[i + 1].queue = x /\ t[i + 1].part = 0
      BY <1>1, <1>5, <2>2, <3>1
    <3>4. ~(t[i].part < NParts(t[i].queue))
      BY <3>1, <3>2, <1>4 DEF Message
    <3> QED
      BY <3>3, <3>4 DEF Part, Message
  <2>3. CASE i \in (Len(n) + 1)..(Len(n) + NParts(x))
    <3>1. /\ i \in (Len(n) + 1)..(Len(n) + 1 + NParts(x))
          /\ i + 1 \in (Len(n) + 1)..(Len(n) + 1 + NParts(x))
      BY <1>1, <2>3
    <3>2. /\ t[i + 1] \in Message /\ t[i + 1].queue = x /\ t[i + 1].part = i - Len(n)
          /\ t[i].queue = x /\ t[i].part = i - Len(n) - 1
      BY <1>1, <1>5, <3>1
    <3>3. t[i].part < NParts(t[i].queue) /\ t[i].part + 1 = t[i + 1].part
      BY <1>1, <2>3, <3>2
    <3> QED
      BY <3>2, <3>3 DEF Part, Message
  <2> QED
    BY <1>1, <1>2, <1>3, <2>1, <2>2, <2>3
<1>8. \A i, j \in 1..Len(t) : i < j /\ t[i].queue = t[j].queue => t[i].part < t[j].part
  <2> SUFFICES ASSUME NEW i \in 1..Len(t), NEW j \in 1..Len(t), i < j, t[i].queue = t[j].queue
               PROVE  t[i].part < t[j].part
    OBVIOUS
  <2>1. \A k \in 1..Len(t) : k \in 1..Len(n) \/ k \in (Len(n) + 1)..(Len(n) + 1 + NParts(x))
    BY <1>1, <1>2, <1>3
  <2>2. CASE j \in 1..Len(n)
    <3>1. i \in 1..Len(n)
      BY <1>1, <2>2
    <3> QED
      BY <1>4, <2>2, <3>1 DEF Continues
  <2>3. CASE j \in (Len(n) + 1)..(Len(n) + 1 + NParts(x))
    <3>1. i \notin 1..Len(n)
      BY <1>4, <1>5, <2>3
    <3>2. i \in (Len(n) + 1)..(Len(n) + 1 + NParts(x))
      BY <2>1, <3>1
    <3> QED
      BY <1>1, <1>5, <2>3, <3>2
  <2> QED
    BY <2>1, <2>2, <2>3
<1>9. t # <<>> /\ t[Len(t)].part = NParts(t[Len(t)].queue)
  <2>1. Len(s) = 1 + NParts(x) /\ Len(t) = Len(n) + Len(s)
    BY <1>2, <1>3
  <2>2. Len(t) = Len(n) + 1 + NParts(x) /\ Len(t) \in (Len(n) + 1)..(Len(n) + 1 + NParts(x))
    BY <1>1, <2>1
  <2> QED
    BY <1>1, <1>5, <2>2, EmptySeq
<1>10. CASE n = <<>>
  <2>1. Len(n) = 0 /\ 1 \in (Len(n) + 1)..(Len(n) + 1 + NParts(x))
    BY <1>1, <1>10
  <2>2. t[1].part = 0 /\ ir = NoRecv
    BY <1>5, <1>10, <2>1 DEF Continues
  <2> QED
    BY <1>6, <1>7, <1>8, <1>9, <2>2 DEF Continues, t, s
<1>11. CASE n # <<>>
  <2>1. 1 \in 1..Len(n)
    BY <1>1, <1>11, EmptySeq
  <2>2. t[1] = n[1]
    BY <1>4, <2>1
  <2> QED
    BY <1>6, <1>7, <1>8, <1>9, <1>11, <2>2 DEF Continues, t, s
<1> QED
  BY <1>10, <1>11

LEMMA QueuesOf ==
  ASSUME NEW n \in Seq(Message)
  PROVE  \A x : x \in Queues(n) <=> \E i \in 1..Len(n) : x = n[i].queue
  BY ToSetOf DEF Queues

\* ir has the first j messages of x and knows how many follow.
Holds(ir, x, j) ==
  /\ ir.parts \in Seq(Message) /\ Len(ir.parts) = j
  /\ \A i \in 1..j : ir.parts[i] = Part(x, i - 1)
  /\ ir = [parts |-> ir.parts, left |-> NParts(x) + 1 - j]

LEMMA AssembleHead ==
  ASSUME NEW x \in Queue
  PROVE  Holds(Assemble(NoRecv, Part(x, 0)), x, 1)
<1> DEFINE one == <<Part(x, 0)>>
           new == Assemble(NoRecv, Part(x, 0))
<1>1. NParts(x) \in Nat /\ Part(x, 0) \in Message /\ Part(x, 0).queue = x
  BY PartsType DEF Part, Message
<1>2. one \in Seq(Message) /\ Len(one) = 1 /\ one[1] = Part(x, 0)
  BY <1>1
<1>3. new = [parts |-> one, left |-> NParts(x)]
  BY <1>1 DEF Assemble
<1> HIDE DEF one, new
<1>4. new.parts = one /\ NParts(x) = NParts(x) + 1 - 1
  BY <1>1, <1>3
<1>5. \A i \in 1..1 : one[i] = Part(x, i - 1)
  <2>1. \A i \in 1..1 : i = 1 /\ i - 1 = 0
    OBVIOUS
  <2> QED
    BY <1>2, <2>1
<1>6. Holds(new, x, 1)
  BY <1>2, <1>3, <1>4, <1>5 DEF Holds
<1> QED
  BY <1>6 DEF new

LEMMA AssembleNext ==
  ASSUME NEW x \in Queue, NEW j \in 1..NParts(x), NEW ir, Holds(ir, x, j)
  PROVE  Holds(Assemble(ir, Part(x, j)), x, j + 1)
<1> DEFINE f == ir.parts
           g == Append(f, Part(x, j))
           new == Assemble(ir, Part(x, j))
<1>1. NParts(x) \in Nat /\ j \in Nat /\ j # 0
  BY PartsType
<1>2. Part(x, j) \in Message
  BY <1>1 DEF Part, Message
<1>3. /\ f \in Seq(Message) /\ Len(f) = j
      /\ \A i \in 1..j : f[i] = Part(x, i - 1)
  BY DEF Holds
<1>4. ir # NoRecv
  <2>1. Len(ir.parts) # 0
    BY <1>1, <1>3
  <2> QED
    BY <2>1 DEF NoRecv
<1>5. new = [parts |-> g, left |-> NParts(x) + 1 - j - 1]
  <2>1. Assemble(ir, Part(x, j)) = [parts |-> Append(ir.parts, Part(x, j)), left |-> ir.left - 1]
    BY <1>4 DEF Assemble
  <2>2. ir.left = NParts(x) + 1 - j
    BY DEF Holds
  <2>3. ir.left - 1 = NParts(x) + 1 - j - 1
    <3> DEFINE l == ir.left
               k == NParts(x)
    <3> HIDE DEF l, k
    <3>1. k \in Nat /\ j \in Nat /\ l = k + 1 - j
      BY <1>1, <2>2 DEF l, k
    <3>2. l - 1 = k + 1 - j - 1
      BY <3>1
    <3> QED
      BY <3>2 DEF l, k
  <2> QED
    BY <2>1, <2>3, Zenon
<1> HIDE DEF new
<1>6. new.parts = g /\ NParts(x) + 1 - j - 1 = NParts(x) + 1 - (j + 1)
  BY <1>1, <1>5
<1>7. /\ g \in Seq(Message) /\ Len(g) = j + 1
      /\ \A i \in 1..j : g[i] = f[i]
      /\ g[j + 1] = Part(x, j)
  BY <1>2, <1>3, AppendProperties
<1> HIDE DEF f, g
<1>8. \A i \in 1..(j + 1) : g[i] = Part(x, i - 1)
  <2> SUFFICES ASSUME NEW i \in 1..(j + 1) PROVE g[i] = Part(x, i - 1)
    OBVIOUS
  <2>1. CASE i = j + 1
    BY <1>1, <1>7, <2>1
  <2>2. CASE i # j + 1
    BY <1>1, <1>3, <1>7, <2>2
  <2> QED
    BY <2>1, <2>2
<1>9. Holds(new, x, j + 1)
  BY <1>5, <1>6, <1>7, <1>8 DEF Holds
<1> QED
  BY <1>9 DEF new

\* What InFlightRecv::recv makes of the first message of a stream.
LEMMA AssembleFirst ==
  ASSUME NEW n \in Seq(Message), n # <<>>, NEW ir, Continues(n, ir)
  PROVE  /\ n[1].queue \in Queue /\ n[1].part \in 0..NParts(n[1].queue)
         /\ Holds(Assemble(ir, Head(n)), n[1].queue, n[1].part + 1)
<1> DEFINE x == n[1].queue
           j == n[1].part
<1>1. Len(n) \in Nat /\ 1 \in 1..Len(n) /\ n[1] \in Message /\ Head(n) = n[1]
  BY EmptySeq, LenProperties, ElementOfSeq
<1>2. x \in Queue /\ j \in Nat /\ n[1] = Part(x, j)
  BY <1>1 DEF Message, Part
<1>3. NParts(x) \in Nat
  BY <1>2, PartsType
<1>4. j \in 0..NParts(x)
  BY <1>1, <1>2, <1>3 DEF Continues
<1>5. CASE j = 0
  <2>1. ir = NoRecv
    BY <1>5 DEF Continues
  <2>2. Head(n) = Part(x, 0) /\ j + 1 = 1
    BY <1>1, <1>2, <1>5
  <2> QED
    BY <1>2, <1>4, <2>1, <2>2, AssembleHead
<1>6. CASE j # 0
  <2> DEFINE f == [i \in 1..j |-> Part(x, i - 1)]
  <2>1. f \in Seq(Message) /\ Len(f) = j /\ \A i \in 1..j : f[i] = Part(x, i - 1)
    <3>1. \A i \in 1..j : i - 1 \in Nat
      BY <1>2
    <3>2. f \in [1..j -> Message]
      BY <1>2, <3>1 DEF Part, Message
    <3>3. DOMAIN f = 1..j
      OBVIOUS
    <3>4. \A i \in 1..j : f[i] = Part(x, i - 1)
      OBVIOUS
    <3> HIDE DEF f, j
    <3>5. f \in Seq(Message)
      BY <1>2, <3>2, SeqDef
    <3>6. Len(f) = j
      BY <1>2, <3>3, <3>5, LenProperties
    <3> QED
      BY <3>4, <3>5, <3>6
  <2>2. ir = [parts |-> f, left |-> NParts(x) + 1 - j]
    BY <1>6 DEF Continues
  <2> HIDE DEF f
  <2>3. ir.parts = f
    BY <2>2
  <2>4. Holds(ir, x, j)
    BY <2>1, <2>2, <2>3 DEF Holds
  <2>5. j \in 1..NParts(x)
    BY <1>3, <1>4, <1>6
  <2> HIDE DEF x, j
  <2>6. Holds(Assemble(ir, Part(x, j)), x, j + 1)
    BY <1>2, <2>4, <2>5, AssembleNext
  <2> QED
    BY <1>1, <1>2, <1>4, <2>6 DEF x, j
<1> QED
  BY <1>5, <1>6

LEMMA TailOf ==
  ASSUME NEW n \in Seq(Message), n # <<>>
  PROVE  /\ Tail(n) \in Seq(Message) /\ Len(n) \in Nat /\ Len(Tail(n)) + 1 = Len(n)
         /\ Len(Tail(n)) \in Nat
         /\ \A i \in 1..Len(Tail(n)) : i + 1 \in 2..Len(n) /\ Tail(n)[i] = n[i + 1]
<1>1. /\ Tail(n) \in Seq(Message) /\ Len(Tail(n)) = Len(n) - 1
      /\ \A i \in 1..Len(Tail(n)) : Tail(n)[i] = n[i + 1]
  BY HeadTailProperties
<1>2. Len(n) \in Nat /\ Len(Tail(n)) \in Nat
  BY <1>1, LenProperties
<1> QED
  BY <1>1, <1>2

\* Everything but the first message stays as it was.
LEMMA TailContinues ==
  ASSUME NEW n \in Seq(Message), n # <<>>, NEW ir, Continues(n, ir), NEW new,
         new = IF Tail(n) = <<>> \/ Tail(n)[1].part = 0 THEN NoRecv
               ELSE [parts |-> [i \in 1..Tail(n)[1].part |-> Part(Tail(n)[1].queue, i - 1)],
                     left  |-> NParts(Tail(n)[1].queue) + 1 - Tail(n)[1].part]
  PROVE  Continues(Tail(n), new)
<1> DEFINE t == Tail(n)
<1>1. /\ t \in Seq(Message) /\ Len(n) \in Nat /\ Len(t) \in Nat /\ Len(t) + 1 = Len(n)
      /\ \A i \in 1..Len(t) : i + 1 \in 2..Len(n) /\ t[i] = n[i + 1]
  BY TailOf
<1> HIDE DEF t
<1>2. \A i \in 1..Len(t) : t[i].part <= NParts(t[i].queue)
  <2> SUFFICES ASSUME NEW i \in 1..Len(t) PROVE t[i].part <= NParts(t[i].queue)
    OBVIOUS
  <2>1. i + 1 \in 1..Len(n) /\ t[i] = n[i + 1]
    BY <1>1
  <2> QED
    BY <2>1 DEF Continues
<1>3. \A i \in 1..(Len(t) - 1) :
        t[i + 1] = IF t[i].part < NParts(t[i].queue) THEN Part(t[i].queue, t[i].part + 1)
                                                     ELSE Part(t[i + 1].queue, 0)
  <2> SUFFICES ASSUME NEW i \in 1..(Len(t) - 1)
               PROVE  t[i + 1] = IF t[i].part < NParts(t[i].queue)
                                 THEN Part(t[i].queue, t[i].part + 1) ELSE Part(t[i + 1].queue, 0)
    OBVIOUS
  <2>1. i + 1 \in 1..(Len(n) - 1) /\ i \in 1..Len(t) /\ i + 1 \in 1..Len(t)
    BY <1>1
  <2>2. t[i] = n[i + 1] /\ t[i + 1] = n[(i + 1) + 1]
    BY <1>1, <2>1
  <2> QED
    BY <2>1, <2>2 DEF Continues
<1>4. \A i, j \in 1..Len(t) : i < j /\ t[i].queue = t[j].queue => t[i].part < t[j].part
  <2> SUFFICES ASSUME NEW i \in 1..Len(t), NEW j \in 1..Len(t), i < j, t[i].queue = t[j].queue
               PROVE  t[i].part < t[j].part
    OBVIOUS
  <2>1. i + 1 \in 1..Len(n) /\ j + 1 \in 1..Len(n) /\ i + 1 < j + 1
    BY <1>1
  <2>2. t[i] = n[i + 1] /\ t[j] = n[j + 1]
    BY <1>1
  <2> QED
    BY <2>1, <2>2 DEF Continues
<1>5. t # <<>> => t[Len(t)].part = NParts(t[Len(t)].queue)
  <2> SUFFICES ASSUME t # <<>> PROVE t[Len(t)].part = NParts(t[Len(t)].queue)
    OBVIOUS
  <2>1. Len(t) \in 1..Len(t)
    BY <1>1, EmptySeq
  <2>2. t[Len(t)] = n[Len(n)]
    BY <1>1, <2>1
  <2> QED
    BY <2>2 DEF Continues
<1> QED
  BY <1>2, <1>3, <1>4, <1>5 DEF Continues, t

(***************************************************************************)
(* Receiving the first message of a stream that is in order: either the    *)
(* queue goes on, or what has been put together is the whole queue and     *)
(* nothing of it is left in the stream.                                    *)
(***************************************************************************)
LEMMA ContinuesAfterReceive ==
  ASSUME NEW n \in Seq(Message), n # <<>>, NEW ir, Continues(n, ir),
         NEW new, new = Assemble(ir, Head(n))
  PROVE  /\ n[1].queue \in Queue
         /\ new \in [parts : Seq(Message), left : Nat]
         /\ new.parts[1].queue = n[1].queue
         /\ new.left # 0 => Continues(Tail(n), new) /\ Queues(Tail(n)) = Queues(n)
         /\ new.left = 0 => /\ Continues(Tail(n), NoRecv)
                            /\ new.parts = Messages(n[1].queue)
                            /\ Queues(Tail(n)) = Queues(n) \ {n[1].queue}
<1> DEFINE x == n[1].queue
           j == n[1].part
           t == Tail(n)
<1>1. x \in Queue /\ j \in 0..NParts(x) /\ Holds(new, x, j + 1) /\ n[1] \in Message
  BY AssembleFirst, EmptySeq, ElementOfSeq
<1>2. NParts(x) \in Nat /\ j \in Nat
  BY <1>1, PartsType
<1>3. /\ t \in Seq(Message) /\ Len(n) \in Nat /\ Len(t) \in Nat /\ Len(t) + 1 = Len(n)
      /\ \A i \in 1..Len(t) : i + 1 \in 2..Len(n) /\ t[i] = n[i + 1]
  BY TailOf
<1>4. /\ new.parts \in Seq(Message) /\ Len(new.parts) = j + 1
      /\ \A i \in 1..(j + 1) : new.parts[i] = Part(x, i - 1)
      /\ new = [parts |-> new.parts, left |-> NParts(x) + 1 - (j + 1)]
  BY <1>1 DEF Holds
<1>5. n = <<>> \/ Len(n) >= 1
  BY <1>3, EmptySeq
<1> HIDE DEF x, j, t
<1>6. new.left = NParts(x) - j /\ NParts(x) - j \in Nat
  <2>1. new.left = NParts(x) + 1 - (j + 1)
    BY <1>4
  <2> QED
    BY <1>1, <1>2, <2>1
<1>7. new \in [parts : Seq(Message), left : Nat]
  BY <1>4, <1>6
<1>8. new.parts[1].queue = x
  <2>1. 1 \in 1..(j + 1)
    BY <1>2
  <2>2. new.parts[1] = Part(x, 1 - 1)
    BY <1>4, <2>1
  <2> QED
    BY <2>2 DEF Part
<1>9. \A q : q \in Queues(t) => q \in Queues(n)
  <2> SUFFICES ASSUME NEW q \in Queues(t) PROVE q \in Queues(n)
    OBVIOUS
  <2>1. PICK i \in 1..Len(t) : q = t[i].queue
    BY <1>3, QueuesOf
  <2>2. i + 1 \in 1..Len(n) /\ q = n[i + 1].queue
    BY <1>3, <2>1
  <2> QED
    BY <2>2, QueuesOf
<1>10. \A q : q \in Queues(n) /\ q # x => q \in Queues(t)
  <2> SUFFICES ASSUME NEW q \in Queues(n), q # x PROVE q \in Queues(t)
    OBVIOUS
  <2>1. PICK i \in 1..Len(n) : q = n[i].queue
    BY QueuesOf
  <2>2. i # 1
    BY <2>1 DEF x
  <2>3. i - 1 \in 1..Len(t) /\ (i - 1) + 1 = i
    BY <1>3, <2>2
  <2>4. q = t[i - 1].queue
    BY <1>3, <2>1, <2>3
  <2> QED
    BY <1>3, <2>3, <2>4, QueuesOf
<1>11. ASSUME new.left # 0
       PROVE  Continues(t, new) /\ Queues(t) = Queues(n)
  <2>1. j < NParts(x)
    BY <1>1, <1>2, <1>6, <1>11
  <2>2. Len(n) # 1
    BY <1>2, <2>1 DEF Continues, x, j
  <2>3. 1 \in 1..(Len(n) - 1) /\ 1 \in 1..Len(t)
    BY <1>3, <1>5, <2>2
  <2>4. n[1 + 1] = Part(x, j + 1)
    BY <2>1, <2>3 DEF Continues, x, j
  <2>5. t[1] = Part(x, j + 1)
    BY <1>3, <2>3, <2>4
  <2>6. t[1].queue = x /\ t[1].part = j + 1 /\ t # <<>> /\ t[1].part # 0
    BY <1>2, <1>3, <2>3, <2>5 DEF Part
  <2>7. new.parts = [i \in 1..(j + 1) |-> Part(x, i - 1)]
    <3>1. DOMAIN new.parts = 1..(j + 1) /\ new.parts = [i \in DOMAIN new.parts |-> new.parts[i]]
      BY <1>4, LenProperties
    <3> QED
      BY <1>4, <3>1
  <2>8. new = [parts |-> [i \in 1..t[1].part |-> Part(t[1].queue, i - 1)],
               left  |-> NParts(t[1].queue) + 1 - t[1].part]
    BY <1>4, <2>6, <2>7, Zenon
  <2>9. Continues(t, new)
    BY <2>6, <2>8, TailContinues DEF t
  <2>10. x \in Queues(t)
    BY <1>3, <2>3, <2>6, QueuesOf
  <2> QED
    BY <1>9, <1>10, <2>9, <2>10
<1>12. ASSUME new.left = 0
       PROVE  /\ Continues(t, NoRecv)
              /\ new.parts = Messages(x)
              /\ Queues(t) = Queues(n) \ {x}
  <2>1. j = NParts(x)
    BY <1>1, <1>2, <1>6, <1>12
  <2>2. new.parts = Messages(x)
    BY <1>1, <1>4, <2>1, WholeQueue
  <2>3. t = <<>> \/ t[1].part = 0
    <3> SUFFICES ASSUME t # <<>> PROVE t[1].part = 0
      OBVIOUS
    <3>1. 1 \in 1..Len(t) /\ 1 \in 1..(Len(n) - 1)
      BY <1>3, EmptySeq
    <3>2. n[1 + 1] = Part(n[1 + 1].queue, 0)
      <4>1. ~(j < NParts(x))
        BY <1>2, <2>1
      <4> QED
        BY <3>1, <4>1 DEF Continues, x, j
    <3> QED
      BY <1>3, <3>1, <3>2 DEF Part
  <2>4. Continues(t, NoRecv)
    BY <2>3, TailContinues DEF t
  <2>5. x \notin Queues(t)
    <3> SUFFICES ASSUME x \in Queues(t) PROVE FALSE
      OBVIOUS
    <3>1. PICK i \in 1..Len(t) : x = t[i].queue
      BY <1>3, QueuesOf
    <3>2. i + 1 \in 1..Len(n) /\ 1 \in 1..Len(n) /\ 1 < i + 1 /\ n[i + 1].queue = x
      BY <1>3, <3>1
    <3>3. j < n[i + 1].part
      BY <3>2 DEF Continues, x, j
    <3>4. n[i + 1].part <= NParts(n[i + 1].queue)
      BY <3>2 DEF Continues
    <3>5. n[i + 1] \in Message
      BY <3>2, ElementOfSeq
    <3>6. n[i + 1].part \in Nat
      BY <3>5 DEF Message
    <3> QED
      BY <1>2, <2>1, <3>2, <3>3, <3>4, <3>6
  <2> QED
    BY <1>9, <1>10, <2>2, <2>4, <2>5
<1> QED
  BY <1>1, <1>7, <1>8, <1>11, <1>12 DEF x, t

LEMMA QueuesAfterSend ==
  ASSUME NEW n \in Seq(Message), NEW x \in Queue
  PROVE  Queues(n \o Messages(x)) = Queues(n) \cup {x}
<1> DEFINE s == Messages(x)
           t == n \o s
<1>1. NParts(x) \in Nat /\ Len(n) \in Nat
  BY PartsType, LenProperties
<1>2. s \in Seq(Message) /\ Len(s) = 1 + NParts(x) /\ \A i \in 1..Len(s) : s[i].queue = x
  <2>1. /\ s \in Seq(Message) /\ Len(s) = 1 + NParts(x)
        /\ \A i \in 1..(1 + NParts(x)) : s[i] = Part(x, i - 1)
    BY MessagesType
  <2> HIDE DEF s
  <2> QED
    BY <2>1 DEF Part
<1>3. /\ t \in Seq(Message) /\ Len(t) = Len(n) + Len(s)
      /\ \A i \in 1..Len(n) + Len(s) : t[i] = IF i <= Len(n) THEN n[i] ELSE s[i - Len(n)]
  BY <1>2, ConcatProperties
<1> HIDE DEF s, t
<1>4. ASSUME NEW q \in Queues(t) PROVE q \in Queues(n) \cup {x}
  <2>1. PICK i \in 1..Len(t) : q = t[i].queue
    BY <1>3, QueuesOf
  <2>2. CASE i <= Len(n)
    BY <1>1, <1>2, <1>3, <2>1, <2>2, QueuesOf
  <2>3. CASE ~(i <= Len(n))
    <3>1. i - Len(n) \in 1..Len(s) /\ i \in 1..(Len(n) + Len(s))
      BY <1>1, <1>2, <1>3, <2>3
    <3>2. t[i] = s[i - Len(n)]
      BY <1>3, <2>3, <3>1
    <3> QED
      BY <1>2, <2>1, <3>1, <3>2
  <2> QED
    BY <2>2, <2>3
<1>5. ASSUME NEW q \in Queues(n) PROVE q \in Queues(t)
  <2>1. PICK i \in 1..Len(n) : q = n[i].queue
    BY QueuesOf
  <2>2. i \in 1..Len(t) /\ i \in 1..(Len(n) + Len(s)) /\ i <= Len(n)
    BY <1>1, <1>2, <1>3
  <2>3. t[i] = n[i]
    BY <1>3, <2>2
  <2> QED
    BY <1>3, <2>1, <2>2, <2>3, QueuesOf
<1>6. x \in Queues(t)
  <2>1. Len(n) + 1 \in 1..Len(t) /\ Len(n) + 1 \in 1..(Len(n) + Len(s)) /\ ~(Len(n) + 1 <= Len(n))
    BY <1>1, <1>2, <1>3
  <2>2. t[Len(n) + 1] = s[Len(n) + 1 - Len(n)] /\ Len(n) + 1 - Len(n) = 1 /\ 1 \in 1..Len(s)
    BY <1>1, <1>2, <1>3, <2>1
  <2>3. t[Len(n) + 1].queue = x
    BY <1>2, <2>2
  <2> QED
    BY <1>3, <2>1, <2>3, QueuesOf
<1> QED
  BY <1>4, <1>5, <1>6 DEF t, s

\* All messages that travel after a send did before, or are the queue's.
LEMMA MessagesAfterSend ==
  ASSUME NEW n \in Seq(Message), NEW x \in Queue, NEW m \in ToSet(n \o Messages(x))
  PROVE  m \in ToSet(n) \/ \E i \in DOMAIN Messages(x) : m = Messages(x)[i]
<1> DEFINE s == Messages(x)
           t == n \o s
<1>1. Len(n) \in Nat /\ Len(s) \in Nat /\ s \in Seq(Message) /\ DOMAIN s = 1..Len(s)
  BY MessagesType, LenProperties
<1>2. /\ t \in Seq(Message) /\ Len(t) = Len(n) + Len(s)
      /\ \A i \in 1..Len(n) + Len(s) : t[i] = IF i <= Len(n) THEN n[i] ELSE s[i - Len(n)]
  BY <1>1, ConcatProperties
<1>3. PICK i \in 1..Len(t) : m = t[i]
  <2>1. m \in ToSet(t)
    OBVIOUS
  <2> HIDE DEF s, t
  <2> QED
    BY <1>2, <2>1, ToSetOf
<1> HIDE DEF s, t
<1>4. CASE i <= Len(n)
  BY <1>1, <1>2, <1>3, <1>4, ToSetOf
<1>5. CASE ~(i <= Len(n))
  <2>1. i - Len(n) \in 1..Len(s) /\ i \in 1..(Len(n) + Len(s))
    BY <1>1, <1>2, <1>5
  <2>2. m = s[i - Len(n)]
    BY <1>2, <1>3, <1>5, <2>1
  <2> QED
    BY <1>1, <2>1, <2>2 DEF s
<1> QED
  BY <1>4, <1>5

LEMMA MessagesAfterReceive ==
  ASSUME NEW n \in Seq(Message), n # <<>>
  PROVE  \A m \in ToSet(Tail(n)) : m \in ToSet(n)
<1> SUFFICES ASSUME NEW m \in ToSet(Tail(n)) PROVE m \in ToSet(n)
  OBVIOUS
<1> DEFINE t == Tail(n)
<1>0. t \in Seq(Message)
  BY TailOf
<1> HIDE DEF t
<1>1. PICK i \in 1..Len(t) : m = t[i]
  BY <1>0, ToSetOf DEF t
<1>2. i + 1 \in 1..Len(n) /\ m = n[i + 1]
  BY <1>1, TailOf DEF t
<1> QED
  BY <1>2, ToSetOf

-----------------------------------------------------------------------------
(***************************************************************************)
(* What the actions do to the queues that are pending and placed.          *)
(***************************************************************************)
LEMMA WhereQueuesAre ==
  ASSUME ExchangeInv
  PROVE  /\ \A p \in Proc : \A x \in outgoing_[p] : x \in Pending /\ x \in Queue /\ Owner[x.from] = p
         /\ \A p, q \in Proc : \A x \in Coming(p, q) :
              x \in Pending /\ x \in Queue /\ Owner[x.from] = p /\ Owner[x.to] = q
<1>1. ASSUME NEW p \in Proc, NEW x \in outgoing_[p]
      PROVE  x \in Pending /\ x \in Queue /\ Owner[x.from] = p
  BY <1>1 DEF ExchangeInv, ExchangeTypeOK, Pending
<1>2. ASSUME NEW p \in Proc, NEW q \in Proc, NEW x \in Coming(p, q)
      PROVE  x \in Pending /\ x \in Queue /\ Owner[x.from] = p /\ Owner[x.to] = q
  <2>1. net[p, q] \in Seq(Message)
    BY DEF ExchangeInv, ExchangeTypeOK
  <2>2. PICK i \in 1..Len(net[p, q]) : x = net[p, q][i].queue
    BY <2>1, QueuesOf DEF Coming
  <2>3. x \in Queue
    <3>1. net[p, q][i] \in Message
      BY <2>1, ElementOfSeq
    <3> QED
      BY <2>2, <3>1 DEF Message
  <2>4. Owner[x.from] = p /\ Owner[x.to] = q
    BY DEF ExchangeInv, Streams
  <2> QED
    BY <2>3, <2>4 DEF Pending
<1> QED
  BY <1>1, <1>2

\* Nothing changes place.
Stay == Pending' = Pending /\ Placed' = Placed

\* A queue goes from where it is pending to its place.
Place(x) == x \in Pending /\ Pending' = Pending \ {x} /\ Placed' = Placed \cup {x}

LEMMA StayWhen ==
  ASSUME UNCHANGED <<outgoing_, net, incoming_>>
  PROVE  Stay /\ \A p, q \in Proc : Coming(p, q)' = Coming(p, q)
  BY DEF Stay, Pending, Placed, Coming

LEMMA SendSameRankPlaces ==
  ASSUME ExchangeInv, NEW p \in Proc, NEW x \in outgoing_[p], SendSameRank(p, x)
  PROVE  /\ Place(x)
         /\ \A q, r \in Proc : Coming(q, r)' = Coming(q, r)
         /\ x \in Queue /\ Owner[x.from] = p /\ Owner[x.to] = p
         /\ x.round = exchange_round_[p]
<1>1. x \in Pending /\ x \in Queue /\ Owner[x.from] = p
  BY WhereQueuesAre
<1>2. Owner[x.to] = p /\ x.round = exchange_round_[p]
  BY DEF SendSameRank, ExchangeInv, Sending
<1>3. outgoing_' = [outgoing_ EXCEPT ![p] = @ \ {x}] /\ UNCHANGED net
  BY DEF SendSameRank
<1>4. \A q, r \in Proc : Coming(q, r)' = Coming(q, r)
  BY <1>3 DEF Coming
<1>5. x \notin Coming(p, Owner[x.to])
  BY DEF ExchangeInv, Once
<1>6. \A y \in Queue : y \in Pending' <=> y \in Pending /\ y # x
  <2> SUFFICES ASSUME NEW y \in Queue PROVE y \in Pending' <=> y \in Pending /\ y # x
    OBVIOUS
  <2>1. Owner[y.from] \in Proc /\ Owner[y.to] \in Proc
    BY PartsType
  <2>2. y \in outgoing_'[Owner[y.from]] <=> y \in outgoing_[Owner[y.from]] /\ y # x
    <3>1. outgoing_ \in [Proc -> SUBSET Queue]
      BY DEF ExchangeInv, ExchangeTypeOK
    <3> QED
      BY <1>1, <1>3, <2>1, <3>1
  <2>3. y = x => y \notin Coming(Owner[y.from], Owner[y.to])
    BY <1>1, <1>5
  <2> QED
    BY <1>4, <2>1, <2>2, <2>3 DEF Pending
<1>7. \A y \in Queue : y \in Placed' <=> y \in Placed \/ y = x
  <2> SUFFICES ASSUME NEW y \in Queue PROVE y \in Placed' <=> y \in Placed \/ y = x
    OBVIOUS
  <2>1. Owner[y.to] \in Proc /\ y.round \in 1..Rounds
    BY PartsType
  <2>2. /\ incoming_ \in [Proc -> [1..Rounds -> SUBSET Seq(Message)]]
        /\ incoming_' = [incoming_ EXCEPT ![p][exchange_round_[p]] = @ \cup {Messages(x)}]
    BY DEF ExchangeInv, ExchangeTypeOK, SendSameRank
  <2>3. CASE Owner[y.to] = p /\ y.round = exchange_round_[p]
    <3>1. incoming_'[Owner[y.to]][y.round] = incoming_[Owner[y.to]][y.round] \cup {Messages(x)}
      BY <2>1, <2>2, <2>3
    <3>2. Messages(y) = Messages(x) => y = x
      BY <1>1, MessagesInjective
    <3> QED
      BY <3>1, <3>2 DEF Placed
  <2>4. CASE ~(Owner[y.to] = p /\ y.round = exchange_round_[p])
    <3>1. incoming_'[Owner[y.to]][y.round] = incoming_[Owner[y.to]][y.round]
      BY <2>1, <2>2, <2>4
    <3> QED
      BY <1>2, <2>4, <3>1 DEF Placed
  <2> QED
    BY <2>3, <2>4
<1>8. Place(x)
  <2>1. Pending' \subseteq Queue /\ Placed' \subseteq Queue /\ Pending \subseteq Queue /\ Placed \subseteq Queue
    BY DEF Pending, Placed
  <2> QED
    BY <1>1, <1>6, <1>7, <2>1 DEF Place
<1> QED
  BY <1>1, <1>2, <1>4, <1>8

LEMMA SendDifferentRankStays ==
  ASSUME ExchangeInv, NEW p \in Proc, NEW x \in outgoing_[p], SendDifferentRank(p, x)
  PROVE  /\ Stay
         /\ x \in Queue /\ Owner[x.from] = p /\ Owner[x.to] \in Proc
         /\ x.round = exchange_round_[p]
         /\ \A q, r \in Proc : Coming(q, r)' = IF q = p /\ r = Owner[x.to] THEN Coming(q, r) \cup {x}
                                                                          ELSE Coming(q, r)
<1>1. x \in Pending /\ x \in Queue /\ Owner[x.from] = p
  BY WhereQueuesAre
<1>2. x.round = exchange_round_[p]
  BY DEF SendDifferentRank, ExchangeInv, Sending
<1>3. Owner[x.to] \in Proc
  BY <1>1, PartsType
<1>4. /\ outgoing_' = [outgoing_ EXCEPT ![p] = @ \ {x}]
      /\ net' = [net EXCEPT ![<<p, Owner[x.to]>>] = @ \o Messages(x)]
      /\ UNCHANGED incoming_
  BY DEF SendDifferentRank
<1>5. net \in [Proc \X Proc -> Seq(Message)] /\ outgoing_ \in [Proc -> SUBSET Queue]
  BY DEF ExchangeInv, ExchangeTypeOK
<1>6. ASSUME NEW q \in Proc, NEW r \in Proc
      PROVE  Coming(q, r)' = IF q = p /\ r = Owner[x.to] THEN Coming(q, r) \cup {x} ELSE Coming(q, r)
  <2>1. CASE q = p /\ r = Owner[x.to]
    <3>1. net'[q, r] = net[q, r] \o Messages(x) /\ net[q, r] \in Seq(Message)
      BY <1>4, <1>5, <2>1
    <3> QED
      BY <1>1, <2>1, <3>1, QueuesAfterSend DEF Coming
  <2>2. CASE ~(q = p /\ r = Owner[x.to])
    <3>1. net'[q, r] = net[q, r]
      BY <1>4, <1>5, <2>2
    <3> QED
      BY <2>2, <3>1 DEF Coming
  <2> QED
    BY <2>1, <2>2
<1>7. \A y \in Queue : y \in Pending' <=> y \in Pending
  <2> SUFFICES ASSUME NEW y \in Queue PROVE y \in Pending' <=> y \in Pending
    OBVIOUS
  <2>1. Owner[y.from] \in Proc /\ Owner[y.to] \in Proc
    BY PartsType
  <2>2. y \in outgoing_'[Owner[y.from]] <=> y \in outgoing_[Owner[y.from]] /\ y # x
    BY <1>1, <1>4, <1>5, <2>1
  <2>3. y \in Coming(Owner[y.from], Owner[y.to])' <=> y \in Coming(Owner[y.from], Owner[y.to]) \/ y = x
    BY <1>1, <1>6, <2>1
  <2> QED
    BY <1>1, <2>2, <2>3 DEF Pending
<1>8. Stay
  <2>1. Pending' = Pending
    BY <1>7 DEF Pending
  <2>2. Placed' = Placed
    BY <1>4 DEF Placed
  <2> QED
    BY <2>1, <2>2 DEF Stay
<1> QED
  BY <1>1, <1>2, <1>3, <1>6, <1>8

(***************************************************************************)
(* A message either belongs to a queue that is not whole yet, or completes *)
(* one, which is filed under the round it was sent in.                     *)
(***************************************************************************)
LEMMA ReceiveEffect ==
  ASSUME ExchangeInv, NEW p \in Proc, NEW q \in Proc, Receive(p, q)
  PROVE  \E x \in Queue :
           /\ x \in Coming(q, p)
           /\ \/ /\ Stay
                 /\ \A s, r \in Proc : Coming(s, r)' = Coming(s, r)
                 /\ UNCHANGED <<incoming_, received>>
              \/ /\ Place(x)
                 /\ \A s, r \in Proc : Coming(s, r)' = IF s = q /\ r = p THEN Coming(s, r) \ {x}
                                                                        ELSE Coming(s, r)
                 /\ incoming_' = [incoming_ EXCEPT ![p][x.round] = @ \cup {Messages(x)}]
                 /\ received' = [received EXCEPT ![p][x.round] = @ + 1]
<1> DEFINE n   == net[q, p]
           ir  == inflight_recvs[p, q]
           new == Assemble(ir, Head(n))
           x   == n[1].queue
<1>1. /\ net \in [Proc \X Proc -> Seq(Message)] /\ n \in Seq(Message) /\ n # <<>>
      /\ Continues(n, ir)
  BY DEF ExchangeInv, ExchangeTypeOK, Streams, Receive
<1>2. /\ net' = [net EXCEPT ![<<q, p>>] = Tail(n)]
      /\ UNCHANGED outgoing_
  BY DEF Receive
<1> HIDE DEF n, ir
<1>3. /\ x \in Queue
      /\ new \in [parts : Seq(Message), left : Nat]
      /\ new.parts[1].queue = x
      /\ new.left # 0 => Queues(Tail(n)) = Queues(n)
      /\ new.left = 0 => /\ new.parts = Messages(x)
                         /\ Queues(Tail(n)) = Queues(n) \ {x}
  BY <1>1, ContinuesAfterReceive
<1>4. RoundOf(p, new) = x.round
  BY <1>3 DEF RoundOf
<1>5. \/ new.left > 0 /\ UNCHANGED <<incoming_, received>>
      \/ /\ new.left = 0
         /\ incoming_' = [incoming_ EXCEPT ![p][x.round] = @ \cup {new.parts}]
         /\ received' = [received EXCEPT ![p][x.round] = @ + 1]
  BY <1>4 DEF Receive, n, ir
<1>6. x \in Queues(n)
  <2>1. 1 \in 1..Len(n)
    BY <1>1, EmptySeq
  <2> QED
    BY <1>1, <2>1, QueuesOf
<1> HIDE DEF new, x
<1>7. x \in Coming(q, p) /\ x \in Pending /\ Owner[x.from] = q /\ Owner[x.to] = p
  <2>1. x \in Coming(q, p)
    BY <1>6 DEF Coming, n
  <2> QED
    BY <2>1, WhereQueuesAre
<1>8. \A s, r \in Proc : net'[s, r] = IF s = q /\ r = p THEN Tail(n) ELSE net[s, r]
  BY <1>1, <1>2
<1>9. CASE new.left # 0
  <2>1. UNCHANGED <<incoming_, received>>
    BY <1>5, <1>9
  <2>2. \A s, r \in Proc : Coming(s, r)' = Coming(s, r)
    BY <1>3, <1>8, <1>9 DEF Coming, n
  <2>3. Pending' = Pending
    BY <1>2, <2>2, PartsType DEF Pending
  <2>4. Placed' = Placed
    BY <2>1 DEF Placed
  <2> QED
    BY <1>3, <1>7, <2>1, <2>2, <2>3, <2>4 DEF Stay
<1>10. CASE new.left = 0
  <2>1. /\ incoming_' = [incoming_ EXCEPT ![p][x.round] = @ \cup {Messages(x)}]
        /\ received' = [received EXCEPT ![p][x.round] = @ + 1]
    BY <1>3, <1>5, <1>10
  <2>2. \A s, r \in Proc : Coming(s, r)' = IF s = q /\ r = p THEN Coming(s, r) \ {x} ELSE Coming(s, r)
    BY <1>3, <1>8, <1>10 DEF Coming, n
  <2>3. x \notin outgoing_[q]
    BY <1>7 DEF ExchangeInv, Once
  <2>4. \A y \in Queue : y \in Pending' <=> y \in Pending /\ y # x
    <3> SUFFICES ASSUME NEW y \in Queue PROVE y \in Pending' <=> y \in Pending /\ y # x
      OBVIOUS
    <3>1. Owner[y.from] \in Proc /\ Owner[y.to] \in Proc
      BY PartsType
    <3>2. y \in Coming(Owner[y.from], Owner[y.to])' <=> y \in Coming(Owner[y.from], Owner[y.to]) /\ y # x
      BY <1>7, <2>2, <3>1
    <3>3. y = x => y \notin outgoing_[Owner[y.from]]
      BY <1>7, <2>3
    <3> QED
      BY <1>2, <3>2, <3>3 DEF Pending
  <2>5. \A y \in Queue : y \in Placed' <=> y \in Placed \/ y = x
    <3> SUFFICES ASSUME NEW y \in Queue PROVE y \in Placed' <=> y \in Placed \/ y = x
      OBVIOUS
    <3>1. Owner[y.to] \in Proc /\ y.round \in 1..Rounds /\ x.round \in 1..Rounds
      BY <1>3, PartsType
    <3>2. incoming_ \in [Proc -> [1..Rounds -> SUBSET Seq(Message)]]
      BY DEF ExchangeInv, ExchangeTypeOK
    <3>3. CASE Owner[y.to] = p /\ y.round = x.round
      <4>1. incoming_'[Owner[y.to]][y.round] = incoming_[Owner[y.to]][y.round] \cup {Messages(x)}
        BY <2>1, <3>1, <3>2, <3>3
      <4>2. Messages(y) = Messages(x) => y = x
        BY <1>3, MessagesInjective
      <4> QED
        BY <4>1, <4>2 DEF Placed
    <3>4. CASE ~(Owner[y.to] = p /\ y.round = x.round)
      <4>1. incoming_'[Owner[y.to]][y.round] = incoming_[Owner[y.to]][y.round]
        BY <2>1, <3>1, <3>2, <3>4
      <4> QED
        BY <1>7, <3>4, <4>1 DEF Placed
    <3> QED
      BY <3>3, <3>4
  <2>6. Place(x)
    <3>1. Pending' \subseteq Queue /\ Placed' \subseteq Queue /\ Pending \subseteq Queue /\ Placed \subseteq Queue
      BY DEF Pending, Placed
    <3> QED
      BY <1>7, <2>4, <2>5, <3>1 DEF Place
  <2> QED
    BY <1>3, <1>7, <2>1, <2>2, <2>6
<1> QED
  BY <1>9, <1>10

\* A rank that leaves an exchange has sent all it had to send.
LEMMA NothingToSend ==
  ASSUME ExchangeInv, NEW p \in Proc, End(p)
  PROVE  outgoing_[p] = {}
<1>1. pc[p] = "check" /\ \A x \in outgoing_[p] : x.from \in gid_order[p]
  BY DEF End, ExchangeInv, Sending, QueuesSent
<1>2. CASE IsRemote(exchange_round_[p])
  <2> SUFFICES ASSUME NEW x \in outgoing_[p] PROVE FALSE
    OBVIOUS
  <2>1. x \in Pending /\ x \in Queue /\ Owner[x.from] = p /\ x.round = exchange_round_[p]
    BY WhereQueuesAre DEF ExchangeInv, Sending
  <2>2. barrier[p] < exchange_round_[p]
    BY <1>2, <2>1 DEF ExchangeInv, Barriers
  <2>3. barrier[p] = exchange_round_[p] /\ barrier[p] \in Int
    BY <1>2 DEF End, RemoteDone, Joined, ExchangeInv, ExchangeTypeOK
  <2> QED
    BY <2>2, <2>3 DEF MayBe
<1>3. CASE ~IsRemote(exchange_round_[p])
  <2>1. gid_order[p] = {}
    BY <1>3 DEF End, PlainDone, AllSent
  <2> QED
    BY <1>1, <2>1
<1> QED
  BY <1>2, <1>3

LEMMA EndStays ==
  ASSUME ExchangeInv, NEW p \in Proc, End(p)
  PROVE  Stay /\ UNCHANGED outgoing_ /\ \A q, r \in Proc : Coming(q, r)' = Coming(q, r)
<1>1. outgoing_' = [outgoing_ EXCEPT ![p] = {}] /\ outgoing_ \in [Proc -> SUBSET Queue]
  BY DEF End, ExchangeInv, ExchangeTypeOK
<1>2. UNCHANGED outgoing_
  BY <1>1, NothingToSend
<1>3. UNCHANGED <<net, incoming_>>
  BY DEF End
<1> QED
  BY <1>2, <1>3, StayWhen

(***************************************************************************)
(* What the callbacks and touch_queues make at the beginning of an         *)
(* exchange: a queue to each of the targets S, and when the exchange is    *)
(* plain an empty one to every other neighbor.                             *)
(***************************************************************************)
Full(t, k)  == [from |-> t[1], to |-> t[2], round |-> k, full |-> TRUE]
Empty(l, k) == [from |-> l[1], to |-> l[2], round |-> k, full |-> FALSE]

NewQueues(p, S, k) == {Full(t, k) : t \in S} \cup (IF IsRemote(k) THEN {} ELSE Touched(p, S, k))

LEMMA NewQueue ==
  ASSUME NEW p \in Proc, NEW k \in 1..Rounds, NEW S \in SUBSET Targets(p, k),
         NEW x \in NewQueues(p, S, k)
  PROVE  /\ x \in Queue /\ Owner[x.from] = p /\ x.round = k
         /\ MayBe(x)
<1>1. \A t \in Targets(p, k) : /\ t \in Block \X Block /\ Owner[t[1]] = p
                               /\ ~IsRemote(k) => t \in Link
  BY ExchangeAssumption DEF Targets
<1>2. CASE \E t \in S : x = Full(t, k)
  <2>1. PICK t \in S : x = Full(t, k)
    BY <1>2
  <2>2. t \in Block \X Block /\ Owner[t[1]] = p /\ (~IsRemote(k) => t \in Link) /\ t = <<t[1], t[2]>>
    BY <1>1
  <2>3. x.from = t[1] /\ x.to = t[2] /\ x.round = k /\ x.full = TRUE /\ x \in Queue
    BY <2>1, <2>2 DEF Full, Queue
  <2> QED
    BY <2>2, <2>3 DEF MayBe
<1>3. CASE ~IsRemote(k) /\ \E l \in Link : Owner[l[1]] = p /\ l \notin S /\ x = Empty(l, k)
  <2>1. PICK l \in Link : Owner[l[1]] = p /\ l \notin S /\ x = Empty(l, k)
    BY <1>3
  <2>2. l \in Block \X Block /\ l = <<l[1], l[2]>>
    BY ExchangeAssumption
  <2>3. x.from = l[1] /\ x.to = l[2] /\ x.round = k /\ x.full = FALSE /\ x \in Queue
    BY <2>1, <2>2 DEF Empty, Queue
  <2> QED
    BY <1>3, <2>1, <2>2, <2>3 DEF MayBe
<1>4. (\E t \in S : x = Full(t, k))
      \/ (~IsRemote(k) /\ \E l \in Link : Owner[l[1]] = p /\ l \notin S /\ x = Empty(l, k))
  BY DEF NewQueues, Touched, Full, Empty
<1> QED
  BY <1>2, <1>3, <1>4

LEMMA NewQueueFull ==
  ASSUME NEW p \in Proc, NEW k \in 1..Rounds, NEW S \in SUBSET Targets(p, k),
         NEW x \in NewQueues(p, S, k)
  PROVE  x.full <=> <<x.from, x.to>> \in S
<1>1. \A t \in Targets(p, k) : /\ t \in Block \X Block /\ Owner[t[1]] = p
                               /\ ~IsRemote(k) => t \in Link
  BY ExchangeAssumption DEF Targets
<1>2. CASE \E t \in S : x = Full(t, k)
  <2>1. PICK t \in S : x = Full(t, k)
    BY <1>2
  <2>2. t \in Block \X Block /\ Owner[t[1]] = p /\ (~IsRemote(k) => t \in Link) /\ t = <<t[1], t[2]>>
    BY <1>1
  <2>3. x.from = t[1] /\ x.to = t[2] /\ x.round = k /\ x.full = TRUE /\ x \in Queue
    BY <2>1, <2>2 DEF Full, Queue
  <2> QED
    BY <2>2, <2>3 DEF MayBe
<1>3. CASE ~IsRemote(k) /\ \E l \in Link : Owner[l[1]] = p /\ l \notin S /\ x = Empty(l, k)
  <2>1. PICK l \in Link : Owner[l[1]] = p /\ l \notin S /\ x = Empty(l, k)
    BY <1>3
  <2>2. l \in Block \X Block /\ l = <<l[1], l[2]>>
    BY ExchangeAssumption
  <2>3. x.from = l[1] /\ x.to = l[2] /\ x.round = k /\ x.full = FALSE /\ x \in Queue
    BY <2>1, <2>2 DEF Empty, Queue
  <2> QED
    BY <1>3, <2>1, <2>2, <2>3 DEF MayBe
<1>4. (\E t \in S : x = Full(t, k))
      \/ (~IsRemote(k) /\ \E l \in Link : Owner[l[1]] = p /\ l \notin S /\ x = Empty(l, k))
  BY DEF NewQueues, Touched, Full, Empty
<1> QED
  BY <1>2, <1>3, <1>4

LEMMA BeginEffect ==
  ASSUME ExchangeInv, NEW p \in Proc, Begin(p)
  PROVE  LET old == exchange_round_[p]
             k   == exchange_round_[p] + 1
         IN  /\ pc[p] = "foreach" /\ old \in 0..Rounds /\ k \in 1..Rounds
             /\ exchange_round_' = [exchange_round_ EXCEPT ![p] = k]
             /\ \E S \in SUBSET Targets(p, k) :
                  /\ outgoing_' = [outgoing_ EXCEPT ![p] = NewQueues(p, S, k)]
                  /\ Pending' = Pending \cup NewQueues(p, S, k)
                  /\ Placed' = {x \in Placed : ~(Owner[x.to] = p /\ x.round = old)}
                  /\ posted' = {t \in posted : t[3] # old \/ Owner[t[2]] # p}
                                 \cup {<<t[1], t[2], k>> : t \in S}
             /\ \A q, r \in Proc : Coming(q, r)' = Coming(q, r)
<1> DEFINE old == exchange_round_[p]
           k   == exchange_round_[p] + 1
<1>1. /\ exchange_round_ \in [Proc -> 0..Rounds] /\ outgoing_ \in [Proc -> SUBSET Queue]
      /\ incoming_ \in [Proc -> [1..Rounds -> SUBSET Seq(Message)]]
      /\ Rounds \in Nat
  BY ExchangeAssumption DEF ExchangeInv, ExchangeTypeOK
<1>2. pc[p] = "foreach" /\ old \in 0..Rounds /\ k \in 1..Rounds
  BY <1>1 DEF Begin
<1>3. exchange_round_' = [exchange_round_ EXCEPT ![p] = k] /\ UNCHANGED net
  BY DEF Begin
<1>4. \A q, r \in Proc : Coming(q, r)' = Coming(q, r)
  BY <1>3 DEF Coming
<1>5. PICK S \in SUBSET Targets(p, k) :
        /\ outgoing_' = [outgoing_ EXCEPT ![p] = NewQueues(p, S, k)]
        /\ posted' = {t \in posted : t[3] # old \/ Owner[t[2]] # p} \cup {<<t[1], t[2], k>> : t \in S}
  <2>1. PICK S \in SUBSET Targets(p, k) :
          /\ outgoing_' = [outgoing_ EXCEPT ![p] =
               {[from |-> t[1], to |-> t[2], round |-> k, full |-> TRUE] : t \in S}
                 \cup (IF IsRemote(k) THEN {} ELSE Touched(p, S, k))]
          /\ posted' = {t \in posted : t[3] # old \/ Owner[t[2]] # p} \cup {<<t[1], t[2], k>> : t \in S}
    BY Zenon DEF Begin
  <2>2. NewQueues(p, S, k) = {[from |-> t[1], to |-> t[2], round |-> k, full |-> TRUE] : t \in S}
                               \cup (IF IsRemote(k) THEN {} ELSE Touched(p, S, k))
    BY DEF NewQueues, Full
  <2> QED
    BY <2>1, <2>2, Zenon
<1>6. outgoing_[p] = {}
  BY <1>2 DEF ExchangeInv, Sending
<1> DEFINE N == NewQueues(p, S, k)
<1> HIDE DEF old, k
<1>7. \A x \in N : x \in Queue /\ Owner[x.from] = p
  <2> SUFFICES ASSUME NEW x \in N PROVE x \in Queue /\ Owner[x.from] = p
    OBVIOUS
  <2>1. k \in 1..Rounds /\ x \in NewQueues(p, S, k)
    BY <1>2
  <2> HIDE DEF N
  <2> QED
    BY <2>1, NewQueue
<1> HIDE DEF N
<1>8. \A x \in Queue : x \in Pending' <=> x \in Pending \/ x \in N
  <2> SUFFICES ASSUME NEW x \in Queue PROVE x \in Pending' <=> x \in Pending \/ x \in N
    OBVIOUS
  <2>1. Owner[x.from] \in Proc /\ Owner[x.to] \in Proc
    BY PartsType
  <2>2. outgoing_'[Owner[x.from]] = IF Owner[x.from] = p THEN N ELSE outgoing_[Owner[x.from]]
    BY <1>1, <1>5, <2>1 DEF N
  <2>3. x \in outgoing_'[Owner[x.from]] <=> x \in outgoing_[Owner[x.from]] \/ x \in N
    BY <1>6, <1>7, <2>1, <2>2
  <2> QED
    BY <1>4, <2>1, <2>3 DEF Pending
<1>9. Pending' = Pending \cup N
  <2>1. Pending \subseteq Queue /\ Pending' \subseteq Queue
    BY DEF Pending
  <2> QED
    BY <1>7, <1>8, <2>1
<1>10. \A x \in Queue : x \in Placed' <=> x \in Placed /\ ~(Owner[x.to] = p /\ x.round = old)
  <2> SUFFICES ASSUME NEW x \in Queue
               PROVE  x \in Placed' <=> x \in Placed /\ ~(Owner[x.to] = p /\ x.round = old)
    OBVIOUS
  <2>1. Owner[x.to] \in Proc /\ x.round \in 1..Rounds
    BY PartsType
  <2>2. incoming_' = [incoming_ EXCEPT ![p] = [i \in 1..Rounds |-> IF i = old THEN {} ELSE @[i]]]
    BY DEF Begin, old
  <2>3. incoming_'[Owner[x.to]][x.round] = IF Owner[x.to] = p /\ x.round = old THEN {}
                                           ELSE incoming_[Owner[x.to]][x.round]
    BY <1>1, <2>1, <2>2
  <2> QED
    BY <2>3 DEF Placed
<1>11. Placed' = {x \in Placed : ~(Owner[x.to] = p /\ x.round = old)}
  BY <1>10 DEF Placed
<1> QED
  BY <1>2, <1>3, <1>4, <1>5, <1>9, <1>11 DEF old, k, N

-----------------------------------------------------------------------------
(***************************************************************************)
(* Every step keeps the invariant, part by part.                           *)
(***************************************************************************)
LEMMA MessageOfQueue ==
  ASSUME NEW x \in Queue, NEW i \in DOMAIN Messages(x)
  PROVE  /\ Messages(x)[i] \in Message
         /\ Messages(x)[i].queue = x
<1> DEFINE s == Messages(x)
<1>1. /\ s \in Seq(Message) /\ Len(s) = 1 + NParts(x)
      /\ \A j \in 1..(1 + NParts(x)) : s[j] = Part(x, j - 1)
  BY MessagesType
<1>2. DOMAIN s = 1..Len(s)
  BY <1>1, LenProperties
<1> HIDE DEF s
<1>3. i \in 1..Len(s) /\ s[i] = Part(x, i - 1)
  BY <1>1, <1>2 DEF s
<1>4. s[i] \in Message
  BY <1>1, <1>3, ElementOfSeq
<1>5. s[i].queue = x
  BY <1>3 DEF Part
<1> QED
  BY <1>4, <1>5 DEF s

\* One entry of a table of ranks and rounds changes.
LEMMA OneEntry ==
  ASSUME NEW S, NEW f \in [Proc -> [1..Rounds -> S]],
         NEW p \in Proc, NEW k \in 1..Rounds, NEW v \in S
  PROVE  /\ [f EXCEPT ![p][k] = v] \in [Proc -> [1..Rounds -> S]]
         /\ \A q \in Proc : \A j \in 1..Rounds :
              [f EXCEPT ![p][k] = v][q][j] = IF q = p /\ j = k THEN v ELSE f[q][j]
  OBVIOUS

LEMMA TypeStep == ExchangeInv /\ [Next]_vars => ExchangeTypeOK'
<1> SUFFICES ASSUME ExchangeInv, [Next]_vars PROVE ExchangeTypeOK'
  OBVIOUS
<1>0. ExchangeTypeOK
  BY DEF ExchangeInv
<1>a. /\ incoming_ \in [Proc -> [1..Rounds -> SUBSET Seq(Message)]]
      /\ received \in [Proc -> [1..Rounds -> Nat]]
  BY <1>0 DEF ExchangeTypeOK
<1>1. CASE UNCHANGED vars
  BY <1>0, <1>1 DEF ExchangeTypeOK, vars
<1>2. ASSUME NEW p \in Proc, Begin(p) PROVE ExchangeTypeOK'
  <2> DEFINE old == exchange_round_[p]
             k   == exchange_round_[p] + 1
  <2>1. /\ old \in 0..Rounds /\ k \in 1..Rounds
        /\ exchange_round_' = [exchange_round_ EXCEPT ![p] = k]
    BY <1>2, BeginEffect
  <2>2. PICK S \in SUBSET Targets(p, k) :
          /\ outgoing_' = [outgoing_ EXCEPT ![p] = NewQueues(p, S, k)]
          /\ posted' = {t \in posted : t[3] # old \/ Owner[t[2]] # p} \cup {<<t[1], t[2], k>> : t \in S}
    BY <1>2, BeginEffect
  <2>3. /\ incoming_' = [incoming_ EXCEPT ![p] = [i \in 1..Rounds |-> IF i = old THEN {} ELSE @[i]]]
        /\ received' = [received EXCEPT ![p] = [i \in 1..Rounds |-> IF i = old THEN 0 ELSE @[i]]]
        /\ gid_order' = [gid_order EXCEPT ![p] = Local(p)]
        /\ pc' = [pc EXCEPT ![p] = "send"]
        /\ UNCHANGED <<inflight_sends, net, inflight_recvs, barrier>>
    BY <1>2 DEF Begin
  <2> HIDE DEF old, k
  <2>4. \A x \in NewQueues(p, S, k) : x \in Queue /\ Owner[x.from] = p
    <3> SUFFICES ASSUME NEW x \in NewQueues(p, S, k) PROVE x \in Queue /\ Owner[x.from] = p
      OBVIOUS
    <3> QED
      BY <2>1, NewQueue
  <2>5. \A q \in Proc : outgoing_'[q] = IF q = p THEN NewQueues(p, S, k) ELSE outgoing_[q]
    BY <1>0, <2>2 DEF ExchangeTypeOK
  <2>6. /\ outgoing_' \in [Proc -> SUBSET Queue]
        /\ \A q \in Proc : \A x \in outgoing_'[q] : Owner[x.from] = q
    BY <1>0, <2>2, <2>4, <2>5 DEF ExchangeTypeOK
  <2>7. \A t \in S : t \in Block \X Block
    BY ExchangeAssumption DEF Targets
  <2>8. posted' \subseteq Block \X Block \X (1..Rounds)
    BY <1>0, <2>1, <2>2, <2>7 DEF ExchangeTypeOK
  <2>9. /\ exchange_round_' \in [Proc -> 0..Rounds] /\ pc' \in [Proc -> {"foreach", "send", "check"}]
        /\ gid_order' \in [Proc -> SUBSET Block]
    BY <1>0, <2>1, <2>3, ExchangeAssumption DEF ExchangeTypeOK, Local
  <2>10. incoming_' \in [Proc -> [1..Rounds -> SUBSET Seq(Message)]]
    BY <1>0, <2>3 DEF ExchangeTypeOK
  <2>11. received' \in [Proc -> [1..Rounds -> Nat]]
    BY <1>0, <2>3 DEF ExchangeTypeOK
  <2> QED
    BY <1>0, <2>3, <2>6, <2>8, <2>9, <2>10, <2>11 DEF ExchangeTypeOK
<1>3. ASSUME NEW p \in Proc, NEW b \in Block, PopBlock(p, b) PROVE ExchangeTypeOK'
  BY <1>0, <1>3 DEF ExchangeTypeOK, PopBlock
<1>4. ASSUME NEW p \in Proc, NEW x \in outgoing_[p], SendSameRank(p, x) PROVE ExchangeTypeOK'
  <2>1. x \in Queue /\ Owner[x.from] = p /\ exchange_round_[p] \in 1..Rounds
    BY <1>4, SendSameRankPlaces, PartsType
  <2>2. /\ outgoing_' = [outgoing_ EXCEPT ![p] = @ \ {x}]
        /\ incoming_' = [incoming_ EXCEPT ![p][exchange_round_[p]] = @ \cup {Messages(x)}]
        /\ received' = [received EXCEPT ![p][exchange_round_[p]] = @ + 1]
        /\ UNCHANGED <<pc, exchange_round_, gid_order, inflight_sends, net, inflight_recvs, barrier, posted>>
    BY <1>4 DEF SendSameRank
  <2>3. Messages(x) \in Seq(Message)
    BY <2>1, MessagesType
  <2>4. incoming_' \in [Proc -> [1..Rounds -> SUBSET Seq(Message)]]
    <3>1. incoming_[p][exchange_round_[p]] \in SUBSET Seq(Message)
      BY <1>a, <2>1
    <3>2. incoming_[p][exchange_round_[p]] \cup {Messages(x)} \in SUBSET Seq(Message)
      BY <2>3, <3>1
    <3> QED
      BY <1>a, <2>1, <2>2, <3>2, OneEntry
  <2>5. received' \in [Proc -> [1..Rounds -> Nat]]
    <3>1. received[p][exchange_round_[p]] \in Nat
      BY <1>a, <2>1
    <3>2. received[p][exchange_round_[p]] + 1 \in Nat
      BY <3>1
    <3> QED
      BY <1>a, <2>1, <2>2, <3>2, OneEntry
  <2>6. /\ outgoing_' \in [Proc -> SUBSET Queue]
        /\ \A q \in Proc : \A y \in outgoing_'[q] : Owner[y.from] = q
    BY <1>0, <2>2 DEF ExchangeTypeOK
  <2> QED
    BY <1>0, <2>2, <2>4, <2>5, <2>6 DEF ExchangeTypeOK
<1>5. ASSUME NEW p \in Proc, NEW x \in outgoing_[p], SendDifferentRank(p, x) PROVE ExchangeTypeOK'
  <2>1. x \in Queue /\ Owner[x.to] \in Proc
    BY <1>5, SendDifferentRankStays
  <2>2. /\ outgoing_' = [outgoing_ EXCEPT ![p] = @ \ {x}]
        /\ net' = [net EXCEPT ![<<p, Owner[x.to]>>] = @ \o Messages(x)]
        /\ inflight_sends' = [inflight_sends EXCEPT ![p] =
                                @ \cup {Messages(x)[i] : i \in DOMAIN Messages(x)}]
        /\ UNCHANGED <<pc, exchange_round_, gid_order, inflight_recvs, incoming_, received, barrier, posted>>
    BY <1>5 DEF SendDifferentRank
  <2>3. net[p, Owner[x.to]] \o Messages(x) \in Seq(Message)
    <3>1. Messages(x) \in Seq(Message) /\ net[p, Owner[x.to]] \in Seq(Message)
      BY <1>0, <2>1, MessagesType DEF ExchangeTypeOK
    <3> QED
      BY <3>1, ConcatProperties
  <2>4. net' \in [Proc \X Proc -> Seq(Message)]
    BY <1>0, <2>1, <2>2, <2>3 DEF ExchangeTypeOK
  <2>5. inflight_sends' \in [Proc -> SUBSET Message]
    <3>1. {Messages(x)[i] : i \in DOMAIN Messages(x)} \subseteq Message
      BY <2>1, MessageOfQueue
    <3> QED
      BY <1>0, <2>2, <3>1 DEF ExchangeTypeOK
  <2>6. /\ outgoing_' \in [Proc -> SUBSET Queue]
        /\ \A q \in Proc : \A y \in outgoing_'[q] : Owner[y.from] = q
    BY <1>0, <2>2 DEF ExchangeTypeOK
  <2> QED
    BY <1>0, <2>2, <2>4, <2>5, <2>6 DEF ExchangeTypeOK
<1>6. ASSUME NEW p \in Proc, Nudge(p) PROVE ExchangeTypeOK'
  <2>1. PICK S : inflight_sends' = [inflight_sends EXCEPT ![p] = @ \ S]
    BY <1>6 DEF Nudge
  <2>2. inflight_sends' \in [Proc -> SUBSET Message]
    BY <1>0, <2>1 DEF ExchangeTypeOK
  <2> QED
    BY <1>0, <1>6, <2>2 DEF ExchangeTypeOK, Nudge
<1>7. ASSUME NEW p \in Proc, NEW q \in Proc, Receive(p, q) PROVE ExchangeTypeOK'
  <2> DEFINE n   == net[q, p]
             ir  == inflight_recvs[p, q]
             new == Assemble(ir, Head(n))
  <2>1. n \in Seq(Message) /\ n # <<>> /\ Continues(n, ir)
    BY <1>7 DEF ExchangeInv, ExchangeTypeOK, Streams, Receive
  <2>2. PICK x \in Queue :
          \/ UNCHANGED <<incoming_, received>>
          \/ /\ incoming_' = [incoming_ EXCEPT ![p][x.round] = @ \cup {Messages(x)}]
             /\ received' = [received EXCEPT ![p][x.round] = @ + 1]
    BY <1>7, ReceiveEffect
  <2>3. /\ net' = [net EXCEPT ![<<q, p>>] = Tail(n)]
        /\ inflight_recvs' = [inflight_recvs EXCEPT ![<<p, q>>] = new]
           \/ inflight_recvs' = [inflight_recvs EXCEPT ![<<p, q>>] = NoRecv]
        /\ UNCHANGED <<pc, exchange_round_, outgoing_, gid_order, inflight_sends, barrier, posted>>
    BY <1>7 DEF Receive
  <2> HIDE DEF n, ir
  <2>4. new \in [parts : Seq(Message), left : Nat]
    BY <2>1, ContinuesAfterReceive
  <2>5. NoRecv \in [parts : Seq(Message), left : Nat]
    BY DEF NoRecv
  <2> HIDE DEF new
  <2>6. inflight_recvs' \in [Proc \X Proc -> [parts : Seq(Message), left : Nat]]
    BY <1>0, <2>3, <2>4, <2>5 DEF ExchangeTypeOK
  <2>7. net' \in [Proc \X Proc -> Seq(Message)]
    BY <1>0, <2>1, <2>3, TailOf DEF ExchangeTypeOK
  <2>8. Messages(x) \in Seq(Message) /\ x.round \in 1..Rounds
    BY MessagesType, PartsType
  <2>9. incoming_' \in [Proc -> [1..Rounds -> SUBSET Seq(Message)]]
    <3>1. incoming_[p][x.round] \in SUBSET Seq(Message)
      BY <1>a, <2>8
    <3>2. incoming_[p][x.round] \cup {Messages(x)} \in SUBSET Seq(Message)
      BY <2>8, <3>1
    <3>3. CASE UNCHANGED incoming_
      BY <1>a, <3>3
    <3>4. CASE incoming_' = [incoming_ EXCEPT ![p][x.round] = @ \cup {Messages(x)}]
      BY <1>a, <2>8, <3>2, <3>4, OneEntry
    <3> QED
      BY <2>2, <3>3, <3>4
  <2>10. received' \in [Proc -> [1..Rounds -> Nat]]
    <3>1. received[p][x.round] \in Nat
      BY <1>a, <2>8
    <3>2. received[p][x.round] + 1 \in Nat
      BY <3>1
    <3>3. CASE UNCHANGED received
      BY <1>a, <3>3
    <3>4. CASE received' = [received EXCEPT ![p][x.round] = @ + 1]
      BY <1>a, <2>8, <3>2, <3>4, OneEntry
    <3> QED
      BY <2>2, <3>3, <3>4
  <2> QED
    BY <1>0, <2>3, <2>6, <2>7, <2>9, <2>10 DEF ExchangeTypeOK
<1>8. ASSUME NEW p \in Proc, Again(p) PROVE ExchangeTypeOK'
  BY <1>0, <1>8 DEF ExchangeTypeOK, Again
<1>9. ASSUME NEW p \in Proc, End(p) PROVE ExchangeTypeOK'
  BY <1>0, <1>9 DEF ExchangeTypeOK, End
<1> QED
  BY <1>1, <1>2, <1>3, <1>4, <1>5, <1>6, <1>7, <1>8, <1>9 DEF Next, Step, Finished

LEMMA StreamsStep == ExchangeInv /\ [Next]_vars => Streams'
<1> SUFFICES ASSUME ExchangeInv, [Next]_vars PROVE Streams'
  OBVIOUS
<1>0. /\ Streams
      /\ net \in [Proc \X Proc -> Seq(Message)]
      /\ inflight_recvs \in [Proc \X Proc -> [parts : Seq(Message), left : Nat]]
  BY DEF ExchangeInv, ExchangeTypeOK
<1>1. ASSUME UNCHANGED <<net, inflight_recvs>> PROVE Streams'
  BY <1>0, <1>1 DEF Streams, Coming
<1>2. ASSUME NEW p \in Proc, NEW x \in outgoing_[p], SendDifferentRank(p, x) PROVE Streams'
  <2> SUFFICES ASSUME NEW q \in Proc, NEW r \in Proc
               PROVE  /\ Continues(net'[q, r], inflight_recvs'[r, q])
                      /\ \A y \in Coming(q, r)' : Owner[y.from] = q /\ Owner[y.to] = r
    BY DEF Streams
  <2>1. /\ x \in Queue /\ Owner[x.from] = p /\ Owner[x.to] \in Proc
        /\ Coming(q, r)' = IF q = p /\ r = Owner[x.to] THEN Coming(q, r) \cup {x} ELSE Coming(q, r)
    BY <1>2, SendDifferentRankStays
  <2>2. \A y \in Coming(q, r)' : Owner[y.from] = q /\ Owner[y.to] = r
    <3>1. \A y \in Coming(q, r) : Owner[y.from] = q /\ Owner[y.to] = r
      BY <1>0 DEF Streams
    <3> QED
      BY <2>1, <3>1
  <2>3. /\ net' = [net EXCEPT ![<<p, Owner[x.to]>>] = @ \o Messages(x)]
        /\ UNCHANGED inflight_recvs
    BY <1>2 DEF SendDifferentRank
  <2>4. net[q, r] \in Seq(Message) /\ Continues(net[q, r], inflight_recvs[r, q])
    BY <1>0 DEF Streams
  <2>5. CASE q = p /\ r = Owner[x.to]
    <3>1. net'[q, r] = net[q, r] \o Messages(x)
      BY <1>0, <2>3, <2>5
    <3>2. x \notin Coming(q, r)
      BY <2>5 DEF ExchangeInv, Once
    <3>3. \A m \in ToSet(net[q, r]) : m.queue # x
      BY <3>2 DEF Coming, Queues
    <3>4. Continues(net[q, r] \o Messages(x), inflight_recvs[r, q])
      BY <2>1, <2>4, <3>3, ContinuesAfterSend
    <3> QED
      BY <2>2, <2>3, <3>1, <3>4
  <2>6. CASE ~(q = p /\ r = Owner[x.to])
    <3>1. net'[q, r] = net[q, r]
      BY <1>0, <2>1, <2>3, <2>6
    <3> QED
      BY <2>2, <2>3, <2>4, <3>1
  <2> QED
    BY <2>5, <2>6
<1>3. ASSUME NEW p \in Proc, NEW q \in Proc, Receive(p, q) PROVE Streams'
  <2> SUFFICES ASSUME NEW s \in Proc, NEW r \in Proc
               PROVE  /\ Continues(net'[s, r], inflight_recvs'[r, s])
                      /\ \A y \in Coming(s, r)' : Owner[y.from] = s /\ Owner[y.to] = r
    BY DEF Streams
  <2>1. Coming(s, r)' \subseteq Coming(s, r)
    <3>1. PICK x \in Queue :
            \/ Coming(s, r)' = Coming(s, r)
            \/ Coming(s, r)' = IF s = q /\ r = p THEN Coming(s, r) \ {x} ELSE Coming(s, r)
      BY <1>3, ReceiveEffect
    <3> QED
      BY <3>1
  <2>2. \A y \in Coming(s, r)' : Owner[y.from] = s /\ Owner[y.to] = r
    BY <1>0, <2>1 DEF Streams
  <2>3. net[s, r] \in Seq(Message) /\ Continues(net[s, r], inflight_recvs[r, s])
    BY <1>0 DEF Streams
  <2> DEFINE new == Assemble(inflight_recvs[p, q], Head(net[q, p]))
  <2>4. /\ net[q, p] # <<>>
        /\ net' = [net EXCEPT ![<<q, p>>] = Tail(net[q, p])]
        /\ \/ new.left > 0 /\ inflight_recvs' = [inflight_recvs EXCEPT ![<<p, q>>] = new]
           \/ new.left = 0 /\ inflight_recvs' = [inflight_recvs EXCEPT ![<<p, q>>] = NoRecv]
    BY <1>3 DEF Receive
  <2> HIDE DEF new
  <2>5. CASE s = q /\ r = p
    <3>1. /\ new \in [parts : Seq(Message), left : Nat]
          /\ new.left # 0 => Continues(Tail(net[q, p]), new)
          /\ new.left = 0 => Continues(Tail(net[q, p]), NoRecv)
      <4>1. net[q, p] \in Seq(Message) /\ Continues(net[q, p], inflight_recvs[p, q])
        BY <2>3, <2>5
      <4> QED
        BY <2>4, <4>1, ContinuesAfterReceive DEF new
    <3>2. net'[s, r] = Tail(net[q, p])
      BY <1>0, <2>4, <2>5
    <3>3. CASE new.left # 0
      <4>1. inflight_recvs'[r, s] = new
        <5>1. inflight_recvs' = [inflight_recvs EXCEPT ![<<p, q>>] = new]
          BY <2>4, <3>3
        <5> QED
          BY <1>0, <2>5, <5>1
      <4> QED
        BY <2>2, <3>1, <3>2, <3>3, <4>1
    <3>4. CASE new.left = 0
      <4>1. inflight_recvs'[r, s] = NoRecv
        <5>1. inflight_recvs' = [inflight_recvs EXCEPT ![<<p, q>>] = NoRecv]
          <6>1. ~(new.left > 0)
            BY <3>4
          <6> QED
            BY <2>4, <6>1
        <5> QED
          BY <1>0, <2>5, <5>1
      <4> QED
        BY <2>2, <3>1, <3>2, <3>4, <4>1
    <3> QED
      BY <3>3, <3>4
  <2>6. CASE ~(s = q /\ r = p)
    <3>1. net'[s, r] = net[s, r] /\ inflight_recvs'[r, s] = inflight_recvs[r, s]
      BY <1>0, <2>4, <2>6
    <3> QED
      BY <2>2, <2>3, <3>1
  <2> QED
    BY <2>5, <2>6
<1>4. CASE UNCHANGED vars
  BY <1>1, <1>4 DEF vars
<1>5. ASSUME NEW p \in Proc,
             \/ Begin(p) \/ Nudge(p) \/ Again(p) \/ End(p)
             \/ \E b \in Block : PopBlock(p, b)
             \/ \E x \in outgoing_[p] : SendSameRank(p, x)
      PROVE  Streams'
  BY <1>1, <1>5 DEF Begin, Nudge, Again, End, PopBlock, SendSameRank
<1> QED
  BY <1>2, <1>3, <1>4, <1>5 DEF Next, Step, Finished

(***************************************************************************)
(* In terms of queues a step begins an exchange, moves one queue from      *)
(* where it is pending to its place, or moves none.                        *)
(***************************************************************************)
LEMMA Moves ==
  ASSUME ExchangeInv, [Next]_vars
  PROVE  \/ \E p \in Proc : Begin(p)
         \/ UNCHANGED <<exchange_round_, posted>> /\ (Stay \/ \E x \in Queue : Place(x))
<1>1. CASE UNCHANGED vars
  BY <1>1, StayWhen DEF vars
<1>2. ASSUME NEW p \in Proc, Nudge(p) \/ Again(p) \/ \E b \in Block : PopBlock(p, b)
      PROVE  UNCHANGED <<exchange_round_, posted>> /\ Stay
  BY <1>2, StayWhen DEF Nudge, Again, PopBlock
<1>3. ASSUME NEW p \in Proc, End(p)
      PROVE  UNCHANGED <<exchange_round_, posted>> /\ Stay
  BY <1>3, EndStays DEF End
<1>4. ASSUME NEW p \in Proc, NEW x \in outgoing_[p], SendSameRank(p, x)
      PROVE  UNCHANGED <<exchange_round_, posted>> /\ \E y \in Queue : Place(y)
  BY <1>4, SendSameRankPlaces DEF SendSameRank
<1>5. ASSUME NEW p \in Proc, NEW x \in outgoing_[p], SendDifferentRank(p, x)
      PROVE  UNCHANGED <<exchange_round_, posted>> /\ Stay
  BY <1>5, SendDifferentRankStays DEF SendDifferentRank
<1>6. ASSUME NEW p \in Proc, NEW q \in Proc, Receive(p, q)
      PROVE  UNCHANGED <<exchange_round_, posted>> /\ (Stay \/ \E y \in Queue : Place(y))
  <2>1. UNCHANGED <<exchange_round_, posted>>
    BY <1>6 DEF Receive
  <2>2. Stay \/ \E y \in Queue : Place(y)
    BY <1>6, ReceiveEffect
  <2> QED
    BY <2>1, <2>2
<1> QED
  BY <1>1, <1>2, <1>3, <1>4, <1>5, <1>6 DEF Next, Step, Finished

LEMMA AliveStays ==
  ASSUME Stay \/ \E x \in Queue : Place(x)
  PROVE  /\ Alive' = Alive /\ Pending' \subseteq Pending
         /\ Pending \cap Placed = {} => Pending' \cap Placed' = {}
<1>1. CASE Stay
  BY <1>1 DEF Stay, Alive
<1>2. ASSUME NEW x \in Queue, Place(x)
      PROVE  /\ Alive' = Alive /\ Pending' \subseteq Pending
             /\ Pending \cap Placed = {} => Pending' \cap Placed' = {}
  BY <1>2 DEF Place, Alive
<1> QED
  BY <1>1, <1>2

LEMMA SameQueue ==
  ASSUME NEW x \in Queue, NEW y \in Queue, Same(x, y), x.full <=> y.full
  PROVE  x = y
<1>1. x.full \in BOOLEAN /\ y.full \in BOOLEAN
  BY DEF Queue
<1>2. x.full = y.full
  BY <1>1
<1>3. /\ x = [from |-> x.from, to |-> x.to, round |-> x.round, full |-> x.full]
      /\ y = [from |-> y.from, to |-> y.to, round |-> y.round, full |-> y.full]
  BY DEF Queue
<1> QED
  BY <1>2, <1>3 DEF Same

\* The queues of a new exchange are new.
LEMMA NewQueuesAreNew ==
  ASSUME ExchangeInv, NEW p \in Proc, NEW k \in 1..Rounds, k = exchange_round_[p] + 1,
         NEW S \in SUBSET Targets(p, k), NEW x \in NewQueues(p, S, k)
  PROVE  \A y \in Alive : ~Same(x, y) /\ x # y /\ ~(y.from = x.from /\ y.round = k)
<1> SUFFICES ASSUME NEW y \in Alive, y.from = x.from /\ y.round = k
             PROVE  FALSE
  BY NewQueue DEF Same
<1>1. Owner[x.from] = p
  BY NewQueue
<1>2. y.round <= exchange_round_[p]
  BY <1>1 DEF ExchangeInv, Made
<1>3. exchange_round_[p] \in Int
  BY DEF ExchangeInv, ExchangeTypeOK
<1> QED
  BY <1>2, <1>3

LEMMA OnceStep == ExchangeInv /\ [Next]_vars => Once'
<1> SUFFICES ASSUME ExchangeInv, [Next]_vars PROVE Once'
  OBVIOUS
<1>0. Once /\ outgoing_ \in [Proc -> SUBSET Queue]
  BY DEF ExchangeInv, ExchangeTypeOK
<1>1. ASSUME NEW p \in Proc, Begin(p) PROVE Once'
  <2> DEFINE k == exchange_round_[p] + 1
  <2>1. PICK S \in SUBSET Targets(p, k) :
          /\ outgoing_' = [outgoing_ EXCEPT ![p] = NewQueues(p, S, k)]
          /\ Pending' = Pending \cup NewQueues(p, S, k)
          /\ Placed' \subseteq Placed
    BY <1>1, BeginEffect
  <2>2. k \in 1..Rounds /\ \A q, r \in Proc : Coming(q, r)' = Coming(q, r)
    BY <1>1, BeginEffect
  <2> DEFINE N == NewQueues(p, S, k)
  <2>3. \A x \in N : /\ x \in Queue /\ Owner[x.from] = p
                     /\ \A y \in Alive : ~Same(x, y) /\ x # y
    <3> SUFFICES ASSUME NEW x \in N
                 PROVE  /\ x \in Queue /\ Owner[x.from] = p
                        /\ \A y \in Alive : ~Same(x, y) /\ x # y
      OBVIOUS
    <3>1. x \in Queue /\ Owner[x.from] = p
      BY <2>2, NewQueue
    <3>2. \A y \in Alive : ~Same(x, y) /\ x # y
      BY <2>2, NewQueuesAreNew
    <3> QED
      BY <3>1, <3>2
  <2>4. \A x, y \in N : Same(x, y) => x = y
    <3> SUFFICES ASSUME NEW x \in N, NEW y \in N, Same(x, y) PROVE x = y
      OBVIOUS
    <3>1. x.full <=> <<x.from, x.to>> \in S
      BY <2>2, NewQueueFull
    <3>2. y.full <=> <<y.from, y.to>> \in S
      BY <2>2, NewQueueFull
    <3>3. x.full <=> y.full
      BY <3>1, <3>2 DEF Same
    <3> QED
      BY <2>3, <3>3, SameQueue
  <2> HIDE DEF N
  <2>5. \A x, y : Same(x, y) <=> Same(y, x)
    BY DEF Same
  <2>6. \A x, y \in Alive' : Same(x, y) => x = y
    <3>1. Alive' \subseteq Alive \cup N
      BY <2>1 DEF Alive, N
    <3> QED
      BY <1>0, <2>3, <2>4, <2>5, <3>1 DEF Once
  <2>7. Pending' \cap Placed' = {}
    BY <1>0, <2>1, <2>3 DEF Once, Alive, N
  <2>8. ASSUME NEW q \in Proc, NEW x \in outgoing_'[q] PROVE x \notin Coming(q, Owner[x.to])'
    <3>1. CASE q = p
      <4>1. x \in N
        BY <1>0, <2>1, <2>8, <3>1 DEF N
      <4>2. x \notin Alive /\ Owner[x.to] \in Proc
        BY <2>3, <4>1, PartsType
      <4> QED
        BY <2>2, <4>2, WhereQueuesAre DEF Alive
    <3>2. CASE q # p
      <4>1. x \in outgoing_[q]
        BY <1>0, <2>1, <2>8, <3>2
      <4>2. Owner[x.to] \in Proc /\ x \notin Coming(q, Owner[x.to])
        BY <1>0, <4>1, PartsType DEF Once
      <4> QED
        BY <2>2, <4>2
    <3> QED
      BY <3>1, <3>2
  <2> QED
    BY <2>6, <2>7, <2>8 DEF Once
<1>2. CASE ~\E p \in Proc : Begin(p)
  <2>1. /\ \A x, y \in Alive' : Same(x, y) => x = y
        /\ Pending' \cap Placed' = {}
    BY <1>0, <1>2, Moves, AliveStays DEF Once
  <2>2. ASSUME \A q \in Proc : outgoing_'[q] \subseteq outgoing_[q],
               \A q, r \in Proc : Coming(q, r)' \subseteq Coming(q, r)
        PROVE  Once'
    <3> SUFFICES ASSUME NEW q \in Proc, NEW x \in outgoing_'[q] PROVE x \notin Coming(q, Owner[x.to])'
      BY <2>1 DEF Once
    <3>1. x \in outgoing_[q] /\ x \in Queue
      BY <1>0, <2>2
    <3>2. Owner[x.to] \in Proc /\ x \notin Coming(q, Owner[x.to])
      BY <1>0, <3>1, PartsType DEF Once
    <3> QED
      BY <2>2, <3>2
  <2>3. ASSUME UNCHANGED <<outgoing_, net>> PROVE Once'
    BY <2>2, <2>3 DEF Coming
  <2>4. ASSUME NEW p \in Proc, NEW x \in outgoing_[p], SendSameRank(p, x) PROVE Once'
    <3>1. outgoing_' = [outgoing_ EXCEPT ![p] = @ \ {x}]
      BY <2>4 DEF SendSameRank
    <3>2. \A q \in Proc : outgoing_'[q] \subseteq outgoing_[q]
      BY <1>0, <3>1
    <3> QED
      BY <2>2, <2>4, <3>2, SendSameRankPlaces
  <2>5. ASSUME NEW p \in Proc, NEW x \in outgoing_[p], SendDifferentRank(p, x) PROVE Once'
    <3> SUFFICES ASSUME NEW q \in Proc, NEW y \in outgoing_'[q] PROVE y \notin Coming(q, Owner[y.to])'
      BY <2>1 DEF Once
    <3>1. outgoing_' = [outgoing_ EXCEPT ![p] = @ \ {x}]
      BY <2>5 DEF SendDifferentRank
    <3>2. y \in outgoing_[q] /\ (q = p => y # x)
      BY <1>0, <3>1
    <3>3. Owner[y.to] \in Proc /\ y \notin Coming(q, Owner[y.to])
      BY <1>0, <3>2, PartsType DEF Once
    <3>4. Coming(q, Owner[y.to])' = IF q = p /\ Owner[y.to] = Owner[x.to]
                                    THEN Coming(q, Owner[y.to]) \cup {x} ELSE Coming(q, Owner[y.to])
      BY <2>5, <3>3, SendDifferentRankStays
    <3> QED
      BY <3>2, <3>3, <3>4
  <2>6. ASSUME NEW p \in Proc, NEW q \in Proc, Receive(p, q) PROVE Once'
    <3>1. UNCHANGED outgoing_
      BY <2>6 DEF Receive
    <3>2. \A s, r \in Proc : Coming(s, r)' \subseteq Coming(s, r)
      <4>1. PICK x \in Queue :
              \/ \A s, r \in Proc : Coming(s, r)' = Coming(s, r)
              \/ \A s, r \in Proc : Coming(s, r)' = IF s = q /\ r = p THEN Coming(s, r) \ {x}
                                                                    ELSE Coming(s, r)
        BY <2>6, ReceiveEffect
      <4> QED
        BY <4>1
    <3> QED
      BY <2>2, <3>1, <3>2
  <2>7. ASSUME NEW p \in Proc, Nudge(p) \/ Again(p) \/ (\E b \in Block : PopBlock(p, b)) PROVE Once'
    BY <2>3, <2>7 DEF Nudge, Again, PopBlock
  <2>8. ASSUME NEW p \in Proc, End(p) PROVE Once'
    BY <2>2, <2>8, EndStays
  <2>9. CASE UNCHANGED vars
    BY <2>3, <2>9 DEF vars
  <2> QED
    BY <1>2, <2>4, <2>5, <2>6, <2>7, <2>8, <2>9 DEF Next, Step, Finished
<1> QED
  BY <1>1, <1>2

LEMMA MadeStep == ExchangeInv /\ [Next]_vars => Made'
<1> SUFFICES ASSUME ExchangeInv, [Next]_vars PROVE Made'
  OBVIOUS
<1>0. /\ Made
      /\ exchange_round_ \in [Proc -> 0..Rounds]
      /\ posted \subseteq Block \X Block \X (1..Rounds)
      /\ Rounds \in Nat
  BY ExchangeAssumption DEF ExchangeInv, ExchangeTypeOK
<1>1. ASSUME NEW p \in Proc, Begin(p) PROVE Made'
  <2> DEFINE old == exchange_round_[p]
             k   == exchange_round_[p] + 1
  <2>1. /\ pc[p] = "foreach" /\ old \in 0..Rounds /\ k \in 1..Rounds
        /\ exchange_round_' = [exchange_round_ EXCEPT ![p] = k]
    BY <1>1, BeginEffect
  <2>2. PICK S \in SUBSET Targets(p, k) :
          /\ Pending' = Pending \cup NewQueues(p, S, k)
          /\ Placed' = {x \in Placed : ~(Owner[x.to] = p /\ x.round = old)}
          /\ posted' = {t \in posted : t[3] # old \/ Owner[t[2]] # p} \cup {<<t[1], t[2], k>> : t \in S}
    BY <1>1, BeginEffect
  <2> DEFINE N == NewQueues(p, S, k)
             Kept(x) == ~(Owner[x.to] = p /\ x.round = old)
  <2>3. old \in Int /\ k = old + 1 /\ k = exchange_round_[p] + 1
    BY <2>1
  <2> HIDE DEF old, k
  <2>4. \A x \in N : x \in Queue /\ Owner[x.from] = p /\ x.round = k /\ MayBe(x)
    <3> SUFFICES ASSUME NEW x \in N
                 PROVE  x \in Queue /\ Owner[x.from] = p /\ x.round = k /\ MayBe(x)
      OBVIOUS
    <3> QED
      BY <2>1, NewQueue
  <2>5. \A x \in N : x.full <=> <<x.from, x.to>> \in S
    <3> SUFFICES ASSUME NEW x \in N PROVE x.full <=> <<x.from, x.to>> \in S
      OBVIOUS
    <3> QED
      BY <2>1, NewQueueFull
  <2>6. \A t \in S : t \in Block \X Block /\ Owner[t[1]] = p /\ Full(t, k) \in N
    BY ExchangeAssumption DEF Targets, NewQueues
  <2> HIDE DEF N
  <2>7. \A x : x \in Alive' <=> x \in N \/ (x \in Alive /\ Kept(x))
    <3>1. ASSUME NEW x \in Pending PROVE Kept(x)
      <4>1. x \in Queue /\ (Owner[x.to] = p => x.round > Ended(p))
        BY DEF ExchangeInv, OnTime, Pending
      <4>2. Ended(p) = old
        BY <2>1 DEF Ended, old
      <4> QED
        BY <2>1, <4>1, <4>2
    <3> QED
      BY <2>2, <3>1 DEF Alive, N
  <2>8. \A x \in Alive : x \in Queue /\ x.round <= exchange_round_[Owner[x.from]]
    BY <1>0 DEF Made, Alive, Pending, Placed
  <2>9. ASSUME NEW x \in Alive'
        PROVE  /\ x.round <= exchange_round_'[Owner[x.from]]
               /\ MayBe(x)
               /\ x.full <=> <<x.from, x.to, x.round>> \in posted'
    <3>1. CASE x \in N
      <4>1. x.round <= exchange_round_'[Owner[x.from]] /\ MayBe(x)
        BY <1>0, <2>1, <2>4, <3>1
      <4>2. <<x.from, x.to, x.round>> \notin posted
        <5> SUFFICES ASSUME <<x.from, x.to, x.round>> \in posted PROVE FALSE
          OBVIOUS
        <5> DEFINE t == <<x.from, x.to, x.round>>
                   y == [from |-> t[1], to |-> t[2], round |-> t[3], full |-> TRUE]
        <5>1. y \in Alive
          BY <1>0 DEF Made
        <5>2. y.from = x.from /\ y.round = k
          BY <2>4, <3>1
        <5> HIDE DEF y
        <5> QED
          BY <2>1, <2>3, <3>1, <5>1, <5>2, NewQueuesAreNew DEF N
      <4>3. <<x.from, x.to, k>> \in {<<t[1], t[2], k>> : t \in S} <=> <<x.from, x.to>> \in S
        <5>1. \A t \in S : t = <<t[1], t[2]>>
          BY <2>6
        <5> QED
          BY <5>1
      <4>4. <<x.from, x.to, x.round>> \in posted' <=> <<x.from, x.to>> \in S
        BY <2>2, <2>4, <3>1, <4>2, <4>3
      <4> QED
        BY <2>5, <3>1, <4>1, <4>4
    <3>2. CASE x \in Alive /\ Kept(x)
      <4>1. x \in Queue /\ x.round <= exchange_round_[Owner[x.from]] /\ Owner[x.from] \in Proc
            /\ x.round \in Int
        BY <2>8, <3>2, PartsType
      <4>2. x.round <= exchange_round_'[Owner[x.from]]
        BY <1>0, <2>1, <2>3, <4>1 DEF old
      <4>3. MayBe(x) /\ (x.full <=> <<x.from, x.to, x.round>> \in posted)
        BY <1>0, <3>2 DEF Made
      <4>4. <<x.from, x.to, x.round>> \notin {<<t[1], t[2], k>> : t \in S}
        <5> SUFFICES ASSUME NEW t \in S, <<x.from, x.to, x.round>> = <<t[1], t[2], k>> PROVE FALSE
          OBVIOUS
        <5>1. Owner[x.from] = p /\ x.round = k
          BY <2>6
        <5> QED
          BY <2>3, <4>1, <5>1 DEF old
      <4>5. <<x.from, x.to, x.round>> \in posted' <=> <<x.from, x.to, x.round>> \in posted
        BY <2>2, <3>2, <4>4
      <4> QED
        BY <4>2, <4>3, <4>5
    <3> QED
      BY <2>7, <2>9, <3>1, <3>2
  <2>10. ASSUME NEW t \in posted'
         PROVE  [from |-> t[1], to |-> t[2], round |-> t[3], full |-> TRUE] \in Alive'
    <3>1. CASE t \in posted /\ (t[3] # old \/ Owner[t[2]] # p)
      <4> DEFINE y == [from |-> t[1], to |-> t[2], round |-> t[3], full |-> TRUE]
      <4>1. y \in Alive
        BY <1>0, <3>1 DEF Made
      <4>2. Kept(y)
        BY <3>1
      <4> QED
        BY <2>7, <4>1, <4>2
    <3>2. CASE \E u \in S : t = <<u[1], u[2], k>>
      <4>1. PICK u \in S : t = <<u[1], u[2], k>>
        BY <3>2
      <4>2. [from |-> t[1], to |-> t[2], round |-> t[3], full |-> TRUE] = Full(u, k)
        BY <4>1 DEF Full
      <4> QED
        BY <2>6, <2>7, <4>2
    <3> QED
      BY <2>2, <2>10, <3>1, <3>2
  <2>11. ASSUME NEW l \in Link, NEW j \in 1..Rounds, ~IsRemote(j),
                exchange_round_'[Owner[l[2]]] <= j, j <= exchange_round_'[Owner[l[1]]]
         PROVE  \E x \in Alive' : x.from = l[1] /\ x.to = l[2] /\ x.round = j
    <3>1. /\ l \in Block \X Block /\ l = <<l[1], l[2]>>
          /\ Owner[l[1]] \in Proc /\ Owner[l[2]] \in Proc
      BY ExchangeAssumption
    <3>2. CASE Owner[l[1]] = p /\ j = k
      <4>1. CASE l \in S
        <5>1. Full(l, k) \in Alive'
          BY <2>6, <2>7, <4>1
        <5>2. Full(l, k).from = l[1] /\ Full(l, k).to = l[2] /\ Full(l, k).round = j
          BY <3>2 DEF Full
        <5> QED
          BY <5>1, <5>2
      <4>2. CASE l \notin S
        <5>1. Empty(l, k) \in N
          BY <2>11, <3>2, <4>2 DEF N, NewQueues, Touched, Empty
        <5>2. Empty(l, k).from = l[1] /\ Empty(l, k).to = l[2] /\ Empty(l, k).round = j
          BY <3>2 DEF Empty
        <5> QED
          BY <2>7, <5>1, <5>2
      <4> QED
        BY <4>1, <4>2
    <3>3. CASE ~(Owner[l[1]] = p /\ j = k)
      <4>1. j <= exchange_round_[Owner[l[1]]]
        BY <1>0, <2>1, <2>3, <2>11, <3>1, <3>3 DEF old
      <4>2. exchange_round_[Owner[l[2]]] <= j
        BY <1>0, <2>1, <2>3, <2>11, <3>1 DEF old
      <4>3. PICK x \in Alive : x.from = l[1] /\ x.to = l[2] /\ x.round = j
        BY <1>0, <2>11, <4>1, <4>2 DEF Made
      <4>4. Kept(x)
        BY <1>0, <2>1, <2>3, <2>11, <3>1, <4>3
      <4> QED
        BY <2>7, <4>3, <4>4
    <3> QED
      BY <3>2, <3>3
  <2> QED
    BY <2>9, <2>10, <2>11 DEF Made
<1>2. CASE ~\E p \in Proc : Begin(p)
  <2>1. Alive' = Alive /\ UNCHANGED <<exchange_round_, posted>>
    BY <1>2, Moves, AliveStays
  <2> QED
    BY <1>0, <2>1 DEF Made
<1> QED
  BY <1>1, <1>2

LEMMA SendingStep == ExchangeInv /\ [Next]_vars => Sending'
<1> SUFFICES ASSUME ExchangeInv, [Next]_vars PROVE Sending'
  OBVIOUS
<1>0. /\ Sending
      /\ pc \in [Proc -> {"foreach", "send", "check"}]
      /\ exchange_round_ \in [Proc -> 0..Rounds]
      /\ outgoing_ \in [Proc -> SUBSET Queue]
  BY DEF ExchangeInv, ExchangeTypeOK
<1>1. ASSUME NEW p \in Proc, Begin(p) PROVE Sending'
  <2> DEFINE k == exchange_round_[p] + 1
  <2>1. PICK S \in SUBSET Targets(p, k) : outgoing_' = [outgoing_ EXCEPT ![p] = NewQueues(p, S, k)]
    BY <1>1, BeginEffect
  <2>2. k \in 1..Rounds /\ exchange_round_' = [exchange_round_ EXCEPT ![p] = k]
    BY <1>1, BeginEffect
  <2>3. pc' = [pc EXCEPT ![p] = "send"] /\ gid_order' = [gid_order EXCEPT ![p] = Local(p)]
    BY <1>1 DEF Begin
  <2> HIDE DEF k
  <2>4. \A x \in NewQueues(p, S, k) : x.round = k
    <3> SUFFICES ASSUME NEW x \in NewQueues(p, S, k) PROVE x.round = k
      OBVIOUS
    <3> QED
      BY <2>2, NewQueue
  <2> SUFFICES ASSUME NEW q \in Proc
               PROVE  /\ \A x \in outgoing_'[q] : x.round = exchange_round_'[q]
                      /\ pc'[q] = "foreach" => outgoing_'[q] = {}
                      /\ pc'[q] = "check" => QueuesSent(q)'
                      /\ pc'[q] # "foreach" => exchange_round_'[q] > 0
    BY DEF Sending
  <2>5. CASE q = p
    BY <1>0, <2>1, <2>2, <2>3, <2>4, <2>5
  <2>6. CASE q # p
    <3>1. /\ pc'[q] = pc[q] /\ outgoing_'[q] = outgoing_[q] /\ exchange_round_'[q] = exchange_round_[q]
          /\ gid_order'[q] = gid_order[q]
      BY <1>0, <2>1, <2>2, <2>3, <2>6 DEF ExchangeInv, ExchangeTypeOK
    <3> QED
      BY <1>0, <3>1 DEF Sending, QueuesSent
  <2> QED
    BY <2>5, <2>6
<1>2. ASSUME NEW p \in Proc, NEW b \in Block, PopBlock(p, b) PROVE Sending'
  BY <1>0, <1>2 DEF Sending, QueuesSent, PopBlock
<1>3. ASSUME NEW p \in Proc, NEW x \in outgoing_[p], SendSameRank(p, x) \/ SendDifferentRank(p, x)
      PROVE  Sending'
  <2>1. /\ pc[p] = "send" /\ UNCHANGED <<pc, exchange_round_, gid_order>>
        /\ outgoing_' = [outgoing_ EXCEPT ![p] = @ \ {x}]
    BY <1>3 DEF SendSameRank, SendDifferentRank
  <2> QED
    BY <1>0, <2>1 DEF Sending, QueuesSent
<1>4. ASSUME NEW p \in Proc, Nudge(p) PROVE Sending'
  BY <1>0, <1>4 DEF Sending, QueuesSent, Nudge
<1>5. ASSUME NEW p \in Proc, NEW q \in Proc, Receive(p, q) PROVE Sending'
  BY <1>0, <1>5 DEF Sending, QueuesSent, Receive
<1>6. ASSUME NEW p \in Proc, Again(p) PROVE Sending'
  BY <1>0, <1>6 DEF Sending, QueuesSent, Again
<1>7. ASSUME NEW p \in Proc, End(p) PROVE Sending'
  <2>1. UNCHANGED <<exchange_round_, gid_order, outgoing_>> /\ pc' = [pc EXCEPT ![p] = "foreach"]
        /\ outgoing_[p] = {} /\ pc[p] = "check"
    BY <1>7, EndStays, NothingToSend DEF End
  <2> QED
    BY <1>0, <2>1 DEF Sending, QueuesSent
<1>8. CASE UNCHANGED vars
  BY <1>0, <1>8 DEF Sending, QueuesSent, vars
<1> QED
  BY <1>1, <1>2, <1>3, <1>4, <1>5, <1>6, <1>7, <1>8 DEF Next, Step, Finished

(***************************************************************************)
(* What is placed is counted.                                              *)
(***************************************************************************)
LEMMA PlaceCounts ==
  ASSUME ExchangeInv, NEW p \in Proc, NEW x \in Queue, Owner[x.to] = p, x \in Pending,
         incoming_' = [incoming_ EXCEPT ![p][x.round] = @ \cup {Messages(x)}],
         received' = [received EXCEPT ![p][x.round] = @ + 1]
  PROVE  Counted'
<1> DEFINE k == x.round
           s == Messages(x)
           v == incoming_[p][k] \cup {s}
           c == received[p][k] + 1
<1>1. /\ k \in 1..Rounds /\ s \in Seq(Message)
      /\ incoming_ \in [Proc -> [1..Rounds -> SUBSET Seq(Message)]]
      /\ received \in [Proc -> [1..Rounds -> Nat]]
  BY PartsType, MessagesType DEF ExchangeInv, ExchangeTypeOK
<1>2. incoming_' = [incoming_ EXCEPT ![p][k] = v] /\ received' = [received EXCEPT ![p][k] = c]
  OBVIOUS
<1>3. s \notin incoming_[p][k]
  BY DEF ExchangeInv, Once, Placed
<1> HIDE DEF k, s
<1>4. incoming_[p][k] \in SUBSET Seq(Message) /\ received[p][k] \in Nat
  BY <1>1
<1>5. v \in SUBSET Seq(Message) /\ c \in Nat
  BY <1>1, <1>4
<1>6. /\ IsFiniteSet(incoming_[p][k]) /\ received[p][k] = Cardinality(incoming_[p][k])
      /\ \A u \in incoming_[p][k] : \E y \in Queue : u = Messages(y) /\ Owner[y.to] = p /\ y.round = k
  BY <1>1 DEF ExchangeInv, Counted
<1>7. IsFiniteSet(v) /\ Cardinality(v) = c
  <2> DEFINE A == incoming_[p][k]
             n == received[p][k]
  <2>1. s \notin A /\ IsFiniteSet(A) /\ n = Cardinality(A)
    BY <1>3, <1>6
  <2> HIDE DEF A, n
  <2>2. IsFiniteSet(A \cup {s}) /\ Cardinality(A \cup {s}) = n + 1
    BY <2>1, FS_AddElement
  <2> QED
    BY <2>2 DEF A, n
<1>8. \A u \in v : \E y \in Queue : u = Messages(y) /\ Owner[y.to] = p /\ y.round = k
  BY <1>6 DEF s, k
<1> HIDE DEF v, c
<1>9. /\ incoming_'[p][k] = v /\ received'[p][k] = c
      /\ \A q \in Proc : \A j \in 1..Rounds : ~(q = p /\ j = k) =>
           incoming_'[q][j] = incoming_[q][j] /\ received'[q][j] = received[q][j]
  <2>1. /\ incoming_'[p][k] = v
        /\ \A q \in Proc : \A j \in 1..Rounds : ~(q = p /\ j = k) => incoming_'[q][j] = incoming_[q][j]
    <3> DEFINE f == incoming_
               g == incoming_'
    <3>1. f \in [Proc -> [1..Rounds -> SUBSET Seq(Message)]] /\ v \in SUBSET Seq(Message)
      BY <1>1, <1>5
    <3>2. g = [f EXCEPT ![p][k] = v]
      BY <1>2
    <3> HIDE DEF f, g
    <3>3. /\ g[p][k] = v
          /\ \A q \in Proc : \A j \in 1..Rounds : ~(q = p /\ j = k) => g[q][j] = f[q][j]
      BY <1>1, <3>1, <3>2
    <3> QED
      BY <3>3 DEF f, g
  <2>2. /\ received'[p][k] = c
        /\ \A q \in Proc : \A j \in 1..Rounds : ~(q = p /\ j = k) => received'[q][j] = received[q][j]
    <3> DEFINE f == received
               g == received'
    <3>1. f \in [Proc -> [1..Rounds -> Nat]] /\ c \in Nat
      BY <1>1, <1>5
    <3>2. g = [f EXCEPT ![p][k] = c]
      BY <1>2
    <3> HIDE DEF f, g
    <3>3. /\ g[p][k] = c
          /\ \A q \in Proc : \A j \in 1..Rounds : ~(q = p /\ j = k) => g[q][j] = f[q][j]
      BY <1>1, <3>1, <3>2
    <3> QED
      BY <3>3 DEF f, g
  <2> QED
    BY <2>1, <2>2
<1> SUFFICES ASSUME NEW q \in Proc, NEW j \in 1..Rounds
             PROVE  /\ \A u \in incoming_'[q][j] :
                         \E y \in Queue : u = Messages(y) /\ Owner[y.to] = q /\ y.round = j
                    /\ IsFiniteSet(incoming_'[q][j])
                    /\ received'[q][j] = Cardinality(incoming_'[q][j])
  BY DEF Counted
<1>10. CASE q = p /\ j = k
  <2>1. incoming_'[q][j] = v /\ received'[q][j] = c
    BY <1>9, <1>10
  <2> QED
    BY <1>7, <1>8, <1>10, <2>1, Zenon
<1>11. CASE ~(q = p /\ j = k)
  <2>1. incoming_'[q][j] = incoming_[q][j] /\ received'[q][j] = received[q][j]
    BY <1>9, <1>11
  <2> QED
    BY <2>1 DEF ExchangeInv, Counted
<1> QED
  BY <1>10, <1>11

LEMMA CountedStep == ExchangeInv /\ [Next]_vars => Counted'
<1> SUFFICES ASSUME ExchangeInv, [Next]_vars PROVE Counted'
  OBVIOUS
<1>0. /\ Counted
      /\ incoming_ \in [Proc -> [1..Rounds -> SUBSET Seq(Message)]]
      /\ received \in [Proc -> [1..Rounds -> Nat]]
  BY DEF ExchangeInv, ExchangeTypeOK
<1>1. ASSUME UNCHANGED <<incoming_, received>> PROVE Counted'
  BY <1>0, <1>1 DEF Counted
<1>2. ASSUME NEW p \in Proc, Begin(p) PROVE Counted'
  <2> DEFINE old == exchange_round_[p]
  <2>1. /\ incoming_' = [incoming_ EXCEPT ![p] = [i \in 1..Rounds |-> IF i = old THEN {} ELSE @[i]]]
        /\ received' = [received EXCEPT ![p] = [i \in 1..Rounds |-> IF i = old THEN 0 ELSE @[i]]]
    BY <1>2 DEF Begin
  <2> HIDE DEF old
  <2> SUFFICES ASSUME NEW q \in Proc, NEW j \in 1..Rounds
               PROVE  /\ \A u \in incoming_'[q][j] :
                           \E y \in Queue : u = Messages(y) /\ Owner[y.to] = q /\ y.round = j
                      /\ IsFiniteSet(incoming_'[q][j])
                      /\ received'[q][j] = Cardinality(incoming_'[q][j])
    BY DEF Counted
  <2>2. CASE q = p /\ j = old
    <3>1. incoming_'[q][j] = {} /\ received'[q][j] = 0
      BY <1>0, <2>1, <2>2
    <3> QED
      BY <3>1, FS_EmptySet
  <2>3. CASE ~(q = p /\ j = old)
    <3>1. incoming_'[q][j] = incoming_[q][j] /\ received'[q][j] = received[q][j]
      BY <1>0, <2>1, <2>3
    <3> QED
      BY <1>0, <3>1 DEF Counted
  <2> QED
    BY <2>2, <2>3
<1>3. ASSUME NEW p \in Proc, NEW x \in outgoing_[p], SendSameRank(p, x) PROVE Counted'
  <2>1. x \in Pending /\ x \in Queue /\ Owner[x.to] = p /\ x.round = exchange_round_[p]
    BY <1>3, SendSameRankPlaces DEF Place
  <2>2. /\ incoming_' = [incoming_ EXCEPT ![p][x.round] = @ \cup {Messages(x)}]
        /\ received' = [received EXCEPT ![p][x.round] = @ + 1]
    BY <1>3, <2>1 DEF SendSameRank
  <2> QED
    BY <2>1, <2>2, PlaceCounts
<1>4. ASSUME NEW p \in Proc, NEW q \in Proc, Receive(p, q) PROVE Counted'
  <2>1. PICK x \in Queue :
          /\ x \in Coming(q, p)
          /\ \/ UNCHANGED <<incoming_, received>>
             \/ /\ incoming_' = [incoming_ EXCEPT ![p][x.round] = @ \cup {Messages(x)}]
                /\ received' = [received EXCEPT ![p][x.round] = @ + 1]
    BY <1>4, ReceiveEffect
  <2>2. x \in Pending /\ Owner[x.to] = p
    BY <2>1, WhereQueuesAre
  <2> QED
    BY <1>1, <2>1, <2>2, PlaceCounts
<1>5. CASE UNCHANGED vars
  BY <1>1, <1>5 DEF vars
<1>6. ASSUME NEW p \in Proc,
             \/ Nudge(p) \/ Again(p) \/ End(p)
             \/ \E b \in Block : PopBlock(p, b)
             \/ \E x \in outgoing_[p] : SendDifferentRank(p, x)
      PROVE  Counted'
  BY <1>1, <1>6 DEF Nudge, Again, End, PopBlock, SendDifferentRank
<1> QED
  BY <1>2, <1>3, <1>4, <1>5, <1>6 DEF Next, Step, Finished

(***************************************************************************)
(* A plain exchange ends by counting.  As many queues are expected as      *)
(* there are links to the rank's blocks, what has been placed are queues   *)
(* along these links, and no link has two: so every link has one.          *)
(***************************************************************************)
LinksTo(p)   == {l \in Link : Owner[l[2]] = p}
LinksFrom(p) == {l \in Link : Owner[l[1]] = p}

LEMMA ExpectedLinks ==
  ASSUME NEW p \in Proc
  PROVE  IsFiniteSet(LinksTo(p)) /\ Expected(p) = Cardinality(LinksTo(p)) /\ Expected(p) \in Nat
<1> DEFINE A == LinksFrom(p)
           B == LinksTo(p)
           flip == [l \in A |-> <<l[2], l[1]>>]
<1>1. IsFiniteSet(Link)
  BY ExchangeAssumption, FS_Product, FS_Subset
<1>2. IsFiniteSet(A) /\ IsFiniteSet(B)
  BY <1>1, FS_Subset DEF LinksFrom, LinksTo
<1>3. \A l \in Link : l = <<l[1], l[2]>> /\ <<l[2], l[1]>> \in Link
  <2>1. \A l \in Block \X Block : l = <<l[1], l[2]>>
    OBVIOUS
  <2> QED
    BY <2>1, ExchangeAssumption
<1>4. flip \in [A -> B]
  BY <1>3 DEF LinksFrom, LinksTo
<1>5. \A l, m \in A : flip[l] = flip[m] => l = m
  BY <1>3 DEF LinksFrom
<1>6. \A m \in B : \E l \in A : flip[l] = m
  <2> SUFFICES ASSUME NEW m \in B PROVE \E l \in A : flip[l] = m
    OBVIOUS
  <2>1. <<m[2], m[1]>> \in A /\ m = <<m[1], m[2]>>
    BY <1>3 DEF LinksFrom, LinksTo
  <2> QED
    BY <2>1
<1> HIDE DEF flip
<1>7. flip \in Bijection(A, B)
  BY <1>4, <1>5, <1>6, Fun_IsBij, Zenon
<1>8. Cardinality(B) = Cardinality(A)
  <2>1. ExistsBijection(A, B)
    BY <1>7 DEF ExistsBijection
  <2> QED
    BY <1>2, <2>1, FS_Bijection
<1>9. Expected(p) = Cardinality(A)
  BY DEF Expected, LinksFrom
<1>10. Cardinality(A) \in Nat
  BY <1>2, FS_CardinalityType
<1> QED
  BY <1>2, <1>8, <1>9, <1>10

LEMMA EveryLinkHasCome ==
  ASSUME ExchangeInv, NEW p \in Proc, End(p), ~IsRemote(exchange_round_[p])
  PROVE  \A l \in LinksTo(p) : \E x \in Placed : /\ x.from = l[1] /\ x.to = l[2]
                                                 /\ x.round = exchange_round_[p]
<1> DEFINE k == exchange_round_[p]
           A == incoming_[p][k]
           Link2(s) == <<s[1].queue.from, s[1].queue.to>>
           f == [s \in A |-> Link2(s)]
<1>1. k \in 1..Rounds
  <2>1. pc[p] = "check" /\ k \in 0..Rounds
    BY DEF End, ExchangeInv, ExchangeTypeOK
  <2>2. k > 0
    BY <2>1 DEF ExchangeInv, Sending
  <2> QED
    BY <2>1, <2>2, ExchangeAssumption
<1>2. /\ IsFiniteSet(A) /\ received[p][k] = Cardinality(A)
      /\ \A s \in A : \E x \in Queue : s = Messages(x) /\ Owner[x.to] = p /\ x.round = k
  BY <1>1 DEF ExchangeInv, Counted
<1>3. Cardinality(A) >= Cardinality(LinksTo(p))
  BY <1>2, ExpectedLinks DEF End, PlainDone
<1>4. ~IsRemote(k)
  OBVIOUS
<1> HIDE DEF k
<1>5. \A s \in A : /\ s[1].queue \in Placed
                   /\ s[1].queue.round = k /\ s = Messages(s[1].queue)
                   /\ Link2(s) \in LinksTo(p)
  <2> SUFFICES ASSUME NEW s \in A
               PROVE  /\ s[1].queue \in Placed
                      /\ s[1].queue.round = k /\ s = Messages(s[1].queue)
                      /\ Link2(s) \in LinksTo(p)
    OBVIOUS
  <2>1. PICK x \in Queue : s = Messages(x) /\ Owner[x.to] = p /\ x.round = k
    BY <1>2
  <2>2. s[1].queue = x
    <3>1. Messages(x)[1] = Part(x, 1 - 1)
      BY PartsType, MessagesType
    <3> QED
      BY <2>1, <3>1 DEF Part
  <2>3. x \in Placed
    BY <2>1 DEF Placed
  <2>4. <<x.from, x.to>> \in Link
    BY <1>4, <2>1, <2>3 DEF ExchangeInv, Made, Alive, MayBe
  <2>5. <<x.from, x.to>> \in LinksTo(p)
    BY <2>1, <2>4 DEF LinksTo
  <2> QED
    BY <2>1, <2>2, <2>3, <2>5
<1>6. \A s, t \in A : Link2(s) = Link2(t) => s = t
  <2> SUFFICES ASSUME NEW s \in A, NEW t \in A, Link2(s) = Link2(t) PROVE s = t
    OBVIOUS
  <2>1. Same(s[1].queue, t[1].queue)
    <3>1. s[1].queue.from = t[1].queue.from /\ s[1].queue.to = t[1].queue.to
      OBVIOUS
    <3>2. s[1].queue.round = k /\ t[1].queue.round = k
      BY <1>5
    <3> QED
      BY <3>1, <3>2 DEF Same
  <2>2. s[1].queue = t[1].queue
    BY <1>5, <2>1 DEF ExchangeInv, Once, Alive
  <2> QED
    BY <1>5, <2>2
<1>7. f \in Injection(A, LinksTo(p))
  <2>1. f \in [A -> LinksTo(p)]
    BY <1>5
  <2>2. \A s, t \in A : f[s] = f[t] => s = t
    BY <1>6
  <2> HIDE DEF f, A
  <2> QED
    BY <2>1, <2>2, Fun_IsInj, Zenon
<1>8. f \in Surjection(A, LinksTo(p))
  <2> HIDE DEF f, A
  <2>1. Cardinality(A) \in Nat /\ Cardinality(LinksTo(p)) \in Nat
    BY <1>2, ExpectedLinks, FS_CardinalityType
  <2>2. /\ Cardinality(A) <= Cardinality(LinksTo(p))
        /\ Cardinality(A) = Cardinality(LinksTo(p)) => f \in Surjection(A, LinksTo(p))
    BY <1>7, ExpectedLinks, FS_Injection
  <2> QED
    BY <1>3, <2>1, <2>2
<1> SUFFICES ASSUME NEW l \in LinksTo(p)
             PROVE  \E x \in Placed : x.from = l[1] /\ x.to = l[2] /\ x.round = k
  BY DEF k
<1>9. PICK s \in A : f[s] = l
  BY <1>8 DEF Surjection
<1>10. Link2(s) = l
  BY <1>9
<1>11. s[1].queue.from = l[1] /\ s[1].queue.to = l[2]
  BY <1>10
<1> QED
  BY <1>5, <1>11

(***************************************************************************)
(* Who is in time.                                                         *)
(***************************************************************************)
LEMMA EndedType ==
  ASSUME ExchangeInv, NEW p \in Proc
  PROVE  /\ exchange_round_[p] \in 0..Rounds /\ Ended(p) \in 0..Rounds
         /\ Ended(p) <= exchange_round_[p] /\ Rounds \in Nat
<1>1. exchange_round_[p] \in 0..Rounds /\ Rounds \in Nat
  BY ExchangeAssumption DEF ExchangeInv, ExchangeTypeOK
<1>2. pc[p] # "foreach" => exchange_round_[p] > 0
  BY DEF ExchangeInv, Sending
<1> QED
  BY <1>1, <1>2 DEF Ended

LEMMA NearOfLink ==
  ASSUME NEW k \in 1..Rounds, NEW p \in Proc
  PROVE  /\ \A x \in Queue : x.round = k /\ MayBe(x) /\ Owner[x.to] = p => Owner[x.from] \in NearRanks[k][p]
         /\ IsRemote(k) => NearRanks[k][p] = Proc
         /\ ~IsRemote(k) => \A q \in NearRanks[k][p] : \E l \in LinksTo(p) : Owner[l[1]] = q
<1>1. NearRanks[k][p] = IF IsRemote(k) THEN Proc ELSE Neighbors(p)
  BY DEF NearRanks
<1>2. ASSUME NEW x \in Queue, x.round = k, MayBe(x), Owner[x.to] = p
      PROVE  Owner[x.from] \in NearRanks[k][p]
  <2>1. CASE IsRemote(k)
    BY <1>1, <2>1, PartsType
  <2>2. CASE ~IsRemote(k)
    <3>1. <<x.from, x.to>> \in Link
      BY <1>2, <2>2 DEF MayBe
    <3>2. <<x.to, x.from>> \in Link
      BY <3>1, ExchangeAssumption
    <3>3. Owner[x.from] \in Neighbors(p)
      BY <1>2, <3>2 DEF Neighbors
    <3> QED
      BY <1>1, <2>2, <3>3
  <2> QED
    BY <2>1, <2>2
<1>3. ASSUME ~IsRemote(k), NEW q \in NearRanks[k][p]
      PROVE  \E l \in LinksTo(p) : Owner[l[1]] = q
  <2>1. PICK l \in Link : Owner[l[1]] = p /\ Owner[l[2]] = q
    BY <1>1, <1>3 DEF Neighbors
  <2>2. <<l[2], l[1]>> \in LinksTo(p)
    BY <2>1, ExchangeAssumption DEF LinksTo
  <2> QED
    BY <2>1, <2>2
<1> QED
  BY <1>1, <1>2, <1>3

LEMMA OnTimeStep == ExchangeInv /\ [Next]_vars => OnTime'
<1> SUFFICES ASSUME ExchangeInv, [Next]_vars PROVE OnTime'
  OBVIOUS
<1>0. /\ OnTime
      /\ pc \in [Proc -> {"foreach", "send", "check"}]
      /\ exchange_round_ \in [Proc -> 0..Rounds]
  BY DEF ExchangeInv, ExchangeTypeOK
<1>1. ASSUME NEW p \in Proc, Begin(p) PROVE OnTime'
  <2> DEFINE old == exchange_round_[p]
             k   == exchange_round_[p] + 1
  <2>1. /\ pc[p] = "foreach" /\ old \in 0..Rounds /\ k \in 1..Rounds
        /\ exchange_round_' = [exchange_round_ EXCEPT ![p] = k]
    BY <1>1, BeginEffect
  <2>2. PICK S \in SUBSET Targets(p, k) : Pending' = Pending \cup NewQueues(p, S, k)
    BY <1>1, BeginEffect
  <2>3. pc' = [pc EXCEPT ![p] = "send"]
    BY <1>1 DEF Begin
  <2>4. k = old + 1 /\ exchange_round_[p] = old /\ old \in Int
    BY <2>1
  <2> HIDE DEF old, k
  <2>5. \A q \in Proc : /\ Ended(q)' = Ended(q) /\ exchange_round_'[q] >= exchange_round_[q]
                        /\ exchange_round_'[q] \in Int /\ exchange_round_[q] \in Int
    BY <1>0, <2>1, <2>3, <2>4 DEF Ended
  <2>6. ASSUME NEW x \in NewQueues(p, S, k) PROVE x.round > Ended(Owner[x.to])
    <3>1. x \in Queue /\ Owner[x.from] = p /\ x.round = k /\ MayBe(x)
      BY <2>1, NewQueue
    <3>2. Owner[x.to] \in Proc
      BY <3>1, PartsType
    <3>3. Ended(Owner[x.to]) \in 0..Rounds
      BY <3>2, EndedType
    <3>4. p \in NearRanks[k][Owner[x.to]]
      BY <2>1, <3>1, <3>2, NearOfLink
    <3>5. k \notin 1..Ended(Owner[x.to])
      <4>1. k \in 1..Ended(Owner[x.to]) => exchange_round_[p] >= k
        BY <1>0, <3>2, <3>4 DEF OnTime
      <4> QED
        BY <2>4, <4>1
    <3> QED
      BY <2>1, <3>1, <3>3, <3>5
  <2>7. \A x \in Pending' : x.round > Ended(Owner[x.to])'
    <3> SUFFICES ASSUME NEW x \in Pending' PROVE x.round > Ended(Owner[x.to])'
      OBVIOUS
    <3>1. Owner[x.to] \in Proc
      <4>1. x \in Queue
        BY DEF Pending
      <4> QED
        BY <4>1, PartsType
    <3>2. x.round > Ended(Owner[x.to])
      BY <1>0, <2>2, <2>6 DEF OnTime
    <3> QED
      BY <2>5, <3>1, <3>2
  <2>8. \A q \in Proc : \A j \in 1..Ended(q)' : \A r \in NearRanks[j][q] : exchange_round_'[r] >= j
    <3> SUFFICES ASSUME NEW q \in Proc, NEW j \in 1..Ended(q)', NEW r \in NearRanks[j][q]
                 PROVE  exchange_round_'[r] >= j
      OBVIOUS
    <3>1. j \in 1..Ended(q) /\ j \in 1..Rounds
      BY <2>5, EndedType
    <3>2. exchange_round_[r] >= j
      BY <1>0, <3>1 DEF OnTime
    <3>3. r \in Proc
      BY <3>1, ExchangeAssumption DEF NearRanks, Neighbors
    <3> QED
      BY <2>5, <3>1, <3>2, <3>3
  <2> QED
    BY <2>7, <2>8 DEF OnTime, NearRanks
<1>2. ASSUME NEW p \in Proc, End(p) PROVE OnTime'
  <2> DEFINE k == exchange_round_[p]
  <2>1. /\ pc[p] = "check" /\ pc' = [pc EXCEPT ![p] = "foreach"] /\ UNCHANGED exchange_round_
    BY <1>2 DEF End
  <2>2. k \in 1..Rounds
    <3>1. k > 0
      BY <2>1 DEF ExchangeInv, Sending
    <3> QED
      BY <3>1, EndedType
  <2>3. Pending' = Pending
    BY <1>2, EndStays DEF Stay
  <2>4. \A q \in Proc : Ended(q)' = IF q = p THEN k ELSE Ended(q)
    BY <1>0, <2>1 DEF Ended
  <2>5. Ended(p) = k - 1
    BY <2>1 DEF Ended
  <2>6. ASSUME NEW x \in Pending, Owner[x.to] = p, x.round = k PROVE FALSE
    <3>1. x \in Queue /\ x \in Alive /\ Owner[x.from] \in Proc
      BY PartsType DEF Pending, Alive
    <3>2. CASE IsRemote(k)
      <4>1. barrier[Owner[x.from]] >= k
        BY <1>2, <3>1, <3>2 DEF End, RemoteDone
      <4>2. barrier[Owner[x.from]] < k
        BY <2>6, <3>2 DEF ExchangeInv, Barriers
      <4>3. barrier[Owner[x.from]] \in Int
        BY <3>1 DEF ExchangeInv, ExchangeTypeOK
      <4> QED
        BY <2>2, <4>1, <4>2, <4>3
    <3>3. CASE ~IsRemote(k)
      <4>1. <<x.from, x.to>> \in Link
        BY <2>6, <3>1, <3>3 DEF ExchangeInv, Made, MayBe
      <4>2. <<x.from, x.to>> \in LinksTo(p)
        BY <2>6, <4>1 DEF LinksTo
      <4>3. PICK y \in Placed : y.from = x.from /\ y.to = x.to /\ y.round = k
        <5>1. \A l \in LinksTo(p) : \E y \in Placed : y.from = l[1] /\ y.to = l[2] /\ y.round = k
          BY <1>2, <3>3, EveryLinkHasCome
        <5> QED
          BY <4>2, <5>1
      <4>4. Same(x, y) /\ y \in Alive
        BY <2>6, <4>3 DEF Same, Alive
      <4> QED
        BY <2>6, <3>1, <4>4 DEF ExchangeInv, Once
    <3> QED
      BY <3>2, <3>3
  <2>7. ASSUME NEW q \in NearRanks[k][p] PROVE exchange_round_[q] >= k
    <3>1. CASE IsRemote(k)
      <4>1. q \in Proc
        BY <2>2, <2>7, <3>1, NearOfLink
      <4>2. barrier[q] >= k /\ barrier[q] <= exchange_round_[q]
        BY <1>2, <3>1, <4>1 DEF End, RemoteDone, ExchangeInv, Barriers
      <4>3. barrier[q] \in Int /\ exchange_round_[q] \in Int
        BY <1>0, <4>1 DEF ExchangeInv, ExchangeTypeOK
      <4> QED
        BY <2>2, <4>2, <4>3
    <3>2. CASE ~IsRemote(k)
      <4>1. PICK l \in LinksTo(p) : Owner[l[1]] = q
        BY <2>2, <2>7, <3>2, NearOfLink
      <4>2. PICK y \in Placed : y.from = l[1] /\ y.to = l[2] /\ y.round = k
        BY <1>2, <3>2, EveryLinkHasCome
      <4>3. k <= exchange_round_[q]
        BY <4>1, <4>2 DEF ExchangeInv, Made, Alive
      <4>4. exchange_round_[q] \in Int
        <5>1. q \in Proc
          BY <4>1, ExchangeAssumption DEF LinksTo
        <5> QED
          BY <1>0, <5>1
      <4> QED
        BY <2>2, <4>3, <4>4
    <3> QED
      BY <3>1, <3>2
  <2> HIDE DEF k
  <2>8. \A x \in Pending' : x.round > Ended(Owner[x.to])'
    <3> SUFFICES ASSUME NEW x \in Pending PROVE x.round > Ended(Owner[x.to])'
      BY <2>3
    <3>1. x.round > Ended(Owner[x.to]) /\ Owner[x.to] \in Proc /\ x.round \in Int
      <4>1. x \in Queue
        BY DEF Pending
      <4> QED
        BY <1>0, <4>1, PartsType DEF OnTime
    <3>2. CASE Owner[x.to] # p
      BY <2>4, <3>1, <3>2
    <3>3. CASE Owner[x.to] = p
      <4>1. x.round # k /\ x.round > k - 1
        BY <2>5, <2>6, <3>1, <3>3
      <4> QED
        BY <2>2, <2>4, <3>1, <3>3, <4>1
    <3> QED
      BY <3>2, <3>3
  <2>9. \A q \in Proc : \A j \in 1..Ended(q)' : \A r \in NearRanks[j][q] : exchange_round_'[r] >= j
    <3> SUFFICES ASSUME NEW q \in Proc, NEW j \in 1..Ended(q)', NEW r \in NearRanks[j][q]
                 PROVE  exchange_round_[r] >= j
      BY <2>1
    <3>1. CASE q = p /\ j = k
      BY <2>7, <3>1
    <3>2. CASE ~(q = p /\ j = k)
      <4>1. j \in 1..Ended(q)
        BY <2>2, <2>4, <2>5, <3>2, EndedType
      <4> QED
        BY <1>0, <4>1 DEF OnTime
    <3> QED
      BY <3>1, <3>2
  <2> QED
    BY <2>8, <2>9 DEF OnTime, NearRanks
<1>3. ASSUME ~\E p \in Proc : Begin(p), \A q \in Proc : Ended(q)' = Ended(q) PROVE OnTime'
  <2>1. Pending' \subseteq Pending /\ UNCHANGED exchange_round_
    BY <1>3, Moves, AliveStays
  <2>2. \A x \in Pending : Owner[x.to] \in Proc
    BY PartsType DEF Pending
  <2> QED
    BY <1>0, <1>3, <2>1, <2>2 DEF OnTime, NearRanks
<1>4. ASSUME NEW p \in Proc, Nudge(p) \/ Again(p), NEW q \in Proc PROVE Ended(q)' = Ended(q)
  BY <1>0, <1>4 DEF Nudge, Again, Ended
<1>5. ASSUME NEW p \in Proc, NEW q \in Proc,
             \/ \E b \in Block : PopBlock(p, b)
             \/ \E x \in outgoing_[p] : SendSameRank(p, x) \/ SendDifferentRank(p, x)
             \/ \E r \in Proc : Receive(p, r)
      PROVE  Ended(q)' = Ended(q)
  BY <1>5 DEF PopBlock, SendSameRank, SendDifferentRank, Receive, Ended
<1>6. CASE UNCHANGED vars
  <2>1. \A q \in Proc : Ended(q)' = Ended(q)
    BY <1>6 DEF vars, Ended
  <2> QED
    BY <1>1, <1>3, <2>1
<1> QED
  BY <1>1, <1>2, <1>3, <1>4, <1>5, <1>6 DEF Next, Step, Finished

(***************************************************************************)
(* What a synchronous send that has not been received holds back.          *)
(***************************************************************************)
Traveling(p, q) == ToSet(net[p, q])

NotReceived == \A p, q \in Proc : \A m \in Traveling(p, q) :
                 IsRemote(m.queue.round) /\ m.queue.round = exchange_round_[p] => m \in inflight_sends[p]

LEMMA NotReceivedStep == ExchangeInv /\ [Next]_vars => NotReceived'
<1> SUFFICES ASSUME ExchangeInv, [Next]_vars PROVE NotReceived'
  OBVIOUS
<1>0. /\ NotReceived
      /\ exchange_round_ \in [Proc -> 0..Rounds]
      /\ net \in [Proc \X Proc -> Seq(Message)]
      /\ inflight_sends \in [Proc -> SUBSET Message]
  BY DEF ExchangeInv, ExchangeTypeOK, Barriers, NotReceived, Traveling
<1>1. ASSUME UNCHANGED <<net, inflight_sends, exchange_round_>> PROVE NotReceived'
  BY <1>0, <1>1 DEF NotReceived, Traveling
<1>2. ASSUME NEW p \in Proc, NEW q \in Proc, NEW m \in Traveling(p, q)
      PROVE  m.queue \in Coming(p, q)
  BY <1>2 DEF Coming, Queues, Traveling
<1>3. ASSUME NEW p \in Proc, Begin(p) PROVE NotReceived'
  <2> DEFINE k == exchange_round_[p] + 1
  <2>1. exchange_round_' = [exchange_round_ EXCEPT ![p] = k] /\ exchange_round_[p] \in 0..Rounds
    BY <1>3, BeginEffect
  <2>2. UNCHANGED <<net, inflight_sends>>
    BY <1>3 DEF Begin
  <2> SUFFICES ASSUME NEW s \in Proc, NEW r \in Proc, NEW m \in Traveling(s, r),
                      IsRemote(m.queue.round), m.queue.round = exchange_round_'[s]
               PROVE  m \in inflight_sends[s]
    BY <2>2 DEF NotReceived, Traveling
  <2>3. CASE s = p
    <3>1. m.queue \in Pending /\ m.queue \in Queue /\ Owner[m.queue.from] = p
      <4>1. m.queue \in Coming(p, r)
        BY <1>2, <2>3
      <4> QED
        BY <4>1, WhereQueuesAre
    <3>2. m.queue.round <= exchange_round_[p]
      BY <3>1 DEF ExchangeInv, Made, Alive
    <3>3. m.queue.round = k
      BY <1>0, <2>1, <2>3
    <3>4. exchange_round_[p] \in 0..Rounds /\ Rounds \in Nat
      BY EndedType
    <3> QED
      BY <3>2, <3>3, <3>4
  <2>4. CASE s # p
    <3>1. exchange_round_'[s] = exchange_round_[s]
      BY <1>0, <2>1, <2>4
    <3>2. m.queue.round = exchange_round_[s]
      BY <3>1
    <3>3. NotReceived
      BY <1>0
    <3> QED
      BY <3>2, <3>3 DEF NotReceived
  <2> QED
    BY <2>3, <2>4
<1>4. ASSUME NEW p \in Proc, NEW x \in outgoing_[p], SendDifferentRank(p, x) PROVE NotReceived'
  <2> DEFINE new == {Messages(x)[i] : i \in DOMAIN Messages(x)}
  <2>1. x \in Queue /\ Owner[x.to] \in Proc
    BY <1>4, SendDifferentRankStays
  <2>2. /\ net' = [net EXCEPT ![<<p, Owner[x.to]>>] = @ \o Messages(x)]
        /\ inflight_sends' = [inflight_sends EXCEPT ![p] = @ \cup new]
        /\ UNCHANGED exchange_round_
    BY <1>4 DEF SendDifferentRank
  <2> SUFFICES ASSUME NEW s \in Proc, NEW r \in Proc, NEW m \in Traveling(s, r)',
                      IsRemote(m.queue.round), m.queue.round = exchange_round_[s]
               PROVE  m \in inflight_sends'[s]
    BY <2>2 DEF NotReceived, Traveling
  <2>3. m \in Traveling(s, r) \/ (s = p /\ m \in new)
    <3>1. CASE s = p /\ r = Owner[x.to]
      <4>1. net'[s, r] = net[s, r] \o Messages(x) /\ net[s, r] \in Seq(Message)
        BY <1>0, <2>1, <2>2, <3>1
      <4>2. m \in ToSet(net[s, r] \o Messages(x))
        BY <4>1 DEF Traveling
      <4>3. m \in ToSet(net[s, r]) \/ \E i \in DOMAIN Messages(x) : m = Messages(x)[i]
        BY <2>1, <4>1, <4>2, MessagesAfterSend
      <4> QED
        BY <3>1, <4>3 DEF Traveling
    <3>2. CASE ~(s = p /\ r = Owner[x.to])
      <4>1. net'[s, r] = net[s, r]
        BY <1>0, <2>1, <2>2, <3>2
      <4> QED
        BY <4>1 DEF Traveling
    <3> QED
      BY <3>1, <3>2
  <2> HIDE DEF new
  <2>4. m \in Traveling(s, r) => m \in inflight_sends[s]
    BY <1>0 DEF NotReceived
  <2> QED
    BY <1>0, <2>2, <2>3, <2>4
<1>5. ASSUME NEW p \in Proc, Nudge(p) PROVE NotReceived'
  <2>1. PICK S \in SUBSET Completable(p) : inflight_sends' = [inflight_sends EXCEPT ![p] = @ \ S]
    BY <1>5, Zenon DEF Nudge
  <2>2. UNCHANGED <<net, exchange_round_>>
    BY <1>5 DEF Nudge
  <2> SUFFICES ASSUME NEW s \in Proc, NEW r \in Proc, NEW m \in Traveling(s, r),
                      IsRemote(m.queue.round), m.queue.round = exchange_round_[s]
               PROVE  m \in inflight_sends'[s]
    BY <2>2 DEF NotReceived, Traveling
  <2>3. m \in inflight_sends[s]
    BY <1>0 DEF NotReceived
  <2>4. Owner[m.queue.to] = r
    <3>1. m.queue \in Coming(s, r)
      BY <1>2
    <3> QED
      BY <3>1, WhereQueuesAre
  <2>5. s = p => m \notin S
    <3> SUFFICES ASSUME s = p, m \in S PROVE FALSE
      OBVIOUS
    <3>1. m \in Matched(p)
      BY <2>1 DEF Completable
    <3>2. m \notin ToSet(net[p, Owner[m.queue.to]])
      BY <3>1 DEF Matched
    <3> QED
      BY <2>4, <3>2 DEF Traveling
  <2> QED
    BY <1>0, <2>1, <2>3, <2>5
<1>6. ASSUME NEW p \in Proc, NEW q \in Proc, Receive(p, q) PROVE NotReceived'
  <2>1. /\ net[q, p] # <<>> /\ net' = [net EXCEPT ![<<q, p>>] = Tail(net[q, p])]
        /\ UNCHANGED <<inflight_sends, exchange_round_>>
    BY <1>6 DEF Receive
  <2> SUFFICES ASSUME NEW s \in Proc, NEW r \in Proc, NEW m \in Traveling(s, r)'
               PROVE  m \in Traveling(s, r)
    BY <1>0, <2>1 DEF NotReceived
  <2>2. CASE s = q /\ r = p
    <3>1. net'[s, r] = Tail(net[q, p]) /\ net[q, p] \in Seq(Message)
      BY <1>0, <2>1, <2>2
    <3> QED
      BY <2>1, <2>2, <3>1, MessagesAfterReceive DEF Traveling
  <2>3. CASE ~(s = q /\ r = p)
    <3>1. net'[s, r] = net[s, r]
      BY <1>0, <2>1, <2>3
    <3> QED
      BY <3>1 DEF Traveling
  <2> QED
    BY <2>2, <2>3
<1>7. CASE UNCHANGED vars
  BY <1>1, <1>7 DEF vars
<1>8. ASSUME NEW p \in Proc,
             \/ Again(p) \/ End(p)
             \/ \E b \in Block : PopBlock(p, b)
             \/ \E x \in outgoing_[p] : SendSameRank(p, x)
      PROVE  NotReceived'
  BY <1>1, <1>8 DEF Again, End, PopBlock, SendSameRank
<1> QED
  BY <1>3, <1>4, <1>5, <1>6, <1>7, <1>8 DEF Next, Step, Finished

\* A rank that may join has nothing pending in a remote exchange.
LEMMA NothingPending ==
  ASSUME ExchangeInv, NEW p \in Proc, pc[p] = "check", MayJoin(p),
         NEW x \in Pending, Owner[x.from] = p, IsRemote(x.round)
  PROVE  FALSE
<1>1. x \in Queue /\ Owner[x.to] \in Proc /\ x.round \in 1..Rounds
  BY PartsType DEF Pending
<1>2. gid_order[p] = {} /\ inflight_sends[p] = {}
  BY DEF MayJoin, AllSent
<1>3. x \notin outgoing_[p]
  BY <1>2 DEF ExchangeInv, Sending, QueuesSent
<1>4. x \in Coming(p, Owner[x.to])
  BY <1>3 DEF Pending
<1>5. x.round # exchange_round_[p]
  <2>1. PICK m \in ToSet(net[p, Owner[x.to]]) : m.queue = x
    BY <1>4 DEF Coming, Queues
  <2> QED
    BY <1>1, <1>2, <2>1 DEF ExchangeInv, Barriers
<1>6. x.round <= exchange_round_[p]
  BY DEF ExchangeInv, Made, Alive
<1>7. exchange_round_[p] \in 0..Rounds /\ barrier[p] \in 0..Rounds
  BY DEF ExchangeInv, ExchangeTypeOK
<1>8. x.round \in 1..Ended(p)
  <2>1. Ended(p) = exchange_round_[p] - 1
    BY DEF Ended
  <2> DEFINE j == x.round
             k == exchange_round_[p]
  <2>2. j \in 1..Rounds /\ k \in 0..Rounds /\ j # k /\ j <= k
    BY <1>1, <1>5, <1>6, <1>7
  <2> HIDE DEF j, k
  <2>3. Rounds \in Nat
    BY ExchangeAssumption
  <2>4. j \in 1..(k - 1)
    BY <2>2, <2>3
  <2> QED
    BY <2>1, <2>4 DEF j, k
<1>9. barrier[p] >= x.round
  BY <1>8 DEF ExchangeInv, Barriers
<1>10. barrier[p] < x.round
  BY DEF ExchangeInv, Barriers
<1> QED
  <2> DEFINE j == x.round
             k == barrier[p]
  <2>1. j \in 1..Rounds /\ k \in 0..Rounds /\ k >= j /\ k < j
    BY <1>1, <1>7, <1>9, <1>10
  <2> HIDE DEF j, k
  <2>2. Rounds \in Nat
    BY ExchangeAssumption
  <2> QED
    BY <2>1, <2>2

LEMMA BarriersStep == ExchangeInv /\ [Next]_vars => Barriers'
<1> SUFFICES ASSUME ExchangeInv, [Next]_vars PROVE Barriers'
  OBVIOUS
<1>0. /\ Barriers
      /\ pc \in [Proc -> {"foreach", "send", "check"}]
      /\ exchange_round_ \in [Proc -> 0..Rounds]
      /\ barrier \in [Proc -> 0..Rounds]
  BY DEF ExchangeInv, ExchangeTypeOK
<1>1. NotReceived'
  BY NotReceivedStep
<1>2. ASSUME \A p \in Proc : /\ barrier'[p] <= exchange_round_'[p]
                             /\ \A k \in 1..Ended(p)' : IsRemote(k) => barrier'[p] >= k,
             \A x \in Pending' : IsRemote(x.round) => barrier'[Owner[x.from]] < x.round
      PROVE  Barriers'
  BY <1>1, <1>2 DEF Barriers, NotReceived, Traveling
<1>3. ASSUME NEW p \in Proc, Begin(p) PROVE Barriers'
  <2> DEFINE old == exchange_round_[p]
             k   == exchange_round_[p] + 1
  <2>1. /\ pc[p] = "foreach" /\ old \in 0..Rounds /\ k \in 1..Rounds
        /\ exchange_round_' = [exchange_round_ EXCEPT ![p] = k]
    BY <1>3, BeginEffect
  <2>2. PICK S \in SUBSET Targets(p, k) : Pending' = Pending \cup NewQueues(p, S, k)
    BY <1>3, BeginEffect
  <2>3. pc' = [pc EXCEPT ![p] = "send"] /\ UNCHANGED barrier
    BY <1>3 DEF Begin
  <2>4. k = old + 1 /\ exchange_round_[p] = old /\ old \in Int
    BY <2>1
  <2> HIDE DEF old, k
  <2>5. \A q \in Proc : Ended(q)' = Ended(q)
    BY <1>0, <2>1, <2>3, <2>4 DEF Ended
  <2>6. \A q \in Proc : /\ barrier[q] <= exchange_round_'[q]
                        /\ \A j \in 1..Ended(q) : IsRemote(j) => barrier[q] >= j
    <3> SUFFICES ASSUME NEW q \in Proc PROVE barrier[q] <= exchange_round_'[q]
      BY <1>0 DEF Barriers
    <3>1. barrier[q] <= exchange_round_[q] /\ exchange_round_[q] \in Int /\ barrier[q] \in Int
      <4>1. barrier[q] <= exchange_round_[q]
        BY <1>0 DEF Barriers
      <4>2. exchange_round_[q] \in 0..Rounds /\ barrier[q] \in 0..Rounds
        BY <1>0
      <4> QED
        BY <4>1, <4>2
    <3> QED
      BY <1>0, <2>1, <2>4, <3>1
  <2>7. ASSUME NEW x \in NewQueues(p, S, k) PROVE barrier[Owner[x.from]] < x.round
    <3>1. Owner[x.from] = p /\ x.round = k
      BY <2>1, NewQueue
    <3>2. barrier[p] <= old /\ barrier[p] \in Int
      <4>1. barrier[p] <= exchange_round_[p]
        BY <1>0 DEF Barriers
      <4>2. barrier[p] \in 0..Rounds
        BY <1>0
      <4> QED
        BY <2>4, <4>1, <4>2
    <3> QED
      BY <2>4, <3>1, <3>2
  <2>8. \A x \in Pending' : IsRemote(x.round) => barrier[Owner[x.from]] < x.round
    BY <1>0, <2>2, <2>7 DEF Barriers
  <2> QED
    BY <1>2, <2>3, <2>5, <2>6, <2>8
<1>4. ASSUME NEW p \in Proc, Again(p) PROVE Barriers'
  <2>1. /\ pc[p] = "check" /\ pc' = [pc EXCEPT ![p] = "send"]
        /\ UNCHANGED <<exchange_round_, outgoing_, net, incoming_>>
    BY <1>4 DEF Again
  <2>2. Pending' = Pending
    BY <2>1, StayWhen DEF Stay
  <2>3. \A q \in Proc : Ended(q)' = Ended(q)
    BY <1>0, <2>1 DEF Ended
  <2>4. CASE UNCHANGED barrier
    BY <1>0, <1>2, <2>1, <2>2, <2>3, <2>4 DEF Barriers
  <2>5. CASE MayJoin(p) /\ barrier' = [barrier EXCEPT ![p] = exchange_round_[p]]
    <3>1. \A q \in Proc : /\ barrier'[q] <= exchange_round_'[q]
                          /\ \A j \in 1..Ended(q)' : IsRemote(j) => barrier'[q] >= j
      <4> SUFFICES ASSUME NEW q \in Proc
                   PROVE  /\ barrier'[q] <= exchange_round_[q]
                          /\ \A j \in 1..Ended(q) : IsRemote(j) => barrier'[q] >= j
        BY <2>1, <2>3
      <4>1. CASE q = p
        <5>1. barrier'[q] = exchange_round_[q]
          BY <1>0, <2>5, <4>1
        <5> QED
          BY <5>1, EndedType
      <4>2. CASE q # p
        <5>1. barrier'[q] = barrier[q]
          BY <1>0, <2>5, <4>2
        <5> QED
          BY <1>0, <5>1 DEF Barriers
      <4> QED
        BY <4>1, <4>2
    <3>2. ASSUME NEW x \in Pending, IsRemote(x.round) PROVE barrier'[Owner[x.from]] < x.round
      <4>1. Owner[x.from] # p
        BY <2>1, <2>5, <3>2, NothingPending
      <4>2. barrier'[Owner[x.from]] = barrier[Owner[x.from]]
        <5>1. Owner[x.from] \in Proc
          BY PartsType DEF Pending
        <5> QED
          BY <1>0, <2>5, <4>1, <5>1
      <4> QED
        BY <1>0, <3>2, <4>2 DEF Barriers
    <3> QED
      BY <1>2, <2>2, <3>1, <3>2
  <2>6. UNCHANGED barrier \/ (MayJoin(p) /\ barrier' = [barrier EXCEPT ![p] = exchange_round_[p]])
    <3>1. CASE MayJoin(p) /\ IsRemote(exchange_round_[p])
      BY <1>4, <3>1 DEF Again
    <3>2. CASE ~MayJoin(p) /\ IsRemote(exchange_round_[p])
      <4>1. barrier' = [barrier EXCEPT ![p] = barrier[p]]
        BY <1>4, <3>2 DEF Again
      <4> QED
        BY <1>0, <4>1
    <3>3. CASE ~IsRemote(exchange_round_[p])
      BY <1>4, <3>3 DEF Again
    <3> QED
      BY <3>1, <3>2, <3>3
  <2> QED
    BY <2>4, <2>5, <2>6
<1>5. ASSUME NEW p \in Proc, End(p) PROVE Barriers'
  <2>1. /\ pc[p] = "check" /\ pc' = [pc EXCEPT ![p] = "foreach"] /\ UNCHANGED <<exchange_round_, barrier>>
    BY <1>5 DEF End
  <2>2. Pending' = Pending
    BY <1>5, EndStays DEF Stay
  <2> SUFFICES ASSUME NEW q \in Proc, NEW j \in 1..Ended(q)', IsRemote(j) PROVE barrier[q] >= j
    BY <1>0, <1>2, <2>1, <2>2 DEF Barriers
  <2>3. exchange_round_[q] \in Int
    BY <1>0
  <2>4. CASE q = p
    <3>1. Ended(q)' = exchange_round_[q] /\ Ended(q) = exchange_round_[q] - 1
      BY <1>0, <2>1, <2>4 DEF Ended
    <3>2. CASE j = exchange_round_[q]
      <4>1. barrier[q] = j
        BY <1>5, <2>4, <3>2 DEF End, RemoteDone, Joined
      <4> QED
        BY <4>1
    <3>3. CASE j # exchange_round_[q]
      <4>1. j \in 1..Ended(q)
        BY <2>3, <3>1, <3>3
      <4> QED
        BY <1>0, <4>1 DEF Barriers
    <3> QED
      BY <3>2, <3>3
  <2>5. CASE q # p
    <3>1. Ended(q)' = Ended(q)
      BY <1>0, <2>1, <2>5 DEF Ended
    <3> QED
      BY <1>0, <3>1 DEF Barriers
  <2> QED
    BY <2>4, <2>5
<1>6. ASSUME ~\E p \in Proc : Begin(p), \A q \in Proc : Ended(q)' = Ended(q), UNCHANGED barrier
      PROVE  Barriers'
  <2>1. Pending' \subseteq Pending /\ UNCHANGED exchange_round_
    BY <1>6, Moves, AliveStays
  <2> QED
    BY <1>0, <1>2, <1>6, <2>1 DEF Barriers
<1>7. ASSUME NEW p \in Proc, Nudge(p) PROVE UNCHANGED barrier /\ \A q \in Proc : Ended(q)' = Ended(q)
  BY <1>0, <1>7 DEF Nudge, Ended
<1>8. ASSUME NEW p \in Proc,
             \/ \E b \in Block : PopBlock(p, b)
             \/ \E x \in outgoing_[p] : SendSameRank(p, x) \/ SendDifferentRank(p, x)
             \/ \E r \in Proc : Receive(p, r)
      PROVE  UNCHANGED barrier /\ \A q \in Proc : Ended(q)' = Ended(q)
  BY <1>8 DEF PopBlock, SendSameRank, SendDifferentRank, Receive, Ended
<1>9. CASE UNCHANGED vars
  <2>1. UNCHANGED barrier /\ \A q \in Proc : Ended(q)' = Ended(q)
    BY <1>9 DEF vars, Ended
  <2> QED
    BY <1>3, <1>6, <2>1
<1> QED
  BY <1>3, <1>4, <1>5, <1>6, <1>7, <1>8, <1>9 DEF Next, Step, Finished

-----------------------------------------------------------------------------
(***************************************************************************)
(* The theorems.                                                           *)
(***************************************************************************)
LEMMA InitInv == Init => ExchangeInv
<1> SUFFICES ASSUME Init PROVE ExchangeInv
  OBVIOUS
<1>1. /\ \A p, q \in Proc : net[p, q] = <<>> /\ inflight_recvs[p, q] = NoRecv
      /\ \A p \in Proc : outgoing_[p] = {} /\ pc[p] = "foreach" /\ exchange_round_[p] = 0
                         /\ barrier[p] = 0
      /\ \A p \in Proc : \A k \in 1..Rounds : incoming_[p][k] = {} /\ received[p][k] = 0
      /\ posted = {}
  BY DEF Init
<1>2. ExchangeTypeOK
  <2>1. <<>> \in Seq(Message) /\ NoRecv \in [parts : Seq(Message), left : Nat] /\ 0 \in 0..Rounds
    BY ExchangeAssumption DEF NoRecv
  <2>2. /\ net \in [Proc \X Proc -> Seq(Message)]
        /\ inflight_recvs \in [Proc \X Proc -> [parts : Seq(Message), left : Nat]]
    BY <2>1 DEF Init
  <2>3. /\ incoming_ \in [Proc -> [1..Rounds -> SUBSET Seq(Message)]]
        /\ received \in [Proc -> [1..Rounds -> Nat]]
    BY DEF Init
  <2> QED
    BY <2>1, <2>2, <2>3 DEF Init, ExchangeTypeOK
<1>3. \A p, q \in Proc : ToSet(net[p, q]) = {} /\ Coming(p, q) = {}
  <2> SUFFICES ASSUME NEW p \in Proc, NEW q \in Proc
               PROVE  ToSet(net[p, q]) = {} /\ Coming(p, q) = {}
    OBVIOUS
  <2>1. ToSet(<<>>) = {}
    BY DEF ToSet
  <2> QED
    BY <1>1, <2>1 DEF Coming, Queues
<1>4. Pending = {} /\ Placed = {} /\ Alive = {}
  BY <1>1, <1>3, PartsType DEF Pending, Placed, Alive
<1>5. Streams
  <2>1. Continues(<<>>, NoRecv)
    BY DEF Continues
  <2> QED
    BY <1>1, <1>3, <2>1 DEF Streams
<1>6. Once
  BY <1>1, <1>4 DEF Once
<1>7. Made
  <2>1. ASSUME NEW l \in Link, NEW k \in 1..Rounds PROVE ~(k <= exchange_round_[Owner[l[1]]])
    <3>1. Owner[l[1]] \in Proc
      BY ExchangeAssumption
    <3>2. exchange_round_[Owner[l[1]]] = 0
      BY <1>1, <3>1
    <3> QED
      BY <3>2
  <2> QED
    BY <1>1, <1>4, <2>1 DEF Made
<1>8. Sending
  BY <1>1 DEF Sending, QueuesSent
<1>9. \A p \in Proc : 1..Ended(p) = {} /\ barrier[p] <= exchange_round_[p]
  <2>1. \A p \in Proc : Ended(p) = 0
    BY <1>1 DEF Ended
  <2>2. 1..0 = {}
    OBVIOUS
  <2>3. \A p \in Proc : barrier[p] <= exchange_round_[p]
    <3> SUFFICES ASSUME NEW p \in Proc PROVE barrier[p] <= exchange_round_[p]
      OBVIOUS
    <3>1. barrier[p] = 0 /\ exchange_round_[p] = 0
      BY <1>1
    <3> QED
      BY <3>1
  <2> QED
    BY <2>1, <2>2, <2>3
<1>10. OnTime /\ Barriers
  BY <1>3, <1>4, <1>9 DEF OnTime, Barriers
<1>11. Counted
  BY <1>1, FS_EmptySet DEF Counted
<1> QED
  BY <1>2, <1>5, <1>6, <1>7, <1>8, <1>10, <1>11 DEF ExchangeInv

\* What has been received of a queue is of the queue at the head of the stream.
LEMMA ReceivedParts ==
  ASSUME NEW n \in Seq(Message), NEW ir, Continues(n, ir)
  PROVE  \A m \in ToSet(ir.parts) : m.queue \in Queues(n)
<1>1. CASE n = <<>> \/ n[1].part = 0
  <2>1. ir.parts = <<>>
    BY <1>1 DEF Continues, NoRecv
  <2>2. ToSet(<<>>) = {}
    BY DEF ToSet
  <2> QED
    BY <2>1, <2>2
<1>2. CASE ~(n = <<>> \/ n[1].part = 0)
  <2> DEFINE x == n[1].queue
             j == n[1].part
             f == [i \in 1..j |-> Part(x, i - 1)]
  <2>1. ir = [parts |-> f, left |-> NParts(x) + 1 - j]
    BY <1>2 DEF Continues
  <2>2. x \in Queues(n)
    <3>1. 1 \in 1..Len(n)
      BY <1>2, EmptySeq, LenProperties
    <3> QED
      BY <3>1, QueuesOf
  <2> HIDE DEF x, j
  <2>3. \A m \in ToSet(f) : m.queue = x
    <3>1. \A i \in DOMAIN f : f[i].queue = x
      BY DEF Part
    <3> HIDE DEF f
    <3> QED
      BY <3>1 DEF ToSet
  <2> HIDE DEF f
  <2>4. ir.parts = f
    BY <2>1
  <2> QED
    BY <2>2, <2>3, <2>4
<1> QED
  BY <1>1, <1>2

LEMMA InvStep == ExchangeInv /\ [Next]_vars => ExchangeInv'
  BY TypeStep, StreamsStep, OnceStep, MadeStep, SendingStep, OnTimeStep, BarriersStep, CountedStep
     DEF ExchangeInv

(***************************************************************************)
(* What holds at every point of every run of exchanges, plain and remote,  *)
(* between any ranks and blocks: streams of whole queues in order, at most *)
(* one queue per round from a block to a block, in one place, none for a   *)
(* round that is over, and all that were placed counted.                   *)
(***************************************************************************)
THEOREM ExchangeInductive == Spec => []ExchangeInv
<1>1. Init => ExchangeInv
  BY InitInv
<1>2. ExchangeInv /\ [Next]_vars => ExchangeInv'
  BY InvStep
<1> QED
  BY <1>1, <1>2, PTL DEF Spec

\* The state of exchange() keeps its type; in particular what a rank takes for
\* the parts of one queue is a sequence of messages, of which a number is left.
THEOREM ExchangeTypeCorrect == Spec => []ExchangeTypeOK
<1>1. ExchangeInv => ExchangeTypeOK
  BY DEF ExchangeInv
<1> QED
  BY <1>1, ExchangeInductive, PTL

\* No message belongs to an exchange that the rank it is for has ended, so the
\* assertion in check_incoming_queues cannot fail.
THEOREM MessagesInTime == Spec => []NeverLate
<1>1. ASSUME ExchangeInv PROVE NeverLate
  <2>1. ASSUME NEW p \in Proc, NEW q \in Proc, NEW x \in Coming(q, p) PROVE x.round > Ended(p)
    <3>1. x \in Pending /\ Owner[x.to] = p
      BY <1>1, <2>1, WhereQueuesAre
    <3> QED
      BY <1>1, <3>1 DEF ExchangeInv, OnTime
  <2>2. ASSUME NEW p \in Proc, NEW q \in Proc
        PROVE  \A m \in ToSet(net[q, p]) \cup ToSet(inflight_recvs[p, q].parts) : m.queue \in Coming(q, p)
    <3> DEFINE n  == net[q, p]
               ir == inflight_recvs[p, q]
    <3>1. n \in Seq(Message) /\ Continues(n, ir)
      BY <1>1 DEF ExchangeInv, ExchangeTypeOK, Streams
    <3> HIDE DEF n, ir
    <3>2. \A m \in ToSet(ir.parts) : m.queue \in Queues(n)
      BY <3>1, ReceivedParts
    <3>3. \A m \in ToSet(n) : m.queue \in Queues(n)
      BY DEF Queues
    <3> QED
      BY <3>2, <3>3 DEF Coming, n, ir
  <2> QED
    BY <2>1, <2>2, Zenon DEF NeverLate
<1> QED
  BY <1>1, ExchangeInductive, PTL

\* When a rank is out of an exchange, what is due is what has been placed.
LEMMA DuePlaced ==
  ASSUME ExchangeInv, NEW p \in Proc, pc[p] = "foreach", exchange_round_[p] > 0
  PROVE  LET k == exchange_round_[p]
         IN  \A x : x \in Due(p, k) <=> x \in Placed /\ Owner[x.to] = p /\ x.round = k
<1> DEFINE k == exchange_round_[p]
<1>1. k \in 1..Rounds /\ Ended(p) = k /\ Rounds \in Nat
  BY EndedType DEF Ended
<1>2. \A x \in Alive : Owner[x.to] = p /\ x.round = k => x \in Placed
  <2>1. ASSUME NEW x \in Pending, Owner[x.to] = p PROVE x.round # k
    BY <1>1, <2>1 DEF ExchangeInv, OnTime
  <2> QED
    BY <2>1 DEF Alive
<1> HIDE DEF k
<1>3. \A x \in Queue : x = [from |-> x.from, to |-> x.to, round |-> x.round, full |-> x.full]
                       /\ x.full \in BOOLEAN
  BY DEF Queue
<1>4. ASSUME NEW x \in Placed, Owner[x.to] = p, x.round = k PROVE x \in Due(p, k)
  <2>1. /\ x \in Queue /\ MayBe(x)
        /\ x.full <=> <<x.from, x.to, k>> \in posted
    BY <1>4 DEF ExchangeInv, Made, Alive, Placed
  <2>2. CASE x.full
    <3>1. <<x.from, x.to, k>> \in Enqueued(p, k)
      BY <1>4, <2>1, <2>2 DEF Enqueued
    <3>2. x = [from |-> x.from, to |-> x.to, round |-> k, full |-> TRUE]
      <4>1. x.full = TRUE
        BY <1>3, <2>1, <2>2
      <4> QED
        BY <1>3, <1>4, <2>1, <4>1
    <3> QED
      BY <3>1, <3>2 DEF Due
  <2>3. CASE ~x.full
    <3>1. ~IsRemote(k) /\ <<x.from, x.to>> \in Link
      BY <1>4, <2>1, <2>3 DEF MayBe
    <3>2. <<x.from, x.to>> \in Silent(p, k)
      BY <1>4, <2>1, <2>3, <3>1 DEF Silent
    <3>3. x = [from |-> x.from, to |-> x.to, round |-> k, full |-> FALSE]
      <4>1. x.full = FALSE
        BY <1>3, <2>1, <2>3
      <4> QED
        BY <1>3, <1>4, <2>1, <4>1
    <3> QED
      BY <3>2, <3>3 DEF Due
  <2> QED
    BY <2>2, <2>3
<1>5. ASSUME NEW t \in Enqueued(p, k)
      PROVE  /\ Full(t, k) \in Placed
             /\ Owner[Full(t, k).to] = p /\ Full(t, k).round = k
  <2>1. t \in posted /\ t[3] = k /\ Owner[t[2]] = p
    BY DEF Enqueued
  <2>2. [from |-> t[1], to |-> t[2], round |-> t[3], full |-> TRUE] \in Alive
    BY <2>1 DEF ExchangeInv, Made
  <2>3. Full(t, k) \in Alive
    BY <2>1, <2>2 DEF Full
  <2>4. Full(t, k).to = t[2] /\ Full(t, k).round = k
    BY DEF Full
  <2> QED
    BY <1>2, <2>1, <2>3, <2>4
<1>6. ASSUME NEW l \in Silent(p, k)
      PROVE  /\ Empty(l, k) \in Placed
             /\ Owner[Empty(l, k).to] = p /\ Empty(l, k).round = k
  <2>1. ~IsRemote(k) /\ l \in Link /\ Owner[l[2]] = p /\ <<l[1], l[2], k>> \notin posted
    BY DEF Silent
  <2>2. Owner[l[1]] \in Proc /\ <<l[2], l[1]>> \in Link /\ exchange_round_[p] = k
    BY <2>1, ExchangeAssumption DEF k
  <2>3. Owner[l[1]] \in NearRanks[k][p]
    BY <1>1, <2>1, <2>2 DEF NearRanks, Neighbors
  <2>4. exchange_round_[Owner[l[1]]] >= k
    BY <1>1, <2>3 DEF ExchangeInv, OnTime
  <2>5. exchange_round_[Owner[l[2]]] <= k /\ k <= exchange_round_[Owner[l[1]]]
    <3>1. exchange_round_[Owner[l[1]]] \in 0..Rounds
      BY <2>2, EndedType
    <3> QED
      BY <1>1, <2>1, <2>2, <2>4, <3>1
  <2>6. PICK x \in Alive : x.from = l[1] /\ x.to = l[2] /\ x.round = k
    BY <1>1, <2>1, <2>5 DEF ExchangeInv, Made
  <2>7. ~x.full /\ x \in Queue
    BY <2>1, <2>6 DEF ExchangeInv, Made, Alive, Pending, Placed
  <2>8. x = Empty(l, k)
    <3>1. x.full = FALSE
      BY <1>3, <2>7
    <3> QED
      BY <1>3, <2>6, <2>7, <3>1 DEF Empty
  <2> QED
    BY <1>2, <2>1, <2>6, <2>8
<1>7. \A x : x \in Due(p, k) <=> \/ \E t \in Enqueued(p, k) : x = Full(t, k)
                                 \/ \E l \in Silent(p, k) : x = Empty(l, k)
  BY DEF Due, Full, Empty
<1> QED
  BY <1>4, <1>5, <1>6, <1>7 DEF k

\* When exchange() returns, the incoming queues of a rank are those enqueued to
\* its blocks in that exchange and, in a plain one, an empty one from each other
\* neighbor: each whole, once, and counted.
THEOREM DeliversWhatIsDue == Spec => []Delivered
<1>1. ASSUME ExchangeInv PROVE Delivered
  <2> SUFFICES ASSUME NEW p \in Proc, pc[p] = "foreach", exchange_round_[p] > 0
               PROVE  LET k == exchange_round_[p]
                      IN  /\ incoming_[p][k] = {Messages(q) : q \in Due(p, k)}
                          /\ received[p][k] = Cardinality(Due(p, k))
    BY DEF Delivered
  <2> DEFINE k == exchange_round_[p]
             D == Due(p, k)
             A == incoming_[p][k]
             f == [x \in D |-> Messages(x)]
  <2>1. k \in 1..Rounds
    BY <1>1, EndedType
  <2>2. \A x : x \in D <=> x \in Placed /\ Owner[x.to] = p /\ x.round = k
    BY <1>1, DuePlaced
  <2> HIDE DEF k, D
  <2>3. \A x \in D : x \in Queue /\ Messages(x) \in A
    BY <2>2 DEF Placed
  <2>4. /\ \A s \in A : \E x \in Queue : s = Messages(x) /\ Owner[x.to] = p /\ x.round = k
        /\ IsFiniteSet(A) /\ received[p][k] = Cardinality(A)
    BY <1>1, <2>1 DEF ExchangeInv, Counted
  <2>5. \A s \in A : \E x \in D : s = Messages(x)
    <3> SUFFICES ASSUME NEW s \in A PROVE \E x \in D : s = Messages(x)
      OBVIOUS
    <3>1. PICK x \in Queue : s = Messages(x) /\ Owner[x.to] = p /\ x.round = k
      BY <2>4
    <3>2. x \in D
      BY <2>2, <3>1 DEF Placed
    <3> QED
      BY <3>1, <3>2
  <2> HIDE DEF A
  <2>6. A = {Messages(x) : x \in D}
    BY <2>3, <2>5
  <2>7. Cardinality(A) = Cardinality(D)
    <3>1. f \in [D -> A] /\ \A s \in A : \E x \in D : f[x] = s
      BY <2>3, <2>5
    <3>2. \A x, y \in D : f[x] = f[y] => x = y
      BY <2>3, MessagesInjective
    <3> HIDE DEF f
    <3>3. f \in Bijection(D, A) /\ f \in Injection(D, A)
      BY <3>1, <3>2, Fun_IsBij, Fun_IsInj, Zenon
    <3>4. IsFiniteSet(D)
      BY <2>4, <3>3, FS_Injection
    <3>5. ExistsBijection(D, A)
      BY <3>3 DEF ExistsBijection
    <3> QED
      BY <3>4, <3>5, FS_Bijection
  <2> QED
    BY <2>4, <2>6, <2>7 DEF k, D, A
<1> QED
  BY <1>1, ExchangeInductive, PTL

\* exchange() implements the specification of local synchronization: a rank ends
\* an exchange only when all ranks it depends on in it have begun theirs, which
\* are the neighbors in a plain exchange and all ranks in a remote one.
THEOREM ExchangeSynchronizes == Spec => KeepsSync
<1> DEFINE e == [p \in Proc |-> Ended(p)]
<1>1. Init => Sync!Init
  <2> SUFFICES ASSUME Init PROVE Sync!Init
    OBVIOUS
  <2>1. \A p \in Proc : Ended(p) = 0
    BY DEF Init, Ended
  <2>2. e = [p \in Proc |-> 0]
    BY <2>1
  <2> QED
    BY <2>2 DEF Sync!Init, Init
<1>2. ExchangeInv /\ ExchangeInv' /\ [Next]_vars => [Sync!Next]_(Sync!vars)
  <2> SUFFICES ASSUME ExchangeInv, ExchangeInv', [Next]_vars PROVE [Sync!Next]_(Sync!vars)
    OBVIOUS
  <2>0. /\ pc \in [Proc -> {"foreach", "send", "check"}]
        /\ exchange_round_ \in [Proc -> 0..Rounds]
        /\ Rounds \in Nat
    BY ExchangeAssumption DEF ExchangeInv, ExchangeTypeOK
  <2>1. ASSUME UNCHANGED exchange_round_, \A q \in Proc : Ended(q)' = Ended(q)
        PROVE  [Sync!Next]_(Sync!vars)
    <3>1. e' = e
      BY <2>1
    <3> QED
      BY <2>1, <3>1 DEF Sync!vars
  <2>2. ASSUME NEW p \in Proc, Begin(p) PROVE Sync!Begin(p)
    <3> DEFINE k == exchange_round_[p] + 1
    <3>1. /\ pc[p] = "foreach" /\ exchange_round_' = [exchange_round_ EXCEPT ![p] = k]
          /\ exchange_round_[p] < Rounds /\ pc' = [pc EXCEPT ![p] = "send"]
      BY <2>2 DEF Begin
    <3>2. \A q \in Proc : Ended(q)' = Ended(q)
      BY <2>0, <3>1 DEF Ended
    <3>3. e' = e /\ e[p] = exchange_round_[p]
      BY <3>1, <3>2 DEF Ended
    <3> QED
      BY <3>1, <3>3 DEF Sync!Begin
  <2>3. ASSUME NEW p \in Proc, End(p) PROVE Sync!End(p)
    <3> DEFINE k == exchange_round_[p]
    <3>1. /\ pc[p] = "check" /\ pc' = [pc EXCEPT ![p] = "foreach"] /\ UNCHANGED exchange_round_
      BY <2>3 DEF End
    <3>2. k \in 1..Rounds
      <4>1. k > 0
        BY <3>1 DEF ExchangeInv, Sending
      <4> QED
        BY <2>0, <4>1
    <3>3. e[p] = k - 1 /\ \A q \in Proc : Ended(q)' = IF q = p THEN k ELSE Ended(q)
      BY <2>0, <3>1 DEF Ended
    <3>4. e' = [e EXCEPT ![p] = k]
      BY <3>3
    <3>5. \A q \in NearRanks[k][p] : exchange_round_[q] >= k
      <4>1. OnTime' /\ Ended(p)' = k
        BY <3>3 DEF ExchangeInv
      <4>2. k \in 1..Ended(p)'
        BY <3>2, <4>1
      <4> QED
        BY <3>1, <4>1, <4>2 DEF OnTime, NearRanks
    <3> QED
      BY <3>1, <3>2, <3>3, <3>4, <3>5 DEF Sync!End
  <2>4. ASSUME NEW p \in Proc, Nudge(p) \/ Again(p) PROVE [Sync!Next]_(Sync!vars)
    <3>1. \A q \in Proc : Ended(q)' = Ended(q)
      BY <2>0, <2>4 DEF Nudge, Again, Ended
    <3> QED
      BY <2>1, <2>4, <3>1 DEF Nudge, Again
  <2>5. ASSUME NEW p \in Proc,
               \/ \E b \in Block : PopBlock(p, b)
               \/ \E x \in outgoing_[p] : SendSameRank(p, x) \/ SendDifferentRank(p, x)
               \/ \E r \in Proc : Receive(p, r)
        PROVE  [Sync!Next]_(Sync!vars)
    <3>1. UNCHANGED <<exchange_round_, pc>>
      BY <2>5 DEF PopBlock, SendSameRank, SendDifferentRank, Receive
    <3> QED
      BY <2>1, <3>1 DEF Ended
  <2>6. CASE UNCHANGED vars
    BY <2>1, <2>6 DEF vars, Ended
  <2> QED
    BY <2>2, <2>3, <2>4, <2>5, <2>6 DEF Next, Step, Finished, Sync!Next
<1> QED
  BY <1>1, <1>2, ExchangeInductive, PTL DEF Spec, KeepsSync, Sync!Spec
=============================================================================
