------------------------------ MODULE Exchange ------------------------------
(***************************************************************************)
(* Rounds of Master::exchange on all ranks (include/diy/master.hpp:        *)
(* exchange, flush, comm_exchange, rcomm_exchange, and                     *)
(* detail/master/communication.hpp).                                       *)
(*                                                                         *)
(* Before a round the blocks enqueue to each other; the exchange moves the *)
(* queues.  A queue to another rank is one MPI message or, when it is      *)
(* large or carries blobs, a head and further parts, which the receiver    *)
(* puts together per source rank.  A plain exchange ends on a rank when    *)
(* the expected number of queues has come; a remote one by a barrier that  *)
(* a rank joins when its synchronous sends have been received.  Messages   *)
(* between two ranks keep their order; nothing else is ordered.  Blocks    *)
(* and queues stay in memory here.                                         *)
(***************************************************************************)
EXTENDS Integers, Sequences, FiniteSets, SequencesExt

CONSTANTS Proc,         \* the ranks
          Block,        \* the gids
          Owner,        \* the rank that holds each block
          Link,         \* the pairs of linked blocks
          Reach,        \* the pairs that may be enqueued to in a remote exchange
          Rounds,       \* the number of exchanges
          Remote,       \* the rounds in which the program calls exchange(true)
          Parts,        \* Parts[from, to]: messages of a filled queue after its head
          limit_        \* blocks in memory, or -1

ASSUME ExchangeAssumption ==
  /\ IsFiniteSet(Proc) /\ IsFiniteSet(Block)
  /\ Owner \in [Block -> Proc]
  /\ Link \subseteq Block \X Block
  /\ \A l \in Link : <<l[2], l[1]>> \in Link
  /\ Reach \subseteq Block \X Block
  /\ Rounds \in Nat
  /\ Remote \subseteq 1..Rounds
  /\ Parts \in [Block \X Block -> Nat]
  /\ limit_ \in Nat \cup {-1}

Local(p) == {b \in Block : Owner[b] = p}

\* exchange() on a single rank is never remote.
IsRemote(k) == k \in Remote /\ Cardinality(Proc) > 1

\* A queue, with the round it is sent in and whether anything was enqueued.
Queue == [from : Block, to : Block, round : 1..Rounds, full : BOOLEAN]

\* The messages of a queue: the head, part 0, then the others.
NParts(q) == IF q.full THEN Parts[q.from, q.to] ELSE 0
Part(q, i) == [queue |-> q, part |-> i]
Messages(q) == [i \in 1..(1 + NParts(q)) |-> Part(q, i - 1)]
Message == [queue : Queue, part : Nat]

VARIABLES
  pc,               \* where the rank is
  exchange_round_,  \* the round; 0 before the first exchange (-1 in the code)
  outgoing_,        \* the queues that each rank has to send
  gid_order,        \* the blocks whose queues have not been sent
  inflight_sends,   \* the messages whose request has not completed
  net,              \* net[p, q]: the messages that travel from p to q
  inflight_recvs,   \* inflight_recvs[p, q]: what p has received of a queue from q
  incoming_,        \* incoming_[p][k]: the queues of round k that p has
  received,         \* IncomingRound::received
  barrier,          \* the last round whose barrier each rank has joined
  posted            \* {<<from, to, round>>}: what has been enqueued in rounds that are
                    \* not over for the callbacks of "to"

vars == <<pc, exchange_round_, outgoing_, gid_order, inflight_sends, net, inflight_recvs,
          incoming_, received, barrier, posted>>

\* Nothing of a queue has been received.
NoRecv == [parts |-> <<>>, left |-> 0]

ExchangeTypeOK ==
  /\ pc \in [Proc -> {"foreach", "send", "check"}]
  /\ exchange_round_ \in [Proc -> 0..Rounds]
  /\ outgoing_ \in [Proc -> SUBSET Queue]
  /\ \A p \in Proc : \A q \in outgoing_[p] : Owner[q.from] = p
  /\ gid_order \in [Proc -> SUBSET Block]
  /\ inflight_sends \in [Proc -> SUBSET Message]
  /\ net \in [Proc \X Proc -> Seq(Message)]
  /\ inflight_recvs \in [Proc \X Proc -> [parts : Seq(Message), left : Nat]]
  /\ incoming_ \in [Proc -> [1..Rounds -> SUBSET Seq(Message)]]
  /\ received \in [Proc -> [1..Rounds -> Nat]]
  /\ barrier \in [Proc -> 0..Rounds]
  /\ posted \subseteq Block \X Block \X (1..Rounds)

Init ==
  /\ pc = [p \in Proc |-> "foreach"]
  /\ exchange_round_ = [p \in Proc |-> 0]
  /\ outgoing_ = [p \in Proc |-> {}]
  /\ gid_order = [p \in Proc |-> {}]
  /\ inflight_sends = [p \in Proc |-> {}]
  /\ net = [c \in Proc \X Proc |-> <<>>]
  /\ inflight_recvs = [c \in Proc \X Proc |-> NoRecv]
  /\ incoming_ = [p \in Proc |-> [k \in 1..Rounds |-> {}]]
  /\ received = [p \in Proc |-> [k \in 1..Rounds |-> 0]]
  /\ barrier = [p \in Proc |-> 0]
  /\ posted = {}

-----------------------------------------------------------------------------
(***************************************************************************)
(* The beginning of an exchange.                                           *)
(***************************************************************************)
\* What the callbacks of a rank may enqueue to in round k.
Targets(p, k) == {t \in (IF IsRemote(k) THEN Reach ELSE Link) : Owner[t[1]] = p}

\* Mutant: touches the queues from the neighbors instead of those to them.
Touched_Reversed(p, S, k) ==
  {[from |-> l[2], to |-> l[1], round |-> k, full |-> FALSE] : l \in {x \in Link : Owner[x[1]] = p} \ S}

\* touch_queues: an empty queue to every neighbor that nothing was enqueued to.
Touched(p, S, k) ==
  {[from |-> l[1], to |-> l[2], round |-> k, full |-> FALSE] : l \in {x \in Link : Owner[x[1]] = p} \ S}

\* exchange() up to the loop of flush() or rcomm_exchange(): the callbacks read
\* the incoming queues of the last round, which are then erased, and enqueue
\* to the targets S.
Begin(p) ==
  /\ pc[p] = "foreach"
  /\ exchange_round_[p] < Rounds
  /\ LET old == exchange_round_[p]
         k   == old + 1
     IN  /\ \E S \in SUBSET Targets(p, k) :
              /\ outgoing_' = [outgoing_ EXCEPT ![p] =
                   {[from |-> t[1], to |-> t[2], round |-> k, full |-> TRUE] : t \in S}
                     \cup (IF IsRemote(k) THEN {} ELSE Touched(p, S, k))]
              /\ posted' = {t \in posted : t[3] # old \/ Owner[t[2]] # p} \cup {<<t[1], t[2], k>> : t \in S}
         /\ exchange_round_' = [exchange_round_ EXCEPT ![p] = k]
         /\ incoming_' = [incoming_ EXCEPT ![p] = [i \in 1..Rounds |-> IF i = old THEN {} ELSE @[i]]]
         /\ received' = [received EXCEPT ![p] = [i \in 1..Rounds |-> IF i = old THEN 0 ELSE @[i]]]
  /\ gid_order' = [gid_order EXCEPT ![p] = Local(p)]
  /\ pc' = [pc EXCEPT ![p] = "send"]
  /\ UNCHANGED <<inflight_sends, net, inflight_recvs, barrier>>

-----------------------------------------------------------------------------
(***************************************************************************)
(* One pass of the loop: send, nudge, check.                               *)
(***************************************************************************)

\* order_gids: with that many messages in flight no more queues are sent.
SendLimit(p) == IF limit_ = -1 THEN Cardinality(Local(p))
                ELSE IF limit_ < 1 THEN 1 ELSE limit_

CanSend(p) == gid_order[p] # {} /\ Cardinality(inflight_sends[p]) < SendLimit(p)

\* send_outgoing_queues: all queues of the blocks taken so far have been sent.
QueuesSent(p) == \A q \in outgoing_[p] : q.from \in gid_order[p]

\* The next block whose queues are sent.
PopBlock(p, b) ==
  /\ pc[p] = "send" /\ QueuesSent(p)
  /\ CanSend(p)
  /\ b \in gid_order[p]
  /\ gid_order' = [gid_order EXCEPT ![p] = @ \ {b}]
  /\ UNCHANGED <<pc, exchange_round_, outgoing_, inflight_sends, net, inflight_recvs, incoming_,
                 received, barrier, posted>>

\* send_same_rank: a queue is moved in place, and counted.
SendSameRank(p, q) ==
  /\ pc[p] = "send"
  /\ q \in outgoing_[p] /\ q.from \notin gid_order[p] /\ Owner[q.to] = p
  /\ outgoing_' = [outgoing_ EXCEPT ![p] = @ \ {q}]
  /\ incoming_' = [incoming_ EXCEPT ![p][exchange_round_[p]] = @ \cup {Messages(q)}]
  /\ received' = [received EXCEPT ![p][exchange_round_[p]] = @ + 1]
  /\ UNCHANGED <<pc, exchange_round_, gid_order, inflight_sends, net, inflight_recvs, barrier, posted>>

\* send_different_rank: a queue becomes messages.
SendDifferentRank(p, q) ==
  /\ pc[p] = "send"
  /\ q \in outgoing_[p] /\ q.from \notin gid_order[p] /\ Owner[q.to] # p
  /\ outgoing_' = [outgoing_ EXCEPT ![p] = @ \ {q}]
  /\ net' = [net EXCEPT ![<<p, Owner[q.to]>>] = @ \o Messages(q)]
  /\ inflight_sends' = [inflight_sends EXCEPT ![p] = @ \cup {Messages(q)[i] : i \in DOMAIN Messages(q)}]
  /\ UNCHANGED <<pc, exchange_round_, gid_order, inflight_recvs, incoming_, received, barrier, posted>>

\* Messages whose receive has begun.
Matched(p) == {m \in inflight_sends[p] : m \notin ToSet(net[p, Owner[m.queue.to]])}

\* Mutant: sends are never synchronous.
Completable_Isend(p) == inflight_sends[p]

\* An issend completes once it is matched, an isend at any time before.
Completable(p) == IF IsRemote(exchange_round_[p]) THEN Matched(p) ELSE inflight_sends[p]

\* Nothing more can be sent; nudge, until nothing completes.
Nudge(p) ==
  /\ pc[p] = "send" /\ QueuesSent(p)
  /\ ~CanSend(p)
  /\ \E S \in SUBSET Completable(p) :
       /\ Matched(p) \subseteq S
       /\ inflight_sends' = [inflight_sends EXCEPT ![p] = @ \ S]
  /\ pc' = [pc EXCEPT ![p] = "check"]
  /\ UNCHANGED <<exchange_round_, outgoing_, gid_order, net, inflight_recvs, incoming_,
                 received, barrier, posted>>

\* Mutant: counts the head as a part still to come.
Assemble_Late(ir, m) ==
  IF ir = NoRecv THEN [parts |-> <<m>>, left |-> NParts(m.queue) + 1]
                 ELSE [parts |-> Append(ir.parts, m), left |-> ir.left - 1]

\* InFlightRecv::recv: the first message tells how many follow.
Assemble(ir, m) ==
  IF ir = NoRecv THEN [parts |-> <<m>>, left |-> NParts(m.queue)]
                 ELSE [parts |-> Append(ir.parts, m), left |-> ir.left - 1]

\* Mutant: a queue is filed under the receiver's round.
RoundOf_Current(p, ir) == exchange_round_[p]

\* A queue is filed under the round that its head names.
RoundOf(p, ir) == ir.parts[1].queue.round

\* check_incoming_queues, for one message: when the last part of a queue has
\* come, the queue is placed and counted.
Receive(p, q) ==
  /\ pc[p] = "check"
  /\ net[q, p] # <<>>
  /\ net' = [net EXCEPT ![<<q, p>>] = Tail(@)]
  /\ LET ir == Assemble(inflight_recvs[p, q], Head(net[q, p]))
         k  == RoundOf(p, ir)
     IN  \/ /\ ir.left > 0
            /\ inflight_recvs' = [inflight_recvs EXCEPT ![<<p, q>>] = ir]
            /\ UNCHANGED <<incoming_, received>>
         \/ /\ ir.left = 0
            /\ inflight_recvs' = [inflight_recvs EXCEPT ![<<p, q>>] = NoRecv]
            /\ incoming_' = [incoming_ EXCEPT ![p][k] = @ \cup {ir.parts}]
            /\ received' = [received EXCEPT ![p][k] = @ + 1]
  /\ UNCHANGED <<pc, exchange_round_, outgoing_, gid_order, inflight_sends, barrier, posted>>

-----------------------------------------------------------------------------
(***************************************************************************)
(* The end of a pass: again, or out of the exchange.                       *)
(***************************************************************************)
\* Mutant: a block expects one queue.
Expected_Blocks(p) == Cardinality(Local(p))

\* expected_: Master::add adds the number of a block's neighbors.
Expected(p) == Cardinality({l \in Link : Owner[l[1]] = p})

AllSent(p) == gid_order[p] = {} /\ inflight_sends[p] = {}

\* Mutant: flush does not wait for what others send.
PlainDone_Sent(p) == AllSent(p)

\* flush: the condition of its loop.
PlainDone(p) == AllSent(p) /\ received[p][exchange_round_[p]] >= Expected(p)

\* rcomm_exchange: the barrier of this round has completed.
Joined(p) == barrier[p] = exchange_round_[p]
RemoteDone(p) == Joined(p) /\ \A q \in Proc : barrier[q] >= exchange_round_[p]

\* Mutant: joins without waiting for the sends.
MayJoin_Posted(p) == gid_order[p] = {}

MayJoin(p) == AllSent(p)

\* The probe finds no message, though some may be on their way.
Again(p) ==
  /\ pc[p] = "check"
  /\ IF IsRemote(exchange_round_[p])
       THEN /\ ~RemoteDone(p)
            /\ barrier' = [barrier EXCEPT ![p] = IF MayJoin(p) THEN exchange_round_[p] ELSE @]
       ELSE ~PlainDone(p) /\ UNCHANGED barrier
  /\ pc' = [pc EXCEPT ![p] = "send"]
  /\ UNCHANGED <<exchange_round_, outgoing_, gid_order, inflight_sends, net, inflight_recvs,
                 incoming_, received, posted>>

\* outgoing_ is cleared at the end of flush.
End(p) ==
  /\ pc[p] = "check"
  /\ IF IsRemote(exchange_round_[p]) THEN RemoteDone(p) ELSE PlainDone(p)
  /\ outgoing_' = [outgoing_ EXCEPT ![p] = {}]
  /\ pc' = [pc EXCEPT ![p] = "foreach"]
  /\ UNCHANGED <<exchange_round_, gid_order, inflight_sends, net, inflight_recvs, incoming_,
                 received, barrier, posted>>

\* All exchanges are over.
Finished == /\ \A p \in Proc : pc[p] = "foreach" /\ exchange_round_[p] = Rounds
            /\ UNCHANGED vars

Step(p) == \/ Begin(p)
           \/ \E b \in Block : PopBlock(p, b)
           \/ \E q \in outgoing_[p] : SendSameRank(p, q) \/ SendDifferentRank(p, q)
           \/ Nudge(p)
           \/ \E q \in Proc : Receive(p, q)
           \/ Again(p)
           \/ End(p)

Next == (\E p \in Proc : Step(p)) \/ Finished

Spec == Init /\ [][Next]_vars

(***************************************************************************)
(* Fairness.  Every rank keeps running, and a message that was sent is     *)
(* probed in the end (SF, because the rank only probes while it checks).   *)
(***************************************************************************)
FairSpec == Spec /\ \A p \in Proc : /\ WF_vars(Step(p))
                                    /\ \A q \in Proc : SF_vars(Receive(p, q))

-----------------------------------------------------------------------------
(***************************************************************************)
(* When exchange() returns, the incoming queues of a rank hold what its    *)
(* blocks were sent in this round and nothing else: every queue that was   *)
(* enqueued anywhere, an empty one from each neighbor that enqueued        *)
(* nothing (plain exchange only), each once, whole and in order - whatever *)
(* the ranks ahead have sent for the next round meanwhile.                 *)
(***************************************************************************)
Enqueued(p, k) == {t \in posted : t[3] = k /\ Owner[t[2]] = p}
Silent(p, k) == IF IsRemote(k) THEN {}
                ELSE {l \in Link : Owner[l[2]] = p /\ <<l[1], l[2], k>> \notin posted}

Due(p, k) ==
  {[from |-> t[1], to |-> t[2], round |-> k, full |-> TRUE] : t \in Enqueued(p, k)}
    \cup {[from |-> l[1], to |-> l[2], round |-> k, full |-> FALSE] : l \in Silent(p, k)}

Delivered ==
  \A p \in Proc :
    LET k == exchange_round_[p]
    IN  pc[p] = "foreach" /\ k > 0 =>
          /\ incoming_[p][k] = {Messages(q) : q \in Due(p, k)}
          /\ received[p][k] = Cardinality(Due(p, k))

\* The last exchange that a rank has ended.
Ended(p) == IF pc[p] = "foreach" THEN exchange_round_[p] ELSE exchange_round_[p] - 1

(***************************************************************************)
(* A message never arrives after the round it belongs to: what the         *)
(* assertion "ir.info.round >= exchange_round_" in check_incoming_queues   *)
(* relies on, for messages still on their way and queues half received,    *)
(* and none is left when the receiver has finished that round.             *)
(***************************************************************************)
NeverLate ==
  \A p, q \in Proc :
    \A m \in ToSet(net[q, p]) \cup ToSet(inflight_recvs[p, q].parts) : m.queue.round > Ended(p)

(***************************************************************************)
(* exchange() is a barrier between the ranks that have linked blocks, a    *)
(* remote exchange one between all ranks, and under the fairness above all *)
(* ranks get through all rounds.                                           *)
(***************************************************************************)
Neighbors(p) == {Owner[l[2]] : l \in {x \in Link : Owner[x[1]] = p}}

NearRanks == [k \in 1..Rounds |-> [p \in Proc |-> IF IsRemote(k) THEN Proc ELSE Neighbors(p)]]

Sync == INSTANCE LocalSync WITH
  Near  <- NearRanks,
  begun <- exchange_round_,
  ended <- [p \in Proc |-> Ended(p)]

KeepsSync == Sync!Spec
KeepsLiveSync == Sync!LiveSpec

-----------------------------------------------------------------------------
(***************************************************************************)
(* Why these hold: the inductive invariant.  A queue waits to be sent or   *)
(* travels, until its last part has come, or it has been placed.           *)
(***************************************************************************)
Queues(n) == {m.queue : m \in ToSet(n)}
Coming(p, q) == Queues(net[p, q])
Pending == {x \in Queue : \/ x \in outgoing_[Owner[x.from]]
                          \/ x \in Coming(Owner[x.from], Owner[x.to])}
Placed  == {x \in Queue : Messages(x) \in incoming_[Owner[x.to]][x.round]}
Alive   == Pending \cup Placed

Same(x, y) == x.from = y.from /\ x.to = y.to /\ x.round = y.round

\* The messages n on their way continue the queue that ir is part of, and hold
\* whole queues after it, one after the other.
Continues(n, ir) ==
  /\ \A i \in 1..Len(n) : n[i].part <= NParts(n[i].queue)
  /\ \A i \in 1..(Len(n) - 1) :
       n[i + 1] = IF n[i].part < NParts(n[i].queue) THEN Part(n[i].queue, n[i].part + 1)
                                                    ELSE Part(n[i + 1].queue, 0)
  /\ \A i, j \in 1..Len(n) : i < j /\ n[i].queue = n[j].queue => n[i].part < n[j].part
  /\ n # <<>> => n[Len(n)].part = NParts(n[Len(n)].queue)
  /\ ir = IF n = <<>> \/ n[1].part = 0 THEN NoRecv
          ELSE [parts |-> [i \in 1..n[1].part |-> Part(n[1].queue, i - 1)],
                left  |-> NParts(n[1].queue) + 1 - n[1].part]

Streams == \A p, q \in Proc : /\ Continues(net[p, q], inflight_recvs[q, p])
                              /\ \A x \in Coming(p, q) : Owner[x.from] = p /\ Owner[x.to] = q

\* At most one queue of a round from a block to a block, and in one place.
Once == /\ \A x, y \in Alive : Same(x, y) => x = y
        /\ Pending \cap Placed = {}
        /\ \A p \in Proc : \A x \in outgoing_[p] : x \notin Coming(p, Owner[x.to])

\* A remote exchange has no empty queues, a plain one follows the links.
MayBe(x) == IF IsRemote(x.round) THEN x.full ELSE <<x.from, x.to>> \in Link

\* The queues that are alive are those that the program and touch_queues made.
Made == /\ \A x \in Alive : /\ x.round <= exchange_round_[Owner[x.from]]
                            /\ MayBe(x)
                            /\ x.full <=> <<x.from, x.to, x.round>> \in posted
        /\ \A t \in posted : [from |-> t[1], to |-> t[2], round |-> t[3], full |-> TRUE] \in Alive
        /\ \A l \in Link : \A k \in 1..Rounds :
             /\ ~IsRemote(k)
             /\ exchange_round_[Owner[l[2]]] <= k /\ k <= exchange_round_[Owner[l[1]]]
             => \E x \in Alive : x.from = l[1] /\ x.to = l[2] /\ x.round = k

\* What a rank still has to send belongs to the exchange it is in.
Sending == \A p \in Proc : /\ \A x \in outgoing_[p] : x.round = exchange_round_[p]
                           /\ pc[p] = "foreach" => outgoing_[p] = {}
                           /\ pc[p] = "check" => QueuesSent(p)
                           /\ pc[p] # "foreach" => exchange_round_[p] > 0

\* Nothing is pending for an exchange that the receiver has ended, and nothing
\* will be, because the ranks it depends on have begun theirs.
OnTime == /\ \A x \in Pending : x.round > Ended(Owner[x.to])
          /\ \A p \in Proc : \A k \in 1..Ended(p) : \A q \in NearRanks[k][p] : exchange_round_[q] >= k

\* A rank that joined the barrier of a round has nothing pending in it.
Barriers == /\ \A p \in Proc : /\ barrier[p] <= exchange_round_[p]
                               /\ \A k \in 1..Ended(p) : IsRemote(k) => barrier[p] >= k
            /\ \A x \in Pending : IsRemote(x.round) => barrier[Owner[x.from]] < x.round
            /\ \A p, q \in Proc : \A m \in ToSet(net[p, q]) :
                 IsRemote(m.queue.round) /\ m.queue.round = exchange_round_[p] => m \in inflight_sends[p]

\* What has been placed is whole queues of that round, and all are counted.
Counted == \A p \in Proc : \A k \in 1..Rounds :
             /\ \A s \in incoming_[p][k] :
                  \E x \in Queue : s = Messages(x) /\ Owner[x.to] = p /\ x.round = k
             /\ IsFiniteSet(incoming_[p][k])
             /\ received[p][k] = Cardinality(incoming_[p][k])

ExchangeInv == /\ ExchangeTypeOK
               /\ Streams
               /\ Once
               /\ Made
               /\ Sending
               /\ OnTime
               /\ Barriers
               /\ Counted
=============================================================================
