--------------------------- MODULE DynamicBalance ---------------------------
(***************************************************************************)
(* Master::dynamic_foreach (include/diy/master.hpp): on every rank a work  *)
(* thread runs the callbacks (detail/master/execution.hpp, dynamic_execute)*)
(* while the calling thread moves blocks that have not run to ranks with   *)
(* less work (detail/master/dynamic.hpp, dynamic_balance), then fixes the  *)
(* ranks in links and queues (resolve.hpp).  The two threads share the     *)
(* list of free blocks (detail/algorithms/load-balance.hpp, AuxBlock) and  *)
(* the Master's table of blocks.                                           *)
(*                                                                         *)
(* The messages between the calling threads go through an iexchange of     *)
(* their own; here is what IExchange shows of it: queues arrive in order,  *)
(* and it ends when every callback has answered "done" and nothing is      *)
(* left to receive.                                                        *)
(***************************************************************************)
EXTENDS Integers, Sequences, FiniteSets, SequencesExt, FiniteSetsExt

CONSTANTS Proc,         \* the ranks
          Block,        \* the gids
          Owner,        \* the rank that has each block at first
          Neighbor,     \* Neighbor[b]: the blocks in b's link
          WorkOf,       \* what get_block_work says of each block
          NSamples,     \* sample_frac * (nprocs - 1), rounded down
          Quantile,     \* quantile, in percent; at one half or less the destination may
                        \* have more work than the sender
          Enqueued,     \* the blocks that enqueued in an earlier foreach of the round
          NoBlock

ASSUME DynamicAssumption ==
  /\ IsFiniteSet(Proc) /\ IsFiniteSet(Block)
  /\ Owner \in [Block -> Proc]
  /\ Neighbor \in [Block -> SUBSET Block]
  /\ WorkOf \in [Block -> Nat]
  /\ NSamples \in 0..Cardinality(Proc) - 1
  /\ Quantile \in 51..100
  /\ Enqueued \subseteq Block
  /\ NoBlock \notin Block

None == -1

VARIABLES
  gids_, lids_,     \* the Master: the gids in the order of their lids, and back
  incoming_,        \* how many copies of each block's incoming queues it holds
  outgoing_,        \* where it sends the outgoing queues: <<from, to>> to a rank
  link,             \* the ranks in each block's link; it moves with the block
  free_blocks, proc_work, prev_proc_work, nsent_reqs, requesters,
  sample_work_info, \* AuxBlock
  iexchange_done,
  chan,             \* chan[<<p, q>>]: the aux queues on their way from p to q
  out,              \* what p's callback has enqueued to q
  done,             \* what p's callback answered last
  mpc,              \* where the calling thread is
  plan,             \* the work, destination and block that dynamic_send_block holds
  from,             \* the rank whose queue dynamic_recv has dequeued in part
  wpc,              \* where the work thread is
  work,             \* its gid, lid, the blocks it found there, and what it enqueued
  rank_map_,        \* the DynamicAssigner
  processed,        \* how often each block was processed
  disturbed         \* the ranks whose work thread is looking a block up while
                    \* another block was released

master == <<gids_, lids_, incoming_, link>>
aux    == <<free_blocks, proc_work>>
info   == <<prev_proc_work, nsent_reqs, requesters, sample_work_info>>
net    == <<chan, out, done, from>>
worker == <<wpc, work, processed, disturbed>>
vars   == <<master, outgoing_, aux, info, iexchange_done, net, mpc, plan, worker, rank_map_>>

NoPlan == [work |-> None, dst |-> None, block |-> NoBlock]
NoWork == [gid |-> NoBlock, lid |-> None, found |-> {}, enqueued |-> <<>>]

Local(p) == {b \in Block : Owner[b] = p}

\* The work of the blocks S, counted in its units.
Total(S) == Cardinality(UNION {{f} \X (1..WorkOf[f.gid]) : f \in S})

\* dynamic_foreach_, up to the start of the threads: init_free_blocks.
Init ==
  /\ gids_ = [p \in Proc |-> SetToSeq(Local(p))]
  /\ lids_ = [p \in Proc |-> [b \in Local(p) |-> CHOOSE i \in DOMAIN gids_[p] : gids_[p][i] = b]]
  /\ incoming_ = [p \in Proc |-> [b \in Block |-> IF b \in Local(p) THEN 1 ELSE 0]]
  /\ link = [b \in Block |-> [n \in Neighbor[b] |-> Owner[n]]]
  /\ outgoing_ = [p \in Proc |-> [e \in {x \in (Local(p) \cap Enqueued) \X Block : x[2] \in Neighbor[x[1]]}
                                    |-> Owner[e[2]]]]
  /\ free_blocks = [p \in Proc |-> {[gid |-> b, src_proc |-> p] : b \in Local(p)}]
  /\ proc_work = [p \in Proc |-> Total(free_blocks[p])]
  /\ prev_proc_work = proc_work
  /\ nsent_reqs = [p \in Proc |-> 0]
  /\ requesters = [p \in Proc |-> {}]
  /\ sample_work_info = [p \in Proc |-> <<>>]
  /\ iexchange_done = [p \in Proc |-> FALSE]
  /\ chan = [x \in Proc \X Proc |-> <<>>]
  /\ out = [p \in Proc |-> [q \in Proc |-> <<>>]]
  /\ done = [p \in Proc |-> FALSE]
  /\ mpc = [p \in Proc |-> "iexchange"]
  /\ plan = [p \in Proc |-> NoPlan]
  /\ from = [p \in Proc |-> None]
  /\ wpc = [p \in Proc |-> "poll"]
  /\ work = [p \in Proc |-> NoWork]
  /\ rank_map_ = Owner
  /\ processed = [b \in Block |-> 0]
  /\ disturbed = {}

-----------------------------------------------------------------------------
(***************************************************************************)
(* The free blocks.                                                        *)
(***************************************************************************)
Work(f) == WorkOf[f.gid]

\* One of the heaviest blocks: which of them depends on the order of the vector,
\* which is not kept here.
Heaviest(p) == {f \in free_blocks[p] : \A g \in free_blocks[p] : Work(g) <= Work(f)}

\* Mutant: the block is not removed.
grab_heaviest_free_block_Keep(p, f) ==
  /\ f \in Heaviest(p)
  /\ UNCHANGED free_blocks
  /\ proc_work' = [proc_work EXCEPT ![p] = @ - Work(f)]

grab_heaviest_free_block(p, f) ==
  /\ f \in Heaviest(p)
  /\ free_blocks' = [free_blocks EXCEPT ![p] = @ \ {f}]
  /\ proc_work' = [proc_work EXCEPT ![p] = @ - Work(f)]

\* Mutant: the work is taken off again.
add_free_block_Less(p, f) ==
  /\ free_blocks' = [free_blocks EXCEPT ![p] = @ \cup {f}]
  /\ proc_work' = [proc_work EXCEPT ![p] = @ - Work(f)]

add_free_block(p, f) ==
  /\ free_blocks' = [free_blocks EXCEPT ![p] = @ \cup {f}]
  /\ proc_work' = [proc_work EXCEPT ![p] = @ + Work(f)]

any_free_blocks(p) == free_blocks[p] # {}

-----------------------------------------------------------------------------
(***************************************************************************)
(* The calling thread: iexchange_balance, called while the last answer is  *)
(* "not done" or something has come.                                       *)
(***************************************************************************)
LookingUp(p) == wpc[p] \in {"gid", "block"}

\* A work thread has got another block than its own, or none: what the program
\* does from there on is not followed.
Astray == \E p \in Proc : ~(work[p].found \subseteq {work[p].gid})

Goto(p, to) == mpc' = [mpc EXCEPT ![p] = to]
Enqueue(o, p, Q, msg) == [o EXCEPT ![p] = [q \in Proc |-> IF q \in Q THEN Append(@[q], msg) ELSE @[q]]]
WorkInfo(p) == [type |-> "work_info", proc_rank |-> p, proc_work |-> proc_work[p]]

\* dynamic_send_block: the rank's place among the samples, the first with more
\* work than it.
Place(p) == LET more == {i \in DOMAIN sample_work_info[p] : proc_work[p] < sample_work_info[p][i].proc_work}
            IN  IF more = {} THEN Len(sample_work_info[p]) ELSE Min(more) - 1

\* The destination is the mirror image of that place.
Target(p) == Len(sample_work_info[p]) - Place(p) + 1

\* Those who have asked are told of a change, the requests are sent once, and
\* when all samples are there and the rank is among the heaviest, it sends a
\* block.  The work is read several times; here it is the same each time.
Callback(p) ==
  /\ mpc[p] = "iexchange" /\ ~Astray
  /\ ~done[p] \/ \E q \in Proc : chan[<<q, p>>] # <<>>
  /\ \E S \in kSubset(NSamples, Proc \ {p}) :
       LET told  == IF prev_proc_work[p] # proc_work[p] THEN requesters[p] ELSE {}
           asked == IF any_free_blocks(p) /\ nsent_reqs[p] = 0 THEN S ELSE {}
       IN  /\ out' = Enqueue(Enqueue(out, p, told, WorkInfo(p)), p, asked, [type |-> "work_info_req"])
           /\ nsent_reqs' = [nsent_reqs EXCEPT ![p] = IF asked # {} THEN NSamples ELSE @]
  /\ prev_proc_work' = [prev_proc_work EXCEPT ![p] = proc_work[p]]
  /\ LET n == Len(sample_work_info[p])
     IN  IF nsent_reqs'[p] # 0 /\ n = nsent_reqs'[p] /\ 100 * Place(p) >= Quantile * n
         THEN /\ plan' = [plan EXCEPT ![p] = [work |-> proc_work[p], dst |-> Target(p), block |-> NoBlock]]
              /\ Goto(p, "grab")
         ELSE UNCHANGED plan /\ Goto(p, "recv")
  /\ UNCHANGED <<master, outgoing_, aux, requesters, sample_work_info, iexchange_done, chan, done, from, worker,
                 rank_map_>>

GrabToSend(p) ==
  /\ mpc[p] = "grab"
  /\ IF any_free_blocks(p)
     THEN \E f \in Heaviest(p) : /\ grab_heaviest_free_block(p, f)
                                 /\ plan' = [plan EXCEPT ![p].block = f]
                                 /\ Goto(p, "move")
     ELSE /\ plan' = [plan EXCEPT ![p] = NoPlan]
          /\ Goto(p, "recv")
          /\ UNCHANGED aux
  /\ UNCHANGED <<master, outgoing_, info, iexchange_done, net, worker, rank_map_>>

\* What is left of a sequence when its last element takes the place of the i-th.
Without(s, i) == Front([s EXCEPT ![i] = Last(s)])

\* Mutant: the lid of the block that takes the place is left as it was.
release_StaleLid(p, b) ==
  /\ gids_' = [gids_ EXCEPT ![p] = Without(@, lids_[p][b])]
  /\ lids_' = [lids_ EXCEPT ![p] = [g \in DOMAIN @ \ {b} |-> @[g]]]

\* Master::release: the last block takes the lid of the one that goes.
release(p, b) ==
  LET lid  == lids_[p][b]
      last == Last(gids_[p])
  IN  /\ gids_' = [gids_ EXCEPT ![p] = Without(@, lid)]
      /\ lids_' = [lids_ EXCEPT ![p] = [g \in DOMAIN @ \ {b} |-> IF g = last THEN lid ELSE @[g]]]

\* The tests of dynamic_send_block, on what was sampled and on what is free now.
Worthwhile(p) ==
  LET dst == sample_work_info[p][plan[p].dst]
  IN  /\ plan[p].work - dst.proc_work > Work(plan[p].block)
      /\ plan[p].block.src_proc # dst.proc_rank
      /\ any_free_blocks(p)

\* The block leaves with copies of its incoming queues.  Its outgoing queues stay.
MoveBlock(p) ==
  /\ mpc[p] = "move" /\ Worthwhile(p)
  /\ LET b == plan[p].block.gid
     IN  /\ out' = Enqueue(out, p, {sample_work_info[p][plan[p].dst].proc_rank},
                           [type |-> "block", gid |-> b, queues |-> incoming_[p][b]])
         /\ release(p, b)
  /\ disturbed' = disturbed \cup {q \in {p} : LookingUp(q)}
  /\ plan' = [plan EXCEPT ![p] = NoPlan]
  /\ Goto(p, "recv")
  /\ UNCHANGED <<incoming_, link, outgoing_, aux, info, iexchange_done, chan, done, from, wpc, work, processed, rank_map_>>

PutBack(p) ==
  /\ mpc[p] = "move" /\ ~Worthwhile(p)
  /\ add_free_block(p, plan[p].block)
  /\ plan' = [plan EXCEPT ![p] = NoPlan]
  /\ Goto(p, "recv")
  /\ UNCHANGED <<master, outgoing_, info, iexchange_done, net, worker, rank_map_>>

\* dynamic_recv: the next message of the queue that is being dequeued, or of
\* another one that has come; in all at most one is begun.
Message(p, q) == Head(Head(chan[<<q, p>>]))

Dequeue(p, q, type) ==
  /\ mpc[p] = "recv" /\ from[p] \in {q, None} /\ chan[<<q, p>>] # <<>>
  /\ Message(p, q).type = type
  /\ LET rest == Tail(Head(chan[<<q, p>>]))
     IN  /\ chan' = [chan EXCEPT ![<<q, p>>] = (IF rest = <<>> THEN <<>> ELSE <<rest>>) \o Tail(@)]
         /\ from' = [from EXCEPT ![p] = IF rest = <<>> THEN None ELSE q]

RecvRequest(p, q) ==
  /\ Dequeue(p, q, "work_info_req")
  /\ out' = Enqueue(out, p, {q}, WorkInfo(p))
  /\ requesters' = [requesters EXCEPT ![p] = @ \cup {q}]
  /\ UNCHANGED <<master, outgoing_, aux, prev_proc_work, nsent_reqs, sample_work_info, iexchange_done, done, mpc,
                 plan, worker, rank_map_>>

\* The samples, one for each rank, sorted by their work; std::sort leaves open
\* how equal ones are ordered.
Sorted(s) == \A i, j \in DOMAIN s : i < j => s[i].proc_work <= s[j].proc_work

RecvWorkInfo(p, q) ==
  /\ Dequeue(p, q, "work_info")
  /\ LET new == Message(p, q)
         S   == {w \in ToSet(sample_work_info[p]) : w.proc_rank # new.proc_rank} \cup {new}
     IN  \E s \in SetToSeqs(S) : Sorted(s) /\ sample_work_info' = [sample_work_info EXCEPT ![p] = s]
  /\ UNCHANGED <<master, outgoing_, aux, prev_proc_work, nsent_reqs, requesters, iexchange_done, out, done, mpc,
                 plan, worker, rank_map_>>

\* Mutant: the lid is that of the block before.
add_Short(p, b) ==
  /\ gids_' = [gids_ EXCEPT ![p] = Append(@, b)]
  /\ lids_' = [lids_ EXCEPT ![p] = [g \in DOMAIN @ \cup {b} |-> IF g = b THEN Len(gids_[p]) ELSE @[g]]]

\* Master::add: a block at the end.
add(p, b) ==
  /\ gids_' = [gids_ EXCEPT ![p] = Append(@, b)]
  /\ lids_' = [lids_ EXCEPT ![p] = [g \in DOMAIN @ \cup {b} |-> IF g = b THEN Len(gids_[p]) + 1 ELSE @[g]]]

\* The block is added, and free.
RecvBlock(p, q) ==
  /\ Dequeue(p, q, "block")
  /\ LET m == Message(p, q)
     IN  /\ add(p, m.gid)
         /\ incoming_' = [incoming_ EXCEPT ![p][m.gid] = @ + m.queues]
         /\ add_free_block(p, [gid |-> m.gid, src_proc |-> q])
  /\ UNCHANGED <<link, outgoing_, info, iexchange_done, out, done, mpc, plan, worker, rank_map_>>

Receive(p, q) == RecvRequest(p, q) \/ RecvWorkInfo(p, q) \/ RecvBlock(p, q)

\* Mutant: a rank with free blocks says that it is done.
Return_NotDone(p) ==
  /\ mpc[p] = "recv" /\ from[p] = None
  /\ ~done[p] \/ \A q \in Proc : chan[<<q, p>>] = <<>>
  /\ done' = [done EXCEPT ![p] = any_free_blocks(p)]
  /\ chan' = [x \in Proc \X Proc |-> IF x[1] = p /\ out[p][x[2]] # <<>> THEN Append(chan[x], out[p][x[2]]) ELSE chan[x]]
  /\ out' = [out EXCEPT ![p] = [q \in Proc |-> <<>>]]
  /\ Goto(p, "iexchange")
  /\ UNCHANGED <<master, outgoing_, aux, info, iexchange_done, from, plan, worker, rank_map_>>

\* Nothing more has come, which a rank that was called because something had
\* come finds only when it has dequeued everything.  The answer, and the queues
\* leave the proxy.
Return(p) ==
  /\ mpc[p] = "recv" /\ from[p] = None
  /\ ~done[p] \/ \A q \in Proc : chan[<<q, p>>] = <<>>
  /\ done' = [done EXCEPT ![p] = ~any_free_blocks(p)]
  /\ chan' = [x \in Proc \X Proc |-> IF x[1] = p /\ out[p][x[2]] # <<>> THEN Append(chan[x], out[p][x[2]]) ELSE chan[x]]
  /\ out' = [out EXCEPT ![p] = [q \in Proc |-> <<>>]]
  /\ Goto(p, "iexchange")
  /\ UNCHANGED <<master, outgoing_, aux, info, iexchange_done, from, plan, worker, rank_map_>>

\* iexchange ends: no rank has work left.
InCallback(p) == mpc[p] \in {"grab", "move", "recv"}

EndIExchange(p) ==
  /\ mpc[p] = "iexchange"
  /\ \A q \in Proc : done[q] /\ ~InCallback(q)
  /\ \A x \in Proc \X Proc : chan[x] = <<>>
  /\ iexchange_done' = [iexchange_done EXCEPT ![p] = TRUE]
  /\ Goto(p, "fix_links")
  /\ UNCHANGED <<master, outgoing_, aux, info, net, plan, worker, rank_map_>>

-----------------------------------------------------------------------------
(***************************************************************************)
(* The calling thread: fix_links, join, fix_queues.                        *)
(***************************************************************************)
record_local_gids(p) ==
  /\ mpc[p] = "fix_links"
  /\ rank_map_' = [b \in Block |-> IF b \in ToSet(gids_[p]) THEN p ELSE rank_map_[b]]
  /\ Goto(p, "barrier")
  /\ UNCHANGED <<master, outgoing_, aux, info, iexchange_done, net, plan, worker>>

\* Once every rank has come to the barrier.
update_links(p) ==
  /\ mpc[p] = "barrier"
  /\ \A q \in Proc : mpc[q] \in {"barrier", "join", "end"}
  /\ link' = [b \in Block |-> IF b \in ToSet(gids_[p]) THEN [n \in Neighbor[b] |-> rank_map_[n]] ELSE link[b]]
  /\ Goto(p, "join")
  /\ UNCHANGED <<gids_, lids_, incoming_, outgoing_, aux, info, iexchange_done, net, plan, worker, rank_map_>>

\* Mutant: before the threads join.
fix_queues_Early(p) ==
  /\ mpc[p] = "join"
  /\ outgoing_' = [outgoing_ EXCEPT ![p] = [e \in DOMAIN @ |->
       IF e[1] \notin ToSet(gids_[p]) THEN @[e]
       ELSE IF e[2] \in Neighbor[e[1]] THEN link[e[1]][e[2]] ELSE rank_map_[e[2]]]]
  /\ Goto(p, "end")
  /\ UNCHANGED <<master, aux, info, iexchange_done, net, plan, worker, rank_map_>>

\* Once the work thread has ended: the queues of the blocks that are here, to
\* where their targets are now.
fix_queues(p) ==
  /\ mpc[p] = "join" /\ wpc[p] = "exited"
  /\ outgoing_' = [outgoing_ EXCEPT ![p] = [e \in DOMAIN @ |->
       IF e[1] \notin ToSet(gids_[p]) THEN @[e]
       ELSE IF e[2] \in Neighbor[e[1]] THEN link[e[1]][e[2]] ELSE rank_map_[e[2]]]]
  /\ Goto(p, "end")
  /\ UNCHANGED <<master, aux, info, iexchange_done, net, plan, worker, rank_map_>>

-----------------------------------------------------------------------------
(***************************************************************************)
(* The work thread.  cmd->execute(block(lid(gid)), proxy(lid(gid))) looks  *)
(* the lid up twice and uses both afterwards: the first for the block, the *)
(* second for the proxy's gid and then its block and link, each of them a  *)
(* step of its own under the lock.  The model has the second look-up, of   *)
(* which the first is the shorter part.                                    *)
(***************************************************************************)
\* The heaviest free block, and its lid.
Grab(p) ==
  /\ wpc[p] = "poll" /\ ~Astray
  /\ \E f \in Heaviest(p) : /\ grab_heaviest_free_block(p, f)
                            /\ work' = [work EXCEPT ![p] = [gid |-> f.gid, lid |-> lids_[p][f.gid], found |-> {}, enqueued |-> <<>>]]
  /\ wpc' = [wpc EXCEPT ![p] = "gid"]
  /\ UNCHANGED <<master, outgoing_, info, iexchange_done, net, mpc, plan, processed, disturbed, rank_map_>>

\* What is at the lid now; past the end there is nothing that may be used.
Found(p) == {IF work[p].lid \in DOMAIN gids_[p] THEN gids_[p][work[p].lid] ELSE NoBlock}

LookUpGid(p) ==
  /\ wpc[p] = "gid"
  /\ work' = [work EXCEPT ![p].found = Found(p)]
  /\ wpc' = [wpc EXCEPT ![p] = "block"]
  /\ UNCHANGED <<master, outgoing_, aux, info, iexchange_done, net, mpc, plan, processed, disturbed, rank_map_>>

\* The block and its link, and the callback, which enqueues to its neighbors.
Call(p) ==
  /\ wpc[p] = "block"
  /\ work' = [work EXCEPT ![p].found = @ \cup Found(p), ![p].enqueued = link[work[p].gid]]
  /\ wpc' = [wpc EXCEPT ![p] = "run"]
  /\ UNCHANGED <<master, outgoing_, aux, info, iexchange_done, net, mpc, plan, processed, disturbed, rank_map_>>

\* ~Proxy puts what was enqueued into the outgoing queues; one that is there
\* keeps its rank.
CopyOut(p) ==
  /\ wpc[p] = "run" /\ ~Astray
  /\ LET b == work[p].gid
         E == {<<b, n>> : n \in Neighbor[b]}
     IN  outgoing_' = [outgoing_ EXCEPT ![p] = [e \in DOMAIN @ \cup E |->
                        IF e \in DOMAIN @ THEN @[e] ELSE work[p].enqueued[e[2]]]]
  /\ processed' = [processed EXCEPT ![work[p].gid] = @ + 1]
  /\ wpc' = [wpc EXCEPT ![p] = "poll"]
  /\ work' = [work EXCEPT ![p] = NoWork]
  /\ disturbed' = disturbed \ {p}
  /\ UNCHANGED <<master, aux, info, iexchange_done, net, mpc, plan, rank_map_>>

Exit(p) ==
  /\ wpc[p] = "poll" /\ iexchange_done[p]
  /\ incoming_' = [incoming_ EXCEPT ![p] = [b \in Block |-> 0]]
  /\ wpc' = [wpc EXCEPT ![p] = "exited"]
  /\ UNCHANGED <<gids_, lids_, link, outgoing_, aux, info, iexchange_done, net, mpc, plan, work, processed, disturbed,
                 rank_map_>>

-----------------------------------------------------------------------------
AllEnd  == \A p \in Proc : mpc[p] = "end"

Finished == (AllEnd \/ Astray) /\ UNCHANGED vars

Main(p) == \/ Callback(p) \/ GrabToSend(p)
           \/ MoveBlock(p) \/ PutBack(p)
           \/ (\E q \in Proc : Receive(p, q)) \/ Return(p)
           \/ EndIExchange(p) \/ record_local_gids(p) \/ update_links(p) \/ fix_queues(p)
Worker(p) == Grab(p) \/ LookUpGid(p) \/ Call(p) \/ CopyOut(p) \/ Exit(p)

Next == (\E p \in Proc : Main(p) \/ Worker(p)) \/ Finished

Spec == Init /\ [][Next]_vars

\* Both threads run; and the work thread, which polls the free blocks all the
\* time, gets at them when the other one takes a block and puts it back again
\* and again.
Fairness == \A p \in Proc : WF_vars(Main(p)) /\ WF_vars(Worker(p)) /\ SF_vars(Grab(p))

LiveSpec == Spec /\ Fairness

-----------------------------------------------------------------------------
\* Types.
FreeBlock == [gid : Block, src_proc : Proc]
Info      == [type : {"work_info"}, proc_rank : Proc, proc_work : Nat]
Msg       == Info \cup [type : {"work_info_req"}] \cup [type : {"block"}, gid : Block, queues : Nat]
Enqueues  == {<<>>} \cup UNION {[Neighbor[b] -> Proc] : b \in Block}

MasterTypeOK ==
  /\ gids_ \in [Proc -> Seq(Block)]
  /\ lids_ = [p \in Proc |-> lids_[p]]
  /\ \A p \in Proc : lids_[p] \in [ToSet(gids_[p]) -> DOMAIN gids_[p]]
  /\ incoming_ \in [Proc -> [Block -> Nat]]
  /\ link = [b \in Block |-> link[b]]
  /\ \A b \in Block : link[b] \in [Neighbor[b] -> Proc]
  /\ outgoing_ = [p \in Proc |-> outgoing_[p]]
  /\ \A p \in Proc : DOMAIN outgoing_[p] \subseteq Block \X Block /\ outgoing_[p] \in [DOMAIN outgoing_[p] -> Proc]
  /\ rank_map_ \in [Block -> Proc]

AuxTypeOK ==
  /\ free_blocks \in [Proc -> SUBSET FreeBlock]
  /\ proc_work \in [Proc -> Nat] /\ prev_proc_work \in [Proc -> Nat]
  /\ nsent_reqs \in [Proc -> {0, NSamples}]
  /\ requesters \in [Proc -> SUBSET Proc]
  /\ sample_work_info \in [Proc -> Seq(Info)]
  /\ iexchange_done \in [Proc -> BOOLEAN] /\ done \in [Proc -> BOOLEAN]
  /\ chan \in [Proc \X Proc -> Seq(Seq(Msg) \ {<<>>})]
  /\ out \in [Proc -> [Proc -> Seq(Msg)]]
  /\ from \in [Proc -> Proc \cup {None}]

ThreadsTypeOK ==
  /\ mpc \in [Proc -> {"iexchange", "grab", "move", "recv", "fix_links", "barrier", "join", "end"}]
  /\ plan \in [Proc -> [work : Nat \cup {None}, dst : Nat \cup {None}, block : FreeBlock \cup {NoBlock}]]
  /\ wpc \in [Proc -> {"poll", "gid", "block", "run", "exited"}]
  /\ work \in [Proc -> [gid : Block \cup {NoBlock}, lid : Nat \cup {None}, found : SUBSET (Block \cup {NoBlock}),
                        enqueued : Enqueues]]
  /\ processed \in [Block -> Nat]
  /\ disturbed \subseteq Proc

DynamicTypeOK == MasterTypeOK /\ AuxTypeOK /\ ThreadsTypeOK

\* What is on its way from p to q: the aux queues, and what has been enqueued.
FromTo(p, q) == Append(chan[<<p, q>>], out[p][q])

\* The places of the messages with block b that are under way.
Moving(b) == UNION {UNION {{<<p, q, i, j>> : j \in {k \in DOMAIN FromTo(p, q)[i] : /\ FromTo(p, q)[i][k].type = "block"
                                                                                 /\ FromTo(p, q)[i][k].gid = b}}
                             : i \in DOMAIN FromTo(p, q)} : p, q \in Proc}

(***************************************************************************)
(* A block is in one place: in one Master, once, or in one message; and    *)
(* the Master's two tables, gids_ and lids_, are each other's inverse (add *)
(* and release keep four containers in step, master.hpp:735).              *)
(***************************************************************************)
InOnePlace ==
  /\ \A b \in Block : Cardinality(Moving(b)) + Cardinality({p \in Proc : b \in ToSet(gids_[p])}) = 1
  /\ \A p \in Proc : /\ \A i \in DOMAIN gids_[p] : lids_[p][gids_[p][i]] = i
                     /\ \A b \in DOMAIN lids_[p] : lids_[p][b] \in DOMAIN gids_[p] /\ gids_[p][lids_[p][b]] = b

(***************************************************************************)
(* No block is run twice and none is forgotten, whichever of the two       *)
(* threads takes it from the free blocks and however far it goes: it is    *)
(* free on a rank, held by one of its threads, under way, or processed.    *)
(* Unless it is under way, a block that is not processed is where it is    *)
(* free, with the queues that it has yet to read.                          *)
(***************************************************************************)
Planned(p, b) == mpc[p] = "move" /\ plan[p].block.gid = b
Free(b) == UNION {{p} \X {f \in free_blocks[p] : f.gid = b} : p \in Proc}

ProcessedOnce ==
  \A b \in Block :
    /\ processed[b] + Cardinality(Moving(b)) + Cardinality(Free(b)) + Cardinality({p \in Proc : Planned(p, b)})
       + Cardinality({p \in Proc : work[p].gid = b}) = 1
    /\ \A p \in Proc : Planned(p, b) \/ work[p].gid = b \/ (\E f \in free_blocks[p] : f.gid = b)
                       => b \in ToSet(gids_[p]) /\ incoming_[p][b] > 0

(***************************************************************************)
(* The callback gets its own block, proxy and link, unless another block   *)
(* was released during the look-up: then the lid that was found can belong *)
(* to another block by the time it is used (execution.hpp:177).            *)
(***************************************************************************)
LooksUpItsOwn ==
  \A p \in Proc : p \notin disturbed => work[p].found \subseteq {work[p].gid}

(***************************************************************************)
(* When dynamic_foreach returns, all callbacks have run, and links and     *)
(* outgoing queues of the blocks on the rank name the ranks on which their *)
(* neighbors are, including what the last callbacks enqueued while the     *)
(* links were being fixed ("fix_queues must be done after the threads      *)
(* join", master.hpp:885).                                                 *)
(***************************************************************************)
FixedAtEnd ==
  \A p \in Proc : mpc[p] = "end" =>
    /\ \A b \in Block : processed[b] = 1 \/ \E q \in Proc : work[q].gid = b
    /\ \A b \in ToSet(gids_[p]) : /\ \A n \in Neighbor[b] : n \in ToSet(gids_[link[b][n]])
                                  /\ \A e \in DOMAIN outgoing_[p] : e[1] = b => e[2] \in ToSet(gids_[outgoing_[p][e]])

(***************************************************************************)
(* dynamic_foreach returns on every rank: the blocks do not wander for     *)
(* ever, nobody waits for a message or at the barrier for ever.            *)
(***************************************************************************)
Ends == <>(AllEnd \/ Astray)

-----------------------------------------------------------------------------
(***************************************************************************)
(* Why these hold: the inductive invariant.                                *)
(***************************************************************************)
\* The work of a rank is that of its free blocks.
Weighed == \A p \in Proc : proc_work[p] = Total(free_blocks[p])

\* A block does not leave without its incoming queues.
Accompanied == \A p, q \in Proc : \A i \in DOMAIN FromTo(p, q) : \A j \in DOMAIN FromTo(p, q)[i] :
                 FromTo(p, q)[i][j].type = "block" => FromTo(p, q)[i][j].queues > 0

\* What the calling thread has in hand in each of its steps.
InHand == \A p \in Proc :
  /\ mpc[p] \in {"grab", "move"} => plan[p].dst \in DOMAIN sample_work_info[p]
  /\ mpc[p] = "move" => plan[p].block \in FreeBlock
  /\ ~InCallback(p) => out[p] = [q \in Proc |-> <<>>]
  /\ ~InCallback(p) /\ done[p] => free_blocks[p] = {}

Gone(p) == mpc[p] \in {"fix_links", "barrier", "join", "end"}

\* When a rank has left the iexchange, no rank does anything in it any more.
Over == /\ \A p \in Proc : iexchange_done[p] = Gone(p)
        /\ (\E p \in Proc : Gone(p)) => /\ \A q \in Proc : done[q] /\ ~InCallback(q)
                                       /\ \A x \in Proc \X Proc : chan[x] = <<>>

\* What the work thread has in hand in each of its steps.
AtWork == \A p \in Proc :
  /\ wpc[p] \in {"poll", "exited"} => work[p] = NoWork
  /\ wpc[p] \notin {"poll", "exited"} => work[p].gid \in Block
  /\ wpc[p] = "gid" => work[p].found = {}
  /\ wpc[p] = "run" => work[p].enqueued \in [Neighbor[work[p].gid] -> Proc]
  /\ wpc[p] = "exited" => Gone(p)
  /\ LookingUp(p) /\ p \notin disturbed =>
       work[p].lid \in DOMAIN gids_[p] /\ gids_[p][work[p].lid] = work[p].gid

\* What each step of the end has put right.
Resolved == \A p \in Proc :
  /\ mpc[p] \in {"barrier", "join", "end"} => \A b \in ToSet(gids_[p]) : rank_map_[b] = p
  /\ mpc[p] \in {"join", "end"} =>
       /\ \A q \in Proc : mpc[q] \in {"barrier", "join", "end"}
       /\ \A b \in ToSet(gids_[p]) : \A n \in Neighbor[b] : link[b][n] = rank_map_[n]
  /\ mpc[p] = "end" =>
       /\ wpc[p] = "exited"
       /\ \A e \in DOMAIN outgoing_[p] : e[1] \in ToSet(gids_[p]) => outgoing_[p][e] = rank_map_[e[2]]

DynamicInv == /\ DynamicTypeOK
              /\ InOnePlace
              /\ ProcessedOnce
              /\ LooksUpItsOwn
              /\ Weighed
              /\ Accompanied
              /\ InHand
              /\ Over
              /\ AtWork
              /\ Resolved
=============================================================================
