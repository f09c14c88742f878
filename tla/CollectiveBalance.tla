------------------------- MODULE CollectiveBalance -------------------------
(***************************************************************************)
(* The blocks of a program on their ranks: created by                      *)
(* RegularDecomposer::decompose and, where the program asks for it, moved  *)
(* by load_balance_collective (include/diy/algorithms.hpp,                 *)
(* detail/algorithms/load-balance-collective.hpp), after which fix_links   *)
(* (resolve.hpp) brings the links up to date through a DynamicAssigner.    *)
(* Every rank gathers the work of all and decides the same moves, which it *)
(* carries out in their order.                                             *)
(***************************************************************************)
EXTENDS Assigners, Partners

CONSTANTS NProc,        \* mpi::communicator::size
          Programs,     \* the programs; see Constructed
          WorkSize      \* one more than the largest Work, an unsigned integer

ASSUME BalanceAssumption ==
  /\ NProc \in Nat \ {0} /\ WorkSize \in Nat \ {0}
  /\ \A x \in Programs : /\ x.nblocks \in Nat \ {0} /\ x.balance \in BOOLEAN
                         /\ x.balance => x.work \in [1..x.nblocks -> Nat]

\* The programs are those whose parameters the code can take: with groups of 1 or 0,
\* RegularPartners::factor (common.hpp:178) loops for ever or divides by 0, and where
\* all divisions are given nothing compares their product with the number of blocks
\* (decomposition.hpp:606).
ASSUME ProgramsAssumption ==
  \A x \in Programs :
    LET divisions == x.dec.divisions
    IN  /\ divisions \in Seq(Nat) /\ divisions # <<>> /\ x.dec \in Decomposers(Dims(divisions))
        /\ (\A i \in Dims(divisions) : divisions[i] # 0) => Product(divisions) = x.nblocks
        /\ x.op \in Kinds \cup {"all_to_all"} /\ x.k \in Nat \ {0, 1} /\ x.contiguous \in BOOLEAN

Proc == Ranks(NProc)

VARIABLES
  setup,            \* what the program has constructed; constant
  pc,               \* where the rank is
  blocks,           \* Master: the gids of each rank
  link,             \* Master: the link of each block, with the rank of each neighbor
  expected_,        \* Master: how many queues a flush waits for
  rank_map_,        \* DynamicAssigner: the slots of the window; -1 before the first put
  all_work_info,    \* what each rank has put into the all_gather
  all_move_info,    \* the moves, as each rank has decided them
  next_move,        \* the move that each rank is to carry out next
  moving            \* the blocks sent and not yet received, with their destination

Gid == Gids(setup.nblocks)

balanceVars == <<setup, pc, blocks, link, expected_, rank_map_, all_work_info,
                 all_move_info, next_move, moving>>

\* The partners of a reduction for every round and block.
Tabulated(part) ==
  LET last == rounds(part)
      gids == Gids(Product(part.divisions))
  IN  [rounds   |-> last,
       active   |-> [r \in 0..last |-> {g \in gids : active(part, r, g)}],
       incoming |-> [r \in 1..last |-> [g \in gids |-> incoming(part, r, g)]],
       outgoing |-> [r \in 0..(last - 1) |-> [g \in gids |-> outgoing(part, r, g)]]]

\* Mutant: contiguous groups.
AllToAllPartners_Contiguous(nblocks, k) == NewPartners("swap", <<nblocks>>, k, TRUE)

\* all_to_all has a decomposer of its own and round-robin groups.
AllToAllPartners(nblocks, k) ==
  LET line == [min |-> <<0>>, max |-> <<nblocks - 1>>, share_face |-> <<FALSE>>,
               wrap |-> <<FALSE>>, ghosts |-> <<0>>, divisions |-> <<0>>]
  IN  NewPartners("swap", fill_divisions(line, nblocks), k, FALSE)

\* A program with its decomposer, the grid it lays out and the partners of its reduction.
Constructed(x) ==
  LET divisions == fill_divisions(x.dec, x.nblocks)
      dec == [x.dec EXCEPT !.divisions = divisions]
      part == IF x.op = "all_to_all" THEN AllToAllPartners(x.nblocks, x.k)
              ELSE NewPartners(x.op, divisions, x.k, x.contiguous)
  IN  [dec |-> dec, nblocks |-> x.nblocks, static |-> x.static, balance |-> x.balance,
       work |-> x.work, op |-> x.op, part |-> Tabulated(part),
       near |-> [g \in Gids(x.nblocks) |-> IF divisions = Throws THEN {} ELSE Neighbors(dec, g)]]

Setups == {Constructed(x) : x \in Programs}

\* The static assigner of the program, and the one that its reduction uses.
StaticRank(gid) == IF setup.static = "contiguous" THEN ContiguousRank(NProc, setup.nblocks, gid)
                   ELSE RoundRobinRank(NProc, gid)
local_gids(p) == IF setup.static = "contiguous" THEN ContiguousGids(NProc, setup.nblocks, p)
                 ELSE RoundRobinGids(NProc, setup.nblocks, p)
Slot(gid) == rank_offset(NProc, setup.nblocks, gid)
rank(gid) == IF setup.balance THEN rank_map_[Slot(gid)] ELSE StaticRank(gid)

BalanceInit ==
  /\ setup \in Setups
  /\ setup.dec.divisions # Throws
  /\ pc = [p \in Proc |-> "decompose"]
  /\ blocks = [p \in Proc |-> {}]
  /\ link = [g \in Gid |-> {}]
  /\ expected_ = [p \in Proc |-> 0]
  /\ rank_map_ = [s \in {Slot(g) : g \in Gid} |-> -1]
  /\ all_work_info = [p \in Proc |-> <<>>]
  /\ all_move_info = [p \in Proc |-> <<>>]
  /\ next_move = [p \in Proc |-> 1]
  /\ moving = {}

-----------------------------------------------------------------------------
\* Link::size_unique, which add and release count.
size_unique(nbrs) == Cardinality({<<n.gid, n.proc>> : n \in nbrs})

\* One for each unique neighbor of each of the blocks S.
Edges(S, lk) == UNION {{<<g, n.gid, n.proc>> : n \in lk[g]} : g \in S}

\* A link as it is created, with the ranks of the neighbors by the static assigner.
placed(g) == {[gid |-> n.gid, dir |-> n.dir, wrap |-> n.wrap, proc |-> StaticRank(n.gid)] :
                n \in setup.near[g]}

\* decompose: the blocks of a rank with their links.
Decompose(p) ==
  /\ pc[p] = "decompose"
  /\ blocks' = [blocks EXCEPT ![p] = local_gids(p)]
  /\ link' = [g \in Gid |-> IF g \in local_gids(p) THEN placed(g) ELSE link[g]]
  /\ expected_' = [expected_ EXCEPT ![p] = Cardinality(Edges(local_gids(p), link'))]
  /\ pc' = [pc EXCEPT ![p] = IF setup.balance THEN "gather" ELSE "foreach"]
  /\ UNCHANGED <<setup, rank_map_, all_work_info, all_move_info, next_move, moving>>

-----------------------------------------------------------------------------
(***************************************************************************)
(* The decision.                                                           *)
(***************************************************************************)
\* The work of the blocks S.
Total(S) == Cardinality(UNION {{g} \X (1..setup.work[g + 1]) : g \in S})

\* The work of a rank; its first block with the most work is the top one.
my_work_info(p) ==
  LET work(g) == setup.work[g + 1]
      tops == {g \in blocks[p] : \A h \in blocks[p] : work(h) <= work(g)}
  IN  [proc_rank |-> p,
       top_gid   |-> IF tops = {} THEN -1 ELSE Min(tops),
       top_work  |-> IF tops = {} THEN 0 ELSE work(Min(tops)),
       proc_work |-> Total(blocks[p]) % WorkSize,
       nlids     |-> Cardinality(blocks[p])]

\* The difference of two unsigned integers.
Minus(x, y) == (x - y) % WorkSize

\* The top of min_proc_work_q; ties are broken the same way on every rank.
Lightest(load) ==
  CHOOSE p \in Proc : \A q \in Proc : load[p] < load[q] \/ (load[p] = load[q] /\ p <= q)

\* Whether a rank gives its top block to the lightest one.
Gives(src, dst, load) ==
  /\ Minus(src.proc_work, load[dst]) > src.top_work
  /\ src.proc_rank # dst
  /\ src.nlids > 1

\* Mutant: the queue is not told of the block that the lightest rank gets.
Walk_Stale(walk, src) ==
  LET dst == Lightest(walk.load)
  IN  IF Gives(src, dst, walk.load)
      THEN [walk EXCEPT !.moves =
              Append(@, [src |-> src.proc_rank, dst |-> dst, gid |-> src.top_gid])]
      ELSE walk

\* One step of the walk: the top block of "src" to the lightest rank.
Walk(walk, src) ==
  LET dst == Lightest(walk.load)
  IN  IF Gives(src, dst, walk.load)
      THEN [load  |-> [walk.load EXCEPT ![dst] = (@ + src.top_work) % WorkSize],
            moves |-> Append(walk.moves, [src |-> src.proc_rank, dst |-> dst, gid |-> src.top_gid])]
      ELSE walk

\* Whether a rank comes before another: the one with the heavier top block does.
Heavier(x, y) == \/ x.top_work > y.top_work
                 \/ x.top_work = y.top_work /\ x.proc_rank < y.proc_rank

\* all_work_info, sorted.
Sorted(infos) ==
  CHOOSE s \in [1..NProc -> Proc] : \A i, j \in 1..NProc : i < j => Heavier(infos[s[i]], infos[s[j]])

\* decide_move_info: the walk over all ranks in that order.
decide_move_info(infos) ==
  LET order == Sorted(infos)
      walk[i \in 0..NProc] ==
        IF i = 0 THEN [load |-> [p \in Proc |-> infos[p].proc_work], moves |-> <<>>]
        ELSE Walk(walk[i - 1], infos[order[i]])
  IN  walk[NProc].moves

-----------------------------------------------------------------------------
(***************************************************************************)
(* The steps of load_balance_collective.                                   *)
(***************************************************************************)
\* The work of the rank goes into the all_gather.
exchange_work_info(p) ==
  /\ pc[p] = "gather"
  /\ all_work_info' = [all_work_info EXCEPT ![p] = my_work_info(p)]
  /\ pc' = [pc EXCEPT ![p] = "decide"]
  /\ UNCHANGED <<setup, blocks, link, expected_, rank_map_, all_move_info, next_move, moving>>

\* The all_gather returns when every rank has taken part.
Decide(p) ==
  /\ pc[p] = "decide"
  /\ \A q \in Proc : all_work_info[q] # <<>>
  /\ all_move_info' = [all_move_info EXCEPT ![p] = decide_move_info(all_work_info)]
  /\ pc' = [pc EXCEPT ![p] = "move"]
  /\ UNCHANGED <<setup, blocks, link, expected_, rank_map_, all_work_info, next_move, moving>>

Moving(p) == pc[p] = "move" /\ next_move[p] <= Len(all_move_info[p])
Move(p) == all_move_info[p][next_move[p]]

\* Mutant: release leaves the neighbors of the block in expected_.
SendBlock_Counted(p) ==
  /\ Moving(p)
  /\ Move(p).src = p
  /\ blocks' = [blocks EXCEPT ![p] = @ \ {Move(p).gid}]
  /\ moving' = moving \cup {<<Move(p).gid, Move(p).dst>>}
  /\ next_move' = [next_move EXCEPT ![p] = @ + 1]
  /\ UNCHANGED <<setup, pc, link, expected_, rank_map_, all_work_info, all_move_info>>

\* move_block on the source: the block and its link leave.
SendBlock(p) ==
  /\ Moving(p)
  /\ Move(p).src = p
  /\ blocks' = [blocks EXCEPT ![p] = @ \ {Move(p).gid}]
  /\ expected_' = [expected_ EXCEPT ![p] = @ - size_unique(link[Move(p).gid])]
  /\ moving' = moving \cup {<<Move(p).gid, Move(p).dst>>}
  /\ next_move' = [next_move EXCEPT ![p] = @ + 1]
  /\ UNCHANGED <<setup, pc, link, rank_map_, all_work_info, all_move_info>>

\* move_block on the destination: waits for the block and adds it.
RecvBlock(p) ==
  /\ Moving(p)
  /\ Move(p).dst = p
  /\ <<Move(p).gid, p>> \in moving
  /\ blocks' = [blocks EXCEPT ![p] = @ \cup {Move(p).gid}]
  /\ expected_' = [expected_ EXCEPT ![p] = @ + size_unique(link[Move(p).gid])]
  /\ moving' = moving \ {<<Move(p).gid, p>>}
  /\ next_move' = [next_move EXCEPT ![p] = @ + 1]
  /\ UNCHANGED <<setup, pc, link, rank_map_, all_work_info, all_move_info>>

\* move_block elsewhere: nothing.
SkipMove(p) ==
  /\ Moving(p)
  /\ p \notin {Move(p).src, Move(p).dst}
  /\ next_move' = [next_move EXCEPT ![p] = @ + 1]
  /\ UNCHANGED <<setup, pc, blocks, link, expected_, rank_map_, all_work_info, all_move_info, moving>>

\* record_local_gids: the rank puts itself into the slots of its blocks.
record_local_gids(p) ==
  /\ pc[p] = "move"
  /\ next_move[p] > Len(all_move_info[p])
  /\ rank_map_' = [s \in DOMAIN rank_map_ |->
                     IF \E g \in blocks[p] : Slot(g) = s THEN p ELSE rank_map_[s]]
  /\ pc' = [pc EXCEPT ![p] = "barrier"]
  /\ UNCHANGED <<setup, blocks, link, expected_, all_work_info, all_move_info, next_move, moving>>

\* Mutant: the links are updated before every rank has put its blocks.
update_links_NoBarrier(p) ==
  /\ pc[p] = "barrier"
  /\ link' = [g \in Gid |-> IF g \in blocks[p] THEN {[n EXCEPT !.proc = rank_map_[Slot(n.gid)]] : n \in link[g]}
                            ELSE link[g]]
  /\ pc' = [pc EXCEPT ![p] = "foreach"]
  /\ UNCHANGED <<setup, blocks, expected_, rank_map_, all_work_info, all_move_info, next_move, moving>>

\* update_links, after the barrier of fix_links.
update_links(p) ==
  /\ pc[p] = "barrier"
  /\ \A q \in Proc : pc[q] \notin {"decompose", "gather", "decide", "move"}
  /\ link' = [g \in Gid |-> IF g \in blocks[p] THEN {[n EXCEPT !.proc = rank_map_[Slot(n.gid)]] : n \in link[g]}
                            ELSE link[g]]
  /\ pc' = [pc EXCEPT ![p] = "foreach"]
  /\ UNCHANGED <<setup, blocks, expected_, rank_map_, all_work_info, all_move_info, next_move, moving>>

BalanceNext(p) ==
  \/ Decompose(p)
  \/ exchange_work_info(p) \/ Decide(p)
  \/ SendBlock(p) \/ RecvBlock(p) \/ SkipMove(p)
  \/ record_local_gids(p) \/ update_links(p)

-----------------------------------------------------------------------------
(***************************************************************************)
(* Properties.                                                             *)
(***************************************************************************)
Decomposed == \A p \in Proc : pc[p] # "decompose"
Balanced == \A p \in Proc : pc[p] \notin {"decompose", "gather", "decide", "move"}

\* Every block is held by one rank, or on its way to one, from the decomposition
\* on: the assigner's local_gids (assigner.hpp:151, 173) leave no block out, and
\* the sends and receives of move_block match (load-balance-collective.hpp:77).
OnOneRank ==
  /\ \A g \in Gid :
       LET places == Cardinality({p \in Proc : g \in blocks[p]})
                       + Cardinality({m \in moving : m[1] = g})
       IN  places <= 1 /\ (Decomposed => places = 1)
  /\ Balanced => moving = {}

\* The ranks that give a block away after an earlier move gave them one.
Relays ==
  {p \in Proc : \E i, j \in DOMAIN all_move_info[p] :
     i < j /\ all_move_info[p][i].dst = p /\ all_move_info[p][j].src = p}

\* Whether the work of each rank is in the range of its type at first.
NoOverflow == \A p \in Proc : Total(local_gids(p)) < WorkSize

Heaviest(place) == Max({Total(place[p]) : p \in Proc})

\* Balancing does not make the heaviest load heavier, however many ranks choose
\* the same destination ("improve load balance",
\* load-balance-collective.hpp:52).  Only where no sum of work has overflowed, and
\* no rank both gets and gives: the work of such a rank is out of date in the
\* comparison, which is unsigned.
BalanceHelps ==
  Balanced /\ setup.balance /\ NoOverflow /\ Relays = {}
    => Heaviest(blocks) <= Heaviest([p \in Proc |-> local_gids(p)])

\* Links agree, on every rank and once they are resolved: each neighbor is on the
\* rank that the link says, and has the block in its own link, in the opposite
\* direction and across the opposite boundary (decomposition.hpp:369,
\* resolve.hpp:65).
LinksAgree ==
  Balanced => \A p \in Proc : pc[p] \notin {"barrier"} => \A g \in blocks[p] : \A n \in link[g] :
    /\ n.proc \in Proc /\ n.gid \in blocks[n.proc]
    /\ \E m \in link[n.gid] :
         /\ m.gid = g
         /\ \A i \in DOMAIN m.dir : m.dir[i] = -n.dir[i] /\ m.wrap[i] = -n.wrap[i]

-----------------------------------------------------------------------------
(***************************************************************************)
(* What holds in every state, from which the above follows.                *)
(***************************************************************************)
\* The grid of a program: neighbors are blocks, and they are mutual, in opposite
\* directions and across opposite boundaries.
Opposite(n, m) == \A i \in DOMAIN m.dir : m.dir[i] = -n.dir[i] /\ m.wrap[i] = -n.wrap[i]
GridAgrees(s) ==
  \A g \in Gids(s.nblocks) :
    /\ IsFiniteSet(s.near[g])
    /\ \A n \in s.near[g] : /\ n.gid \in Gids(s.nblocks)
                            /\ \E m \in s.near[n.gid] : m.gid = g /\ Opposite(n, m)

\* A rank that has decided, one that has moved its blocks, and one whose links are
\* resolved.
HasDecided(p)  == pc[p] \notin {"decompose", "gather", "decide"}
HasMoved(p)    == HasDecided(p) /\ pc[p] # "move"
HasResolved(p) == HasMoved(p) /\ pc[p] # "barrier"

\* The moves that all ranks agree on, once the work of all is known.
Gathered == \A q \in Proc : all_work_info[q] # <<>>
Moves == IF Gathered THEN decide_move_info(all_work_info) ELSE <<>>

\* Whether the moves can be carried out: no block is moved twice, and each goes
\* from the rank that it was given to, to another.
MovesOK(moves) ==
  /\ moves \in Seq([src : Proc, dst : Proc, gid : Gid])
  /\ \A i \in DOMAIN moves : StaticRank(moves[i].gid) = moves[i].src /\ moves[i].dst # moves[i].src
  /\ \A i, j \in DOMAIN moves : moves[i].gid = moves[j].gid => i = j

\* The blocks of a rank that is to carry out move k next: those that it was given
\* and has not sent, and those that it has received.
Kept(p, moves, k) ==
  {g \in Gid : \/ StaticRank(g) = p /\ \A i \in DOMAIN moves : moves[i].gid = g => k <= i
               \/ \E i \in DOMAIN moves : moves[i].gid = g /\ moves[i].dst = p /\ i < k}

\* What has been sent and not received.
OnWay(moves) ==
  {<<moves[i].gid, moves[i].dst>> :
     i \in {j \in DOMAIN moves : next_move[moves[j].dst] <= j /\ j < next_move[moves[j].src]}}

\* What a rank tells of its work: that of blocks which it was given.
InfoOK(info, p) ==
  /\ info.proc_rank = p /\ info.top_work \in Nat /\ info.proc_work \in Nat
  /\ info.proc_work = Total(local_gids(p)) % WorkSize
  /\ info.nlids > 1 => /\ info.top_gid \in local_gids(p)
                       /\ info.top_work = setup.work[info.top_gid + 1]

Domains ==
  /\ DOMAIN pc = Proc /\ DOMAIN blocks = Proc /\ DOMAIN link = Gid /\ DOMAIN expected_ = Proc
  /\ DOMAIN rank_map_ = {Slot(g) : g \in Gid} /\ DOMAIN all_work_info = Proc
  /\ DOMAIN all_move_info = Proc /\ DOMAIN next_move = Proc

\* What a rank has done is what its stage says, and all ranks have the same moves.
Stage(p) ==
  /\ next_move[p] \in 1..(Len(all_move_info[p]) + 1)
  /\ setup.balance => (all_work_info[p] = <<>> <=> pc[p] \in {"decompose", "gather"})
  /\ ~setup.balance => pc[p] \notin {"gather", "decide", "move", "barrier"} /\ all_work_info[p] = <<>>
  /\ all_work_info[p] # <<>> => InfoOK(all_work_info[p], p)
  /\ all_move_info[p] = IF HasDecided(p) THEN Moves ELSE <<>>
  /\ setup.balance /\ HasDecided(p) => Gathered
  /\ HasMoved(p) => next_move[p] = Len(Moves) + 1
  /\ setup.balance /\ HasResolved(p) => \A q \in Proc : HasMoved(q)
StagesInv == MovesOK(Moves) /\ \A p \in Proc : Stage(p)

\* Where the blocks are, and where the assigner says they are.
PlacesInv ==
  LET moves == Moves IN
  /\ \A p \in Proc : blocks[p] = IF pc[p] = "decompose" THEN {} ELSE Kept(p, moves, next_move[p])
  /\ moving = OnWay(moves)
  /\ \A i \in DOMAIN moves : i < next_move[moves[i].dst] => i < next_move[moves[i].src]
  /\ \A p \in Proc : setup.balance /\ HasMoved(p) => \A g \in blocks[p] : rank_map_[Slot(g)] = p

\* The links of a block, before and after they are resolved.
linked(g) == {[gid |-> n.gid, dir |-> n.dir, wrap |-> n.wrap, proc |-> rank(n.gid)] : n \in setup.near[g]}
LinksInv ==
  /\ \A p \in Proc : \A g \in blocks[p] : link[g] = IF HasResolved(p) THEN linked(g) ELSE placed(g)
  /\ \A m \in moving : link[m[1]] = placed(m[1])

\* The pairs of a block of S and a neighbor, which are as many as the links count.
Pairs(S) == UNION {{<<g, n.gid>> : n \in setup.near[g]} : g \in S}

BalanceInv == Domains /\ StagesInv /\ PlacesInv /\ LinksInv
=============================================================================
