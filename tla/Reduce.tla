------------------------------- MODULE Reduce -------------------------------
(***************************************************************************)
(* diy::reduce and diy::all_to_all (include/diy/reduce.hpp,                *)
(* reduce-operations.hpp, detail/reduce/all-to-all.hpp) on the blocks that *)
(* a program has decomposed and balanced.  In every round the active       *)
(* blocks read the queues of the round before and enqueue to their         *)
(* partners; a rank goes on when it has as many queues as its blocks are   *)
(* to get, so ranks may be rounds apart.                                   *)
(*                                                                         *)
(* A queue is one message here, and messages come in any order; Exchange   *)
(* has the protocol that moves them.  In a reduction a block starts with   *)
(* its own gid and adds what it gets; in an all-to-all each block has one  *)
(* item, <<from, to>>, for each.                                           *)
(***************************************************************************)
EXTENDS CollectiveBalance

VARIABLES
  round,                \* the round of the loop of reduce()
  original_expected,    \* expected_ as it was before
  value,                \* what each block has gathered
  net,                  \* the messages on their way
  incoming_             \* the queues that each rank has, those of later rounds included

reduceVars == <<round, original_expected, value, net, incoming_>>
vars == <<balanceVars, reduceVars>>

Init ==
  /\ BalanceInit
  /\ round = [p \in Proc |-> 0]
  /\ original_expected = [p \in Proc |-> 0]
  /\ value = [g \in Gid |-> IF setup.op = "all_to_all" THEN {} ELSE {g}]
  /\ net = {}
  /\ incoming_ = [p \in Proc |-> {}]

-----------------------------------------------------------------------------
(***************************************************************************)
(* The callback of a block, called through ReductionFunctor.               *)
(***************************************************************************)
Rounds == setup.part.rounds
Active(p) == blocks[p] \cap setup.part.active[round[p]]

\* The links of the block's ReduceProxy.
in_link(p, g) == IF round[p] > 0 THEN setup.part.incoming[round[p]][g] ELSE <<>>
out_link(p, g) == IF round[p] < Rounds THEN setup.part.outgoing[round[p]][g] ELSE <<>>

\* What the block finds in its incoming queues of this round.
Queues(p, g) == {m \in incoming_[p] : m.round = round[p] /\ m.to = g}
Found(p, g) == UNION {m.data : m \in Queues(p, g)}

\* AllToAllReduce: the items of a block and the range of blocks that they are for.
\* In the first round they are its own, for all blocks; later all ranges that come
\* in should be the same, and the last one counts.
Items(p, g) == IF round[p] = 0 THEN {g} \X Gid ELSE Found(p, g)
ItemRange(p, g) ==
  LET in == in_link(p, g)
  IN  IF in = <<>> THEN <<0, setup.nblocks>>
      ELSE (CHOOSE m \in Queues(p, g) : m.from = in[Len(in)]).range

\* The queues of a block.  An all-to-all divides the range among the partners, and
\* each gets the items for its part; a reduction sends what the block has.
SentBy(p, g) ==
  LET out   == out_link(p, g)
      items == IF setup.op = "all_to_all" THEN Items(p, g) ELSE value[g] \cup Found(p, g)
      range == IF setup.op = "all_to_all" THEN ItemRange(p, g) ELSE <<0, 0>>
      group == (range[2] - range[1]) \div Len(out)
      part(i) == <<range[1] + (i - 1) * group, range[1] + i * group>>
      for(i) == IF setup.op # "all_to_all" THEN items
                ELSE {x \in items : part(i)[1] <= x[2] /\ x[2] < part(i)[2]}
  IN  {[from |-> g, to |-> out[i], round |-> round[p] + 1, proc |-> rank(out[i]),
        range |-> part(i), data |-> for(i)] : i \in DOMAIN out}

\* The block afterwards.  A lone block of an all-to-all sends to itself.
Value(p, g) ==
  IF setup.op # "all_to_all" THEN value[g] \cup Found(p, g)
  ELSE IF round[p] < Rounds THEN {}
  ELSE IF Rounds = 0 THEN {<<g, g>>} ELSE Found(p, g)

\* The callbacks of a round, on all active blocks of a rank, and their queues.
Callbacks(p) ==
  value' = [g \in Gid |-> IF g \in Active(p) THEN Value(p, g) ELSE value[g]]
Sent(p) == UNION {SentBy(p, g) : g \in Active(p)}

-----------------------------------------------------------------------------
(***************************************************************************)
(* reduce().                                                               *)
(***************************************************************************)
\* Mutant: blocks that have dropped out are counted, too.
Expected_All(p, r) ==
  Cardinality(UNION {{g} \X DOMAIN setup.part.incoming[r][g] : g \in blocks[p]})

\* How many queues the blocks of a rank get from the round before r.
Expected(p, r) ==
  Cardinality(UNION {{g} \X DOMAIN setup.part.incoming[r][g] : g \in blocks[p] \cap setup.part.active[r]})

\* A round: the callbacks are executed, the number of queues is set, and flush()
\* begins, which erases the queues that have been read, moves those to the same
\* rank and sends the others.
Round(p) ==
  /\ pc[p] = "foreach"
  /\ round[p] < Rounds
  /\ Callbacks(p)
  /\ LET sent == Sent(p)
     IN  /\ net' = net \cup {m \in sent : m.proc # p}
         /\ incoming_' = [incoming_ EXCEPT ![p] = {m \in @ : m.round # round[p]}
                                                      \cup {m \in sent : m.proc = p}]
  /\ original_expected' = [original_expected EXCEPT ![p] = IF round[p] = 0 THEN expected_[p] ELSE @]
  /\ expected_' = [expected_ EXCEPT ![p] = Expected(p, round[p] + 1)]
  /\ pc' = [pc EXCEPT ![p] = "flush"]
  /\ UNCHANGED <<setup, blocks, link, rank_map_, all_work_info, all_move_info, next_move,
                 moving, round>>

\* A queue comes in, of this round or a later one.
Receive(p) ==
  /\ pc[p] = "flush"
  /\ \E m \in net :
       /\ m.proc = p
       /\ net' = net \ {m}
       /\ incoming_' = [incoming_ EXCEPT ![p] = @ \cup {m}]
  /\ UNCHANGED <<balanceVars, round, original_expected, value>>

\* Mutant: the rank counts queues of any round.
received_Any(p) == Cardinality(incoming_[p])

\* IncomingRound::received.
received(p) == Cardinality({m \in incoming_[p] : m.round = round[p] + 1})

\* flush() ends when all expected queues have come.
EndFlush(p) ==
  /\ pc[p] = "flush"
  /\ received(p) >= expected_[p]
  /\ round' = [round EXCEPT ![p] = @ + 1]
  /\ pc' = [pc EXCEPT ![p] = "foreach"]
  /\ UNCHANGED <<setup, blocks, link, expected_, rank_map_, all_work_info, all_move_info,
                 next_move, moving, original_expected, value, net, incoming_>>

\* Mutant: expected_ stays as the last round has set it.
Return_Changed(p) ==
  /\ pc[p] = "foreach"
  /\ round[p] = Rounds
  /\ pc' = [pc EXCEPT ![p] = "deferred"]
  /\ UNCHANGED <<setup, blocks, link, expected_, rank_map_, all_work_info, all_move_info,
                 next_move, moving, reduceVars>>

\* After the last round reduce() leaves its callbacks for the next execute() and
\* puts expected_ back.
Return(p) ==
  /\ pc[p] = "foreach"
  /\ round[p] = Rounds
  /\ expected_' = [expected_ EXCEPT ![p] = IF Rounds = 0 THEN @ ELSE original_expected[p]]
  /\ pc' = [pc EXCEPT ![p] = "deferred"]
  /\ UNCHANGED <<setup, blocks, link, rank_map_, all_work_info, all_move_info, next_move,
                 moving, reduceVars>>

execute(p) ==
  /\ pc[p] = "deferred"
  /\ Callbacks(p)
  /\ pc' = [pc EXCEPT ![p] = "done"]
  /\ UNCHANGED <<setup, blocks, link, expected_, rank_map_, all_work_info, all_move_info,
                 next_move, moving, round, original_expected, net, incoming_>>

Step(p) ==
  \/ BalanceNext(p) /\ UNCHANGED reduceVars
  \/ Round(p) \/ Receive(p) \/ EndFlush(p) \/ Return(p) \/ execute(p)

Next == \E p \in Proc : Step(p)

Spec == Init /\ [][Next]_vars

\* The program does not stop while a rank can go on: the loops of flush() and the
\* blocking MPI calls return once what they wait for is there.  No step can be
\* taken for ever, so that nothing more has to be said of each rank.
FairSpec == Spec /\ WF_vars(Next)

-----------------------------------------------------------------------------
(***************************************************************************)
(* Properties.                                                             *)
(***************************************************************************)
Item == IF setup.op = "all_to_all" THEN Gid \X Gid ELSE Gid
IsMessage(m) ==
  /\ m.from \in Gid /\ m.to \in Gid /\ m.round \in 1..Rounds /\ m.proc \in Proc
  /\ m.range \in (0..setup.nblocks) \X (0..setup.nblocks) /\ m.range[1] <= m.range[2]
  /\ m.data \subseteq Item

ReduceTypeOK ==
  /\ pc \in [Proc -> {"decompose", "gather", "decide", "move", "barrier", "foreach", "flush",
                      "deferred", "done"}]
  /\ blocks \in [Proc -> SUBSET Gid]
  /\ \A g \in Gid : \A n \in link[g] : n.gid \in Gid /\ n.proc \in Proc
  /\ expected_ \in [Proc -> Nat] /\ original_expected \in [Proc -> Nat]
  /\ \A s \in DOMAIN rank_map_ : s[1] \in Proc /\ rank_map_[s] \in Proc \cup {-1}
  /\ \A p \in Proc : next_move[p] \in 1..(Len(all_move_info[p]) + 1)
  /\ moving \subseteq Gid \X Proc
  /\ round \in [Proc -> 0..Rounds]
  /\ value \in [Gid -> SUBSET Item]
  /\ \A m \in net \cup UNION {incoming_[p] : p \in Proc} : IsMessage(m)

\* When the callbacks of a round run, each active block has exactly one queue from
\* each of its incoming partners, and no other rank's blocks have been sent any: who
\* sends (outgoing of a round) and who waits (incoming of the next,
\* reduce.hpp:135) are computed by different ranks and must match, while queues
\* of later rounds may be there already.
HeardFromPartners ==
  /\ \A p \in Proc : pc[p] = "foreach" => \A g \in Active(p) :
       LET queues == Queues(p, g) IN
       /\ {m.from : m \in queues} = {in_link(p, g)[i] : i \in DOMAIN in_link(p, g)}
       /\ Cardinality(queues) = Len(in_link(p, g))
  /\ Decomposed => \A m \in net : m.to \in blocks[m.proc]

\* What a reduction promises: a merge has everything at the blocks that are still
\* active, a swap and an all-reduce everywhere, a broadcast has the root's value
\* everywhere, and an all-to-all has brought to each block its item from every
\* block (docs of reduce and all_to_all; all-to-all.hpp:52).
Reduced ==
  (\A p \in Proc : pc[p] = "done") => \A g \in Gid :
    CASE setup.op = "all_to_all" -> value[g] = Gid \X {g}
      [] setup.op = "broadcast" -> 0 \in value[g]
      [] setup.op = "merge" -> g \in setup.part.active[Rounds] => value[g] = Gid
      [] OTHER -> value[g] = Gid

\* A reduction leaves nothing behind for the exchanges that follow: no queue is on
\* its way and expected_ is the number of links again (reduce.hpp:117, 148).
NothingLeft ==
  (\A p \in Proc : pc[p] = "done") =>
    /\ net = {}
    /\ \A p \in Proc : expected_[p] = Cardinality(Edges(blocks[p], link))

\* Everybody returns: no rank waits for a queue that nobody sends.
Completes == <>(\A p \in Proc : pc[p] = "done")

\* The decomposition is constant, so that these two are evaluated once for each setup.
Start == \A p \in Proc : pc[p] = "decompose"
Points(dec) == {p \in [Dims(dec.divisions) ->
                         UNION {(dec.min[i] - 1)..(dec.max[i] + 1) : i \in Dims(dec.divisions)}] :
                \A i \in Dims(dec.divisions) : p[i] \in (dec.min[i] - 1)..(dec.max[i] + 1)}

\* Whether bounds have a point, in a dimension that wraps also when it is moved by
\* a period.
Has(dec, bounds, p) ==
  \A i \in Dims(dec.divisions) :
    \E shift \in (IF dec.wrap[i] THEN -1..1 ELSE {0}) :
      p[i] + shift * wrap_period(dec.min[i], dec.max[i]) \in bounds.min[i]..bounds.max[i]
Core(dec, g) == fill_bounds(dec, gid_to_coords(g, dec.divisions), FALSE)
WithGhosts(dec, g) == fill_bounds(dec, gid_to_coords(g, dec.divisions), TRUE)

\* The blocks of a point, computed by division from the point, are those whose
\* bounds have it, computed by multiplication from the block: with remainders,
\* shared faces, ghosts, wrapping, and none counted twice.  The cores have every
\* point of the domain (decomposition.hpp:515, 692, 731).
PointsFound ==
  Start =>
    LET dec   == setup.dec
        cores == [g \in Gid |-> Core(dec, g)]
        all   == [g \in Gid |-> WithGhosts(dec, g)]
    IN  \A p \in Points(dec) :
          LET found == point_to_gids(dec, p)
              core  == {g \in Gid : Has(dec, cores[g], p)}
          IN  /\ found = {g \in Gid : Has(dec, all[g], p)}
              /\ num_gids(dec, p) = Cardinality(found)
              /\ point_to_gid(dec, p) = IF core = {} THEN -1 ELSE Min(core)

\* A block gets all of its ghosts from its neighbors: each point of its bounds with
\* ghosts is in the core of the block or of one in its link, as long as ghosts are
\* no wider than blocks (decomposition.hpp:369).
GhostsFromNeighbors ==
  Start =>
    LET dec   == setup.dec
        cores == [g \in Gid |-> Core(dec, g)]
    IN  \A g \in Gid :
          LET all  == WithGhosts(dec, g)
              near == {g} \cup {n.gid : n \in setup.near[g]}
          IN  \A p \in Points(dec) :
                Has(dec, all, p) => \E h \in near : Has(dec, cores[h], p)

-----------------------------------------------------------------------------
(***************************************************************************)
(* What holds in every state, from which the above follows.                *)
(***************************************************************************)
\* The partners of a program: who sends in a round and who waits in the next one
\* are the same, and nobody is named twice.
PartnersMatch(s) ==
  LET part == s.part
      gids == Gids(s.nblocks)
  IN  /\ part.rounds \in Nat
      /\ \A r \in 0..part.rounds : part.active[r] \subseteq gids
      /\ \A r \in 1..part.rounds :
           LET senders   == part.active[r - 1]
               receivers == part.active[r]
           IN  /\ \A g \in senders : /\ part.outgoing[r - 1][g] \in Seq(receivers)
                                      /\ IsInjective(part.outgoing[r - 1][g])
               /\ \A h \in receivers : /\ part.incoming[r][h] \in Seq(senders)
                                        /\ IsInjective(part.incoming[r][h])
               /\ \A g \in senders, h \in receivers :
                    g \in ToSet(part.incoming[r][h]) <=> h \in ToSet(part.outgoing[r - 1][g])

\* The grids and the partners of all programs.
ProgramsAgree == \A s \in Setups : s.dec.divisions # Throws => GridAgrees(s) /\ PartnersMatch(s)

\* What each block has gathered when the callbacks of a round have run: its own gid,
\* and what those had that it has heard from.
Known(s) ==
  LET gids == Gids(s.nblocks)
      known[r \in 0..s.part.rounds] ==
        IF r = 0 THEN [g \in gids |-> {g}]
        ELSE [g \in gids |->
                known[r - 1][g]
                  \cup (IF g \in s.part.active[r]
                        THEN UNION {known[r - 1][h] : h \in ToSet(s.part.incoming[r][g])} ELSE {})]
  IN  known

\* What the reduction promises of that, after its last round.
KnowsAll(s) ==
  LET gids == Gids(s.nblocks)
      last == Known(s)[s.part.rounds]
  IN  \A g \in gids :
        CASE s.op = "broadcast" -> 0 \in last[g]
          [] s.op = "merge" -> g \in s.part.active[s.part.rounds] => last[g] = gids
          [] OTHER -> last[g] = gids

\* An all-to-all cuts the blocks into runs of this width, round by round.
Width(s) ==
  LET width_[r \in 0..s.part.rounds] ==
        IF r = 0 THEN s.nblocks ELSE width_[r - 1] \div Len(s.part.outgoing[r - 1][0])
  IN  width_

\* The partners of a round share a run, and are as far into its parts; each gets a
\* part of the run, in order.
RunsAgree(s) ==
  LET gids == Gids(s.nblocks)
      w    == Width(s)
  IN  /\ w[s.part.rounds] = 1
      /\ \A r \in 0..s.part.rounds : w[r] \in Nat \ {0} /\ s.part.active[r] = gids
      /\ \A r \in 1..s.part.rounds : \A g \in gids :
           LET out == s.part.outgoing[r - 1][g]
           IN  /\ w[r - 1] = Len(out) * w[r]
               /\ \A i \in DOMAIN out : out[i] \div w[r] = (g \div w[r - 1]) * Len(out) + (i - 1)
               /\ ToSet(s.part.incoming[r][g])
                    = {f \in gids : f % w[r] = g % w[r] /\ f \div w[r - 1] = g \div w[r - 1]}

\* What the partners of all programs bring about.
ProgramsGather ==
  \A s \in Setups : s.dec.divisions # Throws => IF s.op = "all_to_all" THEN RunsAgree(s) ELSE KnowsAll(s)

\* The run of a block, and the items of the blocks that are as far into their runs as
\* f, for the run of g.
Run(w, g) == <<(g \div w) * w, (g \div w) * w + w>>
ItemsOf(w, f, v, g) == {x \in Gid \X Gid : x[1] % w = f % w /\ x[2] \div v = g \div v}

\* Whether the callbacks of round r have run on p, which is a rank or -1.
Past(p, r) == p \in Proc /\ (r < round[p] \/ (r = round[p] /\ pc[p] = "flush"))

\* The queues from block g to block h in round r, if it is to have one.
Due(g, h, r) == /\ g \in setup.part.active[r - 1] /\ h \in ToSet(setup.part.outgoing[r - 1][g])
                /\ Past(rank(g), r - 1) /\ ~Past(rank(h), r)
Mail == net \cup UNION {incoming_[p] : p \in Proc}
IsQueue(m, g, h, r) == m.from = g /\ m.to = h /\ m.round = r

ProgressInv ==
  /\ DOMAIN round = Proc /\ DOMAIN incoming_ = Proc /\ DOMAIN original_expected = Proc
  /\ \A p \in Proc :
       /\ round[p] \in 0..Rounds
       /\ ~HasResolved(p) => round[p] = 0
       /\ pc[p] = "flush" => round[p] < Rounds
       /\ pc[p] \in {"deferred", "done"} => round[p] = Rounds

\* Every queue that is due is there, once, at its rank or on the way to it; and
\* there is no other.
MailInv ==
  /\ \A p \in Proc : \A m \in incoming_[p] : m.proc = p /\ m \notin net
  /\ \A m \in Mail : m.round \in 1..Rounds /\ Due(m.from, m.to, m.round) /\ m.proc = rank(m.to)
  /\ \A m, n \in Mail : IsQueue(m, n.from, n.to, n.round) => m = n
  /\ \A r \in 1..Rounds : \A g, h \in Gid : Due(g, h, r) => \E m \in Mail : IsQueue(m, g, h, r)

\* A rank that has ended a round has had all queues of it.
HeardInv ==
  /\ \A m \in net : round[m.proc] < m.round
  /\ \A p \in Proc : \A r \in 1..round[p] : \A h \in blocks[p] \cap setup.part.active[r] :
       \A g \in ToSet(setup.part.incoming[r][h]) : Past(rank(g), r - 1)

\* What expected_ is in a flush, and otherwise, and what it is to be again.
ExpectedInv ==
  \A p \in Proc :
    LET within == pc[p] = "flush" \/ (pc[p] = "foreach" /\ round[p] > 0)
    IN  /\ (IF within THEN original_expected[p] ELSE expected_[p]) = Cardinality(Pairs(blocks[p]))
        /\ pc[p] = "flush" => expected_[p] = Expected(p, round[p] + 1)

\* The last round whose callbacks have run on p, which is a rank or -1, and whether
\* p has returned.
Ended(p) == p \in Proc /\ pc[p] = "done"
Ran(p) == IF Ended(p) THEN Rounds
          ELSE IF p \notin Proc \/ round[p] = 0 THEN 0
          ELSE IF pc[p] = "flush" THEN round[p] ELSE round[p] - 1

\* What the queues and the blocks hold.
DataInv ==
  LET known == Known(setup)
      w     == Width(setup)
      all   == setup.op = "all_to_all"
  IN  /\ \A m \in Mail :
           IF all THEN /\ m.range = Run(w[m.round], m.to)
                       /\ m.data = ItemsOf(w[m.round - 1], m.from, w[m.round], m.to)
           ELSE m.data = known[m.round - 1][m.from]
      /\ \A g \in Gid :
           value[g] = IF ~all THEN known[Ran(rank(g))][g]
                      ELSE IF Ended(rank(g)) THEN Gid \X {g} ELSE {}

ReduceInv == BalanceInv /\ ProgressInv /\ MailInv /\ HeardInv /\ ExpectedInv /\ DataInv /\ ReduceTypeOK
=============================================================================
