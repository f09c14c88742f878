# DIY: specifications, model checking and proofs

DIY moves data between blocks of a domain that are spread over MPI ranks, in
memory or out of core, with one thread or several per rank. This directory holds
TLA+ models of its core protocols and algorithms, TLC configurations that check them on small
instances, and TLAPS proofs that hold for every instance. All paths below are
relative to `include/diy` unless they start with `docs` or `tests`.

    tlc -config IExchange_single.cfg MCIExchange      # model-check one run
    tlapm IExchangeProofs.tla                         # check the proofs

## 1. The system

### Components

| Component | State | Operations | Who it works with |
|---|---|---|---|
| `Master` (`master.hpp`) | blocks, gids, links; `incoming_` queues per round, `outgoing_` queues per block; `inflight_sends_`, `inflight_recvs_`; `exchange_round_`, `expected_`, `limit_`, `threads_` | `add`, `release`, `foreach`, `exchange`, `iexchange`, `flush`, load/unload | everything below |
| `Proxy` (`proxy.hpp`) | the incoming and outgoing queues of one block during a callback | `enqueue`, `dequeue`, `fill_incoming`; its constructor takes queues from the master and its destructor gives queues back | callbacks, `Master`, work counter |
| Termination detector (`detail/master/iexchange-collective.hpp`) | `local_work_`, `dirty`, `state`, an MPI request | `add_work`, `control`, `all_done` | `iexchange`, `Proxy`, MPI barrier and all-reduce |
| Queue transfer (`detail/master/communication.hpp`, `send_queue`) | head, pieces and blobs of a queue on their way | `send_same_rank`, `send_different_rank`, `nudge`, `InFlightRecv::recv`, `place` | MPI |
| Synchronous exchange (`exchange`, `flush`, `rcomm_exchange`) | round, expected count, barrier request | plain exchange by counting queues, remote exchange by the NBX consensus | queue transfer |
| Out-of-core (`storage.hpp`, `collection.hpp`) | which blocks and queues are in memory | load, unload, queue policies | `Master`, execution |
| Execution (`detail/master/execution.hpp`, `commands.hpp`) | queued commands, shared block index | threads pull blocks, `skip` | `Master`, out-of-core |
| Coroutines (`coroutine.hpp`, `detail/master/foreach_exchange.hpp`) | one coroutine and one proxy per block | `foreach_exchange`, `yield` | exchange |
| Collectives over proxies (`detail/master/collectives.hpp`) | a list of pending collectives per block | `process_collectives` at the end of `flush` | exchange, MPI |
| Dynamic load balancing (`detail/master/dynamic.hpp`, `detail/algorithms/load-balance*.hpp`) | free blocks and work per rank, samples of other ranks | migrate a block while another thread runs callbacks | iexchange on an auxiliary master, dynamic assigner |
| Reductions (`reduce.hpp`, `partners/`) | rounds of partners | merge, swap, all-reduce, all-to-all | foreach + exchange |
| Assigners, decomposition, links (`assigner.hpp`, `decomposition.hpp`, `link.hpp`) | maps gid to rank, bounds to gid | contiguous, round-robin, dynamic; `fill_divisions`, neighbors | everything |
| Distributed sort and k-d tree (`algorithms.hpp`, `detail/algorithms/`) | samples, splits | sample sort, k-d tree | reductions |
| MPI wrappers, serialization, I/O, grids, logging, Python bindings | - | one-to-one calls, byte copies, file formats | - |

The parts interact through shared state, not through messages, within a rank:
callbacks fill a proxy, the proxy's destructor appends to `outgoing_`, the
communication loop empties `outgoing_` into MPI and fills `incoming_`, and the
next proxy takes from there. Between ranks there are only point-to-point messages
with one tag, the barrier of the remote exchange, and the detector's barrier and
all-reduce.

### What is hard, and what must hold

- **iexchange.** Work (blocks that are not done, queues, running callbacks)
  appears and moves while the ranks try to find out that there is none. A queue
  in flight is counted on two ranks for a moment and must never be counted on
  none. With several threads, callbacks and the detector update one counter from
  two threads. Must hold: nobody returns early; everybody returns; all agree.
- **Consecutive iexchange calls.** No call waits for the others to have left the
  one before; messages carry a round, counters do not.
- **exchange.** A rank ends a round by counting. A neighbor may already be one
  round ahead and its queues arrive early; a queue may be half received. Must
  hold: each round delivers exactly what was enqueued in it, nothing arrives in a
  round that is over, linked ranks stay within one round.
- **Remote exchange.** A rank may leave only when nothing that was sent to it is
  outstanding, though it does not know who sends.
- **Out-of-core.** Queues change between memory and storage separately from their
  blocks, and several functions look only at the front one.
- **Dynamic balancing.** Blocks migrate while another thread executes; a block
  must be executed once, live somewhere, and be found where the assigner says.
- **Reductions.** Who sends and who waits in a round is computed on different ranks
  by different formulas; ranks are rounds apart; the exchange's `expected_` is
  replaced for each round and must be put back.
- **Balancing by agreement.** Every rank decides the same list of moves from the
  same data, and executes its part of it with blocking calls.
- **Places by arithmetic.** Assigners, divisions, bounds and neighbors are computed
  by division on one side and by multiplication on the other, with remainders,
  shared faces, ghosts and periodic boundaries.
- **Partial participation.** Ranks without blocks, callbacks that throw,
  coroutines that yield a different number of times: some ranks then skip a
  collective that others wait in.

`PROJECT.json` lists these as hazards at the lines where they bite, with the
properties that cover them and a note where none does yet.

## 2. The modules

    Quiescence            what iexchange promises
      IExchange           one call of iexchange, with its detector       (implements Quiescence)
        IExchangeProofs   theorems about IExchange
        IExchangeRounds   consecutive calls
          IExchangeRoundsProofs   theorems about IExchangeRounds
        MCIExchange, MCIExchangeRounds     instances for TLC
    LocalSync             what exchange promises about time
      Exchange            rounds of exchange and exchange(true)          (implements LocalSync)
        ExchangeProofs    theorems about Exchange
        MCExchange        instances for TLC
    InCore                what foreach and exchange mean on one rank
      OutOfCore           the same with blocks and queues in files       (implements InCore)
        OutOfCoreProofs   theorems about OutOfCore
        MCOutOfCore       instances for TLC
    DynamicBalance        dynamic_foreach: blocks migrate while they are executed
      DynamicBalanceProofs  theorems about DynamicBalance
      MCDynamicBalance    an instance for TLC
    Assigners             rank of a block, blocks of a rank              (pure operators)
    Decomposition         divisions, bounds, links, blocks of a point    (pure operators)
      Partners            rounds of merge, swap, broadcast, all-reduce   (pure operators)
      PlacementProofs     theorems about Assigners, Decomposition and Partners
    CollectiveBalance     decompose, assign, balance: Assigners + Partners
      CollectiveBalanceProofs   the invariant of the blocks, step by step
      Reduce              reduce() and all_to_all() on top of it
        ReduceProofs      theorems about CollectiveBalance and Reduce
        MCReduce          an instance for TLC: seventy-four programs

### Quiescence

A set `work` that any of its members may extend and shrink, and a set `left` of
ranks that have concluded there is none: `left` grows only while `work` is empty,
and an empty `work` stays so. Its live form adds that everybody leaves.

### IExchange: one call of iexchange

| Model | Code |
|---|---|
| `mpc` | where the thread that called `iexchange_` is: `send`, `nudge`, `check` are the three parts of `icommunicate`; `callback` with one thread; `control`/`enter` inside `control()` |
| `wpc`, `cur`, `todo`, `pend` | where the callback loop is, its block, the blocks left in this pass, the proxy's `outgoing_` |
| `done` | `done_result` |
| `loc`, `inflight` | the place of each queue: proxy, `outgoing_`, MPI, `incoming_`, dequeued, dropped; and `inflight_sends_` |
| `local_work_`, `dirty`, `state`, `r`, `local_dirty`, `all_dirty` | the fields of `IExchangeInfoCollective` |
| `flag` | where the worker is inside `add_work`: it has changed the counter, it has found it positive and is about to set `dirty` |

`Threads = 1` and `Threads > 1` are the two layouts of `iexchange_`. With one
thread the loop alternates `icommunicate` and a block's callback, and calls
`control()` after a pass over the blocks. With several, the calling thread runs
`icommunicate` and `control()` while one worker runs the callbacks.

One action per step that the other thread or another rank can tell apart:
`Start`, `SendQueue`/`SendDone` (`send_outgoing_queues`), `Nudge`/`NudgeDone`,
`Receive`/`CheckDone` (`check_incoming_queues`), `Visit`/`Skip`, `FillIncoming`,
`Callback`, `PushQueue` and `CountQueue` (the two statements of `~Proxy`),
`EndCallback`, `EndPass`, `SetDirty`, and the branches of `control()`:
`SeeNoWork`, `EnterBarrier`, `TestBarrier`, `TestReduce`, `ControlNothing`; then
`Leave`.

What is abstracted, and why that is sound here:

- *Payloads and callbacks.* `Msg` is a finite set of queues, each enqueued at most
  once; which ones a callback enqueues and what it answers is nondeterministic.
- *Order of queues with one source and target.* `Fronts` takes any one queue per
  source; counters and termination do not depend on which.
- *`add_work` on the calling thread is one step.* Between its two statements the
  worker could only lower the counter by units it holds, or raise it and set
  `dirty` itself; the value of `dirty` seen by `control()`, which runs on the same
  thread, is the same. On the worker it is three steps.
- *`fill_incoming`* gives its units back one by one, under the callback's own
  unit, which keeps the counter above 0 throughout; the model gives them back
  together.
- *`SendDone` requires `outgoing_` to be empty of this rank's queues*: the loop
  runs until it finds none.
- *MPI.* `iprobe` and `test` may answer no at any time; `issend` tests complete
  only once matched; a collective's requests complete on all ranks when the last
  has entered, and are noticed by each rank when it tests.
- *Not modelled:* callbacks that throw, queues that take several messages (see
  section 7), `iexchange` with a block limit.

### IExchangeRounds: calls in sequence

Adds `exchange_round_` and the round each message carries. `NextRound` is the
beginning of the next `iexchange_`: it erases the last round's incoming queues,
takes over those already filed under the new round, and makes a new detector. A
queue is filed under the round in its `MessageInfo` (places `early` and `stale`
for another than the receiver's) and counted on whatever detector the receiver
has. The constant `Barrier` says whether the program separates its calls by a
barrier, as the line that is commented out at the end of `iexchange_` would.

### LocalSync and Exchange: rounds of exchange

`LocalSync` counts, per rank, the exchanges begun and ended; a rank ends its k-th
only when every rank it depends on has begun its k-th.

| Model | Code |
|---|---|
| `Begin` | `exchange()`: `execute()` (callbacks enqueue to any subset of `Targets`), `touch_queues` unless remote, and the first lines of `flush`: erase the old round, raise `exchange_round_`, `order_gids` |
| `PopBlock`, `SendSameRank`, `SendDifferentRank` | `send_outgoing_queues`: a block is popped from the order, then its queues go one after the other, moved in place or turned into messages |
| `Nudge` | `nudge` until nothing completes; an `issend` only when matched, an `isend` at any time |
| `Receive` | one turn of `check_incoming_queues`: `InFlightRecv::recv`, and when the queue is whole, `place` and `reset` |
| `Again`, `End` | the loop condition of `flush`, or the barrier of `rcomm_exchange` |
| `net`, `inflight_recvs` | messages in order per pair of ranks; the half-received queue per source rank |
| `posted` | history: what was enqueued, until the receiver's callbacks have had it |

A filled queue has `Parts[from, to]` messages after its head; that stands for the
pieces of a large queue and for its blobs alike, since `InFlightRecv` treats both
as "so many still to come". A rank's round is counted from 1 here and from 0 in
the code. Not modelled: blocks and queues out of core, proxy
collectives, changing links, and a callback that enqueues to a block it is not
linked to in a plain exchange (which the documentation excludes).

### InCore and OutOfCore: one rank with a block limit

`InCore` has blocks that run each call of `foreach` once, read what the last exchange
brought, and enqueue what the next one takes along. `OutOfCore` has the same program
on a `Master` with `limit_` and several threads, and implements it: the refinement
mapping reads every block and queue from where it is, memory or file.

| Model | Code |
|---|---|
| `elements_`, `external_` | `Collection`: the block in memory, or the number of its file |
| `outgoing_`, `incoming_` | `QueueRecord`s with `size_`, `external_` and the buffer, per pair of blocks; `incoming_` per round |
| `files`; `Put`, `Get` | `Storage`: `unload` and `load` of blocks and queues, named by their places |
| `UnloadAll`, `Add` | `Master::add` |
| `Foreach`, `SetImmediate`, `ExecutePending` | commands, immediate or deferred; `execute()` sorts the loaded blocks to the front |
| `Take`, `Hold`, `LoadQueues`, `MakeRoom`, `Load`, `Run`, `UnloadQueues` | `ProcessBlock`, step by step, per thread |
| `Finish` | the end of `execute()`, which throws when the limit is exceeded |
| `BeginExchange`, `LoadOutgoing`, `SendBlock`, `Arrive`, `EndExchange` | `exchange()` on this rank: queues loaded, moved in place, unloaded on arrival |

One rank suffices since the limit is a rank's own; what neighbors send and when is
nondeterministic within what `Exchange` shows (once per round and link, at most one
round ahead). The deque of a pair holds at most one queue outside of iexchange.
The callbacks of all commands of a block are one step, as no other thread has its
block. A block's content is how often it has run and how much it has read from each
neighbor; an item of a queue is the round and the call in which it was enqueued. Not
modelled: iexchange with a limit, the remote exchange, release.

### DynamicBalance: migration while blocks are executed

| Model | Code |
|---|---|
| `gids_`, `lids_`, `incoming_`, `outgoing_`, `link` | the `Master`: gids in the order of lids, queues with the rank they go to, links |
| `free_blocks`, `proc_work`, `requesters`, `sample_work_info` | `AuxBlock`, behind its lock |
| `mpc`; `Callback`, `GrabToSend`, `MoveBlock`, `PutBack`, `Receive`, `Return`, `EndIExchange` | the calling thread: `iexchange_balance`, `dynamic_send_req`, `dynamic_send_block`, `dynamic_recv` |
| `record_local_gids`, `update_links`, `fix_queues` | `fix_links` and, after the join, `fix_queues` |
| `wpc`; `Grab`, `LookUpGid`, `Call`, `CopyOut`, `Exit` | the work thread: `dynamic_execute`, its look-up of block and proxy, `~Proxy` |
| `chan`, `out`, `done` | the auxiliary iexchange, of which `IExchange` shows that it ends when all is done and nothing is on its way |

The work thread looks its block up by a lid that the other thread may renumber
(`execution.hpp:177`). The model keeps that race: `disturbed` marks the ranks where it
can strike, and a behaviour in which a callback gets another block than its own ends
(`Astray`), since what the program does then is undefined. `LooksUpItsOwn` says that it
strikes nowhere else. Of the two look-ups of the code only the second, longer one is
kept. The order within the vector of free blocks is not kept: any heaviest block may
be taken. `Quantile` is above one half: with less, the destination may have more work
than the sender, and the unsigned difference at `dynamic.hpp:180` goes wrong.

### Assigners, Decomposition, Partners

Pure operators, translated formula by formula. They count dimensions from 1 and blocks
from 0. Loops are recursive functions, which the proofs can unfold. The formulas are
checked against each other where the code has two for one thing (rank of a block and
blocks of a rank; bounds of a block and blocks of a point; who sends and who receives).
Bounds are discrete: with continuous ones the same steps are done in floating point.

### CollectiveBalance and Reduce: whole programs

A program (an element of `Programs`) has a domain, a number of blocks, an assigner,
perhaps work per block, and a reduction. `ProgramsAssumption` says which parameters the
code can take: groups of at least 2 (`RegularPartners::factor` loops for ever with 1 and
divides by 0 with 0), and divisions that, if all are given, have the number of blocks for
their product (`fill_divisions` only tests that the product divides it).
`CollectiveBalance` decomposes and, if asked, balances:

| Model | Code |
|---|---|
| `Decompose` | `RegularDecomposer::decompose` with `Master::add`, `expected_` |
| `exchange_work_info`, `Decide` | the all-gather of the work, and `decide_move_info` on each rank by itself |
| `SendBlock`, `RecvBlock`, `SkipMove` | `move_block`, move by move in the order of the list |
| `record_local_gids`, `update_links` | `fix_links` with the dynamic assigner and its barrier |
| `Round`, `Receive`, `EndFlush`, `Return`, `execute` | `reduce()`: callbacks, `expected_`, flush; the last round deferred to the next execute |
| `SentBy`, `Value` | the callback: an all-gathering reduction, or `AllToAllReduce` |

Sends of `move_block` are eager (`RecvBlock` waits, `SendBlock` does not). `Work` is
unsigned: differences are taken modulo `WorkSize`. Ties in the sort and in the priority
queue are broken one fixed way, the same on every rank, as the same code on the same
data does. A queue is one message here, in any order; `Exchange` has the rest. In an
all-to-all the item of a pair is the pair. Skip functions of the user are not modelled.

## 3. The properties

| Property | Says |
|---|---|
| `NoEarlyExit` | when any rank has decided to return there is no work anywhere: every block done, no queue enqueued and not dequeued, no callback running |
| `WorkCounted` | inside iexchange `local_work_` is exactly: blocks not done + queues to send or being sent + queues waiting + running callback (minus a queue that `~Proxy` has appended and not counted) |
| `Agreement` | when a rank has decided to return no other starts a new attempt |
| `KeepsPromise`, `KeepsLivePromise` | iexchange implements `Quiescence`, in safety and with liveness |
| `EveryRankReturns` | every rank returns |
| `IInv`, `RoundsInv`, `ExchangeInv`, `OutOfCoreInv`, `DynamicInv`, `ReduceInv` | the inductive invariants of the proofs; each includes the types |
| `NoEarlyExitFromRound`, `NoQueueLost` | the same as the first over several calls; no queue arrives in, or is left to, a round that is over |
| `Delivered` | when `exchange()` returns, the incoming queues of the round are exactly those enqueued for this rank in it, plus an empty one per silent neighbor, each once, whole, in order |
| `NeverLate` | no message on its way, and no half-received queue, belongs to a round its receiver has ended (the assertion in `check_incoming_queues`) |
| `KeepsSync`, `KeepsLiveSync` | exchange implements `LocalSync`: a barrier between linked ranks, or all ranks if remote; with fairness, all rounds end |
| `KeepsInCore` | OutOfCore implements InCore: every block runs each call once with its own content, callbacks read what was enqueued to their block, messages carry what was enqueued |
| `FilesKept` | there is a file for each block and queue that is not in memory, one each and no other |
| `WithinLimit` | no more blocks in memory than the limit, but for one per thread while threads hand over; `execute()` never throws |
| `InOnePlace` | a block is in one Master once, or in one message; `gids_` and `lids_` are each other's inverse |
| `ProcessedOnce` | a block is free, held by one thread, under way or processed - one of these, once; free blocks are where their queues are |
| `LooksUpItsOwn` | a work thread gets its own block unless another block was released during its look-up |
| `FixedAtEnd` | when `dynamic_foreach` returns, links and outgoing queues name the ranks where the neighbors are |
| `Ends` | `dynamic_foreach` returns on every rank |
| `OnOneRank` | a decomposed block is on one rank, or under way to one |
| `BalanceHelps` | the heaviest rank is not heavier after balancing than before (no overflow of a sum of work, no rank that both gets and gives) |
| `LinksAgree` | links are mutual, opposite in direction and wrapping, and name the right rank |
| `HeardFromPartners` | in each round a block has one queue from each incoming partner and none of another round |
| `Reduced` | a merge has everything at the blocks still active, swap and all-reduce everywhere, a broadcast the root's value; an all-to-all the item from every block |
| `NothingLeft` | after a reduction no queue is on its way and `expected_` is what the exchange needs |
| `PointsFound` | the blocks found for a point are those whose bounds have it |
| `GhostsFromNeighbors` | ghosts of a block are in the core of a neighbor |
| `Completes` | every rank gets through |

`RoundsTypeOK` (a part of `RoundsInv`), `ExchangeTypeOK`, `OutOfCoreTypeOK` (a part of
`OutOfCoreInv`), `DynamicTypeOK` (a part of `DynamicInv`) and `ReduceTypeOK` (a part of `ReduceInv`) are
the modules' type invariants.

## 4. The runs

| Run | Instance | Shows |
|---|---|---|
| `IExchange_single` | 2 ranks, 3 blocks (2 on one rank), 3 queues of which one stays within a rank; one thread | types, no early exit, the inductive invariant, refinement |
| `IExchange_threaded` | 2 ranks, 2 blocks, 2 queues; two threads, at most one queue per callback | exact counter, no early exit, agreement |
| `IExchange_live` | 2 ranks, a block each, a queue each way | everybody returns; live refinement |
| `IExchange_threaded_race` | 2 ranks, 3 blocks, two queues from one callback; two threads | **finding 1**: `NoEarlyExit` fails |
| `IExchangeRounds_barrier` | two calls, 2 ranks, a queue each way, barrier in between | rounds do not mix, the inductive invariant |
| `IExchangeRounds_nobarrier` | the same without the barrier | **finding 2**: `NoEarlyExitFromRound` fails |
| `Exchange_plain` | chain of 3 ranks, 2 plain rounds, one queue in two messages | delivery, no late message, synchronisation |
| `Exchange_mixed` | 2 ranks, 3 blocks, plain - remote - plain; one message in flight at a time, a queue in three messages; remote targets that are not neighbors | types, delivery, no late message, the inductive invariant, live synchronisation |
| `OutOfCore_threads` | 3 blocks in a row between two remote blocks, room for 2, two threads, two calls of foreach (the first skips blocks without incoming) before each of 2 exchanges, large queues in and out, early arrivals | the inductive invariant, files, limit, refinement |
| `OutOfCore_large` | 2 blocks on one rank with room for one and large queues to each other | **finding 3**: `KeepsInCore` fails |
| `DynamicBalance` | 2 ranks, 3 blocks of work 3, 2, 1, all on one rank; one sample, quantile 0.8, one block with queues from an earlier foreach | everything about `dynamic_foreach`, the inductive invariant |
| `Reduce` | 74 programs on 3 ranks, a domain of 5 by 4 points, up to 6 blocks | everything about decomposition, balancing and reductions, the inductive invariant |

Why the bounds are enough to be of use. Two ranks are what a queue changing hands
needs, and three blocks give both a rank with several blocks and a transfer within
a rank. Three queues allow a relay: a queue received by a done block wakes it, it
sends another, while the first sender is in the barrier. Attempts of the detector
are not bounded: it restarts as often as it likes. In `Exchange` a third rank is
what makes early arrivals matter: the middle rank waits for one neighbor while the
other is already in the next round; two rounds suffice since linked ranks are never
further apart. In `OutOfCore` three blocks with room for two make threads unload what they have
processed; a third exchange would repeat the second. In `DynamicBalance` blocks move
to the idle rank and, while work is uneven, on; one sample is all that a second rank
can give. In `Reduce` six blocks in three by two have rounds of different group sizes
and blocks of unequal width, four blocks two rounds, one and two blocks leave ranks
without any; three ranks let two ranks give to the same third. Deadlock is checked in
every run but `Reduce`, whose programs come to an end; elsewhere what has returned for
good may stutter (`Finished`). What remains beyond these bounds is covered by the
proofs where section 6 says so.

Each property of a passing run has been seen to fail when a definition of the
model is changed the way a bug in that code would change it; the changed forms
stand before the definitions, marked "Mutant".

## 5. Fairness

Only the live runs assume it. Every thread keeps running (weak fairness of each
rank's loop, and of the callback thread). Threads poll in loops that never block,
so what they poll for is possible only while the loop is at that place, and strong
fairness says that it is found in the end: a message that was sent is probed, a
matched send and a completed collective test complete (MPI's progress guarantee,
given that all ranks keep calling MPI). For iexchange a callback must in the end
answer "done"; that is the user's part of the contract (`docs/mkdocs/docs/async_comm.md`),
and the queues being finitely many is the other half of it. For exchange the
program is assumed to call `exchange` the same number of times on every rank.
In `DynamicBalance` both threads of each rank keep running, and the work thread, which
polls the lock of the free blocks, in the end gets at a block that the other thread
takes and puts back again and again (strong fairness of `Grab`). In `Reduce` no step
can be taken for ever, so that weak fairness of the whole is enough: the program does
not stop while something can be done.

## 6. What is proved

`IExchangeProofs`, for any finite sets of ranks, blocks and queues, any placement,
any number of queues per callback:

| Theorem | States | Assumes |
|---|---|---|
| `TypeCorrect` | `Spec => []TypeOK` | - |
| `CounterExact` | `Spec => []WorkCounted` | - |
| `RanksAgree` | `Spec => []Agreement` | - |
| `ReturnsOnlyWhenDone` | `Spec => []NoEarlyExit` | one thread |
| `Implements` | `Spec => KeepsPromise` | one thread |

The assumptions on the constants are those of the module (`FiniteAssumption`,
`ShapeAssumption`), which every run evaluates.

The argument. `NoEarlyExit` is about the moment of return; what makes it true
happened earlier, so the invariant has five parts:

1. `Structure` says where queues and callbacks can be: a rank that has not begun
   has nothing, a running callback has a block of its own rank, a queue in a proxy
   is one its callback enqueued.
2. `WorkCounted`: the counter is exact. Each action that creates, moves or ends
   work is paired with the `add_work` next to it in the code, and the proof is one
   lemma per kind of work about how its cardinality changes. A queue between ranks
   is counted by its sender until the send tests complete, which needs a match,
   and by its receiver from before the match.
3. `OneThread` is what a single thread adds: `control()` never sees a callback
   half way, and positive work has set `dirty`. It is false with two threads, and
   that is finding 1.
4. `Stages`: the ranks' states go through the barrier and the all-reduce together.
   While some rank has yet to contribute, all are in the barrier or the all-reduce;
   when one has decided, all have.
5. `Detection`: when the last rank has entered the barrier each rank has had an
   empty counter since its own entry or has `dirty` set; so while the all-reduce is
   under way there is no work or some rank has seen work and says, or will say, so.
   If nobody has, the counters are all 0, hence by 2 there is no work anywhere and no
   send is unfinished (`Drained`), and no work means that none can appear.

`InductiveInv` is the five together. `TypeCorrect`, `CounterExact` and `RanksAgree`
need only parts 1, 2 and 4 and hold for any number of threads.

`IExchangeRoundsProofs`, for the same constants and any number of calls:

| Theorem | States | Assumes |
|---|---|---|
| `RoundsInductive` | `RoundsSpec => []RoundsInv` | one thread, `Barrier` |
| `NoEarlyExitInRounds` | `RoundsSpec => []NoEarlyExitFromRound` | one thread, `Barrier` |
| `NoQueueLostInRounds` | `RoundsSpec => []NoQueueLost` | one thread, `Barrier` |

The argument is a mapping. While some ranks have begun a call and others have not, a
rank that is `Behind` has left the call before; to the latest call it is a rank that
has not begun. `LatestCall` is `IExchange` with the variables of those ranks replaced
by their initial values (`mpcNow`, `countNow`, ...), and `RoundsInv` says that its
inductive invariant holds, that who is behind has left the call just before, and that
queues on their way are of the latest call. A step within a call is by a rank that is
not behind, and is the same step of `LatestCall` (`SeenNext`); the lemmas of
`IExchangeProofs`, instantiated, do the rest (`CallStep`). `NextRound` of a rank behind
is `Start` of `LatestCall` (`CatchUp`). `NextRound` of the first rank to go on begins a
new `LatestCall` (`BeginNext`): by the barrier all have left, so by `Drained` nothing is
left over, not even a send whose completion has not been tested, which would take a
unit from the next detector. Without the barrier there is more than one unfinished call at a
time, and finding 2 is what happens.

`ExchangeProofs`, for any finite sets of ranks and blocks, any placement, symmetric
links, any reach of remote rounds, any sequence of plain and remote rounds, any number
of messages per queue and any limit on blocks in memory (`ExchangeAssumption`):

| Theorem | States |
|---|---|
| `ExchangeInductive` | `Spec => []ExchangeInv` |
| `ExchangeTypeCorrect` | `Spec => []ExchangeTypeOK` |
| `MessagesInTime` | `Spec => []NeverLate` |
| `DeliversWhatIsDue` | `Spec => []Delivered` |
| `ExchangeSynchronizes` | `Spec => KeepsSync` |

The argument. `NeverLate` and `Delivered` speak of the receiver at the end of its round,
but depend on what every sender has done by then. The invariant says, besides types:

1. `Streams`: from rank to rank there is a stream of whole queues, each with its
   messages in order; only the first may be half received, and the receiver's
   `InFlightRecv` then has exactly the part that is missing from the stream.
2. `Once`: for a link and a round there is one queue, in one place. `Made`: the queues
   that wait, travel or have been placed are those that a rank has made in a round it has
   begun, and none of them is missing while it has yet to be read. `Sending`: what a rank
   still has to send belongs to its current round.
3. `OnTime`: nothing is pending for a round its receiver has ended, and whoever has ended
   a round has seen all ranks it depends on begin it.
4. `Barriers`: who has joined the barrier of a remote round has nothing pending in it.
   A message that is not received is a send in flight, so that once all have joined
   nothing of the round is on its way.
5. `Counted`: what has been placed are whole queues for this rank and that round, and as
   many are counted as received as have been placed.

A plain round has no barrier; it ends by counting, and that is the hard step. The
placed queues of the round map one to one into the links to the rank (by 2); as many
as links are expected (`add_expected`); so every link has one, its sender has begun the
round, and nothing of the round can be pending. That gives 3 again and hence `NeverLate`,
`Delivered` and the refinement.

`PlacementProofs`, for any number of ranks, blocks and points:

| Theorem | States |
|---|---|
| `ContiguousInverse`, `RoundRobinInverse` | a rank's `local_gids` are exactly the blocks that `rank` gives it |
| `SlotsDistinct` | every block has a slot in the dynamic assigner's windows, no two the same |
| `PartsOfPoint` | the parts of a dimension whose bounds have a point are those that `lower` and `upper` find, with remainders and shared faces, if there are no more parts than points |
| `PlaceOfBlock`, `BlockOfPlace` | `gid_to_coords` and `coords_to_gid` are each other's inverse, between the blocks and the places of the grid |
| `NeighborsMutual` | the neighbors of a block are blocks, and each has the block for its neighbor, in the opposite direction and across the opposite boundaries, whatever wraps |
| `DivisionsCover` | whichever dimensions are free, `fill_divisions` throws or lays out exactly the blocks that were asked for |
| `PartnersAgree` | for merge, swap, broadcast and all-reduce: who sends to whom in a round is who waits for whom in the next, and nobody is named twice |
| `PartnersGather` | whoever adds in each round what its partners had has everything after the last: at the blocks that a merge leaves, at all blocks of a swap or an all-reduce; a broadcast has brought the root's value to all |
| `PartnersCutRuns` | the partners of an all-to-all cut the row of blocks into runs, each group one run into parts of equal width, in order, down to single blocks |

The argument, first for the static assigners and the parts of a dimension: a quotient is
the only number whose multiple is
that near (`Quotient`, from `TimesMonotone`), so that a block's place by
division and its bounds by multiplication describe the same set; then the cases of the
remainder. Division and products of variables are used only through such lemmas.

Loops are recursive functions. For each there is a lemma that turns its definition into
"the first value, and each from the one before" (`Iteration`, which is proved by induction
over a set of numbers: `Induction`, `InductionTo`). From that:

1. *Grid.* A gid is the sum of its coordinates times the products of the divisions below
   (`GidLoop`, `CoordsLoop`), which gives `PlaceOfBlock` and `BlockOfPlace`. A step and
   the step back cancel in each dimension, with the same crossing of the boundary
   (`StepBack`); together that is `NeighborsMutual`.
2. *Divisions.* The factors that `factor` takes out of a number multiply to it
   (`FactorsLoop`, `PrimesDissolve`). Each turn of the loop of `fill_divisions` multiplies
   one free dimension by one of them (`SplitTurn`), so what has been laid out times what
   is left is what was asked for (`SplitsMultiply`). For the line of `all_to_all` the loop
   never throws (`LineIsLaid`).
3. *Groups.* The factors of one dimension, interleaved with those of the others, have
   partial products that divide its division (`FactorsFit`, `FactorLoop`,
   `GroupedDivides`), so the steps of the rounds fit: `GroupsFit`. A place in a group is
   then a digit of a coordinate in a mixed radix; changing one digit leaves the others
   (`DigitMove`, `OtherDigits`), so all members of a group have the same group and the same
   places in other rounds (`GroupOfBlock`, `SameGroup`).
4. *Rounds.* A swap matches as groups are symmetric; a merge since the first of a group is
   the one with digit 0, and who is active are those with digit 0 in all rounds before; a
   broadcast is a merge with the two sides changed (`SwapMatched`, `MergeMatched`,
   `MatchedBack`). The kinds put these together: `PartnersAgree`.
5. *What the rounds bring about.* The factors fill the divisions (`FactorLoop`,
   `GroupsFill`), so a block's digits in all rounds determine it (`PlacesDetermine`,
   `DigitJoin`). After r rounds of a merge or a swap a block has what those have that
   differ from it only in the digits of these rounds, by induction over the rounds
   (`GatherUp`); all digits are free after the last. For a broadcast the same goes
   backwards from the root (`GatherDown`). On the line of an all-to-all the digit of a
   round is which part of its run a block is in (`DigitParts`, `GroupOfLine`,
   `PartsOfRuns`): `PartnersCutRuns`.

`DynamicBalanceProofs`, for any finite sets of ranks and blocks, any links and first
placement, any works, any number of samples and any quantile that `DynamicAssumption`
allows:

| Theorem | States |
|---|---|
| `DynamicInvariant` | `Spec => []DynamicInv` |
| `DynamicTypes` | `Spec => []DynamicTypeOK` |
| `DynamicInOnePlace` | `Spec => []InOnePlace` |
| `DynamicProcessedOnce` | `Spec => []ProcessedOnce` |
| `DynamicLooksUpItsOwn` | `Spec => []LooksUpItsOwn` |
| `DynamicFixedAtEnd` | `Spec => []FixedAtEnd` |

The argument. Two threads of a rank and any number of ranks hold blocks at the same
time, and the properties count them all. The proof uses `Inv`, which is `DynamicInv`
in the forms that steps preserve:

1. Where a block can be is written as a set for each kind of place: ranks that have it
   in their Master, messages (by sender, receiver, channel place and place in the
   message), vectors of free blocks, work threads. That the sums of `InOnePlace` and
   `ProcessedOnce` are 1 is that exactly one of these sets has one element and the
   others have none (`InOne`, `OnceIn`). A step takes the element out of one set and
   puts it into another; the lemmas about messages (`Lies`, `Spots`) say which.
2. `gids_` and `lids_` are each other's inverse: `release` moves the last block into
   the gap and `add` appends (lemmas `ReleaseTables`, `AddTables`).
3. `InHand` and `AtWork`: the calling thread has a block in hand only between
   `dynamic_send_req` and the message, and that block is on its rank with its queues,
   free nowhere and held by no work thread; the lid that a work thread has looked up is
   its block's, unless a release in between has marked it `disturbed`. From this
   follows `LooksUpItsOwn`.
4. `Weighed`: a rank's `proc_work` is the work of its free blocks, so that taking one
   leaves nothing negative.
5. `Over`: who has left the iexchange has nothing free and nothing planned, all are
   done and no message with a block is on its way; hence no block moves any more, on
   any rank. `Resolved` adds what each step of the end has put right since: the
   assigner after `record_local_gids`, the links after `update_links`, the queues
   after `fix_queues`. The steps of other ranks cannot undo it, as they record only
   blocks of their own. That is `FixedAtEnd`.

`OutOfCoreProofs`, for any finite set of blocks, any links, targets, numbers of calls,
exchanges and threads, and any limit or none (`OutOfCoreAssumption`):

| Theorem | States | Assumes |
|---|---|---|
| `LimitKept` | `Spec => []WithinLimit` | - |
| `OutOfCoreTypeCorrect` | `Spec => []OutOfCoreTypeOK` | - |
| `OutOfCoreInductive` | `Spec => []OutOfCoreInv` | `FewLarge` |
| `FilesNeverLost` | `Spec => []FilesKept` | `FewLarge` |
| `ImplementsInCore` | `Spec => KeepsInCore` | `FewLarge` |

`FewLarge` says that no queue between two blocks of the rank is large enough to be
unloaded, and none that may come a round early. The code does not see to that; without
it `KeepsInCore` and `FilesKept` are false, by finding 3 and by the early queues of the
list after it. All other large queues may be unloaded at any time, and `OutOfCore_threads`
has such queues out of the rank and into it.

The argument.

1. `StorageInv`: each place that has a file has one of its own, and file numbers are
   new when they are given out (`NewFilesFresh`). Hence `Put` and `Get` change what is at
   a place only by moving it: what is `Kept` there, in memory or in the file, is the same
   before and after (`PutKeeps`, `GetKeeps`).
2. `ThreadsInv`: the list, the threads' current blocks and those they keep are disjoint;
   what a thread keeps is in memory.
3. `LoadedFirst`: since `execute()` puts the loaded blocks first, a thread that finds its
   block unloaded knows that all blocks in memory are with some thread, and so are counted
   by some `Full`. Each of n threads keeps at most `limit_ \div n` of them; with the
   blocks the others hold in hand that is `WithinLimit` (`KeptBound`, `LoadedBound`), and
   before the first load there are no more than when `execute()` began.
4. `QueuesInv`: which rounds have queues, and that none is left once it is sent or read.
5. `FilesInv`: a queue is in a file only if it is large and its block is `Resting`: not in
   memory and with no thread beyond `Take`. So no proxy takes a buffer that is in a file,
   and `unload_queues`, which does not ask whether a record is external already, never
   meets such a one. This is the part that needs `FewLarge`.
6. The refinement reads each block and queue as what is kept at its place (`Mapping`).
   `Load`, `Unload`, `MakeRoom` and the rest of the moves leave it as it is by 1; `Run`
   and `SendBlock` are steps of `InCore` by 2, 4 and 5, as what they take from memory is
   all there is.

The order of what several calls enqueue (`InOrder`) exists for every set of calls. That
is an induction over data; it is done with the library's well-founded induction applied
to a set of numbers (`Induction`), where the theorems with an operator parameter cannot
be used.

`ReduceProofs`, for any number of ranks and any programs, with `CollectiveBalanceProofs`
for the steps before the reduction:

| Theorem | States |
|---|---|
| `ProgramsMatch` | `ProgramsAgree`: the links of each grid are mutual, and who sends in a round and who waits in the next name each other |
| `ProgramsReduce` | `ProgramsGather`: the tables of partners bring every block what its reduction promises, if each round brings it what its partners had |
| `BlocksInvariant` | `Spec => []Placement` (which has `BalanceInv`) |
| `BlocksOnOneRank` | `Spec => []OnOneRank` |
| `BalancingHelps` | `Spec => []BalanceHelps` |
| `LinksAgreeOnRanks` | `Spec => []LinksAgree` |
| `ReduceInvariant`, `ReduceTypeCorrect`, `ReduceCorrect` | `Spec => []Inv`, `[]ReduceTypeOK`, `[]ReduceInv` |
| `PartnersHeard` | `Spec => []HeardFromPartners` |
| `ReduceLeavesNothing` | `Spec => []NothingLeft` |
| `QueuesHoldWhatIsKnown` | `Spec => []DataInv` |
| `ReductionsReduce` | `Spec => []Reduced` |

`ProgramsMatch` is what the places of `PlacementProofs` come to for a program: its grid is
what `DivisionsCover` says, so its links are those of `NeighborsMutual`, and its partners
fit the grid (`NewPartnersFit`), so they are those of `PartnersAgree`. In the same way
`ProgramsReduce` comes from `PartnersGather` and `PartnersCutRuns`. Both assume of the
programs what `BalanceAssumption` and `ProgramsAssumption` say. For the programs of
`MCReduce` TLC evaluates `ProgramsAgree` (`ProgramsCheck`), and meets what
`ProgramsGather` says in `Reduced` and in `DataInv`, a part of the `ReduceInv` it checks.

The argument, first for the blocks (`BalanceInv`):

1. `StagesInv`. All ranks decide from the same gathered work, so they have the same
   `Moves`. `MovesOK`: walking over ranks by the order of the sort, which exists
   (`SortedOrder`), each source comes once and gives a block it was assigned at first;
   hence no block is moved twice, whatever the work and however unsigned differences
   come out (`WalkStep`, `DecideOK`).
2. `PlacesInv`. Who is about to carry out move k has the blocks it was assigned and has
   not sent, and those it has received (`Kept`); what is under way are the moves that the
   source has passed and the destination has not (`OnWay`). With 1 every block is in one
   place (`InOnePlace`), also when ranks are many moves apart: that is `OnOneRank`. The
   slots of the dynamic assigner are distinct (`SlotsDistinct`), so each rank writes those
   of its own blocks.
3. `BalanceHelps`. All ranks walk over the same gathered work (`InfoOK`). Along the walk no
   load in the sort's record exceeds the heaviest of the first ones (`LightenedStep`): a
   block moves only if the difference between its source and the lightest rank exceeds
   it, and where no rank both gets and gives a source's load is its first one, so that
   the unsigned difference is the true one. What a rank has after the moves is at most
   the load recorded for it (`DecisionHelps`). The condition `NoOverflow` is about the
   first sums only; that no later sum overflows follows.
4. `LinksInv`. A link is as laid out until its rank has resolved it, and then has the
   rank of the neighbor by the assigner, which is right for all blocks once all ranks are
   past the barrier.

Then for the reduction (`MailInv`, `HeardInv`, `ExpectedInv`, `DataInv`):

5. `MailInv`: for a round, a sender and a receiver a queue is `Due` from when the
   sender's callbacks have run until the receiver's have; exactly those queues exist, once
   each, at their rank or on the way to it.
6. A round ends by counting, as in `Exchange`. The queues counted of this round map one
   to one into pairs of a block and a partner it waits for; as many are expected
   (`ExpectedInv`), so that when the count is reached every partner has sent
   (`AllHeard`). This is where the partners of the two sides must match.
7. `expected_` is the number of pairs of a block and a unique neighbor, which moves and
   the resolution of links keep (`EdgesCount`, `UniqueCount`), and which `Return` puts back.
8. The ranges of an all-to-all: a part of a range is a range (`DividedRange`), and the
   queue of the last partner, which the code reads the range from, is there by 6.
9. `DataInv`: what a rank has done can be told from its round and stage (`Ran`), and so
   can what its blocks and the queues from them hold, although ranks are rounds apart.
   `Known` is what a block has gathered by a round if every round brings it what its
   partners had in the one before; by 6 it does, no queue is missing and none is read
   twice (`KnownFound`). In an all-to-all a block has, after a round, the items for its
   run from all blocks that are as far into theirs (`ItemsOf`, `ItemsFound`), and
   dividing the range gives each partner the items for its part (`RunCut`, `ItemsCut`,
   `SentHolds`). `ProgramsReduce` says what `Known` and the runs are after the last
   round, whatever the grid, k and the kind of partners: that is `Reduced`.

Only model-checked: liveness (out of the prover's reach); `NoEarlyExit` with two
threads and one queue per callback; `PointsFound` and `GhostsFromNeighbors`.

## 7. Findings

1. **A queue is visible before it is counted** (`proxy.hpp:55`). `~Proxy` appends a
   queue to `outgoing_` and then calls `inc_work`. With `threads() > 1` the
   communication thread can send it, see it complete and call `dec_work` in
   between. The callback's own unit hides that, but only once: the count drops to
   0 with the callback still at work, `control()` sees 0 and enters the barrier,
   the worker counts this queue, appends and counts another, and `dirty = 0`
   forgets both. The barrier and the all-reduce conclude with the second queue on
   its way. `IExchange_threaded_race` is the trace;
   `docs/mkdocs/docs/async_comm.md:16` promises the contrary.
2. **Consecutive iexchange calls mix** (`master.hpp:1081`). The barrier that would
   separate them is commented out. A rank that is still inside the last call counts
   a queue of the next one on its old detector; the new detector is one short, and
   the next call may end with work outstanding. With a barrier between the calls
   the same model has no such behaviour. `IExchangeRounds_nobarrier` is the trace.

3. **A large queue within a rank is lost to a block in memory** (`master.hpp:721`).
   A queue of a block that is unloaded goes to its file; `load_outgoing` leaves it there
   if the target is on the same rank, and `send_same_rank` (`master.hpp:1346`) moves the
   record as it is. `execute()` loads queues only with a block that is not in memory
   (`execution.hpp:47`). If the receiver is in memory, its proxy takes the record's empty
   buffer, and the file stays. `OutOfCore_large` is the trace;
   `docs/mkdocs/docs/ooc.md:5` promises the contrary.

Seen while reading; no run shows them, or the models state what excludes them:

- *iexchange with queues of several messages* (`master.hpp:1408`, `1451`): a large
  queue is counted by `~Proxy`, once more with its head and once with each piece,
  and given back once per message, so the sender keeps one unit too many; a blob is
  given back by `nudge` though nothing counted it.
- *Large queues that come a round early* (`master.hpp:1498`) go to a file whenever there is a
  limit, though their block may be in memory and stay there. When their round begins,
  `execute()` loads queues only with a block that is not in memory: the block reads
  nothing. If it is unloaded later, `unload_incoming` (`master.hpp:618`) writes the
  record's empty buffer to a second file and forgets the first. TLC shows both
  (`KeepsInCore`, `FilesKept`) when `OutOfCore_threads` gets such a queue, the pair
  `<<r1, b3>>` in `Large` and `Early`; `FewLarge` excludes it from the theorems.
- *`foreach_exchange`* (`detail/master/foreach_exchange.hpp:87`): the comment says
  that `cp.init()` resets incoming and outgoing queues and collectives, but it only
  resets the collectives. What a coroutine enqueues before it yields stays in its
  proxy, and what arrives is never put into it, while `docs/mkdocs/docs/coroutine.md`
  describes an exchange at each yield.
- *Unsigned comparison of work* (`load-balance-collective.hpp:52`): the work of a rank
  that both gets and gives is out of date, and a difference below zero is a large
  number. `BalanceHelps` is stated, and proved, where there are no such ranks and no sum
  of work overflows; the same comparison is in `dynamic.hpp:180` and `load-balance-sampling.hpp`.
- *Mirror index* (`detail/master/dynamic.hpp:175`): `size - index` is past the end for
  index 0, which a quantile of 0 lets through.
- *Look-up by lid* (`detail/master/execution.hpp:177`): the race that `disturbed` marks.
- *Outgoing queues of a block that migrates* stay on its old rank (`dynamic.hpp:211`).
- *More blocks than points* (`decomposition.hpp:651`): the width is 0 and `lower` and
  `upper` divide by it; `PartsOfPoint` has the condition that excludes it.
- *Divisions that do not multiply to the number of blocks* (`decomposition.hpp:606`): if the
  user gives all of them, the only test is that their product divides the number; with
  four blocks in two parts, blocks 2 and 3 have coordinates outside the grid.
  `ProgramsAssumption` excludes it.
- *`process_collectives`* (`detail/master/collectives.hpp:100`) returns at once on a rank
  without blocks.

## 8. Plan

Done: Quiescence, IExchange, IExchangeRounds and their proofs; LocalSync, Exchange,
ExchangeProofs; InCore, OutOfCore, OutOfCoreProofs; DynamicBalance, DynamicBalanceProofs;
Assigners, Decomposition, Partners, PlacementProofs; CollectiveBalance, Reduce and their
proofs. What would come next:

1. **IExchangeParts**: queues of several messages and blobs in iexchange, with the
   counter's units for each; expected to show that the counter is not exact.
2. **ForeachExchange**: coroutines, their proxies and `exchange`; abstract
   specification: what is enqueued before a yield is there after it.
3. **ProxyCollectives**: the lists of collectives per block, ranks without blocks, lists
   of different length.
4. Proofs: `NoEarlyExit` with threads and `MaxQueues = 1`; `PointsFound` for all dimensions
   together, from `PartsOfPoint`.

## 9. Not modelled, and why

MPI wrappers (one call each; the models state what is assumed of MPI),
serialization and dynamic types, MPI-IO and file formats, grids, vertices,
statistics and logging, Python bindings, the context switch of the coroutine
library: none has protocol state that a model would say more about than its tests.
The concurrency primitives (`critical-resource.hpp`, `thread.hpp`) are the
atomicity the actions assume. `load_balance_sampling` is the exchange of samples of
`dynamic_balance`, once and on one thread, followed by `fix_links`; both halves are
modelled, their composition is not. Continuous bounds are the formulas of
`Decomposition` in floating point, which TLA+ has no numbers for. Sample sort and the
k-d tree are clients of the reductions. Callbacks that throw, iexchange with a block
limit, and proxy collectives are left out of the models of their components, as said
there.
