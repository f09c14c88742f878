------------------------------ MODULE IExchange ------------------------------
(***************************************************************************)
(* One call of Master::iexchange on all ranks of a communicator            *)
(* (include/diy/master.hpp, iexchange_), with the termination detector     *)
(* IExchangeInfoCollective (detail/master/iexchange-collective.hpp).       *)
(*                                                                         *)
(* Every rank interleaves message progress (icommunicate), the callbacks   *)
(* of its blocks and the detector's control().  With one thread a single   *)
(* loop does all three; with several, the calling thread does progress and *)
(* control while a worker thread runs the callbacks, and both update the   *)
(* work counter.  The queues are a finite set Msg, each with the block     *)
(* that may enqueue it and the block it goes to; which are enqueued, when, *)
(* and what the callbacks answer is up to the callbacks.  A queue that     *)
(* needs several MPI messages is the subject of module QueueTransfer.      *)
(***************************************************************************)
EXTENDS Integers, FiniteSets

CONSTANTS Proc,         \* the ranks of the communicator
          Block,        \* the gids
          Owner,        \* the rank that holds each block
          Msg,          \* the queues that callbacks can fill
          From, To,     \* the blocks each queue comes from and goes to
          Threads,      \* threads()
          MaxQueues,    \* how many queues one callback can fill, at most
          NoBlock       \* no block: no callback is running

ASSUME FiniteAssumption == /\ IsFiniteSet(Proc)
                           /\ IsFiniteSet(Block)
                           /\ IsFiniteSet(Msg)

ASSUME ShapeAssumption == /\ Proc # {}
                          /\ Owner \in [Block -> Proc]
                          /\ From \in [Msg -> Block]
                          /\ To \in [Msg -> Block]
                          /\ Threads \in Nat \ {0}
                          /\ MaxQueues \in Nat
                          /\ NoBlock \notin Block

Threaded == Threads > 1

Local(p) == {b \in Block : Owner[b] = p}      \* the blocks of a rank

VARIABLES
  mpc,          \* where the thread that called iexchange is
  wpc,          \* where the callback loop is
  cur,          \* the block whose callback runs
  todo,         \* the blocks the loop has not visited in this pass
  done,         \* done_result: what the last callback of a block returned
  pend,         \* the proxy's outgoing_, not yet copied to the master
  loc,          \* where each queue is
  inflight,     \* inflight_sends of a rank
  local_work_,  \* the detector's work counter
  dirty,        \* the detector's "there has been work since the barrier"
  flag,         \* where the worker is inside add_work
  state,        \* the state of control()
  r,            \* the detector's MPI request, barrier or all-reduce
  local_dirty, all_dirty

main     == <<mpc>>
loop     == <<wpc, cur, todo, done, pend>>
queues   == <<loc, inflight>>
counter  == <<local_work_, dirty, flag>>
detector == <<state, r, local_dirty, all_dirty>>
vars     == <<main, loop, queues, counter, detector>>

Places == {"unused", "proxy", "outgoing", "mpi", "incoming", "consumed", "dropped"}

TypeOK ==
  /\ mpc \in [Proc -> {"init", "send", "nudge", "check", "callback", "control",
                       "enter", "join", "left"}]
  /\ wpc \in [Proc -> {"off", "idle", "fill", "call", "push", "count"}]
  /\ cur \in [Proc -> Block \cup {NoBlock}]
  /\ todo \in [Proc -> SUBSET Block]
  /\ done \in [Block -> BOOLEAN]
  /\ pend \in [Proc -> SUBSET Msg]
  /\ loc \in [Msg -> Places]
  /\ inflight \in [Proc -> SUBSET Msg]
  /\ local_work_ \in [Proc -> Int]
  /\ dirty \in [Proc -> {0, 1}]
  /\ flag \in [Proc -> {"no", "test", "set"}]
  /\ state \in [Proc -> 0..3]
  /\ r \in [Proc -> {"null", "pending", "done"}]
  /\ local_dirty \in [Proc -> {0, 1}]
  /\ all_dirty \in [Proc -> {0, 1}]

Init ==
  /\ mpc = [p \in Proc |-> "init"]
  /\ wpc = [p \in Proc |-> "off"]
  /\ cur = [p \in Proc |-> NoBlock]
  /\ todo = [p \in Proc |-> {}]
  /\ done = [b \in Block |-> FALSE]
  /\ pend = [p \in Proc |-> {}]
  /\ loc = [m \in Msg |-> "unused"]
  /\ inflight = [p \in Proc |-> {}]
  /\ local_work_ = [p \in Proc |-> 0]
  /\ dirty = [p \in Proc |-> 0]
  /\ flag = [p \in Proc |-> "no"]
  /\ state = [p \in Proc |-> 0]
  /\ r = [p \in Proc |-> "null"]
  /\ local_dirty = [p \in Proc |-> 0]
  /\ all_dirty = [p \in Proc |-> 0]

-----------------------------------------------------------------------------
(***************************************************************************)
(* The counter.  add_work is "local_work_ += work; if (local_work_ > 0)    *)
(* dirty = 1".  On the worker these are three steps, and control() can run *)
(* between any two of them.  On the thread that also runs control() they   *)
(* are one step: the worker cannot take back a unit that was just added,   *)
(* and when one is given back, whoever added what is left sets dirty.      *)
(***************************************************************************)
\* Mutant: dirty takes the count itself.
add_work_Count(p, work) ==
  /\ local_work_' = [local_work_ EXCEPT ![p] = @ + work]
  /\ dirty' = [dirty EXCEPT ![p] = IF local_work_[p] + work > 0 THEN local_work_[p] + work ELSE @]
  /\ UNCHANGED flag

\* Mutant: dirty is not set.
add_work_Clean(p, work) ==
  /\ local_work_' = [local_work_ EXCEPT ![p] = @ + work]
  /\ UNCHANGED <<dirty, flag>>

add_work(p, work) ==
  /\ local_work_' = [local_work_ EXCEPT ![p] = @ + work]
  /\ dirty' = [dirty EXCEPT ![p] = IF local_work_[p] + work > 0 THEN 1 ELSE @]
  /\ UNCHANGED flag

worker_add_work(p, work) ==
  IF Threaded
    THEN /\ local_work_' = [local_work_ EXCEPT ![p] = @ + work]
         /\ flag' = [flag EXCEPT ![p] = "test"]
         /\ UNCHANGED dirty
    ELSE add_work(p, work)

\* The rest of the worker's add_work: it tests the counter, then sets dirty.
SetDirty(p) ==
  /\ \/ /\ flag[p] = "test"
        /\ flag' = [flag EXCEPT ![p] = IF local_work_[p] > 0 THEN "set" ELSE "no"]
        /\ UNCHANGED dirty
     \/ /\ flag[p] = "set"
        /\ flag' = [flag EXCEPT ![p] = "no"]
        /\ dirty' = [dirty EXCEPT ![p] = 1]
  /\ UNCHANGED <<local_work_, main, loop, queues, detector>>

\* Where the calling thread continues once a block has been visited (one
\* thread: the next block's icommunicate, or control after the last one).
AfterBlock(p, rest) ==
  IF Threaded
    THEN UNCHANGED mpc
    ELSE mpc' = [mpc EXCEPT ![p] = IF rest = {} THEN "control" ELSE "send"]

\* The first step of a pass over the blocks: a rank without blocks goes
\* straight to control.
FirstStep(p) == IF ~Threaded /\ Local(p) = {} THEN "control" ELSE "send"

\* Where the calling thread continues after control() with the given state.
AfterControl(p, newState) ==
  IF newState = 3
    THEN mpc' = [mpc EXCEPT ![p] = "join"] /\ UNCHANGED todo
    ELSE /\ mpc' = [mpc EXCEPT ![p] = FirstStep(p)]
         /\ IF Threaded THEN UNCHANGED todo
                        ELSE todo' = [todo EXCEPT ![p] = Local(p)]

\* iexchange_ up to its loop: the detector starts with one unit per block.
Start(p) ==
  /\ mpc[p] = "init"
  /\ mpc' = [mpc EXCEPT ![p] = FirstStep(p)]
  /\ wpc' = [wpc EXCEPT ![p] = "idle"]
  /\ todo' = [todo EXCEPT ![p] = Local(p)]
  /\ add_work(p, Cardinality(Local(p)))
  /\ UNCHANGED <<cur, done, pend, queues, detector>>

-----------------------------------------------------------------------------
(***************************************************************************)
(* The calling thread: icommunicate.                                       *)
(***************************************************************************)

\* send_outgoing_queues takes the front queue of a block's outgoing queues:
\* a block of the same rank gets it in place, for another rank it becomes a
\* synchronous send (issend), which completes only once it is matched.
SendQueue(p, m) ==
  /\ mpc[p] = "send"
  /\ loc[m] = "outgoing"
  /\ Owner[From[m]] = p
  /\ IF Owner[To[m]] = p
       THEN /\ loc' = [loc EXCEPT ![m] = "incoming"]
            /\ UNCHANGED inflight
       ELSE /\ loc' = [loc EXCEPT ![m] = "mpi"]
            /\ inflight' = [inflight EXCEPT ![p] = @ \cup {m}]
  /\ UNCHANGED <<main, loop, counter, detector>>

SendDone(p) ==
  /\ mpc[p] = "send"
  /\ \A m \in Msg : Owner[From[m]] = p => loc[m] # "outgoing"
  /\ mpc' = [mpc EXCEPT ![p] = "nudge"]
  /\ UNCHANGED <<loop, queues, counter, detector>>

\* Mutant: the sender keeps its unit.
Nudge_Keep(p, m) ==
  /\ mpc[p] = "nudge"
  /\ m \in inflight[p]
  /\ loc[m] # "mpi"
  /\ inflight' = [inflight EXCEPT ![p] = @ \ {m}]
  /\ UNCHANGED <<loc, main, loop, counter, detector>>

\* nudge: a send that its receiver has matched tests complete, and its unit
\* is the receiver's now.
Nudge(p, m) ==
  /\ mpc[p] = "nudge"
  /\ m \in inflight[p]
  /\ loc[m] # "mpi"
  /\ inflight' = [inflight EXCEPT ![p] = @ \ {m}]
  /\ add_work(p, -1)
  /\ UNCHANGED <<loc, main, loop, detector>>

\* No send tests complete, which MPI can answer at any time.
NudgeDone(p) ==
  /\ mpc[p] = "nudge"
  /\ mpc' = [mpc EXCEPT ![p] = "check"]
  /\ UNCHANGED <<loop, queues, counter, detector>>

\* Mutant: the receiver does not count what it receives.
ReceiveTo_Uncounted(p, m, place) ==
  /\ mpc[p] = "check"
  /\ loc[m] = "mpi"
  /\ Owner[To[m]] = p
  /\ loc' = [loc EXCEPT ![m] = place]
  /\ UNCHANGED <<inflight, main, loop, counter, detector>>

\* check_incoming_queues: iprobe finds a message.  The unit is added before
\* recv matches the send, then the queue goes to its place.
ReceiveTo(p, m, place) ==
  /\ mpc[p] = "check"
  /\ loc[m] = "mpi"
  /\ Owner[To[m]] = p
  /\ loc' = [loc EXCEPT ![m] = place]
  /\ add_work(p, 1)
  /\ UNCHANGED <<inflight, main, loop, detector>>

\* Within one iexchange the place is the incoming queues of this round.
Receive(p, m) == ReceiveTo(p, m, "incoming")

\* iprobe finds nothing, which it can answer while a message travels.
CheckDone(p) ==
  /\ mpc[p] = "check"
  /\ mpc' = [mpc EXCEPT ![p] = IF Threaded THEN "control" ELSE "callback"]
  /\ UNCHANGED <<loop, queues, counter, detector>>

-----------------------------------------------------------------------------
(***************************************************************************)
(* The callback loop: run_callbacks, on the worker thread or, with one     *)
(* thread, after each icommunicate.                                        *)
(***************************************************************************)
Incoming(b) == {m \in Msg : To[m] = b /\ loc[m] = "incoming"}

WorkerAt(p, pc) == /\ wpc[p] = pc
                   /\ flag[p] = "no"

AtBlock(p, b) == /\ WorkerAt(p, "idle")
                 /\ Threaded \/ mpc[p] = "callback"
                 /\ b \in todo[p]

\* A block that is not done, or has queues waiting, is called; it counts as
\* work while its callback runs.
Visit(p, b) ==
  /\ AtBlock(p, b)
  /\ ~done[b] \/ Incoming(b) # {}
  /\ todo' = [todo EXCEPT ![p] = @ \ {b}]
  /\ cur' = [cur EXCEPT ![p] = b]
  /\ wpc' = [wpc EXCEPT ![p] = "fill"]
  /\ worker_add_work(p, 1)
  /\ UNCHANGED <<done, pend, main, queues, detector>>

Skip(p, b) ==
  /\ AtBlock(p, b)
  /\ done[b] /\ Incoming(b) = {}
  /\ todo' = [todo EXCEPT ![p] = @ \ {b}]
  /\ AfterBlock(p, todo[p] \ {b})
  /\ UNCHANGED <<wpc, cur, done, pend, queues, counter, detector>>

\* The front queues of a block: one from every source that has some.  (Which
\* of several from one source is in front does not matter here.)
Fronts(b) ==
  {T \in SUBSET Incoming(b) :
     \A m \in Incoming(b) : \E n \in T : /\ From[n] = From[m]
                                         /\ \A k \in T : From[k] = From[m] => k = n}

\* Mutant: one unit is given back however many queues the proxy takes.
FillIncoming_One(p) ==
  /\ WorkerAt(p, "fill")
  /\ wpc' = [wpc EXCEPT ![p] = "call"]
  /\ \E T \in Fronts(cur[p]) :
       /\ loc' = [m \in Msg |-> IF m \in T THEN "consumed" ELSE loc[m]]
       /\ IF T = {} THEN UNCHANGED counter ELSE worker_add_work(p, -1)
  /\ UNCHANGED <<cur, todo, done, pend, inflight, main, detector>>

\* fill_incoming: the proxy takes the front queue of every source and gives
\* back a unit for each.  The proxy's constructor does it, and the callback
\* can do it again.
FillIncoming(p) ==
  /\ WorkerAt(p, "fill") \/ (WorkerAt(p, "call") /\ Incoming(cur[p]) # {})
  /\ wpc' = [wpc EXCEPT ![p] = "call"]
  /\ \E T \in Fronts(cur[p]) :
       /\ loc' = [m \in Msg |-> IF m \in T THEN "consumed" ELSE loc[m]]
       /\ IF T = {} THEN UNCHANGED counter
                    ELSE worker_add_work(p, -Cardinality(T))
  /\ UNCHANGED <<cur, todo, done, pend, inflight, main, detector>>

\* Mutant: the answer is stored before it is compared, so no change is counted.
Callback_StoreFirst(p, answer) ==
  /\ WorkerAt(p, "call")
  /\ wpc' = [wpc EXCEPT ![p] = "push"]
  /\ done' = [done EXCEPT ![cur[p]] = answer]
  /\ UNCHANGED <<cur, todo, pend, queues, main, counter, detector>>

\* The callback enqueues to some blocks, one queue per target, and answers
\* whether its block is done.  A change of that answer changes the counter.
Callback(p, answer) ==
  /\ WorkerAt(p, "call")
  /\ wpc' = [wpc EXCEPT ![p] = "push"]
  /\ \E S \in SUBSET {m \in Msg : From[m] = cur[p] /\ loc[m] = "unused"} :
       /\ Cardinality(S) <= MaxQueues
       /\ \A m, n \in S : To[m] = To[n] => m = n
       /\ pend' = [pend EXCEPT ![p] = S]
       /\ loc' = [m \in Msg |-> IF m \in S THEN "proxy" ELSE loc[m]]
  /\ done' = [done EXCEPT ![cur[p]] = answer]
  /\ IF answer = done[cur[p]]
       THEN UNCHANGED counter
       ELSE worker_add_work(p, IF answer THEN -1 ELSE 1)
  /\ UNCHANGED <<cur, todo, inflight, main, detector>>

\* ~Proxy: a queue is appended to the master's outgoing queues, where the
\* calling thread can find it, and only then counted.
PushQueue(p, m) ==
  /\ WorkerAt(p, "push")
  /\ m \in pend[p]
  /\ pend' = [pend EXCEPT ![p] = @ \ {m}]
  /\ loc' = [loc EXCEPT ![m] = "outgoing"]
  /\ wpc' = [wpc EXCEPT ![p] = "count"]
  /\ UNCHANGED <<cur, todo, done, inflight, main, counter, detector>>

CountQueue(p) ==
  /\ WorkerAt(p, "count")
  /\ wpc' = [wpc EXCEPT ![p] = "push"]
  /\ worker_add_work(p, 1)
  /\ UNCHANGED <<cur, todo, done, pend, main, queues, detector>>

\* The proxy is gone: the callback's own unit is given back.
EndCallback(p) ==
  /\ WorkerAt(p, "push")
  /\ pend[p] = {}
  /\ wpc' = [wpc EXCEPT ![p] = "idle"]
  /\ cur' = [cur EXCEPT ![p] = NoBlock]
  /\ worker_add_work(p, -1)
  /\ AfterBlock(p, todo[p])
  /\ UNCHANGED <<todo, done, pend, queues, detector>>

\* The worker's "while (!iex.all_done())": another pass, or the thread ends.
EndPass(p) ==
  /\ Threaded
  /\ WorkerAt(p, "idle")
  /\ todo[p] = {}
  /\ IF state[p] = 3
       THEN wpc' = [wpc EXCEPT ![p] = "off"] /\ UNCHANGED todo
       ELSE todo' = [todo EXCEPT ![p] = Local(p)] /\ UNCHANGED wpc
  /\ UNCHANGED <<cur, done, pend, main, queues, counter, detector>>

-----------------------------------------------------------------------------
(***************************************************************************)
(* control(): a barrier that ranks enter when they run out of work, then   *)
(* an all-reduce of whether any of them has seen work since it entered.    *)
(* The requests of all ranks complete together, when the last rank joins;  *)
(* each rank notices when it next tests its own.                           *)
(***************************************************************************)

\* Every other rank waits in the collective that belongs to this state.
OthersWait(p, s) == \A q \in Proc \ {p} : state[q] = s /\ r[q] = "pending"

\* "state == 0 && local_work_ == 0" holds ...
SeeNoWork(p) ==
  /\ mpc[p] = "control"
  /\ state[p] = 0
  /\ local_work_[p] = 0
  /\ mpc' = [mpc EXCEPT ![p] = "enter"]
  /\ UNCHANGED <<loop, queues, counter, detector>>

\* Mutant: dirty is never forgotten.
EnterBarrier_KeepDirty(p) ==
  /\ mpc[p] = "enter"
  /\ r' = IF OthersWait(p, 1) THEN [q \in Proc |-> "done"]
                              ELSE [r EXCEPT ![p] = "pending"]
  /\ state' = [state EXCEPT ![p] = 1]
  /\ AfterControl(p, 1)
  /\ UNCHANGED <<wpc, cur, done, pend, queues, counter, local_dirty, all_dirty>>

\* ... so enter the barrier, and only then forget the work seen so far.
EnterBarrier(p) ==
  /\ mpc[p] = "enter"
  /\ r' = IF OthersWait(p, 1) THEN [q \in Proc |-> "done"]
                              ELSE [r EXCEPT ![p] = "pending"]
  /\ dirty' = [dirty EXCEPT ![p] = 0]
  /\ state' = [state EXCEPT ![p] = 1]
  /\ AfterControl(p, 1)
  /\ UNCHANGED <<wpc, cur, done, pend, queues, local_work_, flag, local_dirty, all_dirty>>

\* Mutant: the all-reduce starts before dirty is copied, with the old value.
TestBarrier_Old(p) ==
  /\ mpc[p] = "control"
  /\ state[p] = 1
  /\ r[p] = "done"
  /\ local_dirty' = [local_dirty EXCEPT ![p] = dirty[p]]
  /\ IF OthersWait(p, 2)
       THEN /\ r' = [q \in Proc |-> "done"]
            /\ all_dirty' = [q \in Proc |-> IF \E x \in Proc : local_dirty[x] = 1 THEN 1 ELSE 0]
       ELSE r' = [r EXCEPT ![p] = "pending"] /\ UNCHANGED all_dirty
  /\ state' = [state EXCEPT ![p] = 2]
  /\ AfterControl(p, 2)
  /\ UNCHANGED <<wpc, cur, done, pend, queues, counter>>

\* The barrier tests complete: contribute dirty to the all-reduce.
TestBarrier(p) ==
  /\ mpc[p] = "control"
  /\ state[p] = 1
  /\ r[p] = "done"
  /\ local_dirty' = [local_dirty EXCEPT ![p] = dirty[p]]
  /\ IF OthersWait(p, 2)
       THEN /\ r' = [q \in Proc |-> "done"]
            /\ all_dirty' = [q \in Proc |-> IF \E x \in Proc : local_dirty'[x] = 1
                                              THEN 1 ELSE 0]
       ELSE /\ r' = [r EXCEPT ![p] = "pending"]
            /\ UNCHANGED all_dirty
  /\ state' = [state EXCEPT ![p] = 2]
  /\ AfterControl(p, 2)
  /\ UNCHANGED <<wpc, cur, done, pend, queues, counter>>

\* Mutant: a rank looks at its own contribution, not at the result.
TestReduce_Local(p) ==
  /\ mpc[p] = "control"
  /\ state[p] = 2
  /\ r[p] = "done"
  /\ state' = [state EXCEPT ![p] = IF local_dirty[p] = 0 THEN 3 ELSE 0]
  /\ r' = [r EXCEPT ![p] = "null"]
  /\ AfterControl(p, IF local_dirty[p] = 0 THEN 3 ELSE 0)
  /\ UNCHANGED <<wpc, cur, done, pend, queues, counter, local_dirty, all_dirty>>

\* The all-reduce tests complete: finished, or once more from the start.
TestReduce(p) ==
  /\ mpc[p] = "control"
  /\ state[p] = 2
  /\ r[p] = "done"
  /\ state' = [state EXCEPT ![p] = IF all_dirty[p] = 0 THEN 3 ELSE 0]
  /\ r' = [r EXCEPT ![p] = "null"]
  /\ AfterControl(p, IF all_dirty[p] = 0 THEN 3 ELSE 0)
  /\ UNCHANGED <<wpc, cur, done, pend, queues, counter, local_dirty, all_dirty>>

\* There is work, or the request does not test complete.
ControlNothing(p) ==
  /\ mpc[p] = "control"
  /\ state[p] = 0 => local_work_[p] # 0
  /\ AfterControl(p, state[p])
  /\ UNCHANGED <<wpc, cur, done, pend, queues, counter, detector>>

\* The loop ends, the worker is joined, and outgoing_.clear() drops whatever
\* is still there.
Leave(p) ==
  /\ mpc[p] = "join"
  /\ Threaded => wpc[p] = "off"
  /\ mpc' = [mpc EXCEPT ![p] = "left"]
  /\ loc' = [m \in Msg |-> IF loc[m] = "outgoing" /\ Owner[From[m]] = p
                             THEN "dropped" ELSE loc[m]]
  /\ UNCHANGED <<loop, inflight, counter, detector>>

-----------------------------------------------------------------------------
Poll(p) == \/ SendDone(p)
           \/ \E m \in Msg : Nudge(p, m)
           \/ NudgeDone(p)
           \/ CheckDone(p)

Progress(p) == \/ Start(p)
               \/ \E m \in Msg : SendQueue(p, m) \/ Receive(p, m)
               \/ Poll(p)

Callbacks(p) == \/ \E b \in Local(p) : Visit(p, b) \/ Skip(p, b)
                \/ FillIncoming(p)
                \/ \E answer \in BOOLEAN : Callback(p, answer)
                \/ \E m \in Msg : PushQueue(p, m)
                \/ CountQueue(p)
                \/ EndCallback(p)
                \/ SetDirty(p)
                \/ EndPass(p)

Control(p) == \/ SeeNoWork(p)
              \/ EnterBarrier(p)
              \/ TestBarrier(p)
              \/ TestReduce(p)
              \/ ControlNothing(p)
              \/ Leave(p)

\* Every rank has returned.
Finished == /\ \A p \in Proc : mpc[p] = "left"
            /\ UNCHANGED vars

Next == \/ \E p \in Proc : Progress(p) \/ Callbacks(p) \/ Control(p)
        \/ Finished

Spec == Init /\ [][Next]_vars

(***************************************************************************)
(* Fairness.  Each thread keeps running (WF).  What a thread polls for it  *)
(* finds in the end: a message that was sent is probed, a matched send     *)
(* and a completed collective test complete, and a callback answers "done" *)
(* once it stops producing work (SF, because the thread polls in a loop    *)
(* and each of them is only possible while it is at that place).           *)
(***************************************************************************)
Fairness ==
  \A p \in Proc :
    /\ WF_vars(Progress(p) \/ Control(p))
    /\ WF_vars(Callbacks(p))
    /\ SF_vars(\E m \in Msg : Receive(p, m))
    /\ SF_vars(\E m \in Msg : Nudge(p, m))
    /\ SF_vars(TestBarrier(p) \/ TestReduce(p))
    /\ SF_vars(Callback(p, TRUE))

FairSpec == Spec /\ Fairness

-----------------------------------------------------------------------------
(***************************************************************************)
(* What is left to do anywhere: blocks that are not done, queues enqueued  *)
(* and not dequeued, callbacks that can still enqueue.                     *)
(***************************************************************************)
AllWork == ({"block"} \X Block) \cup ({"queue"} \X Msg) \cup ({"callback"} \X Proc)

WorkLeft ==
  {<<"block", b>> : b \in {x \in Block : ~done[x]}}
    \cup {<<"queue", m>> : m \in {x \in Msg : loc[x] \in {"proxy", "outgoing", "mpi", "incoming"}}}
    \cup {<<"callback", p>> : p \in {x \in Proc : wpc[x] \in {"fill", "call"}}}

(***************************************************************************)
(* What a rank's counter stands for: its blocks that are not done, the     *)
(* queues it has to send or is sending, the queues that wait in its        *)
(* incoming queues, and its running callback.  A queue in flight is        *)
(* counted by its sender until the send tests complete and by its receiver *)
(* from before the match, so for a while by both.                          *)
(***************************************************************************)
NotDone(p) == {b \in Local(p) : ~done[b]}
Sending(p) == inflight[p] \cup {m \in Msg : loc[m] = "outgoing" /\ Owner[From[m]] = p}
Waiting(p) == {m \in Msg : loc[m] = "incoming" /\ Owner[To[m]] = p}

\* One for a running callback, and one short while a queue that ~Proxy has
\* appended is not counted yet.
Busy(p) == (IF wpc[p] \in {"fill", "call", "push", "count"} THEN 1 ELSE 0)
             - (IF wpc[p] = "count" THEN 1 ELSE 0)

Units(p) == Cardinality(NotDone(p)) + Cardinality(Sending(p)) + Cardinality(Waiting(p)) + Busy(p)

Running(p) == mpc[p] \notin {"init", "join", "left"}

(***************************************************************************)
(* The counter is exact: on a rank inside iexchange, local_work_ is the    *)
(* number of these.  Every add_work in master.hpp and proxy.hpp, on either *)
(* thread and on either side of a message, is needed for this.             *)
(***************************************************************************)
WorkCounted == \A p \in Proc : Running(p) => local_work_[p] = Units(p)

(***************************************************************************)
(* No rank decides to return while there is work anywhere: not a block     *)
(* that wants to be called again, not a queue on its way ("DIY confirms    *)
(* that there are no pending messages in flight", doc async_comm.md).      *)
(***************************************************************************)
NoEarlyExit == (\E p \in Proc : state[p] = 3) => WorkLeft = {}

\* A rank has decided to return, or will when it looks at the result.
Decided(p) == \/ state[p] = 3
              \/ state[p] = 2 /\ r[p] = "done" /\ all_dirty[p] = 0

(***************************************************************************)
(* The ranks agree: none starts another barrier when one has decided to    *)
(* return, which would leave it waiting for that rank forever.             *)
(***************************************************************************)
Agreement == \A p, q \in Proc : state[p] = 3 => Decided(q)

(***************************************************************************)
(* iexchange keeps the promise of module Quiescence: while there is work   *)
(* no rank returns, and when there is none left none appears and every     *)
(* rank returns.                                                           *)
(***************************************************************************)
Promise == INSTANCE Quiescence WITH Work <- AllWork,
                                    work <- WorkLeft,
                                    left <- {p \in Proc : state[p] = 3}
KeepsPromise == Promise!Spec
KeepsLivePromise == Promise!LiveSpec

(***************************************************************************)
(* Under the fairness above every rank returns, whatever the callbacks     *)
(* send: the detector can neither miss that the work has ended nor keep    *)
(* restarting on the traces of work long gone.                             *)
(***************************************************************************)
EveryRankReturns == <>(\A p \in Proc : mpc[p] = "left")

-----------------------------------------------------------------------------
(***************************************************************************)
(* The inductive invariant behind these properties.  Structure and         *)
(* WorkCounted hold with any number of threads.  The rest is about one     *)
(* thread: with two, local_work_ can be 0 while a callback still enqueues  *)
(* (between PushQueue and CountQueue), and dirty is forgotten too late.    *)
(***************************************************************************)
NotBegun ==
  \A p \in Proc : mpc[p] = "init" =>
    /\ local_work_[p] = 0 /\ wpc[p] = "off" /\ state[p] = 0 /\ inflight[p] = {}
    /\ \A b \in Block : Owner[b] = p => ~done[b]
    /\ \A m \in Msg : /\ Owner[From[m]] = p => loc[m] # "outgoing"
                      /\ Owner[To[m]] = p => loc[m] # "incoming"

CallbackAtBlock ==
  \A p \in Proc : /\ wpc[p] \in {"fill", "call"} => cur[p] \in Local(p)
                  /\ pend[p] # {} => wpc[p] \in {"push", "count"}
                  /\ wpc[p] \in {"off", "idle"} \/ Threaded \/ mpc[p] = "callback"

QueuesInPlace ==
  /\ \A p \in Proc, m \in Msg :
       /\ m \in pend[p] => Owner[From[m]] = p /\ loc[m] = "proxy"
       /\ m \in inflight[p] => /\ Owner[From[m]] = p
                               /\ loc[m] \in {"mpi", "incoming", "consumed"}
  /\ \A m \in Msg :
       /\ loc[m] = "proxy" => m \in pend[Owner[From[m]]]
       /\ loc[m] = "mpi" => m \in inflight[Owner[From[m]]]

Structure == NotBegun /\ CallbackAtBlock /\ QueuesInPlace

\* One thread: control() never sees a callback half way, and a rank with work
\* has dirty set.
OneThread ==
  \A p \in Proc :
    /\ wpc[p] = "count" => Sending(p) # {}
    /\ mpc[p] = "enter" => local_work_[p] = 0
    /\ local_work_[p] > 0 => dirty[p] = 1

\* The all-reduce is under way: some rank has yet to contribute to it.
Reducing == \E p \in Proc : state[p] = 1 /\ r[p] = "done"

Stages ==
  /\ \A p \in Proc :
       /\ state[p] \in {0, 3} <=> r[p] = "null"
       /\ mpc[p] = "enter" => state[p] = 0
       /\ state[p] = 3 <=> mpc[p] \in {"join", "left"}
       /\ state[p] = 2 /\ r[p] = "pending" => Reducing
  /\ Reducing => \A q \in Proc : \/ state[q] = 1 /\ r[q] = "done"
                                 \/ state[q] = 2 /\ r[q] = "pending"
  /\ (\E p \in Proc : Decided(p)) => \A q \in Proc : Decided(q)

NoWork == /\ \A b \in Block : done[b]
          /\ \A m \in Msg : loc[m] \notin {"proxy", "outgoing", "mpi", "incoming"}
          /\ \A p \in Proc : wpc[p] \notin {"fill", "call"}

\* A rank that has seen work since it entered the barrier, and says or will
\* say so.
SeenWork(q) == \/ state[q] = 1 /\ dirty[q] = 1
               \/ state[q] = 2 /\ local_dirty[q] = 1

\* No work, and no send that has not been tested complete.
Drained == NoWork /\ \A p \in Proc : inflight[p] = {}

Detection ==
  /\ Reducing => Drained \/ \E q \in Proc : SeenWork(q)
  /\ \A p \in Proc : state[p] = 2 /\ r[p] = "done" /\ all_dirty[p] = 0 => Drained
  /\ \A p \in Proc : state[p] = 3 => Drained

CountInv == TypeOK /\ Structure /\ WorkCounted
IInv == CountInv /\ OneThread /\ Stages /\ Detection
=============================================================================
