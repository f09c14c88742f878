--------------------------- MODULE IExchangeProofs ---------------------------
(***************************************************************************)
(* Proofs about module IExchange, for any ranks, blocks and queues.        *)
(***************************************************************************)
EXTENDS IExchange, FiniteSetTheorems, TLAPS

(***************************************************************************)
(* The variables that the counter consists of stay what they are, whichever*)
(* thread adds to it.                                                      *)
(***************************************************************************)
CounterOK == /\ local_work_ \in [Proc -> Int]
             /\ dirty \in [Proc -> {0, 1}]
             /\ flag \in [Proc -> {"no", "test", "set"}]

LEMMA AddWorkType ==
  ASSUME TypeOK, NEW p \in Proc, NEW w \in Int, add_work(p, w)
  PROVE  /\ CounterOK'
         /\ local_work_' = [local_work_ EXCEPT ![p] = @ + w]
  BY DEF TypeOK, CounterOK, add_work

LEMMA WorkerAddWorkType ==
  ASSUME TypeOK, NEW p \in Proc, NEW w \in Int, worker_add_work(p, w)
  PROVE  /\ CounterOK'
         /\ local_work_' = [local_work_ EXCEPT ![p] = @ + w]
<1>1. CASE Threaded
  <2>1. /\ local_work_' = [local_work_ EXCEPT ![p] = @ + w]
        /\ flag' = [flag EXCEPT ![p] = "test"]
        /\ dirty' = dirty
    BY <1>1 DEF worker_add_work, add_work
  <2> QED
    BY <2>1 DEF TypeOK, CounterOK
<1>2. CASE ~Threaded
  <2>1. add_work(p, w)
    BY <1>2 DEF worker_add_work
  <2> QED
    BY <2>1, AddWorkType
<1> QED
  BY <1>1, <1>2

\* Cardinalities of the model's sets are numbers, because the sets are finite.
LEMMA Finite ==
  ASSUME TypeOK, NEW p \in Proc
  PROVE  /\ IsFiniteSet(Local(p)) /\ Cardinality(Local(p)) \in Nat
         /\ IsFiniteSet(NotDone(p)) /\ Cardinality(NotDone(p)) \in Nat
         /\ IsFiniteSet(Sending(p)) /\ Cardinality(Sending(p)) \in Nat
         /\ IsFiniteSet(Waiting(p)) /\ Cardinality(Waiting(p)) \in Nat
<1>1. Local(p) \subseteq Block /\ NotDone(p) \subseteq Block
  BY DEF Local, NotDone
<1>2. Sending(p) \subseteq Msg /\ Waiting(p) \subseteq Msg
  BY DEF Sending, Waiting, TypeOK
<1> QED
  BY <1>1, <1>2, FS_Subset, FS_CardinalityType, FiniteAssumption

\* A front set is a set of waiting queues.
LEMMA FrontsWait ==
  ASSUME TypeOK, NEW b \in Block, NEW T \in Fronts(b)
  PROVE  /\ T \subseteq Incoming(b)
         /\ Incoming(b) \subseteq Msg
         /\ IsFiniteSet(T) /\ Cardinality(T) \in Nat
<1>1. T \subseteq Incoming(b) /\ Incoming(b) \subseteq Msg
  BY DEF Fronts, Incoming
<1> QED
  BY <1>1, FS_Subset, FS_CardinalityType, FiniteAssumption

-----------------------------------------------------------------------------
(***************************************************************************)
(* Type correctness of one call of iexchange: the model's state stays in   *)
(* the range of the code's variables, whatever the callbacks do.           *)
(***************************************************************************)
LEMMA TypeStep == TypeOK /\ Structure /\ [Next]_vars => TypeOK'
<1> SUFFICES ASSUME TypeOK, Structure, [Next]_vars PROVE TypeOK'
  OBVIOUS
<1> USE DEF main, loop, queues, counter, detector
<1>1. CASE UNCHANGED vars
  BY <1>1 DEF TypeOK, vars
<1>2. ASSUME NEW p \in Proc, Start(p) PROVE TypeOK'
  <2>1. CounterOK'
    BY <1>2, Finite, AddWorkType DEF Start
  <2> QED
    BY <1>2, <2>1 DEF TypeOK, CounterOK, Start, FirstStep, Local
<1>3. ASSUME NEW p \in Proc, NEW m \in Msg, SendQueue(p, m) PROVE TypeOK'
  BY <1>3 DEF TypeOK, SendQueue, Places
<1>4. ASSUME NEW p \in Proc, NEW m \in Msg, Receive(p, m) PROVE TypeOK'
  <2>1. CounterOK'
    BY <1>4, AddWorkType DEF Receive, ReceiveTo
  <2> QED
    BY <1>4, <2>1 DEF TypeOK, CounterOK, Receive, ReceiveTo, Places
<1>5. ASSUME NEW p \in Proc, Poll(p) PROVE TypeOK'
  <2>1. ASSUME NEW m \in Msg, Nudge(p, m) PROVE TypeOK'
    <3>1. CounterOK'
      BY <2>1, AddWorkType DEF Nudge
    <3> QED
      BY <2>1, <3>1 DEF TypeOK, CounterOK, Nudge
  <2> QED
    BY <1>5, <2>1 DEF TypeOK, Poll, SendDone, NudgeDone, CheckDone
<1>6. ASSUME NEW p \in Proc, NEW b \in Local(p), Visit(p, b) PROVE TypeOK'
  <2>1. CounterOK'
    BY <1>6, WorkerAddWorkType DEF Visit
  <2> QED
    BY <1>6, <2>1 DEF TypeOK, CounterOK, Visit, Local
<1>7. ASSUME NEW p \in Proc, NEW b \in Local(p), Skip(p, b) PROVE TypeOK'
  BY <1>7 DEF TypeOK, Skip, AfterBlock
<1>8. ASSUME NEW p \in Proc, FillIncoming(p) PROVE TypeOK'
  <2>1. cur[p] \in Block
    BY <1>8 DEF FillIncoming, WorkerAt, Structure, CallbackAtBlock, Local
  <2>2. PICK T \in Fronts(cur[p]) :
          /\ loc' = [m \in Msg |-> IF m \in T THEN "consumed" ELSE loc[m]]
          /\ IF T = {} THEN UNCHANGED counter
                       ELSE worker_add_work(p, -Cardinality(T))
    BY <1>8 DEF FillIncoming
  <2>3. -Cardinality(T) \in Int
    BY <2>1, FrontsWait
  <2>4. CounterOK'
    <3>1. CASE T = {}
      BY <2>2, <3>1 DEF TypeOK, CounterOK
    <3>2. CASE T # {}
      BY <2>2, <2>3, <3>2, WorkerAddWorkType
    <3> QED
      BY <3>1, <3>2
  <2>5. loc' \in [Msg -> Places]
    BY <2>2 DEF TypeOK, Places
  <2> QED
    BY <1>8, <2>4, <2>5 DEF TypeOK, CounterOK, FillIncoming
<1>9. ASSUME NEW p \in Proc, NEW answer \in BOOLEAN, Callback(p, answer) PROVE TypeOK'
  <2>1. PICK S \in SUBSET Msg :
          /\ pend' = [pend EXCEPT ![p] = S]
          /\ loc' = [m \in Msg |-> IF m \in S THEN "proxy" ELSE loc[m]]
    BY <1>9 DEF Callback
  <2>2. pend' \in [Proc -> SUBSET Msg] /\ loc' \in [Msg -> Places]
    BY <2>1 DEF TypeOK, Places
  <2>3. CounterOK'
    <3>1. CASE answer = done[cur[p]]
      BY <1>9, <3>1 DEF TypeOK, CounterOK, Callback
    <3>2. CASE answer # done[cur[p]]
      BY <1>9, <3>2, WorkerAddWorkType DEF Callback
    <3> QED
      BY <3>1, <3>2
  <2> QED
    BY <1>9, <2>2, <2>3 DEF TypeOK, CounterOK, Callback
<1>10. ASSUME NEW p \in Proc, NEW m \in Msg, PushQueue(p, m) PROVE TypeOK'
  BY <1>10 DEF TypeOK, PushQueue, Places
<1>11. ASSUME NEW p \in Proc, CountQueue(p) PROVE TypeOK'
  <2>1. CounterOK'
    BY <1>11, WorkerAddWorkType DEF CountQueue
  <2> QED
    BY <1>11, <2>1 DEF TypeOK, CounterOK, CountQueue
<1>12. ASSUME NEW p \in Proc, EndCallback(p) PROVE TypeOK'
  <2>1. CounterOK'
    BY <1>12, WorkerAddWorkType DEF EndCallback
  <2> QED
    BY <1>12, <2>1 DEF TypeOK, CounterOK, EndCallback, AfterBlock
<1>13. ASSUME NEW p \in Proc, SetDirty(p) PROVE TypeOK'
  BY <1>13 DEF TypeOK, SetDirty
<1>14. ASSUME NEW p \in Proc, EndPass(p) PROVE TypeOK'
  BY <1>14 DEF TypeOK, EndPass, Local
<1>15. ASSUME NEW p \in Proc, Control(p) PROVE TypeOK'
  <2> DEFINE MainOK == /\ mpc \in [Proc -> {"init", "send", "nudge", "check", "callback",
                                            "control", "enter", "join", "left"}]
                       /\ todo \in [Proc -> SUBSET Block]
  <2>1. ASSUME NEW s \in 0..3, AfterControl(p, s) PROVE MainOK'
    BY <2>1 DEF TypeOK, AfterControl, FirstStep, Local
  <2>2. CASE SeeNoWork(p)
    BY <2>2 DEF TypeOK, SeeNoWork
  <2>3. CASE EnterBarrier(p)
    <3>1. MainOK'
      BY <2>1, <2>3 DEF EnterBarrier
    <3>2. /\ r' \in [Proc -> {"null", "pending", "done"}]
          /\ dirty' \in [Proc -> {0, 1}] /\ state' \in [Proc -> 0..3]
      BY <2>3 DEF TypeOK, EnterBarrier
    <3> QED
      BY <2>3, <3>1, <3>2 DEF TypeOK, EnterBarrier
  <2>4. CASE TestBarrier(p)
    <3>1. MainOK'
      BY <2>1, <2>4 DEF TestBarrier
    <3>2. r' \in [Proc -> {"null", "pending", "done"}] /\ all_dirty' \in [Proc -> {0, 1}]
      BY <2>4 DEF TypeOK, TestBarrier
    <3> QED
      BY <2>4, <3>1, <3>2 DEF TypeOK, TestBarrier
  <2>5. CASE TestReduce(p)
    <3>1. MainOK'
      BY <2>1, <2>5 DEF TestReduce
    <3>2. state' \in [Proc -> 0..3]
      BY <2>5 DEF TypeOK, TestReduce
    <3> QED
      BY <2>5, <3>1, <3>2 DEF TypeOK, TestReduce
  <2>6. CASE ControlNothing(p)
    <3>1. state[p] \in 0..3
      BY DEF TypeOK
    <3>2. MainOK'
      BY <2>1, <2>6, <3>1 DEF ControlNothing
    <3> QED
      BY <2>6, <3>2 DEF TypeOK, ControlNothing
  <2>7. CASE Leave(p)
    BY <2>7 DEF TypeOK, Leave, Places
  <2> QED
    BY <1>15, <2>2, <2>3, <2>4, <2>5, <2>6, <2>7 DEF Control
<1> QED
  BY <1>1, <1>2, <1>3, <1>4, <1>5, <1>6, <1>7, <1>8, <1>9, <1>10, <1>11, <1>12,
     <1>13, <1>14, <1>15 DEF Next, Progress, Callbacks, Finished

-----------------------------------------------------------------------------
(***************************************************************************)
(* Where things are: a rank that has not begun has nothing, a callback     *)
(* runs on a block of its rank, and a queue is where its place says.       *)
(***************************************************************************)
LEMMA StructureStep == TypeOK /\ Structure /\ [Next]_vars => Structure'
<1> SUFFICES ASSUME TypeOK, Structure, [Next]_vars PROVE Structure'
  OBVIOUS
<1> USE DEF main, loop, queues, counter, detector
<1>0. TypeOK'
  BY TypeStep
<1>1. CASE UNCHANGED vars
  BY <1>1 DEF vars, Structure, NotBegun, CallbackAtBlock, QueuesInPlace
<1>2. ASSUME NEW p \in Proc, Start(p) PROVE Structure'
  <2>1. mpc'[p] # "init" /\ \A q \in Proc \ {p} : mpc'[q] = mpc[q] /\ wpc'[q] = wpc[q]
    BY <1>2 DEF TypeOK, Start, FirstStep
  <2>2. \A q \in Proc \ {p} : local_work_'[q] = local_work_[q]
    BY <1>2 DEF TypeOK, Start, add_work
  <2>3. NotBegun'
    BY <1>2, <2>1, <2>2 DEF Structure, NotBegun, Start
  <2>4. CallbackAtBlock'
    BY <1>2, <2>1 DEF TypeOK, Structure, NotBegun, CallbackAtBlock, Start
  <2>5. QueuesInPlace'
    BY <1>2 DEF Structure, QueuesInPlace, Start
  <2> QED
    BY <2>3, <2>4, <2>5 DEF Structure
<1>3. ASSUME NEW p \in Proc, NEW m \in Msg, SendQueue(p, m) PROVE Structure'
  <2>1. NotBegun'
    BY <1>3 DEF TypeOK, Structure, NotBegun, SendQueue
  <2>2. CallbackAtBlock'
    BY <1>3 DEF Structure, CallbackAtBlock, SendQueue
  <2>3. QueuesInPlace'
    <3>1. /\ \A q \in Proc : m \notin pend[q] /\ m \notin inflight[q]
          /\ UNCHANGED pend
          /\ \A n \in Msg \ {m} : loc'[n] = loc[n]
          /\ \A q \in Proc, n \in Msg \ {m} : n \in inflight'[q] <=> n \in inflight[q]
      BY <1>3 DEF TypeOK, Structure, QueuesInPlace, SendQueue
    <3>2. CASE Owner[To[m]] = p
      BY <1>3, <3>1, <3>2 DEF TypeOK, Structure, QueuesInPlace, SendQueue
    <3>3. CASE Owner[To[m]] # p
      <4>1. /\ loc'[m] = "mpi"
            /\ \A q \in Proc : m \in inflight'[q] <=> q = p
            /\ Owner[From[m]] = p
        BY <1>3, <3>1, <3>3 DEF TypeOK, SendQueue
      <4>2. \A n \in Msg : Owner[From[n]] \in Proc
        BY ShapeAssumption
      <4> QED
        BY <3>1, <4>1, <4>2 DEF TypeOK, Structure, QueuesInPlace
    <3> QED
      BY <3>2, <3>3
  <2> QED
    BY <2>1, <2>2, <2>3 DEF Structure
<1>4. ASSUME NEW p \in Proc, NEW m \in Msg, Receive(p, m) PROVE Structure'
  <2>1. NotBegun'
    BY <1>4 DEF TypeOK, Structure, NotBegun, Receive, ReceiveTo, add_work
  <2>2. CallbackAtBlock'
    BY <1>4 DEF Structure, CallbackAtBlock, Receive, ReceiveTo
  <2>3. QueuesInPlace'
    BY <1>4 DEF TypeOK, Structure, QueuesInPlace, Receive, ReceiveTo
  <2> QED
    BY <2>1, <2>2, <2>3 DEF Structure
<1>5. ASSUME NEW p \in Proc, Poll(p) PROVE Structure'
  <2>1. ASSUME NEW m \in Msg, Nudge(p, m) PROVE Structure'
    <3>1. NotBegun'
      BY <2>1 DEF TypeOK, Structure, NotBegun, Nudge, add_work
    <3>2. CallbackAtBlock'
      BY <2>1 DEF Structure, CallbackAtBlock, Nudge
    <3>3. QueuesInPlace'
      BY <2>1, ShapeAssumption DEF TypeOK, Structure, QueuesInPlace, Nudge
    <3> QED
      BY <3>1, <3>2, <3>3 DEF Structure
  <2>2. CASE SendDone(p) \/ NudgeDone(p) \/ CheckDone(p)
    <3>1. /\ UNCHANGED wpc /\ UNCHANGED cur /\ UNCHANGED done /\ UNCHANGED pend
          /\ UNCHANGED loc /\ UNCHANGED inflight /\ UNCHANGED local_work_ /\ UNCHANGED state
      BY <2>2 DEF SendDone, NudgeDone, CheckDone
    <3>2. \A q \in Proc : mpc'[q] \in {"init", mpc[q]} \/ mpc[q] # "callback"
      BY <2>2 DEF TypeOK, SendDone, NudgeDone, CheckDone
    <3>3. \A q \in Proc : mpc'[q] = "init" => mpc[q] = "init"
      BY <2>2 DEF TypeOK, SendDone, NudgeDone, CheckDone
    <3> QED
      BY <3>1, <3>2, <3>3 DEF Structure, NotBegun, CallbackAtBlock, QueuesInPlace
  <2> QED
    BY <1>5, <2>1, <2>2 DEF Poll
<1>6. ASSUME NEW p \in Proc, NEW b \in Local(p), Visit(p, b) PROVE Structure'
  <2>1. local_work_' = [local_work_ EXCEPT ![p] = @ + 1]
    BY <1>6, WorkerAddWorkType DEF Visit
  <2>2. wpc[p] = "idle" /\ wpc' = [wpc EXCEPT ![p] = "fill"] /\ cur' = [cur EXCEPT ![p] = b]
    BY <1>6 DEF Visit, AtBlock, WorkerAt
  <2>3. NotBegun'
    BY <1>6, <2>1, <2>2 DEF TypeOK, Structure, NotBegun, Visit
  <2>4. CallbackAtBlock'
    BY <1>6, <2>2 DEF TypeOK, Structure, CallbackAtBlock, Visit, AtBlock, Local
  <2>5. QueuesInPlace'
    BY <1>6 DEF Structure, QueuesInPlace, Visit
  <2> QED
    BY <2>3, <2>4, <2>5 DEF Structure
<1>7. ASSUME NEW p \in Proc, NEW b \in Local(p), Skip(p, b) PROVE Structure'
  <2>1. NotBegun'
    BY <1>7 DEF TypeOK, Structure, NotBegun, Skip, AfterBlock
  <2>2. CallbackAtBlock'
    BY <1>7 DEF TypeOK, Structure, CallbackAtBlock, Skip, AtBlock, WorkerAt, AfterBlock
  <2> QED
    BY <1>7, <2>1, <2>2 DEF Structure, QueuesInPlace, Skip
<1>8. ASSUME NEW p \in Proc, FillIncoming(p) PROVE Structure'
  <2>1. wpc[p] \in {"fill", "call"} /\ cur[p] \in Block /\ Owner[cur[p]] = p
    BY <1>8 DEF FillIncoming, WorkerAt, Structure, CallbackAtBlock, Local
  <2>2. PICK T \in Fronts(cur[p]) :
          /\ loc' = [m \in Msg |-> IF m \in T THEN "consumed" ELSE loc[m]]
          /\ IF T = {} THEN UNCHANGED counter
                       ELSE worker_add_work(p, -Cardinality(T))
    BY <1>8 DEF FillIncoming
  <2>3. \A m \in T : m \in Msg /\ loc[m] = "incoming" /\ To[m] = cur[p]
    BY <2>1, FrontsWait DEF Incoming
  <2>4. \A q \in Proc \ {p} : local_work_'[q] = local_work_[q]
    <3>1. CASE T = {}
      BY <2>2, <3>1
    <3>2. CASE T # {}
      <4>1. -Cardinality(T) \in Int
        BY <2>1, FrontsWait
      <4> QED
        BY <2>2, <3>2, <4>1, WorkerAddWorkType DEF TypeOK
    <3> QED
      BY <3>1, <3>2
  <2>5. NotBegun'
    BY <1>8, <2>1, <2>2, <2>3, <2>4 DEF TypeOK, Structure, NotBegun, FillIncoming
  <2>6. CallbackAtBlock'
    BY <1>8, <2>1 DEF TypeOK, Structure, CallbackAtBlock, FillIncoming, Local
  <2>7. QueuesInPlace'
    BY <1>8, <2>2, <2>3 DEF TypeOK, Structure, QueuesInPlace, FillIncoming
  <2> QED
    BY <2>5, <2>6, <2>7 DEF Structure
<1>9. ASSUME NEW p \in Proc, NEW answer \in BOOLEAN, Callback(p, answer) PROVE Structure'
  <2>1. wpc[p] = "call" /\ cur[p] \in Block /\ Owner[cur[p]] = p /\ pend[p] = {}
    BY <1>9 DEF Callback, WorkerAt, Structure, CallbackAtBlock, Local
  <2>2. PICK S \in SUBSET {m \in Msg : From[m] = cur[p] /\ loc[m] = "unused"} :
          /\ pend' = [pend EXCEPT ![p] = S]
          /\ loc' = [m \in Msg |-> IF m \in S THEN "proxy" ELSE loc[m]]
    BY <1>9 DEF Callback
  <2>3. \A q \in Proc \ {p} : local_work_'[q] = local_work_[q]
    <3>1. CASE answer = done[cur[p]]
      BY <1>9, <3>1 DEF Callback
    <3>2. CASE answer # done[cur[p]]
      BY <1>9, <3>2, WorkerAddWorkType DEF Callback, TypeOK
    <3> QED
      BY <3>1, <3>2
  <2>4. NotBegun'
    BY <1>9, <2>1, <2>2, <2>3 DEF TypeOK, Structure, NotBegun, Callback
  <2>5. CallbackAtBlock'
    BY <1>9, <2>1, <2>2 DEF TypeOK, Structure, CallbackAtBlock, Callback
  <2>6. QueuesInPlace'
    BY <1>9, <2>1, <2>2 DEF TypeOK, Structure, QueuesInPlace, Callback
  <2> QED
    BY <2>4, <2>5, <2>6 DEF Structure
<1>10. ASSUME NEW p \in Proc, NEW m \in Msg, PushQueue(p, m) PROVE Structure'
  <2>1. wpc[p] = "push" /\ Owner[From[m]] = p /\ loc[m] = "proxy"
    BY <1>10 DEF PushQueue, WorkerAt, Structure, QueuesInPlace
  <2>2. NotBegun'
    BY <1>10, <2>1 DEF TypeOK, Structure, NotBegun, PushQueue
  <2>3. CallbackAtBlock'
    BY <1>10, <2>1 DEF TypeOK, Structure, CallbackAtBlock, PushQueue
  <2>4. QueuesInPlace'
    BY <1>10, <2>1, ShapeAssumption DEF TypeOK, Structure, QueuesInPlace, PushQueue
  <2> QED
    BY <2>2, <2>3, <2>4 DEF Structure
<1>11. ASSUME NEW p \in Proc, CountQueue(p) \/ EndCallback(p) PROVE Structure'
  <2>1. \A q \in Proc \ {p} : local_work_'[q] = local_work_[q]
    <3>1. CASE CountQueue(p)
      BY <3>1, WorkerAddWorkType DEF CountQueue, TypeOK
    <3>2. CASE EndCallback(p)
      BY <3>2, WorkerAddWorkType DEF EndCallback, TypeOK
    <3> QED
      BY <1>11, <3>1, <3>2
  <2>2. /\ wpc[p] \in {"push", "count"} /\ wpc'[p] \in {"push", "idle"}
        /\ wpc'[p] = "idle" => pend[p] = {}
        /\ \A q \in Proc \ {p} : wpc'[q] = wpc[q] /\ cur'[q] = cur[q] /\ mpc'[q] = mpc[q]
        /\ \A q \in Proc : mpc'[q] = "init" => mpc[q] = "init"
        /\ wpc'[p] = "idle" \/ mpc'[p] = mpc[p]
    BY <1>11 DEF CountQueue, EndCallback, WorkerAt, AfterBlock, TypeOK
  <2>3. UNCHANGED <<pend, done, queues, state>>
    BY <1>11 DEF CountQueue, EndCallback
  <2>4. NotBegun'
    BY <2>1, <2>2, <2>3 DEF Structure, NotBegun
  <2>5. CallbackAtBlock'
    BY <2>2, <2>3 DEF Structure, CallbackAtBlock
  <2> QED
    BY <2>3, <2>4, <2>5 DEF Structure, QueuesInPlace
<1>12. ASSUME NEW p \in Proc, SetDirty(p) PROVE Structure'
  BY <1>12 DEF SetDirty, Structure, NotBegun, CallbackAtBlock, QueuesInPlace
<1>13. ASSUME NEW p \in Proc, EndPass(p) PROVE Structure'
  <2>1. wpc[p] = "idle"
    BY <1>13 DEF EndPass, WorkerAt
  <2> QED
    BY <1>13, <2>1 DEF TypeOK, EndPass, Structure, NotBegun, CallbackAtBlock, QueuesInPlace
<1>14. ASSUME NEW p \in Proc, Control(p) PROVE Structure'
  <2>1. /\ mpc[p] \in {"control", "enter", "join"}
        /\ mpc'[p] # "init" /\ \A q \in Proc \ {p} : mpc'[q] = mpc[q] /\ state'[q] = state[q]
    BY <1>14 DEF TypeOK, Control, SeeNoWork, EnterBarrier, TestBarrier, TestReduce,
                 ControlNothing, Leave, AfterControl, FirstStep
  <2>2. /\ UNCHANGED <<wpc, cur, done, pend, inflight, local_work_>>
        /\ \A m \in Msg : loc'[m] # loc[m] => loc[m] = "outgoing" /\ loc'[m] = "dropped"
    BY <1>14 DEF TypeOK, Control, SeeNoWork, EnterBarrier, TestBarrier, TestReduce,
                 ControlNothing, Leave
  <2>3. NotBegun'
    BY <2>1, <2>2 DEF Structure, NotBegun
  <2>4. CallbackAtBlock'
    BY <2>1, <2>2 DEF Structure, CallbackAtBlock
  <2>5. QueuesInPlace'
    BY <2>2 DEF Structure, QueuesInPlace
  <2> QED
    BY <2>3, <2>4, <2>5 DEF Structure
<1> QED
  BY <1>1, <1>2, <1>3, <1>4, <1>5, <1>6, <1>7, <1>8, <1>9, <1>10, <1>11, <1>12,
     <1>13, <1>14 DEF Next, Progress, Callbacks, Finished

-----------------------------------------------------------------------------
(***************************************************************************)
(* The counter.  A step of rank p leaves every other rank's units and      *)
(* counter alone, so it is enough to look at p.                            *)
(***************************************************************************)
SameElsewhere(p) ==
  \A q \in Proc \ {p} : /\ NotDone(q)' = NotDone(q)
                        /\ Sending(q)' = Sending(q)
                        /\ Waiting(q)' = Waiting(q)
                        /\ wpc'[q] = wpc[q]
                        /\ mpc'[q] = mpc[q]
                        /\ local_work_'[q] = local_work_[q]

LEMMA OnlyHere ==
  ASSUME WorkCounted, NEW p \in Proc, SameElsewhere(p),
         Running(p)' => local_work_'[p] = Units(p)'
  PROVE  WorkCounted'
<1> SUFFICES ASSUME NEW q \in Proc \ {p}, Running(q)' PROVE local_work_'[q] = Units(q)'
  BY DEF WorkCounted
<1>1. Running(q) /\ Busy(q)' = Busy(q)
  BY DEF SameElsewhere, Running, Busy
<1> QED
  BY <1>1 DEF SameElsewhere, WorkCounted, Units

\* A step that leaves the sets of p alone changes its units by what Busy changes.
LEMMA OnlyBusy ==
  ASSUME TypeOK, TypeOK', WorkCounted, NEW p \in Proc, NEW w \in Int, SameElsewhere(p),
         UNCHANGED <<done, loc, inflight>>,
         local_work_'[p] = local_work_[p] + w,
         Running(p)' => Running(p),
         Busy(p)' = Busy(p) + w
  PROVE  WorkCounted'
<1>1. NotDone(p)' = NotDone(p) /\ Sending(p)' = Sending(p) /\ Waiting(p)' = Waiting(p)
  BY DEF NotDone, Sending, Waiting
<1>2. Running(p) => local_work_[p] = Units(p)
  BY DEF WorkCounted
<1>3. Busy(p) \in Int
  BY DEF Busy
<1>4. Units(p)' = Units(p) + w
  BY <1>1, <1>3, Finite DEF Units
<1> QED
  BY <1>2, <1>4, OnlyHere

\* A step that changes nothing that is counted.
LEMMA NothingCounted ==
  ASSUME WorkCounted, NEW p \in Proc, SameElsewhere(p),
         UNCHANGED done, UNCHANGED loc, UNCHANGED inflight,
         local_work_'[p] = local_work_[p],
         Running(p)' => Running(p),
         Busy(p)' = Busy(p)
  PROVE  WorkCounted'
<1>1. NotDone(p)' = NotDone(p) /\ Sending(p)' = Sending(p) /\ Waiting(p)' = Waiting(p)
  BY DEF NotDone, Sending, Waiting
<1>2. Units(p)' = Units(p)
  BY <1>1 DEF Units
<1> QED
  BY <1>2, OnlyHere DEF WorkCounted

LEMMA CountStep == TypeOK /\ Structure /\ WorkCounted /\ [Next]_vars => WorkCounted'
<1> SUFFICES ASSUME TypeOK, Structure, WorkCounted, [Next]_vars PROVE WorkCounted'
  OBVIOUS
<1> USE DEF main, loop, queues, counter, detector
<1>0. TypeOK'
  BY TypeStep
<1>1. CASE UNCHANGED vars
  BY <1>1 DEF vars, WorkCounted, Running, Units, NotDone, Sending, Waiting, Busy
<1>2. ASSUME NEW p \in Proc, Start(p) PROVE WorkCounted'
  <2>1. SameElsewhere(p)
    BY <1>2 DEF TypeOK, SameElsewhere, Start, NotDone, Sending, Waiting, add_work
  <2>2. NotDone(p)' = Local(p) /\ Sending(p)' = {} /\ Waiting(p)' = {}
    BY <1>2 DEF TypeOK, Structure, NotBegun, Start, NotDone, Sending, Waiting, Local
  <2>3. Busy(p)' = 0
    BY <1>2 DEF TypeOK, Start, Busy
  <2>4. local_work_'[p] = Cardinality(Local(p))
    BY <1>2, Finite DEF TypeOK, Structure, NotBegun, Start, add_work
  <2>5. local_work_'[p] = Units(p)'
    BY <2>2, <2>3, <2>4, Finite, FS_EmptySet DEF Units
  <2> QED
    BY <2>1, <2>5, OnlyHere
<1>3. ASSUME NEW p \in Proc, NEW m \in Msg, SendQueue(p, m) PROVE WorkCounted'
  <2>1. /\ mpc[p] = "send" /\ loc[m] = "outgoing" /\ Owner[From[m]] = p
        /\ \A q \in Proc : m \notin inflight[q]
    BY <1>3 DEF SendQueue, Structure, QueuesInPlace
  <2>2. SameElsewhere(p)
    BY <1>3, <2>1 DEF TypeOK, SameElsewhere, SendQueue, NotDone, Sending, Waiting
  <2>3. NotDone(p)' = NotDone(p) /\ Busy(p)' = Busy(p) /\ local_work_'[p] = local_work_[p]
    BY <1>3 DEF SendQueue, NotDone, Busy
  <2>4. Busy(p) \in Int /\ local_work_[p] = Units(p)
    BY <2>1 DEF Busy, WorkCounted, Running
  <2>5. CASE Owner[To[m]] = p
    <3>1. /\ m \in Sending(p) /\ Sending(p)' = Sending(p) \ {m}
          /\ m \notin Waiting(p) /\ Waiting(p)' = Waiting(p) \cup {m}
      BY <1>3, <2>1, <2>5 DEF TypeOK, SendQueue, Sending, Waiting
    <3>2. /\ Cardinality(Sending(p)') = Cardinality(Sending(p)) - 1
          /\ Cardinality(Waiting(p)') = Cardinality(Waiting(p)) + 1
      <4>1. Cardinality(Sending(p)') = Cardinality(Sending(p)) - 1
        BY <3>1, Finite, FS_RemoveElement
      <4>2. Cardinality(Waiting(p)') = Cardinality(Waiting(p)) + 1
        BY <3>1, Finite, FS_AddElement
      <4> QED
        BY <4>1, <4>2
    <3>3. Units(p)' = Units(p)
      BY <2>3, <2>4, <3>2, Finite DEF Units
    <3> QED
      BY <2>2, <2>3, <2>4, <3>3, OnlyHere
  <2>6. CASE Owner[To[m]] # p
    <3>1. Sending(p)' = Sending(p) /\ Waiting(p)' = Waiting(p)
      BY <1>3, <2>1, <2>6 DEF TypeOK, SendQueue, Sending, Waiting
    <3>2. Units(p)' = Units(p)
      BY <2>3, <3>1 DEF Units
    <3> QED
      BY <2>2, <2>3, <2>4, <3>2, OnlyHere
  <2> QED
    BY <2>5, <2>6
<1>4. ASSUME NEW p \in Proc, NEW m \in Msg, Receive(p, m) PROVE WorkCounted'
  <2>1. mpc[p] = "check" /\ loc[m] = "mpi" /\ Owner[To[m]] = p
    BY <1>4 DEF Receive, ReceiveTo
  <2>2. SameElsewhere(p)
    BY <1>4, <2>1 DEF TypeOK, SameElsewhere, Receive, ReceiveTo, NotDone, Sending, Waiting, add_work
  <2>3. NotDone(p)' = NotDone(p) /\ Sending(p)' = Sending(p) /\ Busy(p)' = Busy(p)
    BY <1>4, <2>1 DEF TypeOK, Receive, ReceiveTo, NotDone, Sending, Busy
  <2>4. m \notin Waiting(p) /\ Waiting(p)' = Waiting(p) \cup {m}
    BY <1>4, <2>1 DEF TypeOK, Receive, ReceiveTo, Waiting
  <2>5. Cardinality(Waiting(p)') = Cardinality(Waiting(p)) + 1
    BY <2>4, Finite, FS_AddElement
  <2>6. local_work_'[p] = local_work_[p] + 1
    BY <1>4 DEF TypeOK, Receive, ReceiveTo, add_work
  <2>7. Busy(p) \in Int /\ local_work_[p] = Units(p)
    BY <2>1 DEF Busy, WorkCounted, Running
  <2>8. Units(p)' = Units(p) + 1
    BY <2>3, <2>5, <2>7, Finite DEF Units
  <2> QED
    BY <2>2, <2>6, <2>7, <2>8, OnlyHere
<1>5. ASSUME NEW p \in Proc, Poll(p) PROVE WorkCounted'
  <2>1. ASSUME NEW m \in Msg, Nudge(p, m) PROVE WorkCounted'
    <3>1. mpc[p] = "nudge" /\ m \in inflight[p] /\ loc[m] # "outgoing"
      BY <2>1 DEF Nudge, Structure, QueuesInPlace
    <3>2. SameElsewhere(p)
      BY <2>1 DEF TypeOK, SameElsewhere, Nudge, NotDone, Sending, Waiting, add_work
    <3>3. NotDone(p)' = NotDone(p) /\ Waiting(p)' = Waiting(p) /\ Busy(p)' = Busy(p)
      BY <2>1 DEF Nudge, NotDone, Waiting, Busy
    <3>4. m \in Sending(p) /\ Sending(p)' = Sending(p) \ {m}
      BY <2>1, <3>1 DEF TypeOK, Nudge, Sending
    <3>5. Cardinality(Sending(p)') = Cardinality(Sending(p)) - 1
      BY <3>4, Finite, FS_RemoveElement
    <3>6. local_work_'[p] = local_work_[p] - 1
      BY <2>1 DEF TypeOK, Nudge, add_work
    <3>7. Busy(p) \in Int /\ local_work_[p] = Units(p)
      BY <3>1 DEF Busy, WorkCounted, Running
    <3>8. Units(p)' = Units(p) - 1
      BY <3>3, <3>5, <3>7, Finite DEF Units
    <3> QED
      BY <3>2, <3>6, <3>7, <3>8, OnlyHere
  <2>2. CASE SendDone(p) \/ NudgeDone(p) \/ CheckDone(p)
    <3>1. /\ UNCHANGED wpc /\ UNCHANGED done /\ UNCHANGED loc /\ UNCHANGED inflight
          /\ UNCHANGED local_work_
      BY <2>2 DEF SendDone, NudgeDone, CheckDone
    <3>2. Running(p) /\ \A q \in Proc \ {p} : mpc'[q] = mpc[q]
      BY <2>2 DEF TypeOK, SendDone, NudgeDone, CheckDone, Running
    <3>3. SameElsewhere(p)
      BY <3>1, <3>2 DEF SameElsewhere, NotDone, Sending, Waiting
    <3>4. Busy(p)' = Busy(p) /\ (Running(p)' => Running(p))
      BY <3>1, <3>2 DEF Busy
    <3> QED
      BY <3>1, <3>3, <3>4, NothingCounted
  <2> QED
    BY <1>5, <2>1, <2>2 DEF Poll
<1>6. ASSUME NEW p \in Proc, NEW b \in Local(p), Visit(p, b) PROVE WorkCounted'
  <2>1. local_work_' = [local_work_ EXCEPT ![p] = @ + 1]
    BY <1>6, WorkerAddWorkType DEF Visit
  <2>2. SameElsewhere(p)
    BY <1>6, <2>1 DEF TypeOK, SameElsewhere, Visit, NotDone, Sending, Waiting
  <2>3. Busy(p) = 0 /\ Busy(p)' = 1
    BY <1>6 DEF TypeOK, Visit, AtBlock, WorkerAt, Busy
  <2> QED
    BY <1>0, <1>6, <2>1, <2>2, <2>3, OnlyBusy DEF Visit, Running, TypeOK
<1>7. ASSUME NEW p \in Proc, NEW b \in Local(p), Skip(p, b) PROVE WorkCounted'
  <2>1. SameElsewhere(p)
    BY <1>7 DEF TypeOK, SameElsewhere, Skip, AfterBlock, NotDone, Sending, Waiting
  <2>2. Running(p)' => Running(p)
    BY <1>7 DEF TypeOK, Skip, AtBlock, AfterBlock, Running
  <2>3. /\ Busy(p)' = Busy(p)
        /\ UNCHANGED done /\ UNCHANGED loc /\ UNCHANGED inflight /\ UNCHANGED local_work_
    BY <1>7 DEF Skip, Busy
  <2> QED
    BY <2>1, <2>2, <2>3, NothingCounted
<1>8. ASSUME NEW p \in Proc, FillIncoming(p) PROVE WorkCounted'
  <2>1. /\ wpc[p] \in {"fill", "call"} /\ wpc'[p] = "call"
        /\ cur[p] \in Block /\ Owner[cur[p]] = p
    BY <1>8 DEF TypeOK, FillIncoming, WorkerAt, Structure, CallbackAtBlock, Local
  <2>2. PICK T \in Fronts(cur[p]) :
          /\ loc' = [m \in Msg |-> IF m \in T THEN "consumed" ELSE loc[m]]
          /\ IF T = {} THEN UNCHANGED counter
                       ELSE worker_add_work(p, -Cardinality(T))
    BY <1>8 DEF FillIncoming
  <2>3. IsFiniteSet(T) /\ Cardinality(T) \in Nat
    BY <2>1, FrontsWait
  <2>4. \A m \in T : m \in Msg /\ loc[m] = "incoming" /\ To[m] = cur[p]
    BY <2>1, FrontsWait DEF Incoming
  <2>5. local_work_' = [local_work_ EXCEPT ![p] = @ - Cardinality(T)]
    <3>1. CASE T = {}
      BY <2>2, <3>1, FS_EmptySet DEF TypeOK
    <3>2. CASE T # {}
      <4>1. local_work_' = [local_work_ EXCEPT ![p] = @ + (-Cardinality(T))]
        BY <2>2, <2>3, <3>2, WorkerAddWorkType
      <4> QED
        BY <2>3, <4>1 DEF TypeOK
    <3> QED
      BY <3>1, <3>2
  <2>6. SameElsewhere(p)
    BY <1>8, <2>1, <2>2, <2>4, <2>5 DEF TypeOK, SameElsewhere, FillIncoming, NotDone, Sending, Waiting
  <2>7. NotDone(p)' = NotDone(p) /\ Sending(p)' = Sending(p) /\ Busy(p) = 1 /\ Busy(p)' = 1
    BY <1>8, <2>1, <2>2, <2>4 DEF TypeOK, FillIncoming, NotDone, Sending, Busy
  <2>8. T \subseteq Waiting(p) /\ Waiting(p)' = Waiting(p) \ T
    BY <2>1, <2>2, <2>4 DEF TypeOK, Waiting
  <2>9. Cardinality(Waiting(p)') = Cardinality(Waiting(p)) - Cardinality(T)
    <3>1. Waiting(p) \cap T = T
      BY <2>8
    <3> QED
      BY <2>8, <3>1, Finite, FS_Difference
  <2>10. Units(p)' = Units(p) - Cardinality(T)
    BY <2>3, <2>7, <2>9, Finite DEF Units
  <2>11. Running(p)' => Running(p) /\ local_work_[p] = Units(p)
    BY <1>8 DEF FillIncoming, Running, WorkCounted
  <2> QED
    BY <2>5, <2>6, <2>10, <2>11, OnlyHere DEF TypeOK
<1>9. ASSUME NEW p \in Proc, NEW answer \in BOOLEAN, Callback(p, answer) PROVE WorkCounted'
  <2> DEFINE b == cur[p]
             w == IF answer = done[b] THEN 0 ELSE IF answer THEN -1 ELSE 1
  <2>1. /\ wpc[p] = "call" /\ wpc'[p] = "push"
        /\ b \in Block /\ Owner[b] = p /\ b \in Local(p)
    BY <1>9 DEF TypeOK, Callback, WorkerAt, Structure, CallbackAtBlock, Local
  <2>2. PICK S \in SUBSET {m \in Msg : From[m] = cur[p] /\ loc[m] = "unused"} :
          loc' = [m \in Msg |-> IF m \in S THEN "proxy" ELSE loc[m]]
    BY <1>9 DEF Callback
  <2>3. local_work_' = [local_work_ EXCEPT ![p] = @ + w]
    <3>1. CASE answer = done[b]
      BY <1>9, <3>1 DEF TypeOK, Callback
    <3>2. CASE answer # done[b]
      BY <1>9, <3>2, WorkerAddWorkType DEF Callback
    <3> QED
      BY <3>1, <3>2
  <2>4. done' = [done EXCEPT ![b] = answer]
    BY <1>9 DEF Callback
  <2>5. /\ \A q \in Proc : Sending(q)' = Sending(q) /\ Waiting(q)' = Waiting(q)
        /\ \A q \in Proc \ {p} : NotDone(q)' = NotDone(q)
    BY <1>9, <2>1, <2>2, <2>4 DEF TypeOK, Callback, Sending, Waiting, NotDone, Local
  <2>6. SameElsewhere(p)
    BY <1>9, <2>3, <2>5 DEF TypeOK, SameElsewhere, Callback
  <2>7. Cardinality(NotDone(p)') = Cardinality(NotDone(p)) + w
    <3>1. CASE answer = done[b]
      <4>1. NotDone(p)' = NotDone(p)
        BY <2>1, <2>4, <3>1 DEF TypeOK, NotDone, Local
      <4> QED
        BY <3>1, <4>1, Finite
    <3>2. CASE answer # done[b] /\ answer
      <4>1. b \in NotDone(p) /\ NotDone(p)' = NotDone(p) \ {b}
        BY <2>1, <2>4, <3>2, ZenonT(60) DEF TypeOK, NotDone, Local
      <4> QED
        <5>1. Cardinality(NotDone(p)') = Cardinality(NotDone(p)) - 1
          <6>1. IsFiniteSet(NotDone(p)) /\ Cardinality(NotDone(p)) \in Nat
            BY Finite
          <6> QED
            BY <4>1, <6>1, FS_RemoveElement
        <5>2. w = -1
          BY <3>2
        <5> QED
          BY <5>1, <5>2, Finite
    <3>3. CASE answer # done[b] /\ ~answer
      <4>1. b \notin NotDone(p) /\ NotDone(p)' = NotDone(p) \cup {b}
        BY <2>1, <2>4, <3>3, ZenonT(60) DEF TypeOK, NotDone, Local
      <4> QED
        <5>1. Cardinality(NotDone(p)') = Cardinality(NotDone(p)) + 1
          <6>1. IsFiniteSet(NotDone(p)) /\ Cardinality(NotDone(p)) \in Nat
            BY Finite
          <6> QED
            BY <4>1, <6>1, FS_AddElement
        <5>2. w = 1
          BY <3>3
        <5> QED
          BY <5>1, <5>2, Finite
    <3> QED
      BY <3>1, <3>2, <3>3
  <2>8. Busy(p) = 1 /\ Busy(p)' = 1
    BY <2>1 DEF Busy
  <2>9. Units(p)' = Units(p) + w
    BY <2>5, <2>7, <2>8, Finite DEF Units
  <2>10. Running(p)' => Running(p) /\ local_work_[p] = Units(p)
    BY <1>9 DEF Callback, Running, WorkCounted
  <2> QED
    BY <2>3, <2>6, <2>9, <2>10, OnlyHere DEF TypeOK
<1>10. ASSUME NEW p \in Proc, NEW m \in Msg, PushQueue(p, m) PROVE WorkCounted'
  <2>1. /\ wpc[p] = "push" /\ wpc'[p] = "count"
        /\ Owner[From[m]] = p /\ loc[m] = "proxy" /\ loc' = [loc EXCEPT ![m] = "outgoing"]
        /\ m \notin inflight[p]
    BY <1>10 DEF TypeOK, PushQueue, WorkerAt, Structure, QueuesInPlace
  <2>2. SameElsewhere(p)
    BY <1>10, <2>1 DEF TypeOK, SameElsewhere, PushQueue, NotDone, Sending, Waiting
  <2>3. /\ NotDone(p)' = NotDone(p) /\ Waiting(p)' = Waiting(p)
        /\ Busy(p) = 1 /\ Busy(p)' = 0 /\ local_work_'[p] = local_work_[p]
    BY <1>10, <2>1 DEF TypeOK, PushQueue, NotDone, Waiting, Busy
  <2>4. m \notin Sending(p) /\ Sending(p)' = Sending(p) \cup {m}
    BY <1>10, <2>1 DEF TypeOK, PushQueue, Sending
  <2>5. Cardinality(Sending(p)') = Cardinality(Sending(p)) + 1
    BY <2>4, Finite, FS_AddElement
  <2>6. Units(p)' = Units(p)
    BY <2>3, <2>5, Finite DEF Units
  <2>7. Running(p)' => Running(p) /\ local_work_[p] = Units(p)
    BY <1>10 DEF PushQueue, Running, WorkCounted
  <2> QED
    BY <2>2, <2>3, <2>6, <2>7, OnlyHere
<1>11. ASSUME NEW p \in Proc, CountQueue(p) PROVE WorkCounted'
  <2>1. local_work_' = [local_work_ EXCEPT ![p] = @ + 1]
    BY <1>11, WorkerAddWorkType DEF CountQueue
  <2>2. SameElsewhere(p)
    BY <1>11, <2>1 DEF TypeOK, SameElsewhere, CountQueue, NotDone, Sending, Waiting
  <2>3. Busy(p) = 0 /\ Busy(p)' = 1
    BY <1>11 DEF TypeOK, CountQueue, WorkerAt, Busy
  <2> QED
    BY <1>0, <1>11, <2>1, <2>2, <2>3, OnlyBusy DEF CountQueue, Running, TypeOK
<1>12. ASSUME NEW p \in Proc, EndCallback(p) PROVE WorkCounted'
  <2>1. local_work_' = [local_work_ EXCEPT ![p] = @ + (-1)]
    BY <1>12, WorkerAddWorkType DEF EndCallback
  <2>2. wpc[p] = "push" /\ mpc[p] # "init"
    BY <1>12 DEF EndCallback, WorkerAt, Structure, NotBegun
  <2>3. SameElsewhere(p)
    BY <1>12, <2>1 DEF TypeOK, SameElsewhere, EndCallback, AfterBlock, NotDone, Sending, Waiting
  <2>4. Busy(p) = 1 /\ Busy(p)' = 0
    BY <1>12, <2>2 DEF TypeOK, EndCallback, Busy
  <2>5. UNCHANGED <<done, loc, inflight>>
    BY <1>12 DEF EndCallback
  <2>6. Running(p)' => Running(p)
    BY <1>12, <2>2 DEF TypeOK, Structure, CallbackAtBlock, EndCallback, AfterBlock, Running
  <2> QED
    BY <1>0, <2>1, <2>3, <2>4, <2>5, <2>6, OnlyBusy DEF TypeOK
<1>13. ASSUME NEW p \in Proc, SetDirty(p) \/ EndPass(p) PROVE WorkCounted'
  <2>1. /\ UNCHANGED done /\ UNCHANGED loc /\ UNCHANGED inflight
        /\ UNCHANGED mpc /\ UNCHANGED local_work_
        /\ \A q \in Proc \ {p} : wpc'[q] = wpc[q]
        /\ Busy(p)' = Busy(p)
    BY <1>13 DEF TypeOK, SetDirty, EndPass, WorkerAt, Busy
  <2>2. SameElsewhere(p)
    BY <2>1 DEF SameElsewhere, NotDone, Sending, Waiting
  <2>3. Running(p)' => Running(p)
    BY <2>1 DEF Running
  <2> QED
    BY <2>1, <2>2, <2>3, NothingCounted
<1>14. ASSUME NEW p \in Proc, Control(p) PROVE WorkCounted'
  <2>1. CASE Leave(p)
    <3>1. SameElsewhere(p)
      BY <2>1 DEF TypeOK, SameElsewhere, Leave, NotDone, Sending, Waiting
    <3>2. ~Running(p)'
      BY <2>1 DEF TypeOK, Leave, Running
    <3> QED
      BY <3>1, <3>2, OnlyHere
  <2>2. CASE ~Leave(p)
    <3>1. /\ mpc[p] \in {"control", "enter"}
          /\ \A q \in Proc \ {p} : mpc'[q] = mpc[q]
      BY <1>14, <2>2 DEF TypeOK, Control, SeeNoWork, EnterBarrier, TestBarrier, TestReduce,
                         ControlNothing, AfterControl
    <3>2. /\ UNCHANGED wpc /\ UNCHANGED done /\ UNCHANGED loc /\ UNCHANGED inflight
          /\ UNCHANGED local_work_
      BY <1>14, <2>2 DEF Control, SeeNoWork, EnterBarrier, TestBarrier, TestReduce, ControlNothing
    <3>3. SameElsewhere(p)
      BY <3>1, <3>2 DEF SameElsewhere, NotDone, Sending, Waiting
    <3>4. Busy(p)' = Busy(p) /\ (Running(p)' => Running(p))
      BY <3>1, <3>2 DEF Busy, Running
    <3> QED
      BY <3>2, <3>3, <3>4, NothingCounted
  <2> QED
    BY <2>1, <2>2
<1> QED
  BY <1>1, <1>2, <1>3, <1>4, <1>5, <1>6, <1>7, <1>8, <1>9, <1>10, <1>11, <1>12,
     <1>13, <1>14 DEF Next, Progress, Callbacks, Finished

-----------------------------------------------------------------------------
(***************************************************************************)
(* One thread: control() never sees a callback half way, and a rank that   *)
(* has work has dirty set.                                                 *)
(***************************************************************************)
LEMMA SingleAdd ==
  ASSUME ~Threaded, NEW p, NEW w, worker_add_work(p, w)
  PROVE  add_work(p, w)
  BY DEF worker_add_work

\* Adding work to p keeps "work implies dirty" on every rank.
WorkIsDirty == \A q \in Proc : local_work_[q] > 0 => dirty[q] = 1

LEMMA AddKeepsDirty ==
  ASSUME TypeOK, WorkIsDirty, NEW p \in Proc, NEW w \in Int, add_work(p, w)
  PROVE  /\ WorkIsDirty'
         /\ \A q \in Proc : dirty[q] = 1 => dirty'[q] = 1
  BY DEF TypeOK, WorkIsDirty, add_work

\* What a step of the callback loop or of progress does to the counter.
LEMMA DirtyStep ==
  ASSUME ~Threaded, TypeOK, Structure, WorkIsDirty,
         NEW p \in Proc, Progress(p) \/ Callbacks(p)
  PROVE  /\ WorkIsDirty'
         /\ \A q \in Proc : dirty[q] = 1 => dirty'[q] = 1
<1> DEFINE Goal == WorkIsDirty' /\ \A q \in Proc : dirty[q] = 1 => dirty'[q] = 1
<1> USE DEF main, loop, queues, counter, detector
<1>1. ASSUME UNCHANGED local_work_, UNCHANGED dirty PROVE Goal
  BY <1>1 DEF WorkIsDirty
<1>2. ASSUME NEW w \in Int, add_work(p, w) PROVE Goal
  BY <1>2, AddKeepsDirty
<1>3. CASE Start(p)
  BY <1>2, <1>3, Finite DEF Start
<1>4. CASE \E m \in Msg : SendQueue(p, m)
  BY <1>1, <1>4 DEF SendQueue
<1>5. CASE \E m \in Msg : Receive(p, m)
  BY <1>2, <1>5 DEF Receive, ReceiveTo
<1>6. CASE \E m \in Msg : Nudge(p, m)
  BY <1>2, <1>6 DEF Nudge
<1>7. CASE SendDone(p) \/ NudgeDone(p) \/ CheckDone(p)
  BY <1>1, <1>7 DEF SendDone, NudgeDone, CheckDone
<1>8. CASE \E b \in Local(p) : Visit(p, b)
  BY <1>2, <1>8, SingleAdd DEF Visit
<1>9. CASE \E b \in Local(p) : Skip(p, b)
  BY <1>1, <1>9 DEF Skip
<1>10. CASE FillIncoming(p)
  <2>1. cur[p] \in Block
    BY <1>10 DEF FillIncoming, WorkerAt, Structure, CallbackAtBlock, Local
  <2>2. PICK T \in Fronts(cur[p]) :
          IF T = {} THEN UNCHANGED counter ELSE worker_add_work(p, -Cardinality(T))
    BY <1>10 DEF FillIncoming
  <2>3. -Cardinality(T) \in Int
    BY <2>1, FrontsWait
  <2>4. CASE T = {}
    BY <1>1, <2>2, <2>4
  <2>5. CASE T # {}
    BY <1>2, <2>2, <2>3, <2>5, SingleAdd
  <2> QED
    BY <2>4, <2>5
<1>11. ASSUME NEW answer \in BOOLEAN, Callback(p, answer) PROVE Goal
  <2>1. CASE answer = done[cur[p]]
    BY <1>1, <1>11, <2>1 DEF Callback
  <2>2. CASE answer # done[cur[p]]
    <3>1. \E w \in Int : worker_add_work(p, w)
      BY <1>11, <2>2 DEF Callback
    <3> QED
      BY <1>2, <3>1, SingleAdd
  <2> QED
    BY <2>1, <2>2
<1>12. CASE \E m \in Msg : PushQueue(p, m)
  BY <1>1, <1>12 DEF PushQueue
<1>13. CASE CountQueue(p)
  BY <1>2, <1>13, SingleAdd DEF CountQueue
<1>14. CASE EndCallback(p)
  BY <1>2, <1>14, SingleAdd DEF EndCallback
<1>15. CASE SetDirty(p)
  BY <1>15 DEF SetDirty, WorkIsDirty, TypeOK
<1>16. CASE EndPass(p)
  BY <1>16 DEF EndPass
<1> QED
  BY <1>3, <1>4, <1>5, <1>6, <1>7, <1>8, <1>9, <1>10, <1>11, <1>12, <1>13, <1>14,
     <1>15, <1>16 DEF Progress, Poll, Callbacks

\* Progress and callbacks leave the detector alone, and do not lead to the
\* places of the main loop that control() decides about.
LEMMA NoControl ==
  ASSUME TypeOK, Structure, NEW p \in Proc, Progress(p) \/ Callbacks(p)
  PROVE  /\ UNCHANGED <<state, r, local_dirty, all_dirty>>
         /\ mpc'[p] = mpc[p] \/ mpc'[p] \notin {"init", "enter", "join", "left"}
         /\ mpc'[p] = mpc[p] \/ mpc[p] \notin {"enter", "join", "left"}
         /\ \A q \in Proc \ {p} : mpc'[q] = mpc[q]
<1> USE DEF main, loop, queues, counter, detector
<1> DEFINE Goal == /\ UNCHANGED <<state, r, local_dirty, all_dirty>>
                   /\ mpc'[p] = mpc[p] \/ mpc'[p] \notin {"init", "enter", "join", "left"}
                   /\ mpc'[p] = mpc[p] \/ mpc[p] \notin {"enter", "join", "left"}
                   /\ \A q \in Proc \ {p} : mpc'[q] = mpc[q]
<1>1. CASE Start(p)
  BY <1>1 DEF TypeOK, Start, FirstStep
<1>2. CASE \E m \in Msg : SendQueue(p, m) \/ Receive(p, m) \/ Nudge(p, m)
  BY <1>2 DEF SendQueue, Receive, ReceiveTo, Nudge
<1>3. CASE SendDone(p) \/ NudgeDone(p)
  BY <1>3 DEF TypeOK, SendDone, NudgeDone
<1>4. CASE CheckDone(p)
  BY <1>4 DEF TypeOK, CheckDone
<1>5. ASSUME NEW b, Visit(p, b) PROVE Goal
  BY <1>5 DEF Visit
<1>6. ASSUME NEW b, Skip(p, b) PROVE Goal
  BY <1>6 DEF TypeOK, Skip, AtBlock, AfterBlock
<1>7. CASE EndCallback(p)
  <2>1. Threaded \/ mpc[p] = "callback"
    BY <1>7 DEF EndCallback, WorkerAt, Structure, CallbackAtBlock
  <2> QED
    BY <1>7, <2>1 DEF TypeOK, EndCallback, AfterBlock
<1>8. CASE FillIncoming(p) \/ (\E answer \in BOOLEAN : Callback(p, answer))
  BY <1>8 DEF FillIncoming, Callback
<1>9. CASE (\E m \in Msg : PushQueue(p, m)) \/ CountQueue(p) \/ SetDirty(p) \/ EndPass(p)
  BY <1>9 DEF PushQueue, CountQueue, SetDirty, EndPass
<1> QED
  BY <1>1, <1>2, <1>3, <1>4, <1>5, <1>6, <1>7, <1>8, <1>9 DEF Progress, Poll, Callbacks

(***************************************************************************)
(* The collectives: the ranks go through barrier and all-reduce together,  *)
(* and either all of them decide to return or none does.                   *)
(***************************************************************************)
LEMMA StagesStep == TypeOK /\ Structure /\ Stages /\ [Next]_vars => Stages'
<1> SUFFICES ASSUME TypeOK, Structure, Stages, [Next]_vars PROVE Stages'
  OBVIOUS
<1> USE DEF main, loop, queues, counter, detector
<1>1. CASE UNCHANGED vars
  BY <1>1 DEF vars, Stages, Reducing, Decided
<1>2. ASSUME NEW p \in Proc, Progress(p) \/ Callbacks(p) PROVE Stages'
  <2>1. UNCHANGED <<state, r, local_dirty, all_dirty>>
    BY <1>2, NoControl
  <2>2. /\ Reducing' <=> Reducing
        /\ \A q \in Proc : Decided(q)' <=> Decided(q)
    BY <2>1 DEF Reducing, Decided
  <2>3. \A q \in Proc : /\ mpc'[q] = "enter" => mpc[q] = "enter"
                        /\ mpc'[q] \in {"join", "left"} <=> mpc[q] \in {"join", "left"}
    BY <1>2, NoControl
  <2> QED
    BY <2>1, <2>2, <2>3 DEF Stages
<1>3. ASSUME NEW p \in Proc, Control(p) PROVE Stages'
  <2>1. CASE SeeNoWork(p)
    BY <2>1 DEF TypeOK, SeeNoWork, Stages, Reducing, Decided
  <2>2. CASE EnterBarrier(p)
    <3>1. /\ state[p] = 0 /\ ~Reducing /\ \A q \in Proc : ~Decided(q)
          /\ \A q \in Proc : state[q] = 2 => r[q] = "done"
      BY <2>2 DEF TypeOK, EnterBarrier, Stages, Decided
    <3>2. /\ state' = [state EXCEPT ![p] = 1]
          /\ mpc'[p] \in {"send", "control"} /\ \A q \in Proc \ {p} : mpc'[q] = mpc[q]
          /\ UNCHANGED all_dirty
      BY <2>2 DEF TypeOK, EnterBarrier, AfterControl, FirstStep
    <3>3. CASE OthersWait(p, 1)
      <4>1. \A q \in Proc : state'[q] = 1 /\ r'[q] = "done"
        BY <2>2, <3>2, <3>3 DEF TypeOK, EnterBarrier, OthersWait
      <4>2. \A q \in Proc : mpc'[q] \notin {"enter", "join", "left"}
        BY <3>2, <3>3 DEF OthersWait, Stages
      <4> QED
        BY <4>1, <4>2 DEF Stages, Reducing, Decided
    <3>4. CASE ~OthersWait(p, 1)
      <4>1. r' = [r EXCEPT ![p] = "pending"]
        BY <2>2, <3>4 DEF EnterBarrier
      <4>2. ~Reducing' /\ \A q \in Proc : ~Decided(q)'
        BY <3>1, <3>2, <4>1 DEF TypeOK, Reducing, Decided
      <4> QED
        BY <3>1, <3>2, <4>1, <4>2 DEF TypeOK, Stages
    <3> QED
      BY <3>3, <3>4
  <2>3. CASE TestBarrier(p)
    <3>1. Reducing /\ state[p] = 1 /\ r[p] = "done" /\ \A q \in Proc : ~Decided(q)
      BY <2>3 DEF TestBarrier, Reducing, Stages, Decided
    <3>2. /\ state' = [state EXCEPT ![p] = 2]
          /\ mpc'[p] \in {"send", "control"} /\ \A q \in Proc \ {p} : mpc'[q] = mpc[q]
      BY <2>3 DEF TypeOK, TestBarrier, AfterControl, FirstStep
    <3>3. CASE OthersWait(p, 2)
      <4>1. \A q \in Proc : state'[q] = 2 /\ r'[q] = "done"
        BY <2>3, <3>2, <3>3 DEF TypeOK, TestBarrier, OthersWait
      <4>2. \A q, x \in Proc : all_dirty'[q] = all_dirty'[x]
        BY <2>3, <3>3 DEF TestBarrier
      <4>3. \A q \in Proc : mpc'[q] \notin {"enter", "join", "left"}
        BY <3>2, <3>3 DEF OthersWait, Stages
      <4> QED
        BY <4>1, <4>2, <4>3 DEF Stages, Reducing, Decided
    <3>4. CASE ~OthersWait(p, 2)
      <4>1. r' = [r EXCEPT ![p] = "pending"] /\ UNCHANGED all_dirty
        BY <2>3, <3>4 DEF TestBarrier
      <4>2. PICK q \in Proc \ {p} : state[q] = 1 /\ r[q] = "done"
        BY <3>1, <3>4 DEF OthersWait, Stages
      <4>3. Reducing' /\ \A x \in Proc : ~Decided(x)'
        BY <3>1, <3>2, <4>1, <4>2 DEF TypeOK, Reducing, Decided
      <4> QED
        BY <3>1, <3>2, <4>1, <4>3 DEF TypeOK, Stages
    <3> QED
      BY <3>3, <3>4
  <2>4. CASE TestReduce(p)
    <3>1. /\ ~Reducing /\ state[p] = 2 /\ r[p] = "done" /\ mpc[p] = "control"
          /\ \A q \in Proc : state[q] = 2 => r[q] = "done"
      BY <2>4 DEF TypeOK, TestReduce, Stages
    <3>2. r' = [r EXCEPT ![p] = "null"] /\ UNCHANGED all_dirty
      BY <2>4 DEF TestReduce
    <3>3. CASE all_dirty[p] = 0
      <4>1. state' = [state EXCEPT ![p] = 3] /\ mpc' = [mpc EXCEPT ![p] = "join"]
        BY <2>4, <3>3 DEF TestReduce, AfterControl
      <4>2. ~Reducing'
        BY <3>1, <3>2, <4>1 DEF TypeOK, Reducing
      <4>3. \A q \in Proc : Decided(q)
        BY <3>1, <3>3 DEF Stages, Decided
      <4>4. \A q \in Proc : Decided(q)'
        BY <3>2, <4>1, <4>3 DEF TypeOK, Decided
      <4> QED
        BY <3>1, <3>2, <4>1, <4>2, <4>4 DEF TypeOK, Stages
    <3>4. CASE all_dirty[p] # 0
      <4>1. /\ state' = [state EXCEPT ![p] = 0]
            /\ mpc'[p] \in {"send", "control"} /\ \A q \in Proc \ {p} : mpc'[q] = mpc[q]
        BY <2>4, <3>4 DEF TypeOK, TestReduce, AfterControl, FirstStep
      <4>2. ~Reducing'
        BY <3>1, <3>2, <4>1 DEF TypeOK, Reducing
      <4>3. \A q \in Proc : ~Decided(q)
        BY <3>1, <3>4 DEF Stages, Decided
      <4>4. \A q \in Proc : ~Decided(q)'
        BY <3>2, <4>1, <4>3 DEF TypeOK, Decided
      <4> QED
        BY <3>1, <3>2, <4>1, <4>2, <4>4 DEF TypeOK, Stages
    <3> QED
      BY <3>3, <3>4
  <2>5. CASE ControlNothing(p)
    <3>1. /\ UNCHANGED state /\ UNCHANGED r /\ UNCHANGED all_dirty
          /\ \A q \in Proc \ {p} : mpc'[q] = mpc[q]
      BY <2>5 DEF TypeOK, ControlNothing, AfterControl
    <3>2. state[p] # 3 /\ mpc'[p] \in {"send", "control"}
      BY <2>5 DEF TypeOK, ControlNothing, AfterControl, FirstStep, Stages
    <3> QED
      BY <3>1, <3>2 DEF Stages, Reducing, Decided
  <2>6. CASE Leave(p)
    <3>1. /\ mpc[p] = "join" /\ mpc' = [mpc EXCEPT ![p] = "left"]
          /\ UNCHANGED state /\ UNCHANGED r /\ UNCHANGED all_dirty
      BY <2>6 DEF Leave
    <3> QED
      BY <3>1 DEF TypeOK, Stages, Reducing, Decided
  <2> QED
    BY <1>3, <2>1, <2>2, <2>3, <2>4, <2>5, <2>6 DEF Control
<1> QED
  BY <1>1, <1>2, <1>3 DEF Next, Finished

-----------------------------------------------------------------------------
\* A step changes only its own rank's counter, and not while the rank is
\* entering the barrier.
LEMMA EnterKeepsWork ==
  ASSUME ~Threaded, TypeOK, Structure, NEW p \in Proc, Progress(p) \/ Callbacks(p),
         NEW q \in Proc, mpc[q] = "enter"
  PROVE  local_work_'[q] = local_work_[q]
<1> USE DEF main, loop, queues, counter, detector
<1> DEFINE Goal == local_work_'[q] = local_work_[q]
<1>1. ASSUME NEW w, add_work(p, w), mpc[p] # "enter" PROVE Goal
  BY <1>1 DEF TypeOK, add_work
<1>2. ASSUME NEW w, worker_add_work(p, w), wpc[p] \notin {"off", "idle"} PROVE Goal
  BY <1>1, <1>2, SingleAdd DEF Structure, CallbackAtBlock
<1>3. CASE Start(p)
  BY <1>1, <1>3 DEF Start
<1>4. CASE \E m \in Msg : Receive(p, m) \/ Nudge(p, m)
  BY <1>1, <1>4 DEF Receive, ReceiveTo, Nudge
<1>5. CASE (\E m \in Msg : SendQueue(p, m)) \/ SendDone(p) \/ NudgeDone(p) \/ CheckDone(p)
  BY <1>5 DEF SendQueue, SendDone, NudgeDone, CheckDone
<1>6. CASE \E b \in Local(p) : Visit(p, b)
  BY <1>1, <1>6, SingleAdd DEF Visit, AtBlock
<1>7. CASE \E b \in Local(p) : Skip(p, b)
  BY <1>7 DEF Skip
<1>8. CASE FillIncoming(p)
  BY <1>2, <1>8 DEF FillIncoming, WorkerAt
<1>9. ASSUME NEW answer \in BOOLEAN, Callback(p, answer) PROVE Goal
  BY <1>2, <1>9 DEF Callback, WorkerAt
<1>10. CASE (\E m \in Msg : PushQueue(p, m)) \/ SetDirty(p) \/ EndPass(p)
  BY <1>10 DEF PushQueue, SetDirty, EndPass
<1>11. CASE CountQueue(p)
  BY <1>2, <1>11 DEF CountQueue, WorkerAt
<1>12. CASE EndCallback(p)
  BY <1>2, <1>12 DEF EndCallback, WorkerAt
<1> QED
  BY <1>3, <1>4, <1>5, <1>6, <1>7, <1>8, <1>9, <1>10, <1>11, <1>12
     DEF Progress, Poll, Callbacks

\* A rank that has appended a queue still has it to send until it is counted.
LEMMA AppendedIsSending ==
  ASSUME ~Threaded, TypeOK, Structure, Next,
         \A x \in Proc : wpc[x] = "count" => Sending(x) # {},
         NEW q \in Proc, wpc'[q] = "count"
  PROVE  Sending(q)' # {}
<1> USE DEF main, loop, queues, counter, detector
<1>1. CASE wpc[q] = "count"
  <2>1. mpc[q] = "callback"
    BY <1>1 DEF Structure, CallbackAtBlock
  <2>2. PICK m \in Sending(q) : TRUE
    BY <1>1
  <2>3. m \in Msg /\ (m \in inflight[q] \/ (loc[m] = "outgoing" /\ Owner[From[m]] = q))
    BY <2>2 DEF Sending, TypeOK
  <2>4. SUFFICES m \in inflight'[q] \/ (loc'[m] = "outgoing" /\ Owner[From[m]] = q)
    BY <2>3 DEF Sending
  <2>5. CASE Finished
    BY <2>3, <2>5 DEF Finished, vars
  <2>6. ASSUME NEW p \in Proc, Progress(p)
        PROVE  m \in inflight'[q] \/ (loc'[m] = "outgoing" /\ Owner[From[m]] = q)
    BY <2>1, <2>3, <2>6 DEF TypeOK, Progress, Poll, Start, SendQueue, SendDone, Nudge,
                            NudgeDone, Receive, ReceiveTo, CheckDone
  <2>7. ASSUME NEW p \in Proc, Callbacks(p)
        PROVE  m \in inflight'[q] \/ (loc'[m] = "outgoing" /\ Owner[From[m]] = q)
    <3>1. CASE FillIncoming(p)
      <4>1. cur[p] \in Block
        BY <3>1 DEF FillIncoming, WorkerAt, Structure, CallbackAtBlock, Local
      <4>2. PICK T \in Fronts(cur[p]) :
              loc' = [x \in Msg |-> IF x \in T THEN "consumed" ELSE loc[x]]
        BY <3>1 DEF FillIncoming
      <4>3. UNCHANGED inflight /\ (loc[m] = "outgoing" => m \notin T)
        BY <3>1, <4>1, <4>2, FrontsWait DEF FillIncoming, Incoming
      <4> QED
        BY <2>3, <4>2, <4>3
    <3>2. ASSUME NEW answer \in BOOLEAN, Callback(p, answer)
          PROVE  m \in inflight'[q] \/ (loc'[m] = "outgoing" /\ Owner[From[m]] = q)
      BY <2>3, <3>2 DEF Callback
    <3>3. CASE \E x \in Msg : PushQueue(p, x)
      BY <2>3, <3>3 DEF TypeOK, PushQueue
    <3>4. CASE \/ \E b \in Local(p) : Visit(p, b) \/ Skip(p, b)
               \/ CountQueue(p) \/ EndCallback(p) \/ SetDirty(p) \/ EndPass(p)
      BY <2>3, <3>4 DEF Visit, Skip, CountQueue, EndCallback, SetDirty, EndPass
    <3> QED
      BY <2>7, <3>1, <3>2, <3>3, <3>4 DEF Callbacks
  <2>8. ASSUME NEW p \in Proc, Control(p)
        PROVE  m \in inflight'[q] \/ (loc'[m] = "outgoing" /\ Owner[From[m]] = q)
    <3>1. CASE Leave(p)
      BY <2>1, <2>3, <3>1 DEF Leave
    <3>2. CASE ~Leave(p)
      BY <2>3, <2>8, <3>2 DEF Control, SeeNoWork, EnterBarrier, TestBarrier, TestReduce,
                              ControlNothing
    <3> QED
      BY <3>1, <3>2
  <2> QED
    BY <2>5, <2>6, <2>7, <2>8 DEF Next
<1>2. CASE wpc[q] # "count"
  <2>1. PICK p \in Proc : Progress(p) \/ Callbacks(p) \/ Control(p)
    BY <1>2 DEF Next, Finished, vars
  <2>2. ~Progress(p)
    BY <1>2 DEF TypeOK, Progress, Poll, Start, SendQueue, SendDone, Nudge, NudgeDone, Receive,
                ReceiveTo, CheckDone
  <2>3. ~Control(p)
    BY <1>2 DEF Control, SeeNoWork, EnterBarrier, TestBarrier, TestReduce, ControlNothing, Leave
  <2>4. PICK m \in Msg : PushQueue(p, m)
    <3>1. ~(\E b \in Local(p) : Visit(p, b) \/ Skip(p, b))
      BY <1>2 DEF TypeOK, Visit, Skip
    <3>2. ~FillIncoming(p)
      BY <1>2 DEF TypeOK, FillIncoming
    <3>3. ~(\E answer \in BOOLEAN : Callback(p, answer))
      BY <1>2 DEF TypeOK, Callback
    <3>4. ~(CountQueue(p) \/ EndCallback(p) \/ SetDirty(p) \/ EndPass(p))
      BY <1>2 DEF TypeOK, CountQueue, EndCallback, SetDirty, EndPass
    <3> QED
      BY <2>1, <2>2, <2>3, <3>1, <3>2, <3>3, <3>4 DEF Callbacks
  <2>5. p = q
    BY <1>2, <2>4 DEF TypeOK, PushQueue
  <2>6. loc'[m] = "outgoing" /\ Owner[From[m]] = q
    BY <2>4, <2>5 DEF TypeOK, PushQueue, Structure, QueuesInPlace
  <2> QED
    BY <2>6 DEF Sending
<1> QED
  BY <1>1, <1>2

LEMMA OneThreadStep ==
  ~Threaded /\ TypeOK /\ Structure /\ OneThread /\ [Next]_vars => OneThread'
<1> SUFFICES ASSUME ~Threaded, TypeOK, Structure, OneThread, [Next]_vars PROVE OneThread'
  OBVIOUS
<1> USE DEF main, loop, queues, counter, detector
<1>1. CASE UNCHANGED vars
  BY <1>1 DEF vars, OneThread, Sending
<1>2. CASE Next
  <2>1. \A q \in Proc : wpc'[q] = "count" => Sending(q)' # {}
    BY <1>2, AppendedIsSending DEF OneThread
  <2>2. WorkIsDirty
    BY DEF OneThread, WorkIsDirty
  <2>3. ASSUME NEW p \in Proc, Progress(p) \/ Callbacks(p) PROVE OneThread'
    <3>1. WorkIsDirty'
      BY <2>2, <2>3, DirtyStep
    <3>2. ASSUME NEW q \in Proc, mpc'[q] = "enter" PROVE local_work_'[q] = 0
      <4>1. mpc[q] = "enter"
        BY <2>3, <3>2, NoControl
      <4> QED
        BY <2>3, <4>1, EnterKeepsWork DEF OneThread
    <3> QED
      BY <2>1, <3>1, <3>2 DEF OneThread, WorkIsDirty
  <2>4. ASSUME NEW p \in Proc, Control(p) PROVE OneThread'
    <3>1. UNCHANGED local_work_
      BY <2>4 DEF Control, SeeNoWork, EnterBarrier, TestBarrier, TestReduce, ControlNothing, Leave
    <3>2. WorkIsDirty'
      <4>1. CASE EnterBarrier(p)
        BY <2>2, <3>1, <4>1 DEF TypeOK, EnterBarrier, WorkIsDirty, OneThread
      <4>2. CASE ~EnterBarrier(p)
        <5>1. UNCHANGED dirty
          BY <2>4, <4>2 DEF Control, SeeNoWork, TestBarrier, TestReduce, ControlNothing, Leave
        <5> QED
          BY <2>2, <3>1, <5>1 DEF WorkIsDirty
      <4> QED
        BY <4>1, <4>2
    <3>3. ASSUME NEW q \in Proc, mpc'[q] = "enter" PROVE local_work_'[q] = 0
      <4>1. CASE SeeNoWork(p)
        BY <3>1, <3>3, <4>1 DEF TypeOK, SeeNoWork, OneThread
      <4>2. CASE ~SeeNoWork(p)
        <5>1. mpc[q] = "enter"
          BY <2>4, <3>3, <4>2 DEF TypeOK, Control, EnterBarrier, TestBarrier, TestReduce,
                                  ControlNothing, Leave, AfterControl, FirstStep
        <5> QED
          BY <3>1, <5>1 DEF OneThread
      <4> QED
        BY <4>1, <4>2
    <3> QED
      BY <2>1, <3>2, <3>3 DEF OneThread, WorkIsDirty
  <2>5. CASE Finished
    BY <1>1, <2>5 DEF Finished
  <2> QED
    BY <1>2, <2>3, <2>4, <2>5 DEF Next
<1> QED
  BY <1>1, <1>2

-----------------------------------------------------------------------------
(***************************************************************************)
(* The detector's conclusion.  A rank whose counter is not positive has no *)
(* work, and when no rank has any there is none on the way between them    *)
(* and none can appear.                                                    *)
(***************************************************************************)
Quiet(q) == /\ NotDone(q) = {} /\ Sending(q) = {} /\ Waiting(q) = {}
            /\ wpc[q] \in {"off", "idle"}

LEMMA QuietRank ==
  ASSUME ~Threaded, TypeOK, OneThread, WorkCounted, NEW q \in Proc, Running(q),
         local_work_[q] <= 0
  PROVE  Quiet(q)
<1>1. /\ Cardinality(NotDone(q)) \in Nat
      /\ Cardinality(Sending(q)) \in Nat
      /\ Cardinality(Waiting(q)) \in Nat
  BY Finite
<1>2. Cardinality(Sending(q)) = 0 => Sending(q) = {}
  BY Finite, FS_EmptySet
<1>3. Cardinality(NotDone(q)) + Cardinality(Sending(q)) + Cardinality(Waiting(q)) + Busy(q) <= 0
  BY DEF WorkCounted, Units
<1>4. Busy(q) \in {0, 1}
  BY DEF Busy
<1>5. /\ Busy(q) = 0
      /\ Cardinality(NotDone(q)) = 0
      /\ Cardinality(Sending(q)) = 0
      /\ Cardinality(Waiting(q)) = 0
  BY <1>1, <1>3, <1>4
<1>6. NotDone(q) = {} /\ Waiting(q) = {}
  BY <1>5, Finite, FS_EmptySet
<1>7. wpc[q] \notin {"fill", "call", "push"} /\ wpc[q] # "count"
  BY <1>2, <1>5 DEF Busy, OneThread
<1> QED
  BY <1>2, <1>5, <1>6, <1>7 DEF Quiet, TypeOK

LEMMA AllQuiet ==
  ASSUME TypeOK, Structure, \A q \in Proc : Quiet(q)
  PROVE  NoWork
<1>1. \A b \in Block : done[b]
  <2> SUFFICES ASSUME NEW b \in Block, ~done[b] PROVE FALSE
    OBVIOUS
  <2>1. Owner[b] \in Proc /\ b \in NotDone(Owner[b])
    BY ShapeAssumption DEF NotDone, Local
  <2> QED
    BY <2>1 DEF Quiet
<1>2. ASSUME NEW m \in Msg PROVE loc[m] \notin {"proxy", "outgoing", "mpi", "incoming"}
  <2>1. Owner[From[m]] \in Proc /\ Owner[To[m]] \in Proc
    BY ShapeAssumption
  <2>2. /\ Sending(Owner[From[m]]) = {}
        /\ Waiting(Owner[To[m]]) = {}
        /\ wpc[Owner[From[m]]] \in {"off", "idle"}
    BY <2>1 DEF Quiet
  <2>3. m \notin inflight[Owner[From[m]]] /\ loc[m] # "outgoing"
    BY <2>2 DEF Sending
  <2>4. loc[m] # "incoming"
    BY <2>2 DEF Waiting
  <2>5. m \notin pend[Owner[From[m]]]
    BY <2>1, <2>2 DEF Structure, CallbackAtBlock
  <2> QED
    BY <2>3, <2>4, <2>5 DEF Structure, QueuesInPlace
<1> QED
  BY <1>1, <1>2 DEF NoWork, Quiet

\* Where there is no work, none appears.
LEMMA NoWorkStays ==
  ASSUME TypeOK, Structure, NoWork, [Next]_vars
  PROVE  NoWork'
<1> USE DEF main, loop, queues, counter, detector
<1>1. CASE UNCHANGED vars
  BY <1>1 DEF vars, NoWork
<1>2. ASSUME NEW p \in Proc, Progress(p) PROVE NoWork'
  BY <1>2 DEF TypeOK, NoWork, Progress, Poll, Start, SendQueue, SendDone, Nudge, NudgeDone,
              Receive, ReceiveTo, CheckDone
<1>3. ASSUME NEW p \in Proc, Callbacks(p) PROVE NoWork'
  <2>1. /\ \A b \in Local(p) : ~Visit(p, b)
        /\ ~FillIncoming(p)
        /\ \A answer \in BOOLEAN : ~Callback(p, answer)
        /\ \A m \in Msg : ~PushQueue(p, m)
    BY DEF NoWork, Structure, QueuesInPlace, Visit, FillIncoming, Callback, PushQueue, WorkerAt,
           Incoming, Local
  <2>2. \/ \E b \in Local(p) : Skip(p, b)
        \/ CountQueue(p) \/ EndCallback(p) \/ SetDirty(p) \/ EndPass(p)
    BY <1>3, <2>1 DEF Callbacks
  <2>3. UNCHANGED done /\ UNCHANGED loc
    BY <2>2 DEF Skip, CountQueue, EndCallback, SetDirty, EndPass
  <2>4. \A q \in Proc : wpc'[q] = wpc[q] \/ wpc'[q] \in {"off", "idle", "push"}
    BY <2>2 DEF TypeOK, Skip, CountQueue, EndCallback, SetDirty, EndPass
  <2> QED
    BY <2>3, <2>4 DEF NoWork
<1>4. ASSUME NEW p \in Proc, Control(p) PROVE NoWork'
  <2>1. UNCHANGED done /\ UNCHANGED wpc
    BY <1>4 DEF Control, SeeNoWork, EnterBarrier, TestBarrier, TestReduce, ControlNothing, Leave
  <2>2. UNCHANGED loc
    BY <1>4 DEF TypeOK, NoWork, Control, SeeNoWork, EnterBarrier, TestBarrier, TestReduce,
                ControlNothing, Leave
  <2> QED
    BY <2>1, <2>2 DEF NoWork
<1> QED
  BY <1>1, <1>2, <1>3, <1>4 DEF Next, Finished

LEMMA DrainedStays ==
  ASSUME TypeOK, Structure, Drained, [Next]_vars
  PROVE  Drained'
<1> USE DEF main, loop, queues, counter, detector
<1>1. NoWork'
  BY NoWorkStays DEF Drained
<1>2. CASE UNCHANGED vars
  BY <1>1, <1>2 DEF vars, Drained
<1>3. ASSUME NEW p \in Proc, Progress(p) PROVE Drained'
  BY <1>1, <1>3 DEF TypeOK, NoWork, Drained, Progress, Poll, Start, SendQueue, SendDone, Nudge, NudgeDone,
                    Receive, ReceiveTo, CheckDone
<1>4. ASSUME NEW p \in Proc, Callbacks(p) PROVE Drained'
  <2>1. UNCHANGED inflight
    BY <1>4 DEF Callbacks, Visit, Skip, FillIncoming, Callback, PushQueue, CountQueue, EndCallback, SetDirty, EndPass
  <2> QED
    BY <1>1, <2>1 DEF Drained
<1>5. ASSUME NEW p \in Proc, Control(p) PROVE Drained'
  <2>1. UNCHANGED inflight
    BY <1>5 DEF Control, SeeNoWork, EnterBarrier, TestBarrier, TestReduce, ControlNothing, Leave
  <2> QED
    BY <1>1, <2>1 DEF Drained
<1> QED
  BY <1>2, <1>3, <1>4, <1>5 DEF Next, Finished

\* When the last rank enters the barrier, a rank has seen work since it entered
\* or there is no work anywhere.
LEMMA BarrierCompletes ==
  ASSUME ~Threaded, TypeOK, Structure, WorkCounted, OneThread, Stages,
         NEW p \in Proc, EnterBarrier(p), OthersWait(p, 1),
         \A q \in Proc \ {p} : dirty[q] # 1
  PROVE  Drained
<1>1. mpc[p] = "enter" /\ local_work_[p] = 0
  BY DEF EnterBarrier, OneThread
<1>2. Quiet(p)
  BY <1>1, QuietRank DEF Running
<1>3. ASSUME NEW q \in Proc \ {p} PROVE Quiet(q)
  <2>1. state[q] = 1
    BY DEF OthersWait
  <2>2. Running(q)
    BY <2>1 DEF Running, Stages, Structure, NotBegun
  <2>3. local_work_[q] <= 0
    BY DEF OneThread, TypeOK
  <2> QED
    BY <2>2, <2>3, QuietRank
<1> QED
  BY <1>2, <1>3, AllQuiet DEF Drained, Quiet, Sending

LEMMA DetectionStep ==
  ~Threaded /\ IInv /\ [Next]_vars => Detection'
<1> SUFFICES ASSUME ~Threaded, IInv, [Next]_vars PROVE Detection'
  OBVIOUS
<1> USE DEF IInv, CountInv
<1> USE DEF main, loop, queues, counter, detector
<1>1. Drained => Drained'
  BY DrainedStays
<1>2. CASE Drained
  BY <1>1, <1>2 DEF Detection
<1>3. CASE ~Drained
  <2>1. /\ \A q \in Proc : state[q] # 3
        /\ \A q \in Proc : ~(state[q] = 2 /\ r[q] = "done" /\ all_dirty[q] = 0)
        /\ Reducing => \E q \in Proc : SeenWork(q)
    BY <1>3 DEF Detection
  <2>2. ASSUME UNCHANGED <<state, r, local_dirty, all_dirty>>,
               \A q \in Proc : dirty[q] = 1 => dirty'[q] = 1
        PROVE  Detection'
    BY <2>1, <2>2 DEF Detection, Reducing, SeenWork
  <2>3. CASE UNCHANGED vars
    BY <2>2, <2>3 DEF vars
  <2>4. ASSUME NEW p \in Proc, Progress(p) \/ Callbacks(p) PROVE Detection'
    <3>1. WorkIsDirty
      BY DEF OneThread, WorkIsDirty
    <3>2. \A q \in Proc : dirty[q] = 1 => dirty'[q] = 1
      BY <2>4, <3>1, DirtyStep
    <3>3. UNCHANGED <<state, r, local_dirty, all_dirty>>
      BY <2>4, NoControl
    <3> QED
      BY <2>2, <3>2, <3>3
  <2>5. ASSUME NEW p \in Proc, SeeNoWork(p) \/ ControlNothing(p) \/ Leave(p) PROVE Detection'
    BY <2>2, <2>5 DEF SeeNoWork, ControlNothing, Leave
  <2>6. ASSUME NEW p \in Proc, EnterBarrier(p) PROVE Detection'
    <3>1. state' = [state EXCEPT ![p] = 1] /\ UNCHANGED all_dirty /\ UNCHANGED local_dirty
      BY <2>6 DEF EnterBarrier
    <3>2. dirty' = [dirty EXCEPT ![p] = 0]
      BY <2>6 DEF EnterBarrier
    <3>3. CASE OthersWait(p, 1)
      <4>1. PICK q \in Proc \ {p} : dirty[q] = 1
        BY <1>3, <2>6, <3>3, BarrierCompletes
      <4>2. \A x \in Proc : state'[x] = 1
        BY <3>1, <3>3 DEF TypeOK, OthersWait
      <4>3. SeenWork(q)'
        BY <3>2, <4>1, <4>2 DEF TypeOK, SeenWork
      <4> QED
        BY <4>2, <4>3 DEF Detection
    <3>4. CASE ~OthersWait(p, 1)
      <4>1. r' = [r EXCEPT ![p] = "pending"]
        BY <2>6, <3>4 DEF EnterBarrier
      <4>2. state[p] = 0
        BY <2>6 DEF EnterBarrier, Stages
      <4>3. ~Reducing
        BY <4>2 DEF Stages
      <4>4. ~Reducing'
        BY <3>1, <4>1, <4>3 DEF TypeOK, Reducing
      <4> QED
        BY <2>1, <3>1, <4>1, <4>4 DEF TypeOK, Detection
    <3> QED
      BY <3>3, <3>4
  <2>7. ASSUME NEW p \in Proc, TestBarrier(p) PROVE Detection'
    <3>1. /\ state' = [state EXCEPT ![p] = 2]
          /\ local_dirty' = [local_dirty EXCEPT ![p] = dirty[p]]
          /\ UNCHANGED dirty
      BY <2>7 DEF TestBarrier
    <3>2. PICK q \in Proc : SeenWork(q)
      BY <2>1, <2>7 DEF TestBarrier, Reducing
    <3>3. SeenWork(q)'
      <4>1. CASE q = p
        <5>1. dirty[p] = 1
          BY <2>7, <3>2, <4>1 DEF TestBarrier, SeenWork
        <5> QED
          BY <3>1, <4>1, <5>1 DEF TypeOK, SeenWork
      <4>2. CASE q # p
        BY <3>1, <3>2, <4>2 DEF TypeOK, SeenWork
      <4> QED
        BY <4>1, <4>2
    <3>4. CASE OthersWait(p, 2)
      <4>1. \A x \in Proc : state'[x] = 2
        BY <3>1, <3>4 DEF TypeOK, OthersWait
      <4>2. local_dirty'[q] = 1
        BY <3>3, <4>1 DEF SeenWork
      <4>3. \A x \in Proc : all_dirty'[x] = 1
        BY <2>7, <3>4, <4>2 DEF TestBarrier
      <4> QED
        BY <4>1, <4>3 DEF Detection, Reducing
    <3>5. CASE ~OthersWait(p, 2)
      <4>1. r' = [r EXCEPT ![p] = "pending"] /\ UNCHANGED all_dirty
        BY <2>7, <3>5 DEF TestBarrier
      <4> QED
        BY <2>1, <3>1, <3>3, <4>1 DEF TypeOK, Detection
    <3> QED
      BY <3>4, <3>5
  <2>8. ASSUME NEW p \in Proc, TestReduce(p) PROVE Detection'
    <3>1. all_dirty[p] # 0 /\ state[p] = 2 /\ r[p] = "done"
      BY <2>1, <2>8 DEF TestReduce
    <3>2. /\ state' = [state EXCEPT ![p] = 0] /\ r' = [r EXCEPT ![p] = "null"]
          /\ UNCHANGED all_dirty
      BY <2>8, <3>1 DEF TestReduce
    <3>3. ~Reducing
      BY <3>1 DEF Stages
    <3>4. ~Reducing'
      BY <3>2, <3>3 DEF TypeOK, Reducing
    <3> QED
      BY <2>1, <3>2, <3>4 DEF TypeOK, Detection
  <2> QED
    BY <2>3, <2>4, <2>5, <2>6, <2>7, <2>8 DEF Next, Finished, Control
<1> QED
  BY <1>2, <1>3

-----------------------------------------------------------------------------
(***************************************************************************)
(* The inductive invariants hold initially and are kept.                   *)
(***************************************************************************)
LEMMA InitInv == Init => IInv
<1> SUFFICES ASSUME Init PROVE IInv
  OBVIOUS
<1>1. TypeOK
  BY DEF Init, TypeOK, Places
<1>2. Structure
  BY ShapeAssumption DEF Init, Structure, NotBegun, CallbackAtBlock, QueuesInPlace
<1>3. WorkCounted
  BY DEF Init, WorkCounted, Running
<1>4. OneThread
  BY DEF Init, OneThread
<1>5. Stages
  BY DEF Init, Stages, Reducing, Decided
<1>6. Detection
  BY DEF Init, Detection, Reducing
<1> QED
  BY <1>1, <1>2, <1>3, <1>4, <1>5, <1>6 DEF IInv, CountInv

LEMMA StagesInv == Spec => [](CountInv /\ Stages)
<1>1. Init => CountInv /\ Stages
  BY InitInv DEF IInv
<1>2. CountInv /\ Stages /\ [Next]_vars => (CountInv /\ Stages)'
  BY TypeStep, StructureStep, CountStep, StagesStep DEF CountInv
<1> QED
  BY <1>1, <1>2, PTL DEF Spec

(***************************************************************************)
(* With one thread (iexchange_, master.hpp) the whole invariant holds:     *)
(* the counters are exact, the ranks go through the stages of the detector *)
(* together, and what it decides is true.                                  *)
(***************************************************************************)
THEOREM InductiveInv == ASSUME ~Threaded PROVE Spec => []IInv
<1>1. Init => IInv
  BY InitInv
<1>2. IInv /\ [Next]_vars => IInv'
  <2> SUFFICES ASSUME IInv, [Next]_vars PROVE IInv'
    OBVIOUS
  <2>1. CountInv' /\ Stages'
    BY TypeStep, StructureStep, CountStep, StagesStep DEF IInv, CountInv
  <2>2. OneThread'
    BY OneThreadStep DEF IInv, CountInv
  <2>3. Detection'
    BY DetectionStep
  <2> QED
    BY <2>1, <2>2, <2>3 DEF IInv
<1> QED
  BY <1>1, <1>2, PTL DEF Spec

(***************************************************************************)
(* The variables keep their types, with any number of threads.             *)
(***************************************************************************)
THEOREM TypeCorrect == Spec => []TypeOK
<1>1. CountInv /\ Stages => TypeOK
  BY DEF CountInv
<1> QED
  BY <1>1, StagesInv, PTL

(***************************************************************************)
(* local_work_ is exactly the number of blocks, queues and callbacks it    *)
(* stands for, with any number of threads: every inc_work has its dec_work *)
(* across ranks and threads, and there are no others.                      *)
(***************************************************************************)
THEOREM CounterExact == Spec => []WorkCounted
<1>1. CountInv /\ Stages => WorkCounted
  BY DEF CountInv
<1> QED
  BY <1>1, StagesInv, PTL

(***************************************************************************)
(* No rank goes on to another barrier when one has decided to return from  *)
(* iexchange, with any number of threads.                                  *)
(***************************************************************************)
THEOREM RanksAgree == Spec => []Agreement
<1>1. CountInv /\ Stages => Agreement
  BY DEF Stages, Agreement, Decided
<1> QED
  BY <1>1, StagesInv, PTL

LEMMA NothingLeft == NoWork <=> WorkLeft = {}
<1>1. NoWork => WorkLeft = {}
  BY DEF NoWork, WorkLeft
<1>2. ASSUME WorkLeft = {} PROVE NoWork
  <2>1. \A b \in Block : done[b]
    BY <1>2 DEF WorkLeft
  <2>2. \A m \in Msg : loc[m] \notin {"proxy", "outgoing", "mpi", "incoming"}
    BY <1>2 DEF WorkLeft
  <2>3. \A p \in Proc : wpc[p] \notin {"fill", "call"}
    BY <1>2 DEF WorkLeft
  <2> QED
    BY <2>1, <2>2, <2>3 DEF NoWork
<1> QED
  BY <1>1, <1>2

(***************************************************************************)
(* With one thread iexchange returns nowhere while a block wants to be     *)
(* called again, a queue is on its way or a callback runs.                 *)
(***************************************************************************)
THEOREM ReturnsOnlyWhenDone == ASSUME ~Threaded PROVE Spec => []NoEarlyExit
<1>1. IInv => NoEarlyExit
  BY NothingLeft DEF IInv, CountInv, Detection, Drained, NoEarlyExit
<1> QED
  BY <1>1, InductiveInv, PTL

(***************************************************************************)
(* With one thread iexchange implements the specification of quiescence    *)
(* detection: work only comes from work, and the ranks return one by one   *)
(* once there is none.                                                     *)
(***************************************************************************)
THEOREM Implements == ASSUME ~Threaded PROVE Spec => KeepsPromise
<1> DEFINE left == {p \in Proc : state[p] = 3}
<1>1. Init => Promise!Init
  <2> SUFFICES ASSUME Init PROVE Promise!Init
    OBVIOUS
  <2>1. WorkLeft \in SUBSET AllWork
    BY DEF WorkLeft, AllWork
  <2>2. left = {}
    BY DEF Init
  <2> QED
    BY <2>1, <2>2 DEF Promise!Init
<1>2. IInv /\ IInv' /\ [Next]_vars => [Promise!Next]_(Promise!vars)
  <2> SUFFICES ASSUME IInv, IInv', [Next]_vars PROVE [Promise!Next]_(Promise!vars)
    OBVIOUS
  <2> USE DEF IInv, CountInv
  <2>1. WorkLeft' \in SUBSET AllWork
    BY DEF WorkLeft, AllWork
  <2>2. WorkLeft = {} => WorkLeft' = {}
    <3>1. NoWork => NoWork'
      BY NoWorkStays
    <3>2. NoWork' => WorkLeft' = {}
      BY DEF NoWork, WorkLeft
    <3> QED
      BY <3>1, <3>2, NothingLeft
  <2>3. ASSUME UNCHANGED state PROVE [Promise!Next]_(Promise!vars)
    <3>1. left' = left
      BY <2>3
    <3> QED
      BY <2>1, <2>2, <3>1 DEF Promise!Next, Promise!Progress, Promise!vars
  <2>4. ASSUME NEW p \in Proc, state[p] # 3, state' = [state EXCEPT ![p] = 3], WorkLeft = {}
        PROVE  [Promise!Next]_(Promise!vars)
    <3>1. p \notin left /\ left' = left \cup {p}
      BY <2>4 DEF TypeOK
    <3> QED
      BY <2>2, <2>4, <3>1 DEF Promise!Next, Promise!Return
  <2>5. ASSUME NEW p \in Proc, NEW s \in {0, 1, 2}, state[p] # 3, state' = [state EXCEPT ![p] = s]
        PROVE  [Promise!Next]_(Promise!vars)
    <3>1. left' = left
      BY <2>5 DEF TypeOK
    <3> QED
      BY <2>1, <2>2, <3>1 DEF Promise!Next, Promise!Progress, Promise!vars
  <2>6. CASE UNCHANGED vars
    BY <2>3, <2>6 DEF vars, detector
  <2>7. ASSUME NEW p \in Proc, Progress(p) \/ Callbacks(p) PROVE [Promise!Next]_(Promise!vars)
    BY <2>3, <2>7, NoControl
  <2>8. ASSUME NEW p \in Proc, SeeNoWork(p) \/ ControlNothing(p) \/ Leave(p)
        PROVE  [Promise!Next]_(Promise!vars)
    BY <2>3, <2>8 DEF SeeNoWork, ControlNothing, Leave, detector
  <2>9. ASSUME NEW p \in Proc, EnterBarrier(p) PROVE [Promise!Next]_(Promise!vars)
    BY <2>5, <2>9 DEF EnterBarrier, Stages
  <2>10. ASSUME NEW p \in Proc, TestBarrier(p) PROVE [Promise!Next]_(Promise!vars)
    <3>1. state[p] # 3 /\ state' = [state EXCEPT ![p] = 2]
      BY <2>10 DEF TestBarrier
    <3> QED
      BY <2>5, <3>1
  <2>11. ASSUME NEW p \in Proc, TestReduce(p) PROVE [Promise!Next]_(Promise!vars)
    <3>1. state[p] = 2 /\ r[p] = "done"
      BY <2>11 DEF TestReduce
    <3>2. CASE all_dirty[p] = 0
      <4>1. WorkLeft = {}
        BY <3>1, <3>2, NothingLeft DEF Detection, Drained
      <4>2. state' = [state EXCEPT ![p] = 3]
        BY <2>11, <3>2 DEF TestReduce
      <4>3. state[p] # 3
        BY <3>1
      <4> QED
        BY <2>4, <4>1, <4>2, <4>3
    <3>3. CASE all_dirty[p] # 0
      <4>1. state[p] # 3 /\ state' = [state EXCEPT ![p] = 0]
        BY <2>11, <3>1, <3>3 DEF TestReduce
      <4> QED
        BY <2>5, <4>1
    <3> QED
      BY <3>2, <3>3
  <2> QED
    BY <2>6, <2>7, <2>8, <2>9, <2>10, <2>11 DEF Next, Finished, Control
<1> QED
  BY <1>1, <1>2, InductiveInv, PTL DEF Spec, KeepsPromise, Promise!Spec
=============================================================================
