----------------------- MODULE IExchangeRoundsProofs -----------------------
(***************************************************************************)
(* Proofs about module IExchangeRounds: with one thread and a barrier      *)
(* between the calls every call is one as in IExchange, for any ranks,     *)
(* blocks and queues and any number of calls.                              *)
(***************************************************************************)
EXTENDS IExchangeRounds, IExchangeProofs

\* The theorems about one call, for the latest one.
Now == INSTANCE IExchangeProofs WITH mpc <- mpcNow, wpc <- wpcNow, done <- doneNow,
                                     local_work_ <- countNow, dirty <- dirtyNow, state <- stateNow

LEMMA SameNumber == \A S : Now!Cardinality(S) = Cardinality(S) /\ LatestCall!Cardinality(S) = Cardinality(S)
BY DEF Cardinality, Now!Cardinality, LatestCall!Cardinality

LEMMA SameFinite == \A S : IsFiniteSet(S) => Now!IsFiniteSet(S)
BY DEF IsFiniteSet, Now!IsFiniteSet

LEMMA SameInv == LatestCall!IInv <=> Now!IInv
<1>1. Now!TypeOK <=> LatestCall!TypeOK
  BY DEF Now!TypeOK, LatestCall!TypeOK, Now!Places, LatestCall!Places
<1>2. Now!Structure <=> LatestCall!Structure
  BY DEF Now!Structure, LatestCall!Structure, Now!NotBegun, LatestCall!NotBegun, Now!CallbackAtBlock,
         LatestCall!CallbackAtBlock, Now!QueuesInPlace, LatestCall!QueuesInPlace, Now!Local,
         LatestCall!Local, Now!Threaded, LatestCall!Threaded
<1>3. Now!WorkCounted <=> LatestCall!WorkCounted
  BY SameNumber DEF Now!WorkCounted, LatestCall!WorkCounted, Now!Running, LatestCall!Running, Now!Units,
         LatestCall!Units, Now!NotDone, LatestCall!NotDone, Now!Sending, LatestCall!Sending, Now!Waiting,
         LatestCall!Waiting, Now!Busy, LatestCall!Busy, Now!Local, LatestCall!Local
<1>4. Now!OneThread <=> LatestCall!OneThread
  BY DEF Now!OneThread, LatestCall!OneThread, Now!Sending, LatestCall!Sending
<1>5. Now!Stages <=> LatestCall!Stages
  BY DEF Now!Stages, LatestCall!Stages, Now!Reducing, LatestCall!Reducing, Now!Decided, LatestCall!Decided
<1>6. Now!Detection <=> LatestCall!Detection
  BY DEF Now!Detection, LatestCall!Detection, Now!Reducing, LatestCall!Reducing, Now!Drained,
         LatestCall!Drained, Now!NoWork, LatestCall!NoWork, Now!SeenWork, LatestCall!SeenWork
<1> QED
  BY <1>1, <1>2, <1>3, <1>4, <1>5, <1>6 DEF Now!IInv, Now!CountInv, LatestCall!IInv, LatestCall!CountInv

\* A step of the latest call keeps the invariant of one call.
LEMMA CallStep ==
  ASSUME ~Threaded, LatestCall!IInv, [Now!Next]_(Now!vars)
  PROVE  LatestCall!IInv'
<1>1. ~Now!Threaded
  BY DEF Threaded, Now!Threaded
<1>2. Now!IInv
  BY SameInv
<1>3. Now!TypeOK' /\ Now!Structure' /\ Now!WorkCounted' /\ Now!Stages'
  BY <1>2, FiniteAssumption, ShapeAssumption, SameFinite, Now!TypeStep, Now!StructureStep, Now!CountStep,
     Now!StagesStep DEF Now!IInv, Now!CountInv
<1>4. Now!OneThread'
  BY <1>1, <1>2, FiniteAssumption, ShapeAssumption, SameFinite, Now!OneThreadStep DEF Now!IInv, Now!CountInv
<1>5. Now!Detection'
  BY <1>1, <1>2, FiniteAssumption, ShapeAssumption, SameFinite, Now!DetectionStep
<1>6. Now!IInv'
  BY <1>3, <1>4, <1>5 DEF Now!IInv, Now!CountInv
<1>7. LatestCall!IInv' <=> Now!IInv'
  BY SameInv, PTL
<1> QED
  BY <1>6, <1>7

-----------------------------------------------------------------------------
(***************************************************************************)
(* A step of a rank that is not behind is a step of the latest call.       *)
(***************************************************************************)
\* What the step of p does to the state of the latest call.
LEMMA Seen ==
  ASSUME TypeOK, NEW p \in Proc, ~Behind(p)
  PROVE  /\ mpcNow[p] = mpc[p] /\ wpcNow[p] = wpc[p] /\ countNow[p] = local_work_[p]
         /\ dirtyNow[p] = dirty[p] /\ stateNow[p] = state[p]
         /\ \A b \in Local(p) : doneNow[b] = done[b]
BY DEF mpcNow, wpcNow, countNow, dirtyNow, stateNow, doneNow, Local

LEMMA SeenStep ==
  ASSUME TypeOK, NEW p \in Proc, ~Behind(p), UNCHANGED exchange_round_
  PROVE  /\ \A x : mpc' = [mpc EXCEPT ![p] = x] => mpcNow' = [mpcNow EXCEPT ![p] = x]
         /\ \A x : wpc' = [wpc EXCEPT ![p] = x] => wpcNow' = [wpcNow EXCEPT ![p] = x]
         /\ \A x : local_work_' = [local_work_ EXCEPT ![p] = x] => countNow' = [countNow EXCEPT ![p] = x]
         /\ \A x : dirty' = [dirty EXCEPT ![p] = x] => dirtyNow' = [dirtyNow EXCEPT ![p] = x]
         /\ \A x : state' = [state EXCEPT ![p] = x] => stateNow' = [stateNow EXCEPT ![p] = x]
         /\ \A b \in Local(p) : \A x : done' = [done EXCEPT ![b] = x] => doneNow' = [doneNow EXCEPT ![b] = x]
<1>1. \A q : Behind(q)' <=> Behind(q)
  BY DEF Behind
<1>2. ASSUME NEW b \in Local(p), NEW x, done' = [done EXCEPT ![b] = x] PROVE doneNow' = [doneNow EXCEPT ![b] = x]
  BY <1>1, <1>2 DEF TypeOK, doneNow, Local
<1>3. ASSUME NEW x, mpc' = [mpc EXCEPT ![p] = x] PROVE mpcNow' = [mpcNow EXCEPT ![p] = x]
  BY <1>1, <1>3 DEF TypeOK, mpcNow
<1>4. ASSUME NEW x, wpc' = [wpc EXCEPT ![p] = x] PROVE wpcNow' = [wpcNow EXCEPT ![p] = x]
  BY <1>1, <1>4 DEF TypeOK, wpcNow
<1>5. ASSUME NEW x, local_work_' = [local_work_ EXCEPT ![p] = x] PROVE countNow' = [countNow EXCEPT ![p] = x]
  BY <1>1, <1>5 DEF TypeOK, countNow
<1>6. ASSUME NEW x, dirty' = [dirty EXCEPT ![p] = x] PROVE dirtyNow' = [dirtyNow EXCEPT ![p] = x]
  BY <1>1, <1>6 DEF TypeOK, dirtyNow
<1>7. ASSUME NEW x, state' = [state EXCEPT ![p] = x] PROVE stateNow' = [stateNow EXCEPT ![p] = x]
  BY <1>1, <1>7 DEF TypeOK, stateNow
<1> QED
  BY <1>2, <1>3, <1>4, <1>5, <1>6, <1>7

LEMMA SeenSame ==
  ASSUME UNCHANGED exchange_round_
  PROVE  /\ UNCHANGED mpc => UNCHANGED mpcNow
         /\ UNCHANGED wpc => UNCHANGED wpcNow
         /\ UNCHANGED local_work_ => UNCHANGED countNow
         /\ UNCHANGED dirty => UNCHANGED dirtyNow
         /\ UNCHANGED state => UNCHANGED stateNow
         /\ UNCHANGED done => UNCHANGED doneNow
<1>1. \A q : Behind(q)' <=> Behind(q)
  BY DEF Behind
<1> QED
  BY <1>1 DEF mpcNow, wpcNow, countNow, dirtyNow, stateNow, doneNow

LEMMA SeenAdd ==
  ASSUME TypeOK, NEW p \in Proc, ~Behind(p), UNCHANGED exchange_round_, NEW w, add_work(p, w)
  PROVE  Now!add_work(p, w)
<1> DEFINE c == local_work_[p] + w
           d == IF local_work_[p] + w > 0 THEN 1 ELSE dirty[p]
<1>1. countNow' = [countNow EXCEPT ![p] = countNow[p] + w]
  <2>1. local_work_' = [local_work_ EXCEPT ![p] = c]
    BY DEF add_work
  <2>2. countNow' = [countNow EXCEPT ![p] = c]
    <3> HIDE DEF c
    <3> QED
      BY <2>1, SeenStep
  <2> QED
    BY <2>2, Seen
<1>2. dirtyNow' = [dirtyNow EXCEPT ![p] = IF countNow[p] + w > 0 THEN 1 ELSE dirtyNow[p]]
  <2>1. dirty' = [dirty EXCEPT ![p] = d]
    BY DEF add_work
  <2>2. dirtyNow' = [dirtyNow EXCEPT ![p] = d]
    <3> HIDE DEF d
    <3> QED
      BY <2>1, SeenStep
  <2> QED
    BY <2>2, Seen
<1> QED
  BY <1>1, <1>2 DEF add_work, Now!add_work

LEMMA SeenWorkerAdd ==
  ASSUME ~Threaded, TypeOK, NEW p \in Proc, ~Behind(p), UNCHANGED exchange_round_, NEW w, worker_add_work(p, w)
  PROVE  Now!worker_add_work(p, w)
BY SeenAdd DEF worker_add_work, Now!worker_add_work, Threaded, Now!Threaded

\* Progress.
LEMMA SeenProgress ==
  ASSUME ~Threaded, TypeOK, NEW p \in Proc, ~Behind(p), UNCHANGED exchange_round_, Progress(p)
  PROVE  Now!Progress(p)
<1> USE Seen, SeenSame DEF main, loop, queues, counter, detector, Now!main, Now!loop, Now!queues, Now!counter,
                           Now!detector
<1>1. ASSUME Start(p) PROVE Now!Start(p)
  <2>1. mpcNow' = [mpcNow EXCEPT ![p] = FirstStep(p)] /\ wpcNow' = [wpcNow EXCEPT ![p] = "idle"]
    BY <1>1, SeenStep DEF Start
  <2>2. Now!FirstStep(p) = FirstStep(p) /\ Now!Local(p) = Local(p)
    BY DEF FirstStep, Now!FirstStep, Local, Now!Local, Threaded, Now!Threaded
  <2>3. Now!add_work(p, Now!Cardinality(Now!Local(p)))
    BY <1>1, <2>2, SeenAdd, SameNumber DEF Start
  <2> QED
    BY <1>1, <2>1, <2>2, <2>3 DEF Start, Now!Start
<1>2. ASSUME NEW m \in Msg, SendQueue(p, m) PROVE Now!SendQueue(p, m)
  BY <1>2 DEF SendQueue, Now!SendQueue
<1>3. ASSUME NEW m \in Msg, Receive(p, m) PROVE Now!Receive(p, m)
  BY <1>3, SeenAdd DEF Receive, ReceiveTo, Now!Receive, Now!ReceiveTo
<1>4. ASSUME SendDone(p) PROVE Now!SendDone(p)
  BY <1>4, SeenStep DEF SendDone, Now!SendDone
<1>5. ASSUME NEW m \in Msg, Nudge(p, m) PROVE Now!Nudge(p, m)
  BY <1>5, SeenAdd DEF Nudge, Now!Nudge
<1>6. ASSUME NudgeDone(p) PROVE Now!NudgeDone(p)
  BY <1>6, SeenStep DEF NudgeDone, Now!NudgeDone
<1>7. ASSUME CheckDone(p) PROVE Now!CheckDone(p)
  BY <1>7, SeenStep DEF CheckDone, Now!CheckDone, Threaded, Now!Threaded
<1> QED
  BY <1>1, <1>2, <1>3, <1>4, <1>5, <1>6, <1>7 DEF Progress, Poll, Now!Progress, Now!Poll

LEMMA SeenAfterBlock ==
  ASSUME TypeOK, NEW p \in Proc, ~Behind(p), UNCHANGED exchange_round_, NEW rest, AfterBlock(p, rest)
  PROVE  Now!AfterBlock(p, rest)
BY SeenStep, SeenSame DEF AfterBlock, Now!AfterBlock, Threaded, Now!Threaded

\* Callbacks; with one thread the last two are not possible.
LEMMA SeenCallbacks ==
  ASSUME ~Threaded, TypeOK, Structure, \A q \in Proc : flag[q] = "no",
         NEW p \in Proc, ~Behind(p), UNCHANGED exchange_round_, Callbacks(p)
  PROVE  Now!Callbacks(p)
<1> USE Seen, SeenSame DEF main, loop, queues, counter, detector, Now!main, Now!loop, Now!queues, Now!counter,
                           Now!detector
<1>l. Now!Local(p) = Local(p) /\ \A b : Now!Incoming(b) = Incoming(b) /\ Now!Fronts(b) = Fronts(b)
  BY DEF Local, Now!Local, Incoming, Now!Incoming, Fronts, Now!Fronts
<1>w. \A pc : Now!WorkerAt(p, pc) <=> WorkerAt(p, pc)
  BY DEF WorkerAt, Now!WorkerAt
<1>a. \A b : Now!AtBlock(p, b) <=> AtBlock(p, b)
  BY <1>w DEF AtBlock, Now!AtBlock, Threaded, Now!Threaded
<1>1. ASSUME NEW b \in Local(p), Visit(p, b) PROVE Now!Visit(p, b)
  <2>1. wpcNow' = [wpcNow EXCEPT ![p] = "fill"]
    BY <1>1, SeenStep DEF Visit
  <2>2. Now!worker_add_work(p, 1)
    BY <1>1, SeenWorkerAdd DEF Visit
  <2> QED
    BY <1>1, <1>l, <1>a, <2>1, <2>2 DEF Visit, Now!Visit
<1>2. ASSUME NEW b \in Local(p), Skip(p, b) PROVE Now!Skip(p, b)
  <2>1. Now!AfterBlock(p, todo[p] \ {b})
    BY <1>2, SeenAfterBlock DEF Skip
  <2> QED
    BY <1>2, <1>l, <1>a, <2>1 DEF Skip, Now!Skip
<1>3. ASSUME FillIncoming(p) PROVE Now!FillIncoming(p)
  <2>1. PICK T \in Fronts(cur[p]) :
          /\ loc' = [m \in Msg |-> IF m \in T THEN "consumed" ELSE loc[m]]
          /\ IF T = {} THEN UNCHANGED counter ELSE worker_add_work(p, -Cardinality(T))
    BY <1>3 DEF FillIncoming
  <2>2. IF T = {} THEN UNCHANGED Now!counter ELSE Now!worker_add_work(p, -Now!Cardinality(T))
    BY <2>1, SeenWorkerAdd, SameNumber
  <2>3. wpcNow' = [wpcNow EXCEPT ![p] = "call"]
    BY <1>3, SeenStep DEF FillIncoming
  <2> QED
    BY <1>3, <1>l, <1>w, <2>1, <2>2, <2>3 DEF FillIncoming, Now!FillIncoming
<1>4. ASSUME NEW answer \in BOOLEAN, Callback(p, answer) PROVE Now!Callback(p, answer)
  <2>1. cur[p] \in Local(p)
    BY <1>4 DEF Callback, WorkerAt, Structure, CallbackAtBlock
  <2>2. wpcNow' = [wpcNow EXCEPT ![p] = "push"]
    <3>1. wpc' = [wpc EXCEPT ![p] = "push"]
      BY <1>4 DEF Callback
    <3> QED
      BY <3>1, SeenStep
  <2>5. doneNow' = [doneNow EXCEPT ![cur[p]] = answer]
    <3>1. done' = [done EXCEPT ![cur[p]] = answer]
      BY <1>4 DEF Callback
    <3> QED
      BY <2>1, <3>1, SeenStep
  <2>3. IF answer = doneNow[cur[p]] THEN UNCHANGED Now!counter
                                    ELSE Now!worker_add_work(p, IF answer THEN -1 ELSE 1)
    BY <1>4, <2>1, SeenWorkerAdd DEF Callback
  <2>4. \E S \in SUBSET {m \in Msg : From[m] = cur[p] /\ loc[m] = "unused"} :
       /\ Now!Cardinality(S) <= MaxQueues
       /\ \A m, n \in S : To[m] = To[n] => m = n
       /\ pend' = [pend EXCEPT ![p] = S]
       /\ loc' = [m \in Msg |-> IF m \in S THEN "proxy" ELSE loc[m]]
    BY <1>4, SameNumber DEF Callback
  <2> QED
    BY <1>4, <1>w, <2>2, <2>3, <2>4, <2>5 DEF Callback, Now!Callback
<1>5. ASSUME NEW m \in Msg, PushQueue(p, m) PROVE Now!PushQueue(p, m)
  BY <1>5, <1>w, SeenStep DEF PushQueue, Now!PushQueue
<1>6. ASSUME CountQueue(p) PROVE Now!CountQueue(p)
  <2>1. wpcNow' = [wpcNow EXCEPT ![p] = "push"]
    BY <1>6, SeenStep DEF CountQueue
  <2>2. Now!worker_add_work(p, 1)
    BY <1>6, SeenWorkerAdd DEF CountQueue
  <2> QED
    BY <1>6, <1>w, <2>1, <2>2 DEF CountQueue, Now!CountQueue
<1>7. ASSUME EndCallback(p) PROVE Now!EndCallback(p)
  <2>1. wpcNow' = [wpcNow EXCEPT ![p] = "idle"] /\ Now!worker_add_work(p, -1) /\ Now!AfterBlock(p, todo[p])
    BY <1>7, SeenStep, SeenWorkerAdd, SeenAfterBlock DEF EndCallback
  <2> QED
    BY <1>7, <1>w, <2>1 DEF EndCallback, Now!EndCallback
<1>8. ~SetDirty(p) /\ ~EndPass(p)
  BY DEF SetDirty, EndPass
<1> QED
  BY <1>l, <1>1, <1>2, <1>3, <1>4, <1>5, <1>6, <1>7, <1>8 DEF Callbacks, Now!Callbacks

LEMMA SeenAfterControl ==
  ASSUME TypeOK, NEW p \in Proc, ~Behind(p), UNCHANGED exchange_round_, NEW s, AfterControl(p, s)
  PROVE  Now!AfterControl(p, s)
<1>1. Now!FirstStep(p) = FirstStep(p) /\ Now!Local(p) = Local(p)
  BY DEF FirstStep, Now!FirstStep, Local, Now!Local, Threaded, Now!Threaded
<1>2. \A x : mpc' = [mpc EXCEPT ![p] = x] => mpcNow' = [mpcNow EXCEPT ![p] = x]
  BY SeenStep
<1> QED
  BY <1>1, <1>2 DEF AfterControl, Now!AfterControl, Threaded, Now!Threaded

\* The detector.  Who is behind waits in no collective.
LEMMA SeenControl ==
  ASSUME ~Threaded, TypeOK, LeftBehind, NEW p \in Proc, ~Behind(p), UNCHANGED exchange_round_, Control(p)
  PROVE  Now!Control(p)
<1> USE Seen, SeenSame DEF main, loop, queues, counter, detector, Now!main, Now!loop, Now!queues, Now!counter,
                           Now!detector
<1>o. \A s \in {1, 2} : Now!OthersWait(p, s) <=> OthersWait(p, s)
  BY DEF OthersWait, Now!OthersWait, LeftBehind, stateNow
<1>m. \A x : mpc' = [mpc EXCEPT ![p] = x] => mpcNow' = [mpcNow EXCEPT ![p] = x]
  BY SeenStep
<1>s. \A x : state' = [state EXCEPT ![p] = x] => stateNow' = [stateNow EXCEPT ![p] = x]
  BY SeenStep
<1>1. ASSUME SeeNoWork(p) PROVE Now!SeeNoWork(p)
  BY <1>1, <1>m DEF SeeNoWork, Now!SeeNoWork
<1>2. ASSUME EnterBarrier(p) PROVE Now!EnterBarrier(p)
  <2>1. dirtyNow' = [dirtyNow EXCEPT ![p] = 0] /\ Now!AfterControl(p, 1)
    BY <1>2, SeenStep, SeenAfterControl DEF EnterBarrier
  <2> QED
    BY <1>2, <1>o, <1>s, <2>1 DEF EnterBarrier, Now!EnterBarrier
<1>3. ASSUME TestBarrier(p) PROVE Now!TestBarrier(p)
  <2>1. Now!AfterControl(p, 2)
    BY <1>3, SeenAfterControl DEF TestBarrier
  <2> QED
    BY <1>3, <1>o, <1>s, <2>1 DEF TestBarrier, Now!TestBarrier
<1>4. ASSUME TestReduce(p) PROVE Now!TestReduce(p)
  <2>1. Now!AfterControl(p, IF all_dirty[p] = 0 THEN 3 ELSE 0)
    BY <1>4, SeenAfterControl DEF TestReduce
  <2>2. stateNow' = [stateNow EXCEPT ![p] = IF all_dirty[p] = 0 THEN 3 ELSE 0]
    BY <1>4, <1>s DEF TestReduce
  <2> QED
    BY <1>4, <2>1, <2>2 DEF TestReduce, Now!TestReduce
<1>5. ASSUME ControlNothing(p) PROVE Now!ControlNothing(p)
  <2>1. Now!AfterControl(p, stateNow[p])
    BY <1>5, SeenAfterControl DEF ControlNothing
  <2> QED
    BY <1>5, <2>1 DEF ControlNothing, Now!ControlNothing
<1>6. ASSUME Leave(p) PROVE Now!Leave(p)
  BY <1>6, <1>m DEF Leave, Now!Leave, Threaded, Now!Threaded
<1> QED
  BY <1>1, <1>2, <1>3, <1>4, <1>5, <1>6 DEF Control, Now!Control

\* Who has left does nothing, with one thread.
LEMMA LeftRests ==
  ASSUME ~Threaded, NEW p \in Proc, mpc[p] = "left", wpc[p] \in {"off", "idle"}, flag[p] = "no"
  PROVE  ~(Progress(p) \/ Callbacks(p) \/ Control(p))
<1>1. ~Progress(p)
  BY DEF Progress, Poll, Start, SendQueue, SendDone, Nudge, NudgeDone, Receive, ReceiveTo, CheckDone
<1>2. ~Callbacks(p)
  BY DEF Callbacks, Visit, Skip, AtBlock, WorkerAt, FillIncoming, Callback, PushQueue, CountQueue, EndCallback,
         SetDirty, EndPass
<1>3. ~Control(p)
  BY DEF Control, SeeNoWork, EnterBarrier, TestBarrier, TestReduce, ControlNothing, Leave
<1> QED
  BY <1>1, <1>2, <1>3

\* Any step of one call by a rank, other than to the next.
LEMMA SeenNext ==
  ASSUME ~Threaded, TypeOK, Structure, LeftBehind, OfLatestCall, NEW p \in Proc, UNCHANGED exchange_round_,
         Progress(p) \/ Callbacks(p) \/ Control(p)
  PROVE  ~Behind(p) /\ [Now!Next]_(Now!vars)
<1>1. \A q \in Proc : flag[q] = "no"
  BY DEF OfLatestCall
<1>2. ~Behind(p)
  BY <1>1, LeftRests DEF LeftBehind
<1>3. Now!Progress(p) \/ Now!Callbacks(p) \/ Now!Control(p)
  BY <1>1, <1>2, SeenProgress, SeenCallbacks, SeenControl
<1> QED
  BY <1>2, <1>3 DEF Now!Next

-----------------------------------------------------------------------------
(***************************************************************************)
(* The steps within a call.                                                *)
(***************************************************************************)
\* They leave the other ranks' loops and detectors alone.
LEMMA Elsewhere ==
  ASSUME TypeOK, Structure, NEW p \in Proc, Progress(p) \/ Callbacks(p) \/ Control(p), NEW q \in Proc, q # p
  PROVE  /\ mpc'[q] = mpc[q] /\ wpc'[q] = wpc[q] /\ state'[q] = state[q]
         /\ \A b \in Local(q) : done'[b] = done[b]
<1> USE DEF main, loop, queues, counter, detector
<1>1. CASE Progress(p)
  BY <1>1 DEF TypeOK, Progress, Poll, Start, SendQueue, SendDone, Nudge, NudgeDone, Receive, ReceiveTo, CheckDone
<1>2. CASE Callbacks(p)
  <2>1. ASSUME NEW answer \in BOOLEAN, Callback(p, answer)
        PROVE  /\ wpc'[q] = wpc[q] /\ UNCHANGED <<mpc, state>> /\ \A b \in Local(q) : done'[b] = done[b]
    <3>1. cur[p] \in Local(p)
      BY <2>1 DEF Callback, WorkerAt, Structure, CallbackAtBlock
    <3>2. done' = [done EXCEPT ![cur[p]] = answer] /\ wpc' = [wpc EXCEPT ![p] = "push"] /\ UNCHANGED <<mpc, state>>
      BY <2>1 DEF Callback
    <3> QED
      BY <3>1, <3>2 DEF TypeOK, Local
  <2>2. ASSUME ~\E answer \in BOOLEAN : Callback(p, answer)
        PROVE  /\ wpc'[q] = wpc[q] /\ mpc'[q] = mpc[q] /\ UNCHANGED state /\ UNCHANGED done
    BY <1>2, <2>2 DEF TypeOK, Callbacks, Visit, Skip, FillIncoming, PushQueue, CountQueue, EndCallback, SetDirty,
                      EndPass, AfterBlock
  <2> QED
    BY <2>1, <2>2
<1>3. CASE Control(p)
  BY <1>3 DEF TypeOK, Control, SeeNoWork, EnterBarrier, TestBarrier, TestReduce, ControlNothing, Leave, AfterControl
<1> QED
  BY <1>1, <1>2, <1>3

\* With one thread the steps of add_work are one.
LEMMA FlagStays ==
  ASSUME ~Threaded, NEW p \in Proc, flag[p] = "no", Progress(p) \/ Callbacks(p) \/ Control(p)
  PROVE  UNCHANGED flag
<1> USE DEF main, loop, queues, counter, detector
<1>1. CASE Progress(p)
  BY <1>1 DEF Progress, Poll, Start, SendQueue, SendDone, Nudge, NudgeDone, Receive, ReceiveTo, CheckDone, add_work
<1>2. CASE Callbacks(p)
  BY <1>2 DEF Callbacks, Visit, Skip, FillIncoming, Callback, PushQueue, CountQueue, EndCallback, SetDirty,
              EndPass, worker_add_work, add_work
<1>3. CASE Control(p)
  BY <1>3 DEF Control, SeeNoWork, EnterBarrier, TestBarrier, TestReduce, ControlNothing, Leave
<1> QED
  BY <1>1, <1>2, <1>3

\* No queue gets on its way but by being sent, and none is dropped.
LEMMA NoneSent ==
  ASSUME ~Threaded, TypeOK, LatestCall!IInv, NEW p \in Proc, ~Behind(p),
         \A m \in Msg : loc[m] # "dropped",
         Start(p) \/ Poll(p) \/ Callbacks(p) \/ Control(p)
  PROVE  \A m \in Msg : loc'[m] # "dropped" /\ (loc'[m] \in {"mpi", "incoming"} => loc'[m] = loc[m])
<1> USE DEF main, loop, queues, counter, detector
<1>1. CASE Start(p) \/ Poll(p)
  BY <1>1 DEF Start, Poll, SendDone, Nudge, NudgeDone, CheckDone
<1>2. CASE Callbacks(p)
  <2>1. ASSUME FillIncoming(p) PROVE \A m \in Msg : loc'[m] \in {loc[m], "consumed"}
    BY <2>1 DEF FillIncoming
  <2>2. ASSUME NEW answer \in BOOLEAN, Callback(p, answer) PROVE \A m \in Msg : loc'[m] \in {loc[m], "proxy"}
    BY <2>2 DEF Callback
  <2>3. ASSUME NEW n \in Msg, PushQueue(p, n) PROVE \A m \in Msg : loc'[m] \in {loc[m], "outgoing"}
    BY <2>3 DEF PushQueue, TypeOK
  <2>4. \/ FillIncoming(p) \/ (\E answer \in BOOLEAN : Callback(p, answer)) \/ (\E n \in Msg : PushQueue(p, n))
        \/ UNCHANGED loc
    BY <1>2 DEF Callbacks, Visit, Skip, CountQueue, EndCallback, SetDirty, EndPass
  <2>5. \A m \in Msg : loc'[m] \in {loc[m], "consumed", "proxy", "outgoing"}
    BY <2>1, <2>2, <2>3, <2>4
  <2> QED
    BY <2>5
<1>3. CASE Control(p)
  <2>1. ASSUME Leave(p) PROVE \A m \in Msg : loc[m] # "outgoing"
    <3>1. mpcNow[p] = "join"
      BY <2>1, Seen DEF Leave
    <3>2. stateNow[p] = 3
      BY <3>1 DEF LatestCall!IInv, LatestCall!Stages
    <3> QED
      BY <3>2 DEF LatestCall!IInv, LatestCall!Detection, LatestCall!Drained, LatestCall!NoWork
  <2>2. ASSUME ~Leave(p) PROVE UNCHANGED loc
    BY <1>3, <2>2 DEF Control, SeeNoWork, EnterBarrier, TestBarrier, TestReduce, ControlNothing
  <2> QED
    BY <2>1, <2>2 DEF TypeOK, Leave
<1> QED
  BY <1>1, <1>2, <1>3

\* A queue comes to who has begun the call it was sent in.
LEMMA ReceiveNow ==
  ASSUME RoundsInv, NEW p \in Proc, NEW m \in Msg, ReceiveInRound(p, m)
  PROVE  Receive(p, m)
<1>1. mpc[p] = "check" /\ loc[m] = "mpi" /\ Owner[From[m]] \in Proc
  BY ShapeAssumption DEF ReceiveInRound, ReceiveTo
<1>2. ~Behind(p) /\ ~Behind(Owner[From[m]]) /\ sentIn[m] = exchange_round_[Owner[From[m]]]
  BY <1>1 DEF RoundsInv, LeftBehind, OfLatestCall
<1>3. exchange_round_[p] = exchange_round_[Owner[From[m]]]
  BY <1>1, <1>2 DEF Behind, RoundsInv, RoundsTypeOK
<1> DEFINE place == CASE sentIn[m] = exchange_round_[p] -> "incoming"
                      [] sentIn[m] > exchange_round_[p] -> "early"
                      [] OTHER -> "stale"
<1>4. place = "incoming"
  <2>1. exchange_round_[p] \in Int /\ sentIn[m] = exchange_round_[p]
    BY <1>2, <1>3 DEF RoundsInv, RoundsTypeOK
  <2>2. ~(sentIn[m] > exchange_round_[p])
    BY <2>1
  <2> QED
    BY <2>1, <2>2
<1>5. ReceiveTo(p, m, place)
  BY DEF ReceiveInRound
<1> HIDE DEF place
<1> QED
  BY <1>4, <1>5 DEF Receive

LEMMA WithinCall ==
  ASSUME ~Threaded, RoundsInv, NEW p \in Proc, UNCHANGED exchange_round_,
         Progress(p) \/ Callbacks(p) \/ Control(p),
         sentIn' \in [Msg -> 0..Rounds],
         /\ \A m \in Msg : loc'[m] # "dropped"
         /\ \A m \in Msg : loc'[m] \in {"mpi", "incoming"} =>
                             sentIn'[m] = exchange_round_[Owner[From[m]]] /\ ~Behind(Owner[From[m]])
  PROVE  RoundsInv'
<1>1. TypeOK /\ Structure /\ LatestCall!IInv /\ LeftBehind /\ OfLatestCall
  BY DEF RoundsInv
<1>2. \A q : Behind(q)' <=> Behind(q)
  BY DEF Behind
<1>3. ~Behind(p) /\ LatestCall!IInv'
  BY <1>1, SeenNext, CallStep
<1>4. TypeOK' /\ Structure'
  BY <1>1, TypeStep, StructureStep DEF Next
<1>5. RoundsTypeOK'
  BY <1>4 DEF RoundsInv, RoundsTypeOK, TypeOK
<1>6. LeftBehind'
  <2> SUFFICES ASSUME NEW q \in Proc, Behind(q)
               PROVE  (/\ mpc[q] = "left" /\ wpc[q] \in {"off", "idle"} /\ state[q] = 3
                       /\ \A b \in Local(q) : done[b]
                       /\ \A x \in Proc : exchange_round_[x] <= exchange_round_[q] + 1)'
    BY <1>2 DEF LeftBehind
  <2>1. q # p
    BY <1>3
  <2>2. /\ mpc'[q] = mpc[q] /\ wpc'[q] = wpc[q] /\ state'[q] = state[q]
        /\ \A b \in Local(q) : done'[b] = done[b]
    BY <1>1, <2>1, Elsewhere
  <2>3. Local(q)' = Local(q)
    BY DEF Local
  <2> QED
    BY <1>1, <2>2, <2>3 DEF LeftBehind
<1>7. OfLatestCall'
  <2>1. \A q \in Proc : flag'[q] = "no"
    BY <1>1, FlagStays DEF OfLatestCall
  <2> QED
    BY <1>2, <2>1 DEF OfLatestCall
<1> QED
  BY <1>3, <1>4, <1>5, <1>6, <1>7 DEF RoundsInv

LEMMA WithinStep ==
  ASSUME ~Threaded, RoundsInv, NEW p \in Proc,
         \/ (Start(p) \/ Poll(p) \/ Callbacks(p) \/ Control(p)) /\ UNCHANGED roundVars
         \/ \E m \in Msg : SendInRound(p, m) \/ ReceiveInRound(p, m)
  PROVE  RoundsInv'
<1>1. /\ TypeOK /\ Structure /\ LatestCall!IInv /\ LeftBehind /\ OfLatestCall
      /\ sentIn \in [Msg -> 0..Rounds] /\ exchange_round_ \in [Proc -> 1..Rounds]
  BY DEF RoundsInv, RoundsTypeOK
<1>2. ASSUME Start(p) \/ Poll(p) \/ Callbacks(p) \/ Control(p), UNCHANGED roundVars PROVE RoundsInv'
  <2>1. UNCHANGED exchange_round_ /\ UNCHANGED sentIn
    BY <1>2 DEF roundVars
  <2>2. Progress(p) \/ Callbacks(p) \/ Control(p)
    BY <1>2 DEF Progress
  <2>3. ~Behind(p)
    BY <1>1, <2>1, <2>2, SeenNext
  <2>4. \A m \in Msg : loc'[m] # "dropped" /\ (loc'[m] \in {"mpi", "incoming"} => loc'[m] = loc[m])
    BY <1>1, <1>2, <2>3, NoneSent DEF OfLatestCall
  <2>5. \A m \in Msg : loc'[m] \in {"mpi", "incoming"} =>
                         sentIn'[m] = exchange_round_[Owner[From[m]]] /\ ~Behind(Owner[From[m]])
    BY <1>1, <2>1, <2>4 DEF OfLatestCall
  <2> QED
    BY <1>1, <2>1, <2>2, <2>4, <2>5, WithinCall
<1>3. ASSUME NEW m \in Msg, SendInRound(p, m) PROVE RoundsInv'
  <2>1. /\ UNCHANGED exchange_round_ /\ sentIn' = [sentIn EXCEPT ![m] = exchange_round_[p]]
        /\ SendQueue(p, m) /\ Owner[From[m]] = p
        /\ loc' = [loc EXCEPT ![m] = IF Owner[To[m]] = p THEN "incoming" ELSE "mpi"]
    BY <1>3 DEF SendInRound, SendQueue
  <2>2. Progress(p)
    BY <2>1 DEF Progress
  <2>3. ~Behind(p)
    BY <1>1, <2>1, <2>2, SeenNext
  <2>4. sentIn' \in [Msg -> 0..Rounds]
    BY <1>1, <2>1, RoundsAssumption
  <2>5. /\ \A n \in Msg : loc'[n] # "dropped"
        /\ \A n \in Msg : loc'[n] \in {"mpi", "incoming"} =>
                            sentIn'[n] = exchange_round_[Owner[From[n]]] /\ ~Behind(Owner[From[n]])
    BY <1>1, <2>1, <2>3 DEF TypeOK, OfLatestCall
  <2> QED
    BY <1>1, <2>1, <2>2, <2>4, <2>5, WithinCall
<1>4. ASSUME NEW m \in Msg, ReceiveInRound(p, m) PROVE RoundsInv'
  <2>1. Receive(p, m)
    BY <1>4, ReceiveNow
  <2>2. UNCHANGED exchange_round_ /\ UNCHANGED sentIn
    BY <1>4 DEF ReceiveInRound, roundVars
  <2>3. loc[m] = "mpi" /\ loc' = [loc EXCEPT ![m] = "incoming"]
    BY <2>1 DEF Receive, ReceiveTo
  <2>4. Progress(p)
    BY <2>1 DEF Progress
  <2>5. /\ \A n \in Msg : loc'[n] # "dropped"
        /\ \A n \in Msg : loc'[n] \in {"mpi", "incoming"} =>
                            sentIn'[n] = exchange_round_[Owner[From[n]]] /\ ~Behind(Owner[From[n]])
    BY <1>1, <2>2, <2>3 DEF TypeOK, OfLatestCall
  <2> QED
    BY <1>1, <2>2, <2>4, <2>5, WithinCall
<1> QED
  BY <1>2, <1>3, <1>4

-----------------------------------------------------------------------------
(***************************************************************************)
(* The steps to the next call.                                             *)
(***************************************************************************)
\* What NextRound leaves of the types and of the places of things.
LEMMA NextRoundStructure ==
  ASSUME ~Threaded, TypeOK, Structure, NEW p \in Proc, NextRound(p), UNCHANGED loc
  PROVE  TypeOK' /\ Structure'
<1>1. mpc[p] = "left" /\ pend[p] = {} /\ FirstStep(p) \in {"control", "send"}
  BY DEF NextRound, Structure, CallbackAtBlock, FirstStep
<1>2. TypeOK'
  <2>1. Cardinality(Local(p)) \in Int
    BY Finite
  <2>2. Local(p) \in SUBSET Block
    BY DEF Local
  <2>3. /\ mpc' \in [Proc -> {"init", "send", "nudge", "check", "callback", "control", "enter", "join", "left"}]
        /\ wpc' \in [Proc -> {"off", "idle", "fill", "call", "push", "count"}]
        /\ todo' \in [Proc -> SUBSET Block]
    BY <1>1, <2>2 DEF NextRound, TypeOK
  <2>4. done' \in [Block -> BOOLEAN]
    BY DEF NextRound, TypeOK
  <2>5. local_work_' \in [Proc -> Int]
    BY <2>1 DEF NextRound, TypeOK
  <2>6. dirty' \in [Proc -> {0, 1}] /\ state' \in [Proc -> 0..3]
    BY DEF NextRound, TypeOK
  <2>7. UNCHANGED <<cur, pend, loc, inflight, flag, r, local_dirty, all_dirty>>
    BY DEF NextRound
  <2> QED
    BY <2>3, <2>4, <2>5, <2>6, <2>7 DEF TypeOK
<1>3. /\ UNCHANGED <<cur, pend, loc, inflight>>
      /\ mpc' = [mpc EXCEPT ![p] = FirstStep(p)] /\ wpc' = [wpc EXCEPT ![p] = "idle"]
  BY DEF NextRound
<1>4. NotBegun'
  <2> SUFFICES ASSUME NEW q \in Proc, mpc'[q] = "init"
               PROVE  (/\ local_work_[q] = 0 /\ wpc[q] = "off" /\ state[q] = 0 /\ inflight[q] = {}
                       /\ \A b \in Block : Owner[b] = q => ~done[b]
                       /\ \A m \in Msg : /\ Owner[From[m]] = q => loc[m] # "outgoing"
                                         /\ Owner[To[m]] = q => loc[m] # "incoming")'
    BY DEF NotBegun
  <2>1. q # p /\ mpc[q] = "init"
    BY <1>1, <1>3 DEF TypeOK
  <2>2. /\ local_work_[q] = 0 /\ wpc[q] = "off" /\ state[q] = 0 /\ inflight[q] = {}
        /\ \A b \in Block : Owner[b] = q => ~done[b]
        /\ \A m \in Msg : /\ Owner[From[m]] = q => loc[m] # "outgoing"
                          /\ Owner[To[m]] = q => loc[m] # "incoming"
    BY <2>1 DEF Structure, NotBegun
  <2>3. local_work_'[q] = local_work_[q] /\ wpc'[q] = wpc[q] /\ state'[q] = state[q]
    BY <2>1 DEF NextRound, TypeOK
  <2>4. \A b \in Block : done'[b] => done[b]
    BY DEF NextRound
  <2> QED
    BY <1>3, <2>2, <2>3, <2>4
<1>5. CallbackAtBlock'
  <2> SUFFICES ASSUME NEW q \in Proc
               PROVE  (/\ wpc[q] \in {"fill", "call"} => cur[q] \in Local(q)
                       /\ pend[q] # {} => wpc[q] \in {"push", "count"}
                       /\ wpc[q] \in {"off", "idle"} \/ Threaded \/ mpc[q] = "callback")'
    BY DEF CallbackAtBlock
  <2>1. CASE q = p
    BY <1>1, <1>3, <2>1 DEF TypeOK
  <2>2. CASE q # p
    <3>1. mpc'[q] = mpc[q] /\ wpc'[q] = wpc[q] /\ Local(q)' = Local(q)
      BY <1>3, <2>2 DEF TypeOK, Local
    <3> QED
      BY <1>3, <3>1 DEF Structure, CallbackAtBlock
  <2> QED
    BY <2>1, <2>2
<1>6. QueuesInPlace'
  BY <1>3 DEF Structure, QueuesInPlace
<1> QED
  BY <1>2, <1>4, <1>5, <1>6 DEF Structure

\* Whom others have overtaken begins the call that they are in.
LEMMA CatchUp ==
  ASSUME ~Threaded, RoundsInv, NEW p \in Proc, NextRound(p), Behind(p)
  PROVE  RoundsInv'
<1>1. /\ TypeOK /\ Structure /\ LatestCall!IInv /\ LeftBehind /\ OfLatestCall
      /\ sentIn \in [Msg -> 0..Rounds] /\ exchange_round_ \in [Proc -> 1..Rounds]
  BY DEF RoundsInv, RoundsTypeOK
<1>2. PICK o \in Proc : exchange_round_[o] > exchange_round_[p]
  BY DEF Behind
<1>3. exchange_round_[o] = exchange_round_[p] + 1
  <2>1. exchange_round_[o] <= exchange_round_[p] + 1
    BY DEF LeftBehind, RoundsInv
  <2> QED
    BY <1>1, <1>2, <2>1
<1>4. exchange_round_' = [exchange_round_ EXCEPT ![p] = exchange_round_[o]] /\ exchange_round_' \in [Proc -> 1..Rounds]
  BY <1>1, <1>3 DEF NextRound
<1>5. ~Behind(p)'
  <2>1. \A q \in Proc : exchange_round_[q] <= exchange_round_[o]
    BY <1>1, <1>3 DEF LeftBehind
  <2> QED
    BY <1>1, <1>4, <2>1 DEF Behind
<1>6. \A q \in Proc : q # p => (Behind(q)' <=> Behind(q))
  <2> SUFFICES ASSUME NEW q \in Proc, q # p PROVE Behind(q)' <=> Behind(q)
    OBVIOUS
  <2>1. exchange_round_'[q] = exchange_round_[q] /\ o # p
    BY <1>1, <1>2, <1>4
  <2>2. ASSUME NEW x \in Proc, exchange_round_'[x] > exchange_round_'[q] PROVE Behind(q)
    <3>1. exchange_round_'[x] \in {exchange_round_[x], exchange_round_[o]}
      BY <1>1, <1>4
    <3> QED
      BY <2>1, <2>2, <3>1 DEF Behind
  <2>3. ASSUME NEW x \in Proc, exchange_round_[x] > exchange_round_[q] PROVE Behind(q)'
    <3>1. exchange_round_'[x] >= exchange_round_[x]
      BY <1>1, <1>2, <1>4
    <3>2. exchange_round_'[x] > exchange_round_'[q]
      BY <1>1, <1>4, <2>1, <2>3, <3>1
    <3> QED
      BY <3>2 DEF Behind
  <2> QED
    BY <2>2, <2>3 DEF Behind
<1>7. mpcNow[p] = "init" /\ countNow[p] = 0 /\ dirtyNow[p] = 0
  BY DEF mpcNow, countNow, dirtyNow
<1>8. UNCHANGED loc
  <2>1. \A m \in Msg : loc[m] # "early" /\ (Owner[To[m]] = p => loc[m] # "incoming")
    BY <1>1, <1>7 DEF TypeOK, Places, LatestCall!IInv, LatestCall!CountInv, LatestCall!Structure, LatestCall!NotBegun
  <2>2. \A m \in Msg : loc'[m] = loc[m]
    BY <2>1 DEF NextRound
  <2>3. loc' = [m \in Msg |-> loc'[m]]
    BY DEF NextRound
  <2> QED
    BY <1>1, <2>2, <2>3 DEF TypeOK
<1>9. Now!Start(p)
  <2>1. Now!FirstStep(p) = FirstStep(p) /\ Now!Local(p) = Local(p)
    BY DEF FirstStep, Now!FirstStep, Local, Now!Local, Threaded, Now!Threaded
  <2>2. mpcNow' = [mpcNow EXCEPT ![p] = FirstStep(p)]
    <3>1. mpc' = [mpc EXCEPT ![p] = FirstStep(p)]
      BY DEF NextRound
    <3> QED
      BY <1>1, <1>5, <1>6, <3>1 DEF TypeOK, mpcNow
  <2>3. wpcNow' = [wpcNow EXCEPT ![p] = "idle"]
    BY <1>1, <1>5, <1>6 DEF NextRound, TypeOK, wpcNow
  <2>4. countNow' = [countNow EXCEPT ![p] = countNow[p] + Now!Cardinality(Local(p))]
    <3>1. local_work_' = [local_work_ EXCEPT ![p] = Cardinality(Local(p))]
      BY DEF NextRound
    <3>2. Cardinality(Local(p)) \in Nat
      BY <1>1, Finite
    <3>3. countNow' = [countNow EXCEPT ![p] = Cardinality(Local(p))]
      BY <1>1, <1>5, <1>6, <3>1 DEF TypeOK, countNow
    <3>4. countNow[p] + Now!Cardinality(Local(p)) = Cardinality(Local(p))
      BY <1>7, <3>2, SameNumber
    <3> QED
      BY <3>3, <3>4
  <2>5. dirtyNow' = [dirtyNow EXCEPT ![p] = IF countNow[p] + Now!Cardinality(Local(p)) > 0 THEN 1 ELSE dirtyNow[p]]
    <3> DEFINE d == IF Local(p) = {} THEN 0 ELSE 1
    <3>1. dirty' = [dirty EXCEPT ![p] = d]
      BY DEF NextRound
    <3>2. Cardinality(Local(p)) \in Nat /\ (Cardinality(Local(p)) = 0 <=> Local(p) = {})
      BY <1>1, Finite, FS_EmptySet
    <3>3. d = IF countNow[p] + Now!Cardinality(Local(p)) > 0 THEN 1 ELSE dirtyNow[p]
      BY <1>7, <3>2, SameNumber
    <3>4. dirtyNow' = [dirtyNow EXCEPT ![p] = d]
      <4> HIDE DEF d
      <4> QED
        BY <1>1, <1>5, <1>6, <3>1 DEF TypeOK, dirtyNow
    <3> QED
      BY <3>3, <3>4
  <2>6. UNCHANGED doneNow
    <3>1. \A b \in Block : doneNow'[b] = doneNow[b]
      <4> SUFFICES ASSUME NEW b \in Block PROVE doneNow'[b] = doneNow[b]
        OBVIOUS
      <4>1. done'[b] = (Owner[b] # p /\ done[b]) /\ done[b] \in BOOLEAN /\ Owner[b] \in Proc
        BY <1>1, ShapeAssumption DEF NextRound, TypeOK
      <4>2. CASE Owner[b] = p
        BY <1>5, <4>1, <4>2 DEF doneNow
      <4>3. CASE Owner[b] # p
        BY <1>6, <4>1, <4>3 DEF doneNow
      <4> QED
        BY <4>2, <4>3
    <3> QED
      BY <3>1 DEF doneNow
  <2>7. UNCHANGED stateNow
    BY <1>1, <1>5, <1>6 DEF NextRound, TypeOK, stateNow
  <2>8. todo' = [todo EXCEPT ![p] = Local(p)] /\ UNCHANGED <<cur, pend, inflight, flag, r, local_dirty, all_dirty>>
    BY DEF NextRound
  <2> QED
    BY <1>7, <1>8, <2>1, <2>2, <2>3, <2>4, <2>5, <2>6, <2>7, <2>8
    DEF Now!Start, Now!add_work, Now!queues, Now!detector
<1>10. LatestCall!IInv'
  <2>1. [Now!Next]_(Now!vars)
    BY <1>9 DEF Now!Next, Now!Progress
  <2> QED
    BY <1>1, <2>1, CallStep
<1>11. TypeOK' /\ Structure'
  BY <1>1, <1>8, NextRoundStructure
<1>12. RoundsTypeOK'
  BY <1>1, <1>4, <1>11 DEF NextRound, RoundsTypeOK, TypeOK
<1>13. LeftBehind'
  <2> SUFFICES ASSUME NEW q \in Proc, Behind(q)'
               PROVE  (/\ mpc[q] = "left" /\ wpc[q] \in {"off", "idle"} /\ state[q] = 3
                       /\ \A b \in Local(q) : done[b]
                       /\ \A x \in Proc : exchange_round_[x] <= exchange_round_[q] + 1)'
    BY DEF LeftBehind
  <2>1. q # p /\ Behind(q)
    BY <1>5, <1>6
  <2>2. /\ mpc'[q] = mpc[q] /\ wpc'[q] = wpc[q] /\ state'[q] = state[q]
        /\ exchange_round_'[q] = exchange_round_[q] /\ Local(q)' = Local(q)
    BY <1>1, <1>4, <2>1 DEF NextRound, TypeOK, Local
  <2>3. \A b \in Local(q) : done'[b] = done[b]
    BY <1>1, <2>1 DEF NextRound, Local, TypeOK
  <2>4. \A x \in Proc : exchange_round_'[x] <= exchange_round_[q] + 1
    <3>1. \A x \in Proc : exchange_round_[x] <= exchange_round_[q] + 1
      BY <1>1, <2>1 DEF LeftBehind
    <3> QED
      BY <1>1, <1>4, <3>1
  <2> QED
    BY <1>1, <2>1, <2>2, <2>3, <2>4 DEF LeftBehind
<1>14. OfLatestCall'
  <2>1. UNCHANGED <<sentIn, flag>>
    BY DEF NextRound
  <2>2. ASSUME NEW m \in Msg, loc[m] \in {"mpi", "incoming"}
        PROVE  (~Behind(Owner[From[m]]) /\ sentIn[m] = exchange_round_[Owner[From[m]]])'
    <3>1. ~Behind(Owner[From[m]]) /\ sentIn[m] = exchange_round_[Owner[From[m]]] /\ Owner[From[m]] \in Proc
      BY <1>1, <2>2, ShapeAssumption DEF OfLatestCall
    <3>2. Owner[From[m]] # p
      BY <3>1
    <3> QED
      BY <1>1, <1>4, <1>6, <2>1, <3>1, <3>2
  <2> QED
    BY <1>1, <1>8, <2>1, <2>2 DEF OfLatestCall
<1> QED
  BY <1>10, <1>11, <1>12, <1>13, <1>14 DEF RoundsInv

\* The first to begin the next call: all have left theirs, with nothing left.
LEMMA AllLeft ==
  ASSUME Barrier, RoundsInv, NEW p \in Proc, NextRound(p), ~Behind(p)
  PROVE  /\ \A q \in Proc : mpc[q] = "left" /\ state[q] = 3 /\ exchange_round_[q] = exchange_round_[p]
         /\ \A b \in Block : done[b]
         /\ \A m \in Msg : loc[m] \notin {"proxy", "outgoing", "mpi", "incoming", "early"}
         /\ \A q \in Proc : inflight[q] = {} /\ pend[q] = {} /\ r[q] = "null"
<1>1. /\ TypeOK /\ Structure /\ LatestCall!IInv /\ LeftBehind /\ OfLatestCall
      /\ sentIn \in [Msg -> 0..Rounds] /\ exchange_round_ \in [Proc -> 1..Rounds]
  BY DEF RoundsInv, RoundsTypeOK
<1>2. \A q \in Proc : exchange_round_[q] <= exchange_round_[p]
  BY <1>1 DEF Behind
<1>3. \A q \in Proc : mpc[q] = "left"
  BY <1>1, <1>2 DEF NextRound, Together
<1>4. stateNow[p] = 3
  BY <1>1, <1>3 DEF stateNow, mpcNow, LatestCall!IInv, LatestCall!Stages
<1>5. ASSUME NEW q \in Proc PROVE stateNow[q] # 0
  BY <1>1, <1>4 DEF LatestCall!IInv, LatestCall!Stages, LatestCall!Decided
<1>6. \A q \in Proc : ~Behind(q)
  BY <1>5 DEF stateNow
<1>7. \A q \in Proc : exchange_round_[q] = exchange_round_[p]
  BY <1>1, <1>2, <1>6 DEF Behind
<1>8. LatestCall!Drained
  BY <1>1, <1>4 DEF LatestCall!IInv, LatestCall!Detection
<1>9. \A b \in Block : done[b]
  BY <1>6, <1>8, ShapeAssumption DEF LatestCall!Drained, LatestCall!NoWork, doneNow
<1>10. \A q \in Proc : state[q] = 3 /\ r[q] = "null"
  <2> SUFFICES ASSUME NEW q \in Proc PROVE state[q] = 3 /\ r[q] = "null"
    OBVIOUS
  <2>1. mpcNow[q] = "left" /\ stateNow[q] = state[q]
    BY <1>3, <1>6 DEF mpcNow, stateNow
  <2> QED
    BY <1>1, <2>1 DEF LatestCall!IInv, LatestCall!Stages
<1>11. \A q \in Proc : inflight[q] = {} /\ pend[q] = {}
  <2>1. \A q \in Proc : pend[q] = {}
    <3> SUFFICES ASSUME NEW q \in Proc, pend[q] # {} PROVE FALSE
      OBVIOUS
    <3>1. PICK m \in Msg : m \in pend[q]
      BY <1>1 DEF TypeOK
    <3>2. loc[m] = "proxy"
      BY <1>1, <3>1 DEF Structure, QueuesInPlace
    <3> QED
      BY <1>8, <3>2 DEF LatestCall!Drained, LatestCall!NoWork
  <2> QED
    BY <1>8, <2>1 DEF LatestCall!Drained
<1>12. \A m \in Msg : loc[m] \notin {"proxy", "outgoing", "mpi", "incoming", "early"}
  BY <1>1, <1>8 DEF LatestCall!Drained, LatestCall!NoWork, TypeOK, Places
<1> QED
  BY <1>3, <1>7, <1>9, <1>10, <1>11, <1>12

LEMMA BeginNext ==
  ASSUME ~Threaded, Barrier, RoundsInv, NEW p \in Proc, NextRound(p), ~Behind(p)
  PROVE  RoundsInv'
<1>1. /\ TypeOK /\ Structure /\ LatestCall!IInv /\ LeftBehind /\ OfLatestCall
      /\ sentIn \in [Msg -> 0..Rounds] /\ exchange_round_ \in [Proc -> 1..Rounds]
  BY DEF RoundsInv, RoundsTypeOK
<1>2. /\ \A q \in Proc : mpc[q] = "left" /\ state[q] = 3 /\ exchange_round_[q] = exchange_round_[p]
      /\ \A b \in Block : done[b]
      /\ \A m \in Msg : loc[m] \notin {"proxy", "outgoing", "mpi", "incoming", "early"}
      /\ \A q \in Proc : inflight[q] = {} /\ pend[q] = {} /\ r[q] = "null"
  BY AllLeft
<1>3. /\ UNCHANGED <<cur, pend, inflight, flag, r, local_dirty, all_dirty, sentIn>>
      /\ exchange_round_' = [exchange_round_ EXCEPT ![p] = exchange_round_[p] + 1]
      /\ exchange_round_[p] < Rounds
  BY DEF NextRound
<1>4. exchange_round_' \in [Proc -> 1..Rounds] /\ exchange_round_'[p] = exchange_round_[p] + 1
  BY <1>1, <1>3, RoundsAssumption
<1>5. \A q \in Proc : exchange_round_'[q] = IF q = p THEN exchange_round_[p] + 1 ELSE exchange_round_[p]
  BY <1>1, <1>2, <1>3
<1>6. \A q \in Proc : Behind(q)' <=> q # p
  BY <1>1, <1>5 DEF Behind
<1>7. UNCHANGED loc
  <2>1. \A m \in Msg : loc'[m] = loc[m]
    BY <1>2 DEF NextRound
  <2>2. loc' = [m \in Msg |-> loc'[m]]
    BY DEF NextRound
  <2> QED
    BY <1>1, <2>1, <2>2 DEF TypeOK
<1>8. TypeOK' /\ Structure'
  BY <1>1, <1>7, NextRoundStructure
<1>9. /\ mpcNow' = [q \in Proc |-> IF q = p THEN FirstStep(p) ELSE "init"]
      /\ wpcNow' = [q \in Proc |-> IF q = p THEN "idle" ELSE "off"]
      /\ countNow' = [q \in Proc |-> IF q = p THEN Cardinality(Local(p)) ELSE 0]
      /\ dirtyNow' = [q \in Proc |-> IF q # p \/ Local(p) = {} THEN 0 ELSE 1]
      /\ stateNow' = [q \in Proc |-> 0]
  <2>1. mpcNow' = [q \in Proc |-> IF q = p THEN FirstStep(p) ELSE "init"]
    BY <1>1, <1>6 DEF NextRound, TypeOK, mpcNow
  <2>2. wpcNow' = [q \in Proc |-> IF q = p THEN "idle" ELSE "off"]
    BY <1>1, <1>6 DEF NextRound, TypeOK, wpcNow
  <2>3. countNow' = [q \in Proc |-> IF q = p THEN Cardinality(Local(p)) ELSE 0]
    BY <1>1, <1>6 DEF NextRound, TypeOK, countNow
  <2>4. dirtyNow' = [q \in Proc |-> IF q # p \/ Local(p) = {} THEN 0 ELSE 1]
    BY <1>1, <1>6 DEF NextRound, TypeOK, dirtyNow
  <2>5. stateNow' = [q \in Proc |-> 0]
    BY <1>1, <1>6 DEF NextRound, TypeOK, stateNow
  <2> QED
    BY <2>1, <2>2, <2>3, <2>4, <2>5
<1>10. doneNow' = [b \in Block |-> FALSE]
  <2>1. ASSUME NEW b \in Block PROVE doneNow'[b] = FALSE
    <3>1. done'[b] = (Owner[b] # p /\ done[b]) /\ Owner[b] \in Proc
      BY ShapeAssumption DEF NextRound
    <3> QED
      BY <1>6, <3>1 DEF doneNow
  <2> QED
    BY <2>1 DEF doneNow
<1>11. FirstStep(p) \in {"control", "send"}
  BY DEF FirstStep
<1>12. LatestCall!CountInv'
  <2>1. LatestCall!TypeOK'
    <3>1. Cardinality(Local(p)) \in Int
      BY <1>1, Finite
    <3>2. /\ mpcNow' \in [Proc -> {"init", "send", "nudge", "check", "callback", "control", "enter", "join", "left"}]
          /\ wpcNow' \in [Proc -> {"off", "idle", "fill", "call", "push", "count"}]
          /\ doneNow' \in [Block -> BOOLEAN]
          /\ countNow' \in [Proc -> Int] /\ dirtyNow' \in [Proc -> {0, 1}] /\ stateNow' \in [Proc -> 0..3]
      BY <1>9, <1>10, <1>11, <3>1
    <3> QED
      BY <1>8, <3>2 DEF TypeOK, Places, LatestCall!TypeOK, LatestCall!Places
  <2>2. LatestCall!Structure'
    <3>1. \A q \in Proc : mpcNow'[q] = "init" <=> q # p
      BY <1>9, <1>11
    <3>2. LatestCall!NotBegun'
      BY <1>2, <1>3, <1>7, <1>9, <1>10, <3>1 DEF LatestCall!NotBegun
    <3>3. LatestCall!CallbackAtBlock'
      BY <1>2, <1>3, <1>9 DEF LatestCall!CallbackAtBlock
    <3>4. LatestCall!QueuesInPlace'
      BY <1>8 DEF Structure, QueuesInPlace, LatestCall!QueuesInPlace
    <3> QED
      BY <3>2, <3>3, <3>4 DEF LatestCall!Structure
  <2>3. LatestCall!WorkCounted'
    <3> SUFFICES ASSUME NEW q \in Proc, LatestCall!Running(q)' PROVE countNow'[q] = LatestCall!Units(q)'
      BY DEF LatestCall!WorkCounted
    <3>1. q = p
      BY <1>9 DEF LatestCall!Running
    <3>2. LatestCall!NotDone(p)' = Local(p)
      BY <1>10 DEF LatestCall!NotDone, LatestCall!Local, Local
    <3>3. LatestCall!Sending(p)' = {} /\ LatestCall!Waiting(p)' = {}
      BY <1>2, <1>3, <1>7 DEF LatestCall!Sending, LatestCall!Waiting
    <3>4. LatestCall!Busy(p)' = 0
      BY <1>9 DEF LatestCall!Busy
    <3>5. Cardinality(Local(p)) \in Nat /\ Cardinality({}) = 0
      BY <1>1, Finite, FS_EmptySet
    <3>6. LatestCall!Units(p)' = Cardinality(Local(p)) + Cardinality({}) + Cardinality({}) + 0
      BY <3>2, <3>3, <3>4, SameNumber DEF LatestCall!Units
    <3> QED
      BY <1>9, <3>1, <3>5, <3>6
  <2> QED
    BY <2>1, <2>2, <2>3 DEF LatestCall!CountInv
<1>13. LatestCall!OneThread'
  <2>1. Cardinality(Local(p)) > 0 => Local(p) # {}
    BY FS_EmptySet
  <2> QED
    BY <1>9, <1>11, <2>1 DEF LatestCall!OneThread
<1>14. LatestCall!Stages' /\ LatestCall!Detection'
  BY <1>2, <1>3, <1>9, <1>11 DEF LatestCall!Stages, LatestCall!Detection, LatestCall!Reducing, LatestCall!Decided
<1>15. LatestCall!IInv'
  BY <1>12, <1>13, <1>14 DEF LatestCall!IInv
<1>16. RoundsTypeOK'
  BY <1>1, <1>3, <1>4, <1>8 DEF RoundsTypeOK, TypeOK
<1>17. LeftBehind'
  <2> SUFFICES ASSUME NEW q \in Proc, q # p
               PROVE  (/\ mpc[q] = "left" /\ wpc[q] \in {"off", "idle"} /\ state[q] = 3
                       /\ \A b \in Local(q) : done[b]
                       /\ \A x \in Proc : exchange_round_[x] <= exchange_round_[q] + 1)'
    BY <1>6 DEF LeftBehind
  <2>1. mpc'[q] = mpc[q] /\ wpc'[q] = wpc[q] /\ state'[q] = state[q] /\ Local(q)' = Local(q)
    BY <1>1 DEF NextRound, TypeOK, Local
  <2>2. \A b \in Local(q) : done'[b]
    BY <1>2 DEF NextRound, Local
  <2>3. wpc[q] \in {"off", "idle"}
    BY <1>1, <1>2 DEF Structure, CallbackAtBlock
  <2> QED
    BY <1>1, <1>2, <1>5, <2>1, <2>2, <2>3
<1>18. OfLatestCall'
  BY <1>1, <1>2, <1>3, <1>7 DEF OfLatestCall
<1> QED
  BY <1>8, <1>15, <1>16, <1>17, <1>18 DEF RoundsInv

-----------------------------------------------------------------------------
(***************************************************************************)
(* The theorems.                                                           *)
(***************************************************************************)
LEMMA RoundsInitInv == ASSUME ~Threaded, RoundsInit PROVE RoundsInv
<1>1. Init /\ exchange_round_ = [p \in Proc |-> 1] /\ sentIn = [m \in Msg |-> 0]
  BY DEF RoundsInit
<1>2. IInv
  BY <1>1, InitInv
<1>3. TypeOK /\ Structure
  BY <1>2 DEF IInv, CountInv
<1>4. RoundsTypeOK
  BY <1>1, <1>3, RoundsAssumption DEF RoundsTypeOK, TypeOK
<1>5. \A q \in Proc : ~Behind(q)
  BY <1>1 DEF Behind
<1>6. LeftBehind /\ OfLatestCall
  BY <1>1, <1>5 DEF LeftBehind, OfLatestCall, Init
<1>7. /\ mpcNow = mpc /\ wpcNow = wpc /\ countNow = local_work_ /\ dirtyNow = dirty /\ stateNow = state
      /\ doneNow = done
  BY <1>3, <1>5, ShapeAssumption DEF TypeOK, mpcNow, wpcNow, countNow, dirtyNow, stateNow, doneNow
<1>8. Now!Init
  BY <1>1, <1>7 DEF Init, Now!Init
<1>9. Now!IInv
  BY <1>8, FiniteAssumption, ShapeAssumption, SameFinite, Now!InitInv
<1> QED
  BY <1>3, <1>4, <1>6, <1>9, SameInv DEF RoundsInv

LEMMA RoundsStep == ASSUME ~Threaded, Barrier, RoundsInv, [RoundsNext]_allVars PROVE RoundsInv'
<1>1. CASE UNCHANGED allVars
  <2>1. UNCHANGED <<mpc, wpc, cur, todo, done, pend, loc, inflight, local_work_, dirty, flag, state, r, local_dirty,
                    all_dirty, exchange_round_, sentIn>>
    BY <1>1 DEF allVars, roundVars, vars, main, loop, queues, counter, detector
  <2>2. UNCHANGED <<mpcNow, wpcNow, doneNow, countNow, dirtyNow, stateNow>>
    BY <2>1, SeenSame
  <2>3. UNCHANGED Now!vars
    BY <2>1, <2>2 DEF Now!vars, Now!main, Now!loop, Now!queues, Now!counter, Now!detector
  <2>4. LatestCall!IInv'
    BY <2>3, CallStep DEF RoundsInv
  <2>5. TypeOK' /\ Structure'
    BY <1>1, TypeStep, StructureStep DEF RoundsInv, allVars
  <2>6. \A q : Behind(q)' <=> Behind(q)
    BY <2>1 DEF Behind
  <2>7. RoundsTypeOK'
    BY <2>1 DEF RoundsInv, RoundsTypeOK
  <2>8. LeftBehind'
    BY <2>1, <2>6 DEF RoundsInv, LeftBehind, Local
  <2>9. OfLatestCall'
    BY <2>1, <2>6 DEF RoundsInv, OfLatestCall
  <2> QED
    BY <2>4, <2>5, <2>7, <2>8, <2>9 DEF RoundsInv
<1>2. ASSUME NEW p \in Proc, NextRound(p) PROVE RoundsInv'
  BY <1>2, CatchUp, BeginNext
<1>3. ASSUME NEW p \in Proc,
             \/ (Start(p) \/ Poll(p) \/ Callbacks(p) \/ Control(p)) /\ UNCHANGED roundVars
             \/ \E m \in Msg : SendInRound(p, m) \/ ReceiveInRound(p, m)
      PROVE  RoundsInv'
  BY <1>3, WithinStep
<1> QED
  BY <1>1, <1>2, <1>3 DEF RoundsNext, RoundsFinished

(***************************************************************************)
(* With a barrier between the calls and one thread, every call is as in    *)
(* IExchange: ranks that have left one call are to the next like ranks     *)
(* that have not begun.                                                    *)
(***************************************************************************)
THEOREM RoundsInductive == ASSUME ~Threaded, Barrier PROVE RoundsSpec => []RoundsInv
<1>1. RoundsInit => RoundsInv
  BY RoundsInitInv
<1>2. RoundsInv /\ [RoundsNext]_allVars => RoundsInv'
  BY RoundsStep
<1> QED
  BY <1>1, <1>2, PTL DEF RoundsSpec

(***************************************************************************)
(* With a barrier between the calls and one thread, no rank leaves a call  *)
(* while a block waits to be called in it or a queue of it is on its way.  *)
(***************************************************************************)
THEOREM NoEarlyExitInRounds == ASSUME ~Threaded, Barrier PROVE RoundsSpec => []NoEarlyExitFromRound
<1>1. RoundsInv => NoEarlyExitFromRound
  <2> SUFFICES ASSUME RoundsInv, NEW p \in Proc, state[p] = 3
               PROVE  /\ \A b \in Block : exchange_round_[Owner[b]] <= exchange_round_[p] =>
                            done[b] /\ exchange_round_[Owner[b]] = exchange_round_[p]
                      /\ \A m \in Msg : loc[m] \in {"proxy", "outgoing", "mpi", "incoming", "early"} =>
                            RoundOf(m) > exchange_round_[p]
    BY DEF NoEarlyExitFromRound
  <2>1. /\ TypeOK /\ Structure /\ LatestCall!IInv /\ LeftBehind /\ OfLatestCall
        /\ exchange_round_ \in [Proc -> 1..Rounds]
    BY DEF RoundsInv, RoundsTypeOK
  <2>2. \A b \in Block : Owner[b] \in Proc
    BY ShapeAssumption
  <2>3. \A m \in Msg : Owner[From[m]] \in Proc /\ Owner[To[m]] \in Proc
    BY ShapeAssumption
  <2>4. CASE ~Behind(p)
    <3>1. LatestCall!Drained
      BY <2>1, <2>4 DEF stateNow, LatestCall!IInv, LatestCall!Detection
    <3>2. ASSUME NEW b \in Block PROVE done[b] /\ ~Behind(Owner[b])
      BY <3>1 DEF LatestCall!Drained, LatestCall!NoWork, doneNow
    <3>3. ASSUME NEW b \in Block, exchange_round_[Owner[b]] <= exchange_round_[p]
          PROVE  exchange_round_[Owner[b]] = exchange_round_[p]
      BY <2>1, <2>2, <3>2, <3>3 DEF Behind
    <3>4. \A m \in Msg : loc[m] \notin {"proxy", "outgoing", "mpi", "incoming", "early"}
      BY <2>1, <3>1 DEF LatestCall!Drained, LatestCall!NoWork, TypeOK, Places
    <3> QED
      BY <3>2, <3>3, <3>4
  <2>5. CASE Behind(p)
    <3>1. PICK o \in Proc : exchange_round_[o] > exchange_round_[p]
      BY <2>5 DEF Behind
    <3>2. ASSUME NEW b \in Block, exchange_round_[Owner[b]] <= exchange_round_[p]
          PROVE  done[b] /\ exchange_round_[Owner[b]] = exchange_round_[p]
      <4>1. Behind(Owner[b])
        BY <2>1, <2>2, <3>1, <3>2 DEF Behind
      <4>2. b \in Local(Owner[b]) /\ exchange_round_[o] <= exchange_round_[Owner[b]] + 1
        BY <2>1, <2>2, <4>1 DEF LeftBehind, Local
      <4> QED
        BY <2>1, <2>2, <3>1, <3>2, <4>1, <4>2 DEF LeftBehind
    <3>3. ASSUME NEW m \in Msg, loc[m] \in {"proxy", "outgoing", "mpi", "incoming", "early"}
          PROVE  RoundOf(m) > exchange_round_[p]
      <4>1. ASSUME ~Behind(Owner[From[m]]) PROVE exchange_round_[Owner[From[m]]] > exchange_round_[p]
        BY <2>1, <2>3, <3>1, <4>1 DEF Behind
      <4>2. CASE loc[m] \in {"proxy", "outgoing"}
        <5>1. ASSUME Behind(Owner[From[m]]) PROVE FALSE
          <6>1. mpcNow[Owner[From[m]]] = "init" /\ wpcNow[Owner[From[m]]] = "off"
            BY <2>3, <5>1 DEF mpcNow, wpcNow
          <6> QED
            BY <2>1, <2>3, <4>2, <6>1 DEF LatestCall!IInv, LatestCall!CountInv, LatestCall!Structure,
               LatestCall!NotBegun, LatestCall!CallbackAtBlock, LatestCall!QueuesInPlace
        <5> QED
          BY <4>1, <4>2, <5>1 DEF RoundOf
      <4>3. CASE loc[m] \in {"mpi", "incoming"}
        BY <2>1, <4>1, <4>3 DEF OfLatestCall, RoundOf
      <4>4. loc[m] # "early"
        BY <2>1 DEF TypeOK, Places
      <4> QED
        BY <3>3, <4>2, <4>3, <4>4
    <3> QED
      BY <3>2, <3>3
  <2> QED
    BY <2>4, <2>5
<1> QED
  BY <1>1, RoundsInductive, PTL

(***************************************************************************)
(* With a barrier between the calls and one thread, no queue is filed      *)
(* under a round that is over, and none is thrown away.                    *)
(***************************************************************************)
THEOREM NoQueueLostInRounds == ASSUME ~Threaded, Barrier PROVE RoundsSpec => []NoQueueLost
<1>1. RoundsInv => NoQueueLost
  BY DEF RoundsInv, OfLatestCall, TypeOK, Places, NoQueueLost
<1> QED
  BY <1>1, RoundsInductive, PTL
=============================================================================
