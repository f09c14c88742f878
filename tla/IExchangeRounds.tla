--------------------------- MODULE IExchangeRounds ---------------------------
(***************************************************************************)
(* Consecutive calls of Master::iexchange on the same Master.  Each call   *)
(* is a round with its own detector and its own incoming queues            *)
(* (incoming_[exchange_round_]); a message carries the round it was sent   *)
(* in.  Nothing but the detector keeps the ranks together: the barrier at  *)
(* the end of iexchange_ is commented out, as "only necessary for DUD".    *)
(* Barrier says whether the program puts one between its calls.            *)
(***************************************************************************)
EXTENDS IExchange

CONSTANTS Rounds,       \* how many times iexchange is called
          Barrier       \* TRUE: all ranks synchronize between two calls

ASSUME RoundsAssumption == Rounds \in Nat \ {0} /\ Barrier \in BOOLEAN

VARIABLES exchange_round_,      \* the round each rank is in
          sentIn                \* MessageInfo::round of each queue that was sent

roundVars == <<exchange_round_, sentIn>>
allVars   == <<vars, roundVars>>

RoundsTypeOK ==
  /\ exchange_round_ \in [Proc -> 1..Rounds]
  /\ sentIn \in [Msg -> 0..Rounds]
  /\ loc \in [Msg -> Places \cup {"early", "stale"}]

RoundsInit == /\ Init
              /\ exchange_round_ = [p \in Proc |-> 1]
              /\ sentIn = [m \in Msg |-> 0]

\* Mutants: the round is stamped before it is raised, or raised twice.
SendInRound_Last(p, m) ==
  /\ SendQueue(p, m)
  /\ sentIn' = [sentIn EXCEPT ![m] = exchange_round_[p] - 1]
  /\ UNCHANGED exchange_round_

SendInRound_Next(p, m) ==
  /\ SendQueue(p, m)
  /\ sentIn' = [sentIn EXCEPT ![m] = exchange_round_[p] + 1]
  /\ UNCHANGED exchange_round_

\* send_different_rank stamps the message with the sender's round, and
\* send_same_rank puts the queue in this round's incoming queues.
SendInRound(p, m) ==
  /\ SendQueue(p, m)
  /\ sentIn' = [sentIn EXCEPT ![m] = exchange_round_[p]]
  /\ UNCHANGED exchange_round_

\* The queue goes to the incoming queues of the round it was sent in, which
\* may be one this rank has not reached; its unit goes to the detector of the
\* round this rank is in.
ReceiveInRound(p, m) ==
  /\ ReceiveTo(p, m, CASE sentIn[m] = exchange_round_[p] -> "incoming"
                       [] sentIn[m] > exchange_round_[p] -> "early"
                       [] OTHER -> "stale")
  /\ UNCHANGED roundVars

\* No rank is still inside the round that p has left.
Together(p) == \A q \in Proc : \/ exchange_round_[q] > exchange_round_[p]
                              \/ mpc[q] = "left"

\* The next call: the incoming queues of the last round are erased, those of
\* the new one may already hold queues, and a new detector starts with one
\* unit per block.  inflight_sends stay as they are.
NextRound(p) ==
  /\ mpc[p] = "left"
  /\ exchange_round_[p] < Rounds
  /\ Barrier => Together(p)
  /\ exchange_round_' = [exchange_round_ EXCEPT ![p] = @ + 1]
  /\ loc' = [m \in Msg |->
               CASE Owner[To[m]] = p /\ loc[m] = "incoming" -> "dropped"
                 [] /\ Owner[To[m]] = p
                    /\ loc[m] = "early"
                    /\ sentIn[m] = exchange_round_[p] + 1 -> "incoming"
                 [] OTHER -> loc[m]]
  /\ done' = [b \in Block |-> Owner[b] # p /\ done[b]]
  /\ todo' = [todo EXCEPT ![p] = Local(p)]
  /\ wpc' = [wpc EXCEPT ![p] = "idle"]
  /\ mpc' = [mpc EXCEPT ![p] = FirstStep(p)]
  /\ local_work_' = [local_work_ EXCEPT ![p] = Cardinality(Local(p))]
  /\ dirty' = [dirty EXCEPT ![p] = IF Local(p) = {} THEN 0 ELSE 1]
  /\ state' = [state EXCEPT ![p] = 0]
  /\ UNCHANGED <<cur, pend, inflight, flag, r, local_dirty, all_dirty, sentIn>>

RoundsFinished ==
  /\ \A p \in Proc : mpc[p] = "left" /\ exchange_round_[p] = Rounds
  /\ UNCHANGED allVars

RoundsNext ==
  \/ \E p \in Proc :
       \/ (Start(p) \/ Poll(p) \/ Callbacks(p) \/ Control(p)) /\ UNCHANGED roundVars
       \/ \E m \in Msg : SendInRound(p, m) \/ ReceiveInRound(p, m)
       \/ NextRound(p)
  \/ RoundsFinished

RoundsSpec == RoundsInit /\ [][RoundsNext]_allVars

-----------------------------------------------------------------------------
\* The round that a queue belongs to: the one it is stamped with or, before
\* it is sent, the one its sender is in.
RoundOf(m) == IF loc[m] \in {"proxy", "outgoing"} THEN exchange_round_[Owner[From[m]]]
                                                  ELSE sentIn[m]

(***************************************************************************)
(* A rank decides to return from a round only when the round is over: no   *)
(* block anywhere is still waiting to be called in it and none of its      *)
(* queues is still on its way (doc async_comm.md: "DIY confirms that there *)
(* are no pending messages in flight").  The rank it speaks of may be      *)
(* ahead of others that have not begun the round.                          *)
(***************************************************************************)
NoEarlyExitFromRound ==
  \A p \in Proc : state[p] = 3 =>
    /\ \A b \in Block : exchange_round_[Owner[b]] <= exchange_round_[p] =>
         done[b] /\ exchange_round_[Owner[b]] = exchange_round_[p]
    /\ \A m \in Msg : loc[m] \in {"proxy", "outgoing", "mpi", "incoming", "early"} =>
         RoundOf(m) > exchange_round_[p]

(***************************************************************************)
(* No queue arrives in a round that its receiver has left (the assertion   *)
(* "ir.info.round >= exchange_round_" of check_incoming_queues), and none  *)
(* is thrown away with the queues of an old round.                         *)
(***************************************************************************)
NoQueueLost == \A m \in Msg : loc[m] \notin {"stale", "dropped"}

-----------------------------------------------------------------------------
(***************************************************************************)
(* The inductive invariant behind these properties, with one thread and a  *)
(* barrier.  A rank that is behind has left its call, and the latest call  *)
(* it has not begun; seen so, all is as in a single call.                  *)
(***************************************************************************)
Behind(p) == \E q \in Proc : exchange_round_[q] > exchange_round_[p]

mpcNow   == [p \in Proc |-> IF Behind(p) THEN "init" ELSE mpc[p]]
wpcNow   == [p \in Proc |-> IF Behind(p) THEN "off" ELSE wpc[p]]
doneNow  == [b \in Block |-> IF Behind(Owner[b]) THEN FALSE ELSE done[b]]
countNow == [p \in Proc |-> IF Behind(p) THEN 0 ELSE local_work_[p]]
dirtyNow == [p \in Proc |-> IF Behind(p) THEN 0 ELSE dirty[p]]
stateNow == [p \in Proc |-> IF Behind(p) THEN 0 ELSE state[p]]

LatestCall == INSTANCE IExchange WITH mpc <- mpcNow, wpc <- wpcNow, done <- doneNow,
                                      local_work_ <- countNow, dirty <- dirtyNow, state <- stateNow

\* Who is behind has left the call before the latest, with its blocks done.
LeftBehind == \A p \in Proc : Behind(p) =>
  /\ mpc[p] = "left" /\ wpc[p] \in {"off", "idle"} /\ state[p] = 3
  /\ \A b \in Local(p) : done[b]
  /\ \A q \in Proc : exchange_round_[q] <= exchange_round_[p] + 1

\* Queues on their way are of the latest call.
OfLatestCall ==
  /\ \A m \in Msg : loc[m] \in {"mpi", "incoming"} =>
       ~Behind(Owner[From[m]]) /\ sentIn[m] = exchange_round_[Owner[From[m]]]
  /\ \A m \in Msg : loc[m] # "dropped"
  /\ \A p \in Proc : flag[p] = "no"

RoundsInv == RoundsTypeOK /\ TypeOK /\ Structure /\ LatestCall!IInv /\ LeftBehind /\ OfLatestCall
=============================================================================
