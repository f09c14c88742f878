------------------------------ MODULE OutOfCore ------------------------------
(***************************************************************************)
(* A Master that keeps at most limit_ blocks in memory                     *)
(* (include/diy/master.hpp: add, foreach, execute, load, unload, exchange; *)
(* detail/master/execution.hpp: ProcessBlock; collection.hpp; storage.hpp).*)
(*                                                                         *)
(* Threads take the blocks of the rank one after the other, the loaded     *)
(* ones first; a thread that needs room unloads the blocks it has          *)
(* processed.  With a block go its queues, but only the large ones, and    *)
(* only the first of each is loaded again.  An exchange moves queues       *)
(* between blocks that are in memory and blocks that are not.              *)
(*                                                                         *)
(* One rank is modelled; what its neighbors send and when follows from     *)
(* Exchange: a queue from each linked block per round, at most one round   *)
(* ahead.  The number of messages in flight, which order_gids limits, and  *)
(* their completion are Exchange's subject.                                *)
(***************************************************************************)
EXTENDS Integers, Sequences, FiniteSets, SequencesExt, FiniteSetsExt

CONSTANTS Block,        \* the blocks of the rank
          Away,         \* the blocks of other ranks that are linked to them
          Link,         \* the pairs of linked blocks with an end on this rank
          Order,        \* the blocks of the rank in the order they are added
          Rounds,       \* the number of exchanges
          Foreachs,     \* the number of calls of foreach before each exchange
          Skips,        \* those of them that skip blocks without incoming
          Targets,      \* Targets[b, f]: the sets of blocks that b's callback of call f
                        \* may enqueue to
          threads_,     \* the number of threads that the program asks for
          limit_,       \* the number of blocks in memory, or -1
          Large,        \* the pairs whose queues are larger than the queue policy's size
          Early,        \* the pairs whose queues may come a round early
          NoBlock

ASSUME OutOfCoreAssumption ==
  /\ IsFiniteSet(Block) /\ IsFiniteSet(Away) /\ Block \cap Away = {}
  /\ Link \subseteq ((Block \cup Away) \X (Block \cup Away)) \ (Away \X Away)
  /\ \A l \in Link : <<l[2], l[1]>> \in Link
  /\ Order \in [1..Cardinality(Block) -> Block] /\ ToSet(Order) = Block
  /\ Rounds \in Nat /\ Foreachs \in Nat \ {0} /\ Skips \subseteq 1..Foreachs
  /\ Targets \in [Block \X (1..Foreachs) -> SUBSET SUBSET (Block \cup Away)]
  /\ \A x \in DOMAIN Targets : \A S \in Targets[x] : \A c \in S : <<x[1], c>> \in Link
  /\ threads_ \in Nat \ {0}
  /\ limit_ \in (Nat \ {0}) \cup {-1}
  /\ Large \subseteq Link /\ Early \subseteq {l \in Link : l[1] \in Away}
  /\ NoBlock \notin Block

In(b)  == {l \in Link : l[2] = b}
Out(b) == {l \in Link : l[1] = b}
Place(b) == CHOOSE i \in DOMAIN Order : Order[i] = b
Inside == {l \in Link : l[1] \in Block /\ l[2] \in Block}
FromHere == {l \in Link : l[1] \in Block}
ToHere   == {l \in Link : l[2] \in Block}

\* No file, in place of a file's number.
None == 0

\* A queue: its size when it was unloaded, its file, its items in memory.  The
\* deque of a pair never holds more than one outside of iexchange.
QueueRecord(items) == [size_ |-> Len(items), external_ |-> None, buffer_ |-> items]
NoQueue == [size_ |-> -1, external_ |-> None, buffer_ |-> <<>>]

external(qr) == qr.external_ # None
SizeOf(qr) == IF external(qr) THEN qr.size_ ELSE Len(qr.buffer_)

\* QueueSizePolicy: queues above its size are unloaded.
Unloads(l, qr) == l \in Large /\ SizeOf(qr) > 0

VARIABLES
  phase,            \* "add", "foreach", "execute", "flush"; "thrown" is the end
  called,           \* the calls of foreach since the last exchange
  immediate_,       \* foreach executes at once
  commands_,        \* the calls that have not been executed
  exchange_round_,  \* 0 before the first exchange (-1 in the code)
  elements_,        \* the content of the blocks in memory
  external_,        \* the files of the others
  outgoing_,        \* outgoing_[from, to]: the queues to be sent
  incoming_,        \* incoming_[k][from, to]: the queues of round k
  received,         \* how many queues of each round have come
  wire,             \* what was sent to other ranks in the last exchange
  files,            \* the storage: what each file holds
  blocks,           \* execute(): the blocks that no thread has taken
  cur, at, local,   \* each thread's block, what it does with it, the blocks it has loaded
  gid_order         \* flush(): the blocks whose queues have not been sent

stored  == <<elements_, external_, outgoing_, incoming_, files>>
threads == <<blocks, cur, at, local>>
program == <<phase, called, immediate_, commands_, exchange_round_, received, wire, gid_order>>
vars == <<stored, threads, program>>

\* A block's content: how often it has run, and how much it has read from whom.
NewBlock(b) == [runs |-> 0, read |-> [l \in In(b) |-> 0]]
Absent == [runs |-> -1, read |-> <<>>]
InMemory(b) == elements_[b] # Absent
Added(b) == InMemory(b) \/ external_[b] # None
loaded == {b \in Block : InMemory(b)}
in_memory == Cardinality(loaded)

\* execute(): how many threads run, and how many blocks each may keep.
num_threads == IF limit_ = -1 \/ threads_ <= limit_ THEN threads_ ELSE limit_
blocks_per_thread == IF limit_ = -1 THEN Cardinality(Block) ELSE limit_ \div num_threads
Worker == 1..num_threads

Init ==
  /\ phase = (IF Block = {} THEN "foreach" ELSE "add") /\ called = 0
  /\ immediate_ = TRUE /\ commands_ = <<>> /\ exchange_round_ = 0
  /\ elements_ = [b \in Block |-> Absent]
  /\ external_ = [b \in Block |-> None]
  /\ outgoing_ = [l \in FromHere |-> NoQueue]
  /\ incoming_ = [k \in 0..Rounds |-> [l \in ToHere |-> NoQueue]]
  /\ received = [k \in 0..Rounds |-> 0]
  /\ wire = [l \in FromHere \ Inside |-> <<>>]
  /\ files = [f \in {} |-> <<>>]
  /\ blocks = <<>>
  /\ cur = [t \in Worker |-> NoBlock]
  /\ at = [t \in Worker |-> "next"]
  /\ local = [t \in Worker |-> {}]
  /\ gid_order = {}

-----------------------------------------------------------------------------
(***************************************************************************)
(* The storage.  What can be unloaded and loaded is named by its place:    *)
(* <<"block", b>>, <<"out", l>> or <<"in", k, l>>.                         *)
(***************************************************************************)
Places(b) == {<<"block", b>>} \cup {<<"out", l>> : l \in Out(b)} \cup {<<"in", k, l>> : k \in 0..Rounds, l \in In(b)}
RecordAt(x) == IF x[1] = "out" THEN outgoing_[x[2]] ELSE incoming_[x[2]][x[3]]

\* make_file_record: a new file for each of the places S.
NewFiles(S) ==
  LET free == 1..(Cardinality(DOMAIN files) + Cardinality(S)) \ DOMAIN files
  IN  CHOOSE f \in [S -> free] : IsInjective(f)

\* QueueRecord::unload writes what is in memory, whether or not that is all.
Unloaded(qr, f) == [size_ |-> Len(qr.buffer_), external_ |-> f, buffer_ |-> <<>>]

\* Write what is at the places S, and empty them.
Put(S) ==
  LET f == NewFiles(S)
      Body(x) == IF x[1] = "block" THEN elements_[x[2]] ELSE RecordAt(x).buffer_
  IN  /\ files' = [n \in DOMAIN files \cup {f[x] : x \in S} |->
                     IF n \in DOMAIN files THEN files[n] ELSE Body(CHOOSE x \in S : f[x] = n)]
      /\ elements_' = [b \in Block |-> IF <<"block", b>> \in S THEN Absent ELSE elements_[b]]
      /\ external_' = [b \in Block |-> IF <<"block", b>> \in S THEN f[<<"block", b>>] ELSE external_[b]]
      /\ outgoing_' = [l \in FromHere |->
           IF <<"out", l>> \in S THEN Unloaded(outgoing_[l], f[<<"out", l>>]) ELSE outgoing_[l]]
      /\ incoming_' = [k \in 0..Rounds |-> [l \in ToHere |->
           IF <<"in", k, l>> \in S THEN Unloaded(incoming_[k][l], f[<<"in", k, l>>]) ELSE incoming_[k][l]]]

\* QueueRecord::load
Loaded(qr) == QueueRecord(files[qr.external_])

\* Read the places S back, and remove their files.
Get(S) ==
  LET f == [x \in S |-> IF x[1] = "block" THEN external_[x[2]] ELSE RecordAt(x).external_]
  IN  /\ files' = [n \in DOMAIN files \ {f[x] : x \in S} |-> files[n]]
      /\ elements_' = [b \in Block |-> IF <<"block", b>> \in S THEN files[external_[b]] ELSE elements_[b]]
      /\ external_' = [b \in Block |-> IF <<"block", b>> \in S THEN None ELSE external_[b]]
      /\ outgoing_' = [l \in FromHere |-> IF <<"out", l>> \in S THEN Loaded(outgoing_[l]) ELSE outgoing_[l]]
      /\ incoming_' = [k \in 0..Rounds |-> [l \in ToHere |->
           IF <<"in", k, l>> \in S THEN Loaded(incoming_[k][l]) ELSE incoming_[k][l]]]

\* unload_queues: the large queues of a block, in all rounds.
LargeQueues(b) == {x \in Places(b) : x[1] # "block" /\ Unloads(Last(x), RecordAt(x))}

\* unload, of the blocks B.
Unload(B) == Put(UNION {LargeQueues(b) \cup {<<"block", b>>} : b \in B})

\* load_outgoing: queues to the same rank are left in their files.
OutgoingToLoad(b) == {<<"out", l>> : l \in {x \in Out(b) : external(outgoing_[x]) /\ x[2] \in Away}}

\* Mutant: the incoming queues stay in their files.
QueuesToLoadOut(b) == OutgoingToLoad(b)

\* load_queues: of the incoming ones those of this round.
QueuesToLoad(b) ==
  OutgoingToLoad(b) \cup {<<"in", exchange_round_, l>> : l \in {x \in In(b) : external(incoming_[exchange_round_][x])}}

-----------------------------------------------------------------------------
\* Master::add, first its unload_all when the limit is reached.
UnloadAll ==
  /\ phase = "add" /\ in_memory = limit_
  /\ Unload(loaded)
  /\ UNCHANGED <<threads, program>>

Add(b) ==
  /\ phase = "add" /\ in_memory # limit_
  /\ ~Added(b) /\ \A c \in Block : Place(c) < Place(b) => Added(c)
  /\ elements_' = [elements_ EXCEPT ![b] = NewBlock(b)]
  /\ phase' = IF \A c \in Block \ {b} : Added(c) THEN "foreach" ELSE phase
  /\ UNCHANGED <<external_, outgoing_, incoming_, files, threads, called, immediate_, commands_, exchange_round_,
                 received, wire, gid_order>>

\* execute() takes the blocks in memory first, the last added of them foremost.
Before(b, c) == IF InMemory(b) THEN ~InMemory(c) \/ Place(b) > Place(c)
                ELSE ~InMemory(c) /\ Place(b) < Place(c)

Ordered == {s \in SetToSeqs(Block) : \A i, j \in DOMAIN s : i < j => Before(s[i], s[j])}

\* foreach_: a command more, executed at once or not.
Foreach ==
  /\ phase = "foreach" /\ called < Foreachs
  /\ called' = called + 1
  /\ commands_' = Append(commands_, called')
  /\ IF immediate_ THEN phase' = "execute" /\ blocks' \in Ordered ELSE UNCHANGED <<phase, blocks>>
  /\ UNCHANGED <<stored, cur, at, local, immediate_, exchange_round_, received, wire, gid_order>>

\* set_immediate: what is pending is executed when foreach is to be immediate again.
SetImmediate(i) ==
  /\ phase = "foreach" /\ called < Foreachs /\ i # immediate_
  /\ immediate_' = i
  /\ IF i /\ commands_ # <<>> THEN phase' = "execute" /\ blocks' \in Ordered ELSE UNCHANGED <<phase, blocks>>
  /\ UNCHANGED <<stored, cur, at, local, called, commands_, exchange_round_, received, wire, gid_order>>

\* exchange(), or the end of the program, executes what is pending.
ExecutePending ==
  /\ phase = "foreach" /\ called = Foreachs /\ commands_ # <<>>
  /\ phase' = "execute"
  /\ blocks' \in Ordered
  /\ UNCHANGED <<stored, cur, at, local, called, immediate_, commands_, exchange_round_, received, wire, gid_order>>

-----------------------------------------------------------------------------
(***************************************************************************)
(* ProcessBlock: what a thread of execute() does with one block.           *)
(***************************************************************************)
HasIncoming(b) == \E l \in In(b) : SizeOf(incoming_[exchange_round_][l]) > 0

\* all_skip: every command skips the block.
AllSkip(b) == ToSet(commands_) \subseteq Skips /\ ~HasIncoming(b)

\* Mutant: a block too many.
FullTooLate(t) == Cardinality(local[t]) = blocks_per_thread + 1

Full(t) == Cardinality(local[t]) = blocks_per_thread

\* The next block of the shared list.
Take(t) ==
  /\ phase = "execute" /\ at[t] = "next" /\ blocks # <<>>
  /\ cur' = [cur EXCEPT ![t] = Head(blocks)]
  /\ blocks' = Tail(blocks)
  /\ at' = [at EXCEPT ![t] = "taken"]
  /\ UNCHANGED <<stored, local, program>>

\* A block in memory: the thread keeps it, in the place of those it has.
Hold(t) ==
  /\ at[t] = "taken" /\ InMemory(cur[t])
  /\ Unload(IF Full(t) THEN local[t] ELSE {})
  /\ local' = [local EXCEPT ![t] = (IF Full(t) THEN {} ELSE @) \cup {cur[t]}]
  /\ at' = [at EXCEPT ![t] = "ready"]
  /\ UNCHANGED <<blocks, cur, program>>

\* Mutant: whether or not the block is skipped.
LoadQueuesOnly(t) ==
  /\ at[t] = "taken" /\ ~InMemory(cur[t])
  /\ Get(QueuesToLoad(cur[t]))
  /\ at' = [at EXCEPT ![t] = "ready"]
  /\ UNCHANGED <<blocks, cur, local, program>>

\* Only the queues of a block that is skipped are loaded.
LoadQueues(t) ==
  /\ at[t] = "taken" /\ ~InMemory(cur[t]) /\ AllSkip(cur[t])
  /\ Get(QueuesToLoad(cur[t]))
  /\ at' = [at EXCEPT ![t] = "ready"]
  /\ UNCHANGED <<blocks, cur, local, program>>

MakeRoom(t) ==
  /\ at[t] = "taken" /\ ~InMemory(cur[t]) /\ ~AllSkip(cur[t]) /\ Full(t)
  /\ Unload(local[t])
  /\ local' = [local EXCEPT ![t] = {}]
  /\ UNCHANGED <<blocks, cur, at, program>>

\* load, the block and its queues.
Load(t) ==
  /\ at[t] = "taken" /\ ~InMemory(cur[t]) /\ ~AllSkip(cur[t]) /\ ~Full(t)
  /\ Get({<<"block", cur[t]>>} \cup QueuesToLoad(cur[t]))
  /\ local' = [local EXCEPT ![t] = @ \cup {cur[t]}]
  /\ at' = [at EXCEPT ![t] = "ready"]
  /\ UNCHANGED <<blocks, cur, program>>

\* What the callbacks of all commands may enqueue to.
Sendings(b) == {to \in [DOMAIN commands_ -> SUBSET {l[2] : l \in Out(b)}] :
                 \A i \in DOMAIN commands_ : to[i] \in Targets[b, commands_[i]]}

\* The numbers of a set in their order.
InOrder(D) == CHOOSE s \in [1..Cardinality(D) -> D] : \A i, j \in DOMAIN s : i < j => s[i] < s[j]

\* What the commands with the target sets "to" enqueue to block c.
Mail(to, c) ==
  LET calls == InOrder({i \in DOMAIN to : c \in to[i]})
  IN  [j \in DOMAIN calls |-> <<exchange_round_, commands_[calls[j]]>>]

\* Proxy: the queues in memory, moved out of the master.
Moved(qr) == qr.buffer_

\* The callbacks of all commands.  Each proxy takes the outgoing queues of the
\* block over and puts them back with what the callback enqueues; the incoming
\* ones are gone after the first callback, which counts what it reads.
Run(t) ==
  /\ at[t] = "ready"
  /\ LET b == cur[t]
         skip == AllSkip(b)
         read == [l \in In(b) |-> elements_[b].read[l] + Len(Moved(incoming_[exchange_round_][l]))]
     IN  /\ elements_' = IF skip THEN elements_
                         ELSE [elements_ EXCEPT ![b] = [runs |-> @.runs + Len(commands_), read |-> read]]
         /\ \E to \in Sendings(b) :
              outgoing_' = [l \in FromHere |->
                IF l[1] # b \/ (outgoing_[l] = NoQueue /\ Mail(to, l[2]) = <<>>) THEN outgoing_[l]
                ELSE QueueRecord(Moved(outgoing_[l]) \o Mail(to, l[2]))]
         /\ incoming_' = [incoming_ EXCEPT ![exchange_round_] =
                            [l \in ToHere |-> IF l[2] = b THEN NoQueue ELSE @[l]]]
         /\ at' = [at EXCEPT ![t] = IF skip /\ ~InMemory(b) THEN "skipped" ELSE "next"]
         /\ cur' = [cur EXCEPT ![t] = IF skip /\ ~InMemory(b) THEN b ELSE NoBlock]
  /\ UNCHANGED <<external_, files, blocks, local, program>>

UnloadQueues(t) ==
  /\ at[t] = "skipped"
  /\ Put(LargeQueues(cur[t]))
  /\ at' = [at EXCEPT ![t] = "next"]
  /\ cur' = [cur EXCEPT ![t] = NoBlock]
  /\ UNCHANGED <<blocks, local, program>>

\* All threads have returned.
Finish ==
  /\ phase = "execute" /\ blocks = <<>>
  /\ \A t \in Worker : at[t] = "next"
  /\ incoming_' = [incoming_ EXCEPT ![exchange_round_] = [l \in ToHere |-> NoQueue]]
  /\ phase' = IF limit_ # -1 /\ in_memory > limit_ THEN "thrown" ELSE "foreach"
  /\ commands_' = <<>>
  /\ local' = [t \in Worker |-> {}]
  /\ UNCHANGED <<elements_, external_, outgoing_, files, blocks, cur, at, called, immediate_, exchange_round_,
                 received, wire, gid_order>>

-----------------------------------------------------------------------------
(***************************************************************************)
(* exchange()                                                              *)
(***************************************************************************)
\* touch_queues and the beginning of flush.
BeginExchange ==
  /\ phase = "foreach" /\ called = Foreachs /\ commands_ = <<>> /\ exchange_round_ < Rounds
  /\ outgoing_' = [l \in FromHere |-> IF outgoing_[l] = NoQueue THEN QueueRecord(<<>>) ELSE outgoing_[l]]
  /\ incoming_' = [incoming_ EXCEPT ![exchange_round_] = [l \in ToHere |-> NoQueue]]
  /\ received' = [received EXCEPT ![exchange_round_] = 0]
  /\ exchange_round_' = exchange_round_ + 1
  /\ wire' = [l \in FromHere \ Inside |-> <<>>]
  /\ called' = 0
  /\ gid_order' = Block
  /\ phase' = "flush"
  /\ UNCHANGED <<elements_, external_, files, threads, immediate_, commands_>>

\* load_outgoing, before the queues of a block are sent.
LoadOutgoing(b) ==
  /\ phase = "flush" /\ b \in gid_order
  /\ OutgoingToLoad(b) # {}
  /\ Get(OutgoingToLoad(b))
  /\ UNCHANGED <<threads, program>>

\* send_outgoing_queues, for one block.  send_same_rank unloads a queue to a
\* block that is not in memory.
SendBlock(b) ==
  /\ phase = "flush" /\ b \in gid_order
  /\ OutgoingToLoad(b) = {}
  /\ LET k    == exchange_round_
         here == Out(b) \cap Inside
         out  == {l \in here : ~external(outgoing_[l]) /\ ~InMemory(l[2]) /\ Unloads(l, outgoing_[l])}
         f    == NewFiles(out)
     IN  /\ incoming_' = [incoming_ EXCEPT ![k] = [l \in ToHere |->
                            IF l \in out THEN Unloaded(outgoing_[l], f[l])
                            ELSE IF l \in here THEN outgoing_[l] ELSE @[l]]]
         /\ files' = [n \in DOMAIN files \cup {f[l] : l \in out} |->
                        IF n \in DOMAIN files THEN files[n] ELSE outgoing_[CHOOSE l \in out : f[l] = n].buffer_]
         /\ received' = [received EXCEPT ![k] = @ + Cardinality(here)]
         /\ wire' = [l \in FromHere \ Inside |-> IF l[1] = b THEN outgoing_[l].buffer_ ELSE wire[l]]
  /\ outgoing_' = [l \in FromHere |-> IF l[1] = b THEN NoQueue ELSE outgoing_[l]]
  /\ gid_order' = gid_order \ {b}
  /\ UNCHANGED <<elements_, external_, threads, phase, called, immediate_, commands_, exchange_round_>>

\* Mutant: also for a block that is in memory.
ToFileAlways(l, k, qr) == Unloads(l, qr) /\ (k = exchange_round_ \/ limit_ # -1)

\* check_incoming_queues: whether a queue that has come goes to a file.
ToFile(l, k, qr) ==
  /\ Unloads(l, qr)
  /\ IF k = exchange_round_ THEN ~InMemory(l[2]) ELSE limit_ # -1

\* A queue comes from another rank: of this round, or of the next one if its
\* rank has ended this round, for which it needs the queues from here.
Arrive(l, k) ==
  /\ phase = "flush" /\ l \in ToHere \ Inside
  /\ k <= Rounds /\ incoming_[k][l] = NoQueue
  /\ \/ k = exchange_round_
     \/ /\ k = exchange_round_ + 1 /\ l \in Early
        /\ incoming_[exchange_round_][l] # NoQueue
        /\ \A b \in gid_order : <<b, l[1]>> \notin Link
  /\ \E items \in {<<>>, <<<<k - 1, 1>>>>} :
       LET qr == QueueRecord(items)
           f  == NewFiles({l})
       IN  /\ incoming_' = [incoming_ EXCEPT ![k][l] = IF ToFile(l, k, qr) THEN Unloaded(qr, f[l]) ELSE qr]
           /\ files' = IF ToFile(l, k, qr)
                       THEN [n \in DOMAIN files \cup {f[l]} |-> IF n = f[l] THEN items ELSE files[n]]
                       ELSE files
  /\ received' = [received EXCEPT ![k] = @ + 1]
  /\ UNCHANGED <<elements_, external_, outgoing_, threads, phase, called, immediate_, commands_, exchange_round_,
                 wire, gid_order>>

\* expected_: Master::add adds the number of a block's neighbors.
expected_ == Cardinality(ToHere)

EndExchange ==
  /\ phase = "flush" /\ gid_order = {} /\ received[exchange_round_] >= expected_
  /\ outgoing_' = [l \in FromHere |-> NoQueue]
  /\ phase' = "foreach"
  /\ UNCHANGED <<elements_, external_, incoming_, files, threads, called, immediate_, commands_, exchange_round_,
                 received, wire, gid_order>>

\* The program is over.
Finished ==
  /\ phase = "foreach" /\ exchange_round_ = Rounds /\ called = Foreachs /\ commands_ = <<>>
  /\ UNCHANGED vars

Thread(t) == Take(t) \/ Hold(t) \/ LoadQueues(t) \/ MakeRoom(t) \/ Load(t) \/ Run(t) \/ UnloadQueues(t)

Next == \/ UnloadAll \/ \E b \in Block : Add(b)
        \/ Foreach \/ (\E i \in BOOLEAN : SetImmediate(i)) \/ ExecutePending \/ (\E t \in Worker : Thread(t)) \/ Finish
        \/ BeginExchange
        \/ \E b \in Block : LoadOutgoing(b) \/ SendBlock(b)
        \/ \E l \in ToHere, k \in 0..Rounds : Arrive(l, k)
        \/ EndExchange
        \/ Finished

Spec == Init /\ [][Next]_vars

-----------------------------------------------------------------------------
(***************************************************************************)
(* Blocks and queues move "in and out-of-core, with no change to the       *)
(* program logic" (docs/mkdocs/docs/ooc.md): every block is run once per   *)
(* call of foreach with its own content, every callback reads what was     *)
(* enqueued to its block, and what goes to other ranks is what was         *)
(* enqueued - as if everything were in memory all the time.                *)
(***************************************************************************)
\* What a queue holds, in memory or in its file.
Held(qr) == IF external(qr) THEN files[qr.external_] ELSE qr.buffer_

\* The blocks that have not run what commands_ holds.
ToRun(b) == \/ phase = "foreach"
            \/ b \in ToSet(blocks)
            \/ \E t \in Worker : cur[t] = b /\ at[t] \in {"taken", "ready"}

ToBeSent(l) == l[1] \in gid_order

\* A block's content, the calls it has not run, what it has to read, and what the
\* next exchange takes along.
Content == [b \in Block |-> IF InMemory(b) THEN elements_[b]
                           ELSE IF Added(b) THEN files[external_[b]] ELSE NewBlock(b)]
CallsLeft == [b \in Block |-> IF ToRun(b) THEN commands_ ELSE <<>>]
ToRead == [l \in Link |-> IF ToBeSent(l) THEN Held(outgoing_[l])
                         ELSE IF l[2] \in Away THEN wire[l] ELSE Held(incoming_[exchange_round_][l])]
ToExchange == [l \in Link |-> IF l[1] \in Away
                             THEN IF exchange_round_ = Rounds THEN <<>> ELSE Held(incoming_[exchange_round_ + 1][l])
                             ELSE IF phase = "flush" THEN <<>> ELSE Held(outgoing_[l])]

Core == INSTANCE InCore WITH round <- exchange_round_, exchanging <- phase = "flush",
                             left <- CallsLeft, data <- Content, now <- ToRead, next <- ToExchange

KeepsInCore == Core!Spec

(***************************************************************************)
(* The storage holds one file for each block and queue that is not in      *)
(* memory and no other: none is lost track of, none is read twice.         *)
(***************************************************************************)
FileOf(x) == IF x[1] = "block" THEN external_[x[2]] ELSE RecordAt(x).external_
Outside == {x \in UNION {Places(b) : b \in Block} : FileOf(x) # None}

FilesKept == /\ {FileOf(x) : x \in Outside} = DOMAIN files
             /\ \A x, y \in Outside : FileOf(x) = FileOf(y) => x = y

(***************************************************************************)
(* "If we only have sufficient memory to hold 2 blocks at a time in        *)
(* memory, setting memblocks = 2 is all that is needed" (ooc.md): the      *)
(* limit holds whenever no threads run, so that execute() never throws;    *)
(* while n threads run, n - 1 further blocks may be in memory, those that  *)
(* a thread takes over before it unloads one.                              *)
(***************************************************************************)
WithinLimit ==
  limit_ # -1 =>
    /\ phase # "thrown"
    /\ in_memory <= IF phase = "execute" THEN limit_ + num_threads - 1 ELSE limit_

\* An item is named by the round and the call in which it was enqueued.
Item == (0..Rounds) \X (1..Foreachs)
TypedQueue(qr) == /\ qr \in [size_ : Nat \cup {-1}, external_ : Nat, buffer_ : Seq(Item)]
                  /\ Held(qr) \in Seq(Item)

\* A block is in memory or in a file, never both.
BlockContent(b) == [runs : Nat, read : [In(b) -> Nat]]
TypedBlock(b) == /\ elements_[b] \in BlockContent(b) \cup {Absent}
                 /\ external_[b] \in DOMAIN files \cup {None}
                 /\ external_[b] # None => ~InMemory(b) /\ files[external_[b]] \in BlockContent(b)

\* Types, also of what is in the files.
OutOfCoreTypeOK ==
  /\ phase \in {"add", "foreach", "execute", "flush", "thrown"}
  /\ called \in 0..Foreachs /\ immediate_ \in BOOLEAN /\ commands_ \in Seq(1..Foreachs)
  /\ exchange_round_ \in 0..Rounds /\ (phase = "flush" => exchange_round_ > 0)
  /\ \A b \in Block : TypedBlock(b)
  /\ \A l \in FromHere : TypedQueue(outgoing_[l])
  /\ \A k \in 0..Rounds, l \in ToHere : TypedQueue(incoming_[k][l])
  /\ received \in [0..Rounds -> Nat]
  /\ wire \in [FromHere \ Inside -> Seq(Item)]
  /\ blocks \in Seq(Block)
  /\ cur \in [Worker -> Block \cup {NoBlock}]
  /\ at \in [Worker -> {"next", "taken", "ready", "skipped"}]
  /\ local \in [Worker -> SUBSET Block]
  /\ gid_order \subseteq Block

-----------------------------------------------------------------------------
(***************************************************************************)
(* What holds in every state, from which the above follows.                *)
(***************************************************************************)
\* Where the files may come from, and the functions' domains.
Shape ==
  /\ phase \in {"add", "foreach", "execute", "flush", "thrown"}
  /\ called \in 0..Foreachs /\ commands_ \in Seq(1..Foreachs) /\ exchange_round_ \in 0..Rounds
  /\ DOMAIN elements_ = Block /\ DOMAIN external_ = Block
  /\ DOMAIN outgoing_ = FromHere /\ DOMAIN incoming_ = 0..Rounds
  /\ \A k \in 0..Rounds : DOMAIN incoming_[k] = ToHere
  /\ blocks \in Seq(Block) /\ cur \in [Worker -> Block \cup {NoBlock}]
  /\ at \in [Worker -> {"next", "taken", "ready", "skipped"}] /\ local \in [Worker -> SUBSET Block]

\* Files are numbered from 1; every place that has one has one of its own, with
\* as many items as its record says.
StorageInv ==
  /\ IsFiniteSet(DOMAIN files) /\ None \notin DOMAIN files
  /\ \A x \in Outside : FileOf(x) \in DOMAIN files
  /\ \A x, y \in Outside : FileOf(x) = FileOf(y) => x = y
  /\ \A x \in Outside : x[1] # "block" => RecordAt(x).size_ = Len(files[FileOf(x)])

\* A block is in memory or in a file, once it is added.
BlocksInv ==
  \A b \in Block : /\ elements_[b] = Absent \/ elements_[b].runs \in Nat
                   /\ external_[b] # None => ~InMemory(b) /\ files[external_[b]].runs \in Nat
                   /\ phase # "add" => Added(b)

\* The blocks that the pending commands skip.
idle == {b \in Block : AllSkip(b)}

\* A thread's blocks are no longer in the list, and those it keeps are in memory.
ThreadOK(t) ==
  /\ at[t] = "next" <=> cur[t] = NoBlock
  /\ cur[t] \notin ToSet(blocks) /\ local[t] \cap ToSet(blocks) = {}
  /\ local[t] \subseteq loaded
  /\ cur[t] \in local[t] => at[t] = "ready"
  /\ at[t] = "ready" => cur[t] \in local[t] \cup (idle \ loaded)
  /\ at[t] = "skipped" => cur[t] \notin loaded

\* No block is with two threads.
Apart(t, u) == /\ cur[t] = cur[u] => cur[t] = NoBlock
               /\ local[t] \cap local[u] = {}
               /\ cur[t] \notin local[u]

ThreadsInv ==
  /\ phase # "execute" => blocks = <<>> /\ \A t \in Worker : at[t] = "next" /\ local[t] = {}
  /\ \A i, j \in DOMAIN blocks : blocks[i] = blocks[j] => i = j
  /\ \A t \in Worker : ThreadOK(t)
  /\ \A t, u \in Worker : t # u => Apart(t, u)

\* The blocks in memory come first, so that all of them are with a thread when
\* the first block is loaded.
LoadedFirst ==
  /\ \A i, j \in DOMAIN blocks : i < j /\ blocks[j] \in loaded => blocks[i] \in loaded
  /\ \A t \in Worker : at[t] = "taken" /\ cur[t] \notin loaded => ToSet(blocks) \cap loaded = {}
  /\ \A t \in Worker : Cardinality(local[t]) <= blocks_per_thread
  /\ phase = "execute" => \A b \in loaded : \/ b \in ToSet(blocks)
                                            \/ \E t \in Worker : b = cur[t] /\ at[t] = "taken"
                                            \/ \E t \in Worker : b \in local[t]

\* Which queues there are when: none of a round that is over, and of the next
\* one only those that may come early; none that has been sent or read.
QueuesInv ==
  /\ gid_order \subseteq Block /\ (phase # "flush" => gid_order = {})
  /\ phase = "execute" => commands_ # <<>>
  /\ phase \in {"add", "flush"} => commands_ = <<>> /\ called = 0
  /\ commands_ # <<>> => called > 0
  /\ \A l \in FromHere : phase \in {"add", "flush"} /\ ~ToBeSent(l) => outgoing_[l] = NoQueue
  /\ \A k \in 0..Rounds, l \in ToHere :
       incoming_[k][l] # NoQueue => \/ k = exchange_round_ /\ (l \in Inside => ~ToBeSent(l))
                                    \/ k = exchange_round_ + 1 /\ l \in Early
  /\ phase = "add" => \A l \in ToHere : incoming_[exchange_round_][l] = NoQueue
  /\ phase = "foreach" /\ called > 0 /\ commands_ = <<>> => \A l \in ToHere : incoming_[exchange_round_][l] = NoQueue
  /\ phase = "execute" => \A l \in ToHere : ~ToRun(l[2]) => incoming_[exchange_round_][l] = NoQueue

\* A block that no thread works on, with its content in a file.
Resting(b) == b \notin loaded /\ \A t \in Worker : cur[t] = b => at[t] = "taken"

\* No file is without a block or a queue.
NoneLost == \A n \in DOMAIN files : \E x \in Outside : FileOf(x) = n

\* Queues in files are large ones of such blocks, and no file is lost.
FilesInv ==
  /\ \A l \in FromHere : external(outgoing_[l]) => l \in Large /\ Resting(l[1])
  /\ \A k \in 0..Rounds, l \in ToHere : external(incoming_[k][l]) => l \in Large /\ Resting(l[2])
  /\ NoneLost

OutOfCoreInv == Shape /\ StorageInv /\ BlocksInv /\ ThreadsInv /\ LoadedFirst /\ QueuesInv /\ FilesInv /\ OutOfCoreTypeOK
=============================================================================
