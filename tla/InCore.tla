------------------------------- MODULE InCore -------------------------------
(***************************************************************************)
(* What foreach and exchange mean on one rank, wherever the blocks and     *)
(* their queues are kept: "the DIY runtime is free to migrate blocks and   *)
(* their associated message queues in and out-of-core, with no change to   *)
(* the program logic" (docs/mkdocs/docs/ooc.md).  Here nothing is ever     *)
(* moved; OutOfCore implements this specification.                         *)
(***************************************************************************)
EXTENDS Naturals, Sequences, FiniteSets, SequencesExt

CONSTANTS Block,        \* the blocks of the rank
          Away,         \* the blocks of other ranks that are linked to them
          Link,         \* the pairs of linked blocks with an end on this rank
          Rounds,       \* the number of exchanges
          Foreachs,     \* the number of calls of foreach before each exchange
          Skips,        \* those of them that skip blocks without incoming
          Targets       \* Targets[b, f]: the sets of blocks that b's callback of call f
                        \* may enqueue to

VARIABLES round,        \* how many exchanges have begun
          called,       \* the calls of foreach since the last one
          exchanging,   \* an exchange is under way
          left,         \* the calls whose callback each block has not run
          data,         \* a block's content: what its callbacks have done
          now,          \* now[from, to]: what the last exchange brought
          next          \* next[from, to]: what the next one will bring

vars == <<round, called, exchanging, left, data, now, next>>

In(b) == {l \in Link : l[2] = b}

Init == /\ round = 0 /\ called = 0 /\ exchanging = FALSE
        /\ left = [b \in Block |-> <<>>]
        /\ data = [b \in Block |-> [runs |-> 0, read |-> [l \in In(b) |-> 0]]]
        /\ now = [l \in Link |-> <<>>]
        /\ next = [l \in Link |-> <<>>]

Foreach == /\ ~exchanging /\ called < Foreachs
           /\ called' = called + 1
           /\ left' = [b \in Block |-> Append(left[b], called')]
           /\ UNCHANGED <<round, exchanging, data, now, next>>

\* What the callbacks of the calls cs may enqueue to.
Sendings(b, cs) == {to \in [DOMAIN cs -> SUBSET {l[2] : l \in Link}] : \A i \in DOMAIN cs : to[i] \in Targets[b, cs[i]]}

\* The numbers of a set in their order.
InOrder(D) == CHOOSE s \in [1..Cardinality(D) -> D] : \A i, j \in DOMAIN s : i < j => s[i] < s[j]

\* What the calls cs with the target sets "to" enqueue to block c in round k.
Mail(k, cs, to, c) ==
  LET calls == InOrder({i \in DOMAIN cs : c \in to[i]})
  IN  [j \in DOMAIN calls |-> <<k, cs[calls[j]]>>]

\* Whether something has come for block b.
HasIncoming(b) == \E l \in In(b) : Len(now[l]) > 0

\* Block b runs the callbacks of the calls it has not run.  The first one reads
\* what has come; each enqueues what it likes.  When all calls skip and nothing
\* has come, the callbacks get no block.
Run(b) ==
  /\ left[b] # <<>>
  /\ data' = IF ToSet(left[b]) \subseteq Skips /\ ~HasIncoming(b) THEN data
             ELSE [data EXCEPT ![b] = [runs |-> @.runs + Len(left[b]),
                                       read |-> [l \in In(b) |-> data[b].read[l] + Len(now[l])]]]
  /\ now' = [l \in Link |-> IF l[2] = b THEN <<>> ELSE now[l]]
  /\ \E to \in Sendings(b, left[b]) :
       next' = [l \in Link |-> IF l[1] = b THEN next[l] \o Mail(round, left[b], to, l[2]) ELSE next[l]]
  /\ left' = [left EXCEPT ![b] = <<>>]
  /\ UNCHANGED <<round, called, exchanging>>

\* All callbacks have run: what was enqueued is exchanged.
BeginExchange ==
  /\ ~exchanging /\ called = Foreachs /\ round < Rounds
  /\ \A b \in Block : left[b] = <<>>
  /\ exchanging' = TRUE
  /\ round' = round + 1 /\ called' = 0
  /\ now' = next
  /\ next' = [l \in Link |-> <<>>]
  /\ UNCHANGED <<left, data>>

\* Something comes from another rank, which may be one exchange ahead.
Come(l) ==
  /\ exchanging /\ l[1] \in Away
  /\ \/ now[l] = <<>> /\ now' = [now EXCEPT ![l] = <<<<round - 1, 1>>>>] /\ UNCHANGED next
     \/ next[l] = <<>> /\ next' = [next EXCEPT ![l] = <<<<round, 1>>>>] /\ UNCHANGED now
  /\ UNCHANGED <<round, called, exchanging, left, data>>

EndExchange == /\ exchanging /\ exchanging' = FALSE
               /\ UNCHANGED <<round, called, left, data, now, next>>

Next == \/ Foreach \/ BeginExchange \/ EndExchange
        \/ \E b \in Block : Run(b)
        \/ \E l \in Link : Come(l)

Spec == Init /\ [][Next]_vars
=============================================================================
