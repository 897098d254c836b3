--------------------------- MODULE PriorityQueue ---------------------------
(***************************************************************************)
(* The priority queue of src/src/queue.c: a tree of queues, one for each   *)
(* priority, with a pointer to the highest.  A queue is a list of nodes    *)
(* with one link each, the exclusive or of the addresses of the two        *)
(* neighbours.  One process uses it; a call is a step.                     *)
(*                                                                         *)
(* Data.  A node is named by the datum it carries.  An exclusive or of two *)
(* addresses is the symmetric difference of two sets of at most one node,  *)
(* NULL being the empty set.  The tree is the set of its keys (AvlTree).   *)
(***************************************************************************)
EXTENDS Integers, Sequences, FiniteSets

CONSTANTS Priority,   \* priorities callers use, 0 among them
          Datum,      \* what is inserted, once each
          QueueFaults \* whether shared_malloc may fail

ASSUME QueueAssumption == Priority \subseteq Int /\ QueueFaults \in BOOLEAN

VARIABLES pq_tree,    \* the priorities that have a queue
          pq_highest, \* the priority of the highest queue, 0 for NULL
          pq_freed,   \* whether pq_highest is left at a queue that was freed
          q_front, q_back, \* of each priority: a node or NULL
          o_xor,      \* of each node
          inserted,   \* history: the data inserted so far
          accepted,   \* history: of each priority, what its queue should hold
          q_lost      \* history: memory ran out, and the call did not take back
                      \* what it had done

qvars == <<pq_tree, pq_highest, pq_freed, q_front, q_back, o_xor, inserted, accepted,
           q_lost>>

Null == {}
Xor(a, b) == (a \ b) \cup (b \ a)
The(a) == CHOOSE x \in a : TRUE

\* create_priority_queue.  pq_highest is not set; fresh shared memory is zero.
QueueInit ==
  /\ pq_tree = {} /\ pq_highest = 0 /\ pq_freed = FALSE
  /\ q_front = [i \in Priority |-> Null]
  /\ q_back = [i \in Priority |-> Null]
  /\ o_xor = [d \in Datum |-> Null]
  /\ inserted = {}
  /\ accepted = [i \in Priority |-> <<>>]
  /\ q_lost = FALSE

\* Mutant: the old last node does not learn of its new neighbour.
NewNodeUnlinked(prev, cur, d) == [o_xor EXCEPT ![d] = cur]

\* new_node_xll
NewNode(prev, cur, d) ==
  [o \in Datum |-> IF o = d THEN cur
                   ELSE IF o \in cur THEN Xor(prev, {d}) ELSE o_xor[o]]

\* find_data_avltree, or create_queue.
FrontOf(i) == IF i \in pq_tree THEN q_front[i] ELSE Null
BackOf(i) == IF i \in pq_tree THEN q_back[i] ELSE Null

\* enqueue.  An empty queue gets its first node; to another one the node is
\* appended with the link of the last node as that node's neighbour.
Enqueue(i, d) ==
  /\ o_xor' = IF FrontOf(i) = Null \/ BackOf(i) = Null THEN NewNode(Null, Null, d)
              ELSE NewNode(o_xor[The(BackOf(i))], BackOf(i), d)
  /\ q_front' = [q_front EXCEPT ![i] = IF FrontOf(i) = Null THEN {d} ELSE FrontOf(i)]
  /\ q_back' = [q_back EXCEPT ![i] = {d}]
  /\ accepted' = [accepted EXCEPT ![i] = Append(@, d)]
  /\ UNCHANGED q_lost

\* There is no memory for the node.  enqueue returns 0 all the same, and the
\* queue has lost its end.
EnqueueLost(i) ==
  /\ QueueFaults
  /\ q_front' = [q_front EXCEPT ![i] = FrontOf(i)]
  /\ q_back' = [q_back EXCEPT ![i] = Null]
  /\ q_lost' = TRUE
  /\ UNCHANGED <<o_xor, accepted>>

\* 0 is refused as if it were NULL; and there may be no memory for the queue.
Refuse(i) ==
  /\ i \notin pq_tree /\ (i = 0 \/ QueueFaults)
  /\ UNCHANGED <<pq_tree, pq_highest, pq_freed, q_front, q_back, o_xor, accepted, q_lost>>

\* Queue i is there.
InsertInto(i, d) ==
  /\ i \in pq_tree
  /\ Enqueue(i, d) \/ EnqueueLost(i)
  /\ UNCHANGED <<pq_tree, pq_highest, pq_freed>>

\* Whether pq_highest moves to the new queue i.  One that was freed may hold
\* any number where its q_id was, or have become queue i itself.
Moves(i) == IF pq_freed THEN BOOLEAN ELSE {pq_highest = 0 \/ i > pq_highest}

\* It is made, pq_highest set, and stored in the tree.
InsertNew(i, d) ==
  /\ i \notin pq_tree /\ i # 0
  /\ \E moves \in Moves(i) :
       /\ pq_highest' = IF moves THEN i ELSE pq_highest
       /\ pq_freed' = (pq_freed /\ ~moves)
  /\ pq_tree' = pq_tree \cup {i}
  /\ Enqueue(i, d) \/ EnqueueLost(i)

\* The tree has no memory for its node: the queue is freed, and pq_highest
\* stays where it is.
InsertFreed(i) ==
  /\ QueueFaults /\ i \notin pq_tree /\ i # 0
  /\ \E moves \in Moves(i) :
       /\ pq_highest' = IF moves THEN i ELSE pq_highest
       /\ pq_freed' = (pq_freed \/ moves)
       /\ q_lost' = (q_lost \/ moves)
  /\ UNCHANGED <<pq_tree, q_front, q_back, o_xor, accepted>>

\* insert_with_priority_queue
Insert(i, d) ==
  /\ d \notin inserted
  /\ inserted' = inserted \cup {d}
  /\ Refuse(i) \/ InsertInto(i, d) \/ InsertNew(i, d) \/ InsertFreed(i)

\* The node behind the first of queue i.
Second(i) == o_xor[The(q_front[i])]

\* dequeue of a queue that is not empty.
Dequeue(i) ==
  LET first == q_front[i]
      cur == Second(i)
  IN /\ q_front' = [q_front EXCEPT ![i] = cur]
     /\ q_back' = [q_back EXCEPT ![i] = IF cur = Null THEN Null ELSE @]
     /\ o_xor' = [o \in Datum |-> IF o \in cur THEN Xor(o_xor[o], first) ELSE o_xor[o]]
     /\ accepted' = [accepted EXCEPT ![i] = IF @ = <<>> THEN @ ELSE Tail(@)]

\* get_max_data_avltree, 0 for no node.
MaxOf(S) == IF S = {} THEN 0 ELSE CHOOSE i \in S : \A j \in S : j <= i

\* The highest queue once the empty one is gone.
Next2 == MaxOf(pq_tree \ {pq_highest})

\* pull_highest_priority: the highest queue has something,
PullHighest ==
  /\ pq_highest # 0 /\ ~pq_freed /\ q_front[pq_highest] # Null
  /\ Dequeue(pq_highest)
  /\ UNCHANGED <<pq_tree, pq_highest, pq_freed, inserted, q_lost>>

\* Whether its dequeue fails and del_name_node_avltree finds its number.  A
\* freed queue has no front, and may still hold the number it had; the call
\* fails when the tree has no such queue.  (What becomes of a block that
\* another caller of shared_malloc has been given is not followed.)
Emptied == IF pq_freed THEN pq_highest \in pq_tree
           ELSE pq_highest # 0 /\ q_front[pq_highest] = Null

\* Mutant: the empty queue is dequeued but stays the highest.
PullNextStays ==
  /\ Emptied
  /\ IF Next2 # 0 /\ q_front[Next2] # Null
     THEN Dequeue(Next2)
     ELSE UNCHANGED <<q_front, q_back, o_xor, accepted>>
  /\ UNCHANGED <<inserted, q_lost, pq_tree, pq_highest, pq_freed>>

\* or the queue of that number is deleted, and the next highest is tried,
\* once: an empty one makes the call fail.
PullNext ==
  /\ Emptied
  /\ pq_tree' = pq_tree \ {pq_highest}
  /\ pq_highest' = Next2 /\ pq_freed' = FALSE
  /\ IF Next2 # 0 /\ q_front[Next2] # Null
     THEN Dequeue(Next2)
     ELSE UNCHANGED <<q_front, q_back, o_xor, accepted>>
  /\ UNCHANGED <<inserted, q_lost>>

Pull == PullHighest \/ PullNext

\* destroy_priority_queue is destroy_avltree (module AvlTree), without the
\* data of the queues.
QueueNext == (\E i \in Priority, d \in Datum : Insert(i, d)) \/ Pull

QueueSpec == QueueInit /\ [][QueueNext]_qvars

-----------------------------------------------------------------------------

Held == {i \in Priority : accepted[i] # <<>>}

\* While memory has not run out where an insertion leaves its traces (a node
\* that enqueue did not get; pq_highest at a queue that was freed again), a
\* call of pull_highest_priority that returns a datum returns the oldest of
\* the highest priority held, through any sequence of links made and undone
\* and of queues emptied, deleted and created again.
OldestOfHighest ==
  [][\A i \in Held :
       ~q_lost /\ accepted'[i] = Tail(accepted[i])
         => i = MaxOf(Held) /\ q_front[i] = {Head(accepted[i])}]_qvars

\* Moreover, a call may fail although data is held (the next highest queue is
\* empty too), but whoever goes on pulling gets everything: no datum is lost
\* behind empty queues.  Only such traces end that: behind a freed queue every
\* call may fail.
PullsHighest ==
  /\ OldestOfHighest
  /\ Held # {} ~> Held = {} \/ q_lost
=============================================================================
