---------------------------- MODULE MCContainers ----------------------------
(***************************************************************************)
(* The data structures below the store, each with its own instance.  They  *)
(* share no state: which says the one that a behaviour runs.               *)
(***************************************************************************)
EXTENDS AvlTree, PriorityQueue, HashList, SharedMem

VARIABLE which

cvars == <<which, avars, qvars, hvars, mvars>>

Init ==
  /\ which \in {"tree", "queue", "lists", "memory"}
  /\ AvlInit /\ QueueInit /\ HashInit /\ MemInit
  /\ which # "tree" => t_root = 0

Tree   == which = "tree"   /\ UNCHANGED <<which, qvars, hvars, mvars>>
Queue  == which = "queue"  /\ UNCHANGED <<which, avars, hvars, mvars>>
Lists  == which = "lists"  /\ UNCHANGED <<which, avars, qvars, mvars>>
Memory == which = "memory" /\ UNCHANGED <<which, avars, qvars, hvars>>

Next ==
  \/ Tree /\ AvlNext
  \/ Queue /\ QueueNext
  \/ Lists /\ HashNext
  \/ Memory /\ MemNext

\* A search and a caller that pulls go on; adders need not.
Spec == Init /\ [][Next]_cvars /\ WF_cvars(Tree /\ Find) /\ WF_cvars(Queue /\ Pull)

-----------------------------------------------------------------------------

\* The smallest AVL tree of height five, whose deletions rotate at more than
\* one level.
Fibonacci ==
  LET left    == <<0, 1, 2, 0, 3, 0, 6, 5, 0, 9, 10, 0>>
      right   == <<0, 0, 4, 0, 7, 0, 0, 11, 0, 0, 12, 0>>
      parent  == <<2, 3, 5, 3, 8, 7, 5, 0, 10, 11, 8, 11>>
      balance == <<0, -1, -1, 0, -1, 0, -1, -1, 0, -1, -1, 0>>
  IN [k \in 1 .. 12 |-> [left |-> left[k], right |-> right[k],
                         parent |-> parent[k], balance |-> balance[k]]]

\* Every sequence of adds and deletes of six keys, and of two deletions from
\* the tree of twelve.
MCGrown ==
  {[node |-> <<>>, root |-> 0, keys |-> 1 .. 6, least |-> 0],
   [node |-> Fibonacci, root |-> 8, keys |-> {}, least |-> 10]}
MCTreeKeys == 1 .. 12
MCSought == {2}
=============================================================================
