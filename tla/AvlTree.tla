------------------------------ MODULE AvlTree ------------------------------
(***************************************************************************)
(* The AVL tree with parent pointers of src/src/avltree.c, node by node.   *)
(* It orders the sizes of the shared memory allocator, where processes     *)
(* search it without a lock while another one adds to it.                  *)
(*                                                                         *)
(* A node is named by its key, a positive number; 0 is NULL.  A call is a  *)
(* run of steps, one for each turn of its loops.  What a step writes to    *)
(* the nodes is the sequence todo of single stores in the order of the     *)
(* code, which WriteBack performs; a search sees each of them.  There is   *)
(* one writer: two at a time are the matter of module SharedMem.           *)
(***************************************************************************)
EXTENDS Integers, SequencesExt, Stack

CONSTANTS TreeKeys,   \* the keys
          Sought,     \* the keys another process looks for
          Grown       \* trees to start from: node, root, the keys that may be
                      \* added, and the number of nodes that stay

ASSUME TreeAssumption == TreeKeys \subseteq Nat \ {0} /\ Sought \subseteq TreeKeys

VARIABLES node,             \* n_left, n_right, n_parent, n_balance
          t_root, t_ncount,
          alloc,            \* the nodes that have memory
          stored,           \* the keys the calls so far should have left
          a_pc, a_at, a_node, a_flag, \* the writer's step and its locals
          todo,             \* stores to perform
          w_stack, w_seen,  \* of walk_inorder_avltree
          f_pc, f_key, f_at,\* the search of another process
          f_quiet,          \* whether nothing has been written meanwhile
          bound             \* of the tree chosen: the keys, and nodes that stay

wvars == <<a_pc, a_at, a_node, a_flag, w_stack, w_seen>>
fvars == <<f_pc, f_key, f_at, f_quiet>>
avars == <<node, t_root, t_ncount, alloc, stored, wvars, todo, fvars, bound>>

Blank == [left |-> 0, right |-> 0, parent |-> 0, balance |-> 0]

AvlInit ==
  /\ \E g \in Grown :
       /\ node = [k \in TreeKeys |-> IF k \in DOMAIN g.node THEN g.node[k] ELSE Blank]
       /\ t_root = g.root
       /\ alloc = DOMAIN g.node
       /\ bound = [keys |-> g.keys, least |-> g.least]
  /\ t_ncount = Cardinality(alloc) /\ stored = alloc
  /\ a_pc = "idle" /\ a_at = 0 /\ a_node = 0 /\ a_flag = FALSE
  /\ todo = <<>> /\ w_stack = <<>> /\ w_seen = <<>>
  /\ f_pc = "idle" /\ f_key = 0 /\ f_at = 0 /\ f_quiet = TRUE

Sign(s) == IF s = "left" THEN -1 ELSE 1
Other(s) == IF s = "left" THEN "right" ELSE "left"

\* A store to a field, none when the pointer is NULL.
Put(k, f, v) == IF k = 0 THEN <<>> ELSE <<<<k, f, v>>>>

\* The child pointer of f that leads to old leads to new.
Relink(f, old, new) ==
  IF f = 0 THEN <<>>
  ELSE Put(f, IF node[f].right = old THEN "right" ELSE "left", new)

(***************************************************************************)
(* Rotations: s is the heavy side of a.                                    *)
(***************************************************************************)

\* Mutant: a is hung below its child b before it lets go of it.
LowerFirst(a, b, s) ==
  Put(b, Other(s), a) \o Put(a, s, node[b][Other(s)])
    \o Put(node[b][Other(s)], "parent", a)

\* a takes over the inner child of its child b, and goes below b.
Lower(a, b, s) ==
  Put(a, s, node[b][Other(s)]) \o Put(node[b][Other(s)], "parent", a)
    \o Put(b, Other(s), a)

\* rotate_rightright_avltree and rotate_leftleft_avltree
Single(a, s) ==
  LET b == node[a][s]
      even == node[b].balance = 0
  IN Lower(a, b, s)
     \o Put(a, "parent", b) \o Put(b, "parent", node[a].parent)
     \o Relink(node[a].parent, a, b)
     \o Put(a, "balance", IF even THEN Sign(s) ELSE 0)
     \o Put(b, "balance", IF even THEN -Sign(s) ELSE 0)

\* rotate_leftright_avltree and rotate_rightleft_avltree
Double(a, s) ==
  LET o == Other(s)
      b == node[a][s]
      d == node[b][o]
      toA == Put(a, s, node[d][o]) \o Put(node[d][o], "parent", a)
      toB == Put(b, o, node[d][s]) \o Put(node[d][s], "parent", b)
  IN (IF s = "left" THEN toA \o toB ELSE toB \o toA)
     \o Put(d, "right", IF s = "left" THEN a ELSE b)
     \o Put(d, "left", IF s = "left" THEN b ELSE a)
     \o Put(b, "parent", d) \o Put(a, "parent", d)
     \o Put(d, "parent", node[a].parent) \o Relink(node[a].parent, a, d)
     \o Put(a, "balance", IF node[d].balance = Sign(s) THEN -Sign(s) ELSE 0)
     \o Put(b, "balance", IF node[d].balance = -Sign(s) THEN Sign(s) ELSE 0)
     \o Put(d, "balance", 0)

Heavy(a) == IF node[a].balance = -2 THEN "left" ELSE "right"
\* Mutant: a child in balance is rotated twice.
StraightTight(a) == LET s == Heavy(a) IN node[node[a][s]].balance = Sign(s)
Straight(a) == LET s == Heavy(a) IN node[node[a][s]].balance \in {0, Sign(s)}

\* rebalance_avltree: its stores, and the node it returns.
Rebalance(a) ==
  IF Straight(a) THEN Single(a, Heavy(a)) ELSE Double(a, Heavy(a))
Rebalanced(a) ==
  LET b == node[a][Heavy(a)]
  IN IF Straight(a) THEN b ELSE node[b][Other(Heavy(a))]

(***************************************************************************)
(* Stores                                                                  *)
(***************************************************************************)
Stored(h, w) == [h EXCEPT ![w[1]][w[2]] = w[3]]

\* The next store; all of them when nobody looks.
WriteBack ==
  /\ todo # <<>>
  /\ IF f_pc = "idle"
     THEN node' = FoldLeft(Stored, node, todo) /\ todo' = <<>>
     ELSE node' = Stored(node, Head(todo)) /\ todo' = Tail(todo)
  /\ UNCHANGED <<t_root, t_ncount, alloc, stored, wvars, fvars, bound>>

AvlStep(pc) == a_pc = pc /\ todo = <<>>

(***************************************************************************)
(* store_named_node_avltree: create_node_avltree and add_node_avltree      *)
(***************************************************************************)
AddFirst(k) ==
  /\ AvlStep("idle") /\ t_root = 0 /\ k \in bound.keys
  /\ t_root' = k /\ t_ncount' = t_ncount + 1
  /\ alloc' = alloc \cup {k} /\ stored' = stored \cup {k}
  /\ f_quiet' = FALSE
  /\ UNCHANGED <<node, wvars, todo, f_pc, f_key, f_at, bound>>

StartAdd(k) ==
  /\ AvlStep("idle") /\ t_root # 0 /\ k \in bound.keys
  /\ a_pc' = "descend" /\ a_at' = t_root /\ a_node' = k
  /\ f_quiet' = FALSE
  /\ UNCHANGED <<node, t_root, t_ncount, alloc, stored, a_flag, todo, w_stack,
                 w_seen, f_pc, f_key, f_at, bound>>

\* A node with the key is there already: the new one is freed.
AddTwice ==
  /\ AvlStep("descend") /\ a_at = a_node
  /\ a_pc' = "idle"
  /\ UNCHANGED <<node, t_root, t_ncount, alloc, stored, a_at, a_node, a_flag, todo,
                 w_stack, w_seen, fvars, bound>>

\* The way down; at its end the node is linked, and nothing above changes
\* its height when the new parent comes into balance.
Descend ==
  /\ AvlStep("descend") /\ a_at # a_node
  /\ LET s == IF a_at < a_node THEN "right" ELSE "left"
         level == node[a_at].balance + Sign(s) = 0
     IN IF node[a_at][s] # 0
        THEN a_at' = node[a_at][s] /\ UNCHANGED <<a_pc, a_flag, todo, alloc>>
        ELSE /\ a_at' = a_node
             /\ a_pc' = "climb" /\ a_flag' = level
             /\ todo' = Put(a_at, s, a_node) \o Put(a_node, "parent", a_at)
                        \o (IF level THEN Put(a_at, "balance", 0) ELSE <<>>)
             /\ alloc' = alloc \cup {a_node}
  /\ UNCHANGED <<node, t_root, t_ncount, stored, a_node, w_stack, w_seen, fvars, bound>>

\* The side of its parent that k is on.
SideOf(k) == IF node[node[k].parent].left = k THEN "left" ELSE "right"

\* The way up.
Climb ==
  /\ AvlStep("climb")
  /\ LET p == node[a_at].parent
         b == node[p].balance + Sign(SideOf(a_at))
     IN IF a_flag \/ p = 0
        THEN a_pc' = "top" /\ UNCHANGED <<a_at, todo>>
        ELSE /\ todo' = Put(p, "balance", b)
             /\ a_at' = p
             /\ a_pc' = IF b = 0 THEN "top" ELSE IF b \in {-1, 1} THEN "climb" ELSE "rotate"
  /\ UNCHANGED <<node, t_root, t_ncount, alloc, stored, a_node, a_flag, w_stack, w_seen,
                 fvars, bound>>

Rotate ==
  /\ AvlStep("rotate")
  /\ todo' = Rebalance(a_at)
  /\ a_at' = Rebalanced(a_at)
  /\ a_pc' = "top"
  /\ UNCHANGED <<node, t_root, t_ncount, alloc, stored, a_node, a_flag, w_stack, w_seen,
                 fvars, bound>>

\* The root above a node.
TopOf[k \in TreeKeys] == IF node[k].parent = 0 THEN k ELSE TopOf[node[k].parent]

Added ==
  /\ AvlStep("top")
  /\ t_root' = TopOf[a_at] /\ t_ncount' = t_ncount + 1
  /\ stored' = stored \cup {a_node}
  /\ a_pc' = "idle" /\ a_at' = 0 /\ a_node' = 0 /\ a_flag' = FALSE
  /\ UNCHANGED <<node, alloc, todo, w_stack, w_seen, fvars, bound>>

(***************************************************************************)
(* del_node_avltree.  The allocator never deletes, so no search runs.      *)
(***************************************************************************)
NoSearch == f_pc = "idle"

\* free_node_avltree
Clear(k) == Put(k, "parent", 0) \o Put(k, "left", 0) \o Put(k, "right", 0)
            \o Put(k, "balance", 0)

TakeOut(k, stores, at, stop) ==
  /\ AvlStep("idle") /\ NoSearch /\ k \in stored /\ t_ncount > bound.least
  /\ todo' = stores \o Clear(k)
  /\ alloc' = alloc \ {k}
  /\ a_node' = k /\ a_at' = at /\ a_flag' = stop
  /\ a_pc' = IF at = 0 \/ (node[k].right = 0 /\ node[k].parent = 0)
             THEN "cut" ELSE "shrink"
  /\ UNCHANGED <<node, t_root, t_ncount, stored, w_stack, w_seen, fvars, bound>>

\* Case 1: no right child.
RemoveNoRight(k) ==
  LET l == node[k].left
      p == node[k].parent
  IN /\ node[k].right = 0
     /\ TakeOut(k, Relink(p, k, l)
                  \o (IF p = 0 THEN <<>>
                      ELSE Put(p, "balance", node[p].balance - Sign(SideOf(k))))
                  \o Put(l, "parent", p),
               IF p # 0 THEN p ELSE l,
               p # 0 /\ node[p].balance = 0)

\* Case 2: the right child has no left one, and takes the place.
RemoveRight(k) ==
  LET l == node[k].left
      r == node[k].right
      p == node[k].parent
  IN /\ r # 0 /\ node[r].left = 0
     /\ TakeOut(k, Put(r, "parent", p) \o Relink(p, k, r) \o Put(r, "left", l)
                  \o Put(l, "parent", r) \o Put(r, "balance", node[k].balance - 1),
               r,
               p # 0 /\ node[k].balance = 0)

Leftmost[k \in TreeKeys] == IF node[k].left = 0 THEN k ELSE Leftmost[node[k].left]

\* Case 3: the next key takes the place.
RemoveNext(k) ==
  LET l == node[k].left
      r == node[k].right
      p == node[k].parent
      s == Leftmost[r]
      q == node[s].parent
  IN /\ r # 0 /\ node[r].left # 0
     /\ TakeOut(k, Put(s, "left", l) \o Put(l, "parent", s)
                  \o Put(q, "left", node[s].right) \o Put(node[s].right, "parent", q)
                  \o Put(s, "right", r) \o Put(r, "parent", s)
                  \o Put(s, "balance", node[k].balance) \o Put(s, "parent", p)
                  \o Relink(p, k, s) \o Put(q, "balance", node[q].balance + 1),
               q,
               node[q].balance = 0)

Magnitude(i) == IF i < 0 THEN -i ELSE i

\* Whether the rotation of a leaves the subtree as high as it was.
KeepsHeight(a) == node[node[a][Heavy(a)]].balance = 0

\* A subtree that has lost a level: rebalance, or tell the parent.
Shrink ==
  /\ AvlStep("shrink")
  /\ LET p == node[a_at].parent
         b == node[a_at].balance
     IN CASE a_flag \/ (Magnitude(b) <= 1 /\ p = 0) ->
               a_pc' = "cut" /\ UNCHANGED <<a_at, a_flag, todo>>
          [] ~a_flag /\ Magnitude(b) > 1 ->
               /\ a_flag' = KeepsHeight(a_at)
               /\ todo' = Rebalance(a_at)
               /\ a_at' = Rebalanced(a_at)
               /\ UNCHANGED a_pc
          [] OTHER ->
               /\ a_flag' = (node[p].balance = 0)
               /\ todo' = Put(p, "balance", node[p].balance - Sign(SideOf(a_at)))
               /\ a_at' = p
               /\ UNCHANGED a_pc
  /\ UNCHANGED <<node, t_root, t_ncount, alloc, stored, a_node, w_stack, w_seen, fvars,
                 bound>>

Removed ==
  /\ AvlStep("cut")
  /\ t_root' = IF a_at = 0 THEN 0 ELSE TopOf[a_at]
  /\ t_ncount' = t_ncount - 1
  /\ stored' = stored \ {a_node}
  /\ a_pc' = "idle" /\ a_at' = 0 /\ a_node' = 0 /\ a_flag' = FALSE
  /\ UNCHANGED <<node, alloc, todo, w_stack, w_seen, fvars, bound>>

(***************************************************************************)
(* destroy_avltree: the leaves first, each freed as the walk leaves it.    *)
(***************************************************************************)
StartDestroy ==
  /\ AvlStep("idle") /\ NoSearch
  /\ a_pc' = "destroy" /\ a_at' = t_root
  /\ UNCHANGED <<node, t_root, t_ncount, alloc, stored, a_node, a_flag, todo, w_stack,
                 w_seen, fvars, bound>>

Destroy ==
  /\ AvlStep("destroy")
  /\ CASE a_at = 0 -> a_pc' = "destroyed" /\ UNCHANGED <<a_at, todo, alloc>>
       [] a_at # 0 /\ node[a_at].left # 0 ->
            a_at' = node[a_at].left /\ UNCHANGED <<a_pc, todo, alloc>>
       [] a_at # 0 /\ node[a_at].left = 0 /\ node[a_at].right # 0 ->
            a_at' = node[a_at].right /\ UNCHANGED <<a_pc, todo, alloc>>
       [] OTHER ->
            /\ todo' = Relink(node[a_at].parent, a_at, 0) \o Put(a_at, "parent", 0)
            /\ alloc' = alloc \ {a_at}
            /\ a_at' = node[a_at].parent
            /\ UNCHANGED a_pc
  /\ UNCHANGED <<node, t_root, t_ncount, stored, a_node, a_flag, w_stack, w_seen, fvars,
                 bound>>

(***************************************************************************)
(* walk_inorder_avltree, with its stack                                    *)
(***************************************************************************)
StartWalk ==
  /\ AvlStep("idle") /\ NoSearch
  /\ a_pc' = "walk" /\ a_at' = t_root /\ w_stack' = CreateStack /\ w_seen' = <<>>
  /\ UNCHANGED <<node, t_root, t_ncount, alloc, stored, a_node, a_flag, todo, fvars, bound>>

Walk ==
  /\ AvlStep("walk")
  /\ IF a_at # 0
     THEN /\ w_stack' = PushStack(w_stack, a_at)
          /\ a_at' = node[a_at].left
          /\ UNCHANGED <<a_pc, w_seen>>
     ELSE IF CanPopStack(w_stack)
     THEN /\ w_seen' = Append(w_seen, TopStack(w_stack))
          /\ a_at' = node[TopStack(w_stack)].right
          /\ w_stack' = PopStack(w_stack)
          /\ UNCHANGED a_pc
     ELSE a_pc' = "walked" /\ UNCHANGED <<a_at, w_stack, w_seen>>
  /\ UNCHANGED <<node, t_root, t_ncount, alloc, stored, a_node, a_flag, todo, fvars, bound>>

Walked ==
  /\ AvlStep("walked")
  /\ a_pc' = "idle" /\ w_seen' = <<>>
  /\ UNCHANGED <<node, t_root, t_ncount, alloc, stored, a_at, a_node, a_flag, todo, w_stack,
                 fvars, bound>>

(***************************************************************************)
(* find_name_node_avltree by another process                               *)
(***************************************************************************)
Adding == a_pc \in {"descend", "climb", "rotate", "top"}

StartFind(k) ==
  /\ f_pc = "idle"
  /\ Adding \/ a_pc = "idle"
  /\ f_pc' = "find" /\ f_key' = k /\ f_at' = t_root
  /\ f_quiet' = (a_pc = "idle")
  /\ UNCHANGED <<node, t_root, t_ncount, alloc, stored, wvars, todo, bound>>

\* Mutant: the search turns the wrong way.
ToChildWrong(k) == node[k][IF k < f_key THEN "left" ELSE "right"]
ToChild(k) == node[k][IF k < f_key THEN "right" ELSE "left"]

Find ==
  /\ f_pc = "find"
  /\ IF f_at \in {0, f_key}
     THEN f_pc' = "idle" /\ UNCHANGED f_at
     ELSE f_at' = ToChild(f_at) /\ UNCHANGED f_pc
  /\ UNCHANGED <<node, t_root, t_ncount, alloc, stored, wvars, todo, f_key, f_quiet,
                 bound>>

AvlNext ==
  \/ \E k \in TreeKeys : \/ AddFirst(k) \/ StartAdd(k)
                         \/ RemoveNoRight(k) \/ RemoveRight(k) \/ RemoveNext(k)
  \/ WriteBack \/ AddTwice \/ Descend \/ Climb \/ Rotate \/ Added \/ Shrink \/ Removed
  \/ StartDestroy \/ Destroy \/ StartWalk \/ Walk \/ Walked
  \/ \E k \in Sought : StartFind(k)
  \/ Find

(***************************************************************************)
(* Properties                                                              *)
(***************************************************************************)
HeightOf[k \in TreeKeys \cup {0}] ==
  IF k = 0 THEN 0
  ELSE LET l == HeightOf[node[k].left]
           r == HeightOf[node[k].right]
       IN 1 + IF l < r THEN r ELSE l

\* The keys below a node, in order.
KeysBelow[k \in TreeKeys \cup {0}] ==
  IF k = 0 THEN <<>>
  ELSE KeysBelow[node[k].left] \o <<k>> \o KeysBelow[node[k].right]

\* q passes the keys S, each once and in order.
InOrder(q, S) == Range(q) = S /\ \A i \in 2 .. Len(q) : q[i - 1] < q[i]

Linked(k, s) == node[k][s] # 0 => node[node[k][s]].parent = k

\* Between two calls, whatever adds, deletes and rotations have been made,
\* the tree holds exactly the keys it was given, in search order; parents and
\* children agree; each balance is the difference of the heights and at most
\* one; and memory is held by the nodes of the tree alone.  A walk passes
\* every key once and in order, and a destroyed tree leaves no node behind.
TreeRight ==
  /\ AvlStep("idle") =>
       /\ InOrder(KeysBelow[t_root], stored)
       /\ t_ncount = Cardinality(stored) /\ alloc = stored
       /\ t_root # 0 => node[t_root].parent = 0
       /\ \A k \in stored :
            /\ Linked(k, "left") /\ Linked(k, "right")
            /\ node[k].balance = HeightOf[node[k].right] - HeightOf[node[k].left]
            /\ node[k].balance \in -1 .. 1
  /\ a_pc = "walked" => InOrder(w_seen, stored)
  /\ a_pc = "destroyed" => alloc = {}

\* A search without a lock always ends, though rotations go on under it; one
\* that no add overlaps finds exactly the keys of the tree, and only one that
\* a rotation overtakes may miss a key.
FindsRight ==
  /\ f_pc = "find" ~> f_pc = "idle"
  /\ [][f_pc = "find" /\ f_pc' = "idle" /\ f_quiet
         => (f_at = f_key <=> f_key \in stored)]_avars

=============================================================================
