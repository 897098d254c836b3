----------------------------- MODULE SharedMem -----------------------------
(***************************************************************************)
(* The shared memory allocator of src/src/sharedmem.c: regions cut from    *)
(* the front, and a list of freed blocks for each size, found through an   *)
(* AVL tree that lives in the same memory.  The processes are forked from  *)
(* one parent and allocate and free concurrently.                          *)
(*                                                                         *)
(* Steps.  A section under s_m or r_m is one step.  The tree is read and   *)
(* changed without a lock: an addition takes two steps, and a search while *)
(* another process adds may miss a size (module AvlTree: FindsRight).      *)
(* After two additions at a time, or a late unlock of memory that somebody *)
(* uses by then, nothing is defined and the model stops: broken.           *)
(*                                                                         *)
(* Data.  A block is its region, its offset and its length; a free list is *)
(* a sequence of blocks, the top first.                                    *)
(***************************************************************************)
EXTENDS Integers, SequencesExt

CONSTANTS MemUser,     \* the processes
          BlockSize,   \* the sizes callers ask for
          HeaderSize,  \* sizeof(struct shared_mem_size)
          NodeSize,    \* sizeof(struct avl_node)
          RegionSize,  \* SHARED_MEM_REGION_SIZE
          MaxRegion,   \* bound: regions
          MaxAsk       \* bound: calls of shared_malloc by each process

ASSUME MemAssumption ==
  /\ BlockSize \cup {HeaderSize, NodeSize} \subseteq 1 .. RegionSize
  /\ RegionSize \in Nat /\ MaxRegion \in Nat \ {0} /\ MaxAsk \in Nat

Region == 0 .. MaxRegion - 1
Size == BlockSize \cup {HeaderSize, NodeSize}
NoBlock == [region |-> 0, off |-> 0, len |-> 0]

VARIABLES m_current, m_next_id, \* of the area
          r_off,      \* of each region
          mapped,     \* of each process: the regions in its address space
          m_free,     \* the sizes in the tree
          s_top,      \* of each size: its free list
          s_m,        \* the sizes whose lock a process died with
          kept,       \* blocks used for the tree's nodes and its list heads
          owned,      \* of each process: the blocks it has been given
          m_pc,       \* of each process
          ask,        \* of each process: the size shared_malloc is asked for
          why,        \* of each process: for whom
          r,          \* of each process: the local r
          give,       \* of each process: the blocks to free, the first now,
                      \* each with the mark of a late unlock
          head,       \* of each process: the list head it is about to store,
                      \* or has freed and is about to unlock
          asked,      \* of each process: bound
          leaked,     \* history: blocks nobody can reach
          broken

mlocals == <<m_pc, ask, why, r, give, head, asked>>
mvars == <<m_current, m_next_id, r_off, mapped, m_free, s_top, s_m, kept, owned,
           mlocals, leaked, broken>>

MemInit ==
  /\ m_current = 0 /\ m_next_id = 1
  /\ r_off = [i \in Region |-> 0]
  /\ mapped = [p \in MemUser |-> {0}]
  /\ m_free = {} /\ s_top = [n \in Size |-> <<>>] /\ s_m = {}
  /\ kept = {} /\ owned = [p \in MemUser |-> {}]
  /\ m_pc = [p \in MemUser |-> "idle"]
  /\ ask = [p \in MemUser |-> 0] /\ why = [p \in MemUser |-> "caller"]
  /\ r = [p \in MemUser |-> 0]
  /\ give = [p \in MemUser |-> <<>>] /\ head = [p \in MemUser |-> NoBlock]
  /\ asked = [p \in MemUser |-> 0]
  /\ leaked = {} /\ broken = FALSE

\* The block p is freeing, and where it goes on after that; the list head it
\* will free.
Given(p) == Head(give[p]).block
Later(p) == IF Len(give[p]) = 1 THEN "idle" ELSE "free"
LateHead(p) == [block |-> head[p], late |-> TRUE]

MGoto(p, l) == m_pc' = [m_pc EXCEPT ![p] = l]
At(p, l) == m_pc[p] = l /\ ~broken

\* Whether somebody else is changing the tree.
Storing(p) == \E q \in MemUser \ {p} : m_pc[q] = "store"

\* find_data_avltree of size n by p.
FoundBy(p, n) == {n \in m_free} \cup (IF Storing(p) THEN {FALSE} ELSE {})

(***************************************************************************)
(* shared_malloc                                                           *)
(***************************************************************************)

\* A call, from a caller or from shared_free.
Malloc(p, n, for) ==
  /\ ask' = [ask EXCEPT ![p] = n] /\ why' = [why EXCEPT ![p] = for]
  /\ MGoto(p, "find")

Ask(p) ==
  /\ At(p, "idle") /\ asked[p] < MaxAsk
  /\ asked' = [asked EXCEPT ![p] = @ + 1]
  /\ \E n \in BlockSize : Malloc(p, n, "caller")
  /\ UNCHANGED <<m_current, m_next_id, r_off, mapped, m_free, s_top, s_m, kept, owned,
                 r, give, head, leaked, broken>>

FindSize(p) ==
  /\ At(p, "find")
  /\ \E found \in FoundBy(p, ask[p]) :
       /\ MGoto(p, IF found THEN "pop" ELSE "bump")
       /\ r' = [r EXCEPT ![p] = m_current]
  /\ UNCHANGED <<m_current, m_next_id, r_off, mapped, m_free, s_top, s_m, kept, owned,
                 ask, why, give, head, asked, leaked, broken>>

\* shared_malloc returns block b.
Got(p, b) ==
  /\ owned' = IF why[p] = "caller" THEN [owned EXCEPT ![p] = @ \cup {b}] ELSE owned
  /\ kept' = IF why[p] = "caller" THEN kept ELSE kept \cup {b}
  /\ head' = IF why[p] = "head" THEN [head EXCEPT ![p] = b] ELSE head
  /\ give' = IF why[p] = "node"
             THEN [give EXCEPT ![p] = <<[block |-> b, late |-> FALSE]>> \o @] ELSE give
  /\ CASE why[p] = "caller" -> MGoto(p, "idle") /\ UNCHANGED <<ask, why>>
       [] why[p] = "head" -> Malloc(p, NodeSize, "node")
       [] why[p] = "node" -> MGoto(p, "store") /\ UNCHANGED <<ask, why>>

\* Mutant: the top of the list is not moved.
PoppedNot(n) == s_top[n]
Popped(n) == Tail(s_top[n])

\* The list of the size, under s_m.
PopFree(p) ==
  LET n == ask[p] IN
  /\ At(p, "pop") /\ n \notin s_m
  /\ IF s_top[n] = <<>>
     THEN /\ MGoto(p, "bump")
          /\ r' = [r EXCEPT ![p] = m_current]
          /\ UNCHANGED <<s_top, s_m, owned, kept, head, give, ask, why>>
     ELSE /\ UNCHANGED r
          /\ IF Head(s_top[n]).region \in mapped[p]
             THEN /\ s_top' = [s_top EXCEPT ![n] = Popped(n)]
                  /\ Got(p, Head(s_top[n]))
                  /\ UNCHANGED s_m
             ELSE /\ s_m' = s_m \cup {n}  \* f_next is not mapped: SIGSEGV
                  /\ MGoto(p, "crashed")
                  /\ UNCHANGED <<s_top, owned, kept, head, give, ask, why>>
  /\ UNCHANGED <<m_current, m_next_id, r_off, mapped, m_free, asked, leaked,
                 broken>>

\* The front of region r, without a look at its end.
Cut(p) ==
  /\ r_off' = [r_off EXCEPT ![r[p]] = @ + ask[p]]
  /\ Got(p, [region |-> r[p], off |-> r_off[r[p]], len |-> ask[p]])

Fits(p) == ask[p] + r_off[r[p]] <= RegionSize

\* The first use of r that the process has not mapped.
CrashOnRegion(p) ==
  /\ \/ At(p, "bump") \/ At(p, "blind")
  /\ r[p] \notin mapped[p]
  /\ MGoto(p, "crashed")
  /\ UNCHANGED <<m_current, m_next_id, r_off, mapped, m_free, s_top, s_m, kept, owned,
                 ask, why, r, give, head, asked, leaked, broken>>

\* The current region has room.
Bump(p) ==
  /\ At(p, "bump") /\ r[p] \in mapped[p]
  /\ Fits(p)
  /\ Cut(p)
  /\ UNCHANGED <<m_current, m_next_id, mapped, m_free, s_top, s_m, r, asked, leaked,
                 broken>>

\* It has none: add_shared_mem_region, mapped here and nowhere else; then
\* the unlock of the full one, and m_current is read again.
Grow(p) ==
  /\ At(p, "bump") /\ r[p] \in mapped[p]
  /\ ~Fits(p) /\ m_next_id < MaxRegion
  /\ m_current' = m_next_id /\ m_next_id' = m_next_id + 1
  /\ mapped' = [mapped EXCEPT ![p] = @ \cup {m_next_id}]
  /\ MGoto(p, "reread")
  /\ UNCHANGED <<r_off, m_free, s_top, s_m, kept, owned, ask, why, r, give, head,
                 asked, leaked, broken>>

\* mmap fails (bound: or there are MaxRegion regions): NULL.  Without a list
\* head the block is lost; without a node the list head is freed as well,
\* before its lock is released.
GrowFails(p) ==
  /\ At(p, "bump") /\ r[p] \in mapped[p]
  /\ ~Fits(p)
  /\ CASE why[p] = "caller" -> MGoto(p, "idle") /\ UNCHANGED <<leaked, kept, give>>
       [] why[p] = "head" -> /\ leaked' = leaked \cup {Given(p)}
                             /\ give' = [give EXCEPT ![p] = Tail(@)]
                             /\ MGoto(p, Later(p))
                             /\ UNCHANGED kept
       [] why[p] = "node" -> /\ leaked' = leaked \cup {Given(p)}
                             /\ kept' = kept \ {head[p]}
                             /\ give' = [give EXCEPT ![p] = <<LateHead(p)>> \o Tail(@)]
                             /\ MGoto(p, "free")
  /\ UNCHANGED <<m_current, m_next_id, r_off, mapped, m_free, s_top, s_m, owned, ask,
                 why, r, head, asked, broken>>

Reread(p) ==
  /\ At(p, "reread")
  /\ r' = [r EXCEPT ![p] = m_current]
  /\ MGoto(p, "blind")
  /\ UNCHANGED <<m_current, m_next_id, r_off, mapped, m_free, s_top, s_m, kept, owned,
                 ask, why, give, head, asked, leaked, broken>>

\* The new region is not asked whether it has room.
BumpBlind(p) ==
  /\ At(p, "blind") /\ r[p] \in mapped[p]
  /\ Cut(p)
  /\ UNCHANGED <<m_current, m_next_id, mapped, m_free, s_top, s_m, r, asked, leaked,
                 broken>>

(***************************************************************************)
(* shared_free                                                             *)
(***************************************************************************)
Free(p) ==
  /\ At(p, "idle")
  /\ \E b \in owned[p] :
       /\ owned' = [owned EXCEPT ![p] = @ \ {b}]
       /\ give' = [give EXCEPT ![p] = <<[block |-> b, late |-> FALSE]>>]
  /\ MGoto(p, "free")
  /\ UNCHANGED <<m_current, m_next_id, r_off, mapped, m_free, s_top, s_m, kept, ask, why,
                 r, head, asked, leaked, broken>>

\* The search; without a list for the size, one is made.
FindList(p) ==
  /\ At(p, "free")
  /\ \E found \in FoundBy(p, Given(p).len) :
       IF found THEN MGoto(p, "push") /\ UNCHANGED <<ask, why>>
       ELSE Malloc(p, HeaderSize, "head")
  /\ UNCHANGED <<m_current, m_next_id, r_off, mapped, m_free, s_top, s_m, kept, owned,
                 r, give, head, asked, leaked, broken>>

\* The block goes onto the list of its size.
PushFree(p) ==
  LET n == Given(p).len IN
  /\ At(p, "push") /\ n \notin s_m
  /\ s_top' = [s_top EXCEPT ![n] = <<Given(p)>> \o @]
  /\ give' = [give EXCEPT ![p] = Tail(@)]
  /\ IF Head(give[p]).late
     THEN MGoto(p, "late") /\ head' = [head EXCEPT ![p] = Given(p)]
     ELSE MGoto(p, Later(p)) /\ UNCHANGED head
  /\ UNCHANGED <<m_current, m_next_id, r_off, mapped, m_free, s_m, kept, owned, ask, why,
                 r, asked, leaked, broken>>

\* store_named_node_avltree of a size that is not there.  give holds the
\* node and the block; the block becomes the list.
Store(p) ==
  LET block == give[p][2].block IN
  /\ At(p, "store") /\ block.len \notin m_free
  /\ broken' = Storing(p)
  /\ m_free' = m_free \cup {block.len}
  /\ s_top' = [s_top EXCEPT ![block.len] = <<block>>]
  /\ give' = [give EXCEPT ![p] = SubSeq(@, 3, Len(@))]
  /\ IF give[p][2].late
     THEN MGoto(p, "late") /\ head' = [head EXCEPT ![p] = block]
     ELSE MGoto(p, IF Len(give[p]) = 2 THEN "idle" ELSE "free") /\ UNCHANGED head
  /\ UNCHANGED <<m_current, m_next_id, r_off, mapped, s_m, kept, owned, ask, why, r,
                 asked, leaked>>

\* The size is there after all: the node and the list head are freed, the
\* head before its lock is released, and the block is lost.
StoreTwice(p) ==
  LET block == give[p][2].block IN
  /\ At(p, "store") /\ block.len \in m_free
  /\ broken' = Storing(p)
  /\ leaked' = leaked \cup {block}
  /\ kept' = kept \ {give[p][1].block, head[p]}
  /\ give' = [give EXCEPT ![p] = <<@[1], LateHead(p)>> \o SubSeq(@, 3, Len(@))]
  /\ MGoto(p, "free")
  /\ UNCHANGED <<m_current, m_next_id, r_off, mapped, m_free, s_top, s_m, owned, ask,
                 why, r, head, asked>>

\* The lock of a list head that was freed: 0 is written to the first word of
\* its block, where a free block has f_next.  By then the block may have been
\* popped, and be in use, or on a list again.  (One that was lost, or that
\* somebody is about to free, takes no harm.)
LateUnlock(p) ==
  /\ At(p, "late")
  /\ LET list == s_top[head[p].len]
         link == head[p] \in ToSet(list) /\ head[p] # Last(list)
     IN broken' = (link \/ head[p] \in kept \cup UNION {owned[q] : q \in MemUser})
  /\ MGoto(p, IF give[p] = <<>> THEN "idle" ELSE "free")
  /\ UNCHANGED <<m_current, m_next_id, r_off, mapped, m_free, s_top, s_m, kept, owned,
                 ask, why, r, give, head, asked, leaked>>

MemNext == \E p \in MemUser :
  \/ Ask(p) \/ FindSize(p) \/ PopFree(p) \/ CrashOnRegion(p) \/ Bump(p) \/ Grow(p)
  \/ GrowFails(p) \/ Reread(p) \/ BumpBlind(p)
  \/ Free(p) \/ FindList(p) \/ PushFree(p) \/ Store(p) \/ StoreTwice(p)
  \/ LateUnlock(p)

MemSpec == MemInit /\ [][MemNext]_mvars

-----------------------------------------------------------------------------

\* Blocks in a process's hands, with what it is freeing.
Hands(p) == owned[p] \cup ToSet([i \in DOMAIN give[p] |-> give[p][i].block])

Blocks == kept \cup leaked \cup (UNION {ToSet(s_top[n]) : n \in Size})
          \cup (UNION {Hands(p) : p \in MemUser})

Cells(b) == {<<b.region, i>> : i \in b.off .. b.off + b.len - 1}

\* Whoever allocates and frees at the same time, whichever allocation fails,
\* and with blocks popped before the lock word in them is cleared: until two
\* additions to the tree overlap or such a word was in use (broken), no byte
\* belongs to two blocks, every byte cut from a region is in a block somebody
\* can name, a free block is on one list once and belongs to nobody, and
\* nobody cuts past the end of a region, although the new one is not asked
\* whether it has room.
BlocksTile ==
  ~broken =>
    /\ \A b, d \in Blocks : b # d => Cells(b) \cap Cells(d) = {}
    /\ UNION {Cells(b) : b \in Blocks} =
         UNION {{<<i, k>> : k \in 0 .. r_off[i] - 1} : i \in Region}
    /\ \A n \in Size : IsInjective(s_top[n])
    /\ \A n \in Size : ToSet(s_top[n]) \cap
         (kept \cup leaked \cup (UNION {Hands(p) : p \in MemUser})) = {}
    /\ \A p, q \in MemUser : p # q => owned[p] \cap Hands(q) = {}
    /\ \A i \in Region : r_off[i] <= RegionSize
=============================================================================
