------------------------------ MODULE HashList ------------------------------
(***************************************************************************)
(* The lists of src/src/hash.c pointer by pointer: the bank's free list    *)
(* and the chains of the tables run through the same field o_next of the   *)
(* objects, while several processes take objects, chain them, empty tables *)
(* and walk them.                                                          *)
(*                                                                         *)
(* Steps.  pop_hash_o and push_hash_o hold l_m throughout and are one step *)
(* each.  A table is locked by h_m (t_m); emptying and walking one is a    *)
(* step for each object, because the others use the bank meanwhile.        *)
(***************************************************************************)
EXTENDS Integers, SequencesExt

CONSTANTS HUser,     \* the processes
          HTable,    \* the tables
          HLen,      \* t_len
          HObject,   \* the objects
          NoObject   \* NULL

HBucket == 0 .. HLen - 1

ASSUME HashAssumption ==
  HLen \in Nat \ {0} /\ IsFiniteSet(HObject) /\ NoObject \notin HObject

VARIABLES l_top, l_len,  \* of the bank
          o_next,        \* of each object
          t_os,          \* of each table and bucket: the head of its chain
          h_m,           \* of each table: who holds t_m, a set
          h_pc,          \* of each process: where it is
          h_o, h_t, h_i, \* of each process: an object, a table, a bucket
          h_seen         \* of each process: what its walk has passed

hvars == <<l_top, l_len, o_next, t_os, h_m, h_pc, h_o, h_t, h_i, h_seen>>

\* The objects in the order of the free list that create_o_list builds.
Row == SetToSeq(HObject)

RowPlace(o) == CHOOSE i \in DOMAIN Row : Row[i] = o

RowAfter(o) == IF RowPlace(o) = Len(Row) THEN NoObject ELSE Row[RowPlace(o) + 1]

HashInit ==
  /\ l_top = IF Row = <<>> THEN NoObject ELSE Head(Row)
  /\ l_len = Len(Row)
  /\ o_next = [o \in HObject |-> RowAfter(o)]
  /\ t_os = [t \in HTable |-> [b \in HBucket |-> NoObject]]
  /\ h_m = [t \in HTable |-> {}]
  /\ h_pc = [p \in HUser |-> "idle"]
  /\ h_o = [p \in HUser |-> NoObject]
  /\ h_t = [p \in HUser |-> CHOOSE t \in HTable : TRUE]
  /\ h_i = [p \in HUser |-> 0]
  /\ h_seen = [p \in HUser |-> <<>>]

HGoto(p, l) == h_pc' = [h_pc EXCEPT ![p] = l]

\* pop_hash_o; of an empty bank it returns NULL and changes nothing.
PopO(p) ==
  /\ h_pc[p] = "idle" /\ l_top # NoObject
  /\ h_o' = [h_o EXCEPT ![p] = l_top]
  /\ l_top' = o_next[l_top] /\ l_len' = l_len - 1
  /\ o_next' = [o_next EXCEPT ![l_top] = NoObject]
  /\ HGoto(p, "holds")
  /\ UNCHANGED <<t_os, h_m, h_t, h_i, h_seen>>

\* push_hash_o
Pushed(o) ==
  /\ o_next' = [o_next EXCEPT ![o] = l_top]
  /\ l_top' = o /\ l_len' = l_len + 1

PushO(p) ==
  /\ h_pc[p] = "holds"
  /\ Pushed(h_o[p])
  /\ h_o' = [h_o EXCEPT ![p] = NoObject]
  /\ HGoto(p, "idle")
  /\ UNCHANGED <<t_os, h_m, h_t, h_i, h_seen>>

\* lock_mutex of a table: to add to it, to empty it or to walk it.
LockTable(p) ==
  /\ \E t \in HTable :
       /\ h_m[t] = {}
       /\ h_m' = [h_m EXCEPT ![t] = {p}]
       /\ h_t' = [h_t EXCEPT ![p] = t]
  /\ \/ h_pc[p] = "holds" /\ HGoto(p, "add")
     \/ h_pc[p] = "idle" /\ \E l \in {"empty", "walk"} : HGoto(p, l)
  /\ h_i' = [h_i EXCEPT ![p] = 0]
  /\ UNCHANGED <<l_top, l_len, o_next, t_os, h_o, h_seen>>

UnlockTable(p) == h_m' = [h_m EXCEPT ![h_t[p]] = @ \ {p}]

\* The object at the end of the chain that starts at o.
LastOf[o \in HObject] == IF o_next[o] = NoObject THEN o ELSE LastOf[o_next[o]]

\* add_o_ht, with any bucket the hash function may give.
AddOHt(p) ==
  /\ h_pc[p] = "add"
  /\ \E b \in HBucket :
       LET head == t_os[h_t[p]][b]
       IN IF head = NoObject
          THEN t_os' = [t_os EXCEPT ![h_t[p]][b] = h_o[p]] /\ UNCHANGED o_next
          ELSE o_next' = [o_next EXCEPT ![LastOf[head]] = h_o[p]] /\ UNCHANGED t_os
  /\ h_o' = [h_o EXCEPT ![p] = NoObject]
  /\ UnlockTable(p)
  /\ HGoto(p, "idle")
  /\ UNCHANGED <<l_top, l_len, h_t, h_i, h_seen>>

\* The cursor of a loop over the buckets and their chains, at o of bucket i.
CursorTo(p, i, o) ==
  /\ h_i' = [h_i EXCEPT ![p] = IF o = NoObject THEN i + 1 ELSE i]
  /\ h_o' = [h_o EXCEPT ![p] = o]

\* The next bucket (of empty_hash_table and of inorder_traverse_hash_table).
NextBucket(p) ==
  /\ h_pc[p] \in {"empty", "walk"} /\ h_o[p] = NoObject /\ h_i[p] < HLen
  /\ CursorTo(p, h_i[p], t_os[h_t[p]][h_i[p]])
  /\ UNCHANGED <<l_top, l_len, o_next, t_os, h_m, h_pc, h_t, h_seen>>

\* empty_hash_table: the next object is read before this one is pushed.
EmptyOne(p) ==
  /\ h_pc[p] = "empty" /\ h_o[p] # NoObject
  /\ CursorTo(p, h_i[p], o_next[h_o[p]])
  /\ Pushed(h_o[p])
  /\ UNCHANGED <<t_os, h_m, h_pc, h_t, h_seen>>

\* Mutant: the heads are not cleared.
EmptyKeepsHeads(p) ==
  /\ h_pc[p] = "empty" /\ h_i[p] = HLen
  /\ UnlockTable(p)
  /\ HGoto(p, "idle")
  /\ UNCHANGED <<l_top, l_len, o_next, t_os, h_o, h_t, h_i, h_seen>>

\* ... the memset, the unlock.
EmptyEnd(p) ==
  /\ h_pc[p] = "empty" /\ h_i[p] = HLen
  /\ t_os' = [t_os EXCEPT ![h_t[p]] = [b \in HBucket |-> NoObject]]
  /\ UnlockTable(p)
  /\ HGoto(p, "idle")
  /\ UNCHANGED <<l_top, l_len, o_next, h_o, h_t, h_i, h_seen>>

\* Mutant: the walk leaves a chain after its head.
WalkHead(p) ==
  /\ h_pc[p] = "walk" /\ h_o[p] # NoObject
  /\ h_seen' = [h_seen EXCEPT ![p] = Append(@, h_o[p])]
  /\ CursorTo(p, h_i[p], NoObject)
  /\ UNCHANGED <<l_top, l_len, o_next, t_os, h_m, h_pc, h_t>>

\* inorder_traverse_hash_table: the callback, then S_NEXT_PACKET.
WalkOne(p) ==
  /\ h_pc[p] = "walk" /\ h_o[p] # NoObject
  /\ h_seen' = [h_seen EXCEPT ![p] = Append(@, h_o[p])]
  /\ CursorTo(p, h_i[p], o_next[h_o[p]])
  /\ UNCHANGED <<l_top, l_len, o_next, t_os, h_m, h_pc, h_t>>

WalkEnd(p) ==
  /\ h_pc[p] = "walk" /\ h_i[p] = HLen
  /\ h_seen' = [h_seen EXCEPT ![p] = <<>>]
  /\ UnlockTable(p)
  /\ HGoto(p, "idle")
  /\ UNCHANGED <<l_top, l_len, o_next, t_os, h_o, h_t, h_i>>

HashNext == \E p \in HUser :
  \/ PopO(p) \/ PushO(p) \/ LockTable(p) \/ AddOHt(p) \/ NextBucket(p)
  \/ EmptyOne(p) \/ EmptyEnd(p) \/ WalkOne(p) \/ WalkEnd(p)

HashSpec == HashInit /\ [][HashNext]_hvars

-----------------------------------------------------------------------------

\* The objects from o on.
ListFrom[o \in HObject \cup {NoObject}] ==
  IF o = NoObject THEN <<>> ELSE <<o>> \o ListFrom[o_next[o]]

\* Where what bucket b of table t holds starts: when p is emptying the table
\* only what it has not pushed yet counts.
ChainHead(t, b) ==
  IF \E p \in h_m[t] : h_pc[p] = "empty"
  THEN LET p == CHOOSE q \in h_m[t] : TRUE
       IN CASE b < h_i[p] -> NoObject
            [] b = h_i[p] /\ h_o[p] # NoObject -> h_o[p]
            [] OTHER -> t_os[t][b]
  ELSE t_os[t][b]

Chained(t, b) == ListFrom[ChainHead(t, b)]

Chains == [t \in HTable |-> [b \in HBucket |-> Chained(t, b)]]

Holding == [p \in HUser |-> IF h_pc[p] \in {"holds", "add"} THEN {h_o[p]} ELSE {}]

Bank == INSTANCE ObjectBank WITH
          free <- ToSet(ListFrom[l_top]), holding <- Holding, chain <- Chains

\* However the processes interleave, the linked lists are a bank: one field
\* o_next serves the free list and the chains, and no object is ever on two
\* of them, lost or out of order in its chain.
ImplementsBank == Bank!BankSpec

\* The count of the bank is the length of its list, and a walk of a table
\* passes what it holds, bucket by bucket, each chain in its order.
WalksWhole ==
  /\ l_len = Len(ListFrom[l_top])
  /\ \A p \in HUser : h_pc[p] = "walk" /\ h_i[p] = HLen =>
       h_seen[p] = FlattenSeq([i \in 1 .. HLen |-> ListFrom[t_os[h_t[p]][i - 1]]])
=============================================================================
