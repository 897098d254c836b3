----------------------------- MODULE HashChains -----------------------------
(***************************************************************************)
(* The hash table of a heap (src/src/hash.c): t_len buckets, each a chain  *)
(* of packets in the order add_o_ht appended them.  A table is a function  *)
(* from 0 .. t_len - 1 to sequences of packets.                            *)
(***************************************************************************)
EXTENDS Integers, SequencesExt

EmptyTable(t_len) == [b \in 0 .. t_len - 1 |-> <<>>]

\* hash_fn_spead_packet, in exact arithmetic: the code divides floats.
HashFn(t_len, po, hl) ==
  IF hl = 0 \/ t_len = 1 THEN 0 ELSE (po * (t_len - 1)) \div hl

\* add_o_ht
AddO(t_os, id, p) == [t_os EXCEPT ![id] = Append(@, p)]

\* inorder_traverse_hash_table: the packets in the order it visits them.
InOrder(t_os) ==
  FlattenSeq([i \in 1 .. Cardinality(DOMAIN t_os) |-> t_os[i - 1]])

=============================================================================
