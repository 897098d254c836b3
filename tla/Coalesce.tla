------------------------------ MODULE Coalesce ------------------------------
(***************************************************************************)
(* The way back: process_items (src/src/spead.c) turns the hash table of a *)
(* complete heap into an item group.  It collects the items the packets    *)
(* list, derives each one's length from the offset of the next, and copies *)
(* the bytes with a cursor over the table (single_traverse_hash_table,     *)
(* src/src/hash.c) that is kept in static variables between the items.     *)
(*                                                                         *)
(* Data.  A packet is as in module Packetize.  An item of the new group is *)
(* its id, its i_len and its data; the value of an immediate item is a     *)
(* single mark that stands for sizeof(int64_t) bytes.  The whole of        *)
(* process_items runs in one worker under the table's mutex (module        *)
(* Receiver), so nothing interferes; failing memory allocations and the    *)
(* descriptor flag (module Receiver) are left out.  A length that wraps    *)
(* gives an item more room than the arena has; what its bytes then share   *)
(* with the next item is left out too.                                     *)
(***************************************************************************)
EXTENDS HashChains

CONSTANTS TableLens,   \* the values of t_len of the receiver's table
          ImmLen,      \* sizeof(int64_t)
          StructLen,   \* sizeof(struct spead_api_item)
          WordSize     \* 2^64, at which lengths and offsets wrap

ASSUME CoalesceAssumption ==
  /\ TableLens \subseteq Nat \ {0}
  /\ ImmLen \in Nat \ {0}
  /\ StructLen \in Nat
  /\ WordSize \in Nat \ {0}

VARIABLES ht,                 \* the table
          t_data_count,
          phase,              \* where store_packet_hs and process_items stand
          d_stack,            \* the items to convert, the top first
          d_off, d_remaining, \* of struct coalesce_spead_data
          g_size, g_off,      \* of the new group's arena
          group,              \* the items of the new group
          cstate, coi, co     \* the cursor; co is a position in chain coi

cursor == <<cstate, coi, co>>
cvars == <<ht, t_data_count, phase, d_stack, d_off, d_remaining, g_size,
           g_off, group, cursor>>

CoalesceInit ==
  /\ \E n \in TableLens : ht = EmptyTable(n)
  /\ t_data_count = 0
  /\ phase = "store"
  /\ d_stack = <<>>
  /\ d_off = 0 /\ d_remaining = 0
  /\ g_size = 0 /\ g_off = 0
  /\ group = <<>>
  /\ cstate = "object" /\ coi = 0 /\ co = 0

t_len == Cardinality(DOMAIN ht)

\* store_packet_hs: add_o_ht, and process_items once the bytes are all there.
StorePacket(p, heap_len) ==
  /\ phase = "store"
  /\ ht' = AddO(ht, HashFn(t_len, p.off, heap_len), p)
  /\ t_data_count' = t_data_count + p.len
  /\ phase' = IF t_data_count' = heap_len THEN "collect" ELSE "store"
  /\ UNCHANGED <<d_stack, d_off, d_remaining, g_size, g_off, group, cursor>>

\* coalesce_spead_items over the table
Listed == LET ps == InOrder(ht)
          IN FlattenSeq([i \in DOMAIN ps |-> ps[i].items])

\* Mutant: a length is taken to the end of the heap.
ToTheEnd ==
  [j \in DOMAIN Listed |->
     [id  |-> Listed[j].id,  mode |-> Listed[j].mode,
      len |-> IF Listed[j].mode = "direct" THEN t_data_count - Listed[j].off
              ELSE ImmLen]]

\* calculate_lengths, from the last item to the first: before[j] is d_off
\* when item j is reached.
Sized ==
  LET before[j \in DOMAIN Listed] ==
        IF j = Len(Listed) THEN t_data_count
        ELSE IF Listed[j + 1].mode = "direct" /\ before[j + 1] > 0
             THEN Listed[j + 1].off
             ELSE before[j + 1]
      len(j) == IF Listed[j].mode # "direct" THEN ImmLen
                ELSE IF before[j] > 0 THEN (before[j] - Listed[j].off) % WordSize
                ELSE 0
  IN [j \in DOMAIN Listed |->
        [id |-> Listed[j].id, mode |-> Listed[j].mode, len |-> len(j)]]

d_imm == Cardinality({j \in DOMAIN Listed : Listed[j].mode # "direct"})

\* create_item_group: the bytes of its arena.
ArenaSize == t_data_count + d_imm * ImmLen + Len(Listed) * StructLen

\* process_items up to the conversion.  create_item_group refuses a heap
\* without items.
Collect ==
  /\ phase = "collect"
  /\ d_stack' = Sized
  /\ g_size' = ArenaSize
  /\ phase' = IF Listed = <<>> THEN "failed" ELSE "convert"
  /\ cstate' = "object" /\ coi' = 0 /\ co' = 0
  /\ UNCHANGED <<ht, t_data_count, d_off, d_remaining, g_off, group>>

Item == Head(d_stack)

\* convert_to_ig skips an item without data.
SkipItem ==
  /\ phase = "convert" /\ d_stack # <<>>
  /\ Item.len = 0
  /\ d_stack' = Tail(d_stack)
  /\ UNCHANGED <<ht, t_data_count, phase, d_off, d_remaining, g_size, g_off,
                 group, cursor>>

\* new_item_from_group refuses an item the arena has no room for.
ArenaAfter(len) == (g_off + len + StructLen) % WordSize
ArenaFits(len) == ArenaAfter(len) <= g_size

\* convert_to_ig: new_item_from_group, and the copy of an immediate item.
NewItem ==
  /\ phase = "convert" /\ d_stack # <<>>
  /\ Item.len # 0
  /\ LET fits == ArenaFits(Item.len)
         direct == Item.mode = "direct"
     IN /\ phase' = IF ~fits THEN "failed" ELSE IF direct THEN "copy" ELSE "convert"
        /\ group' = IF ~fits THEN group
                    ELSE Append(group, [id |-> Item.id, len |-> Item.len,
                                        data |-> IF direct THEN <<>> ELSE <<"value">>])
        /\ g_off' = IF fits THEN ArenaAfter(Item.len) ELSE g_off
  /\ d_stack' = Tail(d_stack)
  /\ UNCHANGED <<ht, t_data_count, d_off, d_remaining, g_size, cursor>>

\* The stack is empty: end_single_traverse_hash_table.
Converted ==
  /\ phase = "convert" /\ d_stack = <<>>
  /\ phase' = "done"
  /\ cstate' = "object" /\ coi' = 0 /\ co' = 0
  /\ UNCHANGED <<ht, t_data_count, d_stack, d_off, d_remaining, g_size, g_off,
                 group>>

(***************************************************************************)
(* One round of the loop of convert_to_ig: single_traverse_hash_table      *)
(* moves the cursor to the next packet and calls copy_direct_spead_item.   *)
(***************************************************************************)
AtEnd == <<t_len, 0>>

\* S_GET_OBJECT: the head of the first chain from bucket i on.
FirstFrom(i) ==
  LET filled == {b \in DOMAIN ht : b >= i /\ ht[b] # <<>>}
  IN IF filled = {} THEN AtEnd ELSE <<Min(filled), 1>>

\* Where the loop of single_traverse_hash_table stops.
Here ==
  CASE cstate = "end" -> AtEnd
    [] cstate = "packet" -> <<coi, co>>
    [] cstate = "object" -> FirstFrom(coi)
    [] cstate = "next" -> IF co < Len(ht[coi]) THEN <<coi, co + 1>>
                          ELSE FirstFrom(coi + 1)

Packet == ht[Here[1]][Here[2]]
Active == group[Len(group)]

\* What copy_direct_spead_item can copy from the packet, what the item still
\* needs, and the smaller of the two.
cc == (Packet.len - d_off) % WordSize
must == IF d_remaining = 0 THEN Active.len ELSE d_remaining

\* Mutant: the packet's bytes are compared with the item's whole length.
NeedOfWholeItem == IF Packet.len <= Active.len THEN cc ELSE must

mc == IF Packet.len <= must THEN cc ELSE must

Copied == IF mc < cc THEN mc ELSE cc

\* cc wraps when d_off is beyond the packet; and append_copy_to_spead_item
\* refuses what is longer than the item.
CannotCopy == cc > Packet.len \/ Copied + Len(Active.data) > Active.len

AppendCopy ==
  group' = [group EXCEPT ![Len(group)].data =
              @ \o SubSeq(Packet.data, d_off + 1, d_off + Copied)]

CursorAt(state) == cstate' = state /\ coi' = Here[1] /\ co' = Here[2]

\* The table is at its end, and the item stays as it is.  Only an item whose
\* length has wrapped gets here.
CopyNothing ==
  /\ phase = "copy" /\ Here = AtEnd
  /\ phase' = "convert"
  /\ CursorAt("end")
  /\ UNCHANGED <<ht, t_data_count, d_stack, d_off, d_remaining, g_size, g_off,
                 group>>

\* Return 3: the cursor goes back to the start, for the same item.
CopyFromStart ==
  /\ phase = "copy" /\ Here # AtEnd
  /\ cc = 0
  /\ d_remaining' = must
  /\ cstate' = "object" /\ coi' = 0 /\ co' = 0
  /\ UNCHANGED <<ht, t_data_count, phase, d_stack, d_off, g_size, g_off, group>>

\* Return -1: convert_to_ig takes it for the end of the item.
CopyFails ==
  /\ phase = "copy" /\ Here # AtEnd
  /\ cc # 0 /\ CannotCopy
  /\ d_remaining' = must
  /\ phase' = "convert"
  /\ CursorAt("packet")
  /\ UNCHANGED <<ht, t_data_count, d_stack, d_off, g_size, g_off, group>>

\* Return 2: the item ends inside the packet, which the next one starts in.
CopyWithin ==
  /\ phase = "copy" /\ Here # AtEnd
  /\ cc # 0 /\ ~CannotCopy /\ mc < cc
  /\ AppendCopy
  /\ d_off' = d_off + mc
  /\ d_remaining' = 0
  /\ phase' = "convert"
  /\ CursorAt("object")
  /\ UNCHANGED <<ht, t_data_count, d_stack, g_size, g_off>>

\* Mutant: d_off is not reset with the packet.
CopyAcrossKeepsOff ==
  /\ phase = "copy" /\ Here # AtEnd
  /\ cc # 0 /\ ~CannotCopy /\ mc >= cc
  /\ AppendCopy
  /\ d_off' = d_off + cc
  /\ d_remaining' = must - cc
  /\ phase' = IF must = cc THEN "convert" ELSE "copy"
  /\ CursorAt("next")
  /\ UNCHANGED <<ht, t_data_count, d_stack, g_size, g_off>>

\* Returns 0 and 1: the packet is used up, and the item is done or not.
CopyAcross ==
  /\ phase = "copy" /\ Here # AtEnd
  /\ cc # 0 /\ ~CannotCopy /\ mc >= cc
  /\ AppendCopy
  /\ d_off' = 0
  /\ d_remaining' = must - cc
  /\ phase' = IF must = cc THEN "convert" ELSE "copy"
  /\ CursorAt("next")
  /\ UNCHANGED <<ht, t_data_count, d_stack, g_size, g_off>>

CoalesceStep ==
  \/ Collect \/ SkipItem \/ NewItem \/ Converted
  \/ CopyNothing \/ CopyFromStart \/ CopyFails \/ CopyWithin \/ CopyAcross

=============================================================================
