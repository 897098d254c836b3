----------------------------- MODULE SpeadHeap -----------------------------
(***************************************************************************)
(* The heap of src/src/spead_packet.c, the library's own way to put a heap *)
(* together: packets in any order are chained by their offsets, and        *)
(* spead_heap_finalize cuts the payload into items.                        *)
(*                                                                         *)
(* Data.  A packet on the wire is its header's item pointers.  The byte at *)
(* position k of a heap's payload is k.                                    *)
(***************************************************************************)
EXTENDS Integers, SequencesExt

CONSTANTS Wire,     \* packets that may come: sequences of item pointers
          MaxAdds   \* bound: packets added before the heap is wiped

Err == -1

\* Reserved item ids.
CntId == 1  LenId == 2  OffId == 3  PayloadId == 4  CtrlId == 6

Pointer == [id : Nat, direct : BOOLEAN, addr : Nat]

(***************************************************************************)
(* Packets                                                                 *)
(***************************************************************************)

\* The address in the last item pointer with this id, or what
\* spead_packet_init leaves.
Address(items, id, default) ==
  LET at == {k \in DOMAIN items : items[k].id = id}
  IN IF at = {} THEN default ELSE items[Max(at)].addr

\* spead_packet_init, spead_packet_unpack_header and spead_packet_unpack_items
Unpack(items) ==
  [items |-> items,
   cnt |-> Address(items, CntId, Err), len |-> Address(items, LenId, Err),
   off |-> Address(items, OffId, 0), plen |-> Address(items, PayloadId, 0)]

End(p) == p.off + p.plen

Directs(items) == {k \in DOMAIN items : items[k].direct}

\* Packets a sender makes: p says how long its heap is, has a part of the
\* payload, and lists items that start in it, or any when it is the first.
Sound(p) ==
  /\ p.len # Err => End(p) <= p.len /\ (p.plen > 0 \/ p.len = 0)
  /\ \A k \in Directs(p.items) :
       /\ p.cnt # Err /\ p.len # Err
       /\ p.items[k].addr <= p.len
       /\ p.off = 0 \/ p.items[k].addr \in p.off .. End(p) - 1
  /\ \A j, k \in Directs(p.items) :
       /\ j < k => p.items[j].addr < p.items[k].addr
       /\ p.items[j].id = p.items[k].id => j = k

\* Two packets of a heap that say how long it is agree, share no byte and no
\* item, and list the items in the order of their data.
Agree(p, q) ==
  /\ p.len = q.len
  /\ End(p) <= q.off \/ End(q) <= p.off
  /\ \A j \in Directs(p.items), k \in Directs(q.items) :
       /\ p.items[j].id # q.items[k].id
       /\ p.off < q.off => p.items[j].addr < q.items[k].addr

\* Senders are such as packetize_item_group (module Packetize), without items
\* that are empty, or list each item in the packet its data starts in.
\* Packets that lack the count or the length of their heap may come too.
ASSUME WireAssumption ==
  /\ Wire \subseteq Seq(Pointer)
  /\ MaxAdds \in Nat
  /\ \A v, w \in Wire \ {<<>>} :
       LET p == Unpack(v)
           q == Unpack(w)
       IN /\ Sound(p)
          /\ p # q /\ p.cnt = q.cnt /\ p.len # Err /\ q.len # Err => Agree(p, q)

VARIABLES heap,  \* what has come in order of offset, what is known, the items
          came   \* history: the packets added, in order of arrival

svars == <<heap, came>>

(***************************************************************************)
(* Heaps                                                                   *)
(***************************************************************************)

\* spead_heap_init
NoHeap == [cnt |-> Err, len |-> Err, has_all |-> Err, pkts |-> <<>>, items |-> <<>>,
           valid |-> FALSE]

HeapInit == heap = NoHeap /\ came = <<>>

\* Mutant: the place before the first packet with a greater offset, the
\* head's excepted.
SlotBehind(pkts, p) == 1 + Cardinality({k \in DOMAIN pkts : k = 1 \/ pkts[k].off < p.off})

\* Where a packet goes: before the head, or behind the packets that follow
\* the head and lie before it.
Slot(pkts, p) ==
  IF p.off < pkts[1].off THEN 1
  ELSE LET stop == {k \in 2 .. Len(pkts) : pkts[k].off >= p.off}
       IN IF stop = {} THEN Len(pkts) + 1 ELSE Min(stop)

\* The walk of spead_heap_got_all_packets.
Complete(pkts, len) ==
  /\ \A k \in 1 .. Len(pkts) - 1 : End(pkts[k]) = pkts[k + 1].off
  /\ End(Last(pkts)) = len

\* spead_heap_got_all_packets: an answer once computed is kept.
GotAll(h) ==
  IF h.len = Err \/ h.pkts = <<>> \/ h.has_all # Err THEN h
  ELSE [h EXCEPT !.has_all = IF Complete(h.pkts, h.len) THEN 1 ELSE 0]

\* spead_heap_add_packet.  A packet without a heap count leaves the heap
\* fresh, and the next one takes its place.
Added(h, p) ==
  GotAll([h EXCEPT !.cnt = IF h.cnt < 0 THEN p.cnt ELSE @,
                   !.pkts = IF h.cnt < 0 THEN <<p>> ELSE InsertAt(@, Slot(@, p), p),
                   !.len = IF p.len # Err THEN p.len ELSE @,
                   !.has_all = Err])

AddPacket ==
  /\ Len(came) < MaxAdds
  /\ \E items \in Wire :
       LET p == Unpack(items) IN
       /\ items # <<>> /\ (heap.cnt < 0 \/ heap.cnt = p.cnt)
       /\ heap' = Added(heap, p)
       /\ came' = IF heap.cnt < 0 THEN <<p>> ELSE Append(came, p)

\* The packet of another heap, or one without items, is refused.
Refuse ==
  /\ \E items \in Wire : items = <<>> \/ (heap.cnt >= 0 /\ heap.cnt # Unpack(items).cnt)
  /\ UNCHANGED svars

Query == heap' = GotAll(heap) /\ UNCHANGED came

(***************************************************************************)
(* spead_heap_finalize                                                     *)
(***************************************************************************)

\* The item pointers of all packets, in the order of the chain.
Pointers(h) == FlattenSeq([k \in DOMAIN h.pkts |-> h.pkts[k].items])

\* An item that is addressed directly ends where the next one starts, the
\* last one with the heap.
Length(h, ptrs, k) ==
  LET later == {j \in k + 1 .. Len(ptrs) : ptrs[j].direct}
  IN (IF later = {} THEN h.len ELSE ptrs[Min(later)].addr) - ptrs[k].addr

\* The bytes found in the payloads: of the packets that reach beyond a
\* position the first one has to hold it.
Holders(h, pos) ==
  LET reach == {k \in DOMAIN h.pkts : End(h.pkts[k]) > pos}
  IN IF reach = {} THEN {} ELSE {k \in {Min(reach)} : h.pkts[k].off <= pos}

Item(h, ptrs, k) ==
  LET a == ptrs[k].addr
      n == Length(h, ptrs, k)
      missing == \E pos \in a .. a + n - 1 : Holders(h, pos) = {}
  IN IF ptrs[k].direct
     THEN [id |-> ptrs[k].id, valid |-> n >= 0 /\ ~missing, from |-> a, len |-> n]
     ELSE [id |-> ptrs[k].id, valid |-> TRUE, from |-> a, len |-> Err]

\* The pointers that describe the packet are no items.
Items(h) ==
  LET ptrs == Pointers(h)
      made[k \in 0 .. Len(ptrs)] ==
        IF k = 0 THEN <<>>
        ELSE IF ptrs[k].id \in {CntId, OffId, PayloadId, CtrlId} THEN made[k - 1]
        ELSE Append(made[k - 1], Item(h, ptrs, k))
  IN made[Len(ptrs)]

\* An unknown length is guessed from the last packet.
Finalized(h) ==
  LET known == [h EXCEPT !.len = IF @ = Err THEN End(Last(h.pkts)) ELSE @]
      items == Items(known)
  IN [known EXCEPT !.items = items,
                   !.valid = IF items = <<>> THEN @ ELSE \A j \in DOMAIN items : items[j].valid]

Finalize ==
  /\ heap.pkts # <<>>
  /\ heap' = Finalized(heap)
  /\ UNCHANGED came

\* malloc fails: the items made so far stay.
FinalizeFails ==
  /\ heap.pkts # <<>>
  /\ LET h == Finalized(heap) IN
       \E k \in 0 .. Len(h.items) - 1 :
         LET items == SubSeq(h.items, 1, k) IN
         heap' = [h EXCEPT !.items = items,
                           !.valid = IF k = 0 THEN heap.valid
                                     ELSE \A j \in DOMAIN items : items[j].valid]
  /\ UNCHANGED came

Wipe == heap' = NoHeap /\ came' = <<>>

HeapNext == AddPacket \/ Refuse \/ Query \/ Finalize \/ FinalizeFails \/ Wipe

HeapSpec == HeapInit /\ [][HeapNext]_svars

-----------------------------------------------------------------------------

\* Every packet came once, and all say how long the heap is.
Clean == IsInjective(came) /\ \A k \in DOMAIN came : came[k].len # Err

\* Where the sender put item id, a range of the payload: the packets the heap
\* is sent in are Wire's, whatever has come of them.
SentItem(id) ==
  LET cnt == heap.cnt
      ptrs == UNION {ToSet(w) : w \in {v \in Wire : v # <<>> /\ Unpack(v).cnt = cnt}}
      direct == {q \in ptrs : q.direct}
      q == CHOOSE q \in direct : q.id = id
      ends == {r.addr : r \in {r \in direct : r.addr > q.addr}} \cup {came[1].len}
  IN <<q.addr, Min(ends) - q.addr>>

\* The whole heap has come.
AllCame ==
  UNION {p.off .. End(p) - 1 : p \in ToSet(came)} = 0 .. came[1].len - 1

\* What the heap says of itself is true, in whatever order its packets come
\* and whenever it is asked: it has all packets when it has, and an item that
\* finalize marks valid has the bytes the sender gave it.  (Only while every
\* packet comes once and tells the length, and the first one is among them:
\* see the hazards.)
HeapHonest ==
  (came # <<>> /\ heap.cnt >= 0 /\ Clean /\ \E p \in ToSet(came) : p.off = 0) =>
    /\ heap.has_all = (IF AllCame THEN 1 ELSE 0)
    /\ \A k \in DOMAIN heap.items :
         LET i == heap.items[k] IN
         i.valid /\ i.len # Err => <<i.from, i.len>> = SentItem(i.id)
=============================================================================
