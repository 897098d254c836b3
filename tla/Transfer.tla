------------------------------ MODULE Transfer ------------------------------
(***************************************************************************)
(* An item group on its way from a transmitter to a module of the server:  *)
(* cut into packets (module Packetize), sent in the order the sender's     *)
(* table gives them, stored by the receiver in the order they arrive, and  *)
(* put together again (module Coalesce).  Lost and repeated datagrams are  *)
(* the matter of module Receiver: here each arrives once.                  *)
(***************************************************************************)
EXTENDS Packetize, Coalesce

\* No length of the program wraps for a group that fits into memory with all
\* it is made of: the items' data, and each item's descriptor, a further
\* immediate item included.
ASSUME TransferAssumption ==
  \A g \in Groups :
    FoldLeft(+, 0, g) + ImmLen + (Len(g) + 1) * StructLen < WordSize

VARIABLES net,    \* the packets under way
          sent    \* whether they were sent

vars == <<pvars, cvars, net, sent>>

Init ==
  /\ PacketizeInit
  /\ CoalesceInit
  /\ net = {} /\ sent = FALSE

\* worker_task_data_file_speadtx sends the table packetize_item_group gives
\* it.  Other SPEAD senders put immediate items in front, and list an item in
\* the packet that its data starts in.
Immediate == [mode |-> "immediate", id |-> 0, off |-> 0]

Starting(x) ==
  LET items == Chained[1].items
      before(o) == Cardinality({i \in DOMAIN items : items[i].off < o})
  IN SubSeq(items, before(x.off) + 1,
            IF x = Last(Chained) THEN Len(items) ELSE before(x.off + x.len))

Send ==
  /\ state = "end" /\ ~sent
  /\ \E front \in {<<>>, <<Immediate>>}, spread \in BOOLEAN :
       net' = {[x EXCEPT !.items = (IF x.off = 0 THEN front ELSE <<>>)
                                     \o (IF spread THEN Starting(x) ELSE @)]
                 : x \in Range(Chained)}
  /\ sent' = TRUE
  /\ UNCHANGED <<pvars, cvars>>

\* A datagram arrives, in any order.
Arrive ==
  /\ sent
  /\ \E x \in net : StorePacket(x, heap_len) /\ net' = net \ {x}
  /\ UNCHANGED <<pvars, sent>>

Next ==
  \/ PacketizeNext /\ UNCHANGED <<cvars, net, sent>>
  \/ Send
  \/ Arrive
  \/ CoalesceStep /\ UNCHANGED <<pvars, net, sent>>

\* Both ends are loops of running processes, and datagrams arrive.
Spec == Init /\ [][Next]_vars /\ WF_vars(Next)

(***************************************************************************)
(* Properties                                                              *)
(***************************************************************************)

Chain == {ht[b] : b \in DOMAIN ht}

\* Where the data of the items ends.
Boundary == {BytesUpTo(i) : i \in DOMAIN ig}

\* The tables process_items can handle: in each chain the packets are in the
\* order of their offsets, and no item ends inside a packet that is not the
\* head of its chain, because return 2 of copy_direct_spead_item sends the
\* cursor to the head.
WellChained ==
  \A c \in Chain : \A i \in 2 .. Len(c) :
    /\ c[i - 1].off < c[i].off
    /\ \A e \in Boundary : ~(c[i].off < e /\ e < c[i].off + c[i].len)

\* What the receiver is expected to make of the group: the items that have
\* data, in order, with the data they were given.
Expected ==
  LET item(i) == [id |-> i, len |-> ig[i], data |-> Bytes(i, 0, ig[i])]
      made[i \in 0 .. Len(ig)] ==
        IF i = 0 THEN <<>>
        ELSE IF ig[i] = 0 THEN made[i - 1]
        ELSE Append(made[i - 1], item(i))
  IN made[Len(ig)]

\* The items of the new group, less the immediate one in front.
Received == IF group # <<>> /\ group[1].id = 0 THEN Tail(group) ELSE group

\* A table with more buckets than the heap has packets.
Roomy == heap_len <= (t_len - 1) * pkt_size

\* The module gets the item group that was sent, byte for byte, from a heap
\* that arrived in any order, whatever the lengths of the items and of the
\* packets, if the receiver's table was WellChained, as one with more buckets
\* than the heap has packets always is.
RoundTrip ==
  /\ Roomy => WellChained
  /\ phase = "done" /\ WellChained => Received = Expected

\* The arena that create_item_group sizes from the byte count is large
\* enough for every item whose length calculate_lengths derived, so that a
\* heap from a WellChained table is never dropped.
ArenaSuffices == WellChained => phase # "failed"

\* A heap that has arrived is converted in the end: the cursor of
\* single_traverse_hash_table does not go round for ever.
ConversionEnds == phase = "collect" /\ WellChained ~> phase = "done"

=============================================================================
