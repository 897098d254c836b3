----------------------------- MODULE Packetize ------------------------------
(***************************************************************************)
(* packetize_item_group (src/src/spead.c): the state machine that cuts the *)
(* data of an item group into packets of pkt_size bytes of payload, taken  *)
(* from the bank of the heap store, and chains them into a hash table.     *)
(*                                                                         *)
(* Data.  An item group is the sequence of its items' i_data_len; byte k   *)
(* of item i is the pair <<i, k>>, so that a packet's payload says where   *)
(* each of its bytes comes from.  An item's id is its place in the group.  *)
(* The objects of the bank are interchangeable and only counted.  The      *)
(* table's mutex is held by the caller throughout, and the unpacking of    *)
(* the header just written, which cannot fail, is left out.                *)
(***************************************************************************)
EXTENDS HashChains

CONSTANTS Groups,        \* the item groups of a run
          PktSizes,      \* the values of pkt_size
          TableLen,      \* t_len of the sender's tables
          BankSize,      \* objects in s_list
          HeaderLen,     \* SPEAD_HEADERLEN
          ItemLen,       \* SPEAD_ITEMLEN
          MaxPacketLen   \* SPEAD_MAX_PACKET_LEN

ASSUME PacketizeAssumption ==
  /\ Groups \subseteq Seq(Nat) \ {<<>>}
  /\ PktSizes \subseteq Nat \ {0}
  /\ TableLen \in Nat \ {0}
  /\ {BankSize, HeaderLen, ItemLen, MaxPacketLen} \subseteq Nat

VARIABLES ig,             \* the item group: its items' i_data_len
          pkt_size,
          state,          \* the PZ_ state
          itm,            \* the current item, 0 when NULL
          p,              \* the packet of the object popped last
          held,           \* whether that object is not in the table
          nitems, count, payload_off, didcopy,
          off,            \* where the next byte goes in the payload
          ioff, remain,   \* bytes of itm copied, bytes of it still to copy
          s_list,         \* free objects of the bank
          t_os            \* the table

pvars == <<ig, pkt_size, state, itm, p, held, nitems, count, payload_off,
           didcopy, off, ioff, remain, s_list, t_os>>

Least(a, b) == IF a < b THEN a ELSE b

NoPacket == [off |-> 0, len |-> 0, items |-> <<>>, data |-> <<>>]

\* The bytes of items 1 .. i: i_off of item i + 1, and for all items the
\* value of heap_len and of count after PZ_ADDIG_ITEMS.
BytesUpTo(i) == FoldLeft(+, 0, SubSeq(ig, 1, i))
heap_len == BytesUpTo(Len(ig))

PacketizeInit ==
  /\ ig \in Groups
  /\ pkt_size \in PktSizes
  /\ state = "getpacket"
  /\ itm = 0 /\ p = NoPacket /\ held = FALSE
  /\ nitems = 4 + Len(ig)
  /\ count = 0 /\ payload_off = 0 /\ didcopy = 0
  /\ off = 0 /\ ioff = 0 /\ remain = 0
  /\ s_list = BankSize
  /\ t_os = EmptyTable(TableLen)

\* PZ_GETPACKET: pop_hash_o, and the header items.
GetPacket ==
  /\ state = "getpacket"
  /\ s_list > 0
  /\ s_list' = s_list - 1
  /\ p' = [NoPacket EXCEPT !.off = payload_off]
  /\ held' = TRUE
  /\ state' = IF nitems > 4 /\ count = 0 THEN "addig" ELSE "init"
  /\ UNCHANGED <<ig, pkt_size, itm, nitems, count, payload_off, didcopy, off,
                 ioff, remain, t_os>>

\* PZ_GETPACKET with an empty bank: what is in the table is all there will be.
BankDry ==
  /\ state = "getpacket"
  /\ s_list = 0
  /\ state' = "end"
  /\ UNCHANGED <<ig, pkt_size, itm, p, held, nitems, count, payload_off, didcopy,
                 off, ioff, remain, s_list, t_os>>

DirectItem(i) == [mode |-> "direct", id |-> i, off |-> BytesUpTo(i - 1)]

\* PZ_ADDIG_ITEMS: the first packet lists the items and where their data is.
AddItems ==
  /\ state = "addig"
  /\ p' = [p EXCEPT !.items = [i \in 1 .. Len(ig) |-> DirectItem(i)]]
  /\ count' = heap_len
  /\ nitems' = 4
  /\ itm' = 0
  /\ state' = "init"
  /\ UNCHANGED <<ig, pkt_size, held, payload_off, didcopy, off, ioff, remain,
                 s_list, t_os>>

\* Mutant: the check of PZ_INIT_PACKET forgets the items of the group.
FitsWithoutItems == HeaderLen + 4 * ItemLen + pkt_size < MaxPacketLen

\* The check of PZ_INIT_PACKET.
Fits == HeaderLen + (4 + Len(p.items)) * ItemLen + pkt_size < MaxPacketLen

\* PZ_INIT_PACKET
InitPacket ==
  /\ state = "init"
  /\ state' = IF Fits THEN "copydata" ELSE "end"
  /\ UNCHANGED <<ig, pkt_size, itm, p, held, nitems, count, payload_off, didcopy,
                 off, ioff, remain, s_list, t_os>>

\* Mutant: every copy starts at the beginning of the item.
WhenceStart == 0

\* The item PZ_COPYDATA copies from, the bytes of it left, the ones copied,
\* and the place in the payload the next one goes to.
NextItem == IF remain = 0 THEN itm + 1 ELSE itm
Rest == IF remain = 0 THEN ig[NextItem] ELSE remain
Whence == IF remain = 0 THEN 0 ELSE ioff
At == IF remain = 0 THEN off ELSE 0

Bytes(i, from, n) == [k \in 1 .. n |-> <<i, from + k>>]

\* PZ_COPYDATA: the rest of the item when it leaves room in the packet, or
\* as much of it as fits.
CopyData ==
  /\ state = "copydata" /\ NextItem <= Len(ig)
  /\ LET full == At + Rest >= pkt_size
         n == IF full THEN Least(Rest, pkt_size - At) ELSE Rest
     IN /\ p' = [p EXCEPT !.data = SubSeq(@, 1, At) \o Bytes(NextItem, Whence, n),
                          !.len = didcopy + n]
        /\ didcopy' = didcopy + n
        /\ count' = count - n
        /\ ioff' = Whence + n
        /\ remain' = Rest - n
        /\ off' = IF full THEN 0 ELSE At + n
        /\ state' = IF full \/ count = n THEN "hashpacket" ELSE "copydata"
  /\ itm' = NextItem
  /\ UNCHANGED <<ig, pkt_size, held, nitems, payload_off, s_list, t_os>>

\* PZ_HASHPACKET
HashPacket ==
  /\ state = "hashpacket"
  /\ t_os' = AddO(t_os, HashFn(TableLen, p.off, heap_len), p)
  /\ held' = FALSE
  /\ IF count = 0 /\ remain = 0
     THEN /\ state' = "end"
          /\ UNCHANGED <<payload_off, didcopy>>
     ELSE /\ state' = "getpacket"
          /\ payload_off' = payload_off + pkt_size
          /\ didcopy' = 0
  /\ UNCHANGED <<ig, pkt_size, itm, p, nitems, count, off, ioff, remain, s_list>>

PacketizeNext ==
  GetPacket \/ BankDry \/ AddItems \/ InitPacket \/ CopyData \/ HashPacket

PacketizeSpec == PacketizeInit /\ [][PacketizeNext]_pvars

(***************************************************************************)
(* Properties                                                              *)
(***************************************************************************)

\* Wherever the items end, no memcpy of PZ_COPYDATA takes the payload past
\* pkt_size bytes or the packet past its buffer, and the payload length the
\* packet announces is the number of bytes written.
PayloadFits ==
  /\ Len(p.data) <= pkt_size
  /\ p.len = Len(p.data)
  /\ p.data # <<>> =>
       HeaderLen + (4 + Len(p.items)) * ItemLen + Len(p.data) < MaxPacketLen

Chained == InOrder(t_os)

\* When packetize_item_group is done its caller sends the packets in the
\* order inorder_traverse_hash_table finds them: that is the order of their
\* offsets, whatever chains there are; each is full but the last; and put
\* together they are the data of the items, each byte once, at the offsets
\* that the first packet lists.  If the bank ran dry they are a beginning of
\* it.
CutsTheGroup ==
  state = "end" =>
    LET out  == FlattenSeq([i \in DOMAIN Chained |-> Chained[i].data])
        data == FlattenSeq([i \in DOMAIN ig |-> Bytes(i, 0, ig[i])])
    IN /\ out = SubSeq(data, 1, Len(out))
       /\ \A i \in DOMAIN Chained :
            /\ Chained[i].off = (i - 1) * pkt_size
            /\ i < Len(Chained) => Chained[i].len = pkt_size
            /\ i > 1 => Chained[i].items = <<>>
       /\ Len(out) = heap_len \/ s_list = 0 \/ held
       /\ Chained # <<>> =>
            \A i \in DOMAIN ig :
              LET a == Chained[1].items[i].off
              IN SubSeq(data, a + 1, a + ig[i]) = Bytes(i, 0, ig[i])

=============================================================================
