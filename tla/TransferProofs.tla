---------------------------- MODULE TransferProofs ----------------------------
(***************************************************************************)
(* Proofs about item groups: packetize_item_group, for every item group,   *)
(* packet size and bank, and the way of a group to the receiver and back,  *)
(* for every table and order of arrival.                                   *)
(*                                                                         *)
(* No copy takes a packet's payload past pkt_size bytes or the packet past *)
(* its buffer.  What makes it inductive is how off, didcopy and remain     *)
(* hang together: an item that is left over from a full packet finds the   *)
(* next one empty.                                                         *)
(*                                                                         *)
(* And the packets of the finished table are the item group's data.  The   *)
(* invariant says where the cursor over the items stands in that data,     *)
(* that the packet in hand goes on where the table's last one ended, and   *)
(* that no chain behind the bucket of the next packet has been used:       *)
(* hash_fn_spead_packet does not fall when the offset grows, so a packet   *)
(* that is appended to its chain comes last in the order of traversal.     *)
(* FlattenSeq and the sum of the lengths are recursive functions of the    *)
(* community modules; both are computed with partial sums by way of        *)
(* EveryNumber.                                                            *)
(*                                                                         *)
(* The way back is the second half.  The receiver's table and the packets  *)
(* under way make up what was sent (StoreInv), so that the table is full   *)
(* when the bytes are all there.  If its chains rise, the traversal visits *)
(* the packets in the order they were cut in.  The conversion is then      *)
(* compared with a plan that is fixed when it begins: the items to         *)
(* convert, the value each is to have, and where its data and its room in  *)
(* the arena end (Converting).  Where the cursor stands depends on the     *)
(* table alone, so the lemmas about the steps of the conversion speak of   *)
(* any sound plan, and only then is the plan that of the group.            *)
(***************************************************************************)
EXTENDS Transfer, FiniteSetTheorems, SequenceTheorems, WellFoundedInduction, TLAPS

Byte == Nat \X Nat

\* The types that the offsets need.
TypeOK ==
  /\ ig \in Seq(Nat)
  /\ pkt_size \in Nat \ {0}
  /\ state \in {"getpacket", "addig", "init", "copydata", "hashpacket", "end"}
  /\ itm \in Nat
  /\ DOMAIN p = {"off", "len", "items", "data"}
  /\ Len(p.items) \in Nat
  /\ p.data \in Seq(Byte)
  /\ didcopy \in Nat /\ off \in Nat /\ ioff \in Nat /\ remain \in Nat

Room == HeaderLen + (4 + Len(p.items)) * ItemLen + pkt_size < MaxPacketLen

\* While a packet is filled, off and didcopy are the bytes it holds, fewer
\* than pkt_size, and no item is left over unless it holds none.
Filling ==
  /\ off < pkt_size
  /\ off = didcopy /\ Len(p.data) = didcopy
  /\ remain > 0 => off = 0

FillInv ==
  /\ p.len = Len(p.data) /\ Len(p.data) <= pkt_size
  /\ p.data # <<>> => Room
  /\ state = "getpacket" => off = 0 /\ didcopy = 0
  /\ state \in {"addig", "init"} => p.data = <<>> /\ off = 0 /\ didcopy = 0
  /\ state = "copydata" => Filling /\ Room
  /\ state = "hashpacket" => off = 0 \/ (count = 0 /\ remain = 0)

IInv == TypeOK /\ FillInv

\* The bytes of an item, put behind the first ones of a packet.
LEMMA AppendBytes ==
  ASSUME NEW d \in Seq(Byte), NEW at \in 0 .. Len(d),
         NEW i \in Nat, NEW from \in Nat, NEW n \in Nat
  PROVE  /\ SubSeq(d, 1, at) \o Bytes(i, from, n) \in Seq(Byte)
         /\ Len(SubSeq(d, 1, at) \o Bytes(i, from, n)) = at + n
<1>1. Bytes(i, from, n) \in Seq(Byte) /\ Len(Bytes(i, from, n)) = n
  BY DEF Bytes, Byte
<1>2. SubSeq(d, 1, at) \in Seq(Byte) /\ Len(SubSeq(d, 1, at)) = at
  OBVIOUS
<1> DEFINE head == SubSeq(d, 1, at)
           tail == Bytes(i, from, n)
<1>3. head \in Seq(Byte) /\ tail \in Seq(Byte) /\ Len(head) = at /\ Len(tail) = n
  BY <1>1, <1>2
<1> HIDE DEF head, tail
<1>4. head \o tail \in Seq(Byte) /\ Len(head \o tail) = at + n
  BY <1>3, ConcatProperties
<1> QED
  BY <1>4 DEF head, tail

\* The invariant at the start.
LEMMA InitInv == PacketizeInit => IInv
<1> SUFFICES ASSUME PacketizeInit PROVE IInv
  OBVIOUS
<1>1. ig \in Seq(Nat) /\ pkt_size \in Nat \ {0}
  BY PacketizeAssumption DEF PacketizeInit
<1>2. DOMAIN p = {"off", "len", "items", "data"} /\ p.data = <<>> /\ p.len = 0
  BY DEF PacketizeInit, NoPacket
<1> QED
  BY <1>1, <1>2 DEF PacketizeInit, IInv, TypeOK, FillInv

\* What PZ_COPYDATA does to the packet and to the offsets: the heart of the
\* matter, for a copy that fills the packet and for one that does not.
LEMMA CopyStep == IInv /\ CopyData => IInv'
<1> SUFFICES ASSUME IInv, CopyData PROVE IInv'
  OBVIOUS
<1> USE DEF IInv
<1> DEFINE full == At + Rest >= pkt_size
           n == IF full THEN Least(Rest, pkt_size - At) ELSE Rest
<1>1. /\ off < pkt_size /\ off = didcopy /\ Len(p.data) = didcopy
      /\ remain > 0 => off = 0
      /\ Room
  <2>1. state = "copydata"
    BY DEF CopyData
  <2>2. Filling /\ Room
    BY <2>1 DEF FillInv
  <2> QED
    BY <2>2 DEF Filling
<1>2. NextItem \in Nat /\ Whence \in Nat /\ Rest \in Nat
  <2>1. NextItem \in Nat
    BY DEF TypeOK, NextItem
  <2>2. Whence \in Nat
    BY DEF TypeOK, Whence
  <2>3. Rest \in Nat
    BY DEF CopyData, TypeOK, NextItem, Rest
  <2> QED
    BY <2>1, <2>2, <2>3
<1>3. At = off /\ At \in 0 .. Len(p.data)
  BY <1>1 DEF At, TypeOK
<1>4. /\ n \in Nat /\ n <= Rest /\ At + n <= pkt_size
      /\ ~full => n = Rest /\ At + n < pkt_size
  BY <1>1, <1>2, <1>3 DEF Least, TypeOK
<1>5. /\ p' = [p EXCEPT !.data = SubSeq(p.data, 1, At) \o Bytes(NextItem, Whence, n),
                        !.len = didcopy + n]
      /\ didcopy' = didcopy + n /\ count' = count - n /\ ioff' = Whence + n
      /\ remain' = Rest - n
      /\ off' = IF full THEN 0 ELSE At + n
      /\ state' = IF full \/ count = n THEN "hashpacket" ELSE "copydata"
      /\ itm' = NextItem /\ UNCHANGED <<ig, pkt_size>>
  BY DEF CopyData
<1> HIDE DEF n, full
<1>6. /\ p'.data \in Seq(Byte)
      /\ Len(p'.data) = didcopy + n
      /\ p'.len = didcopy + n
      /\ p'.items = p.items
      /\ DOMAIN p' = {"off", "len", "items", "data"}
  <2>1. /\ p'.data = SubSeq(p.data, 1, At) \o Bytes(NextItem, Whence, n)
        /\ p'.len = didcopy + n /\ p'.items = p.items
        /\ DOMAIN p' = {"off", "len", "items", "data"}
    <3>1. DOMAIN p = {"off", "len", "items", "data"}
      BY DEF TypeOK
    <3> QED
      BY <1>5, <3>1
  <2>2. /\ SubSeq(p.data, 1, At) \o Bytes(NextItem, Whence, n) \in Seq(Byte)
        /\ Len(SubSeq(p.data, 1, At) \o Bytes(NextItem, Whence, n)) = At + n
    <3>1. /\ p.data \in Seq(Byte) /\ At \in 0 .. Len(p.data)
          /\ NextItem \in Nat /\ Whence \in Nat /\ n \in Nat
      <4>1. p.data \in Seq(Byte)
        BY DEF TypeOK
      <4> QED
        BY <1>2, <1>3, <1>4, <4>1, Zenon
    <3> QED
      BY <3>1, AppendBytes, ZenonT(30)
  <2>3. At = didcopy
    BY <1>1, <1>3, Zenon
  <2> QED
    BY <2>1, <2>2, <2>3, Zenon
<1>7. TypeOK'
  <2>1. state' \in {"hashpacket", "copydata"}
    BY <1>5
  <2>2. /\ didcopy' \in Nat /\ off' \in Nat /\ ioff' \in Nat /\ remain' \in Nat
    <3>1. Rest - n \in Nat /\ At + n \in Nat /\ didcopy + n \in Nat /\ Whence + n \in Nat
      BY <1>2, <1>3, <1>4 DEF TypeOK
    <3>2. off' = 0 \/ off' = At + n
      BY <1>5
    <3> QED
      BY <1>5, <3>1, <3>2
  <2>3. Len(p'.items) \in Nat
    BY <1>6 DEF TypeOK
  <2> QED
    BY <2>1, <2>2, <2>3, <1>2, <1>5, <1>6 DEF TypeOK
<1>8. Room'
  BY <1>1, <1>5, <1>6 DEF Room
<1>9. CASE full
  <2>1. state' = "hashpacket" /\ off' = 0
    BY <1>5, <1>9
  <2> QED
    BY <2>1, <1>1, <1>3, <1>4, <1>5, <1>6, <1>7, <1>8 DEF FillInv
<1>10. CASE ~full
  <2>1. remain' = 0 /\ off' = At + n /\ off' < pkt_size /\ n = Rest
    BY <1>2, <1>4, <1>5, <1>10
  <2>2. CASE count = n
    <3>1. state' = "hashpacket" /\ count' = 0
      BY <1>4, <1>5, <2>2
    <3> QED
      BY <2>1, <3>1, <1>1, <1>3, <1>4, <1>5, <1>6, <1>7, <1>8 DEF FillInv
  <2>3. CASE count # n
    <3>1. state' = "copydata"
      BY <1>5, <1>10, <2>3
    <3> QED
      BY <2>1, <3>1, <1>1, <1>3, <1>4, <1>5, <1>6, <1>7, <1>8 DEF FillInv, Filling
  <2> QED
    BY <2>2, <2>3
<1> QED
  BY <1>9, <1>10

\* Every step keeps it.
LEMMA StepInv == IInv /\ [PacketizeNext]_pvars => IInv'
<1> SUFFICES ASSUME IInv, [PacketizeNext]_pvars PROVE IInv'
  OBVIOUS
<1> USE DEF IInv
<1>1. CASE GetPacket
  <2>1. /\ p'.data = <<>> /\ p'.len = 0 /\ p'.items = <<>>
        /\ DOMAIN p' = {"off", "len", "items", "data"}
    BY <1>1 DEF GetPacket, NoPacket
  <2>2. off = 0 /\ didcopy = 0 /\ state' \in {"addig", "init"}
    BY <1>1 DEF GetPacket, FillInv
  <2>3. /\ p'.data \in Seq(Byte) /\ Len(p'.data) = 0
        /\ Len(p'.items) \in Nat
    BY <2>1
  <2>4. TypeOK'
    BY <1>1, <2>1, <2>2, <2>3 DEF GetPacket, TypeOK
  <2> QED
    BY <1>1, <2>1, <2>2, <2>3, <2>4 DEF GetPacket, TypeOK, FillInv
<1>2. CASE BankDry
  BY <1>2 DEF BankDry, TypeOK, FillInv, Room
<1>3. CASE AddItems
  <2>1. /\ p'.data = p.data /\ p'.len = p.len
        /\ DOMAIN p' = {"off", "len", "items", "data"}
    BY <1>3 DEF AddItems, TypeOK
  <2> QED
    BY <1>3, <2>1 DEF AddItems, TypeOK, FillInv
<1>4. CASE InitPacket
  BY <1>4 DEF InitPacket, Fits, TypeOK, FillInv, Filling, Room
<1>5. CASE CopyData
  BY <1>5, CopyStep
<1>6. CASE HashPacket
  <2>1. /\ UNCHANGED <<ig, pkt_size, itm, p, count, off, ioff, remain>>
        /\ \/ state' = "end" /\ UNCHANGED didcopy
           \/ state' = "getpacket" /\ didcopy' = 0 /\ off = 0
    BY <1>6 DEF HashPacket, FillInv
  <2> QED
    BY <2>1 DEF TypeOK, FillInv, Room
<1>7. CASE UNCHANGED pvars
  BY <1>7 DEF pvars, TypeOK, FillInv, Filling, Room
<1> QED
  BY <1>1, <1>2, <1>3, <1>4, <1>5, <1>6, <1>7 DEF PacketizeNext

\* It implies the property.
LEMMA InvFits == IInv => PayloadFits
<1> SUFFICES ASSUME IInv, p.data # <<>>
    PROVE HeaderLen + (4 + Len(p.items)) * ItemLen + Len(p.data) < MaxPacketLen
  BY DEF IInv, FillInv, PayloadFits
<1> DEFINE fixed == HeaderLen + (4 + Len(p.items)) * ItemLen
<1>1. fixed + pkt_size < MaxPacketLen /\ Len(p.data) <= pkt_size
  BY DEF IInv, FillInv, Room
<1>2. fixed \in Int /\ MaxPacketLen \in Nat /\ pkt_size \in Nat /\ Len(p.data) \in Nat
  BY PacketizeAssumption DEF IInv, TypeOK
<1> HIDE DEF fixed
<1>3. fixed + Len(p.data) < MaxPacketLen
  BY <1>1, <1>2
<1> QED
  BY <1>3 DEF fixed

\* Whatever the lengths of the items and the size of the packets: no copy of
\* packetize_item_group goes past the payload or the packet, and the length
\* a packet announces is the one it has.
THEOREM PacketizeFits == PacketizeSpec => []PayloadFits
<1>1. PacketizeSpec => []IInv
  BY InitInv, StepInv, PTL DEF PacketizeSpec
<1> QED
  BY <1>1, InvFits, PTL

-----------------------------------------------------------------------------
\* Induction, on a set of numbers.

\* A set of numbers has a least one.
LEMMA LeastNumber ==
  ASSUME NEW T \in SUBSET Nat, T # {}
  PROVE  \E n \in T : \A m \in T : n <= m
<1>1. PICK n \in T : \A m \in T : ~ (<<m, n>> \in OpToRel(<, Nat))
  BY NatLessThanWellFounded, WFMin
<1>2. \A m \in T : ~ (m < n)
  BY <1>1 DEF OpToRel
<1> QED
  BY <1>2

\* What holds of 0 and goes on from each number to the next holds of all.
LEMMA EveryNumber ==
  ASSUME NEW T \in SUBSET Nat, 0 \in T, \A n \in T : n + 1 \in T
  PROVE  T = Nat
<1>1. SUFFICES ASSUME T # Nat PROVE FALSE
  OBVIOUS
<1>2. PICK n \in Nat \ T : \A m \in Nat \ T : n <= m
  BY <1>1, LeastNumber
<1>3. n - 1 \in T
  BY <1>2
<1> QED
  BY <1>2, <1>3

-----------------------------------------------------------------------------
\* Sequences put end to end.

\* The function in FlattenSeq.
Flattening(s, n) ==
  CHOOSE f : f = [i \in 1 .. n |-> IF i = 1 THEN s[i] ELSE f[i - 1] \o s[i]]

\* That function exists, and is what its equation says.
LEMMA FlatteningIs ==
  ASSUME NEW s, NEW n \in Nat
  PROVE  \A i \in 1 .. n : Flattening(s, n)[i] =
           IF i = 1 THEN s[i] ELSE Flattening(s, n)[i - 1] \o s[i]
<1> DEFINE Rec(f, m) == [i \in 1 .. m |-> IF i = 1 THEN s[i] ELSE f[i - 1] \o s[i]]
           T == {m \in Nat : \E f : f = Rec(f, m)}
<1>1. 0 \in T
  <2>1. PICK f : f = [i \in 1 .. 0 |-> <<>>]
    OBVIOUS
  <2>2. f = Rec(f, 0)
    BY <2>1
  <2> QED
    BY <2>2
<1>2. ASSUME NEW m \in T PROVE m + 1 \in T
  <2>1. PICK f : f = Rec(f, m)
    BY <1>2
  <2>2. PICK last : last = IF m = 0 THEN s[1] ELSE f[m] \o s[m + 1]
    OBVIOUS
  <2>3. PICK g : g = [i \in 1 .. m + 1 |-> IF i = m + 1 THEN last ELSE f[i]]
    OBVIOUS
  <2>4. \A i \in 1 .. m : f[i] = IF i = 1 THEN s[i] ELSE f[i - 1] \o s[i]
    BY <2>1
  <2> HIDE DEF Rec
  <2>5. ASSUME NEW i \in 1 .. m + 1
        PROVE  g[i] = IF i = 1 THEN s[i] ELSE g[i - 1] \o s[i]
    <3>1. CASE i = m + 1
      <4>1. i # 1 => i - 1 \in 1 .. m /\ i - 1 = m /\ g[i - 1] = f[m]
        BY <2>3, <3>1
      <4> QED
        BY <2>2, <2>3, <3>1, <4>1
    <3>2. CASE i # m + 1
      <4>1. i \in 1 .. m /\ g[i] = f[i]
        BY <2>3, <3>2
      <4>2. i # 1 => i - 1 \in 1 .. m + 1 /\ i - 1 # m + 1 /\ g[i - 1] = f[i - 1]
        BY <2>3, <3>2
      <4> QED
        BY <2>4, <4>1, <4>2
    <3> QED
      BY <3>1, <3>2
  <2>6. g = [i \in 1 .. m + 1 |-> g[i]]
    BY <2>3
  <2>7. g = Rec(g, m + 1)
    BY <2>5, <2>6 DEF Rec
  <2> QED
    BY <2>7
<1>3. T = Nat
  <2> HIDE DEF T
  <2>1. T \in SUBSET Nat
    BY DEF T
  <2> QED
    BY <1>1, <1>2, <2>1, EveryNumber
<1>4. PICK g : g = Flattening(s, n)
  OBVIOUS
<1>5. \E f : f = Rec(f, n)
  BY <1>3
<1>6. g = Rec(g, n)
  BY <1>4, <1>5 DEF Flattening
<1> QED
  BY <1>4, <1>6

\* FlattenSeq is its last value.
LEMMA FlattenIs ==
  ASSUME NEW s, Len(s) # 0
  PROVE  FlattenSeq(s) = Flattening(s, Len(s))[Len(s)]
  BY Zenon DEF FlattenSeq, Flattening

\* Appending, place by place.
LEMMA JoinedAt ==
  ASSUME NEW S, NEW x \in Seq(S), NEW y \in Seq(S)
  PROVE  /\ x \o y \in Seq(S) /\ Len(x \o y) = Len(x) + Len(y)
         /\ \A k \in 1 .. Len(x) : (x \o y)[k] = x[k]
         /\ \A k \in 1 .. Len(y) : (x \o y)[Len(x) + k] = y[k]
<1>1. PICK z : z = x \o y
  OBVIOUS
<1>2. PICK l, m \in Nat : l = Len(x) /\ m = Len(y)
  BY LenProperties
<1>3. /\ z \in Seq(S) /\ Len(z) = l + m
      /\ \A k \in 1 .. l + m : z[k] = IF k <= l THEN x[k] ELSE y[k - l]
  BY <1>1, <1>2, ConcatProperties
<1>4. ASSUME NEW k \in 1 .. m PROVE z[l + k] = y[k]
  <2>1. l + k \in 1 .. l + m /\ ~(l + k <= l) /\ l + k - l = k
    BY <1>2
  <2> QED
    BY <1>3, <2>1
<1> QED
  BY <1>1, <1>2, <1>3, <1>4

\* Partial sums grow.
LEMMA AtGrows ==
  ASSUME NEW n \in Nat, NEW at \in [0 .. n -> Nat], NEW len,
         \A i \in 1 .. n : len[i] \in Nat /\ at[i] = at[i - 1] + len[i]
  PROVE  \A m \in 0 .. n : \A j \in 0 .. m : at[j] <= at[m]
<1> DEFINE T == {m \in Nat : m \in 0 .. n => \A j \in 0 .. m : at[j] <= at[m]}
<1>1. 0 \in T
  OBVIOUS
<1>2. ASSUME NEW m \in T PROVE m + 1 \in T
  <2>1. SUFFICES ASSUME m + 1 \in 0 .. n, NEW j \in 0 .. m + 1 PROVE at[j] <= at[m + 1]
    BY DEF T
  <2>2. m \in 0 .. n /\ m + 1 \in 1 .. n /\ m + 1 - 1 = m
    BY <2>1
  <2>3. at[m] \in Nat /\ at[m + 1] \in Nat /\ at[m] <= at[m + 1]
    <3>0. PICK i \in 1 .. n : i = m + 1
      BY <2>2
    <3>1. PICK l \in Nat : at[i] = at[i - 1] + l
      OBVIOUS
    <3>2. at[i - 1] = at[m]
      BY <2>2, <3>0
    <3>3. m + 1 \in 0 .. n
      BY <2>1
    <3>4. at[m] \in Nat /\ at[m + 1] \in Nat
      BY <2>2, <3>3
    <3> QED
      BY <3>0, <3>1, <3>2, <3>4
  <2>4. CASE j = m + 1
    BY <2>3, <2>4
  <2>5. CASE j # m + 1
    <3>1. j \in 0 .. m /\ at[j] \in Nat
      BY <2>2, <2>5
    <3>2. at[j] <= at[m]
      BY <1>2, <2>2, <3>1
    <3> QED
      BY <2>3, <3>1, <3>2
  <2> QED
    BY <2>4, <2>5
<1>3. T = Nat
  <2> HIDE DEF T
  <2>1. T \in SUBSET Nat
    BY DEF T
  <2> QED
    BY <1>1, <1>2, <2>1, EveryNumber
<1>4. ASSUME NEW m \in 0 .. n, NEW j \in 0 .. m PROVE at[j] <= at[m]
  <2>1. m \in Nat
    OBVIOUS
  <2>2. m \in T
    BY <1>3, <2>1, Zenon
  <2> QED
    BY <2>2
<1> QED
  BY <1>4

\* A place in a part is a place in the whole.
LEMMA Within ==
  \A a, b, d, l \in Nat : \A k \in 1 .. l : b = a + l /\ b <= d => a + k \in 1 .. d
OBVIOUS

\* at says where each of the sequences s ends in what they make.
Adds(at, s, n) ==
  Len(s) = n /\ at[0] = 0 /\ \A i \in 1 .. n : at[i] = at[i - 1] + Len(s[i])

\* The sequences s end in t where at says.
Joins(t, at, s, n, S) ==
  /\ t \in Seq(S) /\ Len(t) = at[n]
  /\ \A i \in 1 .. n : \A k \in 1 .. Len(s[i]) : t[at[i - 1] + k] = s[i][k]

LEMMA FlattenAt ==
  \A S : \A s \in Seq(Seq(S)) : \A n \in Nat : \A at \in [0 .. n -> Nat] :
    Adds(at, s, n) => Joins(FlattenSeq(s), at, s, n, S)
<1> SUFFICES ASSUME NEW S, NEW s \in Seq(Seq(S)), NEW n \in Nat, NEW at \in [0 .. n -> Nat],
                    Len(s) = n, at[0] = 0, \A i \in 1 .. n : at[i] = at[i - 1] + Len(s[i])
             PROVE  Joins(FlattenSeq(s), at, s, n, S)
  BY DEF Adds
<1> USE DEF Joins
<1>1. PICK F : F = Flattening(s, n)
  OBVIOUS
<1>2. /\ 1 \in 1 .. n => F[1] = s[1]
      /\ \A i \in 1 .. n : i # 1 => F[i] = F[i - 1] \o s[i]
  BY <1>1, FlatteningIs
<1>3. \A i \in 1 .. n : s[i] \in Seq(S) /\ Len(s[i]) \in Nat
  BY ElementOfSeq, LenProperties
<1>a. \A i \in 1 .. n : at[i - 1] \in Nat /\ at[i] \in Nat
  <2> TAKE i \in 1 .. n
  <2>1. i \in 0 .. n /\ i - 1 \in 0 .. n
    OBVIOUS
  <2> QED
    BY <2>1
<1>b. \A a \in 0 .. n : \A b \in 0 .. a : at[b] <= at[a]
  <2>1. PICK len : len = [i \in 1 .. n |-> Len(s[i])]
    OBVIOUS
  <2>2. \A i \in 1 .. n : len[i] \in Nat /\ at[i] = at[i - 1] + len[i]
    BY <1>3, <2>1
  <2> QED
    BY <2>2, AtGrows
<1> DEFINE Ok(i) ==
             /\ F[i] \in Seq(S) /\ Len(F[i]) = at[i]
             /\ \A j \in 1 .. i : \A k \in 1 .. Len(s[j]) : F[i][at[j - 1] + k] = s[j][k]
           T == {m \in Nat : m \in 1 .. n => Ok(m)}
<1> HIDE DEF Ok, T
<1>4. ASSUME NEW m \in Nat, m \in 1 .. n => Ok(m), m + 1 \in 1 .. n PROVE Ok(m + 1)
  <2>1. m + 1 \in 1 .. n
    BY <1>4
  <2>2. PICK v \in Seq(S) : v = s[m + 1]
    BY <1>3, <2>1
  <2>3. at[m + 1] = at[m] + Len(v) /\ at[m] \in Nat
    BY <2>1, <2>2
  <2>4. CASE m = 0
    <3>1. F[m + 1] = v
      BY <1>2, <2>1, <2>2, <2>4
    <3>2. \A k \in 1 .. Len(v) : at[m] + k = k
      BY <2>4, LenProperties
    <3>3. at[m + 1] = Len(v)
      BY <2>3, <2>4, LenProperties
    <3>4. ASSUME NEW j \in 1 .. m + 1 PROVE j = m + 1 /\ j - 1 = m
      BY <2>4
    <3> QED
      BY <2>2, <3>1, <3>2, <3>3, <3>4 DEF Ok
  <2>5. CASE m # 0
    <3>1. m \in 1 .. n /\ Ok(m)
      BY <1>4, <2>1, <2>5
    <3>2. F[m + 1] = F[m] \o v
      <4>1. m + 1 # 1 /\ m + 1 - 1 = m
        BY <2>5
      <4>2. PICK i \in 1 .. n : i = m + 1
        BY <2>1
      <4>3. i # 1 /\ i - 1 = m
        BY <4>1, <4>2
      <4>4. F[i] = F[i - 1] \o s[i]
        BY <1>2, <4>3, Zenon
      <4> QED
        BY <2>2, <4>2, <4>3, <4>4
    <3>3. /\ F[m + 1] \in Seq(S) /\ Len(F[m + 1]) = at[m] + Len(v)
          /\ \A k \in 1 .. at[m] : F[m + 1][k] = F[m][k]
          /\ \A k \in 1 .. Len(v) : F[m + 1][at[m] + k] = v[k]
      <4>1. PICK x \in Seq(S) : x = F[m] /\ Len(x) = at[m]
        BY <3>1 DEF Ok
      <4>2. /\ x \o v \in Seq(S) /\ Len(x \o v) = Len(x) + Len(v)
            /\ \A k \in 1 .. Len(x) : (x \o v)[k] = x[k]
            /\ \A k \in 1 .. Len(v) : (x \o v)[Len(x) + k] = v[k]
        BY JoinedAt
      <4> QED
        BY <3>2, <4>1, <4>2
    <3>4. ASSUME NEW j \in 1 .. m + 1, NEW k \in 1 .. Len(s[j])
          PROVE  F[m + 1][at[j - 1] + k] = s[j][k]
      <4>1. CASE j = m + 1
        <5>1. j - 1 = m
          BY <4>1
        <5> QED
          BY <2>2, <3>3, <4>1, <5>1
      <4>2. CASE j # m + 1
        <5>1. j \in 1 .. m
          BY <4>2
        <5>2. F[m][at[j - 1] + k] = s[j][k]
          BY <3>1, <5>1 DEF Ok
        <5>3. at[j - 1] + k \in 1 .. at[m]
          <6>1. at[j] = at[j - 1] + Len(s[j]) /\ at[j - 1] \in Nat /\ at[j] \in Nat
            <7>1. j \in 1 .. n
              BY <2>1, <5>1
            <7> QED
              BY <1>a, <7>1
          <6>2. at[j] <= at[m]
            <7>1. m \in 0 .. n /\ j \in 0 .. m
              BY <2>1, <5>1
            <7> QED
              BY <1>b, <7>1
          <6>3. Len(s[j]) \in Nat
            BY <1>3, <2>1, <5>1, LenProperties
          <6>4. PICK a, b, l \in Nat : a = at[j - 1] /\ b = at[j] /\ l = Len(s[j]) /\ k \in 1 .. l
            BY <6>1, <6>3
          <6>5. PICK d \in Nat : d = at[m]
            BY <2>3
          <6>6. b = a + l /\ b <= d
            BY <6>1, <6>2, <6>4, <6>5
          <6>7. a + k \in 1 .. d
            BY <6>4, <6>5, <6>6, Within, Zenon
          <6> QED
            BY <6>4, <6>5, <6>7
        <5> QED
          BY <3>3, <5>2, <5>3
      <4> QED
        BY <4>1, <4>2
    <3> QED
      BY <2>3, <3>3, <3>4 DEF Ok
  <2> QED
    BY <2>4, <2>5
<1>5. 0 \in T /\ \A m \in T : m + 1 \in T
  <2>1. 0 \notin 1 .. n /\ 0 \in Nat
    OBVIOUS
  <2>2. ASSUME NEW m \in T PROVE m + 1 \in T
    BY <1>4, <2>2 DEF T
  <2> QED
    BY <2>1, <2>2 DEF T
<1>6. T = Nat
  <2>1. T \in SUBSET Nat
    BY DEF T
  <2> QED
    BY <1>5, <2>1, EveryNumber
<1>7. CASE n = 0
  <2>1. s = <<>>
    BY <1>7, EmptySeq
  <2>2. FlattenSeq(s) = s
    BY <1>7, Zenon DEF FlattenSeq
  <2> QED
    BY <1>7, <2>1, <2>2
<1>8. CASE n # 0
  <2>1. FlattenSeq(s) = F[n] /\ n \in 1 .. n
    BY <1>1, <1>8, FlattenIs
  <2>2. Ok(n)
    <3>1. n \in T
      BY <1>6, Zenon
    <3> QED
      BY <2>1, <3>1 DEF T
  <2> QED
    BY <2>1, <2>2 DEF Ok
<1> QED
  BY <1>7, <1>8

\* Appending to the last of two sequences, or to the first if that is empty.
Appends(a, c, e) ==
  /\ a \o Append(c, e) = Append(a \o c, e)
  /\ a \o <<>> = a /\ Append(a, e) \o <<>> = Append(a, e)

LEMMA AppendLast ==
  ASSUME NEW S, NEW a \in Seq(S), NEW c \in Seq(S), NEW e \in S
  PROVE  Appends(a, c, e)
<1>1. <<e>> \in Seq(S) /\ a \o c \in Seq(S)
  BY ConcatProperties
<1>2. Append(c, e) = c \o <<e>> /\ Append(a \o c, e) = (a \o c) \o <<e>>
  BY <1>1, AppendIsConcat
<1>3. (a \o c) \o <<e>> = a \o (c \o <<e>>)
  BY <1>1, ConcatAssociative
<1>4. Append(a, e) \in Seq(S) /\ \A d \in Seq(S) : d \o <<>> = d
  BY AppendProperties, ConcatEmptySeq
<1> QED
  BY <1>2, <1>3, <1>4 DEF Appends

\* The same for all sequences, to be cited where the provers have more to look at.
LEMMA AppendLasts ==
  \A S : \A e \in S : \A x, y \in Seq(S) : Appends(x, y, e)
BY AppendLast

\* One more at the end of the last of s that is not empty, or of an empty one
\* behind it.
LEMMA FlattenAppend ==
  ASSUME NEW S, NEW s \in Seq(Seq(S)), NEW u \in Seq(Seq(S)), NEW n \in Nat,
         n = Len(s), n = Len(u), NEW b \in 1 .. n, NEW e \in S,
         u[b] = Append(s[b], e), \A i \in 1 .. n : i # b => u[i] = s[i],
         \A i \in 1 .. n : i > b => s[i] = <<>>
  PROVE  FlattenSeq(u) = Append(FlattenSeq(s), e)
<1>1. PICK F, G : F = Flattening(s, n) /\ G = Flattening(u, n)
  OBVIOUS
<1>2. /\ \A i \in 1 .. n : i = 1 => F[i] = s[i] /\ G[i] = u[i]
      /\ \A i \in 1 .. n : i # 1 => F[i] = F[i - 1] \o s[i] /\ G[i] = G[i - 1] \o u[i]
  BY <1>1, FlatteningIs
<1>3. \A i \in 1 .. n : s[i] \in Seq(S)
  BY ElementOfSeq
<1> DEFINE Ok(i) ==
             /\ F[i] \in Seq(S)
             /\ i < b => G[i] = F[i]
             /\ i >= b => G[i] = Append(F[i], e)
           T == {m \in Nat : m \in 1 .. n => Ok(m)}
<1> HIDE DEF Ok, T
<1>4. ASSUME NEW m \in Nat, m \in 1 .. n => Ok(m), m + 1 \in 1 .. n PROVE Ok(m + 1)
  <2>1. PICK i \in 1 .. n : i = m + 1
    BY <1>4
  <2>2. PICK c \in Seq(S) : c = s[i]
    BY <1>3
  <2>3. /\ i < b => u[i] = c
        /\ i = b => u[i] = Append(c, e)
        /\ i > b => u[i] = c /\ c = <<>>
    <3>1. i # b => u[i] = c
      BY <2>2
    <3>2. i = b => u[i] = Append(c, e)
      BY <2>2
    <3>3. i > b => c = <<>>
      BY <2>2
    <3>4. (i < b => i # b) /\ (i > b => i # b)
      OBVIOUS
    <3> QED
      BY <3>1, <3>2, <3>3, <3>4, Zenon
  <2>4. CASE m = 0
    <3>1. i = 1 /\ F[i] = c /\ G[i] = u[i]
      BY <1>2, <2>1, <2>2, <2>4
    <3>2. i <= b /\ (i < b => ~(i >= b)) /\ (i >= b => i = b)
      BY <3>1
    <3>3. /\ F[i] \in Seq(S)
          /\ i < b => G[i] = F[i]
          /\ i >= b => G[i] = Append(F[i], e)
      BY <2>2, <2>3, <3>1, <3>2
    <3> QED
      BY <2>1, <3>3 DEF Ok
  <2>5. CASE m # 0
    <3>1. i # 1 /\ i - 1 = m /\ m \in 1 .. n
      BY <2>1, <2>5
    <3>2. Ok(m)
      BY <1>4, <3>1
    <3>3. F[i] = F[i - 1] \o s[i] /\ G[i] = G[i - 1] \o u[i]
      BY <1>2, <3>1, Zenon
    <3>0. /\ i < b => m < b /\ G[m] = F[m]
          /\ i = b => m < b /\ G[m] = F[m]
          /\ i > b => m >= b /\ G[m] = Append(F[m], e)
      <4>1. (i < b => m < b) /\ (i = b => m < b) /\ (i > b => m >= b)
        BY <2>1
      <4>2. (m < b => G[m] = F[m]) /\ (m >= b => G[m] = Append(F[m], e))
        BY <3>2 DEF Ok
      <4> QED
        BY <4>1, <4>2, Zenon
    <3>4. PICK a \in Seq(S) : a = F[m] /\ F[i] = a \o c /\ G[i] = G[m] \o u[i]
      BY <2>2, <3>1, <3>2, <3>3 DEF Ok
    <3>5. F[i] \in Seq(S)
      BY <3>4, ConcatProperties
    <3>6. a \o Append(c, e) = Append(a \o c, e) /\ a \o <<>> = a /\ Append(a, e) \o <<>> = Append(a, e)
      <4>1. Appends(a, c, e)
        BY AppendLasts, Zenon
      <4> QED
        BY <4>1 DEF Appends
    <3>7. CASE i < b
      <4>1. m < b /\ G[m] = a
        BY <3>0, <3>4, <3>7, Zenon
      <4>2. ~(i >= b)
        BY <3>7
      <4>3. G[i] = F[i]
        BY <2>3, <3>4, <3>7, <4>1, Zenon
      <4>4. Ok(i)
        BY <3>5, <4>2, <4>3, Zenon DEF Ok
      <4> QED
        BY <2>1, <4>4
    <3>8. CASE i = b
      <4>1. m < b /\ G[m] = a
        BY <3>0, <3>4, <3>8, Zenon
      <4>2. G[i] = Append(F[i], e)
        BY <2>3, <3>4, <3>6, <3>8, <4>1
      <4>3. ~(i < b)
        BY <3>8
      <4>4. Ok(i)
        BY <3>5, <4>2, <4>3, Zenon DEF Ok
      <4> QED
        BY <2>1, <4>4
    <3>9. CASE i > b
      <4>1. m >= b /\ G[m] = Append(a, e)
        BY <3>0, <3>4, <3>9, Zenon
      <4>2. G[i] = Append(F[i], e)
        BY <2>3, <3>4, <3>6, <3>9, <4>1
      <4>3. ~(i < b)
        BY <3>9
      <4>4. Ok(i)
        BY <3>5, <4>2, <4>3, Zenon DEF Ok
      <4> QED
        BY <2>1, <4>4
    <3> QED
      BY <3>7, <3>8, <3>9
  <2> QED
    BY <2>4, <2>5
<1>5. 0 \in T /\ \A m \in T : m + 1 \in T
  <2>1. 0 \notin 1 .. n /\ 0 \in Nat
    OBVIOUS
  <2>2. ASSUME NEW m \in T PROVE m + 1 \in T
    BY <1>4, <2>2 DEF T
  <2> QED
    BY <2>1, <2>2 DEF T
<1>6. T = Nat
  <2>1. T \in SUBSET Nat
    BY DEF T
  <2> QED
    BY <1>5, <2>1, EveryNumber
<1>7. n # 0 /\ n \in 1 .. n /\ n >= b
  OBVIOUS
<1>8. Ok(n)
  BY <1>6, <1>7 DEF T
<1>9. FlattenSeq(s) = F[n] /\ FlattenSeq(u) = G[n]
  BY <1>1, <1>7, FlattenIs
<1> QED
  BY <1>7, <1>8, <1>9 DEF Ok

-----------------------------------------------------------------------------
\* Sums.

\* The function in MapThenFoldSet for FoldLeft(+, 0, h).
Summing(h, n) ==
  CHOOSE iter :
    iter = [s \in SUBSET (1 .. n) |->
              IF s = {} THEN 0 ELSE iter[s \ {Max(s)}] + h[Max(s)]]

\* A greatest number is the maximum.
LEMMA MaxIs ==
  ASSUME NEW s \in SUBSET Nat, NEW m \in s, \A k \in s : k <= m
  PROVE  Max(s) = m
<1>1. \A k \in s : m >= k
  OBVIOUS
<1>2. PICK x : x = Max(s)
  OBVIOUS
<1>3. x \in s /\ \A k \in s : x >= k
  BY <1>1, <1>2 DEF Max
<1> QED
  BY <1>1, <1>2, <1>3

\* That function exists, and is what its equation says.
LEMMA SummingIs ==
  ASSUME NEW h, NEW n \in Nat
  PROVE  Summing(h, n) = [s \in SUBSET (1 .. n) |->
           IF s = {} THEN 0 ELSE Summing(h, n)[s \ {Max(s)}] + h[Max(s)]]
<1> DEFINE Rec(f, m) == [s \in SUBSET (1 .. m) |->
                           IF s = {} THEN 0 ELSE f[s \ {Max(s)}] + h[Max(s)]]
           T == {m \in Nat : \E f : f = Rec(f, m)}
<1> HIDE DEF T
<1>1. 0 \in T
  <2>1. PICK f : f = [s \in SUBSET (1 .. 0) |-> 0]
    OBVIOUS
  <2>2. \A s \in SUBSET (1 .. 0) : s = {}
    OBVIOUS
  <2>3. f = Rec(f, 0)
    BY <2>1, <2>2
  <2> QED
    BY <2>3 DEF T
<1>2. ASSUME NEW m \in T PROVE m + 1 \in T
  <2>0. m \in Nat
    BY DEF T
  <2>1. PICK f : f = Rec(f, m)
    BY DEF T
  <2>2. PICK l : l = m + 1
    OBVIOUS
  <2>3. PICK g : g = [s \in SUBSET (1 .. l) |-> IF l \in s THEN f[s \ {l}] + h[l] ELSE f[s]]
    OBVIOUS
  <2>4. \A s \in SUBSET (1 .. m) : f[s] = IF s = {} THEN 0 ELSE f[s \ {Max(s)}] + h[Max(s)]
    BY <2>1
  <2>5. ASSUME NEW s \in SUBSET (1 .. l)
        PROVE  g[s] = IF s = {} THEN 0 ELSE g[s \ {Max(s)}] + h[Max(s)]
    <3>1. CASE l \in s
      <4>1. Max(s) = l
        <5>1. s \in SUBSET Nat /\ \A k \in s : k <= l
          BY <2>0, <2>2
        <5> QED
          BY <3>1, <5>1, MaxIs
      <4>2. s \ {l} \in SUBSET (1 .. l) /\ l \notin s \ {l}
        OBVIOUS
      <4>3. g[s \ {l}] = f[s \ {l}]
        BY <2>3, <4>2
      <4> QED
        BY <2>3, <3>1, <4>1, <4>3
    <3>2. CASE l \notin s
      <4>1. s \in SUBSET (1 .. m) /\ g[s] = f[s]
        BY <2>0, <2>2, <2>3, <3>2
      <4>2. CASE s # {}
        <5>1. PICK x : x = Max(s)
          OBVIOUS
        <5>2. s \ {x} \in SUBSET (1 .. l) /\ l \notin s \ {x}
          BY <3>2
        <5>3. g[s \ {x}] = f[s \ {x}]
          BY <2>3, <5>2
        <5> QED
          BY <2>4, <4>1, <4>2, <5>1, <5>3
      <4> QED
        BY <2>4, <4>1, <4>2
    <3> QED
      BY <3>1, <3>2
  <2>6. g = [s \in SUBSET (1 .. l) |-> g[s]]
    BY <2>3
  <2>7. g = Rec(g, l)
    BY <2>5, <2>6
  <2>8. l \in Nat
    BY <2>0, <2>2
  <2> HIDE DEF Rec
  <2>9. l \in T
    BY <2>7, <2>8 DEF T
  <2> QED
    BY <2>2, <2>9
<1>3. T = Nat
  <2>1. T \in SUBSET Nat
    BY DEF T
  <2> QED
    BY <1>1, <1>2, <2>1, EveryNumber
<1>4. PICK g : g = Summing(h, n)
  OBVIOUS
<1>5. \E f : f = Rec(f, n)
  BY <1>3 DEF T
<1>6. g = Rec(g, n)
  BY <1>4, <1>5 DEF Summing
<1> QED
  BY <1>4, <1>6

\* A sum is its last value.
LEMMA SumOfIs ==
  \A h : \A n \in Nat : DOMAIN h = 1 .. n => FoldLeft(+, 0, h) = Summing(h, n)[1 .. n]
BY Zenon DEF FoldLeft, MapThenFoldSet, Summing

\* Partial sums lead to the sum.
LEMMA SumAt ==
  ASSUME NEW h, NEW n \in Nat, NEW at, at[0] = 0,
         \A i \in 1 .. n : at[i] = at[i - 1] + h[i]
  PROVE  Summing(h, n)[1 .. n] = at[n]
<1> DEFINE T == {m \in Nat : m \in 0 .. n => Summing(h, n)[1 .. m] = at[m]}
<1> HIDE DEF T
<1>0. PICK f : f = Summing(h, n)
  OBVIOUS
<1>1. \A s \in SUBSET (1 .. n) : f[s] = IF s = {} THEN 0 ELSE f[s \ {Max(s)}] + h[Max(s)]
  <2>1. f = [s \in SUBSET (1 .. n) |-> IF s = {} THEN 0 ELSE f[s \ {Max(s)}] + h[Max(s)]]
    <3>1. Summing(h, n) = [s \in SUBSET (1 .. n) |->
            IF s = {} THEN 0 ELSE Summing(h, n)[s \ {Max(s)}] + h[Max(s)]]
      BY SummingIs
    <3> QED
      BY <1>0, <3>1, Zenon
  <2> QED
    BY <2>1
<1>2. 0 \in T
  <2>1. 1 .. 0 = {} /\ {} \in SUBSET (1 .. n)
    OBVIOUS
  <2>2. f[1 .. 0] = 0
    BY <1>1, <2>1
  <2> QED
    BY <1>0, <2>2 DEF T
<1>3. ASSUME NEW m \in T PROVE m + 1 \in T
  <2>0. m \in Nat
    BY DEF T
  <2>1. SUFFICES ASSUME m + 1 \in 0 .. n PROVE f[1 .. m + 1] = at[m + 1]
    BY <1>0, <2>0 DEF T
  <2>2. PICK l \in 1 .. n : l = m + 1
    BY <2>0, <2>1
  <2>3. 1 .. l \in SUBSET (1 .. n) /\ 1 .. l # {} /\ (1 .. l) \ {l} = 1 .. m /\ l - 1 = m
    <3>1. l - 1 = m
      BY <2>0, <2>2
    <3>2. (1 .. l) \ {l} = 1 .. l - 1
      OBVIOUS
    <3>3. 1 .. l \in SUBSET (1 .. n) /\ 1 .. l # {}
      <4>1. 1 \in 1 .. l /\ \A k \in 1 .. l : k \in 1 .. n
        OBVIOUS
      <4> QED
        BY <4>1
    <3> QED
      BY <3>1, <3>2, <3>3
  <2>4. Max(1 .. l) = l
    <3>1. 1 .. l \in SUBSET Nat /\ l \in 1 .. l /\ \A k \in 1 .. l : k <= l
      BY <2>2
    <3> QED
      BY <3>1, MaxIs
  <2>5. f[1 .. l] = f[1 .. m] + h[l]
    BY <1>1, <2>3, <2>4
  <2>6. f[1 .. m] = at[m]
    BY <1>0, <2>0, <2>1 DEF T
  <2>7. at[l] = at[m] + h[l]
    BY <2>3
  <2> QED
    BY <2>2, <2>5, <2>6, <2>7
<1>4. T = Nat
  <2>1. T \in SUBSET Nat
    BY DEF T
  <2> QED
    BY <1>2, <1>3, <2>1, EveryNumber
<1>5. n \in 0 .. n
  OBVIOUS
<1> QED
  BY <1>4, <1>5 DEF T

\* A sequence of numbers has partial sums, and they are the sums of its beginnings.
LEMMA SumsUp ==
  ASSUME NEW g \in Seq(Nat), NEW n \in Nat, n = Len(g)
  PROVE  \E at \in [0 .. n -> Nat] :
           /\ at[0] = 0 /\ \A i \in 1 .. n : at[i] = at[i - 1] + g[i]
           /\ \A i \in 0 .. n : FoldLeft(+, 0, SubSeq(g, 1, i)) = at[i]
<1>1. PICK f : f = Summing(g, n)
  OBVIOUS
<1>2. \A s \in SUBSET (1 .. n) : f[s] = IF s = {} THEN 0 ELSE f[s \ {Max(s)}] + g[Max(s)]
  <2>1. f = [s \in SUBSET (1 .. n) |-> IF s = {} THEN 0 ELSE f[s \ {Max(s)}] + g[Max(s)]]
    <3>1. Summing(g, n) = [s \in SUBSET (1 .. n) |->
            IF s = {} THEN 0 ELSE Summing(g, n)[s \ {Max(s)}] + g[Max(s)]]
      BY SummingIs
    <3> QED
      BY <1>1, <3>1, Zenon
  <2> QED
    BY <2>1
<1>3. PICK at : at = [i \in 0 .. n |-> f[1 .. i]]
  OBVIOUS
<1>4. at[0] = 0
  <2>1. 1 .. 0 = {} /\ {} \in SUBSET (1 .. n) /\ 0 \in 0 .. n
    OBVIOUS
  <2> QED
    BY <1>2, <1>3, <2>1
<1>5. ASSUME NEW i \in 1 .. n PROVE at[i] = at[i - 1] + g[i]
  <2>1. 1 .. i \in SUBSET (1 .. n) /\ 1 .. i # {} /\ (1 .. i) \ {i} = 1 .. i - 1
    OBVIOUS
  <2>2. i \in 0 .. n /\ i - 1 \in 0 .. n
    OBVIOUS
  <2>3. Max(1 .. i) = i
    <3>1. 1 .. i \in SUBSET Nat /\ i \in 1 .. i /\ \A k \in 1 .. i : k <= i
      OBVIOUS
    <3> QED
      BY <3>1, MaxIs
  <2> QED
    BY <1>2, <1>3, <2>1, <2>2, <2>3
<1>6. \A i \in 1 .. n : g[i] \in Nat
  BY ElementOfSeq
<1>7. at \in [0 .. n -> Nat]
  <2> DEFINE T == {m \in Nat : m \in 0 .. n => at[m] \in Nat}
  <2> HIDE DEF T
  <2>1. 0 \in T
    BY <1>4 DEF T
  <2>2. ASSUME NEW m \in T PROVE m + 1 \in T
    <3>1. m \in Nat
      BY DEF T
    <3>2. SUFFICES ASSUME m + 1 \in 0 .. n PROVE at[m + 1] \in Nat
      BY <3>1 DEF T
    <3>3. PICK i \in 1 .. n : i = m + 1
      BY <3>1, <3>2
    <3>4. at[m] \in Nat
      BY <3>1, <3>2 DEF T
    <3>5. i - 1 = m
      BY <3>1, <3>3
    <3>6. at[i] = at[m] + g[i]
      BY <1>5, <3>5
    <3> QED
      BY <1>6, <3>3, <3>4, <3>6
  <2>3. T = Nat
    <3>1. T \in SUBSET Nat
      BY DEF T
    <3> QED
      BY <2>1, <2>2, <3>1, EveryNumber
  <2>4. \A m \in 0 .. n : at[m] \in Nat
    <3> TAKE m \in 0 .. n
    <3>1. m \in Nat
      OBVIOUS
    <3>2. m \in T
      BY <2>3, <3>1, Zenon
    <3> QED
      BY <3>2 DEF T
  <2> QED
    BY <1>3, <2>4
<1>8. ASSUME NEW i \in 0 .. n PROVE FoldLeft(+, 0, SubSeq(g, 1, i)) = at[i]
  <2>1. PICK h : h = SubSeq(g, 1, i)
    OBVIOUS
  <2>2. DOMAIN h = 1 .. i /\ \A k \in 1 .. i : h[k] = g[k]
    <3>1. h \in Seq(Nat) /\ Len(h) = i /\ \A k \in 1 .. i : h[k] = g[1 + k - 1]
      BY <2>1, SubSeqProperties
    <3>2. \A k \in 1 .. i : 1 + k - 1 = k
      OBVIOUS
    <3> QED
      BY <3>1, <3>2
  <2>3. \A k \in 1 .. i : at[k] = at[k - 1] + h[k]
    <3> TAKE k \in 1 .. i
    <3>1. k \in 1 .. n
      OBVIOUS
    <3>2. at[k] = at[k - 1] + g[k]
      BY <1>5, <3>1
    <3> QED
      BY <2>2, <3>2
  <2>4. Summing(h, i)[1 .. i] = at[i]
    BY <1>4, <2>3, SumAt
  <2> QED
    <3>1. FoldLeft(+, 0, h) = Summing(h, i)[1 .. i]
      <4>1. i \in Nat
        OBVIOUS
      <4> QED
        BY <2>2, <4>1, SumOfIs, Zenon
    <3> QED
      BY <2>1, <2>4, <3>1, Zenon
<1> QED
  BY <1>4, <1>5, <1>7, <1>8

\* The bytes of the items add up.
LEMMA UpTo ==
  ASSUME ig \in Seq(Nat)
  PROVE  /\ BytesUpTo(0) = 0
         /\ \A i \in 0 .. Len(ig) : BytesUpTo(i) \in Nat /\ BytesUpTo(i) <= heap_len
         /\ \A i \in 1 .. Len(ig) : BytesUpTo(i) = BytesUpTo(i - 1) + ig[i]
<1>1. PICK n \in Nat : n = Len(ig)
  BY LenProperties
<1>2. PICK at \in [0 .. n -> Nat] :
        /\ at[0] = 0 /\ \A i \in 1 .. n : at[i] = at[i - 1] + ig[i]
        /\ \A i \in 0 .. n : FoldLeft(+, 0, SubSeq(ig, 1, i)) = at[i]
  BY <1>1, SumsUp
<1>3. \A i \in 0 .. n : BytesUpTo(i) = at[i]
  BY <1>2 DEF BytesUpTo
<1>4. \A m \in 0 .. n : \A j \in 0 .. m : at[j] <= at[m]
  <2>1. \A i \in 1 .. n : ig[i] \in Nat /\ at[i] = at[i - 1] + ig[i]
    BY <1>1, <1>2, ElementOfSeq
  <2> QED
    BY <2>1, AtGrows
<1>5. \A i \in 1 .. n : i \in 0 .. n /\ i - 1 \in 0 .. n
  OBVIOUS
<1>6. 0 \in 0 .. n /\ n \in 0 .. n
  OBVIOUS
<1>7. heap_len = at[n]
  BY <1>1, <1>3, <1>6 DEF heap_len
<1> QED
  BY <1>1, <1>2, <1>3, <1>4, <1>5, <1>6, <1>7

\* The data of the items, one after the other.
Data == FlattenSeq([i \in DOMAIN ig |-> Bytes(i, 0, ig[i])])

\* Byte k of item i comes k places behind the bytes of the items before.
LEMMA DataIs ==
  ASSUME ig \in Seq(Nat)
  PROVE  /\ Data \in Seq(Byte) /\ Len(Data) = heap_len
         /\ \A i \in 1 .. Len(ig) : \A k \in 1 .. ig[i] : Data[BytesUpTo(i - 1) + k] = <<i, k>>
<1>1. PICK n \in Nat : n = Len(ig) /\ DOMAIN ig = 1 .. n
  BY LenProperties
<1>2. PICK s : s = [i \in DOMAIN ig |-> Bytes(i, 0, ig[i])]
  OBVIOUS
<1>3. \A i \in 1 .. n : ig[i] \in Nat
  BY <1>1, ElementOfSeq
<1>4. ASSUME NEW i \in 1 .. n
      PROVE  /\ s[i] \in Seq(Byte) /\ Len(s[i]) = ig[i]
             /\ \A k \in 1 .. ig[i] : s[i][k] = <<i, k>>
  <2>1. PICK m \in Nat : m = ig[i]
    BY <1>3
  <2>2. s[i] = Bytes(i, 0, m)
    BY <1>1, <1>2, <2>1
  <2>3. \A k \in 1 .. m : 0 + k = k
    OBVIOUS
  <2>4. s[i] = [k \in 1 .. m |-> <<i, k>>]
    BY <2>2, <2>3 DEF Bytes
  <2> QED
    <3>1. PICK v : v = s[i]
      OBVIOUS
    <3>2. \A k \in 1 .. m : <<i, k>> \in Byte
      BY DEF Byte
    <3>3. v \in [1 .. m -> Byte] /\ \A k \in 1 .. m : v[k] = <<i, k>>
      BY <2>4, <3>1, <3>2
    <3>4. v \in Seq(Byte) /\ Len(v) = m
      BY <3>3
    <3> QED
      BY <2>1, <3>1, <3>3, <3>4
<1>5. s \in Seq(Seq(Byte)) /\ Len(s) = n
  <2>1. s = [i \in 1 .. n |-> s[i]]
    BY <1>1, <1>2
  <2>2. \A i \in 1 .. n : s[i] \in Seq(Byte)
    BY <1>4
  <2>3. s \in [1 .. n -> Seq(Byte)]
    BY <2>1, <2>2
  <2> QED
    BY <2>3
<1>6. PICK at : at = [i \in 0 .. n |-> BytesUpTo(i)]
  OBVIOUS
<1>7. /\ at \in [0 .. n -> Nat] /\ at[0] = 0 /\ at[n] = heap_len
      /\ \A i \in 1 .. n : at[i - 1] = BytesUpTo(i - 1) /\ at[i] = at[i - 1] + ig[i]
  <2>1. \A i \in 1 .. n : i \in 0 .. n /\ i - 1 \in 0 .. n
    OBVIOUS
  <2>2. 0 \in 0 .. n /\ n \in 0 .. n
    OBVIOUS
  <2> QED
    BY <1>1, <1>6, <2>1, <2>2, UpTo DEF heap_len
<1>8. \A i \in 1 .. n : at[i] = at[i - 1] + Len(s[i])
  BY <1>4, <1>7
<1>9. /\ FlattenSeq(s) \in Seq(Byte) /\ Len(FlattenSeq(s)) = at[n]
      /\ \A i \in 1 .. n : \A k \in 1 .. Len(s[i]) : FlattenSeq(s)[at[i - 1] + k] = s[i][k]
  <2>1. /\ s \in Seq(Seq(Byte)) /\ Len(s) = n /\ at[0] = 0
        /\ \A i \in 1 .. n : at[i] = at[i - 1] + Len(s[i])
    BY <1>5, <1>7, <1>8
  <2>2. n \in Nat /\ at \in [0 .. n -> Nat]
    BY <1>1, <1>7
  <2> QED
    <3>1. Adds(at, s, n)
      BY <2>1 DEF Adds
    <3>2. Joins(FlattenSeq(s), at, s, n, Byte)
      BY <2>1, <2>2, <3>1, FlattenAt, Zenon
    <3> QED
      BY <3>2 DEF Joins
<1>10. Data = FlattenSeq(s)
  BY <1>2 DEF Data
<1> QED
  <2>1. \A i \in 1 .. n : \A k \in 1 .. ig[i] : Data[BytesUpTo(i - 1) + k] = <<i, k>>
    <3> TAKE i \in 1 .. n
    <3>1. PICK v : v = s[i]
      OBVIOUS
    <3>2. PICK m : m = ig[i]
      OBVIOUS
    <3>3. Len(v) = m /\ \A k \in 1 .. m : v[k] = <<i, k>>
      BY <1>4, <3>1, <3>2
    <3>4. PICK q : q = BytesUpTo(i - 1) /\ q = at[i - 1]
      BY <1>7
    <3>5. \A k \in 1 .. m : Data[q + k] = v[k]
      BY <1>9, <1>10, <3>1, <3>3, <3>4
    <3>6. \A k \in 1 .. m : Data[q + k] = <<i, k>>
      BY <3>3, <3>5, Zenon
    <3> QED
      BY <3>2, <3>4, <3>6, Zenon
  <2> QED
    BY <1>1, <1>7, <1>9, <1>10, <2>1

\* A quotient does not fall when the dividend grows.
LEMMA Quotient ==
  ASSUME NEW a \in Nat, NEW b \in Nat, NEW h \in Nat \ {0}, a <= b
  PROVE  a \div h \in Nat /\ a \div h <= b \div h
<1>1. PICK q : q = a \div h
  OBVIOUS
<1>2. PICK r : r = b \div h
  OBVIOUS
<1>3. q \in Int /\ q * h <= a /\ a < (q + 1) * h
  BY <1>1
<1>4. r \in Int /\ r * h <= b /\ b < (r + 1) * h
  BY <1>2
<1>5. q >= 0
  <2>1. SUFFICES ASSUME q + 1 <= 0 PROVE FALSE
    BY <1>3
  <2>2. (q + 1) * h <= 0
    BY <1>3, <2>1
  <2> QED
    BY <1>3, <2>2
<1>6. q <= r
  <2>1. SUFFICES ASSUME r + 1 <= q PROVE FALSE
    BY <1>3, <1>4
  <2>2. (r + 1) * h <= q * h
    BY <1>3, <1>4, <2>1
  <2> QED
    BY <1>3, <1>4, <2>2
<1> QED
  BY <1>1, <1>2, <1>3, <1>5, <1>6

\* A part of t, when a is a part of h.
LEMMA QuotientIn ==
  ASSUME NEW a \in Nat, NEW h \in Nat \ {0}, NEW t \in Nat, a <= h
  PROVE  (a * t) \div h <= t
<1>1. PICK x \in Nat : x = a * t
  OBVIOUS
<1>2. PICK y \in Nat : y = h * t /\ x <= y
  BY <1>1
<1>3. y \div h = t
  BY <1>2
<1> QED
  BY <1>1, <1>2, <1>3, Quotient

\* The buckets: in the table, and no later offset in an earlier one.
LEMMA Buckets ==
  ASSUME NEW t \in Nat \ {0}, NEW hl \in Nat, NEW a \in Nat, NEW b \in Nat, a <= b
  PROVE  /\ HashFn(t, a, hl) \in Nat /\ HashFn(t, a, hl) <= HashFn(t, b, hl)
         /\ a <= hl => HashFn(t, a, hl) \in 0 .. t - 1
<1>1. CASE hl = 0 \/ t = 1
  BY <1>1 DEF HashFn
<1>2. CASE ~(hl = 0 \/ t = 1)
  <2>1. PICK l \in Nat : l = t - 1
    OBVIOUS
  <2>2. HashFn(t, a, hl) = (a * l) \div hl /\ HashFn(t, b, hl) = (b * l) \div hl
    BY <1>2, <2>1 DEF HashFn
  <2>3. PICK x \in Nat : x = a * l
    BY <2>1
  <2>4. PICK y \in Nat : y = b * l
    BY <2>1
  <2>5. x <= y
    BY <2>3, <2>4
  <2>6. x \div hl \in Nat /\ x \div hl <= y \div hl
    BY <1>2, <2>5, Quotient
  <2>7. a <= hl => x \div hl <= l
    BY <1>2, <2>1, <2>3, QuotientIn
  <2> QED
    BY <2>1, <2>2, <2>3, <2>4, <2>6, <2>7
<1> QED
  BY <1>1, <1>2

\* Sequences put end to end make a sequence.
LEMMA FlattenType ==
  \A S : \A s \in Seq(Seq(S)) : FlattenSeq(s) \in Seq(S)
<1> TAKE S
<1> TAKE s \in Seq(Seq(S))
<1>1. PICK n \in Nat : n = Len(s)
  BY LenProperties
<1>2. PICK g : g = [i \in 1 .. n |-> Len(s[i])]
  OBVIOUS
<1>3. g \in Seq(Nat) /\ Len(g) = n
  <2>1. \A i \in 1 .. n : Len(s[i]) \in Nat
    BY <1>1, ElementOfSeq, LenProperties
  <2>2. g \in [1 .. n -> Nat]
    BY <1>2, <2>1
  <2> QED
    BY <2>2
<1>4. PICK at \in [0 .. n -> Nat] : at[0] = 0 /\ \A i \in 1 .. n : at[i] = at[i - 1] + g[i]
  BY <1>3, SumsUp
<1>5. \A i \in 1 .. n : at[i] = at[i - 1] + Len(s[i])
  BY <1>2, <1>4
<1>6. Adds(at, s, n)
  BY <1>1, <1>4, <1>5 DEF Adds
<1>7. Joins(FlattenSeq(s), at, s, n, S)
  BY <1>4, <1>6, FlattenAt, Zenon
<1> QED
  BY <1>7 DEF Joins

\* The table as the sequence of its chains.
Chains(t) == [i \in 1 .. TableLen |-> t[i - 1]]

\* The chains are sequences, and put end to end they are the traversal.
LEMMA ChainsOf ==
  ASSUME NEW S, NEW t \in [0 .. TableLen - 1 -> Seq(S)]
  PROVE  /\ Chains(t) \in Seq(Seq(S)) /\ Len(Chains(t)) = TableLen
         /\ InOrder(t) = FlattenSeq(Chains(t))
<1>1. TableLen \in Nat
  BY PacketizeAssumption
<1>2. Cardinality(DOMAIN t) = TableLen
  <2>1. DOMAIN t = 0 .. TableLen - 1
    OBVIOUS
  <2>2. Cardinality(0 .. TableLen - 1) = TableLen
    <3>1. PICK m \in Int : m = TableLen - 1
      BY <1>1
    <3>2. Cardinality(0 .. m) = IF 0 > m THEN 0 ELSE m - 0 + 1
      BY FS_Interval
    <3> QED
      BY <1>1, <3>1, <3>2
  <2> QED
    BY <2>1, <2>2
<1>3. \A i \in 1 .. TableLen : i - 1 \in 0 .. TableLen - 1
  BY <1>1
<1>4. Chains(t) \in [1 .. TableLen -> Seq(S)]
  BY <1>3 DEF Chains
<1>5. Chains(t) \in Seq(Seq(S)) /\ Len(Chains(t)) = TableLen
  BY <1>1, <1>4
<1>6. InOrder(t) = FlattenSeq(Chains(t))
  BY <1>2 DEF InOrder, Chains
<1> QED
  BY <1>5, <1>6

\* No chain behind the bucket id.
NoneBehind(t, id) == \A b \in 0 .. TableLen - 1 : b > id => t[b] = <<>>

\* u is the table t with x last in the order of traversal.
WithLast(u, t, x, S) ==
  u \in [0 .. TableLen - 1 -> Seq(S)] /\ InOrder(u) = Append(InOrder(t), x)

\* A packet added behind all others comes last in the order of traversal.
LEMMA AddedLast ==
  \A S : \A t \in [0 .. TableLen - 1 -> Seq(S)] : \A id \in 0 .. TableLen - 1 : \A x \in S :
    NoneBehind(t, id) => WithLast(AddO(t, id, x), t, x, S)
<1> SUFFICES ASSUME NEW S, NEW t \in [0 .. TableLen - 1 -> Seq(S)], NEW id \in 0 .. TableLen - 1,
                    NEW x \in S, \A b \in 0 .. TableLen - 1 : b > id => t[b] = <<>>
             PROVE  WithLast(AddO(t, id, x), t, x, S)
  BY DEF NoneBehind
<1> USE DEF WithLast
<1>1. TableLen \in Nat
  BY PacketizeAssumption
<1>2. PICK u : u = AddO(t, id, x)
  OBVIOUS
<1>3. /\ u \in [0 .. TableLen - 1 -> Seq(S)] /\ u[id] = Append(t[id], x)
      /\ \A b \in 0 .. TableLen - 1 : b # id => u[b] = t[b]
  <2>1. PICK v \in Seq(S) : v = t[id]
    OBVIOUS
  <2>2. u = [t EXCEPT ![id] = Append(v, x)] /\ Append(v, x) \in Seq(S)
    BY <1>2, <2>1 DEF AddO
  <2> QED
    BY <2>1, <2>2
<1>4. PICK s \in Seq(Seq(S)) : s = Chains(t) /\ Len(s) = TableLen
  BY ChainsOf
<1>5. PICK w \in Seq(Seq(S)) : w = Chains(u) /\ Len(w) = TableLen
  BY <1>3, ChainsOf
<1>6. PICK k \in 1 .. TableLen : k = id + 1
  BY <1>1
<1>7. /\ \A i \in 1 .. TableLen : s[i] = t[i - 1] /\ w[i] = u[i - 1] /\ i - 1 \in 0 .. TableLen - 1
      /\ k - 1 = id
  BY <1>1, <1>4, <1>5, <1>6 DEF Chains
<1>8. w[k] = Append(s[k], x)
  BY <1>3, <1>7
<1>9. \A i \in 1 .. TableLen : i # k => w[i] = s[i]
  <2> TAKE i \in 1 .. TableLen
  <2>1. i # k => i - 1 # id
    BY <1>1, <1>6
  <2> QED
    BY <1>3, <1>7, <2>1
<1>10. \A i \in 1 .. TableLen : i > k => s[i] = <<>>
  <2> TAKE i \in 1 .. TableLen
  <2>1. i > k => i - 1 > id
    BY <1>1, <1>6
  <2> QED
    BY <1>7, <2>1
<1>11. FlattenSeq(w) = Append(FlattenSeq(s), x)
  BY <1>1, <1>4, <1>5, <1>8, <1>9, <1>10, FlattenAppend
<1> QED
  BY <1>2, <1>3, <1>4, <1>5, <1>11, ChainsOf

\* The items that packets list, and the packets.
ListedItem == [mode : {"direct"}, id : Nat, off : Nat]
CutPacket == [off : Nat, len : Nat, items : Seq(ListedItem), data : Seq(Byte)]

\* The types that the packets need.
CutType ==
  /\ p \in CutPacket /\ t_os \in [0 .. TableLen - 1 -> Seq(CutPacket)]
  /\ payload_off \in Nat /\ nitems \in Nat /\ count \in Int

\* The bytes copied so far.
Done == BytesUpTo(itm) - remain

\* The packet x carries the bytes at its offset, and if it is the first one
\* lists the items.
Right(x) ==
  /\ x.off + Len(x.data) <= heap_len /\ x.len = Len(x.data)
  /\ \A k \in 1 .. Len(x.data) : x.data[k] = Data[x.off + k]

ItemsOf(x) == IF x.off = 0 THEN [i \in 1 .. Len(ig) |-> DirectItem(i)] ELSE <<>>

\* The packets c of the table: one after the other, the first n of them full.
InLine(c, n) ==
  /\ \A i \in 1 .. Len(c) :
       c[i].off = (i - 1) * pkt_size /\ Right(c[i]) /\ c[i].items = ItemsOf(c[i])
  /\ \A i \in 1 .. n : c[i].len = pkt_size

\* The item being copied and what is left of it.
Cursor ==
  /\ itm \in 0 .. Len(ig)
  /\ remain = 0 \/ (itm # 0 /\ ioff + remain = ig[itm])

\* The first packet comes before anything is copied.
Counted ==
  /\ nitems # 4 => nitems > 4 /\ count = 0 /\ itm = 0 /\ remain = 0 /\ payload_off = 0
  /\ nitems = 4 => count = heap_len - Done
  /\ state = "addig" => nitems # 4
  /\ state \in {"init", "copydata", "hashpacket"} => nitems = 4
  /\ state = "getpacket" => Done = payload_off /\ (nitems = 4 => payload_off > 0)

\* The packet in hand: it begins at payload_off and has the bytes from there on.
InHand ==
  state \in {"addig", "init", "copydata", "hashpacket"} =>
    /\ held /\ p.off = payload_off /\ Done = payload_off + Len(p.data) /\ Right(p)
    /\ state # "addig" => p.items = ItemsOf(p)
    /\ state = "hashpacket" => Len(p.data) = pkt_size \/ (count = 0 /\ remain = 0)

\* The table: whole packets, none behind the bucket of the next.
Lined ==
  state # "end" =>
    /\ InLine(Chained, Len(Chained)) /\ payload_off = Len(Chained) * pkt_size
    /\ \A b \in 0 .. TableLen - 1 : b > HashFn(TableLen, payload_off, heap_len) => t_os[b] = <<>>

\* At the end the last packet may be short, and nothing is missing unless an
\* object or room was.
AtTheEnd ==
  state = "end" =>
    /\ InLine(Chained, Len(Chained) - 1)
    /\ \/ s_list = 0 \/ held
       \/ /\ Chained # <<>>
          /\ (Len(Chained) - 1) * pkt_size + Chained[Len(Chained)].len = heap_len

CutInv == CutType /\ Cursor /\ Counted /\ InHand /\ Lined /\ AtTheEnd

\* What is traversed is a sequence of packets.
LEMMA ChainedType == CutType => Chained \in Seq(CutPacket)
<1> SUFFICES ASSUME CutType PROVE Chained \in Seq(CutPacket)
  OBVIOUS
<1>1. t_os \in [0 .. TableLen - 1 -> Seq(CutPacket)]
  BY DEF CutType
<1>2. Chains(t_os) \in Seq(Seq(CutPacket)) /\ InOrder(t_os) = FlattenSeq(Chains(t_os))
  BY <1>1, ChainsOf
<1> QED
  BY <1>2, FlattenType DEF Chained

\* A packet without data has no wrong byte.
LEMMA NothingRight ==
  ASSUME NEW x, x.data = <<>>, x.len = 0, x.off \in Nat, x.off <= heap_len
  PROVE  Right(x)
BY DEF Right

\* An empty table has nothing to traverse.
LEMMA NoChains ==
  Chained = <<>> \/ t_os # EmptyTable(TableLen)
<1> SUFFICES ASSUME t_os = EmptyTable(TableLen) PROVE Chained = <<>>
  OBVIOUS
<1>0. TableLen \in Nat
  BY PacketizeAssumption
<1>1. t_os \in [0 .. TableLen - 1 -> Seq({})] /\ \A b \in 0 .. TableLen - 1 : t_os[b] = <<>>
  BY DEF EmptyTable
<1>2. Chains(t_os) \in Seq(Seq({})) /\ InOrder(t_os) = FlattenSeq(Chains(t_os))
  BY <1>1, ChainsOf
<1>3. FlattenSeq(Chains(t_os)) \in Seq({})
  BY <1>2, FlattenType
<1>4. PICK f \in Seq({}) : f = Chained
  BY <1>2, <1>3 DEF Chained
<1>5. f = <<>>
  <2>1. SUFFICES ASSUME f # <<>> PROVE FALSE
    OBVIOUS
  <2>2. 1 \in 1 .. Len(f)
    BY <2>1, LenProperties, EmptySeq
  <2>3. f[1] \in {}
    BY <2>2, ElementOfSeq
  <2> QED
    BY <2>3
<1> QED
  BY <1>4, <1>5

\* The bytes copied so far are none too many.
LEMMA DoneIs ==
  ASSUME IInv, Cursor
  PROVE  /\ Done \in Nat /\ Done <= heap_len /\ heap_len \in Nat
         /\ remain > 0 => Done < heap_len
<1>1. ig \in Seq(Nat) /\ remain \in Nat /\ ioff \in Nat
  BY DEF IInv, TypeOK
<1>2. BytesUpTo(itm) \in Nat /\ BytesUpTo(itm) <= heap_len
  BY <1>1, UpTo DEF Cursor
<1>3. heap_len \in Nat
  <2>1. Len(ig) \in 0 .. Len(ig)
    BY <1>1, LenProperties
  <2> QED
    BY <1>1, <2>1, UpTo DEF heap_len
<1>4. remain <= BytesUpTo(itm)
  <2>1. CASE remain = 0
    BY <1>2, <2>1
  <2>2. CASE remain # 0
    <3>1. itm \in 1 .. Len(ig) /\ itm - 1 \in 0 .. Len(ig) /\ ioff + remain = ig[itm]
      BY <1>1, <2>2, LenProperties DEF Cursor
    <3>2. BytesUpTo(itm) = BytesUpTo(itm - 1) + ig[itm] /\ BytesUpTo(itm - 1) \in Nat
      BY <1>1, <3>1, UpTo
    <3> QED
      BY <1>1, <3>1, <3>2
  <2> QED
    BY <2>1, <2>2
<1> QED
  BY <1>1, <1>2, <1>3, <1>4 DEF Done

\* The invariant at the start.
LEMMA CutInit == PacketizeInit => CutInv
<1> SUFFICES ASSUME PacketizeInit PROVE CutInv
  OBVIOUS
<1> USE DEF PacketizeInit
<1>1. ig \in Seq(Nat) /\ ig # <<>> /\ Len(ig) \in Nat \ {0} /\ TableLen \in Nat \ {0}
  <2>1. ig \in Seq(Nat) /\ ig # <<>>
    BY PacketizeAssumption
  <2> QED
    BY <2>1, PacketizeAssumption, LenProperties, EmptySeq
<1>2. p = [off |-> 0, len |-> 0, items |-> <<>>, data |-> <<>>]
  BY DEF NoPacket
<1>3. BytesUpTo(0) = 0
  BY <1>1, UpTo
<1>4. Chained = <<>>
  BY NoChains
<1>5. p \in CutPacket
  BY <1>2 DEF CutPacket
<1>6. t_os \in [0 .. TableLen - 1 -> Seq(CutPacket)] /\ \A b \in 0 .. TableLen - 1 : t_os[b] = <<>>
  BY DEF EmptyTable
<1>7. CutType
  BY <1>1, <1>5, <1>6 DEF CutType
<1>8. Cursor
  BY <1>1 DEF Cursor
<1>9. Counted
  BY <1>1, <1>3 DEF Counted, Done
<1>10. InHand
  BY DEF InHand
<1>11. Lined
  <2>1. Len(Chained) = 0 /\ Len(Chained) * pkt_size = 0
    BY <1>4, PacketizeAssumption
  <2>2. InLine(Chained, Len(Chained))
    BY <2>1 DEF InLine
  <2> QED
    BY <1>6, <2>1, <2>2 DEF Lined
<1> QED
  BY <1>7, <1>8, <1>9, <1>10, <1>11 DEF CutInv, AtTheEnd

\* The group and the packet size do not change.
LEMMA SameGroup ==
  ASSUME UNCHANGED <<ig, pkt_size>>
  PROVE  /\ heap_len' = heap_len /\ Data' = Data
         /\ \A i : BytesUpTo(i)' = BytesUpTo(i)
         /\ \A x : Right(x)' = Right(x) /\ ItemsOf(x)' = ItemsOf(x)
         /\ \A c, n : InLine(c, n)' = InLine(c, n)
<1>0. ASSUME NEW i PROVE BytesUpTo(i)' = BytesUpTo(i)
  <2>1. ig' = ig
    OBVIOUS
  <2> QED
    BY <2>1, Zenon DEF BytesUpTo, FoldLeft, MapThenFoldSet
<1>a. heap_len' = heap_len /\ Data' = Data
  BY <1>0, Zenon DEF heap_len, Data, BytesUpTo
<1>1. heap_len' = heap_len /\ Data' = Data /\ \A i : BytesUpTo(i)' = BytesUpTo(i)
  BY <1>0, <1>a
<1>2. \A x : Right(x)' = Right(x)
  BY <1>1 DEF Right
<1>3. \A x : ItemsOf(x)' = ItemsOf(x)
  BY <1>1 DEF ItemsOf, DirectItem
<1>4. \A c, n : InLine(c, n)' = InLine(c, n)
  BY <1>2, <1>3 DEF InLine
<1> QED
  BY <1>1, <1>2, <1>3, <1>4

\* So a packet x stays as right as it was, and is listed as it was.
LEMMA SameThen ==
  ASSUME UNCHANGED <<ig, pkt_size>>, NEW x, x = p'
  PROVE  /\ Right(x) => Right(p)'
         /\ x.items = ItemsOf(x) => (p.items = ItemsOf(p))'
<1>1. Right(x)' = Right(x) /\ ItemsOf(x)' = ItemsOf(x)
  BY SameGroup
<1>2. Right(x)' = Right(p)'
  BY DEF Right
<1>3. ItemsOf(x)' = ItemsOf(p)'
  BY DEF ItemsOf
<1> QED
  BY <1>1, <1>2, <1>3

\* So do the packets c in line.
LEMMA SameLine ==
  ASSUME UNCHANGED <<ig, pkt_size>>, NEW c, c = Chained'
  PROVE  /\ InLine(c, Len(c)) => InLine(Chained, Len(Chained))'
         /\ InLine(c, Len(c) - 1) => InLine(Chained, Len(Chained) - 1)'
<1>1. \A m : InLine(c, m)' = InLine(c, m)
  BY SameGroup
<1>2. InLine(c, Len(c))' = InLine(Chained, Len(Chained))'
  BY DEF InLine
<1>3. InLine(c, Len(c) - 1)' = InLine(Chained, Len(Chained) - 1)'
  BY DEF InLine
<1> QED
  BY <1>1, <1>2, <1>3

\* A step that leaves the table alone and does not end.
LEMMA SameTable ==
  ASSUME CutInv, UNCHANGED <<ig, pkt_size, t_os, payload_off>>, state # "end"
  PROVE  /\ Lined' /\ Chained' = Chained
         /\ InLine(Chained, Len(Chained) - 1)'
<1>1. Chained' = Chained
  BY DEF Chained
<1>2. /\ InLine(Chained, Len(Chained)) /\ payload_off = Len(Chained) * pkt_size
      /\ \A b \in 0 .. TableLen - 1 : b > HashFn(TableLen, payload_off, heap_len) => t_os[b] = <<>>
  BY DEF CutInv, Lined
<1>0. PICK c : c = Chained
  OBVIOUS
<1>3. InLine(Chained, Len(Chained))'
  BY <1>0, <1>1, <1>2, SameLine
<1>4. Lined'
  BY <1>1, <1>2, <1>3, SameGroup DEF Lined
<1>5. InLine(Chained, Len(Chained) - 1)'
  <2>1. Len(Chained) \in Nat
    BY ChainedType, LenProperties DEF CutInv
  <2>2. InLine(Chained, Len(Chained) - 1)
    <3>1. PICK l \in Nat : l = Len(Chained)
      BY <2>1
    <3>2. \A i \in 1 .. l - 1 : i \in 1 .. l
      OBVIOUS
    <3> QED
      BY <1>2, <3>1, <3>2 DEF InLine
  <2> QED
    BY <1>0, <1>1, <2>2, SameLine
<1> QED
  BY <1>1, <1>4, <1>5

\* A new packet carries nothing and comes at the offset reached.
LEMMA GetStep ==
  ASSUME IInv, CutInv, GetPacket
  PROVE  CutInv'
<1>1. CutType /\ Cursor /\ Counted
  BY DEF CutInv
<1>2. /\ p' = [NoPacket EXCEPT !.off = payload_off] /\ held'
      /\ UNCHANGED <<ig, pkt_size, itm, ioff, remain, count, nitems, payload_off, t_os>>
      /\ state = "getpacket" /\ state' = IF nitems > 4 /\ count = 0 THEN "addig" ELSE "init"
  BY DEF GetPacket
<1>3. p' = [off |-> payload_off, len |-> 0, items |-> <<>>, data |-> <<>>]
  BY <1>2 DEF NoPacket
<1>4. CutType'
  <2>1. p' \in CutPacket
    <3>1. payload_off \in Nat
      BY <1>1 DEF CutType
    <3> QED
      BY <1>3, <3>1 DEF CutPacket
  <2> QED
    BY <1>1, <1>2, <2>1 DEF CutType
<1>5. Cursor'
  BY <1>1, <1>2 DEF Cursor
<1>6. Done' = Done /\ Done = payload_off
  BY <1>1, <1>2, SameGroup DEF Done, Counted
<1>7. nitems # 4 => nitems > 4 /\ count = 0
  BY <1>1 DEF Counted
<1>8. \/ state' = "addig" /\ nitems # 4
      \/ state' = "init" /\ nitems = 4 /\ payload_off > 0
  <2>1. nitems = 4 => payload_off > 0
    BY <1>1, <1>2 DEF Counted
  <2> QED
    BY <1>2, <1>7, <2>1
<1>9. Counted'
  BY <1>1, <1>2, <1>6, <1>8, SameGroup DEF Counted
<1>10. InHand'
  <2>1. Right(p')
    <3>1. PICK x : x = p'
      OBVIOUS
    <3>2. x.data = <<>> /\ x.len = 0 /\ x.off = payload_off
      BY <1>3, <3>1
    <3>3. payload_off \in Nat /\ payload_off <= heap_len
      BY <1>1, <1>6, DoneIs
    <3> QED
      BY <3>1, <3>2, <3>3, NothingRight
  <2>2. Right(p)'
    BY <1>2, <2>1, SameThen
  <2>3. Len(p'.data) = 0 /\ p'.off = payload_off /\ p'.items = <<>>
    BY <1>3
  <2>4. payload_off > 0 => p'.items = ItemsOf(p')
    BY <1>1, <2>3 DEF ItemsOf, CutType
  <2>5. payload_off > 0 => (p.items = ItemsOf(p))'
    BY <1>2, <2>4, SameThen
  <2>6. Done' = payload_off + Len(p'.data) /\ state' # "hashpacket"
    BY <1>1, <1>6, <1>8, <2>3 DEF CutType
  <2> QED
    BY <1>2, <1>8, <2>2, <2>3, <2>5, <2>6 DEF InHand
<1>11. Lined' /\ AtTheEnd'
  BY <1>2, <1>8, SameTable DEF AtTheEnd
<1> QED
  BY <1>4, <1>5, <1>9, <1>10, <1>11 DEF CutInv

\* Without a free object what is in the table is a beginning.
LEMMA DryStep ==
  ASSUME IInv, CutInv, BankDry
  PROVE  CutInv'
<1>1. CutType /\ Cursor /\ Counted
  BY DEF CutInv
<1>2. /\ state = "getpacket" /\ state' = "end" /\ s_list' = 0
      /\ UNCHANGED <<ig, pkt_size, p, itm, ioff, remain, count, nitems, payload_off, t_os>>
  BY DEF BankDry
<1>3. CutType' /\ Cursor' /\ Counted' /\ InHand'
  BY <1>1, <1>2, SameGroup DEF CutType, Cursor, Counted, InHand, Done
<1>4. Lined' /\ AtTheEnd'
  BY <1>2, SameTable DEF AtTheEnd
<1> QED
  BY <1>3, <1>4 DEF CutInv

\* The first packet lists the items, where UpTo says they are.
LEMMA AddStep ==
  ASSUME IInv, CutInv, AddItems
  PROVE  CutInv'
<1>1. CutType /\ Cursor /\ Counted /\ InHand
  BY DEF CutInv
<1>2. /\ p' = [p EXCEPT !.items = [i \in 1 .. Len(ig) |-> DirectItem(i)]]
      /\ count' = heap_len /\ nitems' = 4 /\ itm' = 0
      /\ state = "addig" /\ state' = "init"
      /\ UNCHANGED <<ig, pkt_size, held, payload_off, ioff, remain, t_os>>
  BY DEF AddItems
<1>3. /\ itm = 0 /\ remain = 0 /\ payload_off = 0
      /\ held /\ p.off = 0 /\ Done = payload_off + Len(p.data) /\ Right(p)
  BY <1>1, <1>2 DEF Counted, InHand
<1>4. PICK its : its = [i \in 1 .. Len(ig) |-> DirectItem(i)]
  OBVIOUS
<1>5. its \in Seq(ListedItem)
  <2>1. ig \in Seq(Nat)
    BY DEF IInv, TypeOK
  <2>2. PICK n \in Nat : n = Len(ig)
    BY <2>1, LenProperties
  <2>3. ASSUME NEW i \in 1 .. n PROVE DirectItem(i) \in ListedItem
    <3>1. i - 1 \in 0 .. n
      OBVIOUS
    <3>2. BytesUpTo(i - 1) \in Nat
      BY <2>1, <2>2, <3>1, UpTo
    <3> QED
      BY <3>2 DEF DirectItem, ListedItem
  <2>4. its \in [1 .. n -> ListedItem]
    BY <1>4, <2>2, <2>3
  <2> QED
    BY <2>4
<1>6. p' \in CutPacket /\ p'.items = its /\ p'.off = p.off /\ p'.data = p.data /\ p'.len = p.len
  <2>1. p \in CutPacket /\ p' = [p EXCEPT !.items = its]
    BY <1>1, <1>2, <1>4 DEF CutType
  <2> QED
    BY <1>5, <2>1 DEF CutPacket
<1>7. CutType'
  BY <1>1, <1>2, <1>6, DoneIs DEF CutType
<1>8. Cursor'
  <2>1. 0 \in 0 .. Len(ig)
    BY <1>1, <1>3 DEF Cursor
  <2> QED
    BY <1>2, <1>3, <2>1 DEF Cursor
<1>9. Done = 0 /\ Done' = 0
  <2>1. BytesUpTo(0) = 0
    BY UpTo DEF IInv, TypeOK
  <2> QED
    BY <1>2, <1>3, <2>1, SameGroup DEF Done
<1>10. Counted'
  BY <1>2, <1>3, <1>9, DoneIs, <1>1, SameGroup DEF Counted
<1>11. InHand'
  <2>1. Right(p')
    BY <1>3, <1>6 DEF Right
  <2>2. Right(p)'
    BY <1>2, <2>1, SameThen
  <2>3. p'.items = ItemsOf(p')
    BY <1>3, <1>4, <1>6 DEF ItemsOf
  <2>4. (p.items = ItemsOf(p))'
    BY <1>2, <2>3, SameThen
  <2>5. Done' = payload_off + Len(p'.data)
    BY <1>3, <1>6, <1>9
  <2> QED
    BY <1>2, <1>3, <1>6, <2>2, <2>4, <2>5 DEF InHand
<1>12. Lined' /\ AtTheEnd'
  BY <1>2, SameTable DEF AtTheEnd
<1> QED
  BY <1>7, <1>8, <1>10, <1>11, <1>12 DEF CutInv

\* A packet that may not fit is held and ends it.
LEMMA PacketInitStep ==
  ASSUME IInv, CutInv, InitPacket
  PROVE  CutInv'
<1>1. CutType /\ Cursor /\ Counted /\ InHand
  BY DEF CutInv
<1>2. /\ state = "init" /\ state' \in {"copydata", "end"}
      /\ UNCHANGED <<ig, pkt_size, p, held, itm, ioff, remain, count, nitems, payload_off, t_os>>
  BY DEF InitPacket
<1>3. Done' = Done
  BY <1>2, SameGroup DEF Done
<1>4. CutType' /\ Cursor' /\ Counted'
  BY <1>1, <1>2, <1>3, SameGroup DEF CutType, Cursor, Counted
<1>5. /\ held /\ p.off = payload_off /\ Done = payload_off + Len(p.data) /\ Right(p)
      /\ p.items = ItemsOf(p)
  BY <1>1, <1>2 DEF InHand
<1>6. Right(p)' /\ (p.items = ItemsOf(p))'
  BY <1>2, <1>5, SameThen
<1>7. InHand'
  BY <1>2, <1>3, <1>5, <1>6 DEF InHand
<1>8. Lined' /\ AtTheEnd'
  BY <1>2, <1>5, SameTable DEF AtTheEnd
<1> QED
  BY <1>4, <1>7, <1>8 DEF CutInv

\* Where PZ_COPYDATA is in the data of the items.
LEMMA Place ==
  ASSUME IInv, Cursor, NextItem <= Len(ig)
  PROVE  /\ NextItem \in 1 .. Len(ig) /\ Whence \in Nat /\ Rest \in Nat
         /\ Whence + Rest = ig[NextItem]
         /\ Done = BytesUpTo(NextItem - 1) + Whence
<1>1. ig \in Seq(Nat) /\ itm \in Nat /\ remain \in Nat /\ ioff \in Nat
  BY DEF IInv, TypeOK
<1>2. PICK l \in Nat : l = Len(ig)
  BY <1>1, LenProperties
<1>3. CASE remain = 0
  <2>1. NextItem = itm + 1 /\ Whence = 0
    BY <1>3 DEF NextItem, Whence
  <2>2. itm + 1 \in 1 .. l /\ itm + 1 - 1 = itm
    BY <1>1, <1>2, <2>1
  <2>3. PICK i \in 1 .. l : i = itm + 1
    BY <2>2
  <2>4. ig[i] \in Nat
    BY <1>1, <1>2, ElementOfSeq
  <2>5. Rest = ig[i]
    BY <1>3, <2>1, <2>3 DEF Rest
  <2>6. Done = BytesUpTo(itm) /\ BytesUpTo(itm) \in Nat
    <3>1. itm \in 0 .. Len(ig)
      BY DEF Cursor
    <3>2. BytesUpTo(itm) \in Nat
      BY <1>1, <3>1, UpTo
    <3> QED
      BY <1>3, <3>2 DEF Done
  <2>7. NextItem = i /\ i - 1 = itm
    BY <1>1, <2>1, <2>3
  <2> QED
    BY <1>2, <2>1, <2>4, <2>5, <2>6, <2>7
<1>4. CASE remain # 0
  <2>1. NextItem = itm /\ Whence = ioff /\ Rest = remain /\ ioff + remain = ig[itm] /\ itm # 0
    BY <1>4 DEF NextItem, Whence, Rest, Cursor
  <2>2. itm \in 1 .. Len(ig) /\ itm - 1 \in 0 .. Len(ig)
    BY <1>1, <1>2, <2>1 DEF Cursor
  <2>3. BytesUpTo(itm) = BytesUpTo(itm - 1) + ig[itm] /\ BytesUpTo(itm - 1) \in Nat
    BY <1>1, <2>2, UpTo
  <2>4. PICK a, b \in Nat : a = BytesUpTo(itm - 1) /\ b = BytesUpTo(itm) /\ b = a + ioff + remain
    BY <1>1, <2>1, <2>3
  <2>5. Done = a + ioff
    BY <1>1, <2>4 DEF Done
  <2> QED
    BY <1>1, <2>1, <2>2, <2>4, <2>5
<1> QED
  BY <1>3, <1>4

\* The arithmetic of a copy.
LEMMA Reckoned ==
  \A a, b, g, h, n, r, v, w \in Nat :
    w + r = g /\ b = a + g /\ b <= h /\ v = a + w /\ n <= r => v + n <= h /\ b - (r - n) = v + n
OBVIOUS

\* The bytes it copies are the next ones.
LEMMA NextBytes ==
  ASSUME IInv, Cursor, NextItem <= Len(ig), NEW n \in Nat, n <= Rest
  PROVE  /\ Done + n <= heap_len
         /\ BytesUpTo(NextItem) - (Rest - n) = Done + n
         /\ \A k \in 1 .. n : Data[Done + k] = <<NextItem, Whence + k>>
<1>1. ig \in Seq(Nat)
  BY DEF IInv, TypeOK
<1>2. PICK i \in 1 .. Len(ig) : i = NextItem
  BY Place
<1>3. PICK w, r, g \in Nat : w = Whence /\ r = Rest /\ g = ig[i] /\ w + r = g
  BY <1>2, Place
<1>4. i \in 0 .. Len(ig) /\ i - 1 \in 0 .. Len(ig)
  BY <1>1, LenProperties
<1>5. PICK a, b \in Nat : a = BytesUpTo(i - 1) /\ b = BytesUpTo(i) /\ b = a + g /\ b <= heap_len
  <2>1. BytesUpTo(i - 1) \in Nat /\ BytesUpTo(i) \in Nat /\ BytesUpTo(i) <= heap_len
    BY <1>1, <1>4, UpTo
  <2>2. BytesUpTo(i) = BytesUpTo(i - 1) + g
    BY <1>1, <1>3, UpTo
  <2> QED
    BY <2>1, <2>2, Zenon
<1>6. Done = a + w
  BY <1>2, <1>3, <1>5, Place
<1>7. heap_len \in Nat
  BY DoneIs
<1>8. Done + n <= heap_len /\ b - (r - n) = Done + n
  <2>1. PICK h, v \in Nat : h = heap_len /\ v = Done /\ v = a + w /\ b <= h
    BY <1>5, <1>6, <1>7, DoneIs
  <2>2. n <= r
    BY <1>3
  <2>3. v + n <= h /\ b - (r - n) = v + n
    <3>1. w + r = g /\ b = a + g /\ b <= h /\ v = a + w /\ n <= r
      BY <1>3, <1>5, <2>1, <2>2
    <3> QED
      BY <3>1, Reckoned
  <2> QED
    BY <2>1, <2>3
<1>9. ASSUME NEW k \in 1 .. n PROVE Data[Done + k] = <<i, w + k>>
  <2>1. PICK j \in 1 .. g : j = w + k
    BY <1>3
  <2>2. Data[a + j] = <<i, j>>
    BY <1>1, <1>3, <1>5, DataIs
  <2>3. a + j = Done + k
    BY <1>6, <2>1
  <2> QED
    BY <2>1, <2>2, <2>3
<1> QED
  BY <1>2, <1>3, <1>5, <1>8, <1>9

\* The packet x has the bytes e after d.
Grown(x, o, d, e) ==
  /\ x.off = o /\ x.data = d \o e /\ x.len = Len(d) + Len(e)
  /\ o + Len(d) + Len(e) <= heap_len
  /\ \A k \in 1 .. Len(d) : d[k] = Data[o + k]
  /\ \A k \in 1 .. Len(e) : e[k] = Data[o + Len(d) + k]

\* A place behind the first m is one of the n that follow.
LEMMA After ==
  \A m, n \in Nat : \A k \in 1 .. m + n : k > m => k - m \in 1 .. n
OBVIOUS

\* The packet after the copy.
LEMMA RightGrown ==
  \A d, e \in Seq(Byte) : \A o \in Nat : \A x : Grown(x, o, d, e) => Right(x)
<1> SUFFICES ASSUME NEW d \in Seq(Byte), NEW e \in Seq(Byte), NEW o \in Nat, NEW x,
                    Grown(x, o, d, e)
             PROVE  Right(x)
  OBVIOUS
<1>0. PICK m, n \in Nat : m = Len(d) /\ n = Len(e)
  BY LenProperties
<1>g. /\ x.off = o /\ x.data = d \o e /\ x.len = m + n /\ o + m + n <= heap_len
      /\ \A k \in 1 .. m : d[k] = Data[o + k]
      /\ \A k \in 1 .. n : e[k] = Data[o + m + k]
  BY <1>0 DEF Grown
<1>1. PICK z : z = d \o e
  OBVIOUS
<1>2. /\ z \in Seq(Byte) /\ Len(z) = m + n
      /\ \A k \in 1 .. m + n : z[k] = IF k <= m THEN d[k] ELSE e[k - m]
  BY <1>0, <1>1, ConcatProperties
<1>3. ASSUME NEW k \in 1 .. m + n PROVE z[k] = Data[o + k]
  <2>1. CASE k <= m
    <3>1. PICK j \in 1 .. m : j = k
      BY <2>1
    <3>2. z[k] = d[j]
      BY <1>2, <2>1, <3>1
    <3> QED
      BY <1>g, <3>1, <3>2
  <2>2. CASE ~(k <= m)
    <3>0. k > m
      BY <2>2
    <3>1. PICK j \in 1 .. n : j = k - m
      BY <3>0, After
    <3>2. z[k] = e[j]
      BY <1>2, <2>2, <3>1
    <3>3. o + m + j = o + k
      BY <3>1
    <3>4. e[j] = Data[o + m + j]
      BY <1>g
    <3> QED
      BY <3>2, <3>3, <3>4
  <2> QED
    BY <2>1, <2>2
<1>4. x.off + Len(x.data) <= heap_len
  <2>1. o + (m + n) = o + m + n
    OBVIOUS
  <2> QED
    BY <1>g, <1>1, <1>2, <2>1
<1> QED
  BY <1>g, <1>1, <1>2, <1>3, <1>4 DEF Right

\* The bytes of an item, one by one.
LEMMA BytesAre ==
  ASSUME NEW i \in Nat, NEW w \in Nat, NEW n \in Nat
  PROVE  /\ Bytes(i, w, n) \in Seq(Byte) /\ Len(Bytes(i, w, n)) = n
         /\ \A k \in 1 .. n : Bytes(i, w, n)[k] = <<i, w + k>>
<1>1. PICK e : e = Bytes(i, w, n)
  OBVIOUS
<1>2. e = [k \in 1 .. n |-> <<i, w + k>>]
  BY <1>1 DEF Bytes
<1>3. \A k \in 1 .. n : <<i, w + k>> \in Byte
  BY DEF Byte
<1>4. e \in [1 .. n -> Byte]
  BY <1>2, <1>3
<1>5. e \in Seq(Byte) /\ Len(e) = n
  BY <1>4
<1> QED
  BY <1>1, <1>2, <1>5

\* PZ_COPYDATA: the packet grows by the bytes that come next.
LEMMA CopyCut ==
  ASSUME IInv, CutInv, CopyData
  PROVE  CutInv'
<1> DEFINE full == At + Rest >= pkt_size
           n == IF full THEN Least(Rest, pkt_size - At) ELSE Rest
<1>1. CutType /\ Cursor /\ Counted /\ InHand
  BY DEF CutInv
<1>2. /\ ig \in Seq(Nat) /\ pkt_size \in Nat /\ itm \in Nat
      /\ off \in Nat /\ p.data \in Seq(Byte) /\ state = "copydata"
      /\ off < pkt_size /\ off = didcopy /\ Len(p.data) = off
      /\ remain # 0 => off = 0
  BY DEF CopyData, IInv, TypeOK, FillInv, Filling
<1>3. /\ NextItem <= Len(ig)
      /\ NextItem \in 1 .. Len(ig) /\ Whence \in Nat /\ Rest \in Nat
      /\ Whence + Rest = ig[NextItem]
  BY <1>1, Place DEF CopyData
<1>4. At = off
  BY <1>2 DEF At
<1>5. /\ n \in Nat /\ n <= Rest
      /\ full => off + n = pkt_size
      /\ ~full => n = Rest
  BY <1>2, <1>3, <1>4 DEF Least
<1>6. /\ p' = [p EXCEPT !.data = SubSeq(p.data, 1, off) \o Bytes(NextItem, Whence, n),
                        !.len = off + n]
      /\ count' = count - n /\ ioff' = Whence + n
      /\ remain' = Rest - n
      /\ state' = IF full \/ count = n THEN "hashpacket" ELSE "copydata"
      /\ itm' = NextItem /\ UNCHANGED <<ig, pkt_size, held, nitems, payload_off, t_os>>
  BY <1>2, <1>4 DEF CopyData
<1> HIDE DEF n, full
<1>7. PICK e \in Seq(Byte) :
        /\ e = Bytes(NextItem, Whence, n) /\ Len(e) = n
        /\ \A k \in 1 .. n : e[k] = <<NextItem, Whence + k>>
  <2>1. NextItem \in Nat
    BY <1>3
  <2>2. /\ Bytes(NextItem, Whence, n) \in Seq(Byte) /\ Len(Bytes(NextItem, Whence, n)) = n
        /\ \A k \in 1 .. n : Bytes(NextItem, Whence, n)[k] = <<NextItem, Whence + k>>
    BY <1>3, <1>5, <2>1, BytesAre
  <2> QED
    BY <2>2, Zenon
<1>8. PICK d \in Seq(Byte) : d = p.data /\ Len(d) = off /\ SubSeq(d, 1, off) = d
  <2>1. PICK d \in Seq(Byte) : d = p.data
    BY <1>2
  <2>2. Len(d) = off
    BY <1>2, <2>1
  <2>3. SubSeq(d, 1, off) = d
    BY <2>2
  <2> QED
    BY <2>1, <2>2, <2>3
<1>9. /\ p'.data = d \o e /\ p'.len = off + n /\ p'.off = p.off /\ p'.items = p.items
      /\ p' \in CutPacket
  <2>1. d \o e \in Seq(Byte) /\ off + n \in Nat
    BY <1>2, <1>5, ConcatProperties
  <2>2. p \in CutPacket
    BY <1>1 DEF CutType
  <2>3. p' = [p EXCEPT !.data = d \o e, !.len = off + n]
    BY <1>6, <1>7, <1>8
  <2> QED
    BY <2>1, <2>2, <2>3 DEF CutPacket
<1>10. /\ held /\ p.off = payload_off /\ Done = payload_off + off /\ Right(p)
       /\ p.items = ItemsOf(p) /\ payload_off \in Nat
  BY <1>1, <1>2 DEF InHand, CutType
<1>11. /\ Done + n <= heap_len
       /\ BytesUpTo(NextItem) - (Rest - n) = Done + n
       /\ \A k \in 1 .. n : Data[Done + k] = <<NextItem, Whence + k>>
  BY <1>1, <1>3, <1>5, NextBytes
<1>12. Done' = Done + n
  <2>1. \A i : BytesUpTo(i)' = BytesUpTo(i)
    BY <1>6, SameGroup
  <2>2. Done' = BytesUpTo(NextItem) - (Rest - n)
    <3>1. BytesUpTo(itm)' = BytesUpTo(itm')
      <4>1. ig' = ig
        BY <1>6
      <4> QED
        BY <4>1, Zenon DEF BytesUpTo, FoldLeft, MapThenFoldSet
    <3> QED
      BY <1>6, <3>1 DEF Done
  <2> QED
    BY <1>11, <2>2
<1>13. CutType'
  BY <1>1, <1>5, <1>6, <1>9 DEF CutType
<1>14. Cursor'
  <2>1. NextItem \in 0 .. Len(ig) /\ NextItem # 0
    BY <1>3
  <2>2. Whence + n + (Rest - n) = Whence + Rest
    BY <1>3, <1>5
  <2> QED
    BY <1>3, <1>6, <2>1, <2>2 DEF Cursor
<1>15. Counted'
  <2>1. nitems = 4 /\ count = heap_len - Done
    BY <1>1, <1>2 DEF Counted
  <2>2. heap_len' = heap_len /\ heap_len \in Nat /\ Done \in Nat
    BY <1>1, <1>6, SameGroup, DoneIs
  <2>3. count' = heap_len - (Done + n)
    BY <1>5, <1>6, <2>1, <2>2
  <2> QED
    BY <1>6, <1>12, <2>1, <2>2, <2>3 DEF Counted
<1>16. InHand'
  <2>1. PICK x : x = p'
    OBVIOUS
  <2>2. Right(x)
    <3>1. \A k \in 1 .. off : d[k] = Data[payload_off + k]
      BY <1>8, <1>10 DEF Right
    <3>2. \A k \in 1 .. n : e[k] = Data[payload_off + off + k]
      BY <1>7, <1>10, <1>11
    <3>3. payload_off + off + n <= heap_len
      BY <1>10, <1>11
    <3>4. x.off = payload_off /\ x.data = d \o e /\ x.len = off + n
      BY <1>9, <1>10, <2>1
    <3>5. Grown(x, payload_off, d, e)
      BY <1>7, <1>8, <3>1, <3>2, <3>3, <3>4 DEF Grown
    <3> QED
      BY <1>10, <3>5, RightGrown, Zenon
  <2>3. x.items = ItemsOf(x)
    BY <1>9, <1>10, <2>1 DEF ItemsOf
  <2>4. Right(p)' /\ (p.items = ItemsOf(p))'
    BY <1>6, <2>1, <2>2, <2>3, SameThen
  <2>5. Len(p'.data) = off + n
    <3>1. Len(d \o e) = Len(d) + Len(e)
      BY ConcatProperties
    <3> QED
      BY <1>7, <1>8, <1>9, <3>1
  <2>6. Done' = payload_off + Len(p'.data)
    BY <1>2, <1>5, <1>10, <1>12, <2>5
  <2>7. state' = "hashpacket" => Len(p'.data) = pkt_size \/ (count' = 0 /\ remain' = 0)
    <3>1. CASE full
      BY <1>5, <2>5, <3>1
    <3>2. CASE ~full
      <4>1. n = Rest /\ (state' = "hashpacket" => count = n)
        BY <1>5, <1>6, <3>2
      <4> QED
        BY <1>3, <1>5, <1>6, <4>1
    <3> QED
      BY <3>1, <3>2
  <2> QED
    BY <1>6, <1>9, <1>10, <2>4, <2>6, <2>7 DEF InHand
<1>17. Lined' /\ AtTheEnd'
  <2>1. state' # "end" /\ state # "end"
    BY <1>2, <1>6
  <2> QED
    BY <1>6, <2>1, SameTable DEF AtTheEnd
<1> QED
  BY <1>13, <1>14, <1>15, <1>16, <1>17 DEF CutInv

\* The packet x comes next in line.
LEMMA NextInLine ==
  ASSUME NEW c \in Seq(CutPacket), NEW x \in CutPacket, pkt_size \in Nat,
         InLine(c, Len(c)), x.off = Len(c) * pkt_size, Right(x), x.items = ItemsOf(x)
  PROVE  /\ Append(c, x) \in Seq(CutPacket) /\ Len(Append(c, x)) = Len(c) + 1
         /\ Append(c, x)[Len(c) + 1] = x
         /\ InLine(Append(c, x), Len(c))
         /\ x.len = pkt_size => InLine(Append(c, x), Len(c) + 1)
<1>1. PICK d : d = Append(c, x)
  OBVIOUS
<1>2. PICK l \in Nat : l = Len(c)
  BY LenProperties
<1>3. /\ d \in Seq(CutPacket) /\ Len(d) = l + 1 /\ d[l + 1] = x
      /\ \A i \in 1 .. l : d[i] = c[i]
  BY <1>1, <1>2, AppendProperties
<1>4. /\ \A i \in 1 .. l : c[i].off = (i - 1) * pkt_size /\ Right(c[i]) /\ c[i].items = ItemsOf(c[i])
      /\ \A i \in 1 .. l : c[i].len = pkt_size
  BY <1>2 DEF InLine
<1>5. ASSUME NEW i \in 1 .. l + 1
      PROVE  /\ d[i].off = (i - 1) * pkt_size /\ Right(d[i]) /\ d[i].items = ItemsOf(d[i])
             /\ i # l + 1 => d[i].len = pkt_size
  <2>1. CASE i = l + 1
    <3>1. i - 1 = l /\ d[i] = x
      BY <1>3, <2>1
    <3> QED
      BY <1>2, <2>1, <3>1
  <2>2. CASE i # l + 1
    <3>1. i \in 1 .. l
      BY <2>2
    <3>2. d[i] = c[i]
      BY <1>3, <3>1
    <3> QED
      BY <1>4, <3>1, <3>2
  <2> QED
    BY <2>1, <2>2
<1>6. \A i \in 1 .. l : i \in 1 .. l + 1 /\ i # l + 1
  OBVIOUS
<1>7. InLine(d, l)
  BY <1>3, <1>5, <1>6 DEF InLine
<1>8. x.len = pkt_size => InLine(d, l + 1)
  BY <1>3, <1>5 DEF InLine
<1> QED
  BY <1>1, <1>2, <1>3, <1>7, <1>8

\* The packet in hand becomes the last one that is traversed.
LEMMA HashedLast ==
  ASSUME IInv, CutInv, HashPacket
  PROVE  /\ t_os' \in [0 .. TableLen - 1 -> Seq(CutPacket)]
         /\ t_os' = AddO(t_os, HashFn(TableLen, payload_off, heap_len), p)
         /\ HashFn(TableLen, payload_off, heap_len) \in 0 .. TableLen - 1
         /\ Chained' = Append(Chained, p)
<1>1. CutType /\ Cursor /\ Counted /\ InHand
  BY DEF CutInv
<1>2. /\ state = "hashpacket"
      /\ t_os' = AddO(t_os, HashFn(TableLen, p.off, heap_len), p)
      /\ UNCHANGED <<ig, pkt_size, itm, p, nitems, count, ioff, remain>>
      /\ \/ state' = "end" /\ count = 0 /\ remain = 0 /\ payload_off' = payload_off
         \/ state' = "getpacket" /\ ~(count = 0 /\ remain = 0) /\ payload_off' = payload_off + pkt_size
  BY DEF HashPacket
<1>3. /\ p.off = payload_off /\ Done = payload_off + Len(p.data) /\ Right(p) /\ p.items = ItemsOf(p)
      /\ Len(p.data) = pkt_size \/ (count = 0 /\ remain = 0)
  BY <1>1, <1>2 DEF InHand
<1>4. /\ pkt_size \in Nat /\ pkt_size > 0 /\ payload_off \in Nat /\ p \in CutPacket
      /\ t_os \in [0 .. TableLen - 1 -> Seq(CutPacket)]
      /\ p.len = Len(p.data) /\ Len(p.data) \in Nat
  <2>1. pkt_size \in Nat \ {0} /\ p.data \in Seq(Byte)
    BY DEF IInv, TypeOK
  <2> QED
    BY <1>1, <1>3, <2>1, LenProperties DEF CutType, Right
<1>5. /\ InLine(Chained, Len(Chained)) /\ payload_off = Len(Chained) * pkt_size
      /\ \A b \in 0 .. TableLen - 1 : b > HashFn(TableLen, payload_off, heap_len) => t_os[b] = <<>>
  BY <1>2 DEF CutInv, Lined
<1>6. /\ heap_len \in Nat /\ Done \in Nat /\ Done <= heap_len /\ TableLen \in Nat \ {0}
  BY <1>1, DoneIs, PacketizeAssumption
<1>7. PICK id \in 0 .. TableLen - 1 : id = HashFn(TableLen, payload_off, heap_len)
  <2>1. payload_off <= heap_len
    BY <1>3, <1>4, <1>6
  <2> QED
    BY <1>4, <1>6, <2>1, Buckets
<1>8. PICK c \in Seq(CutPacket) : c = Chained
  BY <1>1, ChainedType
<1>9. /\ t_os' \in [0 .. TableLen - 1 -> Seq(CutPacket)]
      /\ t_os' = AddO(t_os, id, p)
      /\ InOrder(AddO(t_os, id, p)) = Append(InOrder(t_os), p)
  <2>1. \A b \in 0 .. TableLen - 1 : b > id => t_os[b] = <<>>
    BY <1>5, <1>7
  <2>2. t_os' = AddO(t_os, id, p)
    BY <1>2, <1>3, <1>7
  <2> QED
    <3>1. /\ AddO(t_os, id, p) \in [0 .. TableLen - 1 -> Seq(CutPacket)]
          /\ InOrder(AddO(t_os, id, p)) = Append(InOrder(t_os), p)
      <4>1. NoneBehind(t_os, id)
        BY <2>1 DEF NoneBehind
      <4>2. WithLast(AddO(t_os, id, p), t_os, p, CutPacket)
        BY <1>4, <4>1, AddedLast, Zenon
      <4> QED
        BY <4>2 DEF WithLast
    <3> QED
      BY <2>2, <3>1, Zenon
<1>10. Chained' = Append(c, p)
  <2>1. InOrder(t_os)' = InOrder(t_os')
    OBVIOUS
  <2> QED
    BY <1>8, <1>9 DEF Chained
<1> QED
  BY <1>7, <1>8, <1>9, <1>10

\* PZ_HASHPACKET: the packet in hand is put behind all others, whatever the bucket.
LEMMA HashStep ==
  ASSUME IInv, CutInv, HashPacket
  PROVE  CutInv'
<1>1. CutType /\ Cursor /\ Counted /\ InHand
  BY DEF CutInv
<1>2. /\ state = "hashpacket"
      /\ t_os' = AddO(t_os, HashFn(TableLen, p.off, heap_len), p)
      /\ UNCHANGED <<ig, pkt_size, itm, p, nitems, count, ioff, remain>>
      /\ \/ state' = "end" /\ count = 0 /\ remain = 0 /\ payload_off' = payload_off
         \/ state' = "getpacket" /\ ~(count = 0 /\ remain = 0) /\ payload_off' = payload_off + pkt_size
  BY DEF HashPacket
<1>3. /\ p.off = payload_off /\ Done = payload_off + Len(p.data) /\ Right(p) /\ p.items = ItemsOf(p)
      /\ Len(p.data) = pkt_size \/ (count = 0 /\ remain = 0)
  BY <1>1, <1>2 DEF InHand
<1>4. /\ pkt_size \in Nat /\ pkt_size > 0 /\ payload_off \in Nat /\ p \in CutPacket
      /\ t_os \in [0 .. TableLen - 1 -> Seq(CutPacket)]
      /\ p.len = Len(p.data) /\ Len(p.data) \in Nat
  <2>1. pkt_size \in Nat \ {0} /\ p.data \in Seq(Byte)
    BY DEF IInv, TypeOK
  <2> QED
    BY <1>1, <1>3, <2>1, LenProperties DEF CutType, Right
<1>5. /\ InLine(Chained, Len(Chained)) /\ payload_off = Len(Chained) * pkt_size
      /\ \A b \in 0 .. TableLen - 1 : b > HashFn(TableLen, payload_off, heap_len) => t_os[b] = <<>>
  BY <1>2 DEF CutInv, Lined
<1>6. /\ heap_len \in Nat /\ Done \in Nat /\ Done <= heap_len /\ TableLen \in Nat \ {0}
  BY <1>1, DoneIs, PacketizeAssumption
<1>7. PICK id \in 0 .. TableLen - 1 : id = HashFn(TableLen, payload_off, heap_len)
  <2>1. payload_off <= heap_len
    BY <1>3, <1>4, <1>6
  <2> QED
    BY <1>4, <1>6, <2>1, Buckets
<1>8. PICK c \in Seq(CutPacket) : c = Chained
  BY <1>1, ChainedType
<1>9. t_os' \in [0 .. TableLen - 1 -> Seq(CutPacket)] /\ t_os' = AddO(t_os, id, p)
  BY <1>7, HashedLast
<1>10. Chained' = Append(c, p)
  BY <1>8, HashedLast
<1>11. PICK d, x : d = Append(c, p) /\ x = p
  OBVIOUS
<1>12. PICK l \in Nat : l = Len(c)
  BY LenProperties
<1>13. /\ d \in Seq(CutPacket) /\ Len(d) = l + 1 /\ d[l + 1] = x
       /\ InLine(d, l)
       /\ p.len = pkt_size => InLine(d, l + 1)
  BY <1>3, <1>4, <1>5, <1>8, <1>11, <1>12, NextInLine
<1>14. Done' = Done
  BY <1>2, SameGroup DEF Done
<1>15. CutType'
  <2>1. payload_off' \in Nat
    BY <1>2, <1>4
  <2> QED
    BY <1>1, <1>2, <1>9, <2>1 DEF CutType
<1>16. Cursor'
  BY <1>1, <1>2 DEF Cursor
<1>17. nitems = 4 /\ count = heap_len - Done
  BY <1>1, <1>2 DEF Counted
<1>18. Counted'
  <2>1. state' = "getpacket" => Done' = payload_off' /\ payload_off' > 0
    <3>1. SUFFICES ASSUME state' = "getpacket"
                   PROVE  Done' = payload_off' /\ payload_off' > 0
      OBVIOUS
    <3>2. payload_off' = payload_off + pkt_size /\ Len(p.data) = pkt_size
      BY <1>2, <1>3, <3>1
    <3>3. payload_off + pkt_size > 0
      BY <1>4
    <3> QED
      BY <1>3, <1>14, <3>2, <3>3
  <2>2. heap_len' = heap_len
    BY <1>2, SameGroup
  <2> QED
    BY <1>2, <1>14, <1>17, <2>1, <2>2 DEF Counted
<1>19. InHand'
  BY <1>2 DEF InHand
<1>20. Lined'
  <2>1. SUFFICES ASSUME state' # "end" PROVE Lined'
    BY DEF Lined
  <2>2. payload_off' = payload_off + pkt_size /\ Len(p.data) = pkt_size
    BY <1>2, <1>3, <2>1
  <2>3. InLine(Chained, Len(Chained))'
    <3>1. InLine(d, Len(d)) /\ d = Chained'
      BY <1>4, <1>10, <1>11, <1>13, <2>2
    <3> QED
      BY <1>2, <3>1, SameLine
  <2>4. payload_off' = Len(Chained') * pkt_size'
    <3>1. payload_off' = l * pkt_size + pkt_size
      BY <1>5, <1>8, <1>12, <2>2
    <3>2. l * pkt_size + pkt_size = (l + 1) * pkt_size
      BY <1>4
    <3> QED
      BY <1>2, <1>10, <1>11, <1>13, <3>1, <3>2
  <2>5. ASSUME NEW b \in 0 .. TableLen - 1, b > HashFn(TableLen, payload_off, heap_len)'
        PROVE  t_os'[b] = <<>>
    <3>1. PICK e : e = HashFn(TableLen, payload_off + pkt_size, heap_len)
      OBVIOUS
    <3>2. e \in Nat /\ id <= e
      <4>1. payload_off + pkt_size \in Nat /\ payload_off <= payload_off + pkt_size
        BY <1>4
      <4> QED
        BY <1>4, <1>6, <1>7, <3>1, <4>1, Buckets
    <3>3. b > e
      <4>1. heap_len' = heap_len
        BY <1>2, SameGroup
      <4> QED
        BY <2>2, <2>5, <3>1, <4>1
    <3>4. b > id /\ b # id
      BY <3>2, <3>3
    <3>5. t_os'[b] = t_os[b]
      BY <1>4, <1>9, <3>4 DEF AddO
    <3> QED
      BY <1>5, <1>7, <3>4, <3>5
  <2> QED
    BY <2>3, <2>4, <2>5 DEF Lined
<1>21. AtTheEnd'
  <2>1. SUFFICES ASSUME state' = "end" PROVE AtTheEnd'
    BY DEF AtTheEnd
  <2>2. InLine(Chained, Len(Chained) - 1)'
    <3>1. InLine(d, Len(d) - 1) /\ d = Chained'
      <4>1. Len(d) - 1 = l
        BY <1>13
      <4> QED
        BY <1>10, <1>11, <1>13, <4>1
    <3> QED
      BY <1>2, <3>1, SameLine
  <2>3. Done = heap_len
    BY <1>2, <1>6, <1>17, <2>1
  <2>4. l * pkt_size + x.len = heap_len
    BY <1>3, <1>4, <1>5, <1>8, <1>11, <1>12, <2>3
  <2>5. d # <<>> /\ (Len(d) - 1) * pkt_size + d[Len(d)].len = heap_len
    <3>1. Len(d) - 1 = l /\ Len(d) # 0
      BY <1>13
    <3> QED
      BY <1>13, <2>4, <3>1
  <2>6. heap_len' = heap_len
    BY <1>2, SameGroup
  <2> QED
    BY <1>2, <1>10, <1>11, <2>2, <2>5, <2>6 DEF AtTheEnd
<1> QED
  BY <1>15, <1>16, <1>18, <1>19, <1>20, <1>21 DEF CutInv

\* Every step keeps it.
LEMMA CutStep == IInv /\ CutInv /\ [PacketizeNext]_pvars => CutInv'
<1> SUFFICES ASSUME IInv, CutInv, [PacketizeNext]_pvars PROVE CutInv'
  OBVIOUS
<1>1. CASE UNCHANGED pvars
  <2>1. UNCHANGED <<ig, pkt_size, state, itm, p, held, nitems, count, payload_off, ioff, remain,
                    s_list, t_os>>
    BY <1>1 DEF pvars
  <2>2. Done' = Done /\ Chained' = Chained /\ heap_len' = heap_len
    BY <2>1, SameGroup DEF Done, Chained
  <2>3. PICK x, c : x = p /\ c = Chained
    OBVIOUS
  <2>4. /\ Right(x) => Right(p)'
        /\ x.items = ItemsOf(x) => (p.items = ItemsOf(p))'
        /\ InLine(c, Len(c)) => InLine(Chained, Len(Chained))'
        /\ InLine(c, Len(c) - 1) => InLine(Chained, Len(Chained) - 1)'
    BY <2>1, <2>2, <2>3, SameThen, SameLine
  <2>5. CutType' /\ Cursor' /\ Counted'
    BY <2>1, <2>2 DEF CutInv, CutType, Cursor, Counted
  <2>6. InHand'
    BY <2>1, <2>2, <2>3, <2>4 DEF CutInv, InHand
  <2>7. Lined'
    BY <2>1, <2>2, <2>3, <2>4 DEF CutInv, Lined
  <2>8. AtTheEnd'
    BY <2>1, <2>2, <2>3, <2>4 DEF CutInv, AtTheEnd
  <2> QED
    BY <2>5, <2>6, <2>7, <2>8 DEF CutInv
<1> QED
  BY <1>1, GetStep, DryStep, AddStep, PacketInitStep, CopyCut, HashStep DEF PacketizeNext

\* Which of the sequences that at divides a number falls into.
LEMMA Between ==
  ASSUME NEW n \in Nat, NEW at \in [0 .. n -> Nat], at[0] = 0, NEW q \in 1 .. at[n]
  PROVE  \E i \in 1 .. n : at[i - 1] < q /\ q <= at[i]
<1>1. PICK T : T = {i \in 0 .. n : q <= at[i]}
  OBVIOUS
<1>2. T \in SUBSET Nat /\ n \in T
  BY <1>1
<1>3. PICK m \in T : \A j \in T : m <= j
  BY <1>2, LeastNumber
<1>4. m \in 0 .. n /\ q <= at[m]
  BY <1>1, <1>3
<1>5. m # 0
  <2>1. q \in Nat /\ 1 <= q
    <3>1. n \in 0 .. n
      OBVIOUS
    <3> QED
      BY <3>1
  <2> QED
    BY <1>4, <2>1
<1>6. m \in 1 .. n /\ m - 1 \in 0 .. n
  BY <1>4, <1>5
<1>7. ~(q <= at[m - 1])
  <2>1. SUFFICES ASSUME q <= at[m - 1] PROVE FALSE
    OBVIOUS
  <2>2. m - 1 \in T
    BY <1>1, <1>6, <2>1
  <2> QED
    BY <1>3, <1>6, <2>2
<1>8. at[m - 1] \in Nat /\ q \in Int
  BY <1>6
<1> QED
  BY <1>4, <1>6, <1>7, <1>8

\* A number between a and a + l is so many places behind a.
LEMMA InBetween ==
  \A a, l, q \in Nat : a < q /\ q <= a + l => \E k \in 1 .. l : a + k = q
<1> TAKE a, l, q \in Nat
<1> HAVE a < q /\ q <= a + l
<1>1. q - a \in 1 .. l /\ a + (q - a) = q
  OBVIOUS
<1> QED
  BY <1>1

\* A sequence that agrees with the beginning of another is that beginning.
LEMMA SameUpTo ==
  ASSUME NEW S, NEW t \in Seq(S), NEW u \in Seq(S), Len(t) <= Len(u),
         \A q \in 1 .. Len(t) : t[q] = u[q]
  PROVE  t = SubSeq(u, 1, Len(t))
<1>1. PICK m \in Nat : m = Len(t)
  BY LenProperties
<1>2. PICK v : v = SubSeq(u, 1, m)
  OBVIOUS
<1>3. v \in Seq(S) /\ Len(v) = m /\ \A q \in 1 .. m : v[q] = u[q]
  BY <1>1, <1>2
<1>4. \A q \in 1 .. m : t[q] = v[q]
  BY <1>1, <1>3
<1>5. t = v
  BY <1>1, <1>3, <1>4, SeqEqual
<1> QED
  BY <1>1, <1>2, <1>5

\* The packets c in line carry a beginning of the data.
LEMMA LineCarries ==
  ASSUME ig \in Seq(Nat), pkt_size \in Nat, heap_len \in Nat,
         NEW c \in Seq(CutPacket), InLine(c, Len(c) - 1), NEW out,
         out = FlattenSeq([i \in DOMAIN c |-> c[i].data])
  PROVE  /\ out = SubSeq(Data, 1, Len(out))
         /\ c # <<>> => Len(out) = (Len(c) - 1) * pkt_size + c[Len(c)].len
<1>1. PICK n \in Nat : n = Len(c) /\ DOMAIN c = 1 .. n
  BY LenProperties
<1>2. PICK s : s = [i \in DOMAIN c |-> c[i].data]
  OBVIOUS
<1>3. ASSUME NEW i \in 1 .. n
      PROVE  /\ s[i] = c[i].data /\ s[i] \in Seq(Byte) /\ Len(s[i]) = c[i].len
             /\ c[i].len \in Nat /\ c[i].off = (i - 1) * pkt_size /\ Right(c[i])
  <2>1. c[i] \in CutPacket
    BY <1>1, ElementOfSeq
  <2>2. s[i] = c[i].data /\ s[i] \in Seq(Byte)
    BY <1>1, <1>2, <2>1 DEF CutPacket
  <2>3. c[i].off = (i - 1) * pkt_size /\ Right(c[i])
    BY <1>1 DEF InLine
  <2>4. c[i].len \in Nat
    BY <2>1 DEF CutPacket
  <2> QED
    BY <2>2, <2>3, <2>4 DEF Right
<1>4. s \in Seq(Seq(Byte)) /\ Len(s) = n
  <2>1. s = [i \in 1 .. n |-> s[i]]
    BY <1>1, <1>2
  <2>2. s \in [1 .. n -> Seq(Byte)]
    BY <1>3, <2>1
  <2> QED
    BY <2>2
<1>5. \A i \in 1 .. n - 1 : c[i].len = pkt_size
  BY <1>1 DEF InLine
<1>6. PICK at : at = [i \in 0 .. n |-> IF i = 0 THEN 0 ELSE (i - 1) * pkt_size + c[i].len]
  OBVIOUS
<1>7. ASSUME NEW i \in 1 .. n
      PROVE  /\ at[i] = (i - 1) * pkt_size + c[i].len /\ at[i] \in Nat
             /\ at[i - 1] = (i - 1) * pkt_size /\ at[i - 1] \in Nat
  <2>1. i \in 0 .. n /\ i # 0 /\ i - 1 \in 0 .. n
    OBVIOUS
  <2>2. PICK a \in Nat : a = (i - 1) * pkt_size
    OBVIOUS
  <2>3. at[i] = a + c[i].len
    BY <1>6, <2>1, <2>2
  <2>4. at[i - 1] = a
    <3>1. CASE i = 1
      <4>1. i - 1 = 0 /\ a = 0
        BY <2>2, <3>1
      <4>2. at[0] = 0
        BY <1>6
      <4> QED
        BY <4>1, <4>2
    <3>2. CASE i # 1
      <4>1. PICK j \in 1 .. n - 1 : j = i - 1
        BY <3>2
      <4>2. c[j].len = pkt_size
        BY <1>5
      <4>3. j \in 0 .. n /\ j # 0
        OBVIOUS
      <4>4. at[j] = (j - 1) * pkt_size + pkt_size
        BY <1>6, <4>2, <4>3
      <4>5. (j - 1) * pkt_size + pkt_size = j * pkt_size
        OBVIOUS
      <4> QED
        BY <2>2, <4>1, <4>4, <4>5
    <3> QED
      BY <3>1, <3>2
  <2>5. c[i].len \in Nat
    BY <1>3
  <2>6. a + c[i].len \in Nat
    BY <2>5
  <2> QED
    BY <2>2, <2>3, <2>4, <2>6
<1>8. at[0] = 0 /\ at \in [0 .. n -> Nat]
  <2>1. at[0] = 0
    BY <1>6
  <2>2. ASSUME NEW i \in 0 .. n PROVE at[i] \in Nat
    <3>1. CASE i = 0
      BY <2>1, <3>1
    <3>2. CASE i # 0
      <4>1. i \in 1 .. n
        BY <3>2
      <4> QED
        BY <1>7, <4>1
    <3> QED
      BY <3>1, <3>2
  <2> QED
    BY <1>6, <2>1, <2>2
<1>9. Adds(at, s, n)
  BY <1>3, <1>4, <1>7, <1>8 DEF Adds
<1>10. Joins(FlattenSeq(s), at, s, n, Byte)
  BY <1>4, <1>8, <1>9, FlattenAt, Zenon
<1>11. /\ out \in Seq(Byte) /\ Len(out) = at[n]
       /\ \A i \in 1 .. n : \A k \in 1 .. Len(s[i]) : out[at[i - 1] + k] = s[i][k]
  BY <1>2, <1>10 DEF Joins
<1>12. Data \in Seq(Byte) /\ Len(Data) = heap_len
  BY DataIs
<1>13. ASSUME NEW q \in 1 .. at[n] PROVE q <= heap_len /\ out[q] = Data[q]
  <2>1. PICK i \in 1 .. n : at[i - 1] < q /\ q <= at[i]
    BY <1>8, Between
  <2>2. PICK a, l \in Nat : a = at[i - 1] /\ l = c[i].len /\ at[i] = a + l
    BY <1>3, <1>7
  <2>3. q \in Nat
    <3>1. n \in 0 .. n
      OBVIOUS
    <3>2. at[n] \in Nat
      BY <1>8, <3>1
    <3> QED
      BY <3>2
  <2>4. PICK k \in 1 .. l : a + k = q
    <3>1. a < q /\ q <= a + l
      BY <2>1, <2>2
    <3> QED
      BY <2>3, <3>1, InBetween
  <2>5. out[q] = c[i].data[k]
    <3>1. s[i] = c[i].data /\ Len(s[i]) = l
      BY <1>3, <2>2
    <3>2. out[at[i - 1] + k] = s[i][k]
      BY <1>11, <3>1
    <3> QED
      BY <2>2, <2>4, <3>1, <3>2
  <2>6. c[i].off = a /\ a + l <= heap_len /\ c[i].data[k] = Data[a + k]
    <3>1. c[i].off = a
      BY <1>3, <1>7, <2>2
    <3>2. /\ c[i].off + Len(c[i].data) <= heap_len /\ l = Len(c[i].data)
          /\ \A m \in 1 .. Len(c[i].data) : c[i].data[m] = Data[c[i].off + m]
      BY <1>3, <2>2 DEF Right
    <3> QED
      BY <3>1, <3>2
  <2>7. q <= a + l /\ out[q] = Data[q]
    BY <2>1, <2>2, <2>4, <2>5, <2>6
  <2> QED
    <3>1. q <= heap_len
      <4>1. PICK h \in Nat : h = heap_len
        OBVIOUS
      <4>2. a + l <= h
        BY <2>6, <4>1
      <4>3. q <= a + l
        BY <2>7
      <4> QED
        BY <2>3, <4>1, <4>2, <4>3
    <3> QED
      BY <2>7, <3>1
<1>14. at[n] \in Nat /\ at[n] <= heap_len
  <2>1. at[n] \in Nat
    <3>1. n \in 0 .. n
      OBVIOUS
    <3> QED
      BY <1>8, <3>1
  <2>2. CASE at[n] = 0
    BY <2>2
  <2>3. CASE at[n] # 0
    BY <1>13, <2>1, <2>3
  <2> QED
    BY <2>1, <2>2, <2>3
<1>15. out = SubSeq(Data, 1, Len(out))
  BY <1>11, <1>12, <1>13, <1>14, SameUpTo
<1>16. c # <<>> => Len(out) = (Len(c) - 1) * pkt_size + c[Len(c)].len
  <2>1. SUFFICES ASSUME c # <<>> PROVE at[n] = (n - 1) * pkt_size + c[n].len
    BY <1>1, <1>11
  <2>2. n \in 1 .. n
    BY <1>1, <2>1, EmptySeq
  <2> QED
    BY <1>7, <2>2
<1> QED
  BY <1>15, <1>16

\* f is the g elements of d behind the first a.
Sliced(f, d, a, g, S) ==
  f \in Seq(S) /\ Len(f) = g /\ \A k \in 1 .. g : f[k] = d[a + k]

\* What SubSeq cuts out.
LEMMA Slice ==
  \A S : \A d \in Seq(S) : \A a, g \in Nat :
    a + g <= Len(d) => Sliced(SubSeq(d, a + 1, a + g), d, a, g, S)
<1> TAKE S
<1> TAKE d \in Seq(S)
<1> TAKE a, g \in Nat
<1> HAVE a + g <= Len(d)
<1>0. PICK h \in Nat : h = Len(d) /\ a + g <= h
  BY LenProperties
<1>1. PICK b, e \in Nat : b = a + 1 /\ e = a + g
  OBVIOUS
<1>2. b \in 1 .. Len(d) + 1 /\ e \in b - 1 .. Len(d) /\ e - b + 1 = g
  BY <1>0, <1>1
<1>3. /\ SubSeq(d, b, e) \in Seq(S) /\ Len(SubSeq(d, b, e)) = e - b + 1
      /\ \A k \in 1 .. e - b + 1 : SubSeq(d, b, e)[k] = d[b + k - 1]
  BY <1>2, SubSeqProperties
<1>4. \A k \in 1 .. g : b + k - 1 = a + k
  BY <1>1
<1> QED
  BY <1>1, <1>2, <1>3, <1>4 DEF Sliced

\* The data of item i, cut out of that of all.
LEMMA ItemAt ==
  ASSUME ig \in Seq(Nat), NEW i \in 1 .. Len(ig)
  PROVE  SubSeq(Data, BytesUpTo(i - 1) + 1, BytesUpTo(i - 1) + ig[i]) = Bytes(i, 0, ig[i])
<1>1. i \in Nat /\ i \in 0 .. Len(ig) /\ i - 1 \in 0 .. Len(ig)
  BY LenProperties
<1>2. PICK a, g, h \in Nat : a = BytesUpTo(i - 1) /\ g = ig[i] /\ h = heap_len /\ a + g <= h
  <2>1. ig[i] \in Nat
    BY ElementOfSeq
  <2>2. Len(ig) \in 0 .. Len(ig)
    BY LenProperties
  <2>3. BytesUpTo(i - 1) \in Nat /\ heap_len \in Nat
    BY <1>1, <2>2, UpTo DEF heap_len
  <2>4. BytesUpTo(i) = BytesUpTo(i - 1) + ig[i] /\ BytesUpTo(i) <= heap_len
    BY <1>1, UpTo
  <2> QED
    BY <2>1, <2>3, <2>4
<1>3. PICK d \in Seq(Byte) : d = Data /\ Len(d) = h /\ \A k \in 1 .. g : d[a + k] = <<i, k>>
  BY <1>2, DataIs
<1>4. PICK e \in Seq(Byte) : e = Bytes(i, 0, g) /\ Len(e) = g /\ \A k \in 1 .. g : e[k] = <<i, 0 + k>>
  <2>1. /\ Bytes(i, 0, g) \in Seq(Byte) /\ Len(Bytes(i, 0, g)) = g
        /\ \A k \in 1 .. g : Bytes(i, 0, g)[k] = <<i, 0 + k>>
    <3>1. 0 \in Nat
      OBVIOUS
    <3>2. i \in Nat /\ g \in Nat
      BY <1>1, <1>2, Zenon
    <3> QED
      BY <3>1, <3>2, BytesAre, Zenon
  <2> QED
    BY <2>1, Zenon
<1>5. PICK f : f = SubSeq(d, a + 1, a + g)
  OBVIOUS
<1>6. f \in Seq(Byte) /\ Len(f) = g /\ \A k \in 1 .. g : f[k] = d[a + k]
  <2>1. a + g <= Len(d)
    BY <1>2, <1>3
  <2>2. Sliced(f, d, a, g, Byte)
    BY <1>5, <2>1, Slice, Zenon
  <2> QED
    BY <2>2 DEF Sliced
<1>7. ASSUME NEW k \in 1 .. g PROVE f[k] = e[k]
  <2>1. 0 + k = k
    OBVIOUS
  <2> QED
    BY <1>3, <1>4, <1>6, <2>1
<1>8. f = e
  BY <1>4, <1>6, <1>7, SeqEqual
<1> QED
  BY <1>2, <1>3, <1>4, <1>5, <1>8

\* It implies the property.
LEMMA CutEnd == IInv /\ CutInv => CutsTheGroup
<1> SUFFICES ASSUME IInv, CutInv, state = "end" PROVE CutsTheGroup
  BY DEF CutsTheGroup
<1>1. /\ ig \in Seq(Nat) /\ pkt_size \in Nat /\ pkt_size > 0 /\ heap_len \in Nat
  BY DoneIs DEF IInv, TypeOK, CutInv
<1>2. /\ InLine(Chained, Len(Chained) - 1)
      /\ \/ s_list = 0 \/ held
         \/ /\ Chained # <<>>
            /\ (Len(Chained) - 1) * pkt_size + Chained[Len(Chained)].len = heap_len
  BY DEF CutInv, AtTheEnd
<1>3. PICK c \in Seq(CutPacket) : c = Chained
  BY ChainedType DEF CutInv
<1>4. PICK n \in Nat : n = Len(c) /\ DOMAIN c = 1 .. n
  BY LenProperties
<1>5. PICK out : out = FlattenSeq([i \in DOMAIN c |-> c[i].data])
  OBVIOUS
<1>6. /\ out = SubSeq(Data, 1, Len(out))
      /\ c # <<>> => Len(out) = (Len(c) - 1) * pkt_size + c[Len(c)].len
  BY <1>1, <1>2, <1>3, <1>5, LineCarries
<1>7. ASSUME NEW i \in 1 .. n
      PROVE  /\ c[i].off = (i - 1) * pkt_size /\ c[i].items = ItemsOf(c[i])
             /\ i < n => c[i].len = pkt_size
             /\ i > 1 => c[i].items = <<>>
  <2>1. c[i].off = (i - 1) * pkt_size /\ c[i].items = ItemsOf(c[i])
    BY <1>2, <1>3, <1>4 DEF InLine
  <2>2. i < n => c[i].len = pkt_size
    <3>1. i < n => i \in 1 .. n - 1
      OBVIOUS
    <3> QED
      BY <1>2, <1>3, <1>4, <3>1 DEF InLine
  <2>3. i > 1 => c[i].off # 0
    <3>1. SUFFICES ASSUME i > 1 PROVE (i - 1) * pkt_size # 0
      BY <2>1
    <3>2. PICK j \in Nat : j = i - 1 /\ j > 0
      BY <3>1
    <3>3. j * pkt_size # 0
      BY <1>1, <3>2
    <3> QED
      BY <3>2, <3>3
  <2> QED
    BY <2>1, <2>2, <2>3 DEF ItemsOf
<1>8. Len(out) = heap_len \/ s_list = 0 \/ held
  BY <1>2, <1>3, <1>6
<1>9. ASSUME c # <<>>, NEW i \in DOMAIN ig
      PROVE  c[1].items[i].off = BytesUpTo(i - 1)
  <2>1. 1 \in 1 .. n
    BY <1>4, <1>9, EmptySeq
  <2>2. c[1].off = 0
    <3>1. c[1].off = (1 - 1) * pkt_size
      BY <1>7, <2>1
    <3> QED
      BY <1>1, <3>1
  <2>3. c[1].items = [j \in 1 .. Len(ig) |-> DirectItem(j)]
    BY <1>7, <2>1, <2>2 DEF ItemsOf
  <2>4. i \in 1 .. Len(ig)
    BY <1>1, LenProperties
  <2> QED
    BY <2>3, <2>4 DEF DirectItem
<1>10. ASSUME NEW i \in DOMAIN ig
       PROVE  SubSeq(Data, BytesUpTo(i - 1) + 1, BytesUpTo(i - 1) + ig[i]) = Bytes(i, 0, ig[i])
  <2>1. i \in 1 .. Len(ig)
    BY <1>1, LenProperties
  <2> QED
    BY <1>1, <2>1, ItemAt
<1>11. PICK data : data = FlattenSeq([i \in DOMAIN ig |-> Bytes(i, 0, ig[i])]) /\ data = Data
  BY DEF Data
<1>12. \A i \in DOMAIN c :
         /\ c[i].off = (i - 1) * pkt_size
         /\ i < Len(c) => c[i].len = pkt_size
         /\ i > 1 => c[i].items = <<>>
  BY <1>4, <1>7
<1>13. c # <<>> =>
         \A i \in DOMAIN ig :
           LET a == c[1].items[i].off
           IN SubSeq(data, a + 1, a + ig[i]) = Bytes(i, 0, ig[i])
  BY <1>9, <1>10, <1>11
<1>14. out = SubSeq(data, 1, Len(out))
  BY <1>6, <1>11
<1> QED
  BY <1>3, <1>5, <1>8, <1>11, <1>12, <1>13, <1>14, Zenon DEF CutsTheGroup

\* Whatever the items, the packet size, the table and the bank: in the order of
\* traversal the packets at the end carry a beginning of the items' data, all of
\* it unless an object or room in a packet was missing; each is full but the last,
\* has the offset of its place, and the first one lists where the items are.
THEOREM GroupCut == PacketizeSpec => []CutsTheGroup
<1>1. PacketizeInit => IInv /\ CutInv
  BY InitInv, CutInit
<1>2. (IInv /\ CutInv) /\ [PacketizeNext]_pvars => (IInv /\ CutInv)'
  BY StepInv, CutStep
<1>3. PacketizeSpec => [](IInv /\ CutInv)
  BY <1>1, <1>2, PTL DEF PacketizeSpec
<1> QED
  BY <1>3, CutEnd, PTL

(***************************************************************************)
(* What is sent                                                            *)
(***************************************************************************)

\* While data is missing the next packet will have some of it; so no packet of
\* the table is empty, but that of a heap without data, which is alone.
Filled ==
  /\ state # "end" => heap_len = 0 \/ payload_off < heap_len
  /\ heap_len > 0 => \A i \in 1 .. Len(Chained) : Chained[i].len > 0
  /\ heap_len = 0 => Len(Chained) <= 1

\* Nothing is missing yet.
LEMMA FilledInit == PacketizeInit => Filled
<1> SUFFICES ASSUME PacketizeInit PROVE Filled
  OBVIOUS
<1>1. IInv /\ CutInv
  BY InitInv, CutInit
<1>2. ig \in Seq(Nat) /\ payload_off = 0 /\ t_os = EmptyTable(TableLen)
  BY <1>1 DEF IInv, TypeOK, PacketizeInit
<1>3. heap_len \in Nat
  BY <1>1, DoneIs DEF CutInv
<1>4. Chained = <<>>
  BY <1>2, NoChains
<1> QED
  BY <1>2, <1>3, <1>4 DEF Filled

\* Steps that leave the table and the offset alone.
LEMMA FilledSame ==
  ASSUME Filled, UNCHANGED <<ig, t_os, payload_off>>, state # "end" \/ state' = "end"
  PROVE  Filled'
<1>1. ig' = ig /\ t_os' = t_os
  OBVIOUS
<1>2. heap_len' = heap_len
  BY <1>1, Zenon DEF heap_len, BytesUpTo, FoldLeft, MapThenFoldSet
<1>3. Chained' = Chained
  BY <1>1, Zenon DEF Chained
<1> QED
  BY <1>2, <1>3 DEF Filled

\* PZ_HASHPACKET: the last packet of the table has the data that was left.
LEMMA FilledHash ==
  ASSUME IInv, CutInv, Filled, HashPacket
  PROVE  Filled'
<1>1. /\ state = "hashpacket" /\ UNCHANGED <<ig, pkt_size, itm, p, count, remain>>
      /\ \/ state' = "end" /\ count = 0 /\ remain = 0 /\ payload_off' = payload_off
         \/ state' = "getpacket" /\ ~(count = 0 /\ remain = 0) /\ payload_off' = payload_off + pkt_size
  BY DEF HashPacket
<1>2. CutType /\ Cursor /\ Counted /\ InHand /\ Lined
  BY DEF CutInv
<1>3. PICK h \in Nat : h = heap_len
  BY <1>2, DoneIs
<1>4. PICK d \in Nat : d = Done /\ d <= h /\ (remain > 0 => d < h)
  BY <1>2, <1>3, DoneIs
<1>5. heap_len' = h /\ Done' = d
  BY <1>1, <1>3, <1>4, SameGroup DEF Done
<1>6. /\ p.off = payload_off /\ d = payload_off + Len(p.data) /\ p.len = Len(p.data)
      /\ Len(p.data) = pkt_size \/ (count = 0 /\ remain = 0)
      /\ count = h - d /\ nitems = 4
  BY <1>1, <1>2, <1>3, <1>4 DEF InHand, Counted, Right
<1>7. pkt_size \in Nat \ {0} /\ remain \in Nat /\ payload_off \in Nat /\ Len(p.data) \in Nat
  <2>1. pkt_size \in Nat \ {0} /\ remain \in Nat /\ p.data \in Seq(Byte)
    BY DEF IInv, TypeOK
  <2> QED
    BY <1>2, <2>1, LenProperties DEF CutType
<1>8. PICK c \in Seq(CutPacket) : c = Chained
  BY <1>2, ChainedType
<1>9. PICK n \in Nat : n = Len(c)
  BY LenProperties
<1>10. Chained' = Append(c, p) /\ p \in CutPacket
  BY <1>2, <1>8, HashedLast DEF CutType
<1>11. PICK e : e = Append(c, p)
  OBVIOUS
<1>12. e \in Seq(CutPacket) /\ Len(e) = n + 1 /\ e[n + 1] = p /\ \A i \in 1 .. n : e[i] = c[i]
  BY <1>9, <1>10, <1>11
<1>13. h > 0 => p.len > 0
  <2>1. SUFFICES ASSUME h > 0, Len(p.data) = 0 PROVE FALSE
    BY <1>6, <1>7
  <2>2. payload_off < h
    BY <1>1, <1>3, <2>1 DEF Filled
  <2> QED
    BY <1>6, <1>7, <2>1, <2>2
<1>14. h > 0 => \A i \in 1 .. n + 1 : e[i].len > 0
  <2>1. h > 0 => \A i \in 1 .. n : c[i].len > 0
    BY <1>3, <1>8, <1>9 DEF Filled
  <2>2. \A i \in 1 .. n + 1 : i \in 1 .. n \/ i = n + 1
    BY <1>9
  <2> QED
    BY <1>12, <1>13, <2>1, <2>2
<1>15. h = 0 => n = 0
  <2>1. SUFFICES ASSUME h = 0, n # 0 PROVE FALSE
    OBVIOUS
  <2>2. payload_off = n * pkt_size
    BY <1>1, <1>2, <1>8, <1>9 DEF Lined
  <2>3. payload_off = 0
    BY <1>4, <1>6, <1>7, <2>1
  <2> QED
    BY <1>7, <1>9, <2>1, <2>2, <2>3
<1>16. state' # "end" => h = 0 \/ payload_off' < h
  <2>1. SUFFICES ASSUME state' # "end" PROVE payload_off' < h
    OBVIOUS
  <2>2. d = payload_off' /\ (count # 0 \/ remain > 0)
    BY <1>1, <1>6, <1>7, <2>1
  <2> QED
    BY <1>4, <1>6, <2>2
<1> QED
  BY <1>5, <1>9, <1>10, <1>11, <1>12, <1>14, <1>15, <1>16 DEF Filled

\* So it is after every step of packetizing.
LEMMA FilledStep == IInv /\ CutInv /\ Filled /\ [PacketizeNext]_pvars => Filled'
<1> SUFFICES ASSUME IInv, CutInv, Filled, [PacketizeNext]_pvars PROVE Filled'
  OBVIOUS
<1>1. CASE HashPacket
  BY <1>1, FilledHash
<1>2. CASE GetPacket \/ BankDry \/ AddItems \/ InitPacket \/ CopyData \/ UNCHANGED pvars
  <2>1. UNCHANGED <<ig, t_os, payload_off>> /\ (state # "end" \/ state' = "end")
    BY <1>2 DEF GetPacket, BankDry, AddItems, InitPacket, CopyData, pvars
  <2> QED
    BY <2>1, FilledSame
<1> QED
  BY <1>1, <1>2 DEF PacketizeNext

\* The invariant of the sender's end.
CutAll == IInv /\ CutInv /\ Filled

\* All that is known of packetizing, at its start
LEMMA CutAllInit == PacketizeInit => CutAll
BY InitInv, CutInit, FilledInit DEF CutAll

\* and after each step.
LEMMA CutAllStep == CutAll /\ [PacketizeNext]_pvars => CutAll'
BY StepInv, CutStep, FilledStep DEF CutAll

\* The packets of a finished table.
LEMMA PacketsAre ==
  ASSUME CutAll, state = "end"
  PROVE  /\ Chained \in Seq(CutPacket) /\ heap_len \in Nat /\ ig \in Seq(Nat) /\ pkt_size \in Nat \ {0}
         /\ \A i \in 1 .. Len(Chained) :
              /\ Chained[i] \in CutPacket
              /\ Chained[i].off = (i - 1) * pkt_size /\ Right(Chained[i])
              /\ Chained[i].items = ItemsOf(Chained[i])
              /\ i < Len(Chained) => Chained[i].len = pkt_size
              /\ heap_len > 0 => Chained[i].len > 0
         /\ heap_len = 0 => Len(Chained) <= 1
<1>1. CutType /\ AtTheEnd /\ Cursor
  BY DEF CutAll, CutInv
<1>2. Chained \in Seq(CutPacket)
  BY <1>1, ChainedType
<1>3. heap_len \in Nat
  BY <1>1, DoneIs DEF CutAll
<1>4. ig \in Seq(Nat) /\ pkt_size \in Nat \ {0}
  BY DEF CutAll, IInv, TypeOK
<1>5. InLine(Chained, Len(Chained) - 1)
  BY <1>1 DEF AtTheEnd
<1>6. ASSUME NEW i \in 1 .. Len(Chained)
      PROVE  /\ Chained[i] \in CutPacket
             /\ Chained[i].off = (i - 1) * pkt_size /\ Right(Chained[i])
             /\ Chained[i].items = ItemsOf(Chained[i])
             /\ i < Len(Chained) => Chained[i].len = pkt_size
             /\ heap_len > 0 => Chained[i].len > 0
  <2>1. Chained[i] \in CutPacket
    BY <1>2, ElementOfSeq
  <2>2. i < Len(Chained) => i \in 1 .. Len(Chained) - 1
    BY <1>2, LenProperties
  <2> QED
    BY <1>5, <2>1, <2>2 DEF InLine, CutAll, Filled
<1> QED
  BY <1>2, <1>3, <1>4, <1>6 DEF CutAll, Filled

\* Where each packet ends and where the next begins.
LEMMA PacketEnds ==
  ASSUME CutAll, state = "end", NEW i \in 1 .. Len(Chained)
  PROVE  /\ Chained[i].off \in Nat /\ Chained[i].len \in Nat
         /\ Chained[i].off + Chained[i].len <= heap_len
         /\ (i = 1) <=> (Chained[i].off = 0)
         /\ i < Len(Chained) => /\ Chained[i + 1].off = Chained[i].off + Chained[i].len
                                /\ Chained[i].len > 0
<1>1. /\ Chained \in Seq(CutPacket) /\ pkt_size \in Nat \ {0}
      /\ Chained[i] \in CutPacket
      /\ Chained[i].off = (i - 1) * pkt_size /\ Right(Chained[i])
      /\ i < Len(Chained) => Chained[i].len = pkt_size
  BY PacketsAre
<1>2. PICK n \in Nat : n = Len(Chained)
  BY <1>1, LenProperties
<1>3. Chained[i].off \in Nat /\ Chained[i].len \in Nat
  BY <1>1 DEF CutPacket
<1>4. Chained[i].off + Chained[i].len <= heap_len
  BY <1>1 DEF Right
<1>5. (i = 1) <=> (Chained[i].off = 0)
  <2>1. PICK j \in Nat : j = i - 1
    BY <1>2
  <2>2. PICK z \in Nat \ {0} : z = pkt_size
    BY <1>1
  <2>3. (j = 0) <=> (j * z = 0)
    OBVIOUS
  <2> QED
    BY <1>1, <1>2, <2>1, <2>2, <2>3
<1>6. ASSUME i < n
      PROVE  Chained[i + 1].off = Chained[i].off + Chained[i].len /\ Chained[i].len > 0
  <2>1. i + 1 \in 1 .. Len(Chained)
    BY <1>2, <1>6
  <2>2. Chained[i + 1].off = (i + 1 - 1) * pkt_size
    BY <2>1, PacketsAre
  <2>3. (i + 1 - 1) * pkt_size = (i - 1) * pkt_size + pkt_size
    BY <1>1, <1>2
  <2> QED
    BY <1>1, <1>2, <1>6, <2>2, <2>3
<1> QED
  BY <1>2, <1>3, <1>4, <1>5, <1>6

(***************************************************************************)
(* The items that start in a packet                                        *)
(***************************************************************************)

\* A set of numbers that has with each number the smaller ones.
LEMMA LowerSet ==
  ASSUME NEW n \in Nat, NEW s \in SUBSET (1 .. n), \A j \in s : \A i \in 1 .. j : i \in s
  PROVE  /\ Cardinality(s) \in 0 .. n
         /\ \A j \in 1 .. n : j \in s <=> j <= Cardinality(s)
<1>1. PICK l \in 0 .. n : s = 1 .. l
  <2>1. CASE s = {}
    <3>1. s = 1 .. 0 /\ 0 \in 0 .. n
      BY <2>1
    <3> QED
      BY <3>1
  <2>2. CASE s # {}
    <3> DEFINE T == {m \in Nat : \A k \in s : k <= m}
    <3>1. n \in T
      OBVIOUS
    <3>2. PICK m \in T : \A k \in T : m <= k
      <4>1. T # {} /\ T \in SUBSET Nat
        BY <3>1
      <4> HIDE DEF T
      <4> QED
        BY <4>1, LeastNumber
    <3>3. m \in s
      <4>1. SUFFICES ASSUME m \notin s PROVE FALSE
        OBVIOUS
      <4>2. PICK k \in s : TRUE
        BY <2>2
      <4>3. \A j \in s : j <= m /\ j # m
        BY <3>2, <4>1
      <4>4. m - 1 \in T
        BY <4>2, <4>3
      <4> QED
        BY <3>2, <4>4
    <3>4. s = 1 .. m
      <4>1. ASSUME NEW i \in s PROVE i \in 1 .. m
        BY <3>2
      <4>2. ASSUME NEW i \in 1 .. m PROVE i \in s
        BY <3>3
      <4> QED
        BY <4>1, <4>2
    <3>5. m \in 0 .. n
      BY <3>3
    <3> QED
      BY <3>4, <3>5
  <2> QED
    BY <2>1, <2>2
<1>2. Cardinality(1 .. l) = l
  <2>1. PICK a, b \in Int : a = 1 /\ b = l
    OBVIOUS
  <2>2. Cardinality(a .. b) = IF a > b THEN 0 ELSE b - a + 1
    BY FS_Interval
  <2> QED
    BY <2>1, <2>2
<1> QED
  BY <1>1, <1>2

\* The number of items whose data starts before o.
Before(o) == Cardinality({j \in 1 .. Len(ig) : BytesUpTo(j - 1) < o})

\* The data of the items before a later one is no shorter.
LEMMA UpToGrows ==
  ASSUME ig \in Seq(Nat), NEW i \in 0 .. Len(ig), NEW j \in 0 .. i
  PROVE  BytesUpTo(j) <= BytesUpTo(i)
<1>1. PICK n \in Nat : n = Len(ig)
  BY LenProperties
<1>2. PICK at : at = [k \in 0 .. n |-> BytesUpTo(k)]
  OBVIOUS
<1>3. at \in [0 .. n -> Nat] /\ \A k \in 0 .. n : at[k] = BytesUpTo(k)
  BY <1>1, <1>2, UpTo
<1>4. \A k \in 1 .. n : ig[k] \in Nat /\ at[k] = at[k - 1] + ig[k]
  <2> TAKE k \in 1 .. n
  <2>1. k - 1 \in 0 .. n /\ k \in 0 .. n
    BY <1>1
  <2>2. ig[k] \in Nat
    BY <1>1, ElementOfSeq
  <2> QED
    BY <1>1, <1>3, <2>1, <2>2, UpTo
<1>5. \A m \in 0 .. n : \A k \in 0 .. m : at[k] <= at[m]
  BY <1>1, <1>3, <1>4, AtGrows
<1>6. j \in 0 .. n
  BY <1>1
<1> QED
  BY <1>1, <1>3, <1>5, <1>6

\* They are the first ones.
LEMMA BeforeIs ==
  ASSUME ig \in Seq(Nat), NEW o \in Nat
  PROVE  /\ Before(o) \in 0 .. Len(ig)
         /\ \A j \in 1 .. Len(ig) : BytesUpTo(j - 1) < o <=> j <= Before(o)
<1>1. PICK n \in Nat : n = Len(ig)
  BY LenProperties
<1>2. PICK s : s = {j \in 1 .. n : BytesUpTo(j - 1) < o}
  OBVIOUS
<1>3. ASSUME NEW j \in s, NEW i \in 1 .. j PROVE i \in s
  <2>1. j \in 1 .. n /\ BytesUpTo(j - 1) < o
    BY <1>2
  <2>2. i \in 1 .. n /\ i - 1 \in 0 .. j - 1 /\ j - 1 \in 0 .. n /\ i - 1 \in 0 .. n
    BY <1>1, <2>1
  <2>3. BytesUpTo(i - 1) <= BytesUpTo(j - 1)
    BY <1>1, <2>2, UpToGrows
  <2>4. BytesUpTo(i - 1) \in Nat /\ BytesUpTo(j - 1) \in Nat
    BY <1>1, <2>2, UpTo
  <2> QED
    BY <1>2, <2>1, <2>2, <2>3, <2>4
<1>4. s \in SUBSET (1 .. n)
  BY <1>2
<1>5. Cardinality(s) \in 0 .. n /\ \A j \in 1 .. n : j \in s <=> j <= Cardinality(s)
  BY <1>3, <1>4, LowerSet
<1>6. Before(o) = Cardinality(s)
  BY <1>1, <1>2 DEF Before
<1> QED
  BY <1>1, <1>2, <1>5, <1>6

\* More items start before a later byte.
LEMMA BeforeGrows ==
  ASSUME ig \in Seq(Nat), NEW o \in Nat, NEW u \in Nat, o <= u
  PROVE  Before(o) <= Before(u)
<1>1. PICK n \in Nat : n = Len(ig)
  BY LenProperties
<1>2. PICK a \in 0 .. n : a = Before(o) /\ \A j \in 1 .. n : BytesUpTo(j - 1) < o <=> j <= a
  BY <1>1, BeforeIs
<1>3. PICK b \in 0 .. n : b = Before(u) /\ \A j \in 1 .. n : BytesUpTo(j - 1) < u <=> j <= b
  BY <1>1, BeforeIs
<1>4. CASE a = 0
  BY <1>2, <1>3, <1>4
<1>5. CASE a # 0
  <2>1. a \in 1 .. n /\ a - 1 \in 0 .. n
    BY <1>1, <1>5
  <2>2. BytesUpTo(a - 1) < o /\ BytesUpTo(a - 1) \in Nat
    BY <1>1, <1>2, <2>1, UpTo
  <2>3. BytesUpTo(a - 1) < u
    BY <2>2
  <2>4. a <= b
    BY <1>3, <2>1, <2>3
  <2> QED
    BY <1>2, <1>3, <2>4
<1> QED
  BY <1>4, <1>5

\* How many items the first i packets list, when each lists those that start
\* in it.
Upper(i) ==
  IF i = 0 THEN 0
  ELSE IF i = Len(Chained) THEN Len(ig)
  ELSE Before(Chained[i].off + Chained[i].len)

\* The items that start in packet i follow those of the packets before.
LEMMA UpperIs ==
  ASSUME CutAll, state = "end", NEW i \in 0 .. Len(Chained)
  PROVE  /\ Upper(i) \in 0 .. Len(ig)
         /\ i # 0 => Upper(i - 1) <= Upper(i) /\ Upper(i - 1) \in Nat
         /\ i # 0 => Before(Chained[i].off) = Upper(i - 1)
<1>1. ig \in Seq(Nat) /\ Chained \in Seq(CutPacket) /\ heap_len \in Nat
  BY PacketsAre
<1>2. PICK n \in Nat : n = Len(ig)
  BY <1>1, LenProperties
<1>3. PICK m \in Nat : m = Len(Chained)
  BY <1>1, LenProperties
<1>4. ASSUME NEW j \in 0 .. m PROVE Upper(j) \in 0 .. n
  <2>1. CASE j = 0 \/ j = m
    BY <1>2, <1>3, <2>1 DEF Upper
  <2>2. CASE j # 0 /\ j # m
    <3>1. j \in 1 .. Len(Chained)
      BY <1>3, <2>2
    <3>2. Chained[j].off \in Nat /\ Chained[j].len \in Nat
      BY <3>1, PacketEnds
    <3>3. Chained[j].off + Chained[j].len \in Nat
      BY <3>2
    <3>4. Before(Chained[j].off + Chained[j].len) \in 0 .. Len(ig)
      BY <1>1, <3>3, BeforeIs
    <3> QED
      BY <1>2, <1>3, <2>2, <3>4 DEF Upper
  <2> QED
    BY <2>1, <2>2
<1>5. ASSUME NEW j \in 1 .. m PROVE Before(Chained[j].off) = Upper(j - 1)
  <2>1. CASE j = 1
    <3>1. Chained[j].off = 0
      BY <1>3, <2>1, PacketEnds
    <3>2. PICK a \in 0 .. n : a = Before(0) /\ \A k \in 1 .. n : BytesUpTo(k - 1) < 0 <=> k <= a
      BY <1>1, <1>2, BeforeIs
    <3>3. a = 0
      <4>1. SUFFICES ASSUME a # 0 PROVE FALSE
        OBVIOUS
      <4>2. a \in 1 .. n /\ a - 1 \in 0 .. n
        BY <1>2, <4>1
      <4>3. BytesUpTo(a - 1) < 0 /\ BytesUpTo(a - 1) \in Nat
        BY <1>1, <1>2, <3>2, <4>2, UpTo
      <4> QED
        BY <4>3
    <3> QED
      BY <2>1, <3>1, <3>2, <3>3 DEF Upper
  <2>2. CASE j # 1
    <3>1. PICK k \in 1 .. m : k = j - 1 /\ k < m /\ k # 0 /\ k + 1 = j
      BY <1>3, <2>2
    <3>2. Chained[k + 1].off = Chained[k].off + Chained[k].len
      BY <1>3, <3>1, PacketEnds
    <3> QED
      BY <1>3, <3>1, <3>2 DEF Upper
  <2> QED
    BY <2>1, <2>2
<1>6. ASSUME i # 0 PROVE Upper(i - 1) <= Upper(i) /\ Upper(i - 1) \in Nat
  <2>1. i \in 1 .. m /\ i - 1 \in 0 .. m
    BY <1>3, <1>6
  <2>2. Upper(i - 1) \in 0 .. n
    BY <1>4, <2>1
  <2>3. CASE i = m
    <3>1. Upper(i) = n
      BY <1>2, <1>3, <1>6, <2>3 DEF Upper
    <3> QED
      BY <2>2, <3>1
  <2>4. CASE i # m
    <3>1. Chained[i].off \in Nat /\ Chained[i].len \in Nat
      BY <1>3, <2>1, PacketEnds
    <3>2. Upper(i) = Before(Chained[i].off + Chained[i].len)
      BY <1>3, <1>6, <2>4 DEF Upper
    <3>3. Upper(i - 1) = Before(Chained[i].off)
      BY <1>5, <2>1
    <3>4. Chained[i].off + Chained[i].len \in Nat /\ Chained[i].off <= Chained[i].off + Chained[i].len
      BY <3>1
    <3> QED
      BY <1>1, <2>2, <3>1, <3>2, <3>3, <3>4, BeforeGrows
  <2> QED
    BY <2>3, <2>4
<1> QED
  BY <1>2, <1>3, <1>4, <1>5, <1>6

(***************************************************************************)
(* The packets on the wire                                                 *)
(***************************************************************************)

NetItem == [mode : {"direct", "immediate"}, id : Nat, off : Nat]
NetPacket == [off : Nat, len : Nat, items : Seq(NetItem), data : Seq(Byte)]

Fronts == {<<>>, <<Immediate>>}

\* What Send makes of the packet x, and of the table.
As(x, f, s) ==
  [x EXCEPT !.items = (IF x.off = 0 THEN f ELSE <<>>) \o (IF s THEN Starting(x) ELSE @)]

Wire(f, s) == [j \in 1 .. Len(Chained) |-> As(Chained[j], f, s)]

\* The items of the group, and with those in front.
AllItems == [i \in 1 .. Len(ig) |-> DirectItem(i)]
Wanted(f) == f \o AllItems

\* Where the items of packet j end among them.
ItemsEnd(f, s) ==
  [j \in 0 .. Len(Chained) |->
     IF j = 0 THEN 0 ELSE Len(f) + (IF s THEN Upper(j) ELSE Len(ig))]

\* z is x and then y, place by place.
Joined(z, x, y, S) ==
  /\ z \in Seq(S) /\ Len(z) = Len(x) + Len(y)
  /\ \A k \in 1 .. Len(x) : z[k] = x[k]
  /\ \A k \in 1 .. Len(y) : z[Len(x) + k] = y[k]

\* A concatenation, place by place.
LEMMA JoinedAll ==
  \A S : \A x, y \in Seq(S) : Joined(x \o y, x, y, S)
BY JoinedAt DEF Joined

\* What is put in front is at most one item.
LEMMA FrontType ==
  ASSUME NEW f \in Fronts
  PROVE  f \in Seq(NetItem) /\ Len(f) \in {0, 1} /\ (Len(f) = 1 => f[1] = Immediate)
<1>1. Immediate \in NetItem
  BY DEF Immediate, NetItem
<1>2. PICK e \in NetItem : e = Immediate
  BY <1>1
<1>3. f = <<>> \/ f = <<e>>
  BY <1>2 DEF Fronts
<1>4. <<e>> \in Seq(NetItem) /\ Len(<<e>>) = 1 /\ <<e>>[1] = e
  OBVIOUS
<1>5. <<>> \in Seq(NetItem) /\ Len(<<>>) = 0
  OBVIOUS
<1>6. CASE f = <<>>
  BY <1>5, <1>6
<1>7. CASE f = <<e>>
  BY <1>2, <1>4, <1>7
<1> QED
  BY <1>3, <1>6, <1>7

\* The items of the group, in order.
LEMMA AllItemsAre ==
  ASSUME ig \in Seq(Nat)
  PROVE  /\ AllItems \in Seq(NetItem) /\ AllItems \in Seq(ListedItem)
         /\ Len(AllItems) = Len(ig) /\ Len(ig) \in Nat
         /\ \A i \in 1 .. Len(ig) : AllItems[i] = DirectItem(i) /\ AllItems[i].off = BytesUpTo(i - 1)
                                    /\ AllItems[i].off \in Nat
<1>1. PICK n \in Nat : n = Len(ig)
  BY LenProperties
<1>2. ASSUME NEW i \in 1 .. n
      PROVE  /\ DirectItem(i) \in NetItem /\ DirectItem(i) \in ListedItem
             /\ DirectItem(i).off = BytesUpTo(i - 1) /\ BytesUpTo(i - 1) \in Nat
  <2>1. i - 1 \in 0 .. n
    OBVIOUS
  <2>2. BytesUpTo(i - 1) \in Nat
    BY <1>1, <2>1, UpTo
  <2> QED
    BY <2>2 DEF DirectItem, ListedItem, NetItem
<1>3. AllItems \in [1 .. n -> NetItem] /\ AllItems \in [1 .. n -> ListedItem]
  BY <1>1, <1>2 DEF AllItems
<1>4. AllItems \in Seq(NetItem) /\ AllItems \in Seq(ListedItem) /\ Len(AllItems) = n
  BY <1>3
<1> QED
  BY <1>1, <1>2, <1>4 DEF AllItems

\* What a packet lists on the wire when each lists the items that start in it.
LEMMA StartingIs ==
  ASSUME CutAll, state = "end", NEW j \in 1 .. Len(Chained)
  PROVE  Starting(Chained[j]) = SubSeq(AllItems, Upper(j - 1) + 1, Upper(j))
<1>1. ig \in Seq(Nat) /\ Chained \in Seq(CutPacket)
  BY PacketsAre
<1>2. PICK m \in Nat : m = Len(Chained)
  BY <1>1, LenProperties
<1>3. 1 \in 1 .. m /\ j \in 1 .. m /\ m \in 1 .. m
  BY <1>2
<1>4. Chained[1].items = AllItems
  <2>1. Chained[1].off = 0 /\ Chained[1].items = ItemsOf(Chained[1])
    BY <1>2, <1>3, PacketsAre, PacketEnds
  <2> QED
    BY <2>1 DEF ItemsOf, AllItems
<1>5. ASSUME NEW o
      PROVE  Cardinality({i \in DOMAIN AllItems : AllItems[i].off < o}) = Before(o)
  <2>1. DOMAIN AllItems = 1 .. Len(ig)
    BY DEF AllItems
  <2>2. \A i \in 1 .. Len(ig) : AllItems[i].off = BytesUpTo(i - 1)
    BY <1>1, AllItemsAre
  <2>3. {i \in DOMAIN AllItems : AllItems[i].off < o} = {i \in 1 .. Len(ig) : BytesUpTo(i - 1) < o}
    BY <2>1, <2>2
  <2> QED
    BY <2>3 DEF Before
<1>6. Len(AllItems) = Len(ig) /\ Last(Chained) = Chained[m]
  BY <1>1, <1>2, AllItemsAre DEF Last
<1>7. PICK x : x = Chained[j]
  OBVIOUS
<1>8. x = Last(Chained) <=> j = m
  <2>1. SUFFICES ASSUME Chained[j] = Chained[m], j # m PROVE FALSE
    BY <1>6, <1>7
  <2>2. Chained[j].off = (j - 1) * pkt_size /\ Chained[m].off = (m - 1) * pkt_size /\ pkt_size \in Nat \ {0}
    BY <1>2, <1>3, PacketsAre
  <2>3. PICK a, b \in Nat : a = j - 1 /\ b = m - 1 /\ a # b
    BY <1>3, <2>1
  <2>4. PICK z \in Nat \ {0} : z = pkt_size
    BY <2>2
  <2>5. a * z = b * z
    BY <2>1, <2>2, <2>3, <2>4
  <2>6. a < b \/ b < a
    BY <2>3
  <2>7. a * z < b * z \/ b * z < a * z
    <3>1. CASE a < b
      <4>1. PICK c \in Nat : b = a + 1 + c
        <5>1. b - a - 1 \in Nat /\ b = a + 1 + (b - a - 1)
          BY <3>1
        <5> QED
          BY <5>1
      <4>2. b * z = a * z + z + c * z
        BY <4>1
      <4> QED
        BY <4>1, <4>2
    <3>2. CASE b < a
      <4>1. PICK c \in Nat : a = b + 1 + c
        <5>1. a - b - 1 \in Nat /\ a = b + 1 + (a - b - 1)
          BY <3>2
        <5> QED
          BY <5>1
      <4>2. a * z = b * z + z + c * z
        BY <4>1
      <4> QED
        BY <4>1, <4>2
    <3> QED
      BY <2>6, <3>1, <3>2
  <2> QED
    BY <2>5, <2>7
<1>9. Before(x.off) = Upper(j - 1)
  BY <1>2, <1>3, <1>7, UpperIs
<1>10. j # m => Before(x.off + x.len) = Upper(j)
  BY <1>2, <1>3, <1>7 DEF Upper
<1>11. j = m => Len(ig) = Upper(j)
  BY <1>2, <1>3 DEF Upper
<1>12. Starting(x) = SubSeq(AllItems, Before(x.off) + 1,
                            IF x = Last(Chained) THEN Len(AllItems) ELSE Before(x.off + x.len))
  BY <1>4, <1>5 DEF Starting
<1> QED
  BY <1>6, <1>7, <1>8, <1>9, <1>10, <1>11, <1>12

\* An empty part.
LEMMA NoSlice ==
  \A S : \A d \in Seq(S) : \A a \in Nat : Sliced(<<>>, d, a, 0, S)
BY DEF Sliced

\* All of it.
LEMMA WholeSlice ==
  \A S : \A d \in Seq(S) : Sliced(d, d, 0, Len(d), S)
<1> TAKE S
<1> TAKE d \in Seq(S)
<1>1. PICK n \in Nat : n = Len(d)
  BY LenProperties
<1>2. \A k \in 1 .. n : 0 + k = k
  OBVIOUS
<1> QED
  BY <1>1, <1>2 DEF Sliced

\* How many of the items the packets before j list, and j lists.
From(j, s) == IF s THEN Upper(j - 1) ELSE IF j = 1 THEN 0 ELSE Len(ig)
HasOf(j, s) == IF s THEN Upper(j) - Upper(j - 1) ELSE IF j = 1 THEN Len(ig) ELSE 0

\* A packet lists the items that follow those of the packets before.
LEMMA PartIs ==
  ASSUME CutAll, state = "end", NEW j \in 1 .. Len(Chained), NEW s \in BOOLEAN
  PROVE  /\ From(j, s) \in Nat /\ HasOf(j, s) \in Nat
         /\ Sliced(IF s THEN Starting(Chained[j]) ELSE Chained[j].items,
                   AllItems, From(j, s), HasOf(j, s), NetItem)
         /\ j = 1 => From(j, s) = 0
         /\ From(j, s) + HasOf(j, s) = (IF s THEN Upper(j) ELSE Len(ig))
         /\ j # 1 => From(j, s) = (IF s THEN Upper(j - 1) ELSE Len(ig))
<1>1. /\ ig \in Seq(Nat) /\ Chained \in Seq(CutPacket) /\ AllItems \in Seq(NetItem)
      /\ Len(AllItems) = Len(ig)
  BY PacketsAre, AllItemsAre
<1>2. PICK n \in Nat : n = Len(ig)
  BY <1>1, LenProperties
<1>3. PICK m \in Nat : m = Len(Chained)
  BY <1>1, LenProperties
<1>4. CASE s
  <2>1. j \in 0 .. m /\ j # 0
    BY <1>3
  <2>2. PICK a, b \in Nat : a = Upper(j - 1) /\ b = Upper(j) /\ a <= b /\ b <= n
    <3>1. Upper(j) \in 0 .. n /\ Upper(j - 1) <= Upper(j) /\ Upper(j - 1) \in Nat
      BY <1>2, <1>3, <2>1, UpperIs
    <3> QED
      BY <3>1
  <2>3. PICK g \in Nat : g = b - a /\ a + g = b
    BY <2>2
  <2>4. Sliced(SubSeq(AllItems, a + 1, a + g), AllItems, a, g, NetItem)
    <3>1. a + g <= Len(AllItems)
      BY <1>1, <1>2, <2>2, <2>3
    <3> QED
      BY <1>1, <3>1, Slice, Zenon
  <2>5. Starting(Chained[j]) = SubSeq(AllItems, a + 1, a + g)
    BY <2>2, <2>3, StartingIs
  <2>6. j = 1 => a = 0
    BY <2>2 DEF Upper
  <2>7. From(j, s) = a /\ HasOf(j, s) = g
    BY <1>4, <2>2, <2>3 DEF From, HasOf
  <2> QED
    BY <1>4, <2>2, <2>3, <2>4, <2>5, <2>6, <2>7
<1>5. CASE ~s
  <2>1. Chained[j].items = ItemsOf(Chained[j]) /\ ((j = 1) <=> (Chained[j].off = 0))
    BY PacketsAre, PacketEnds
  <2>2. CASE j = 1
    <3>1. Chained[j].items = AllItems
      BY <2>1, <2>2 DEF ItemsOf, AllItems
    <3>2. From(j, s) = 0 /\ HasOf(j, s) = n
      BY <1>2, <1>5, <2>2 DEF From, HasOf
    <3>3. Sliced(AllItems, AllItems, 0, Len(AllItems), NetItem)
      BY <1>1, WholeSlice, Zenon
    <3> QED
      BY <1>1, <1>2, <1>5, <2>2, <3>1, <3>2, <3>3
  <2>3. CASE j # 1
    <3>1. Chained[j].items = <<>>
      BY <2>1, <2>3 DEF ItemsOf
    <3>2. From(j, s) = n /\ HasOf(j, s) = 0
      BY <1>2, <1>5, <2>3 DEF From, HasOf
    <3>3. Sliced(<<>>, AllItems, n, 0, NetItem)
      BY <1>1, NoSlice, Zenon
    <3> QED
      BY <1>2, <1>5, <2>3, <3>1, <3>2, <3>3
  <2> QED
    BY <2>2, <2>3
<1> QED
  BY <1>4, <1>5

\* Packet j of the table on the wire: as it was, but for the items it lists.
LEMMA AsIs ==
  ASSUME CutAll, state = "end", NEW j \in 1 .. Len(Chained), NEW f \in Fronts, NEW s \in BOOLEAN
  PROVE  /\ As(Chained[j], f, s) \in NetPacket
         /\ As(Chained[j], f, s).off = Chained[j].off
         /\ As(Chained[j], f, s).len = Chained[j].len
         /\ As(Chained[j], f, s).data = Chained[j].data
         /\ As(Chained[j], f, s).items =
              (IF j = 1 THEN f ELSE <<>>) \o (IF s THEN Starting(Chained[j]) ELSE Chained[j].items)
<1>1. Chained[j] \in CutPacket /\ ((j = 1) <=> (Chained[j].off = 0))
  BY PacketsAre, PacketEnds
<1>2. PICK x \in CutPacket : x = Chained[j]
  BY <1>1
<1>3. PICK part : part = IF s THEN Starting(x) ELSE x.items
  OBVIOUS
<1>4. PICK front \in Seq(NetItem) : front = IF j = 1 THEN f ELSE <<>>
  <2>1. f \in Seq(NetItem) /\ <<>> \in Seq(NetItem)
    BY FrontType
  <2> QED
    BY <2>1
<1>5. part \in Seq(NetItem)
  BY <1>2, <1>3, PartIs DEF Sliced
<1>6. PICK all \in Seq(NetItem) : all = front \o part
  BY <1>4, <1>5, ConcatProperties
<1>7. As(x, f, s) = [x EXCEPT !.items = all]
  <2>1. (IF x.off = 0 THEN f ELSE <<>>) = front
    BY <1>1, <1>2, <1>4
  <2> QED
    BY <1>3, <1>6, <2>1 DEF As
<1>8. /\ [x EXCEPT !.items = all] \in NetPacket
      /\ [x EXCEPT !.items = all].off = x.off
      /\ [x EXCEPT !.items = all].len = x.len
      /\ [x EXCEPT !.items = all].data = x.data
      /\ [x EXCEPT !.items = all].items = all
  BY DEF CutPacket, NetPacket
<1> QED
  BY <1>2, <1>3, <1>4, <1>6, <1>7, <1>8

\* The packets on the wire are those of the table.
LEMMA WireIs ==
  ASSUME CutAll, state = "end", NEW f \in Fronts, NEW s \in BOOLEAN
  PROVE  /\ Wire(f, s) \in Seq(NetPacket) /\ Len(Wire(f, s)) = Len(Chained) /\ Len(Chained) \in Nat
         /\ \A j \in 1 .. Len(Chained) : Wire(f, s)[j] = As(Chained[j], f, s)
<1>1. PICK m \in Nat : m = Len(Chained)
  BY PacketsAre, LenProperties
<1>2. \A j \in 1 .. m : As(Chained[j], f, s) \in NetPacket
  BY <1>1, AsIs
<1>3. Wire(f, s) \in [1 .. m -> NetPacket]
  BY <1>1, <1>2 DEF Wire
<1>4. Wire(f, s) \in Seq(NetPacket) /\ Len(Wire(f, s)) = m
  BY <1>1, <1>3
<1> QED
  BY <1>1, <1>4 DEF Wire

\* The front and the items, one behind the other.
LEMMA WantedIs ==
  ASSUME ig \in Seq(Nat), NEW f \in Fronts
  PROVE  /\ Wanted(f) \in Seq(NetItem) /\ Len(Wanted(f)) = Len(f) + Len(ig)
         /\ \A k \in 1 .. Len(f) : Wanted(f)[k] = f[k]
         /\ \A i \in 1 .. Len(ig) : Wanted(f)[Len(f) + i] = AllItems[i]
<1>1. f \in Seq(NetItem) /\ AllItems \in Seq(NetItem) /\ Len(AllItems) = Len(ig)
  BY FrontType, AllItemsAre
<1>2. Joined(f \o AllItems, f, AllItems, NetItem)
  BY <1>1, JoinedAll, Zenon
<1> QED
  BY <1>1, <1>2 DEF Joined, Wanted

\* The items of packet j are the next ones of those wanted.
LEMMA ItemsAt ==
  ASSUME CutAll, state = "end", NEW j \in 1 .. Len(Chained), NEW f \in Fronts, NEW s \in BOOLEAN
  PROVE  /\ ItemsEnd(f, s)[j - 1] \in Nat
         /\ As(Chained[j], f, s).items \in Seq(NetItem)
         /\ ItemsEnd(f, s)[j] = ItemsEnd(f, s)[j - 1] + Len(As(Chained[j], f, s).items)
         /\ \A k \in 1 .. Len(As(Chained[j], f, s).items) :
              As(Chained[j], f, s).items[k] = Wanted(f)[ItemsEnd(f, s)[j - 1] + k]
<1>1. ig \in Seq(Nat) /\ AllItems \in Seq(NetItem) /\ f \in Seq(NetItem) /\ Len(AllItems) = Len(ig)
  BY PacketsAre, AllItemsAre, FrontType
<1>2. PICK m \in Nat : m = Len(Chained)
  BY PacketsAre, LenProperties
<1>3. PICK n, l \in Nat : n = Len(ig) /\ l = Len(f)
  BY <1>1, LenProperties
<1>4. PICK part : part = IF s THEN Starting(Chained[j]) ELSE Chained[j].items
  OBVIOUS
<1>5. PICK u, g \in Nat : u = From(j, s) /\ g = HasOf(j, s)
  BY PartIs
<1>6. Sliced(part, AllItems, u, g, NetItem)
  BY <1>4, <1>5, PartIs, Zenon
<1>7. part \in Seq(NetItem) /\ Len(part) = g /\ \A k \in 1 .. g : part[k] = AllItems[u + k]
  BY <1>6 DEF Sliced
<1>8. /\ j = 1 => u = 0
      /\ u + g = (IF s THEN Upper(j) ELSE n)
      /\ j # 1 => u = (IF s THEN Upper(j - 1) ELSE n)
      /\ u + g <= n
  <2>1. Upper(j) \in 0 .. n
    BY <1>2, <1>3, UpperIs
  <2> QED
    BY <1>3, <1>5, <2>1, PartIs
<1>9. PICK q \in Nat : q = IF j = 1 THEN 0 ELSE l + u
  BY <1>3, <1>5
<1>10. ItemsEnd(f, s)[j] = l + u + g /\ ItemsEnd(f, s)[j - 1] = q
  <2>1. j - 1 \in 0 .. m /\ j \in 0 .. m /\ j # 0 /\ (j - 1 = 0 <=> j = 1)
    BY <1>2
  <2>2. ItemsEnd(f, s)[j] = l + (IF s THEN Upper(j) ELSE n)
    BY <1>2, <1>3, <2>1 DEF ItemsEnd
  <2>3. ItemsEnd(f, s)[j - 1] = IF j = 1 THEN 0 ELSE l + (IF s THEN Upper(j - 1) ELSE n)
    BY <1>2, <1>3, <2>1 DEF ItemsEnd
  <2>4. u + g = (IF s THEN Upper(j) ELSE n) /\ l + (u + g) = l + u + g
    BY <1>8
  <2>5. j # 1 => u = (IF s THEN Upper(j - 1) ELSE n)
    BY <1>8
  <2>6. ItemsEnd(f, s)[j] = l + u + g
    BY <2>2, <2>4
  <2>7. ItemsEnd(f, s)[j - 1] = q
    BY <1>9, <2>3, <2>5, Zenon
  <2> QED
    BY <2>6, <2>7
<1>11. PICK its : its = As(Chained[j], f, s).items
  OBVIOUS
<1>12. its = (IF j = 1 THEN f ELSE <<>>) \o part
  BY ZenonT(40), <1>4, <1>11, AsIs
<1>13. PICK w : w = Wanted(f)
  OBVIOUS
<1>14. (\A k \in 1 .. l : w[k] = f[k]) /\ (\A i \in 1 .. n : w[l + i] = AllItems[i])
  BY <1>1, <1>3, <1>13, WantedIs
<1>15. CASE j = 1
  <2>1. its = f \o part
    BY <1>12, <1>15
  <2>2. /\ its \in Seq(NetItem) /\ Len(its) = l + g
        /\ \A k \in 1 .. l : its[k] = f[k]
        /\ \A k \in 1 .. g : its[l + k] = part[k]
    <3>1. Joined(its, f, part, NetItem)
      BY <1>1, <1>7, <2>1, JoinedAll, Zenon
    <3> QED
      BY <1>3, <1>7, <3>1 DEF Joined
  <2>3. ASSUME NEW k \in 1 .. l + g PROVE its[k] = w[k]
    <3>1. CASE k <= l
      <4>1. k \in 1 .. l
        BY <3>1
      <4> QED
        BY <1>14, <2>2, <4>1
    <3>2. CASE k > l
      <4>1. PICK i \in 1 .. g : l + i = k
        <5>1. k - l \in 1 .. g /\ l + (k - l) = k
          BY <3>2
        <5> QED
          BY <5>1
      <4>2. i \in 1 .. n /\ u + i = i
        BY <1>8, <1>15, <4>1
      <4> QED
        BY SMTT(60), <1>7, <1>14, <2>2, <4>1, <4>2
    <3> QED
      BY <3>1, <3>2
  <2>4. q = 0 /\ l + u + g = q + Len(its)
    BY <1>8, <1>9, <1>15, <2>2
  <2>5. \A k \in 1 .. Len(its) : q + k = k
    BY <2>2, <2>4
  <2> QED
    BY <1>10, <1>11, <1>13, <2>2, <2>3, <2>4, <2>5
<1>16. CASE j # 1
  <2>1. its = part
    <3>1. its = <<>> \o part
      BY <1>12, <1>16
    <3> QED
      BY <1>7, <3>1, ConcatEmptySeq
  <2>2. q = l + u /\ l + u + g = q + Len(its)
    BY <1>7, <1>9, <1>16, <2>1
  <2>3. ASSUME NEW k \in 1 .. g PROVE its[k] = w[q + k]
    <3>1. u + k \in 1 .. n /\ q + k = l + (u + k)
      BY <1>8, <2>2
    <3>2. w[l + (u + k)] = AllItems[u + k]
      BY <1>14, <3>1
    <3> QED
      BY <1>7, <2>1, <3>1, <3>2
  <2> QED
    BY <1>7, <1>10, <1>11, <1>13, <2>1, <2>2, <2>3
<1> QED
  BY <1>15, <1>16

\* Whatever is in front and whichever packets list them, the packets list the
\* items of the group in order.
LEMMA WireLists ==
  ASSUME CutAll, state = "end", Chained # <<>>, NEW f \in Fronts, NEW s \in BOOLEAN
  PROVE  FlattenSeq([j \in DOMAIN Wire(f, s) |-> Wire(f, s)[j].items]) = Wanted(f)
<1>1. PICK m \in Nat \ {0} : m = Len(Chained)
  BY PacketsAre, LenProperties, EmptySeq
<1>2. ig \in Seq(Nat)
  BY PacketsAre
<1>3. PICK its : its = [j \in DOMAIN Wire(f, s) |-> Wire(f, s)[j].items]
  OBVIOUS
<1>4. \A j \in 1 .. m : its[j] = As(Chained[j], f, s).items /\ its[j] \in Seq(NetItem)
  <2>1. DOMAIN Wire(f, s) = 1 .. m
    BY <1>1 DEF Wire
  <2> QED
    BY <1>1, <1>3, <2>1, WireIs, ItemsAt
<1>5. its \in Seq(Seq(NetItem)) /\ Len(its) = m
  <2>1. DOMAIN Wire(f, s) = 1 .. m
    BY <1>1 DEF Wire
  <2>2. its \in [1 .. m -> Seq(NetItem)]
    <3>1. its = [j \in 1 .. m |-> its[j]]
      BY <1>3, <2>1
    <3> QED
      BY <1>4, <3>1
  <2> QED
    BY <2>2
<1>6. PICK at : at = ItemsEnd(f, s)
  OBVIOUS
<1>7. \A j \in 1 .. m :
        /\ at[j - 1] \in Nat /\ at[j] = at[j - 1] + Len(its[j])
        /\ \A k \in 1 .. Len(its[j]) : its[j][k] = Wanted(f)[at[j - 1] + k]
  BY <1>1, <1>4, <1>6, ItemsAt
<1>8. at[0] = 0 /\ at[m] = Len(f) + Len(ig)
  <2>1. 0 \in 0 .. m /\ m \in 0 .. m
    OBVIOUS
  <2>2. Upper(m) = Len(ig)
    BY <1>1 DEF Upper
  <2> QED
    BY <1>1, <1>6, <2>1, <2>2 DEF ItemsEnd
<1>9. at \in [0 .. m -> Nat]
  <2>1. at = [j \in 0 .. m |-> at[j]]
    BY <1>1, <1>6 DEF ItemsEnd
  <2>2. ASSUME NEW j \in 0 .. m PROVE at[j] \in Nat
    <3>1. CASE j = 0
      BY <1>8, <3>1
    <3>2. CASE j # 0
      <4>1. j \in 1 .. m
        BY <3>2
      <4>2. Len(its[j]) \in Nat
        BY <1>4, <4>1, LenProperties
      <4> QED
        BY <1>7, <4>1, <4>2
    <3> QED
      BY <3>1, <3>2
  <2> QED
    BY <2>1, <2>2
<1>10. Adds(at, its, m)
  BY <1>5, <1>7, <1>8 DEF Adds
<1>11. PICK t : t = FlattenSeq(its)
  OBVIOUS
<1>12. Joins(t, at, its, m, NetItem)
  BY <1>5, <1>9, <1>10, <1>11, FlattenAt, Zenon
<1>13. PICK w \in Seq(NetItem) : w = Wanted(f) /\ Len(w) = at[m]
  BY <1>2, <1>8, WantedIs
<1>14. ASSUME NEW q \in 1 .. at[m] PROVE t[q] = w[q]
  <2>1. PICK j \in 1 .. m : at[j - 1] < q /\ q <= at[j]
    BY <1>8, <1>9, Between
  <2>2. PICK a, l \in Nat : a = at[j - 1] /\ l = Len(its[j]) /\ at[j] = a + l
    <3>1. at[j - 1] \in Nat /\ at[j] = at[j - 1] + Len(its[j])
      BY <1>7
    <3>2. Len(its[j]) \in Nat
      BY <1>4, LenProperties
    <3> QED
      BY <3>1, <3>2
  <2>3. q \in Nat
    BY <1>9
  <2>4. PICK k \in 1 .. l : a + k = q
    <3>1. a < q /\ q <= a + l
      BY <2>1, <2>2
    <3> QED
      BY <2>3, <3>1, InBetween, Zenon
  <2>5. t[a + k] = its[j][k]
    BY <1>12, <2>2 DEF Joins
  <2>6. its[j][k] = w[a + k]
    BY <1>7, <1>13, <2>2
  <2> QED
    BY <2>4, <2>5, <2>6
<1>15. t \in Seq(NetItem) /\ Len(t) = at[m]
  BY <1>12 DEF Joins
<1>16. t = w
  BY <1>13, <1>14, <1>15, SeqEqual
<1> QED
  BY <1>3, <1>11, <1>13, <1>16

(***************************************************************************)
(* What the receiver's table holds                                         *)
(***************************************************************************)

\* The packets d cover h bytes, or their beginning, in order and without
\* gaps, each at a multiple of z.
Tiles(d, h, z) ==
  /\ d \in Seq(NetPacket) /\ h \in Nat /\ z \in Nat \ {0}
  /\ \A j \in 1 .. Len(d) :
       /\ d[j].off = (j - 1) * z /\ (j = 1 <=> d[j].off = 0)
       /\ d[j].off + d[j].len <= h
       /\ h > 0 => d[j].len > 0
       /\ j < Len(d) => d[j + 1].off = d[j].off + d[j].len
  /\ \A i, j \in 1 .. Len(d) : i < j => d[i].off < d[j].off /\ d[i].off + d[i].len <= d[j].off
  /\ h = 0 => Len(d) <= 1

\* Rows of z.
LEMMA Rows ==
  \A a, b \in Nat : \A z \in Nat \ {0} : a < b => a * z < b * z /\ a * z + z <= b * z
<1> TAKE a, b \in Nat
<1> TAKE z \in Nat \ {0}
<1> HAVE a < b
<1>1. PICK c \in Nat : b = a + 1 + c
  <2>1. b - a - 1 \in Nat /\ b = a + 1 + (b - a - 1)
    OBVIOUS
  <2> QED
    BY <2>1
<1>2. b * z = a * z + z + c * z
  BY <1>1
<1>3. c * z \in Nat /\ a * z \in Nat /\ b * z \in Nat
  OBVIOUS
<1> QED
  BY <1>2, <1>3

\* They cover the data of the group.
LEMMA WireTiles ==
  ASSUME CutAll, state = "end", NEW f \in Fronts, NEW s \in BOOLEAN
  PROVE  Tiles(Wire(f, s), heap_len, pkt_size)
<1>1. PICK d \in Seq(NetPacket) : d = Wire(f, s)
  BY WireIs
<1>2. PICK m \in Nat : m = Len(d) /\ m = Len(Chained)
  BY <1>1, WireIs
<1>3. PICK h \in Nat : h = heap_len
  BY PacketsAre
<1>4. PICK z \in Nat \ {0} : z = pkt_size
  BY PacketsAre
<1>5. ASSUME NEW j \in 1 .. m
      PROVE  /\ d[j].off = (j - 1) * z /\ (j = 1 <=> d[j].off = 0)
             /\ d[j].off \in Nat /\ d[j].len \in Nat
             /\ d[j].off + d[j].len <= h
             /\ h > 0 => d[j].len > 0
             /\ j < m => d[j + 1].off = d[j].off + d[j].len
             /\ j < m => d[j].len = z
  <2>1. d[j].off = Chained[j].off /\ d[j].len = Chained[j].len
    <3>1. d[j] = As(Chained[j], f, s)
      BY <1>1, <1>2, WireIs
    <3>2. j \in 1 .. Len(Chained)
      BY <1>2
    <3>3. As(Chained[j], f, s).off = Chained[j].off /\ As(Chained[j], f, s).len = Chained[j].len
      BY ZenonT(40), <3>2, AsIs
    <3> QED
      BY <3>1, <3>3, Zenon
  <2>2. j < m => d[j + 1].off = Chained[j + 1].off
    <3>1. SUFFICES ASSUME j < m PROVE d[j + 1].off = Chained[j + 1].off
      OBVIOUS
    <3>2. PICK i \in 1 .. Len(Chained) : i = j + 1
      BY <1>2, <3>1
    <3>3. d[i] = As(Chained[i], f, s)
      BY <1>1, <1>2, <3>2, WireIs
    <3>5. As(Chained[i], f, s).off = Chained[i].off
      BY AsIs, Zenon
    <3>4. d[i].off = Chained[i].off
      BY <3>3, <3>5, Zenon
    <3> QED
      BY <3>2, <3>4
  <2> QED
    BY <1>2, <1>3, <1>4, <2>1, <2>2, PacketsAre, PacketEnds
<1>6. ASSUME NEW i \in 1 .. m, NEW j \in 1 .. m, i < j
      PROVE  d[i].off < d[j].off /\ d[i].off + d[i].len <= d[j].off
  <2>1. PICK a, b \in Nat : a = i - 1 /\ b = j - 1 /\ a < b
    BY <1>6
  <2>2. a * z < b * z /\ a * z + z <= b * z
    BY <2>1, Rows, Zenon
  <2>3. d[i].off = a * z /\ d[j].off = b * z
    BY <1>5, <2>1
  <2>4. d[i].len = z
    BY <1>2, <1>5, <1>6
  <2> QED
    BY <2>2, <2>3, <2>4
<1>7. h = 0 => m <= 1
  BY <1>2, <1>3, PacketsAre
<1> QED
  BY <1>1, <1>2, <1>3, <1>4, <1>5, <1>6, <1>7 DEF Tiles

\* The places of the bytes of d that are not under way.
Covered(n, d, h) ==
  {q \in 0 .. h - 1 : \E j \in 1 .. Len(d) : d[j] \notin n /\ d[j].off <= q /\ q < d[j].off + d[j].len}

\* A sequence that has nothing twice.
Once(c) == \A k, l \in 1 .. Len(c) : c[k] = c[l] => k = l

\* The table t holds those of the packets d that are not under way, each
\* once and in the bucket of its offset; cnt is how many bytes that is.
Holds(t, T, n, cnt, d, h) ==
  /\ t \in [0 .. T - 1 -> Seq(NetPacket)]
  /\ \A x \in n : \E j \in 1 .. Len(d) : x = d[j]
  /\ \A b \in 0 .. T - 1 : \A k \in 1 .. Len(t[b]) :
       /\ \E j \in 1 .. Len(d) : t[b][k] = d[j]
       /\ t[b][k] \notin n
       /\ HashFn(T, t[b][k].off, h) = b
  /\ \A b \in 0 .. T - 1 : Once(t[b])
  /\ \A j \in 1 .. Len(d) : d[j] \in n \/ \E b \in 0 .. T - 1 : \E k \in 1 .. Len(t[b]) : t[b][k] = d[j]
  /\ cnt = Cardinality(Covered(n, d, h))

\* The fields of a packet of d.
LEMMA TileIs ==
  ASSUME NEW d, NEW h, NEW z, Tiles(d, h, z), NEW j \in 1 .. Len(d)
  PROVE  d[j] \in NetPacket /\ d[j].off \in Nat /\ d[j].len \in Nat
<1>1. d[j] \in NetPacket
  BY ElementOfSeq DEF Tiles
<1> QED
  BY <1>1 DEF NetPacket

\* A packet more covers its bytes more.
LEMMA CoversMore ==
  ASSUME NEW d, NEW h, NEW z, Tiles(d, h, z), NEW n, NEW i \in 1 .. Len(d), d[i] \in n
  PROVE  /\ Cardinality(Covered(n, d, h)) \in Nat
         /\ Cardinality(Covered(n \ {d[i]}, d, h)) = Cardinality(Covered(n, d, h)) + d[i].len
<1>1. PICK m \in Nat : m = Len(d) /\ h \in Nat
  BY LenProperties DEF Tiles
<1>2. PICK o, l \in Nat : o = d[i].off /\ l = d[i].len /\ o + l <= h
  BY TileIs DEF Tiles
<1>3. PICK A : A = Covered(n, d, h)
  OBVIOUS
<1>4. PICK B : B = o .. o + l - 1
  OBVIOUS
<1>5. ASSUME NEW j \in 1 .. m
      PROVE  /\ d[j].off \in Nat /\ d[j].len \in Nat
             /\ j < i => d[j].off < o /\ d[j].off + d[j].len <= o
             /\ i < j => o < d[j].off /\ o + l <= d[j].off
  <2>1. i \in 1 .. m
    BY <1>1
  <2> QED
    BY <1>1, <1>2, <2>1, TileIs DEF Tiles
<1>6. \A j \in 1 .. m : j # i => d[j] # d[i]
  <2> TAKE j \in 1 .. m
  <2>1. SUFFICES ASSUME j # i PROVE d[j].off # o
    BY <1>2
  <2>2. j < i \/ i < j
    BY <2>1
  <2>3. PICK a \in Nat : a = d[j].off
    BY <1>5
  <2>4. a < o \/ o < a
    BY <1>5, <2>2, <2>3
  <2> QED
    BY <2>3, <2>4
<1>7. Covered(n \ {d[i]}, d, h) = A \cup B
  <2>1. ASSUME NEW q \in Covered(n \ {d[i]}, d, h) PROVE q \in A \cup B
    <3>1. PICK j \in 1 .. m : q \in 0 .. h - 1 /\ d[j] \notin n \ {d[i]} /\ d[j].off <= q /\ q < d[j].off + d[j].len
      BY <1>1 DEF Covered
    <3>2. CASE j = i
      BY <1>2, <1>4, <3>1, <3>2
    <3>3. CASE j # i
      <4>1. d[j] \notin n
        BY <1>6, <3>1, <3>3
      <4> QED
        BY <1>1, <1>3, <3>1, <4>1 DEF Covered
    <3> QED
      BY <3>2, <3>3
  <2>2. ASSUME NEW q \in A PROVE q \in Covered(n \ {d[i]}, d, h)
    <3>1. PICK j \in 1 .. m : q \in 0 .. h - 1 /\ d[j] \notin n /\ d[j].off <= q /\ q < d[j].off + d[j].len
      BY <1>1, <1>3 DEF Covered
    <3> QED
      BY <1>1, <3>1 DEF Covered
  <2>3. ASSUME NEW q \in B PROVE q \in Covered(n \ {d[i]}, d, h)
    <3>1. q \in 0 .. h - 1 /\ o <= q /\ q < o + l
      BY SMTT(30), <1>1, <1>2, <1>4
    <3> QED
      BY <1>1, <1>2, <3>1 DEF Covered
  <2> QED
    BY <2>1, <2>2, <2>3
<1>8. A \cap B = {}
  <2>1. SUFFICES ASSUME NEW q \in A, q \in B PROVE FALSE
    OBVIOUS
  <2>2. PICK j \in 1 .. m : q \in 0 .. h - 1 /\ d[j] \notin n /\ d[j].off <= q /\ q < d[j].off + d[j].len
    BY <1>1, <1>3 DEF Covered
  <2>3. j < i \/ i < j
    BY <2>2
  <2>4. q \in Int /\ o <= q /\ q < o + l
    BY <1>2, <1>4, <2>1
  <2>5. PICK a, g \in Nat : a = d[j].off /\ g = d[j].len
    BY <1>5
  <2>6. a <= q /\ q < a + g
    BY <2>2, <2>5
  <2>7. a + g <= o \/ o + l <= a
    BY <1>5, <2>3, <2>5
  <2>8. PICK r \in Nat : r = q /\ o <= r /\ r < o + l
    BY <1>1, <2>2, <2>4
  <2>9. o \in Nat /\ l \in Nat
    OBVIOUS
  <2> QED
    BY <2>6, <2>7, <2>8, <2>9
<1>9. IsFiniteSet(A) /\ Cardinality(A) \in Nat
  <2>1. PICK e \in Int : e = h - 1
    BY <1>1
  <2>2. IsFiniteSet(0 .. e)
    BY FS_Interval
  <2>3. A \in SUBSET (0 .. e)
    BY <1>3, <2>1 DEF Covered
  <2> QED
    BY <2>2, <2>3, FS_Subset, FS_CardinalityType
<1>10. IsFiniteSet(B) /\ Cardinality(B) = l
  <2>1. PICK a, e \in Int : a = o /\ e = o + l - 1
    BY <1>2
  <2>2. IsFiniteSet(a .. e) /\ Cardinality(a .. e) = IF a > e THEN 0 ELSE e - a + 1
    BY FS_Interval
  <2>3. (IF a > e THEN 0 ELSE e - a + 1) = l
    BY SMTT(30), <1>2, <2>1
  <2>4. B = a .. e
    BY <1>4, <2>1
  <2> QED
    BY <2>2, <2>3, <2>4
<1>11. Cardinality(A \cup B) = Cardinality(A) + l
  <2>1. Cardinality(A \cup B) = Cardinality(A) + Cardinality(B) - Cardinality(A \cap B)
    BY <1>9, <1>10, FS_Union
  <2>2. Cardinality(A \cap B) = 0
    BY <1>8, FS_EmptySet
  <2> QED
    BY <1>9, <1>10, <2>1, <2>2
<1> QED
  BY <1>2, <1>3, <1>7, <1>9, <1>11

\* When as many bytes are covered as there are, all packets have arrived and
\* they reach the end.
LEMMA CoversAll ==
  ASSUME NEW d, NEW h, NEW z, Tiles(d, h, z), NEW n,
         Cardinality(Covered(n, d, h)) = h, h > 0
  PROVE  /\ \A j \in 1 .. Len(d) : d[j] \notin n
         /\ Len(d) > 0 /\ d[Len(d)].off + d[Len(d)].len = h
<1>1. PICK m \in Nat : m = Len(d) /\ h \in Nat
  BY LenProperties DEF Tiles
<1>2. PICK A : A = Covered(n, d, h)
  OBVIOUS
<1>3. A = 0 .. h - 1
  <2>1. PICK e \in Int : e = h - 1
    BY <1>1
  <2>2. IsFiniteSet(0 .. e) /\ Cardinality(0 .. e) = h
    <3>1. IsFiniteSet(0 .. e) /\ Cardinality(0 .. e) = IF 0 > e THEN 0 ELSE e - 0 + 1
      BY FS_Interval
    <3> QED
      BY <1>1, <2>1, <3>1
  <2>3. A \in SUBSET (0 .. e)
    BY <1>2, <2>1 DEF Covered
  <2>4. Cardinality(A) = h
    BY <1>2
  <2> QED
    BY <2>1, <2>2, <2>3, <2>4, FS_Subset
<1>4. ASSUME NEW j \in 1 .. m
      PROVE  d[j].off \in Nat /\ d[j].len \in Nat /\ d[j].len > 0 /\ d[j].off + d[j].len <= h
  BY <1>1, TileIs DEF Tiles
<1>5. ASSUME NEW q \in 0 .. h - 1
      PROVE  \E j \in 1 .. m : d[j] \notin n /\ d[j].off <= q /\ q < d[j].off + d[j].len
  BY <1>1, <1>2, <1>3 DEF Covered
<1>6. ASSUME NEW i \in 1 .. m, NEW j \in 1 .. m, i < j
      PROVE  d[i].off + d[i].len <= d[j].off
  BY <1>1, <1>6 DEF Tiles
<1>7. ASSUME NEW j \in 1 .. m PROVE d[j] \notin n
  <2>1. d[j].off \in 0 .. h - 1
    BY SMTT(30), <1>1, <1>4
  <2>2. PICK i \in 1 .. m : d[i] \notin n /\ d[i].off <= d[j].off /\ d[j].off < d[i].off + d[i].len
    BY <1>5, <2>1
  <2>3. i = j
    <3>1. SUFFICES ASSUME i < j \/ j < i PROVE FALSE
      OBVIOUS
    <3> QED
      BY <1>4, <1>6, <2>2, <3>1
  <2> QED
    BY <2>2, <2>3
<1>8. m > 0 /\ d[m].off + d[m].len = h
  <2>1. h - 1 \in 0 .. h - 1
    BY <1>1
  <2>2. PICK i \in 1 .. m : d[i] \notin n /\ d[i].off <= h - 1 /\ h - 1 < d[i].off + d[i].len
    BY <1>5, <2>1
  <2>3. m \in 1 .. m
    BY <2>2
  <2>4. i = m
    <3>1. SUFFICES ASSUME i < m PROVE FALSE
      OBVIOUS
    <3>2. d[i].off + d[i].len <= d[m].off
      BY <1>6, <2>3, <3>1
    <3> QED
      BY <1>1, <1>4, <2>2, <2>3, <3>2
  <2>5. PICK a, g \in Nat : a = d[m].off /\ g = d[m].len
    BY <1>4, <2>3
  <2>6. a + g <= h /\ h - 1 < a + g
    BY <1>4, <2>2, <2>3, <2>4, <2>5
  <2> QED
    BY <1>1, <2>3, <2>5, <2>6
<1> QED
  BY <1>1, <1>7, <1>8

\* Every packet hashes to a bucket of the table.
LEMMA TileHash ==
  ASSUME NEW d, NEW h, NEW z, Tiles(d, h, z), NEW i \in 1 .. Len(d), NEW T \in Nat \ {0}
  PROVE  HashFn(T, d[i].off, h) \in 0 .. T - 1
<1>1. PICK o, l \in Nat : o = d[i].off /\ l = d[i].len
  BY TileIs
<1>2. h \in Nat /\ o + l <= h
  BY <1>1 DEF Tiles
<1>3. o <= h /\ o <= o
  BY <1>1, <1>2
<1>4. HashFn(T, o, h) \in 0 .. T - 1
  BY <1>2, <1>3, Buckets
<1> QED
  BY <1>1, <1>4

\* A packet of the table.
HeldWell(x, T, n, d, h, b) ==
  (\E j \in 1 .. Len(d) : x = d[j]) /\ x \notin n /\ HashFn(T, x.off, h) = b

\* What is known of a packet of the table.
LEMMA HeldAt ==
  \A d, h, T, t, n, cnt : Holds(t, T, n, cnt, d, h) =>
    \A b \in 0 .. T - 1 : \A k \in 1 .. Len(t[b]) :
      HeldWell(t[b][k], T, n, d, h, b)
<1> TAKE d, h, T, t, n, cnt
<1> HAVE Holds(t, T, n, cnt, d, h)
<1> TAKE b \in 0 .. T - 1
<1> TAKE k \in 1 .. Len(t[b])
<1>1. /\ \E j \in 1 .. Len(d) : t[b][k] = d[j]
      /\ t[b][k] \notin n
      /\ HashFn(T, t[b][k].off, h) = b
  BY DEF Holds
<1> QED
  BY <1>1, Zenon DEF HeldWell

\* No packet is in a chain twice.
LEMMA HeldOnce ==
  \A d, h, T, t, n, cnt : Holds(t, T, n, cnt, d, h) => \A b \in 0 .. T - 1 : Once(t[b])
BY DEF Holds

\* A datagram that arrives goes from the wire to the table.
LEMMA StoredOne ==
  ASSUME NEW d, NEW h, NEW z, Tiles(d, h, z), NEW T \in Nat \ {0}, NEW t, NEW n, NEW cnt,
         Holds(t, T, n, cnt, d, h), NEW x \in n
  PROVE  Holds(AddO(t, HashFn(T, x.off, h), x), T, n \ {x}, cnt + x.len, d, h)
<1>1. PICK m \in Nat : m = Len(d)
  BY LenProperties DEF Tiles
<1>2. PICK i \in 1 .. m : x = d[i]
  BY <1>1 DEF Holds
<1>3. x \in NetPacket /\ x.off \in Nat /\ x.len \in Nat
  BY <1>1, <1>2, TileIs
<1>4. PICK id \in 0 .. T - 1 : id = HashFn(T, x.off, h)
  BY <1>1, <1>2, TileHash
<1>5. PICK u : u = AddO(t, id, x)
  OBVIOUS
<1>6. t \in [0 .. T - 1 -> Seq(NetPacket)]
  BY DEF Holds
<1>7. /\ u \in [0 .. T - 1 -> Seq(NetPacket)] /\ u[id] = Append(t[id], x)
      /\ \A b \in 0 .. T - 1 : b # id => u[b] = t[b]
  <2>1. PICK v \in Seq(NetPacket) : v = t[id]
    BY <1>6
  <2>2. u = [t EXCEPT ![id] = Append(v, x)] /\ Append(v, x) \in Seq(NetPacket)
    BY <1>3, <1>5, <2>1 DEF AddO
  <2> QED
    BY <1>6, <2>1, <2>2
<1>8. PICK w \in Nat : w = Len(t[id])
  BY <1>6, LenProperties
<1>9. Len(u[id]) = w + 1 /\ u[id][w + 1] = x /\ \A k \in 1 .. w : u[id][k] = t[id][k]
  <2>1. PICK v \in Seq(NetPacket) : v = t[id]
    BY <1>6
  <2> QED
    BY <1>3, <1>7, <1>8, <2>1
<1>10. ASSUME NEW b \in 0 .. T - 1, NEW k \in 1 .. Len(u[b])
       PROVE  \/ k \in 1 .. Len(t[b]) /\ u[b][k] = t[b][k]
              \/ b = id /\ k = w + 1 /\ u[b][k] = x
  <2>1. CASE b = id
    <3>1. k \in 1 .. w \/ k = w + 1
      BY <1>9, <2>1
    <3> QED
      BY <1>8, <1>9, <2>1, <3>1
  <2>2. CASE b # id
    BY <1>7, <2>2
  <2> QED
    BY <2>1, <2>2
<1>11. ASSUME NEW b \in 0 .. T - 1, NEW k \in 1 .. Len(t[b])
       PROVE  k \in 1 .. Len(u[b]) /\ u[b][k] = t[b][k]
  <2>1. CASE b = id
    <3>1. k \in 1 .. w /\ k \in 1 .. w + 1
      BY <1>8, <2>1
    <3> QED
      BY <1>9, <2>1, <3>1
  <2>2. CASE b # id
    BY <1>7, <2>2
  <2> QED
    BY <2>1, <2>2
<1>12. \A y \in n \ {x} : \E j \in 1 .. Len(d) : y = d[j]
  BY DEF Holds
<1>13. ASSUME NEW b \in 0 .. T - 1, NEW k \in 1 .. Len(u[b])
       PROVE  /\ \E j \in 1 .. Len(d) : u[b][k] = d[j]
              /\ u[b][k] \notin n \ {x}
              /\ HashFn(T, u[b][k].off, h) = b
  <2>1. CASE k \in 1 .. Len(t[b]) /\ u[b][k] = t[b][k]
    <3>1. PICK e : e = t[b][k]
      OBVIOUS
    <3>4. HeldWell(e, T, n, d, h, b)
      BY <2>1, <3>1, HeldAt, Zenon
    <3>2. (\E j \in 1 .. Len(d) : e = d[j]) /\ e \notin n /\ HashFn(T, e.off, h) = b
      BY <3>4, Zenon DEF HeldWell
    <3>3. u[b][k] = e
      BY <2>1, <3>1
    <3> QED
      BY <3>2, <3>3, Zenon
  <2>2. CASE b = id /\ k = w + 1 /\ u[b][k] = x
    BY <1>1, <1>2, <1>4, <2>2
  <2> QED
    BY <1>10, <2>1, <2>2
<1>14. ASSUME NEW b \in 0 .. T - 1, NEW k \in 1 .. Len(u[b]), NEW l \in 1 .. Len(u[b]), u[b][k] = u[b][l]
       PROVE  k = l
  <2>1. CASE k \in 1 .. Len(t[b]) /\ u[b][k] = t[b][k]
    <3>1. t[b][k] \notin n
      BY <2>1 DEF Holds
    <3>2. ~(b = id /\ l = w + 1 /\ u[b][l] = x)
      BY <1>14, <2>1, <3>1
    <3>3. l \in 1 .. Len(t[b]) /\ u[b][l] = t[b][l]
      BY <1>10, <3>2
    <3>4. t[b][k] = t[b][l]
      BY <1>14, <2>1, <3>3, Zenon
    <3> QED
      <4>1. Once(t[b])
        BY HeldOnce, Zenon
      <4> QED
        BY <2>1, <3>3, <3>4, <4>1 DEF Once
  <2>2. CASE b = id /\ k = w + 1 /\ u[b][k] = x
    <3>1. ~(l \in 1 .. Len(t[b]) /\ u[b][l] = t[b][l])
      <4>1. SUFFICES ASSUME l \in 1 .. Len(t[b]), u[b][l] = t[b][l] PROVE FALSE
        OBVIOUS
      <4>2. t[b][l] \notin n
        BY <4>1 DEF Holds
      <4> QED
        BY <1>14, <2>2, <4>1, <4>2
    <3>2. l = w + 1
      BY <1>10, <3>1
    <3> QED
      BY <2>2, <3>2
  <2> QED
    BY <1>10, <2>1, <2>2
<1>a. ASSUME NEW b \in 0 .. T - 1 PROVE Once(u[b])
  BY <1>14 DEF Once
<1>15. ASSUME NEW j \in 1 .. Len(d)
       PROVE  d[j] \in n \ {x} \/ \E b \in 0 .. T - 1 : \E k \in 1 .. Len(u[b]) : u[b][k] = d[j]
  <2>1. CASE d[j] = x
    <3>1. w + 1 \in 1 .. Len(u[id]) /\ u[id][w + 1] = x
      BY <1>8, <1>9
    <3> QED
      BY <2>1, <3>1
  <2>2. CASE d[j] # x /\ d[j] \notin n
    <3>0. PICK b \in 0 .. T - 1 : \E k \in 1 .. Len(t[b]) : t[b][k] = d[j]
      BY <2>2 DEF Holds
    <3>1. PICK k \in 1 .. Len(t[b]) : t[b][k] = d[j]
      BY <3>0
    <3>2. k \in 1 .. Len(u[b]) /\ u[b][k] = d[j]
      BY <1>11, <3>1
    <3> QED
      BY <3>2
  <2> QED
    BY <2>1, <2>2
<1>16. cnt + x.len = Cardinality(Covered(n \ {x}, d, h))
  <2>1. cnt = Cardinality(Covered(n, d, h))
    BY DEF Holds
  <2> QED
    BY <1>1, <1>2, <2>1, CoversMore
<1>17. Holds(u, T, n \ {x}, cnt + x.len, d, h)
  BY <1>7, <1>12, <1>13, <1>a, <1>15, <1>16, Zenon DEF Holds
<1> QED
  BY <1>4, <1>5, <1>17

\* At first everything is under way.
LEMMA StoredNone ==
  ASSUME NEW d, NEW h, NEW z, Tiles(d, h, z), NEW T \in Nat \ {0}, NEW n,
         n = {d[j] : j \in 1 .. Len(d)}
  PROVE  Holds(EmptyTable(T), T, n, 0, d, h)
<1>1. PICK t : t = EmptyTable(T)
  OBVIOUS
<1>2. t \in [0 .. T - 1 -> Seq(NetPacket)] /\ \A b \in 0 .. T - 1 : t[b] = <<>>
  BY <1>1 DEF EmptyTable
<1>3. \A b \in 0 .. T - 1 : \A k : k \notin 1 .. Len(t[b])
  BY <1>2
<1>4. Covered(n, d, h) = {}
  BY DEF Covered
<1>5. Cardinality(Covered(n, d, h)) = 0
  BY <1>4, FS_EmptySet
<1> QED
  BY <1>1, <1>2, <1>3, <1>5 DEF Holds, Once

\* The table t holds all the packets d, and they reach the end.
Full(t, T, d, h) ==
  /\ T \in Nat \ {0} /\ t \in [0 .. T - 1 -> Seq(NetPacket)]
  /\ \A b \in 0 .. T - 1 : \A k \in 1 .. Len(t[b]) :
       /\ \E j \in 1 .. Len(d) : t[b][k] = d[j]
       /\ HashFn(T, t[b][k].off, h) = b
  /\ \A j \in 1 .. Len(d) : \E b \in 0 .. T - 1 : \E k \in 1 .. Len(t[b]) : t[b][k] = d[j]
  /\ Len(d) > 0 /\ d[Len(d)].off + d[Len(d)].len = h

\* When all bytes are there, no packet is missing.
LEMMA StoredAll ==
  ASSUME NEW d, NEW h, NEW z, Tiles(d, h, z), NEW T \in Nat \ {0}, NEW t, NEW n,
         Holds(t, T, n, h, d, h), \E b \in 0 .. T - 1 : t[b] # <<>>
  PROVE  Full(t, T, d, h)
<1>1. PICK m \in Nat : m = Len(d) /\ h \in Nat
  BY LenProperties DEF Tiles
<1>2. /\ \A j \in 1 .. m : d[j] \notin n
      /\ m > 0 /\ d[m].off + d[m].len = h
  <2>1. CASE h > 0
    <3>1. Cardinality(Covered(n, d, h)) = h
      BY DEF Holds
    <3> QED
      BY <1>1, <2>1, <3>1, CoversAll
  <2>2. CASE h = 0
    <3>1. PICK b \in 0 .. T - 1 : t[b] # <<>>
      OBVIOUS
    <3>2. 1 \in 1 .. Len(t[b])
      <4>1. t[b] \in Seq(NetPacket)
        BY DEF Holds
      <4> QED
        BY <3>1, <4>1, LenProperties, EmptySeq
    <3>8. HeldWell(t[b][1], T, n, d, h, b)
      BY <3>2, HeldAt, Zenon
    <3>7. (\E j \in 1 .. Len(d) : t[b][1] = d[j]) /\ t[b][1] \notin n
      BY <3>8, Zenon DEF HeldWell
    <3>3. PICK j \in 1 .. m : t[b][1] = d[j] /\ d[j] \notin n
      BY <1>1, <3>7, Zenon
    <3>4. m = 1 /\ j = 1
      BY <1>1, <2>2, <3>3 DEF Tiles
    <3>5. d[1].off \in Nat /\ d[1].len \in Nat /\ d[1].off + d[1].len <= h
      BY <1>1, <3>4, TileIs DEF Tiles
    <3>6. \A i \in 1 .. m : i = 1
      BY <3>4
    <3> QED
      BY <2>2, <3>3, <3>4, <3>5, <3>6
  <2> QED
    BY <1>1, <2>1, <2>2
<1>3. /\ t \in [0 .. T - 1 -> Seq(NetPacket)]
      /\ \A j \in 1 .. Len(d) :
           d[j] \in n \/ \E b \in 0 .. T - 1 : \E k \in 1 .. Len(t[b]) : t[b][k] = d[j]
  BY Zenon DEF Holds
<1>4. \A b \in 0 .. T - 1 : \A k \in 1 .. Len(t[b]) :
        (\E j \in 1 .. Len(d) : t[b][k] = d[j]) /\ HashFn(T, t[b][k].off, h) = b
  <2> TAKE b \in 0 .. T - 1
  <2> TAKE k \in 1 .. Len(t[b])
  <2>1. HeldWell(t[b][k], T, n, d, h, b)
    BY HeldAt, Zenon
  <2> QED
    BY <2>1, Zenon DEF HeldWell
<1>5. \A j \in 1 .. Len(d) : \E b \in 0 .. T - 1 : \E k \in 1 .. Len(t[b]) : t[b][k] = d[j]
  BY <1>1, <1>2, <1>3, Zenon
<1>6. Len(d) > 0 /\ d[Len(d)].off + d[Len(d)].len = h
  BY <1>1, <1>2, Zenon
<1> QED
  BY <1>3, <1>4, <1>5, <1>6, Zenon DEF Full

\* A table with more buckets than the heap has packets has a bucket for each.
LEMMA Apart ==
  ASSUME NEW a \in Nat, NEW b \in Nat, NEW h \in Nat, NEW z \in Nat \ {0}, NEW T \in Nat \ {0},
         a + z <= b, h > 0, h <= (T - 1) * z
  PROVE  HashFn(T, a, h) # HashFn(T, b, h)
<1>1. PICK l \in Nat : l = T - 1
  OBVIOUS
<1>2. T # 1
  BY <1>1
<1>3. HashFn(T, a, h) = (a * l) \div h /\ HashFn(T, b, h) = (b * l) \div h
  BY <1>1, <1>2 DEF HashFn
<1>4. PICK c \in Nat : b = a + z + c
  <2>1. b - a - z \in Nat /\ b = a + z + (b - a - z)
    OBVIOUS
  <2> QED
    BY <2>1
<1>5. b * l = a * l + l * z + c * l
  BY <1>1, <1>4
<1>6. PICK x, y, u, v \in Nat : x = a * l /\ y = b * l /\ u = l * z /\ v = c * l
  BY <1>1, <1>4
<1>7. x + h <= y
  BY <1>1, <1>5, <1>6
<1>8. PICK q \in Int : q = x \div h /\ q * h <= x /\ x < (q + 1) * h
  OBVIOUS
<1>9. PICK r \in Int : r = y \div h /\ r * h <= y /\ y < (r + 1) * h
  OBVIOUS
<1>10. q # r
  <2>1. SUFFICES ASSUME q = r PROVE FALSE
    OBVIOUS
  <2>2. (q + 1) * h = q * h + h
    OBVIOUS
  <2>3. q * h + h <= x + h
    BY <1>8
  <2> QED
    BY <1>7, <1>9, <2>1, <2>2, <2>3
<1> QED
  BY <1>3, <1>6, <1>8, <1>9, <1>10

\* With more buckets than packets a chain has at most one.
LEMMA OneEach ==
  ASSUME NEW d, NEW h, NEW z, Tiles(d, h, z), NEW T \in Nat \ {0}, NEW t, NEW n, NEW cnt,
         Holds(t, T, n, cnt, d, h), h <= (T - 1) * z, NEW b \in 0 .. T - 1
  PROVE  Len(t[b]) \in {0, 1}
<1>1. PICK m \in Nat : m = Len(d) /\ h \in Nat /\ z \in Nat \ {0}
  BY LenProperties DEF Tiles
<1>2. PICK w \in Nat : w = Len(t[b])
  BY LenProperties DEF Holds
<1>3. SUFFICES ASSUME w > 1 PROVE FALSE
  <2>1. w > 1 \/ w = 0 \/ w = 1
    OBVIOUS
  <2> QED
    BY <1>2, <2>1
<1>4. 1 \in 1 .. w /\ 2 \in 1 .. w
  BY <1>3
<1>a. ASSUME NEW k \in 1 .. w
      PROVE  \E i \in 1 .. m : t[b][k] = d[i] /\ HashFn(T, d[i].off, h) = b
  <2>1. k \in 1 .. Len(t[b])
    BY <1>2
  <2>3. HeldWell(t[b][k], T, n, d, h, b)
    BY <2>1, HeldAt, Zenon
  <2>2. (\E j \in 1 .. Len(d) : t[b][k] = d[j]) /\ HashFn(T, t[b][k].off, h) = b
    BY <2>3, Zenon DEF HeldWell
  <2> QED
    BY <1>1, <2>2, Zenon
<1>5. PICK i \in 1 .. m : t[b][1] = d[i] /\ HashFn(T, d[i].off, h) = b
  BY <1>4, <1>a
<1>6. PICK j \in 1 .. m : t[b][2] = d[j] /\ HashFn(T, d[j].off, h) = b
  BY <1>4, <1>a
<1>7. i # j
  <2>1. SUFFICES ASSUME t[b][1] = t[b][2] PROVE FALSE
    BY <1>5, <1>6
  <2>3. Once(t[b])
    BY HeldOnce, Zenon
  <2>2. 1 = 2
    BY <1>2, <1>4, <2>1, <2>3 DEF Once
  <2> QED
    BY <2>2
<1>8. h > 0
  <2>1. SUFFICES ASSUME h = 0 PROVE FALSE
    BY <1>1
  <2>2. m <= 1
    BY <1>1, <2>1 DEF Tiles
  <2> QED
    BY <1>7, <2>2
<1>9. ASSUME NEW p1 \in 1 .. m, NEW p2 \in 1 .. m, p1 < p2
      PROVE  HashFn(T, d[p1].off, h) # HashFn(T, d[p2].off, h)
  <2>1. PICK a, c \in Nat : a = p1 - 1 /\ c = p2 - 1 /\ a < c
    BY <1>9
  <2>2. d[p1].off = a * z /\ d[p2].off = c * z
    BY <1>1, <2>1 DEF Tiles
  <2>3. a * z + z <= c * z
    BY <1>1, <2>1, Rows, Zenon
  <2>4. PICK x, y \in Nat : x = a * z /\ y = c * z
    BY <1>1, <2>1
  <2> QED
    BY <1>1, <1>8, <2>2, <2>3, <2>4, Apart
<1>10. i < j \/ j < i
  BY <1>7
<1> QED
  BY <1>5, <1>6, <1>9, <1>10

(***************************************************************************)
(* The order of the packets in a table that is well chained                *)
(***************************************************************************)

\* In each chain the packets are in the order of their offsets.
Rising(t, T) == \A b \in 0 .. T - 1 : \A k \in 2 .. Len(t[b]) : t[b][k - 1].off < t[b][k].off

\* What rises from each to the next rises.
LEMMA Rises ==
  ASSUME NEW n \in Nat, NEW o, \A k \in 1 .. n : o[k] \in Nat, \A k \in 2 .. n : o[k - 1] < o[k]
  PROVE  \A l \in 1 .. n : \A k \in 1 .. l - 1 : o[k] < o[l]
<1> DEFINE R == {l \in Nat : l \in 1 .. n => \A k \in 1 .. l - 1 : o[k] < o[l]}
<1> HIDE DEF R
<1>1. 0 \in R
  BY DEF R
<1>2. ASSUME NEW i \in R PROVE i + 1 \in R
  <2>0. i \in Nat
    BY DEF R
  <2>1. PICK l \in Nat : l = i + 1
    BY <2>0
  <2>2. SUFFICES ASSUME l \in 1 .. n, NEW k \in 1 .. l - 1 PROVE o[k] < o[l]
    BY <2>1 DEF R
  <2>3. l - 1 = i /\ l \in 2 .. n /\ i \in 1 .. n /\ k \in 1 .. n
    BY <2>0, <2>1, <2>2
  <2>4. o[i] < o[l] /\ o[i] \in Nat /\ o[l] \in Nat /\ o[k] \in Nat
    BY <2>3
  <2>5. k = i \/ k \in 1 .. i - 1
    BY <2>3
  <2>6. k \in 1 .. i - 1 => o[k] < o[i]
    BY <2>3 DEF R
  <2> QED
    BY <2>4, <2>5, <2>6
<1>3. R = Nat
  <2>1. R \in SUBSET Nat
    BY DEF R
  <2> QED
    BY <1>1, <1>2, <2>1, EveryNumber
<1>4. ASSUME NEW l \in 1 .. n PROVE \A k \in 1 .. l - 1 : o[k] < o[l]
  <2>1. l \in R
    BY <1>3
  <2> QED
    BY <2>1 DEF R
<1> QED
  BY <1>4

\* A packet of the table: where it is, and which it is.
LEMMA FullAt ==
  ASSUME NEW d, NEW h, NEW z, Tiles(d, h, z), NEW T, NEW t, Full(t, T, d, h),
         NEW b \in 0 .. T - 1, NEW k \in 1 .. Len(t[b])
  PROVE  /\ \E j \in 1 .. Len(d) : t[b][k] = d[j]
         /\ t[b][k].off \in Nat /\ HashFn(T, t[b][k].off, h) = b
         /\ Len(t[b]) \in Nat
<1>1. PICK x : x = t[b][k]
  OBVIOUS
<1>2. (\E j \in 1 .. Len(d) : x = d[j]) /\ HashFn(T, x.off, h) = b
  BY <1>1 DEF Full
<1>3. PICK j \in 1 .. Len(d) : x = d[j]
  BY <1>2
<1>4. x.off \in Nat
  BY <1>3, TileIs
<1>5. t[b] \in Seq(NetPacket)
  BY DEF Full
<1> QED
  BY <1>1, <1>2, <1>4, <1>5, LenProperties

\* Which packet it is.
Which(x, T, d, h, b) ==
  \E j \in 1 .. Len(d) : x = d[j] /\ HashFn(T, d[j].off, h) = b /\ d[j].off \in Nat

\* A packet of a full table is one of those sent.
LEMMA FullWhich ==
  ASSUME NEW d, NEW h, NEW z, Tiles(d, h, z), NEW T, NEW t, Full(t, T, d, h),
         NEW b \in 0 .. T - 1, NEW k \in 1 .. Len(t[b])
  PROVE  Which(t[b][k], T, d, h, b)
<1>1. PICK x : x = t[b][k]
  OBVIOUS
<1>2. (\E j \in 1 .. Len(d) : x = d[j]) /\ x.off \in Nat /\ HashFn(T, x.off, h) = b
  BY <1>1, FullAt
<1>3. PICK j \in 1 .. Len(d) : x = d[j]
  BY <1>2
<1>4. d[j].off \in Nat /\ HashFn(T, d[j].off, h) = b
  BY <1>2, <1>3, Zenon
<1> QED
  BY <1>1, <1>3, <1>4 DEF Which

\* The packets of a chain rise.
LEMMA ChainRises ==
  ASSUME NEW d, NEW h, NEW z, Tiles(d, h, z), NEW T, NEW t, Full(t, T, d, h), Rising(t, T),
         NEW b \in 0 .. T - 1, NEW l \in 1 .. Len(t[b]), NEW k \in 1 .. l - 1
  PROVE  k \in 1 .. Len(t[b]) /\ t[b][k].off < t[b][l].off
<1>1. PICK n \in Nat : n = Len(t[b])
  BY FullAt
<1>2. PICK o : o = [i \in 1 .. n |-> t[b][i].off]
  OBVIOUS
<1>3. \A i \in 1 .. n : o[i] \in Nat
  BY <1>1, <1>2, FullAt
<1>4. \A i \in 2 .. n : o[i - 1] < o[i]
  <2> TAKE i \in 2 .. n
  <2>1. i - 1 \in 1 .. n /\ i \in 1 .. n
    OBVIOUS
  <2>2. t[b][i - 1].off < t[b][i].off
    BY <1>1 DEF Rising
  <2> QED
    BY <1>2, <2>1, <2>2
<1>5. l \in 1 .. n /\ k \in 1 .. n
  BY <1>1
<1>6. o[k] < o[l]
  BY <1>3, <1>4, <1>5, Rises
<1> QED
  BY <1>1, <1>2, <1>5, <1>6

\* No offset of a later bucket is smaller.
LEMMA BucketRises ==
  \A T \in Nat \ {0} : \A h, o, u \in Nat : HashFn(T, o, h) < HashFn(T, u, h) => o < u
<1> TAKE T \in Nat \ {0}
<1> TAKE h, o, u \in Nat
<1>1. SUFFICES ASSUME u <= o PROVE ~(HashFn(T, o, h) < HashFn(T, u, h))
  OBVIOUS
<1>2. HashFn(T, u, h) \in Nat /\ HashFn(T, u, h) <= HashFn(T, o, h)
  BY <1>1, Buckets
<1>3. HashFn(T, o, h) \in Nat
  <2>1. o <= o
    OBVIOUS
  <2> QED
    BY <2>1, Buckets
<1> QED
  BY <1>2, <1>3

\* hash_fn_spead_packet does not fall when the offset grows.
LEMMA BucketKeeps ==
  \A T \in Nat \ {0} : \A h, o, u \in Nat : o <= u => HashFn(T, o, h) <= HashFn(T, u, h)
BY Buckets

\* The smallest number of a set.
LEMMA MinIs ==
  ASSUME NEW s \in SUBSET Nat, s # {}
  PROVE  Min(s) \in s /\ \A i \in s : Min(s) <= i
<1>1. \E x \in s : \A y \in s : x <= y
  BY LeastNumber
<1>2. PICK x : x = Min(s)
  OBVIOUS
<1>3. x \in s /\ \A y \in s : x <= y
  BY <1>1, <1>2 DEF Min
<1> QED
  BY <1>2, <1>3

\* FirstFrom, and where the cursor goes from place k of chain b.
FirstAt(t, T, i) ==
  LET filled == {b \in 0 .. T - 1 : b >= i /\ t[b] # <<>>}
  IN IF filled = {} THEN <<T, 0>> ELSE <<Min(filled), 1>>

NextAt(t, T, b, k) == IF k < Len(t[b]) THEN <<b, k + 1>> ELSE FirstAt(t, T, b + 1)

\* Packet x is at place pl.
PlaceOf(t, T, pl, x) ==
  \E b \in 0 .. T - 1 : \E k \in 1 .. Len(t[b]) : pl = <<b, k>> /\ t[b][k] = x

\* From bucket i on the table begins with the first packet that is not in an
\* earlier bucket.
LEMMA FirstAtIs ==
  ASSUME NEW d, NEW h, NEW z, Tiles(d, h, z), NEW T, NEW t, Full(t, T, d, h), Rising(t, T),
         NEW i \in Nat, NEW j \in 1 .. Len(d),
         HashFn(T, d[j].off, h) >= i,
         \A g \in 1 .. Len(d) : HashFn(T, d[g].off, h) >= i => d[j].off <= d[g].off
  PROVE  PlaceOf(t, T, FirstAt(t, T, i), d[j])
<1>1. T \in Nat \ {0} /\ h \in Nat /\ t \in [0 .. T - 1 -> Seq(NetPacket)]
  BY DEF Full, Tiles
<1>2. PICK b \in 0 .. T - 1 : \E k \in 1 .. Len(t[b]) : t[b][k] = d[j]
  BY DEF Full
<1>3. PICK k \in 1 .. Len(t[b]) : t[b][k] = d[j]
  BY <1>2
<1>4. HashFn(T, d[j].off, h) = b /\ d[j].off \in Nat /\ Len(t[b]) \in Nat
  BY <1>3, FullAt
<1>5. PICK filled : filled = {c \in 0 .. T - 1 : c >= i /\ t[c] # <<>>}
  OBVIOUS
<1>6. b \in filled
  <2>1. t[b] # <<>>
    BY <1>3
  <2> QED
    BY <1>4, <1>5, <2>1
<1>7. filled \in SUBSET Nat /\ filled # {}
  <2>1. \A c \in 0 .. T - 1 : c \in Nat
    OBVIOUS
  <2> QED
    BY <1>5, <1>6, <2>1
<1>8. PICK c \in filled : c = Min(filled) /\ c <= b
  BY <1>6, <1>7, MinIs
<1>9. c \in 0 .. T - 1 /\ c >= i /\ t[c] # <<>>
  BY <1>5
<1>10. 1 \in 1 .. Len(t[c])
  <2>1. t[c] \in Seq(NetPacket)
    BY <1>1, <1>9
  <2> QED
    BY <1>9, <2>1, LenProperties, EmptySeq
<1>11. PICK g \in 1 .. Len(d) : t[c][1] = d[g] /\ HashFn(T, d[g].off, h) = c /\ d[g].off \in Nat
  BY <1>9, <1>10, FullWhich DEF Which
<1>12. d[j].off <= d[g].off
  BY <1>9, <1>11
<1>13. b <= c
  BY <1>1, <1>4, <1>11, <1>12, BucketKeeps
<1>14. c = b
  BY <1>1, <1>8, <1>9, <1>13
<1>15. k = 1
  <2>1. SUFFICES ASSUME k # 1 PROVE FALSE
    OBVIOUS
  <2>2. 1 \in 1 .. k - 1
    BY <1>4, <2>1
  <2>3. t[b][1].off < t[b][k].off
    BY <2>2, ChainRises
  <2> QED
    BY <1>3, <1>4, <1>11, <1>12, <1>14, <2>3
<1>16. FirstAt(t, T, i) = <<b, 1>>
  BY <1>5, <1>7, <1>8, <1>14 DEF FirstAt
<1> QED
  BY <1>3, <1>15, <1>16 DEF PlaceOf

\* The first packet is where the cursor starts.
LEMMA StartsAt ==
  ASSUME NEW d, NEW h, NEW z, Tiles(d, h, z), NEW T, NEW t, Full(t, T, d, h), Rising(t, T)
  PROVE  1 \in 1 .. Len(d) /\ PlaceOf(t, T, FirstAt(t, T, 0), d[1])
<1>1. PICK m \in Nat \ {0} : m = Len(d) /\ h \in Nat /\ T \in Nat \ {0}
  BY LenProperties DEF Full, Tiles
<1>2. 1 \in 1 .. m
  BY <1>1
<1>3. d[1].off = 0
  BY <1>1, <1>2 DEF Tiles
<1>4. HashFn(T, d[1].off, h) >= 0
  <2>1. HashFn(T, d[1].off, h) \in 0 .. T - 1
    BY <1>1, <1>2, TileHash, Zenon
  <2> QED
    BY <2>1
<1>5. \A g \in 1 .. m : d[1].off <= d[g].off
  BY <1>1, <1>3, TileIs
<1> QED
  BY <1>1, <1>2, <1>4, <1>5, FirstAtIs

\* From a packet the cursor goes to the next one.
LEMMA NextAtIs ==
  ASSUME NEW d, NEW h, NEW z, Tiles(d, h, z), NEW T, NEW t, Full(t, T, d, h), Rising(t, T),
         NEW j \in 1 .. Len(d), j < Len(d),
         NEW b \in 0 .. T - 1, NEW k \in 1 .. Len(t[b]), t[b][k] = d[j]
  PROVE  PlaceOf(t, T, NextAt(t, T, b, k), d[j + 1])
<1>1. PICK m \in Nat \ {0} : m = Len(d) /\ h \in Nat /\ T \in Nat \ {0}
  BY LenProperties DEF Full, Tiles
<1>2. PICK e \in 1 .. m : e = j + 1
  BY <1>1
<1>3. PICK o, u \in Nat : o = d[j].off /\ u = d[e].off /\ o < u
  <2>1. j < e /\ d[j].off \in Nat /\ d[e].off \in Nat
    BY <1>1, <1>2, TileIs
  <2>2. d[j].off < d[e].off
    BY <1>1, <1>2, <2>1 DEF Tiles
  <2> QED
    BY <2>1, <2>2
<1>4. ASSUME NEW g \in 1 .. m
      PROVE  d[g].off \in Nat /\ (d[g].off <= o \/ u <= d[g].off)
  <2>1. d[g].off \in Nat
    BY <1>1, TileIs
  <2>2. g = j \/ g = e \/ g < j \/ e < g
    BY <1>2
  <2>3. g < j => d[g].off < d[j].off
    BY <1>1 DEF Tiles
  <2>4. e < g => d[e].off < d[g].off
    BY <1>1 DEF Tiles
  <2> QED
    BY <1>3, <2>1, <2>2, <2>3, <2>4
<1>5. HashFn(T, o, h) = b /\ Len(t[b]) \in Nat
  BY <1>3, FullAt
<1>6. PICK b2 \in 0 .. T - 1 : \E l \in 1 .. Len(t[b2]) : t[b2][l] = d[e]
  BY <1>1 DEF Full
<1>7. PICK k2 \in 1 .. Len(t[b2]) : t[b2][k2] = d[e]
  BY <1>6
<1>8. HashFn(T, u, h) = b2 /\ Len(t[b2]) \in Nat
  BY SMTT(30), <1>3, <1>7, FullAt
<1>9. b <= b2
  BY SMTT(30), <1>1, <1>3, <1>5, <1>8, BucketKeeps
<1>10. CASE b2 = b
  <2>1. k < k2
    <3>1. SUFFICES ASSUME k2 <= k PROVE FALSE
      BY <1>5
    <3>2. k2 # k
      BY <1>3, <1>7, <1>10
    <3>3. k2 \in 1 .. k - 1
      BY <1>8, <1>10, <3>1, <3>2
    <3>4. t[b][k2].off < t[b][k].off
      BY <3>3, ChainRises
    <3>5. t[b][k2].off = u /\ t[b][k].off = o
      BY <1>3, <1>7, <1>10
    <3>6. u < o
      BY <3>4, <3>5
    <3> QED
      BY SMTT(30), <1>3, <3>6
  <2>2. k + 1 = k2
    <3>1. SUFFICES ASSUME k + 1 < k2 PROVE FALSE
      BY <1>5, <1>8, <2>1
    <3>2. PICK l \in 1 .. Len(t[b]) : l = k + 1 /\ k \in 1 .. l - 1 /\ l \in 1 .. k2 - 1
      BY <1>5, <1>8, <1>10, <3>1
    <3>3. t[b][k].off < t[b][l].off
      BY <3>2, ChainRises
    <3>4. t[b][l].off < t[b][k2].off
      BY <1>10, <3>2, ChainRises
    <3>5. PICK g \in 1 .. m : t[b][l] = d[g]
      <4>1. Which(t[b][l], T, d, h, b)
        BY FullWhich
      <4> QED
        BY <1>1, <4>1 DEF Which
    <3>6. PICK v \in Nat : v = d[g].off
      BY <1>4
    <3>7. t[b][k2].off = u /\ t[b][k].off = o /\ t[b][l].off = v
      BY <1>3, <1>7, <1>10, <3>5, <3>6
    <3>8. o < v /\ v < u
      BY <3>3, <3>4, <3>7
    <3>9. v <= o \/ u <= v
      BY <1>4, <3>6
    <3> QED
      BY <3>8, <3>9
  <2>3. NextAt(t, T, b, k) = <<b, k2>>
    <3>1. k < Len(t[b])
      BY <1>5, <1>8, <1>10, <2>1
    <3> QED
      BY <2>2, <3>1 DEF NextAt
  <2> QED
    BY <1>2, <1>7, <1>10, <2>3 DEF PlaceOf
<1>11. CASE b2 # b
  <2>1. b < b2
    BY <1>1, <1>9, <1>11
  <2>2. ASSUME NEW g \in 1 .. m, HashFn(T, d[g].off, h) > b PROVE u <= d[g].off
    <3>1. d[g].off \in Nat
      BY <1>4
    <3>2. o < d[g].off
      BY <1>1, <1>3, <1>5, <2>2, <3>1, BucketRises
    <3> QED
      BY SMTT(30), <1>3, <1>4, <3>2
  <2>3. ~(k < Len(t[b]))
    <3>1. SUFFICES ASSUME k < Len(t[b]) PROVE FALSE
      OBVIOUS
    <3>2. PICK l \in 1 .. Len(t[b]) : l = k + 1 /\ k \in 1 .. l - 1
      BY <1>5, <3>1
    <3>3. t[b][k].off < t[b][l].off
      BY <3>2, ChainRises
    <3>b. Which(t[b][l], T, d, h, b)
      BY FullWhich
    <3>a. \E g \in 1 .. Len(d) : t[b][l] = d[g] /\ HashFn(T, d[g].off, h) = b /\ d[g].off \in Nat
      BY <3>b DEF Which
    <3>4. PICK g \in 1 .. m : t[b][l] = d[g] /\ HashFn(T, d[g].off, h) = b
      BY <1>1, <3>a
    <3>7. PICK v \in Nat : v = d[g].off
      BY <1>4
    <3>8. t[b][k].off = o /\ t[b][l].off = v
      BY <1>3, <3>4, <3>7
    <3>9. o < v
      BY <3>3, <3>8
    <3>10. v <= o \/ u <= v
      BY <1>4, <3>7
    <3>5. d[g].off \in Nat /\ u <= d[g].off
      BY <1>3, <3>7, <3>9, <3>10
    <3>6. b2 <= b
      BY <1>1, <1>8, <3>4, <3>5, BucketKeeps
    <3> QED
      BY <1>1, <2>1, <3>6
  <2>4. NextAt(t, T, b, k) = FirstAt(t, T, b + 1)
    BY <2>3 DEF NextAt
  <2>5. b + 1 \in Nat /\ HashFn(T, d[e].off, h) >= b + 1
    BY <1>1, <1>3, <1>8, <2>1
  <2>6. \A g \in 1 .. m : HashFn(T, d[g].off, h) >= b + 1 => d[e].off <= d[g].off
    <3> TAKE g \in 1 .. m
    <3> HAVE HashFn(T, d[g].off, h) >= b + 1
    <3>1. HashFn(T, d[g].off, h) \in 0 .. T - 1
      BY <1>1, TileHash
    <3>2. HashFn(T, d[g].off, h) > b
      BY <1>1, <3>1
    <3> QED
      BY <1>3, <2>2, <3>2
  <2>7. PlaceOf(t, T, FirstAt(t, T, b + 1), d[e])
    BY <1>1, <2>5, <2>6, FirstAtIs
  <2> QED
    BY <1>2, <2>4, <2>7
<1> QED
  BY <1>10, <1>11

\* A rising map of 1 .. n onto 1 .. m is the identity.
RisingOnto(sig, n, m) ==
  /\ \A q, r \in 1 .. n : q < r => sig[q] < sig[r]
  /\ \A j \in 1 .. m : \E q \in 1 .. n : sig[q] = j

SameMap(sig, n, m) == n = m /\ \A q \in 1 .. n : sig[q] = q

\* Such a map leaves every number in its place.
LEMMA Identities ==
  \A n, m \in Nat : \A sig \in [1 .. n -> 1 .. m] : RisingOnto(sig, n, m) => SameMap(sig, n, m)
<1> TAKE n, m \in Nat
<1> TAKE sig \in [1 .. n -> 1 .. m]
<1> HAVE RisingOnto(sig, n, m)
<1> /\ \A q, r \in 1 .. n : q < r => sig[q] < sig[r]
    /\ \A j \in 1 .. m : \E q \in 1 .. n : sig[q] = j
  BY DEF RisingOnto
<1> DEFINE R == {q \in Nat : q \in 1 .. n => sig[q] = q}
<1> HIDE DEF R
<1>1. 0 \in R
  BY DEF R
<1>2. ASSUME NEW i \in R PROVE i + 1 \in R
  <2>0. i \in Nat
    BY DEF R
  <2>1. PICK q \in Nat : q = i + 1
    BY <2>0
  <2>2. SUFFICES ASSUME q \in 1 .. n PROVE sig[q] = q
    BY <2>1 DEF R
  <2>3. sig[q] \in 1 .. m /\ sig[q] \in Nat
    BY <2>2
  <2>4. sig[q] >= q
    <3>1. CASE i = 0
      BY <2>1, <2>3, <3>1
    <3>2. CASE i # 0
      <4>1. i \in 1 .. n /\ i < q
        BY <2>0, <2>1, <2>2, <3>2
      <4>2. sig[i] = i
        BY <4>1 DEF R
      <4>3. sig[i] < sig[q]
        BY <2>2, <4>1
      <4> QED
        BY <2>0, <2>1, <2>3, <4>2, <4>3
    <3> QED
      BY <3>1, <3>2
  <2>5. CASE sig[q] > q
    <3>1. q \in 1 .. m
      BY <2>0, <2>1, <2>3, <2>5
    <3>2. PICK l \in 1 .. n : sig[l] = q
      BY <3>1
    <3>3. l # q
      BY <2>5, <3>2
    <3>4. CASE l < q
      <4>1. sig[l] < sig[i] \/ l = i
        BY <2>0, <2>1, <2>2, <3>4
      <4>2. i \in 1 .. n
        BY <2>0, <2>1, <2>2, <3>4
      <4>3. sig[i] = i
        BY <4>2 DEF R
      <4> QED
        BY <2>0, <2>1, <3>2, <4>1, <4>3
    <3>5. CASE q < l
      <4>1. sig[q] < sig[l]
        BY <2>2, <3>5
      <4> QED
        BY <2>1, <2>3, <2>5, <3>2, <4>1
    <3> QED
      BY <2>1, <3>3, <3>4, <3>5
  <2> QED
    BY <2>1, <2>3, <2>4, <2>5
<1>3. R = Nat
  <2>1. R \in SUBSET Nat
    BY DEF R
  <2> QED
    BY <1>1, <1>2, <2>1, EveryNumber
<1>4. ASSUME NEW q \in 1 .. n PROVE sig[q] = q
  <2>1. q \in R
    BY <1>3
  <2> QED
    BY <2>1 DEF R
<1>5. n <= m
  <2>1. SUFFICES ASSUME n > 0 PROVE n <= m
    OBVIOUS
  <2>2. n \in 1 .. n
    BY <2>1
  <2>3. sig[n] = n /\ sig[n] \in 1 .. m
    BY <1>4, <2>2
  <2> QED
    BY <2>3
<1>6. m <= n
  <2>1. SUFFICES ASSUME m > 0 PROVE m <= n
    OBVIOUS
  <2>2. m \in 1 .. m
    BY <2>1
  <2>3. PICK q \in 1 .. n : sig[q] = m
    BY <2>2
  <2> QED
    BY <1>4, <2>3
<1>7. n = m
  BY <1>5, <1>6
<1> QED
  BY <1>4, <1>7 DEF SameMap

\* The traversal of a table with T buckets puts its chains end to end.
LEMMA TraversalIs ==
  ASSUME NEW T \in Nat, NEW t \in [0 .. T - 1 -> Seq(NetPacket)]
  PROVE  \E c \in Seq(Seq(NetPacket)) : \E at \in [0 .. T -> Nat] :
           /\ Len(c) = T /\ \A i \in 1 .. T : c[i] = t[i - 1]
           /\ Adds(at, c, T)
           /\ Joins(InOrder(t), at, c, T, NetPacket)
<1>1. PICK c : c = [i \in 1 .. T |-> t[i - 1]]
  OBVIOUS
<1>2. \A i \in 1 .. T : i - 1 \in 0 .. T - 1 /\ t[i - 1] \in Seq(NetPacket)
  <2> TAKE i \in 1 .. T
  <2>1. i - 1 \in 0 .. T - 1
    OBVIOUS
  <2> QED
    BY <2>1
<1>3. c \in [1 .. T -> Seq(NetPacket)]
  BY <1>1, <1>2
<1>4. c \in Seq(Seq(NetPacket)) /\ Len(c) = T
  BY <1>3
<1>5. Cardinality(DOMAIN t) = T
  <2>1. DOMAIN t = 0 .. T - 1
    OBVIOUS
  <2>2. Cardinality(0 .. T - 1) = T
    <3>1. PICK m \in Int : m = T - 1
      OBVIOUS
    <3>2. Cardinality(0 .. m) = IF 0 > m THEN 0 ELSE m - 0 + 1
      BY FS_Interval
    <3> QED
      BY <3>1, <3>2
  <2> QED
    BY <2>1, <2>2
<1>6. InOrder(t) = FlattenSeq(c)
  BY <1>1, <1>5 DEF InOrder
<1>7. PICK g : g = [i \in 1 .. T |-> Len(c[i])]
  OBVIOUS
<1>8. g \in Seq(Nat) /\ Len(g) = T
  <2>1. \A i \in 1 .. T : Len(c[i]) \in Nat
    BY <1>1, <1>2, LenProperties
  <2>2. g \in [1 .. T -> Nat]
    BY <1>7, <2>1
  <2> QED
    BY <2>2
<1>9. PICK at \in [0 .. T -> Nat] : at[0] = 0 /\ \A i \in 1 .. T : at[i] = at[i - 1] + g[i]
  BY <1>8, SumsUp
<1>10. \A i \in 1 .. T : at[i] = at[i - 1] + Len(c[i])
  BY <1>7, <1>9
<1>11. Adds(at, c, T)
  BY <1>4, <1>9, <1>10 DEF Adds
<1>12. Joins(FlattenSeq(c), at, c, T, NetPacket)
  BY <1>4, <1>9, <1>11, FlattenAt, Zenon
<1>13. \A i \in 1 .. T : c[i] = t[i - 1]
  BY <1>1
<1> QED
  BY <1>4, <1>6, <1>9, <1>11, <1>12, <1>13

\* A full table that rises in each chain is traversed in the order of the
\* offsets.
LEMMA TraversesAll ==
  ASSUME NEW d, NEW h, NEW z, Tiles(d, h, z), NEW T, NEW t, Full(t, T, d, h), Rising(t, T)
  PROVE  InOrder(t) = d
<1>1. /\ T \in Nat \ {0} /\ h \in Nat /\ t \in [0 .. T - 1 -> Seq(NetPacket)]
      /\ d \in Seq(NetPacket)
  BY DEF Full, Tiles
<1>2. PICK m \in Nat : m = Len(d)
  BY <1>1, LenProperties
<1>3. PICK c \in Seq(Seq(NetPacket)), at \in [0 .. T -> Nat] :
           /\ Len(c) = T /\ \A i \in 1 .. T : c[i] = t[i - 1]
           /\ Adds(at, c, T)
           /\ Joins(InOrder(t), at, c, T, NetPacket)
  BY <1>1, TraversalIs
<1>4. PICK Q \in Seq(NetPacket) : Q = InOrder(t)
  BY <1>3 DEF Joins
<1>5. PICK n \in Nat : n = Len(Q) /\ n = at[T]
  BY <1>3, <1>4, LenProperties DEF Joins
<1>6. \A i \in 1 .. T : i - 1 \in 0 .. T - 1
  BY <1>1
<1>7. ASSUME NEW i \in 1 .. T
      PROVE  /\ at[i] \in Nat /\ at[i - 1] \in Nat /\ at[i] = at[i - 1] + Len(c[i])
             /\ Len(c[i]) \in Nat
  <2>1. i \in 0 .. T /\ i - 1 \in 0 .. T
    BY <1>1
  <2>2. c[i] \in Seq(NetPacket)
    BY <1>3, ElementOfSeq
  <2> QED
    BY <1>3, <2>1, <2>2, LenProperties DEF Adds
<1>8. \A a \in 0 .. T : \A b \in 0 .. a : at[b] <= at[a]
  <2>1. PICK len : len = [i \in 1 .. T |-> Len(c[i])]
    OBVIOUS
  <2>2. \A i \in 1 .. T : len[i] \in Nat /\ at[i] = at[i - 1] + len[i]
    BY <1>7, <2>1
  <2> QED
    BY <1>1, <2>2, AtGrows
<1>9. ASSUME NEW q \in 1 .. n
      PROVE  \E i \in 1 .. T : \E k \in 1 .. Len(t[i - 1]) :
               at[i - 1] < q /\ q <= at[i] /\ q = at[i - 1] + k /\ Q[q] = t[i - 1][k]
  <2>1. PICK i \in 1 .. T : at[i - 1] < q /\ q <= at[i]
    <3>1. at[0] = 0 /\ q \in 1 .. at[T]
      BY <1>3, <1>5 DEF Adds
    <3> QED
      BY <1>1, <3>1, Between
  <2>2. PICK a, l \in Nat : a = at[i - 1] /\ l = Len(c[i]) /\ at[i] = a + l
    BY <1>7
  <2>3. PICK k \in 1 .. l : a + k = q
    <3>1. a < q /\ q <= a + l /\ q \in Nat
      BY <2>1, <2>2
    <3> QED
      BY <3>1, InBetween, Zenon
  <2>4. Q[a + k] = c[i][k]
    BY <1>3, <1>4, <2>2 DEF Joins
  <2> QED
    BY <1>3, <2>1, <2>2, <2>3, <2>4
<1>10. ASSUME NEW q \in 1 .. n PROVE \E j \in 1 .. m : Q[q] = d[j]
  <2>1. PICK i \in 1 .. T : \E k \in 1 .. Len(t[i - 1]) : Q[q] = t[i - 1][k]
    BY <1>9
  <2>2. PICK b \in 0 .. T - 1 : b = i - 1
    BY <1>6
  <2>3. PICK k \in 1 .. Len(t[b]) : Q[q] = t[b][k]
    BY <2>1, <2>2
  <2>4. Which(t[b][k], T, d, h, b)
    BY FullWhich
  <2> QED
    BY <1>2, <2>3, <2>4 DEF Which
<1>11. PICK sig : sig = [q \in 1 .. n |-> CHOOSE j \in 1 .. m : Q[q] = d[j]]
  OBVIOUS
<1>12. \A q \in 1 .. n : sig[q] \in 1 .. m /\ Q[q] = d[sig[q]]
  BY <1>10, <1>11
<1>13. ASSUME NEW q \in 1 .. n, NEW r \in 1 .. n, q < r
       PROVE  Q[q].off \in Nat /\ Q[r].off \in Nat /\ Q[q].off < Q[r].off
  <2>1. PICK i \in 1 .. T : \E k \in 1 .. Len(t[i - 1]) :
               at[i - 1] < q /\ q <= at[i] /\ q = at[i - 1] + k /\ Q[q] = t[i - 1][k]
    BY <1>9
  <2>2. PICK b \in 0 .. T - 1 : b = i - 1
    BY <1>6
  <2>3. PICK k \in 1 .. Len(t[b]) : at[b] < q /\ q <= at[i] /\ q = at[b] + k /\ Q[q] = t[b][k]
    BY <2>1, <2>2
  <2>4. PICK i2 \in 1 .. T : \E l \in 1 .. Len(t[i2 - 1]) :
               at[i2 - 1] < r /\ r <= at[i2] /\ r = at[i2 - 1] + l /\ Q[r] = t[i2 - 1][l]
    BY <1>9
  <2>5. PICK b2 \in 0 .. T - 1 : b2 = i2 - 1
    BY <1>6
  <2>6. PICK k2 \in 1 .. Len(t[b2]) : at[b2] < r /\ r <= at[i2] /\ r = at[b2] + k2 /\ Q[r] = t[b2][k2]
    BY <2>4, <2>5
  <2>7. t[b][k].off \in Nat /\ HashFn(T, t[b][k].off, h) = b /\ Len(t[b]) \in Nat
    BY FullAt
  <2>8. t[b2][k2].off \in Nat /\ HashFn(T, t[b2][k2].off, h) = b2 /\ Len(t[b2]) \in Nat
    BY FullAt
  <2>9. i <= i2
    <3>1. SUFFICES ASSUME i2 < i PROVE FALSE
      OBVIOUS
    <3>2. b \in 0 .. T /\ i2 \in 0 .. b
      BY <1>1, <2>2, <3>1
    <3>3. at[i2] <= at[b]
      BY <1>8, <3>2
    <3>4. at[i2] \in Nat /\ at[b] \in Nat
      <4>1. i2 \in 0 .. T
        BY <1>1
      <4> QED
        BY <3>2, <4>1
    <3>5. PICK x, y \in Nat : x = at[i2] /\ y = at[b] /\ x <= y
      BY <3>3, <3>4
    <3>6. r <= x /\ y < q /\ q < r
      BY <1>13, <2>3, <2>6, <3>5
    <3> QED
      BY <3>5, <3>6
  <2>10. CASE i = i2
    <3>1. b = b2
      BY <2>2, <2>5, <2>10
    <3>2. at[b] \in Nat
      BY <1>1
    <3>3. k < k2
      BY <1>13, <2>3, <2>6, <3>1, <3>2
    <3>4. k \in 1 .. k2 - 1
      BY <2>8, <3>3
    <3>5. t[b2][k].off < t[b2][k2].off
      BY <3>4, ChainRises
    <3> QED
      BY <2>3, <2>6, <2>7, <2>8, <3>1, <3>5
  <2>11. CASE i # i2
    <3>1. b < b2
      BY <2>2, <2>5, <2>9, <2>11
    <3>3. PICK o, u \in Nat : o = t[b][k].off /\ u = t[b2][k2].off
      BY <2>7, <2>8
    <3>4. HashFn(T, o, h) < HashFn(T, u, h)
      BY <2>7, <2>8, <3>1, <3>3
    <3>5. o < u
      BY <1>1, <3>4, BucketRises, Zenon
    <3>2. t[b][k].off < t[b2][k2].off
      BY <3>3, <3>5
    <3> QED
      BY <2>3, <2>6, <2>7, <2>8, <3>2
  <2> QED
    BY <2>10, <2>11
<1>14. ASSUME NEW q \in 1 .. n, NEW r \in 1 .. n, q < r PROVE sig[q] < sig[r]
  <2>1. PICK i, j \in 1 .. m : i = sig[q] /\ j = sig[r] /\ Q[q] = d[i] /\ Q[r] = d[j]
    BY <1>12
  <2>2. d[i].off < d[j].off /\ d[i].off \in Nat /\ d[j].off \in Nat
    BY <1>13, <1>14, <2>1
  <2>3. j < i => d[j].off < d[i].off
    BY <1>2 DEF Tiles
  <2>4. j # i
    BY <2>2
  <2> QED
    BY SMTT(30), <2>1, <2>2, <2>3, <2>4
<1>15. ASSUME NEW j \in 1 .. m PROVE \E q \in 1 .. n : sig[q] = j
  <2>1. PICK b \in 0 .. T - 1 : \E k \in 1 .. Len(t[b]) : t[b][k] = d[j]
    BY <1>2 DEF Full
  <2>2. PICK k \in 1 .. Len(t[b]) : t[b][k] = d[j]
    BY <2>1
  <2>3. PICK i \in 1 .. T : i = b + 1 /\ i - 1 = b
    BY <1>1
  <2>4. PICK a, l \in Nat : a = at[b] /\ l = Len(c[i]) /\ at[i] = a + l /\ c[i] = t[b]
    BY <1>3, <1>7, <2>3
  <2>5. at[i] <= n
    <3>1. T \in 0 .. T /\ i \in 0 .. T
      BY <1>1
    <3> QED
      BY <1>5, <1>8, <3>1
  <2>6. k \in 1 .. l
    BY <2>2, <2>4
  <2>7. a + k \in 1 .. n
    BY SMTT(30), <2>4, <2>5, <2>6
  <2>8. Q[a + k] = d[j]
    <3>1. Q[at[i - 1] + k] = c[i][k]
      BY <1>3, <1>4, <2>4, <2>6 DEF Joins
    <3> QED
      BY <2>2, <2>3, <2>4, <3>1
  <2>9. PICK q \in 1 .. n : q = a + k
    BY <2>7
  <2>10. PICK g \in 1 .. m : g = sig[q] /\ d[g] = d[j]
    BY <1>12, <2>8, <2>9
  <2>11. g = j
    <3>1. SUFFICES ASSUME g < j \/ j < g PROVE FALSE
      OBVIOUS
    <3>2. d[g].off \in Nat /\ d[j].off \in Nat
      BY <1>2, TileIs
    <3>3. d[g].off < d[j].off \/ d[j].off < d[g].off
      BY <1>2, <3>1 DEF Tiles
    <3> QED
      BY <2>10, <3>2, <3>3
  <2> QED
    BY <2>10, <2>11
<1>16. n = m /\ \A q \in 1 .. n : sig[q] = q
  <2>1. sig \in [1 .. n -> 1 .. m]
    <3>1. sig = [q \in 1 .. n |-> sig[q]]
      BY <1>11
    <3> QED
      BY <1>12, <3>1
  <2>2. \A q, r \in 1 .. n : q < r => sig[q] < sig[r]
    BY <1>14
  <2>3. \A j \in 1 .. m : \E q \in 1 .. n : sig[q] = j
    BY <1>15
  <2> QED
    <3>1. RisingOnto(sig, n, m)
      BY <2>2, <2>3, Zenon DEF RisingOnto
    <3>2. SameMap(sig, n, m)
      BY <2>1, <3>1, Identities, Zenon
    <3> QED
      BY <3>2 DEF SameMap
<1>17. \A q \in 1 .. n : Q[q] = d[q]
  BY <1>12, <1>16
<1>18. Q = d
  BY <1>1, <1>2, <1>5, <1>16, <1>17, SeqEqual
<1> QED
  BY <1>4, <1>18

(***************************************************************************)
(* From the wire to the full table                                         *)
(***************************************************************************)

\* The receiver's table and what is under way make up the packets sent.
Arriving(T) ==
  /\ ~sent => ht = EmptyTable(T) /\ net = {} /\ t_data_count = 0 /\ phase = "store"
  /\ sent => /\ state = "end"
             /\ \E f \in Fronts : \E s \in BOOLEAN :
                  Holds(ht, T, net, t_data_count, Wire(f, s), heap_len)
  /\ phase # "store" => t_data_count = heap_len /\ \E b \in 0 .. T - 1 : ht[b] # <<>>

\* Nothing is converted before the heap is complete.
Untouched ==
  phase \in {"store", "collect"} => d_off = 0 /\ d_remaining = 0 /\ g_off = 0 /\ group = <<>>

StoreInv ==
  /\ CutAll /\ sent \in BOOLEAN
  /\ \E T \in Nat \ {0} : DOMAIN ht = 0 .. T - 1 /\ Arriving(T)
  /\ Untouched

\* The table's number of buckets.
LEMMA TLen ==
  ASSUME NEW T \in Nat, DOMAIN ht = 0 .. T - 1
  PROVE  t_len = T
<1>1. PICK m \in Int : m = T - 1
  OBVIOUS
<1>2. Cardinality(0 .. m) = IF 0 > m THEN 0 ELSE m - 0 + 1
  BY FS_Interval
<1> QED
  BY <1>1, <1>2 DEF t_len

\* At the start nothing is sent.
LEMMA StoreInit == Init => StoreInv
<1> SUFFICES ASSUME Init PROVE StoreInv
  OBVIOUS
<1>1. CutAll
  BY CutAllInit DEF Init
<1>2. PICK T \in TableLens : ht = EmptyTable(T)
  BY DEF Init, CoalesceInit
<1>3. T \in Nat \ {0}
  BY CoalesceAssumption
<1>4. DOMAIN ht = 0 .. T - 1
  BY <1>2 DEF EmptyTable
<1>5. /\ net = {} /\ sent = FALSE /\ t_data_count = 0 /\ phase = "store"
      /\ d_off = 0 /\ d_remaining = 0 /\ g_off = 0 /\ group = <<>>
  BY DEF Init, CoalesceInit
<1>6. Arriving(T) /\ Untouched
  BY <1>2, <1>5 DEF Arriving, Untouched
<1> QED
  BY <1>1, <1>3, <1>4, <1>5, <1>6 DEF StoreInv

\* What the sender has made stays as it is.
LEMMA SameWire ==
  ASSUME UNCHANGED pvars
  PROVE  /\ heap_len' = heap_len /\ Chained' = Chained
         /\ \A f, s : Wire(f, s)' = Wire(f, s)
<1>1. UNCHANGED <<ig, pkt_size, t_os>>
  BY DEF pvars
<1>2. heap_len' = heap_len
  BY <1>1, SameGroup, Zenon
<1>3. Chained' = Chained
  BY <1>1, Zenon DEF Chained
<1>4. ASSUME NEW x PROVE Starting(x)' = Starting(x)
  BY <1>3 DEF Starting
<1>5. ASSUME NEW x, NEW f, NEW s PROVE As(x, f, s)' = As(x, f, s)
  BY <1>4 DEF As
<1>6. ASSUME NEW f, NEW s PROVE Wire(f, s)' = Wire(f, s)
  BY <1>3, <1>5 DEF Wire
<1> QED
  BY <1>2, <1>3, <1>6

\* Packetizing goes on until the packets are sent.
LEMMA StorePacketize ==
  ASSUME StoreInv, PacketizeNext, UNCHANGED <<cvars, net, sent>>
  PROVE  StoreInv'
<1>1. PICK T \in Nat \ {0} : DOMAIN ht = 0 .. T - 1 /\ Arriving(T)
  BY DEF StoreInv
<1>2. state # "end"
  BY DEF PacketizeNext, GetPacket, BankDry, AddItems, InitPacket, CopyData, HashPacket
<1>3. ~sent /\ sent \in BOOLEAN
  BY <1>1, <1>2 DEF Arriving, StoreInv
<1>4. CutAll'
  BY CutAllStep DEF StoreInv
<1>5. UNCHANGED <<ht, t_data_count, phase, d_off, d_remaining, g_off, group, net, sent>>
  BY DEF cvars
<1>6. Arriving(T)'
  BY <1>1, <1>3, <1>5 DEF Arriving
<1>7. Untouched'
  BY <1>5 DEF StoreInv, Untouched
<1> QED
  BY <1>1, <1>3, <1>4, <1>5, <1>6, <1>7 DEF StoreInv

\* What is under way after Send is what is on the wire.
LEMMA SentAre ==
  ASSUME CutAll, state = "end", NEW f \in Fronts, NEW s \in BOOLEAN
  PROVE  {As(x, f, s) : x \in Range(Chained)} = {Wire(f, s)[j] : j \in 1 .. Len(Wire(f, s))}
<1>1. PICK m \in Nat : m = Len(Chained) /\ m = Len(Wire(f, s))
  BY WireIs
<1>2. \A j \in 1 .. m : Wire(f, s)[j] = As(Chained[j], f, s)
  BY <1>1, WireIs
<1>3. Range(Chained) = {Chained[j] : j \in 1 .. m}
  <2>1. PICK c \in Seq(CutPacket) : c = Chained
    BY PacketsAre
  <2>2. DOMAIN c = 1 .. Len(c)
    OBVIOUS
  <2>3. DOMAIN Chained = 1 .. m
    BY <1>1, <2>1, <2>2
  <2> QED
    BY <2>3 DEF Range
<1> QED
  BY <1>1, <1>2, <1>3

\* The packets are sent: all are under way.
LEMMA StoreSend ==
  ASSUME StoreInv, Send
  PROVE  StoreInv'
<1>1. PICK T \in Nat \ {0} : DOMAIN ht = 0 .. T - 1 /\ Arriving(T)
  BY DEF StoreInv
<1>2. state = "end" /\ ~sent /\ sent' = TRUE /\ UNCHANGED <<pvars, cvars>>
  BY DEF Send
<1>3. PICK f \in {<<>>, <<Immediate>>}, s \in BOOLEAN :
        net' = {[x EXCEPT !.items = (IF x.off = 0 THEN f ELSE <<>>)
                                       \o (IF s THEN Starting(x) ELSE @)]
                  : x \in Range(Chained)}
  BY DEF Send
<1>4. net' = {As(x, f, s) : x \in Range(Chained)}
  BY <1>3 DEF As
<1>5. PICK d : d = Wire(f, s)
  OBVIOUS
<1>6. f \in Fronts
  BY DEF Fronts
<1>7. net' = {d[j] : j \in 1 .. Len(d)}
  <2>1. CutAll /\ state = "end"
    BY <1>2 DEF StoreInv
  <2>2. {As(x, f, s) : x \in Range(Chained)} = {Wire(f, s)[j] : j \in 1 .. Len(Wire(f, s))}
    BY <1>6, <2>1, SentAre
  <2> QED
    BY <1>4, <1>5, <2>2
<1>8. Tiles(d, heap_len, pkt_size)
  BY <1>2, <1>5, <1>6, WireTiles DEF StoreInv
<1>9. Holds(EmptyTable(T), T, net', 0, d, heap_len)
  BY <1>7, <1>8, StoredNone
<1>10. ht = EmptyTable(T) /\ t_data_count = 0 /\ phase = "store"
  BY <1>1, <1>2 DEF Arriving
<1>11. UNCHANGED <<ht, t_data_count, phase, d_off, d_remaining, g_off, group, state>>
  BY <1>2 DEF cvars, pvars
<1>12. Wire(f, s)' = d /\ heap_len' = heap_len
  BY <1>2, <1>5, SameWire
<1>13. Holds(ht', T, net', t_data_count', Wire(f, s)', heap_len')
  BY <1>9, <1>10, <1>11, <1>12
<1>14. Arriving(T)'
  <2>1. \E g \in Fronts : \E r \in BOOLEAN : Holds(ht, T, net, t_data_count, Wire(g, r), heap_len)'
    BY <1>6, <1>13
  <2> QED
    BY <1>2, <1>10, <1>11, <2>1 DEF Arriving
<1>15. CutAll'
  <2>1. [PacketizeNext]_pvars
    BY <1>2
  <2> QED
    BY <2>1, CutAllStep DEF StoreInv
<1>16. Untouched'
  BY <1>11 DEF StoreInv, Untouched
<1> QED
  BY <1>1, <1>2, <1>11, <1>14, <1>15, <1>16 DEF StoreInv

\* A packet goes from the wire to the table.
LEMMA StoreArrive ==
  ASSUME StoreInv, Arrive
  PROVE  StoreInv'
<1>1. PICK T \in Nat \ {0} : DOMAIN ht = 0 .. T - 1 /\ Arriving(T)
  BY DEF StoreInv
<1>2. sent /\ UNCHANGED <<pvars, sent>>
  BY DEF Arrive
<1>3. PICK x \in net : StorePacket(x, heap_len) /\ net' = net \ {x}
  BY DEF Arrive
<1>4. PICK f \in Fronts, s \in BOOLEAN : Holds(ht, T, net, t_data_count, Wire(f, s), heap_len)
  BY <1>1, <1>2 DEF Arriving
<1>5. PICK d : d = Wire(f, s)
  OBVIOUS
<1>6. state = "end"
  BY <1>1, <1>2 DEF Arriving
<1>7. Tiles(d, heap_len, pkt_size)
  BY <1>5, <1>6, WireTiles DEF StoreInv
<1>8. t_len = T
  BY <1>1, TLen
<1>9. /\ phase = "store"
      /\ ht' = AddO(ht, HashFn(T, x.off, heap_len), x)
      /\ t_data_count' = t_data_count + x.len
      /\ phase' = IF t_data_count' = heap_len THEN "collect" ELSE "store"
      /\ UNCHANGED <<d_off, d_remaining, g_off, group>>
  BY <1>3, <1>8 DEF StorePacket
<1>10. Holds(ht', T, net', t_data_count', d, heap_len)
  <2>1. Holds(ht, T, net, t_data_count, d, heap_len)
    BY <1>4, <1>5
  <2>2. Holds(AddO(ht, HashFn(T, x.off, heap_len), x), T, net \ {x}, t_data_count + x.len, d, heap_len)
    BY <1>7, <2>1, StoredOne
  <2> QED
    BY <1>3, <1>9, <2>2
<1>11. Wire(f, s)' = d /\ heap_len' = heap_len
  BY <1>2, <1>5, SameWire
<1>12. DOMAIN ht' = 0 .. T - 1
  BY <1>1, <1>9 DEF AddO
<1>13. \E b \in 0 .. T - 1 : ht'[b] # <<>>
  <2>1. x \in {d[j] : j \in 1 .. Len(d)}
    BY <1>4, <1>5 DEF Holds
  <2>2. PICK j \in 1 .. Len(d) : x = d[j]
    BY <2>1
  <2>3. PICK id \in 0 .. T - 1 : id = HashFn(T, x.off, heap_len)
    BY <1>7, <2>2, TileHash
  <2>4. PICK v \in Seq(NetPacket) : v = ht[id]
    BY <1>4 DEF Holds
  <2>5. ht'[id] = Append(v, x)
    BY <1>1, <1>9, <2>3, <2>4 DEF AddO
  <2>6. x \in NetPacket
    BY <1>7, <2>2, TileIs
  <2>7. Append(v, x) # <<>>
    BY <2>6
  <2> QED
    BY <2>5, <2>7
<1>14. Arriving(T)'
  <2>1. \E g \in Fronts : \E r \in BOOLEAN : Holds(ht, T, net, t_data_count, Wire(g, r), heap_len)'
    BY <1>10, <1>11
  <2>2. phase' # "store" => t_data_count' = heap_len'
    BY <1>9, <1>11
  <2>3. sent' /\ state' = "end"
    BY <1>2, <1>6 DEF pvars
  <2> QED
    BY <1>13, <2>1, <2>2, <2>3 DEF Arriving
<1>15. CutAll'
  <2>1. [PacketizeNext]_pvars
    BY <1>2
  <2> QED
    BY <2>1, CutAllStep DEF StoreInv
<1>16. Untouched'
  BY <1>9 DEF StoreInv, Untouched
<1> QED
  BY <1>2, <1>12, <1>14, <1>15, <1>16 DEF StoreInv

\* The conversion leaves the table alone.
LEMMA ConvertKeeps ==
  ASSUME CoalesceStep
  PROVE  /\ UNCHANGED <<ht, t_data_count>>
         /\ phase # "store" /\ phase' \notin {"store", "collect"}
BY DEF CoalesceStep, Collect, SkipItem, NewItem, Converted, CopyNothing, CopyFromStart,
       CopyFails, CopyWithin, CopyAcross

\* The conversion leaves both as they are.
LEMMA StoreSame ==
  ASSUME StoreInv, UNCHANGED <<pvars, net, sent, ht, t_data_count>>,
         phase' = "store" <=> phase = "store",
         Untouched'
  PROVE  StoreInv'
<1>1. PICK T \in Nat \ {0} : DOMAIN ht = 0 .. T - 1 /\ Arriving(T)
  BY DEF StoreInv
<1>2. state' = state /\ UNCHANGED <<net, sent, ht, t_data_count>>
  BY DEF pvars
<1>3. heap_len' = heap_len /\ \A f, s : Wire(f, s)' = Wire(f, s)
  BY SameWire
<1>4. Arriving(T)'
  <2>1. ~sent' => ht' = EmptyTable(T) /\ net' = {} /\ t_data_count' = 0 /\ phase' = "store"
    BY <1>1, <1>2 DEF Arriving
  <2>2. phase' # "store" => t_data_count' = heap_len' /\ \E b \in 0 .. T - 1 : ht'[b] # <<>>
    BY <1>1, <1>2, <1>3 DEF Arriving
  <2>3. sent' => \E g \in Fronts : \E r \in BOOLEAN : Holds(ht, T, net, t_data_count, Wire(g, r), heap_len)'
    <3>1. SUFFICES ASSUME sent
          PROVE  \E g \in Fronts : \E r \in BOOLEAN : Holds(ht, T, net, t_data_count, Wire(g, r), heap_len)'
      BY <1>2
    <3>2. PICK f \in Fronts, s \in BOOLEAN : Holds(ht, T, net, t_data_count, Wire(f, s), heap_len)
      BY <1>1, <3>1 DEF Arriving
    <3>3. Holds(ht', T, net', t_data_count', Wire(f, s)', heap_len')
      BY <1>2, <1>3, <3>2
    <3> QED
      BY <3>3
  <2>4. sent' => state' = "end"
    BY <1>1, <1>2 DEF Arriving
  <2> QED
    BY <2>1, <2>2, <2>3, <2>4 DEF Arriving
<1>5. CutAll'
  <2>1. [PacketizeNext]_pvars
    OBVIOUS
  <2> QED
    BY <2>1, CutAllStep DEF StoreInv
<1> QED
  BY <1>1, <1>2, <1>4, <1>5 DEF StoreInv

\* So they are whatever step is taken.
LEMMA StoreStep == StoreInv /\ [Next]_vars => StoreInv'
<1> SUFFICES ASSUME StoreInv, [Next]_vars PROVE StoreInv'
  OBVIOUS
<1>1. CASE PacketizeNext /\ UNCHANGED <<cvars, net, sent>>
  BY <1>1, StorePacketize
<1>2. CASE Send
  BY <1>2, StoreSend
<1>3. CASE Arrive
  BY <1>3, StoreArrive
<1>4. CASE CoalesceStep /\ UNCHANGED <<pvars, net, sent>>
  <2>1. Untouched'
    BY <1>4, ConvertKeeps DEF Untouched
  <2> QED
    BY <1>4, <2>1, ConvertKeeps, StoreSame
<1>5. CASE UNCHANGED vars
  <2>1. UNCHANGED <<pvars, net, sent, ht, t_data_count, phase, d_off, d_remaining, g_off, group>>
    BY <1>5 DEF vars, cvars
  <2>2. Untouched'
    BY <2>1 DEF StoreInv, Untouched
  <2> QED
    BY <2>1, <2>2, StoreSame
<1> QED
  BY <1>1, <1>2, <1>3, <1>4, <1>5 DEF Next

\* A table with more buckets than packets is well chained.
LEMMA RoomyChained == StoreInv => (Roomy => WellChained)
<1> SUFFICES ASSUME StoreInv, Roomy PROVE WellChained
  OBVIOUS
<1>1. PICK T \in Nat \ {0} : DOMAIN ht = 0 .. T - 1 /\ Arriving(T)
  BY DEF StoreInv
<1>2. heap_len <= (T - 1) * pkt_size
  <2>1. t_len = T
    BY <1>1, TLen
  <2> QED
    BY <2>1 DEF Roomy
<1>3. ASSUME NEW b \in 0 .. T - 1 PROVE Len(ht[b]) \in {0, 1}
  <2>1. CASE ~sent
    <3>1. ht[b] = <<>>
      BY <1>1, <2>1 DEF Arriving, EmptyTable
    <3> QED
      BY <3>1
  <2>2. CASE sent
    <3>1. PICK f \in Fronts, s \in BOOLEAN : Holds(ht, T, net, t_data_count, Wire(f, s), heap_len)
      BY <1>1, <2>2 DEF Arriving
    <3>2. state = "end" /\ CutAll
      BY <1>1, <2>2 DEF Arriving, StoreInv
    <3>3. PICK d : d = Wire(f, s)
      OBVIOUS
    <3>4. Tiles(d, heap_len, pkt_size) /\ Holds(ht, T, net, t_data_count, d, heap_len)
      BY <3>1, <3>2, <3>3, WireTiles
    <3> QED
      BY <1>2, <3>4, OneEach
  <2>3. sent \in BOOLEAN
    BY DEF StoreInv
  <2> QED
    BY <2>1, <2>2, <2>3
<1>4. ASSUME NEW c \in Chain, NEW i \in 2 .. Len(c) PROVE FALSE
  <2>1. PICK b \in 0 .. T - 1 : c = ht[b]
    BY <1>1 DEF Chain
  <2>2. PICK n \in {0, 1} : n = Len(c)
    BY <1>3, <2>1
  <2>3. i \in 2 .. n
    BY <2>2
  <2>4. n \in Nat /\ n < 2
    BY <2>2
  <2> QED
    BY <2>3, <2>4
<1> QED
  BY <1>4, Zenon DEF WellChained

\* What a well-chained table is.
LEMMA ChainedRising ==
  ASSUME NEW T, DOMAIN ht = 0 .. T - 1, WellChained
  PROVE  /\ Rising(ht, T)
         /\ \A b \in 0 .. T - 1 : \A i \in 2 .. Len(ht[b]) : \A e \in Boundary :
              ~(ht[b][i].off < e /\ e < ht[b][i].off + ht[b][i].len)
<1>1. ASSUME NEW b \in 0 .. T - 1, NEW i \in 2 .. Len(ht[b])
      PROVE  /\ ht[b][i - 1].off < ht[b][i].off
             /\ \A e \in Boundary : ~(ht[b][i].off < e /\ e < ht[b][i].off + ht[b][i].len)
  <2>1. PICK c : c = ht[b]
    OBVIOUS
  <2>2. c \in Chain /\ i \in 2 .. Len(c)
    BY <2>1 DEF Chain
  <2>3. /\ c[i - 1].off < c[i].off
        /\ \A e \in Boundary : ~(c[i].off < e /\ e < c[i].off + c[i].len)
    BY <2>2 DEF WellChained
  <2> QED
    BY <2>1, <2>3
<1> QED
  BY <1>1 DEF Rising

\* When the heap is complete its table is full.
LEMMA CompleteFull ==
  ASSUME StoreInv, phase # "store"
  PROVE  /\ state = "end" /\ t_data_count = heap_len /\ Chained # <<>>
         /\ \E T \in Nat \ {0} : \E f \in Fronts : \E s \in BOOLEAN :
              DOMAIN ht = 0 .. T - 1 /\ Full(ht, T, Wire(f, s), heap_len)
<1>1. PICK T \in Nat \ {0} : DOMAIN ht = 0 .. T - 1 /\ Arriving(T)
  BY DEF StoreInv
<1>2. /\ sent /\ state = "end" /\ CutAll
      /\ t_data_count = heap_len /\ \E b \in 0 .. T - 1 : ht[b] # <<>>
  BY <1>1 DEF Arriving, StoreInv
<1>3. PICK f \in Fronts, s \in BOOLEAN : Holds(ht, T, net, t_data_count, Wire(f, s), heap_len)
  BY <1>1, <1>2 DEF Arriving
<1>4. PICK d : d = Wire(f, s)
  OBVIOUS
<1>5. Tiles(d, heap_len, pkt_size) /\ Holds(ht, T, net, heap_len, d, heap_len)
  BY <1>2, <1>3, <1>4, WireTiles
<1>6. Full(ht, T, d, heap_len)
  BY <1>2, <1>5, StoredAll
<1>7. Chained # <<>>
  <2>1. Len(d) > 0
    BY <1>6 DEF Full
  <2>2. Len(d) = Len(Chained)
    BY <1>2, <1>3, <1>4, WireIs
  <2>3. Len(<<>>) = 0
    OBVIOUS
  <2> QED
    BY <2>1, <2>2, <2>3
<1> QED
  BY <1>1, <1>2, <1>4, <1>6, <1>7

(***************************************************************************)
(* What the table lists, and how long the items are                        *)
(***************************************************************************)

\* The function in Sized.
Befores(l, c) ==
  CHOOSE b : b = [j \in DOMAIN l |->
    IF j = Len(l) THEN c
    ELSE IF l[j + 1].mode = "direct" /\ b[j + 1] > 0 THEN l[j + 1].off ELSE b[j + 1]]

\* l lists n items behind F others, at where at says.
Lists(l, F, n, at) ==
  /\ \A i \in 1 .. n : at[i - 1] <= at[i]
  /\ DOMAIN l = 1 .. F + n /\ Len(l) = F + n
  /\ \A i \in 1 .. n : l[F + i].mode = "direct" /\ l[F + i].off = at[i - 1]
\* d_off when an item is reached is where its data ends.
Ends(l, F, n, at) == \A j \in 1 .. F + n : Befores(l, at[n])[j] = at[j - F]

\* calculate_lengths, from the last item to the first.
LEMMA BeforesAre ==
  \A F, n \in Nat : \A at \in [0 .. n -> Nat] : \A l :
    F <= 1 /\ Lists(l, F, n, at) => Ends(l, F, n, at)
<1> SUFFICES ASSUME NEW F \in Nat, NEW n \in Nat, NEW at \in [0 .. n -> Nat], NEW l,
                    F <= 1, Lists(l, F, n, at)
             PROVE  Ends(l, F, n, at)
  OBVIOUS
<1>a. /\ \A i \in 1 .. n : at[i - 1] <= at[i]
      /\ DOMAIN l = 1 .. F + n /\ Len(l) = F + n
      /\ \A i \in 1 .. n : l[F + i].mode = "direct" /\ l[F + i].off = at[i - 1]
  BY DEF Lists
<1> DEFINE Rec(b) == [j \in DOMAIN l |->
             IF j = Len(l) THEN at[n]
             ELSE IF l[j + 1].mode = "direct" /\ b[j + 1] > 0 THEN l[j + 1].off ELSE b[j + 1]]
<1>0. PICK L \in Nat : L = F + n
  OBVIOUS
<1>1. PICK a : a = [j \in 1 .. L |-> at[j - F]]
  OBVIOUS
<1>2. ASSUME NEW j \in 1 .. L, j # L
      PROVE  /\ j + 1 \in 1 .. L /\ a[j] \in Nat /\ a[j + 1] \in Nat /\ a[j] <= a[j + 1]
             /\ l[j + 1].mode = "direct" /\ l[j + 1].off = a[j]
  <2>1. PICK i \in 1 .. n : i = j + 1 - F
    BY <1>0, <1>2
  <2>2. j - F = i - 1 /\ i - 1 \in 0 .. n /\ i \in 0 .. n /\ F + i = j + 1 /\ j + 1 \in 1 .. L
    <3>1. i - 1 \in 0 .. n /\ i \in 0 .. n
      OBVIOUS
    <3>2. j + 1 \in 1 .. L
      BY <1>2
    <3>3. j - F = i - 1 /\ F + i = j + 1
      BY <2>1
    <3> QED
      BY <3>1, <3>2, <3>3
  <2>3. a[j] = at[i - 1] /\ a[j + 1] = at[i]
    BY <1>1, <2>1, <2>2
  <2>4. l[j + 1].mode = "direct" /\ l[j + 1].off = at[i - 1]
    BY <1>a, <2>2
  <2> QED
    BY <1>a, <2>1, <2>2, <2>3, <2>4
<1>3. a[L] = at[n] \/ L = 0
  <2>1. L - F = n
    BY <1>0
  <2> QED
    BY <1>0, <1>1, <2>1
<1>4. a = Rec(a)
  <2>1. ASSUME NEW j \in 1 .. L
        PROVE  a[j] = IF j = Len(l) THEN at[n]
                      ELSE IF l[j + 1].mode = "direct" /\ a[j + 1] > 0 THEN l[j + 1].off ELSE a[j + 1]
    <3>1. CASE j = L
      BY <1>0, <1>a, <1>3, <3>1
    <3>2. CASE j # L
      <4>1. /\ a[j] \in Nat /\ a[j + 1] \in Nat /\ a[j] <= a[j + 1]
            /\ l[j + 1].mode = "direct" /\ l[j + 1].off = a[j]
        BY <1>2, <3>2
      <4>2. a[j] = IF a[j + 1] > 0 THEN a[j] ELSE a[j + 1]
        BY <4>1
      <4>3. j # Len(l)
        BY <1>0, <1>a, <3>2
      <4> QED
        BY <4>1, <4>2, <4>3
    <3> QED
      BY <3>1, <3>2
  <2>2. a = [j \in 1 .. L |-> a[j]]
    BY <1>1
  <2>3. DOMAIN l = 1 .. L
    BY <1>0, <1>a
  <2> QED
    BY <2>1, <2>2, <2>3
<1>5. PICK b : b = Befores(l, at[n])
  OBVIOUS
<1>6. b = Rec(b)
  BY <1>4, <1>5 DEF Befores
<1>7. \A j \in 1 .. L :
        b[j] = IF j = L THEN at[n]
               ELSE IF l[j + 1].mode = "direct" /\ b[j + 1] > 0 THEN l[j + 1].off ELSE b[j + 1]
  BY <1>0, <1>a, <1>6
<1> HIDE DEF Rec
<1> DEFINE R == {m \in Nat : m < L => b[L - m] = a[L - m]}
<1> HIDE DEF R
<1>8. 0 \in R
  <2>1. 0 < L => L \in 1 .. L
    OBVIOUS
  <2>2. L - 0 = L
    OBVIOUS
  <2> QED
    BY <1>3, <1>7, <2>1, <2>2 DEF R
<1>9. ASSUME NEW m \in R PROVE m + 1 \in R
  <2>0. m \in Nat
    BY DEF R
  <2>1. SUFFICES ASSUME m + 1 < L PROVE b[L - (m + 1)] = a[L - (m + 1)]
    BY <2>0 DEF R
  <2>2. PICK j \in 1 .. L : j = L - (m + 1) /\ j # L /\ j + 1 = L - m
    <3>1. L - (m + 1) \in 1 .. L
      BY <2>0, <2>1
    <3>2. L - (m + 1) # L /\ L - (m + 1) + 1 = L - m
      BY <2>0, <2>1
    <3> QED
      BY <3>1, <3>2
  <2>3. b[j + 1] = a[j + 1]
    BY <2>0, <2>1, <2>2 DEF R
  <2>4. b[j] = IF l[j + 1].mode = "direct" /\ b[j + 1] > 0 THEN l[j + 1].off ELSE b[j + 1]
    BY <1>7, <2>2
  <2>5. /\ a[j] \in Nat /\ a[j + 1] \in Nat /\ a[j] <= a[j + 1]
        /\ l[j + 1].mode = "direct" /\ l[j + 1].off = a[j]
    BY <1>2, <2>2
  <2>6. b[j] = IF a[j + 1] > 0 THEN a[j] ELSE a[j + 1]
    BY <2>3, <2>4, <2>5
  <2>7. b[j] = a[j]
    BY <2>5, <2>6
  <2> QED
    BY <2>2, <2>7
<1>10. R = Nat
  <2>1. R \in SUBSET Nat
    BY DEF R
  <2> QED
    BY <1>8, <1>9, <2>1, EveryNumber
<1>11. ASSUME NEW j \in 1 .. L PROVE b[j] = at[j - F]
  <2>1. PICK m \in Nat : m = L - j /\ m < L /\ L - m = j
    <3>1. L - j \in Nat /\ L - j < L /\ L - (L - j) = j
      OBVIOUS
    <3> QED
      BY <3>1
  <2>2. b[L - m] = a[L - m]
    BY <1>10, <2>1 DEF R
  <2> QED
    BY <1>1, <2>1, <2>2
<1> QED
  BY <1>0, <1>5, <1>11 DEF Ends

\* The items to convert.
Entry(f, k) ==
  IF k <= Len(f) THEN [id |-> 0, mode |-> "immediate", len |-> ImmLen]
  ELSE [id |-> k - Len(f), mode |-> "direct", len |-> ig[k - Len(f)]]
Stack(f) == [k \in 1 .. Len(f) + Len(ig) |-> Entry(f, k)]

\* The items have the lengths they had in the group.
LEMMA SizedIs ==
  ASSUME ig \in Seq(Nat), heap_len < WordSize, NEW f \in Fronts,
         Listed = Wanted(f), t_data_count = heap_len
  PROVE  Sized = Stack(f)
<1>1. PICK n \in Nat : n = Len(ig)
  BY LenProperties
<1>2. PICK F \in Nat : F = Len(f) /\ (F = 0 \/ F = 1)
  BY FrontType
<1>3. PICK at : at = [i \in 0 .. n |-> BytesUpTo(i)]
  OBVIOUS
<1>4. \A i \in 0 .. n : at[i] \in Nat /\ at[i] <= heap_len
  BY <1>1, <1>3, UpTo
<1>5. \A i \in 1 .. n : at[i] = at[i - 1] + ig[i] /\ ig[i] \in Nat /\ at[i - 1] <= at[i]
  <2>1. ASSUME NEW i \in 1 .. n PROVE at[i] = at[i - 1] + ig[i] /\ ig[i] \in Nat /\ at[i - 1] <= at[i]
    <3>1. i \in 0 .. n /\ i - 1 \in 0 .. n
      OBVIOUS
    <3>2. BytesUpTo(i) = BytesUpTo(i - 1) + ig[i]
      BY <1>1, UpTo
    <3>3. ig[i] \in Nat
      BY <1>1, ElementOfSeq
    <3> QED
      BY <1>3, <1>4, <3>1, <3>2, <3>3
  <2> QED
    BY <2>1
<1>6. at[n] = heap_len
  BY <1>1, <1>3 DEF heap_len
<1>7. PICK w \in Seq(NetItem) :
        /\ w = Wanted(f) /\ Len(w) = F + n
        /\ \A k \in 1 .. F : w[k] = Immediate
        /\ \A i \in 1 .. n : w[F + i] = DirectItem(i)
  <2>1. ASSUME NEW k \in 1 .. F PROVE Wanted(f)[k] = Immediate
    <3>1. F = 1 /\ k = 1
      BY <1>2
    <3> QED
      BY <1>2, <3>1, FrontType, WantedIs
  <2>2. ASSUME NEW i \in 1 .. n PROVE Wanted(f)[F + i] = DirectItem(i)
    BY <1>1, <1>2, AllItemsAre, WantedIs
  <2>3. Wanted(f) \in Seq(NetItem) /\ Len(Wanted(f)) = F + n
    BY <1>1, <1>2, WantedIs
  <2> QED
    BY <2>1, <2>2, <2>3
<1>8. \A i \in 1 .. n : w[F + i].mode = "direct" /\ w[F + i].off = at[i - 1] /\ w[F + i].id = i
  <2>1. ASSUME NEW i \in 1 .. n
        PROVE  DirectItem(i).mode = "direct" /\ DirectItem(i).off = at[i - 1] /\ DirectItem(i).id = i
    <3>1. i - 1 \in 0 .. n
      OBVIOUS
    <3> QED
      BY <1>3, <3>1 DEF DirectItem
  <2> QED
    BY <1>7, <2>1
<1>9. \A k \in 1 .. F : w[k].mode = "immediate" /\ w[k].id = 0
  BY <1>7 DEF Immediate
<1>10. PICK L \in Nat : L = F + n /\ DOMAIN w = 1 .. L
  BY <1>7, LenProperties
<1>11. PICK b : b = Befores(w, at[n])
  OBVIOUS
<1>12. \A j \in 1 .. L : b[j] = at[j - F]
  <2>1. at \in [0 .. n -> Nat]
    BY <1>3, <1>4
  <2> QED
    <3>1. F <= 1 /\ \A i \in 1 .. n : at[i - 1] <= at[i]
      BY <1>2, <1>5
    <3>2. DOMAIN w = 1 .. F + n /\ Len(w) = F + n
      BY <1>7, <1>10
    <3>3. \A i \in 1 .. n : w[F + i].mode = "direct" /\ w[F + i].off = at[i - 1]
      BY <1>8
    <3>4. Lists(w, F, n, at)
      BY <3>1, <3>2, <3>3 DEF Lists
    <3>5. Ends(w, F, n, at)
      BY <2>1, <3>1, <3>4, BeforesAre, Zenon
    <3> QED
      BY <1>10, <1>11, <3>5 DEF Ends
<1> DEFINE len(j) == IF w[j].mode # "direct" THEN ImmLen
                     ELSE IF b[j] > 0 THEN (b[j] - w[j].off) % WordSize ELSE 0
<1>13. Sized = [j \in DOMAIN w |-> [id |-> w[j].id, mode |-> w[j].mode, len |-> len(j)]]
  <2>1. Listed = w /\ t_data_count = at[n]
    BY <1>6, <1>7
  <2>2. PICK e : e = Befores(Listed, t_data_count)
    OBVIOUS
  <2>3. Sized = [j \in DOMAIN Listed |->
           [id |-> Listed[j].id, mode |-> Listed[j].mode,
            len |-> IF Listed[j].mode # "direct" THEN ImmLen
                    ELSE IF e[j] > 0 THEN (e[j] - Listed[j].off) % WordSize ELSE 0]]
    BY <2>2, Zenon DEF Sized, Befores
  <2>4. e = b
    BY <1>11, <2>1, <2>2
  <2> QED
    BY <2>1, <2>3, <2>4
<1>14. ASSUME NEW k \in 1 .. L
       PROVE  [id |-> w[k].id, mode |-> w[k].mode, len |-> len(k)] = Entry(f, k)
  <2>1. CASE k <= F
    <3>1. w[k].mode = "immediate" /\ w[k].id = 0
      BY <1>9, <2>1
    <3> QED
      BY <1>2, <2>1, <3>1 DEF Entry
  <2>2. CASE ~(k <= F)
    <3>1. PICK i \in 1 .. n : i = k - F /\ F + i = k
      BY <1>10, <2>2
    <3>2. w[k].mode = "direct" /\ w[k].off = at[i - 1] /\ w[k].id = i
      BY <1>8, <3>1
    <3>3. b[k] = at[i]
      BY <1>12, <3>1
    <3>4. PICK x, y, g \in Nat : x = at[i - 1] /\ y = at[i] /\ g = ig[i] /\ y = x + g /\ y <= heap_len
      <4>1. i \in 0 .. n /\ i - 1 \in 0 .. n
        OBVIOUS
      <4> QED
        BY <1>4, <1>5, <4>1
    <3>5. heap_len \in Nat /\ WordSize \in Nat
      BY <1>4, <1>6, CoalesceAssumption
    <3>6. len(k) = g
      <4>1. y > 0 => (y - x) % WordSize = g
        <5>1. y - x = g /\ 0 <= g /\ g < WordSize
          BY SMTT(30), <3>4, <3>5
        <5> QED
          BY <3>5, <5>1
      <4>2. ~(y > 0) => g = 0
        BY <3>4
      <4>3. len(k) = IF y > 0 THEN (y - x) % WordSize ELSE 0
        BY <3>2, <3>3, <3>4
      <4> QED
        BY <4>1, <4>2, <4>3
    <3> HIDE DEF len
    <3>7. Entry(f, k) = [id |-> i, mode |-> "direct", len |-> g]
      BY <1>2, <2>2, <3>1, <3>4 DEF Entry
    <3> QED
      BY <3>2, <3>6, <3>7
  <2> QED
    BY <2>1, <2>2
<1> HIDE DEF len
<1>15. DOMAIN w = 1 .. Len(f) + Len(ig)
  BY <1>1, <1>2, <1>10
<1> QED
  BY <1>1, <1>2, <1>10, <1>13, <1>14, <1>15 DEF Stack

\* The arena.
LEMMA ArenaIs ==
  ASSUME ig \in Seq(Nat), NEW f \in Fronts, Listed = Wanted(f), t_data_count = heap_len
  PROVE  ArenaSize = heap_len + Len(f) * ImmLen + (Len(f) + Len(ig)) * StructLen
<1>1. PICK n \in Nat : n = Len(ig)
  BY LenProperties
<1>2. PICK F \in Nat : F = Len(f) /\ (F = 0 \/ F = 1)
  BY FrontType
<1>3. Len(Listed) = F + n
  BY <1>1, <1>2, WantedIs
<1>4. DOMAIN Listed = 1 .. F + n
  BY <1>1, <1>2, WantedIs, LenProperties
<1>5. \A k \in 1 .. F : Listed[k].mode # "direct"
  <2>1. ASSUME NEW k \in 1 .. F PROVE Wanted(f)[k] = Immediate
    <3>1. F = 1 /\ k = 1
      BY <1>2
    <3> QED
      BY <1>2, <3>1, FrontType, WantedIs
  <2> QED
    BY <2>1 DEF Immediate
<1>6. \A i \in 1 .. n : Listed[F + i].mode = "direct"
  <2>1. ASSUME NEW i \in 1 .. n PROVE Wanted(f)[F + i].mode = "direct"
    <3>1. Wanted(f)[F + i] = DirectItem(i)
      BY <1>1, <1>2, AllItemsAre, WantedIs
    <3> QED
      BY <3>1 DEF DirectItem
  <2> QED
    BY <2>1
<1>7. {j \in DOMAIN Listed : Listed[j].mode # "direct"} = 1 .. F
  <2>1. ASSUME NEW j \in 1 .. F + n PROVE j \in 1 .. F \/ \E i \in 1 .. n : j = F + i
    <3>1. CASE j <= F
      BY <3>1
    <3>2. CASE ~(j <= F)
      <4>1. j - F \in 1 .. n /\ j = F + (j - F)
        BY <3>2
      <4> QED
        BY <4>1
    <3> QED
      BY <3>1, <3>2
  <2>2. \A j \in 1 .. F : j \in 1 .. F + n
    OBVIOUS
  <2> QED
    BY <1>4, <1>5, <1>6, <2>1, <2>2
<1>8. d_imm = F
  <2>1. Cardinality(1 .. F) = F
    <3>1. PICK a, c \in Int : a = 1 /\ c = F
      OBVIOUS
    <3>2. Cardinality(a .. c) = IF a > c THEN 0 ELSE c - a + 1
      BY FS_Interval
    <3> QED
      BY <1>2, <3>1, <3>2
  <2> QED
    BY <1>7, <2>1 DEF d_imm
<1> QED
  BY <1>1, <1>2, <1>3, <1>8 DEF ArenaSize

\* It fits into memory.
Roomful(f) == heap_len + Len(f) * ImmLen + (Len(f) + Len(ig)) * StructLen

\* What the assumption about the groups is for.
LEMMA FitsMemory ==
  ASSUME ig \in Groups, NEW f \in Fronts
  PROVE  ig \in Seq(Nat) /\ ig # <<>> /\ Roomful(f) < WordSize /\ heap_len < WordSize
<1>1. ig \in Seq(Nat) /\ ig # <<>>
  BY PacketizeAssumption
<1>2. PICK n \in Nat : n = Len(ig)
  BY <1>1, LenProperties
<1>3. FoldLeft(+, 0, ig) + ImmLen + (Len(ig) + 1) * StructLen < WordSize
  BY TransferAssumption
<1>4. FoldLeft(+, 0, ig) = heap_len
  <2>1. SubSeq(ig, 1, Len(ig)) = ig
    BY <1>1
  <2> QED
    BY <2>1 DEF heap_len, BytesUpTo
<1>5. PICK h \in Nat : h = heap_len
  <2>1. n \in 0 .. n
    OBVIOUS
  <2> QED
    BY <1>1, <1>2, <2>1, UpTo DEF heap_len
<1>6. PICK F \in Nat : F = Len(f) /\ (F = 0 \/ F = 1)
  BY FrontType
<1>7. PICK I, S, W \in Nat : I = ImmLen /\ S = StructLen /\ W = WordSize
  BY CoalesceAssumption
<1>8. h + I + (n + 1) * S < W
  BY <1>2, <1>3, <1>4, <1>5, <1>7
<1>9. PICK v \in Nat : v = n * S
  OBVIOUS
<1>10. (n + 1) * S = v + S /\ (0 + n) * S = v /\ (1 + n) * S = v + S
  BY <1>9
<1>11. h + F * I + (F + n) * S < W /\ h < W
  <2>1. CASE F = 0
    <3>1. h + 0 * I + (0 + n) * S = h + v
      BY <1>9, <1>10
    <3> QED
      BY <1>8, <1>10, <2>1, <3>1
  <2>2. CASE F = 1
    <3>1. h + 1 * I + (1 + n) * S = h + I + v + S
      BY <1>9, <1>10
    <3> QED
      BY <1>8, <1>10, <2>2, <3>1
  <2> QED
    BY <1>6, <2>1, <2>2
<1> QED
  BY <1>1, <1>2, <1>5, <1>6, <1>7, <1>11 DEF Roomful

(***************************************************************************)
(* What is expected                                                        *)
(***************************************************************************)

Whole(i) == [id |-> i, len |-> ig[i], data |-> Bytes(i, 0, ig[i])]

\* The function in Expected.
Making(n) ==
  CHOOSE m : m = [i \in 0 .. n |->
    IF i = 0 THEN <<>> ELSE IF ig[i] = 0 THEN m[i - 1] ELSE Append(m[i - 1], Whole(i))]

\* Its equations.
LEMMA MakingIs ==
  ASSUME NEW n \in Nat
  PROVE  /\ Making(n)[0] = <<>>
         /\ \A i \in 1 .. n : Making(n)[i] =
              IF ig[i] = 0 THEN Making(n)[i - 1] ELSE Append(Making(n)[i - 1], Whole(i))
<1> DEFINE Rec(f, m) == [i \in 0 .. m |->
             IF i = 0 THEN <<>> ELSE IF ig[i] = 0 THEN f[i - 1] ELSE Append(f[i - 1], Whole(i))]
           T == {m \in Nat : \E f : f = Rec(f, m)}
<1>1. 0 \in T
  <2>1. PICK f : f = [i \in 0 .. 0 |-> <<>>]
    OBVIOUS
  <2>2. f = Rec(f, 0)
    BY <2>1
  <2> HIDE DEF Rec
  <2>3. \E g : g = Rec(g, 0)
    BY <2>2
  <2> QED
    BY <2>3
<1>2. ASSUME NEW m \in T PROVE m + 1 \in T
  <2>1. PICK f : f = Rec(f, m)
    BY <1>2
  <2>2. PICK last : last = IF ig[m + 1] = 0 THEN f[m] ELSE Append(f[m], Whole(m + 1))
    OBVIOUS
  <2>3. PICK g : g = [i \in 0 .. m + 1 |-> IF i = m + 1 THEN last ELSE f[i]]
    OBVIOUS
  <2>4. \A i \in 0 .. m : f[i] = IF i = 0 THEN <<>> ELSE IF ig[i] = 0 THEN f[i - 1] ELSE Append(f[i - 1], Whole(i))
    BY <2>1
  <2> HIDE DEF Rec
  <2>5. ASSUME NEW i \in 0 .. m + 1
        PROVE  g[i] = IF i = 0 THEN <<>> ELSE IF ig[i] = 0 THEN g[i - 1] ELSE Append(g[i - 1], Whole(i))
    <3>1. CASE i = m + 1
      <4>1. i # 0 /\ i - 1 \in 0 .. m + 1 /\ i - 1 = m /\ g[i - 1] = f[m]
        BY <2>3, <3>1
      <4>2. g[i] = last
        BY <2>3, <3>1
      <4> QED
        BY <2>2, <3>1, <4>1, <4>2
    <3>2. CASE i # m + 1
      <4>1. i \in 0 .. m /\ g[i] = f[i]
        BY <2>3, <3>2
      <4>2. i # 0 => i - 1 \in 0 .. m + 1 /\ i - 1 # m + 1 /\ g[i - 1] = f[i - 1]
        BY <2>3, <3>2
      <4> QED
        BY <2>4, <4>1, <4>2
    <3> QED
      BY <3>1, <3>2
  <2>6. g = [i \in 0 .. m + 1 |-> g[i]]
    BY <2>3
  <2>7. g = Rec(g, m + 1)
    BY <2>5, <2>6 DEF Rec
  <2> QED
    BY <2>7
<1>3. T = Nat
  <2> HIDE DEF T
  <2>1. T \in SUBSET Nat
    BY DEF T
  <2> QED
    BY <1>1, <1>2, <2>1, EveryNumber
<1>4. PICK g : g = Making(n)
  OBVIOUS
<1>5. \E f : f = Rec(f, n)
  BY <1>3
<1>6. g = Rec(g, n)
  BY <1>4, <1>5 DEF Making
<1>7. \A i \in 0 .. n : g[i] = IF i = 0 THEN <<>> ELSE IF ig[i] = 0 THEN g[i - 1] ELSE Append(g[i - 1], Whole(i))
  BY <1>6
<1>8. 0 \in 0 .. n /\ \A i \in 1 .. n : i \in 0 .. n /\ i # 0
  OBVIOUS
<1> QED
  BY <1>4, <1>7, <1>8

\* It is what Expected computes.
LEMMA ExpectedIs == Expected = Making(Len(ig))[Len(ig)]
  BY Zenon DEF Expected, Making, Whole

(***************************************************************************)
(* The conversion                                                          *)
(***************************************************************************)

StackEntry == [id : Nat, mode : {"direct", "immediate"}, len : Nat]
MadeItem == [id : Nat, len : Nat, data : Seq(Byte) \cup {<<"value">>}]

\* A plan P of the conversion: the items to convert, the value each is to
\* have, the group after the first k of them, the bytes of data and of the
\* arena these take, and the packets.
MadeOf(P, k) == [id |-> P.stack[k].id, len |-> P.stack[k].len, data |-> P.val[k]]

OneMore(P, k) ==
  /\ P.stack[k] \in StackEntry
  /\ P.made[k - 1] \in Seq(MadeItem)
  /\ P.made[k] = IF P.stack[k].len = 0 THEN P.made[k - 1] ELSE Append(P.made[k - 1], MadeOf(P, k))
  /\ P.pos[k - 1] \in Nat /\ P.pos[k] \in Nat /\ P.pos[k] <= P.bytes
  /\ P.pos[k] = P.pos[k - 1] + (IF P.stack[k].mode = "direct" THEN P.stack[k].len ELSE 0)
  /\ P.use[k - 1] \in Nat /\ P.use[k] \in Nat /\ P.use[k] <= P.arena
  /\ P.use[k] = P.use[k - 1] + P.stack[k].len + StructLen
  /\ P.stack[k].mode = "direct" => P.val[k] \in Seq(Byte) /\ Len(P.val[k]) = P.stack[k].len
  /\ P.stack[k].mode # "direct" => P.val[k] = <<"value">>

\* Byte o of packet j is byte e of item k.
SameByte(P, j, k, e, o) ==
  P.packets[j].off + o = P.pos[k - 1] + e => P.packets[j].data[o] = P.val[k][e]

Carries(P, j, k) ==
  /\ P.packets[j].data \in Seq(Byte) /\ Len(P.packets[j].data) = P.packets[j].len
  /\ P.stack[k].mode = "direct" =>
       \A e \in 1 .. P.stack[k].len : \A o \in 1 .. P.packets[j].len : SameByte(P, j, k, e, o)

Sound(P) ==
  /\ P.stack \in Seq(StackEntry)
  /\ P.made[0] = <<>> /\ P.pos[0] = 0 /\ P.use[0] = 0
  /\ P.arena \in Nat /\ P.arena < WordSize /\ P.bytes \in Nat /\ P.bytes < WordSize
  /\ \A k \in 1 .. Len(P.stack) : OneMore(P, k)
  /\ \A j \in 1 .. Len(P.packets) : \A k \in 1 .. Len(P.stack) : Carries(P, j, k)

\* No item ends inside a packet that is not the head of its chain.
EndsAtHeads(P, T) ==
  \A b \in 0 .. T - 1 : \A i \in 2 .. Len(ht[b]) : \A k \in 1 .. Len(P.stack) :
    P.stack[k].mode = "direct" =>
      ~(ht[b][i].off < P.pos[k] /\ P.pos[k] < ht[b][i].off + ht[b][i].len)

\* The table has the packets of the plan.
Tabled(P, T, z) ==
  /\ DOMAIN ht = 0 .. T - 1
  /\ Tiles(P.packets, P.bytes, z) /\ Full(ht, T, P.packets, P.bytes) /\ Rising(ht, T)
  /\ EndsAtHeads(P, T)

\* The place pl, and o, are at byte pos of the data.
Stands(P, t, T, pl, o, pos) ==
  \E j \in 1 .. Len(P.packets) :
    /\ PlaceOf(t, T, pl, P.packets[j])
    /\ o \in Nat /\ P.packets[j].off + o = pos /\ o < P.packets[j].len

\* k items are converted, or k - 1 and the first c bytes of the next.
Converting(P, T, k, c) ==
  /\ d_stack = SubSeq(P.stack, k + 1, Len(P.stack))
  /\ g_size = P.arena /\ g_off \in Nat /\ g_off <= P.use[k]
  /\ phase \in {"convert", "copy", "done"}
  /\ phase = "convert" =>
       /\ d_remaining = 0 /\ group = P.made[k]
       /\ P.pos[k] < P.bytes => Stands(P, ht, T, Here, d_off, P.pos[k])
  /\ phase = "copy" =>
       /\ k # 0 /\ P.stack[k].mode = "direct" /\ c \in Nat /\ c < P.stack[k].len
       /\ d_remaining = IF c = 0 THEN 0 ELSE P.stack[k].len - c
       /\ group = Append(P.made[k - 1], [id |-> P.stack[k].id, len |-> P.stack[k].len,
                                         data |-> SubSeq(P.val[k], 1, c)])
       /\ Stands(P, ht, T, Here, d_off, P.pos[k - 1] + c)
  /\ phase = "done" => k = Len(P.stack) /\ group = P.made[k]

\* The types of the parts of a plan.
LEMMA PlanTypes ==
  ASSUME NEW P, Sound(P), NEW k \in 0 .. Len(P.stack)
  PROVE  /\ Len(P.stack) \in Nat /\ P.made[k] \in Seq(MadeItem)
         /\ P.pos[k] \in Nat /\ P.use[k] \in Nat
<1>1. PICK L \in Nat : L = Len(P.stack)
  BY LenProperties DEF Sound
<1>2. CASE k = 0
  <2>1. P.made[0] = <<>> /\ P.pos[0] = 0 /\ P.use[0] = 0
    BY DEF Sound
  <2>2. <<>> \in Seq(MadeItem)
    BY EmptySeq
  <2> QED
    BY <1>1, <1>2, <2>1, <2>2
<1>3. CASE k # 0
  <2>1. OneMore(P, k) /\ k \in 1 .. L
    BY <1>1, <1>3 DEF Sound
  <2>2. P.pos[k] \in Nat /\ P.use[k] \in Nat
    BY <2>1 DEF OneMore
  <2>3. CASE P.stack[k].len = 0
    <3>1. P.made[k] = P.made[k - 1] /\ P.made[k - 1] \in Seq(MadeItem)
      BY <2>1, <2>3 DEF OneMore
    <3> QED
      BY <1>1, <2>2, <3>1
  <2>4. CASE P.stack[k].len # 0
    <3>1. P.made[k] = Append(P.made[k - 1], MadeOf(P, k)) /\ P.made[k - 1] \in Seq(MadeItem)
      BY <2>1, <2>4 DEF OneMore
    <3>2. P.val[k] \in Seq(Byte) \cup {<<"value">>}
      BY <2>1 DEF OneMore
    <3>3. MadeOf(P, k) \in MadeItem
      BY <2>1, <3>2 DEF OneMore, MadeOf, MadeItem, StackEntry
    <3>4. P.made[k] \in Seq(MadeItem)
      BY <3>1, <3>3, AppendProperties
    <3> QED
      BY <1>1, <2>2, <3>4
  <2> QED
    BY <2>3, <2>4
<1> QED
  BY <1>2, <1>3

\* The rest of the stack.
Pops(s, k) ==
  /\ SubSeq(s, k + 1, Len(s)) # <<>> <=> k < Len(s)
  /\ k < Len(s) => /\ Head(SubSeq(s, k + 1, Len(s))) = s[k + 1]
                   /\ Tail(SubSeq(s, k + 1, Len(s))) = SubSeq(s, k + 1 + 1, Len(s))

\* The top of the rest, and what is left of it.
LEMMA PopsOne ==
  \A S : \A s \in Seq(S) : \A k \in 0 .. Len(s) : Pops(s, k)
<1> SUFFICES ASSUME NEW S, NEW s \in Seq(S), NEW k \in 0 .. Len(s) PROVE Pops(s, k)
  OBVIOUS
<1>1. PICK L \in Nat : L = Len(s)
  BY LenProperties
<1>2. PICK r : r = SubSeq(s, k + 1, L)
  OBVIOUS
<1>3. k \in Nat /\ k <= L
  BY <1>1
<1>4. \A i \in k + 1 .. L : s[i] \in S
  BY <1>1, <1>3, ElementOfSeq
<1>5. r \in Seq(S) /\ Len(r) = L - k /\ \A i \in 1 .. L - k : r[i] = s[k + i]
  <2>1. PICK m \in Nat : m = L - k
    BY <1>3
  <2>2. r = [i \in 1 .. m |-> s[k + i]]
    BY <1>1, <1>2, <1>3, <2>1
  <2>3. \A i \in 1 .. m : s[k + i] \in S
    BY <1>3, <1>4, <2>1
  <2>4. r \in [1 .. m -> S]
    BY <2>2, <2>3
  <2>5. r \in Seq(S) /\ Len(r) = m
    BY <2>4
  <2>6. \A i \in 1 .. m : r[i] = s[k + i]
    BY <2>2
  <2> QED
    BY <2>1, <2>5, <2>6
<1>6. r # <<>> <=> k < L
  <2>1. r = <<>> <=> Len(r) = 0
    BY <1>5, EmptySeq
  <2> QED
    BY <1>3, <1>5, <2>1
<1>7. ASSUME k < L PROVE Head(r) = s[k + 1] /\ Tail(r) = SubSeq(s, k + 1 + 1, L)
  <2>1. r # <<>> /\ 1 \in 1 .. L - k
    BY <1>3, <1>6, <1>7
  <2>2. Head(r) = s[k + 1]
    <3>1. Head(r) = r[1]
      BY <1>5, <2>1
    <3> QED
      BY <1>5, <2>1, <3>1
  <2>3. PICK t \in Seq(S) : t = Tail(r) /\ Len(t) = L - k - 1 /\ \A i \in 1 .. L - k - 1 : t[i] = r[i + 1]
    <3>1. PICK n \in Nat : n = Len(r) /\ n = L - k /\ n > 0
      BY <1>3, <1>5, <1>7
    <3>2. Tail(r) \in Seq(S) /\ Len(Tail(r)) = n - 1
      BY <1>5, <2>1, <3>1, HeadTailProperties
    <3>3. \A i \in 1 .. n - 1 : Tail(r)[i] = r[i + 1]
      BY <1>5, <3>1
    <3> QED
      BY <3>1, <3>2, <3>3
  <2>4. PICK m \in Nat : m = L - k - 1
    BY <1>3, <1>7
  <2>5. PICK u : u = SubSeq(s, k + 1 + 1, L)
    OBVIOUS
  <2>6. u = [i \in 1 .. m |-> s[k + 1 + i]]
    BY <1>1, <1>3, <2>4, <2>5
  <2>7. \A i \in 1 .. m : s[k + 1 + i] \in S
    BY <1>3, <1>4, <2>4
  <2>8. u \in Seq(S) /\ Len(u) = m
    <3>1. u \in [1 .. m -> S]
      BY <2>6, <2>7
    <3> QED
      BY <3>1
  <2>9. \A i \in 1 .. m : t[i] = u[i]
    <3>1. ASSUME NEW i \in 1 .. m PROVE t[i] = u[i]
      <4>1. i + 1 \in 1 .. L - k /\ k + (i + 1) = k + 1 + i
        BY <1>3, <2>4
      <4>2. r[i + 1] = s[k + 1 + i]
        BY <1>5, <4>1
      <4> QED
        BY <2>3, <2>4, <2>6, <4>2
    <3> QED
      BY <3>1
  <2>10. t = u
    BY <2>3, <2>4, <2>8, <2>9, SeqEqual
  <2> QED
    BY <2>2, <2>3, <2>5, <2>10
<1> QED
  BY <1>1, <1>2, <1>6, <1>7 DEF Pops

\* The cursor keeps its place when neither it nor the table changes.
LEMMA HereSame ==
  ASSUME UNCHANGED <<ht, cursor>>
  PROVE  Here' = Here
<1>1. UNCHANGED <<ht, cstate, coi, co>>
  BY DEF cursor
<1>2. t_len' = t_len /\ AtEnd' = AtEnd
  BY <1>1 DEF t_len, AtEnd
<1>3. \A i : FirstFrom(i)' = FirstFrom(i)
  BY <1>1, <1>2 DEF FirstFrom
<1> QED
  BY <1>1, <1>2, <1>3 DEF Here

\* convert_to_ig skips an item without data.
LEMMA SkipConvert ==
  ASSUME NEW P, Sound(P), NEW T, NEW z, Tabled(P, T, z),
         NEW k \in 0 .. Len(P.stack), NEW c, Converting(P, T, k, c), SkipItem
  PROVE  k + 1 \in 0 .. Len(P.stack) /\ Converting(P, T, k + 1, 0)'
<1>1. PICK L \in Nat : L = Len(P.stack) /\ k \in 0 .. L
  BY PlanTypes
<1>2. /\ phase = "convert" /\ d_stack # <<>> /\ Head(d_stack).len = 0 /\ d_stack' = Tail(d_stack)
      /\ UNCHANGED <<ht, phase, d_off, d_remaining, g_size, g_off, group, cursor>>
  BY DEF SkipItem, Item
<1>3. Pops(P.stack, k)
  BY PopsOne, Zenon DEF Sound
<1>4. /\ d_stack = SubSeq(P.stack, k + 1, L)
      /\ g_size = P.arena /\ g_off \in Nat /\ g_off <= P.use[k]
      /\ d_remaining = 0 /\ group = P.made[k]
      /\ P.pos[k] < P.bytes => Stands(P, ht, T, Here, d_off, P.pos[k])
  BY <1>1, <1>2 DEF Converting
<1>5. k < L /\ P.stack[k + 1].len = 0 /\ d_stack' = SubSeq(P.stack, k + 1 + 1, L)
  BY <1>1, <1>2, <1>3, <1>4 DEF Pops
<1>6. PICK l \in 1 .. L : l = k + 1 /\ l - 1 = k
  BY <1>1, <1>5
<1>7. OneMore(P, l)
  BY <1>1 DEF Sound
<1>8. /\ P.made[l] = P.made[k] /\ P.pos[l] = P.pos[k]
      /\ P.use[l] = P.use[k] + 0 + StructLen /\ P.use[k] \in Nat /\ P.pos[k] \in Nat
  <2>1. P.stack[l].len = 0
    BY <1>5, <1>6
  <2>2. P.made[l] = P.made[k]
    BY <1>6, <1>7, <2>1 DEF OneMore
  <2>3. P.pos[k] \in Nat /\ P.use[k] \in Nat
    BY <1>6, <1>7 DEF OneMore
  <2>4. P.use[l] = P.use[k] + 0 + StructLen
    BY <1>6, <1>7, <2>1 DEF OneMore
  <2>5. P.pos[l] = P.pos[k] + 0
    BY <1>6, <1>7, <2>1 DEF OneMore
  <2> QED
    BY <2>2, <2>3, <2>4, <2>5
<1>9. g_off <= P.use[l]
  BY <1>4, <1>8, CoalesceAssumption
<1>10. Here' = Here
  BY <1>2, HereSame
<1>11. P.pos[l] < P.bytes => Stands(P, ht', T, Here', d_off', P.pos[l])
  BY <1>2, <1>4, <1>8, <1>10
<1>12. Converting(P, T, l, 0)'
  BY <1>1, <1>2, <1>4, <1>5, <1>6, <1>8, <1>9, <1>11 DEF Converting
<1> QED
  BY <1>1, <1>6, <1>12

\* A new item.
LEMMA NewConvert ==
  ASSUME NEW P, Sound(P), NEW T, NEW z, Tabled(P, T, z),
         NEW k \in 0 .. Len(P.stack), NEW c, Converting(P, T, k, c), NewItem
  PROVE  k + 1 \in 0 .. Len(P.stack) /\ Converting(P, T, k + 1, 0)'
<1>1. PICK L \in Nat : L = Len(P.stack) /\ k \in 0 .. L
  BY PlanTypes
<1>2. PICK it : it = Item
  OBVIOUS
<1>3. /\ phase = "convert" /\ d_stack # <<>> /\ it.len # 0 /\ d_stack' = Tail(d_stack)
      /\ phase' = IF ~ArenaFits(it.len) THEN "failed" ELSE IF it.mode = "direct" THEN "copy" ELSE "convert"
      /\ group' = IF ~ArenaFits(it.len) THEN group
                  ELSE Append(group, [id |-> it.id, len |-> it.len,
                                      data |-> IF it.mode = "direct" THEN <<>> ELSE <<"value">>])
      /\ g_off' = IF ArenaFits(it.len) THEN ArenaAfter(it.len) ELSE g_off
      /\ UNCHANGED <<ht, d_off, d_remaining, g_size, cursor>>
  BY <1>2 DEF NewItem
<1>4. Pops(P.stack, k)
  BY PopsOne, Zenon DEF Sound
<1>5. /\ d_stack = SubSeq(P.stack, k + 1, L)
      /\ g_size = P.arena /\ g_off \in Nat /\ g_off <= P.use[k]
      /\ d_remaining = 0 /\ group = P.made[k]
      /\ P.pos[k] < P.bytes => Stands(P, ht, T, Here, d_off, P.pos[k])
  BY <1>1, <1>3 DEF Converting
<1>6. k < L /\ it = P.stack[k + 1] /\ d_stack' = SubSeq(P.stack, k + 1 + 1, L)
  BY <1>1, <1>2, <1>3, <1>4, <1>5 DEF Pops, Item
<1>7. PICK l \in 1 .. L : l = k + 1 /\ l - 1 = k
  BY <1>1, <1>6
<1>8. OneMore(P, l)
  BY <1>1 DEF Sound
<1>9. it = P.stack[l] /\ it \in StackEntry
  BY <1>6, <1>7, <1>8 DEF OneMore
<1>10. PICK len, u, v, o \in Nat : len = it.len /\ u = P.use[k] /\ v = P.use[l] /\ o = g_off
         /\ v = u + len + StructLen /\ v <= P.arena
  BY <1>5, <1>7, <1>8, <1>9 DEF OneMore, StackEntry
<1>11. ArenaAfter(len) \in Nat /\ ArenaAfter(len) <= v /\ ArenaFits(len)
  <2>1. PICK s, w, a \in Nat : s = StructLen /\ w = WordSize /\ a = P.arena /\ a < w
    BY CoalesceAssumption DEF Sound
  <2>2. o <= u
    BY <1>5, <1>10
  <2>3. o + len + s < w /\ o + len + s <= v /\ v <= a /\ o + len + s \in Nat
    <3>1. v = u + len + s /\ v <= a
      BY <1>10, <2>1
    <3>2. o + len + s <= v /\ o + len + s \in Nat
      BY <2>2, <3>1
    <3> QED
      BY <2>1, <3>1, <3>2
  <2>4. (o + len + s) % w = o + len + s
    BY <2>1, <2>3
  <2>5. ArenaAfter(len) = o + len + s
    BY <1>10, <2>1, <2>4 DEF ArenaAfter
  <2>6. ArenaFits(len)
    BY <1>5, <2>1, <2>3, <2>5 DEF ArenaFits
  <2> QED
    BY <2>3, <2>5, <2>6
<1>12. /\ phase' = IF it.mode = "direct" THEN "copy" ELSE "convert"
       /\ group' = Append(P.made[k], [id |-> it.id, len |-> it.len,
                                      data |-> IF it.mode = "direct" THEN <<>> ELSE <<"value">>])
       /\ g_off' \in Nat /\ g_off' <= P.use[l]
  BY <1>3, <1>5, <1>10, <1>11
<1>13. d_stack' = SubSeq(P.stack, l + 1, L) /\ g_size' = P.arena /\ d_remaining' = 0 /\ d_off' = d_off /\ ht' = ht
  BY <1>3, <1>5, <1>6, <1>7
<1>14. Here' = Here
  BY <1>3, HereSame
<1>15. CASE it.mode = "direct"
  <2>1. P.stack[l].mode = "direct" /\ 0 < P.stack[l].len /\ len \in Nat
    BY <1>3, <1>9, <1>10, <1>15
  <2>2. P.pos[l] = P.pos[k] + P.stack[l].len /\ P.pos[k] \in Nat /\ P.pos[l] <= P.bytes
    BY <1>7, <1>8, <2>1 DEF OneMore
  <2>3. P.pos[k] < P.bytes /\ P.pos[l - 1] + 0 = P.pos[k]
    <3>1. PICK x, y, b \in Nat : x = P.pos[k] /\ y = P.pos[l] /\ b = P.bytes
      BY <1>7, <1>8 DEF OneMore, Sound
    <3>2. y = x + len /\ y <= b /\ len > 0
      BY <1>9, <1>10, <2>1, <2>2, <3>1
    <3>3. x < b /\ x + 0 = x
      BY <3>2
    <3> QED
      BY <1>7, <3>1, <3>3
  <2>4. Stands(P, ht', T, Here', d_off', P.pos[l - 1] + 0)
    BY <1>5, <1>13, <1>14, <2>3
  <2>5. SubSeq(P.val[l], 1, 0) = <<>>
    OBVIOUS
  <2>6. group' = Append(P.made[l - 1], [id |-> P.stack[l].id, len |-> P.stack[l].len,
                                        data |-> SubSeq(P.val[l], 1, 0)])
    BY <1>7, <1>9, <1>12, <1>15, <2>5
  <2>7. phase' = "copy" /\ l # 0
    BY <1>12, <1>15
  <2>8. Converting(P, T, l, 0)'
    BY <1>1, <1>12, <1>13, <2>1, <2>4, <2>6, <2>7 DEF Converting
  <2> QED
    BY <1>1, <1>7, <2>8
<1>16. CASE it.mode # "direct"
  <2>1. P.stack[l].mode # "direct" /\ P.stack[l].len # 0
    BY <1>3, <1>9, <1>16
  <2>2. P.pos[l] = P.pos[k] + 0 /\ P.pos[k] \in Nat
    BY <1>7, <1>8, <2>1 DEF OneMore
  <2>3. P.val[l] = <<"value">> /\ P.made[l] = Append(P.made[l - 1], MadeOf(P, l))
    BY <1>8, <2>1 DEF OneMore
  <2>4. group' = P.made[l]
    BY <1>7, <1>9, <1>12, <1>16, <2>3 DEF MadeOf
  <2>5. P.pos[l] = P.pos[k]
    BY <2>2
  <2>6. P.pos[l] < P.bytes => Stands(P, ht', T, Here', d_off', P.pos[l])
    BY <1>5, <1>13, <1>14, <2>5
  <2>7. phase' = "convert"
    BY <1>12, <1>16
  <2>8. Converting(P, T, l, 0)'
    BY <1>1, <1>12, <1>13, <2>4, <2>6, <2>7 DEF Converting
  <2> QED
    BY <1>1, <1>7, <2>8
<1> QED
  BY <1>15, <1>16

\* The stack is empty.
LEMMA DoneConvert ==
  ASSUME NEW P, Sound(P), NEW T, NEW z, Tabled(P, T, z),
         NEW k \in 0 .. Len(P.stack), NEW c, Converting(P, T, k, c), Converted
  PROVE  Converting(P, T, k, c)'
<1>1. PICK L \in Nat : L = Len(P.stack) /\ k \in 0 .. L
  BY PlanTypes
<1>2. /\ phase = "convert" /\ d_stack = <<>> /\ phase' = "done"
      /\ UNCHANGED <<d_stack, g_size, g_off, group>>
  BY DEF Converted
<1>3. Pops(P.stack, k)
  BY PopsOne, Zenon DEF Sound
<1>4. /\ d_stack = SubSeq(P.stack, k + 1, L)
      /\ g_size = P.arena /\ g_off \in Nat /\ g_off <= P.use[k] /\ group = P.made[k]
  BY <1>1, <1>2 DEF Converting
<1>5. k = L
  BY <1>1, <1>2, <1>3, <1>4 DEF Pops
<1>6. Converting(P, T, k, c)'
  BY <1>1, <1>2, <1>4, <1>5 DEF Converting
<1> QED
  BY <1>6

\* What the copy finds: place kk of chain b, packet j, and byte o of it is
\* the next of item k.
Finds(P, T, k, c, b, kk, j, o) ==
  /\ Here = <<b, kk>> /\ ht[b][kk] = P.packets[j]
  /\ o = d_off /\ P.packets[j].off + o = P.pos[k - 1] + c /\ o < P.packets[j].len

\* While an item is copied the cursor is at one of the packets.
LEMMA CopyAt ==
  ASSUME NEW P, Sound(P), NEW T, NEW z, Tabled(P, T, z),
         NEW k \in 0 .. Len(P.stack), NEW c, Converting(P, T, k, c), phase = "copy"
  PROVE  /\ k \in 1 .. Len(P.stack) /\ c \in Nat /\ T \in Nat
         /\ \E b \in 0 .. T - 1 : \E kk \in 1 .. Len(ht[b]) :
              \E j \in 1 .. Len(P.packets) : \E o \in Nat : Finds(P, T, k, c, b, kk, j, o)
<1>1. PICK L \in Nat : L = Len(P.stack) /\ k \in 0 .. L
  BY PlanTypes
<1>2. k # 0 /\ c \in Nat /\ Stands(P, ht, T, Here, d_off, P.pos[k - 1] + c)
  BY DEF Converting
<1>3. PICK j \in 1 .. Len(P.packets) :
        /\ PlaceOf(ht, T, Here, P.packets[j])
        /\ d_off \in Nat /\ P.packets[j].off + d_off = P.pos[k - 1] + c /\ d_off < P.packets[j].len
  BY <1>2 DEF Stands
<1>4. PICK b \in 0 .. T - 1 : \E kk \in 1 .. Len(ht[b]) : Here = <<b, kk>> /\ ht[b][kk] = P.packets[j]
  BY <1>3 DEF PlaceOf
<1>5. PICK kk \in 1 .. Len(ht[b]) : Here = <<b, kk>> /\ ht[b][kk] = P.packets[j]
  BY <1>4
<1>6. Finds(P, T, k, c, b, kk, j, d_off)
  BY <1>3, <1>5 DEF Finds
<1>7. T \in Nat
  BY DEF Tabled, Full
<1> QED
  BY SMTT(30), <1>1, <1>2, <1>3, <1>5, <1>6, <1>7

\* The numbers of the copy.
Reckons(P, k, c, j, o) ==
  /\ Here # AtEnd /\ Packet = P.packets[j]
  /\ Packet.len \in Nat /\ P.stack[k].len \in Nat /\ c < P.stack[k].len
  /\ Active = [id |-> P.stack[k].id, len |-> P.stack[k].len, data |-> SubSeq(P.val[k], 1, c)]
  /\ Len(group) = Len(P.made[k - 1]) + 1
  /\ cc = Packet.len - o /\ cc > 0
  /\ must = P.stack[k].len - c
  /\ ~CannotCopy

\* What copy_direct_spead_item computes there.
LEMMA CopyNumbers ==
  ASSUME NEW P, Sound(P), NEW T, NEW z, Tabled(P, T, z),
         NEW k \in 1 .. Len(P.stack), NEW c \in Nat, Converting(P, T, k, c), phase = "copy",
         NEW b \in 0 .. T - 1, NEW kk \in 1 .. Len(ht[b]), NEW j \in 1 .. Len(P.packets),
         NEW o \in Nat, Finds(P, T, k, c, b, kk, j, o)
  PROVE  Reckons(P, k, c, j, o)
<1>1. PICK L \in Nat : L = Len(P.stack) /\ k \in 1 .. L
  BY LenProperties DEF Sound
<1>2. OneMore(P, k)
  BY <1>1 DEF Sound
<1>3. /\ P.stack[k].mode = "direct" /\ c < P.stack[k].len
      /\ d_remaining = IF c = 0 THEN 0 ELSE P.stack[k].len - c
      /\ group = Append(P.made[k - 1], [id |-> P.stack[k].id, len |-> P.stack[k].len,
                                        data |-> SubSeq(P.val[k], 1, c)])
  BY DEF Converting
<1>4. /\ Here = <<b, kk>> /\ ht[b][kk] = P.packets[j]
      /\ o = d_off /\ o < P.packets[j].len
  BY DEF Finds
<1>5. Packet = P.packets[j]
  BY <1>4 DEF Packet
<1>6. Here # AtEnd
  <2>1. t_len = T
    <3>1. T \in Nat /\ DOMAIN ht = 0 .. T - 1
      BY DEF Tabled, Full
    <3> QED
      BY <3>1, TLen
  <2>2. b # T
    <3>1. T \in Nat
      BY DEF Tabled, Full
    <3> QED
      BY <3>1
  <2>3. <<b, kk>> # <<T, 0>>
    BY <2>2
  <2> QED
    BY <1>4, <2>1, <2>3 DEF AtEnd
<1>7. PICK len \in Nat : len = Packet.len /\ len < WordSize
  <2>1. Tiles(P.packets, P.bytes, z)
    BY DEF Tabled
  <2>2. PICK l, f, h \in Nat : l = P.packets[j].len /\ f = P.packets[j].off /\ h = P.bytes
    BY <2>1, TileIs DEF Tiles
  <2>3. P.packets[j].off + P.packets[j].len <= P.bytes
    BY <2>1 DEF Tiles
  <2>4. PICK w \in Nat : w = WordSize /\ h < w
    BY <2>2, CoalesceAssumption DEF Sound
  <2>5. f + l <= h
    BY <2>2, <2>3
  <2>6. l < WordSize
    <3>1. l < w
      BY <2>4, <2>5
    <3> QED
      BY <2>4, <3>1
  <2> QED
    BY <1>5, <2>2, <2>6
<1>8. PICK g \in Nat : g = P.stack[k].len
  BY <1>2 DEF OneMore, StackEntry
<1>9. c < g /\ o < len
  BY <1>3, <1>4, <1>5, <1>7, <1>8
<1>10. P.made[k - 1] \in Seq(MadeItem)
  BY <1>2 DEF OneMore
<1>11. PICK it : it = [id |-> P.stack[k].id, len |-> P.stack[k].len, data |-> SubSeq(P.val[k], 1, c)]
  OBVIOUS
<1>12. P.val[k] \in Seq(Byte) /\ Len(P.val[k]) = g
  BY <1>2, <1>3, <1>8 DEF OneMore
<1>13. SubSeq(P.val[k], 1, c) \in Seq(Byte) /\ Len(SubSeq(P.val[k], 1, c)) = c
  BY SMTT(30), <1>9, <1>12
<1>14. it \in MadeItem /\ it.len = g /\ Len(it.data) = c
  BY <1>2, <1>8, <1>11, <1>13 DEF MadeItem, OneMore, StackEntry
<1>15. Len(group) = Len(P.made[k - 1]) + 1 /\ Active = it
  <2>1. group = Append(P.made[k - 1], it)
    BY <1>3, <1>11
  <2>2. PICK n \in Nat : n = Len(P.made[k - 1])
    BY <1>10, LenProperties
  <2>3. Len(group) = n + 1 /\ group[n + 1] = it
    BY <1>10, <1>14, <2>1, <2>2, AppendProperties
  <2> QED
    BY <2>2, <2>3 DEF Active
<1>16. cc = len - o /\ cc \in Nat /\ cc > 0 /\ cc <= len
  <2>1. len - o \in Nat /\ len - o > 0 /\ len - o < WordSize /\ WordSize \in Nat
    BY SMTT(30), <1>7, <1>9, CoalesceAssumption
  <2>2. (len - o) % WordSize = len - o
    BY SMTT(30), <2>1
  <2>3. cc = len - o
    BY <1>4, <1>7, <2>2 DEF cc
  <2> QED
    BY <1>7, <2>1, <2>3
<1>17. must = g - c
  <2>1. Active.len = g
    BY <1>14, <1>15
  <2>2. CASE c = 0
    BY <1>3, <1>8, <2>1, <2>2 DEF must
  <2>3. CASE c # 0
    <3>1. d_remaining = g - c /\ g - c # 0
      BY <1>3, <1>8, <1>9, <2>3
    <3> QED
      BY <3>1 DEF must
  <2> QED
    BY <2>2, <2>3
<1>18. ~CannotCopy
  <2>1. PICK m \in Nat : m = must /\ m + c = g
    BY SMTT(30), <1>8, <1>9, <1>17
  <2>2. Copied \in Nat /\ Copied <= m
    <3>1. mc = IF len <= m THEN cc ELSE m
      BY <1>7, <2>1 DEF mc
    <3>2. mc \in Nat /\ (mc < cc => mc = m) /\ (~(mc < cc) => cc <= m)
      BY SMTT(30), <1>7, <1>16, <2>1, <3>1
    <3> QED
      BY <1>16, <3>2 DEF Copied
  <2>3. Len(Active.data) = c /\ Active.len = g
    BY <1>14, <1>15
  <2>4. ~(Copied + c > g)
    BY <2>1, <2>2
  <2>5. ~(cc > Packet.len)
    BY <1>7, <1>16
  <2> QED
    BY <2>3, <2>4, <2>5 DEF CannotCopy
<1> QED
  BY <1>3, <1>5, <1>6, <1>7, <1>8, <1>11, <1>15, <1>16, <1>17, <1>18 DEF Reckons

\* The first c elements of v, and the m of x that are the next ones of v.
Pieced(v, x, c, o, m) ==
  SubSeq(v, 1, c) \o SubSeq(x, o + 1, o + m) = SubSeq(v, 1, c + m)

\* Two adjoining pieces make one.
LEMMA Pieces ==
  \A S : \A v, x \in Seq(S) : \A c, o, m \in Nat :
    c + m <= Len(v) /\ o + m <= Len(x) /\ (\A e \in 1 .. m : x[o + e] = v[c + e])
      => Pieced(v, x, c, o, m)
<1> SUFFICES ASSUME NEW S, NEW v \in Seq(S), NEW x \in Seq(S), NEW c \in Nat, NEW o \in Nat, NEW m \in Nat,
                    c + m <= Len(v), o + m <= Len(x), \A e \in 1 .. m : x[o + e] = v[c + e]
             PROVE  Pieced(v, x, c, o, m)
  BY ZenonT(40)
<1>1. PICK a, u, w : a = SubSeq(v, 1, c) /\ u = SubSeq(x, o + 1, o + m) /\ w = SubSeq(v, 1, c + m)
  OBVIOUS
<1>2. PICK p1, p2 \in Nat : p1 = Len(v) /\ p2 = Len(x)
  BY LenProperties
<1>3. a \in Seq(S) /\ Len(a) = c /\ \A i \in 1 .. c : a[i] = v[i]
  BY <1>1, <1>2
<1>4. w \in Seq(S) /\ Len(w) = c + m /\ \A i \in 1 .. c + m : w[i] = v[i]
  <2>1. PICK n \in Nat : n = c + m
    OBVIOUS
  <2>2. w = SubSeq(v, 1, n) /\ n <= p1
    BY <1>1, <1>2, <2>1
  <2>3. w \in Seq(S) /\ Len(w) = n /\ \A i \in 1 .. n : w[i] = v[i]
    BY <1>2, <2>2
  <2> QED
    BY <2>1, <2>3
<1>5. u \in Seq(S) /\ Len(u) = m /\ \A e \in 1 .. m : u[e] = x[o + e]
  <2>1. Sliced(u, x, o, m, S)
    BY <1>1, Slice
  <2> QED
    BY <2>1 DEF Sliced
<1>6. PICK y : y = a \o u
  OBVIOUS
<1>7. /\ y \in Seq(S) /\ Len(y) = c + m
      /\ \A i \in 1 .. c : y[i] = a[i]
      /\ \A e \in 1 .. m : y[c + e] = u[e]
  <2>1. Joined(a \o u, a, u, S)
    BY <1>3, <1>5, JoinedAll, Zenon
  <2> QED
    BY <1>3, <1>5, <1>6, <2>1 DEF Joined
<1>8. ASSUME NEW i \in 1 .. c + m PROVE y[i] = w[i]
  <2>1. CASE i <= c
    BY SMTT(30), <1>3, <1>4, <1>7, <2>1
  <2>2. CASE ~(i <= c)
    <3>1. PICK e \in 1 .. m : c + e = i
      <4>1. i - c \in 1 .. m /\ c + (i - c) = i
        BY <2>2
      <4> QED
        BY <4>1
    <3>2. y[i] = u[e] /\ u[e] = x[o + e] /\ x[o + e] = v[c + e]
      BY <1>5, <1>7, <3>1
    <3> QED
      BY <1>4, <3>1, <3>2
  <2> QED
    BY <2>1, <2>2
<1>9. y = w
  BY <1>4, <1>7, <1>8, SeqEqual
<1> QED
  BY <1>1, <1>6, <1>9 DEF Pieced

\* An item with other data.
LEMMA OtherData ==
  ASSUME NEW it \in MadeItem, NEW u
  PROVE  [it EXCEPT !.data = u] = [id |-> it.id, len |-> it.len, data |-> u]
  BY DEF MadeItem

\* Its last element changed.
LastChanged(g, it, u) ==
  [Append(g, it) EXCEPT ![Len(Append(g, it))].data = u] = Append(g, [it EXCEPT !.data = u])

\* An update of the last element.
LEMMA ChangesLast ==
  \A g \in Seq(MadeItem) : \A it \in MadeItem : \A u \in Seq(Byte) : LastChanged(g, it, u)
<1> SUFFICES ASSUME NEW g \in Seq(MadeItem), NEW it \in MadeItem, NEW u \in Seq(Byte)
             PROVE  LastChanged(g, it, u)
  OBVIOUS
<1>1. PICK n \in Nat : n = Len(g)
  BY LenProperties
<1>2. PICK a : a = Append(g, it)
  OBVIOUS
<1>3. /\ a \in Seq(MadeItem) /\ Len(a) = n + 1 /\ a[n + 1] = it /\ \A i \in 1 .. n : a[i] = g[i]
      /\ DOMAIN a = 1 .. n + 1
  BY <1>1, <1>2, AppendProperties
<1>4. PICK it2 : it2 = [it EXCEPT !.data = u]
  OBVIOUS
<1>5. it2 \in MadeItem
  BY <1>4 DEF MadeItem
<1>6. PICK b : b = [a EXCEPT ![n + 1].data = u]
  OBVIOUS
<1>7. b[n + 1] = it2 /\ (\A i \in 1 .. n : b[i] = g[i]) /\ b = [i \in 1 .. n + 1 |-> b[i]]
  <2>1. n + 1 \in DOMAIN a
    BY <1>3
  <2>2. b = [a EXCEPT ![n + 1] = [a[n + 1] EXCEPT !.data = u]]
    BY <1>6
  <2>3. b = [a EXCEPT ![n + 1] = it2]
    BY <1>3, <1>4, <2>2
  <2>4. b[n + 1] = it2
    BY <2>1, <2>3
  <2>5. ASSUME NEW i \in 1 .. n PROVE b[i] = g[i]
    <3>1. i # n + 1 /\ i \in 1 .. n + 1
      OBVIOUS
    <3>2. b[i] = a[i]
      BY <1>3, <2>3, <3>1
    <3> QED
      BY <1>3, <3>2
  <2>6. b = [i \in 1 .. n + 1 |-> b[i]]
    BY <1>3, <2>3
  <2> QED
    BY <2>4, <2>5, <2>6
<1>8. b \in Seq(MadeItem) /\ Len(b) = n + 1
  <2>1. \A i \in 1 .. n : g[i] \in MadeItem
    BY <1>1, ElementOfSeq
  <2>2. ASSUME NEW i \in 1 .. n + 1 PROVE b[i] \in MadeItem
    <3>1. i = n + 1 \/ i \in 1 .. n
      OBVIOUS
    <3> QED
      BY <1>5, <1>7, <2>1, <3>1
  <2>3. b \in [1 .. n + 1 -> MadeItem]
    BY <1>7, <2>2
  <2> QED
    BY <2>3
<1>9. PICK d : d = Append(g, it2)
  OBVIOUS
<1>10. d \in Seq(MadeItem) /\ Len(d) = n + 1 /\ d[n + 1] = it2 /\ \A i \in 1 .. n : d[i] = g[i]
  BY <1>1, <1>5, <1>9, AppendProperties
<1>11. \A i \in 1 .. n + 1 : b[i] = d[i]
  <2>1. \A i \in 1 .. n + 1 : i = n + 1 \/ i \in 1 .. n
    OBVIOUS
  <2> QED
    BY <1>7, <1>10, <2>1
<1>12. b = d
  BY <1>8, <1>10, <1>11, SeqEqual
<1> QED
  BY <1>2, <1>3, <1>4, <1>6, <1>9, <1>12 DEF LastChanged

\* The group after a copy of m bytes.
GrowsBy(P, k, c, m) ==
  /\ group' = Append(P.made[k - 1], [id |-> P.stack[k].id, len |-> P.stack[k].len,
                                     data |-> SubSeq(P.val[k], 1, c + m)])
  /\ c + m = P.stack[k].len => group' = P.made[k]

\* append_copy_to_spead_item adds the next bytes to the item.
LEMMA CopyGrows ==
  ASSUME NEW P, Sound(P), NEW T, NEW z, Tabled(P, T, z),
         NEW k \in 1 .. Len(P.stack), NEW c \in Nat, Converting(P, T, k, c), phase = "copy",
         NEW b \in 0 .. T - 1, NEW kk \in 1 .. Len(ht[b]), NEW j \in 1 .. Len(P.packets),
         NEW o \in Nat, Finds(P, T, k, c, b, kk, j, o), AppendCopy,
         NEW m \in Nat, m = Copied, o + m <= Packet.len, c + m <= P.stack[k].len
  PROVE  GrowsBy(P, k, c, m)
<1>0. Reckons(P, k, c, j, o)
  BY CopyNumbers, Zenon
<1>1. OneMore(P, k) /\ Carries(P, j, k)
  BY DEF Sound
<1>2. P.stack[k].mode = "direct"
  BY DEF Converting
<1>3. PICK g, l \in Nat : g = P.stack[k].len /\ l = Packet.len
  BY <1>0 DEF Reckons
<1>4. PICK it : it = [id |-> P.stack[k].id, len |-> P.stack[k].len, data |-> SubSeq(P.val[k], 1, c)]
  OBVIOUS
<1>5. Active = it /\ Packet = P.packets[j] /\ group = Append(P.made[k - 1], it)
  <2>1. group = Append(P.made[k - 1], it)
    BY <1>4 DEF Converting
  <2> QED
    BY <1>0, <1>4, <2>1 DEF Reckons
<1>6. PICK v \in Seq(Byte) : v = P.val[k] /\ Len(v) = g
  BY <1>1, <1>2, <1>3 DEF OneMore
<1>7. PICK x \in Seq(Byte) : x = Packet.data /\ Len(x) = l
  BY <1>1, <1>3, <1>5 DEF Carries
<1>8. ASSUME NEW e \in 1 .. m PROVE x[o + e] = v[c + e]
  <2>1. o + e \in 1 .. l /\ c + e \in 1 .. g
    <3>1. o + m <= l /\ c + m <= g
      BY <1>3
    <3> QED
      BY <3>1
  <2>2. SameByte(P, j, k, c + e, o + e)
    BY <1>1, <1>2, <1>3, <1>5, <2>1 DEF Carries
  <2>3. PICK f, q \in Nat : f = P.packets[j].off /\ q = P.pos[k - 1]
    <3>1. Tiles(P.packets, P.bytes, z)
      BY DEF Tabled
    <3> QED
      BY <1>1, <3>1, TileIs DEF OneMore
  <2>4. f + o = q + c
    BY <2>3 DEF Finds
  <2>5. f + (o + e) = q + (c + e)
    BY <2>4
  <2> QED
    BY <1>5, <1>6, <1>7, <2>2, <2>3, <2>5 DEF SameByte
<1>9. Pieced(v, x, c, o, m)
  <2>1. c + m <= Len(v) /\ o + m <= Len(x)
    BY <1>3, <1>6, <1>7
  <2> QED
    BY <1>8, <2>1, Pieces
<1>10. PICK u : u = SubSeq(v, 1, c + m)
  OBVIOUS
<1>11. it.data \o SubSeq(x, o + 1, o + m) = u
  BY <1>4, <1>6, <1>9, <1>10 DEF Pieced
<1>12. group' = [group EXCEPT ![Len(group)].data = @ \o SubSeq(x, o + 1, o + m)]
  <2>1. d_off = o
    BY DEF Finds
  <2> QED
    BY <1>7, <2>1 DEF AppendCopy
<1>13. P.made[k - 1] \in Seq(MadeItem)
  BY <1>1 DEF OneMore
<1>14. SubSeq(v, 1, c) \in Seq(Byte) /\ u \in Seq(Byte)
  <2>1. c <= g
    BY SMTT(30), <1>3
  <2>2. PICK n \in Nat : n = c + m /\ n <= g
    BY SMTT(60), <1>3
  <2>3. SubSeq(v, 1, c) \in Seq(Byte)
    BY <1>6, <2>1
  <2>4. SubSeq(v, 1, n) \in Seq(Byte)
    BY <1>6, <2>2
  <2> QED
    BY <1>10, <2>2, <2>3, <2>4
<1>15. it \in MadeItem
  BY <1>1, <1>4, <1>6, <1>14 DEF MadeItem, OneMore, StackEntry
<1>16. PICK n \in Nat : n = Len(group) /\ group[n] = it /\ n \in DOMAIN group
  <2>1. PICK n \in Nat : n = Len(P.made[k - 1])
    BY <1>13, LenProperties
  <2>2. Len(group) = n + 1 /\ group[n + 1] = it
    BY SMTT(30), <1>5, <1>13, <1>15, <2>1, AppendProperties
  <2>3. group \in Seq(MadeItem)
    BY <1>5, <1>13, <1>15, AppendProperties
  <2>4. n + 1 \in DOMAIN group
    BY <2>2, <2>3, LenProperties
  <2> QED
    BY <2>2, <2>4
<1>17. group' = [group EXCEPT ![n].data = u]
  <2>1. group[n].data = it.data
    BY <1>16
  <2>2. group' = [group EXCEPT ![n].data = group[n].data \o SubSeq(x, o + 1, o + m)]
    BY <1>12, <1>16
  <2> QED
    BY <1>11, <2>1, <2>2
<1>18. group' = Append(P.made[k - 1], [it EXCEPT !.data = u])
  <2>1. LastChanged(P.made[k - 1], it, u)
    BY <1>13, <1>14, <1>15, ChangesLast
  <2> QED
    BY <1>5, <1>16, <1>17, <2>1 DEF LastChanged
<1>19. [it EXCEPT !.data = u] = [id |-> P.stack[k].id, len |-> P.stack[k].len, data |-> u]
  <2>1. [it EXCEPT !.data = u] = [id |-> it.id, len |-> it.len, data |-> u]
    BY <1>15, OtherData
  <2>2. it.id = P.stack[k].id /\ it.len = P.stack[k].len
    BY <1>4
  <2> QED
    BY <2>1, <2>2
<1>20. group' = Append(P.made[k - 1], [id |-> P.stack[k].id, len |-> P.stack[k].len,
                                       data |-> SubSeq(P.val[k], 1, c + m)])
  BY <1>6, <1>10, <1>18, <1>19
<1>21. ASSUME c + m = P.stack[k].len PROVE group' = P.made[k]
  <2>1. SubSeq(v, 1, c + m) = v
    <3>1. SubSeq(v, 1, Len(v)) = v
      OBVIOUS
    <3> QED
      BY <1>3, <1>6, <1>21, <3>1
  <2>2. group' = Append(P.made[k - 1], MadeOf(P, k))
    BY <1>6, <1>20, <2>1 DEF MadeOf
  <2>3. P.stack[k].len # 0
    BY SMTT(30), <1>3 DEF Converting
  <2> QED
    BY <1>1, <2>2, <2>3 DEF OneMore
<1> QED
  BY <1>20, <1>21 DEF GrowsBy

\* The item ends inside the packet.
LEMMA WithinStep ==
  ASSUME NEW P, Sound(P), NEW T, NEW z, Tabled(P, T, z),
         NEW k \in 1 .. Len(P.stack), NEW c \in Nat, Converting(P, T, k, c), CopyWithin,
         NEW b \in 0 .. T - 1, NEW kk \in 1 .. Len(ht[b]), NEW j \in 1 .. Len(P.packets),
         NEW o \in Nat, Finds(P, T, k, c, b, kk, j, o)
  PROVE  Converting(P, T, k, 0)'
<1>1. /\ phase = "copy" /\ mc < cc /\ AppendCopy
      /\ d_off' = d_off + mc /\ d_remaining' = 0 /\ phase' = "convert" /\ CursorAt("object")
      /\ UNCHANGED <<ht, d_stack, g_size, g_off>>
  BY DEF CopyWithin
<1>2. T \in Nat
  BY DEF Tabled, Full
<1>3. Reckons(P, k, c, j, o)
  BY <1>1, CopyNumbers, Zenon
<1>6. PICK len, g \in Nat : len = Packet.len /\ g = P.stack[k].len /\ c < g
  BY <1>3 DEF Reckons
<1>7. /\ Packet = P.packets[j] /\ cc = len - o /\ must = g - c
  <2>1. Packet = P.packets[j] /\ cc = Packet.len - o /\ must = P.stack[k].len - c
    BY <1>3 DEF Reckons
  <2> QED
    BY <1>6, <2>1
<1>8. o < len
  BY <1>6, <1>7 DEF Finds
<1>9. PICK m \in Nat : m = g - c /\ m > 0 /\ c + m = g
  <2>1. c < g
    BY <1>6
  <2>2. g - c \in Nat /\ g - c > 0 /\ c + (g - c) = g
    BY <2>1
  <2> QED
    BY <2>2
<1>10. mc = m /\ m < len - o /\ Copied = m /\ o + m <= len /\ o + m < len
  <2>1. mc = IF len <= m THEN len - o ELSE m
    BY <1>6, <1>7, <1>9 DEF mc
  <2>2. mc < len - o
    BY <1>1, <1>7
  <2>3. mc = m
    BY <1>8, <2>1, <2>2
  <2>4. Copied = m
    BY <1>1, <2>3 DEF Copied
  <2> QED
    BY <1>8, <2>2, <2>3, <2>4
<1>11. group' = P.made[k]
  <2>1. m = Copied /\ o + m <= Packet.len /\ c + m <= P.stack[k].len /\ c + m = P.stack[k].len
    BY <1>6, <1>9, <1>10
  <2> QED
    <3>1. GrowsBy(P, k, c, m)
      BY <1>1, <2>1, CopyGrows, Zenon
    <3> QED
      BY <2>1, <3>1 DEF GrowsBy
<1>12. P.stack[k].mode = "direct" /\ OneMore(P, k)
  BY <1>1, <1>2 DEF Converting, Sound
<1>13. PICK f, q, e \in Nat : f = P.packets[j].off /\ q = P.pos[k - 1] /\ e = P.pos[k] /\ e = q + g
  <2>1. Tiles(P.packets, P.bytes, z)
    BY DEF Tabled
  <2> QED
    BY <1>6, <1>12, <2>1, TileIs DEF OneMore
<1>14. f + o = q + c /\ f + (o + m) = e
  <2>1. f + o = q + c
    BY <1>13 DEF Finds
  <2>2. c + m = g /\ e = q + g
    BY <1>9, <1>13
  <2>3. f + (o + m) = e
    BY <2>1, <2>2
  <2> QED
    BY <2>1, <2>3
<1>15. kk = 1
  <2>1. SUFFICES ASSUME kk # 1 PROVE FALSE
    OBVIOUS
  <2>2. kk \in 2 .. Len(ht[b])
    <3>1. Len(ht[b]) \in Nat
      BY FullAt DEF Tabled
    <3> QED
      BY <2>1, <3>1
  <2>3. ht[b][kk].off = f /\ ht[b][kk].len = len
    BY <1>6, <1>7, <1>13 DEF Finds
  <2>4. f < e /\ e < f + len
    BY <1>9, <1>10, <1>14
  <2>5. ~(ht[b][kk].off < P.pos[k] /\ P.pos[k] < ht[b][kk].off + ht[b][kk].len)
    BY <1>2, <1>12, <2>2 DEF Tabled, EndsAtHeads
  <2> QED
    BY <1>13, <2>3, <2>4, <2>5
<1>16. Here' = Here
  <2>1. Here = <<b, 1>>
    BY <1>15 DEF Finds
  <2>2. cstate' = "object" /\ coi' = b
    BY <1>1, <2>1 DEF CursorAt
  <2>3. Here' = FirstFrom(coi)'
    BY <2>2 DEF Here
  <2>4. DOMAIN ht = 0 .. T - 1
    BY DEF Tabled
  <2>5. ht[b] # <<>>
    BY <1>15
  <2>6. PICK s : s = {a \in DOMAIN ht : a >= b /\ ht[a] # <<>>}
    OBVIOUS
  <2>7. b \in s /\ s \in SUBSET Nat /\ \A a \in s : b <= a
    BY <2>4, <2>5, <2>6
  <2>8. Min(s) = b
    <3>1. PICK a \in Nat : a = Min(s) /\ a \in s /\ a <= b
      BY <2>7, MinIs
    <3>2. b <= a /\ b \in Nat
      BY <2>7, <3>1
    <3> QED
      BY <3>1, <3>2
  <2>9. FirstFrom(coi)' = <<b, 1>>
    <3>1. s = {a \in DOMAIN ht' : a >= coi' /\ ht'[a] # <<>>}
      BY <1>1, <2>2, <2>6
    <3>2. s # {}
      BY <2>7
    <3> QED
      BY <2>8, <3>1, <3>2 DEF FirstFrom
  <2> QED
    BY <2>1, <2>3, <2>9
<1>17. Stands(P, ht', T, Here', d_off', P.pos[k])
  <2>1. d_off' = o + m
    BY <1>1, <1>10 DEF Finds
  <2>2. PlaceOf(ht', T, Here', P.packets[j])
    BY <1>1, <1>16 DEF Finds, PlaceOf
  <2>3. o + m \in Nat /\ P.packets[j].off + (o + m) = P.pos[k] /\ o + m < P.packets[j].len
    BY <1>6, <1>7, <1>10, <1>13, <1>14
  <2> QED
    BY <2>1, <2>2, <2>3 DEF Stands
<1>18. d_stack = SubSeq(P.stack, k + 1, Len(P.stack)) /\ g_size = P.arena /\ g_off \in Nat /\ g_off <= P.use[k]
  BY DEF Converting
<1> QED
  BY <1>1, <1>11, <1>17, <1>18 DEF Converting

\* From one packet to the next.
LEMMA NextHere ==
  ASSUME NEW T \in Nat, DOMAIN ht = 0 .. T - 1,
         NEW b \in 0 .. T - 1, NEW kk, Here = <<b, kk>>, CursorAt("next"), UNCHANGED ht
  PROVE  Here' = NextAt(ht, T, b, kk)
<1>1. cstate' = "next" /\ coi' = b /\ co' = kk /\ ht' = ht
  BY DEF CursorAt
<1>2. t_len' = T
  <2>1. t_len = T
    BY TLen
  <2> QED
    BY <1>1, <2>1 DEF t_len
<1>3. ASSUME NEW i PROVE FirstFrom(i)' = FirstAt(ht, T, i)
  <2>1. AtEnd' = <<T, 0>>
    BY <1>2 DEF AtEnd
  <2>2. DOMAIN ht' = 0 .. T - 1
    BY <1>1
  <2> QED
    BY <1>1, <2>1, <2>2 DEF FirstFrom, FirstAt
<1>4. FirstFrom(b + 1)' = FirstAt(ht, T, b + 1)
  BY <1>3
<1>5. Here' = IF kk < Len(ht[b]) THEN <<b, kk + 1>> ELSE FirstAt(ht, T, b + 1)
  <2>1. Here' = IF co' < Len(ht'[coi']) THEN <<coi', co' + 1>> ELSE FirstFrom(coi + 1)'
    BY <1>1 DEF Here
  <2>2. FirstFrom(coi + 1)' = FirstAt(ht, T, b + 1)
    BY <1>1, <1>3 DEF FirstFrom
  <2> QED
    BY <1>1, <2>1, <2>2
<1> QED
  BY <1>5 DEF NextAt

\* The packet is used up.
LEMMA AcrossStep ==
  ASSUME NEW P, Sound(P), NEW T, NEW z, Tabled(P, T, z),
         NEW k \in 1 .. Len(P.stack), NEW c \in Nat, Converting(P, T, k, c), CopyAcross,
         NEW b \in 0 .. T - 1, NEW kk \in 1 .. Len(ht[b]), NEW j \in 1 .. Len(P.packets),
         NEW o \in Nat, Finds(P, T, k, c, b, kk, j, o)
  PROVE  \E c2 \in Nat : Converting(P, T, k, c2)'
<1>1. /\ phase = "copy" /\ mc >= cc /\ AppendCopy
      /\ d_off' = 0 /\ d_remaining' = must - cc
      /\ phase' = IF must = cc THEN "convert" ELSE "copy"
      /\ CursorAt("next")
      /\ UNCHANGED <<ht, d_stack, g_size, g_off>>
  BY DEF CopyAcross
<1>2. T \in Nat
  BY DEF Tabled, Full
<1>3. Reckons(P, k, c, j, o)
  BY <1>1, CopyNumbers, Zenon
<1>6. PICK len, g \in Nat : len = Packet.len /\ g = P.stack[k].len /\ c < g
  BY <1>3 DEF Reckons
<1>7. /\ Packet = P.packets[j] /\ cc = len - o /\ must = g - c
  <2>1. Packet = P.packets[j] /\ cc = Packet.len - o /\ must = P.stack[k].len - c
    BY <1>3 DEF Reckons
  <2> QED
    BY <1>6, <2>1
<1>8. o < len
  BY <1>6, <1>7 DEF Finds
<1>9. PICK m \in Nat : m = len - o /\ m > 0 /\ o + m = len /\ cc = m
  <2>1. len - o \in Nat /\ len - o > 0 /\ o + (len - o) = len
    BY <1>8
  <2> QED
    BY <1>7, <2>1
<1>10. c + m <= g /\ Copied = m
  <2>1. PICK r \in Nat : r = g - c /\ c + r = g
    BY SMTT(30), <1>2, <1>6
  <2>2. mc = IF len <= r THEN m ELSE r
    BY <1>6, <1>7, <1>9, <2>1 DEF mc
  <2>3. mc >= m
    BY <1>1, <1>9
  <2>4. m <= r
    BY <1>9, <2>2, <2>3
  <2>5. Copied = m
    BY <1>9, <2>1, <2>2, <2>3 DEF Copied
  <2>6. c + m <= g
    BY <1>2, <2>1, <2>4
  <2> QED
    BY <2>5, <2>6
<1>a. m = Copied /\ o + m <= Packet.len /\ c + m <= P.stack[k].len
  BY <1>6, <1>9, <1>10
<1>4. GrowsBy(P, k, c, m)
  BY <1>1, <1>a, CopyGrows, Zenon
<1>11. group' = Append(P.made[k - 1], [id |-> P.stack[k].id, len |-> P.stack[k].len,
                                       data |-> SubSeq(P.val[k], 1, c + m)])
  BY <1>4 DEF GrowsBy
<1>12. c + m = g => group' = P.made[k]
  <2>1. c + m = P.stack[k].len => group' = P.made[k]
    BY <1>4 DEF GrowsBy
  <2> QED
    BY <1>6, <2>1
<1>13. P.stack[k].mode = "direct" /\ OneMore(P, k)
  BY <1>1, <1>2 DEF Converting, Sound
<1>14. Tiles(P.packets, P.bytes, z) /\ Full(ht, T, P.packets, P.bytes) /\ Rising(ht, T) /\ DOMAIN ht = 0 .. T - 1
  BY DEF Tabled
<1>15. PICK f, q, e, h \in Nat :
         /\ f = P.packets[j].off /\ q = P.pos[k - 1] /\ e = P.pos[k] /\ e = q + g
         /\ h = P.bytes /\ e <= h
  BY ZenonT(40), <1>6, <1>13, <1>14, TileIs DEF OneMore, Sound
<1>16. f + o = q + c /\ f + len = q + (c + m)
  <2>1. f + o = q + c
    BY <1>15 DEF Finds
  <2>2. o + m = len
    BY <1>9
  <2>3. f + len = q + (c + m)
    BY <2>1, <2>2
  <2> QED
    BY <2>1, <2>3
<1>17. ASSUME f + len < h PROVE Stands(P, ht', T, Here', 0, f + len)
  <2>1. PICK n \in Nat : n = Len(P.packets) /\ j \in 1 .. n
    BY <1>14, LenProperties DEF Tiles
  <2>2. P.packets[n].off + P.packets[n].len = h
    BY <1>14, <1>15, <2>1 DEF Full
  <2>3. j < n
    <3>1. j # n
      BY <1>6, <1>7, <1>15, <1>17, <2>2
    <3> QED
      BY <2>1, <3>1
  <2>4. PICK i \in 1 .. n : i = j + 1
    BY <2>1, <2>3
  <2>5. P.packets[i].off = f + len
    BY <1>6, <1>7, <1>14, <1>15, <2>1, <2>3, <2>4 DEF Tiles
  <2>6. P.packets[i].len > 0
    <3>1. h > 0
      BY <1>17
    <3> QED
      BY <1>14, <1>15, <2>1, <2>4, <3>1 DEF Tiles
  <2>7. Here = <<b, kk>> /\ ht[b][kk] = P.packets[j]
    BY DEF Finds
  <2>8. Here' = NextAt(ht, T, b, kk)
    BY <1>1, <1>2, <1>14, <2>7, NextHere
  <2>9. PlaceOf(ht, T, NextAt(ht, T, b, kk), P.packets[i])
    BY <1>14, <2>1, <2>3, <2>4, <2>7, NextAtIs
  <2>10. PlaceOf(ht', T, Here', P.packets[i])
    BY <1>1, <2>8, <2>9
  <2>11. 0 \in Nat /\ P.packets[i].off + 0 = f + len /\ 0 < P.packets[i].len
    <3>1. P.packets[i].len \in Nat
      BY <1>14, <2>1, TileIs
    <3> QED
      BY <2>5, <2>6, <3>1
  <2> QED
    BY <2>1, <2>10, <2>11 DEF Stands
<1>18. d_stack = SubSeq(P.stack, k + 1, Len(P.stack)) /\ g_size = P.arena /\ g_off \in Nat /\ g_off <= P.use[k]
  BY DEF Converting
<1>19. CASE must = cc
  <2>1. c + m = g /\ phase' = "convert" /\ d_remaining' = 0
    <3>1. g - c = m
      BY <1>7, <1>9, <1>19
    <3>2. d_remaining' = m - m
      BY <1>1, <1>9, <1>19
    <3> QED
      BY <1>1, <1>2, <1>9, <1>19, <3>1, <3>2
  <2>2. f + len = e
    BY <1>2, <1>15, <1>16, <2>1
  <2>3. P.pos[k] < P.bytes => Stands(P, ht', T, Here', d_off', P.pos[k])
    BY <1>1, <1>15, <1>17, <2>2
  <2>4. Converting(P, T, k, 0)'
    BY <1>1, <1>12, <1>18, <2>1, <2>3 DEF Converting
  <2> QED
    BY <2>4
<1>20. CASE must # cc
  <2>1. PICK w \in Nat : w = c + m /\ w # 0 /\ w < g
    <3>1. g - c # m
      BY <1>7, <1>9, <1>20
    <3> QED
      BY <1>2, <1>9, <1>10, <3>1
  <2>2. phase' = "copy" /\ d_remaining' = g - w
    <3>1. d_remaining' = g - c - m
      BY <1>1, <1>7, <1>9
    <3> QED
      BY <1>1, <1>2, <1>20, <2>1, <3>1
  <2>3. f + len = q + w /\ f + len < h
    <3>1. f + len = q + w
      BY <1>16, <2>1
    <3>2. w < g /\ e = q + g /\ e <= h
      BY <1>15, <2>1
    <3>3. f + len < h
      BY <3>1, <3>2
    <3> QED
      BY <3>1, <3>3
  <2>4. Stands(P, ht', T, Here', d_off', P.pos[k - 1] + w)
    BY <1>1, <1>15, <1>17, <2>3
  <2>5. d_remaining' = IF w = 0 THEN 0 ELSE P.stack[k].len - w
    BY <1>6, <2>1, <2>2
  <2>6. k # 0 /\ w < P.stack[k].len
    BY <1>2, <1>6, <2>1
  <2>7. group' = Append(P.made[k - 1], [id |-> P.stack[k].id, len |-> P.stack[k].len,
                                        data |-> SubSeq(P.val[k], 1, w)])
    BY <1>11, <2>1
  <2>8. Converting(P, T, k, w)'
    BY <1>1, <1>13, <1>18, <2>1, <2>2, <2>4, <2>5, <2>6, <2>7 DEF Converting
  <2> QED
    BY <2>8
<1> QED
  BY <1>19, <1>20

\* A round of the copy, whether the packet or the item ends first.
LEMMA CopyConvert ==
  ASSUME NEW P, Sound(P), NEW T, NEW z, Tabled(P, T, z),
         NEW k \in 0 .. Len(P.stack), NEW c, Converting(P, T, k, c),
         CopyWithin \/ CopyAcross
  PROVE  \E c2 \in Nat : Converting(P, T, k, c2)'
<1>1. phase = "copy"
  BY DEF CopyWithin, CopyAcross
<1>2. k \in 1 .. Len(P.stack) /\ c \in Nat /\ T \in Nat
  BY <1>1, CopyAt
<1>3. PICK b \in 0 .. T - 1 : \E kk \in 1 .. Len(ht[b]) : \E j \in 1 .. Len(P.packets) : \E o \in Nat :
        Finds(P, T, k, c, b, kk, j, o)
  BY <1>1, CopyAt
<1>4. PICK kk \in 1 .. Len(ht[b]) : \E j \in 1 .. Len(P.packets) : \E o \in Nat : Finds(P, T, k, c, b, kk, j, o)
  BY <1>3
<1>5. PICK j \in 1 .. Len(P.packets), o \in Nat : Finds(P, T, k, c, b, kk, j, o)
  BY <1>4
<1>6. CASE CopyWithin
  <2>1. Converting(P, T, k, 0)'
    BY <1>2, <1>5, <1>6, WithinStep, Zenon
  <2> QED
    BY <2>1
<1>7. CASE CopyAcross
  BY <1>2, <1>5, <1>7, AcrossStep, Zenon
<1> QED
  BY <1>6, <1>7

\* The copy never stops short.
LEMMA NeverShort ==
  ASSUME NEW P, Sound(P), NEW T, NEW z, Tabled(P, T, z),
         NEW k \in 0 .. Len(P.stack), NEW c, Converting(P, T, k, c)
  PROVE  ~CopyNothing /\ ~CopyFromStart /\ ~CopyFails
<1> SUFFICES ASSUME CopyNothing \/ CopyFromStart \/ CopyFails PROVE FALSE
  OBVIOUS
<1>1. phase = "copy" /\ (Here = AtEnd \/ cc = 0 \/ CannotCopy)
  BY DEF CopyNothing, CopyFromStart, CopyFails
<1>2. k \in 1 .. Len(P.stack) /\ c \in Nat /\ T \in Nat
  BY <1>1, CopyAt
<1>3. PICK b \in 0 .. T - 1 : \E kk \in 1 .. Len(ht[b]) : \E j \in 1 .. Len(P.packets) : \E o \in Nat :
        Finds(P, T, k, c, b, kk, j, o)
  BY <1>1, CopyAt
<1>4. PICK kk \in 1 .. Len(ht[b]) : \E j \in 1 .. Len(P.packets) : \E o \in Nat : Finds(P, T, k, c, b, kk, j, o)
  BY <1>3
<1>5. PICK j \in 1 .. Len(P.packets), o \in Nat : Finds(P, T, k, c, b, kk, j, o)
  BY <1>4
<1>6. Here # AtEnd /\ cc > 0 /\ ~CannotCopy
  <2>1. \E j2 \in 1 .. Len(P.packets), o2 \in Nat : Reckons(P, k, c, j2, o2)
    BY <1>1, <1>2, <1>5, CopyNumbers, Zenon
  <2> QED
    BY <2>1 DEF Reckons
<1> QED
  BY <1>1, <1>6

(***************************************************************************)
(* The plan for a group that has arrived                                   *)
(***************************************************************************)

Mark == [id |-> 0, len |-> ImmLen, data |-> <<"value">>]
Marks(f) == IF f = <<>> THEN <<>> ELSE <<Mark>>

MadeAt(f, k) == IF k < Len(f) THEN <<>> ELSE Marks(f) \o Making(Len(ig))[k - Len(f)]
ValAt(f, k) == IF k <= Len(f) THEN <<"value">> ELSE Bytes(k - Len(f), 0, ig[k - Len(f)])
PosAt(f, k) == IF k < Len(f) THEN 0 ELSE BytesUpTo(k - Len(f))
UseAt(f, k) == PosAt(f, k) + (IF k < Len(f) THEN 0 ELSE Len(f) * ImmLen) + k * StructLen

Plan(f, s) ==
  [stack   |-> Stack(f),
   made    |-> [k \in 0 .. Len(f) + Len(ig) |-> MadeAt(f, k)],
   val     |-> [k \in 1 .. Len(f) + Len(ig) |-> ValAt(f, k)],
   pos     |-> [k \in 0 .. Len(f) + Len(ig) |-> PosAt(f, k)],
   use     |-> [k \in 0 .. Len(f) + Len(ig) |-> UseAt(f, k)],
   packets |-> Wire(f, s),
   bytes   |-> heap_len,
   arena   |-> Roomful(f)]

\* The parts of it.
LEMMA PlanParts ==
  ASSUME NEW f, NEW s
  PROVE  /\ Plan(f, s).stack = Stack(f)
         /\ \A k \in 0 .. Len(f) + Len(ig) :
              /\ Plan(f, s).made[k] = MadeAt(f, k) /\ Plan(f, s).pos[k] = PosAt(f, k)
              /\ Plan(f, s).use[k] = UseAt(f, k)
         /\ \A k \in 1 .. Len(f) + Len(ig) : Plan(f, s).val[k] = ValAt(f, k)
         /\ Plan(f, s).packets = Wire(f, s)
         /\ Plan(f, s).bytes = heap_len /\ Plan(f, s).arena = Roomful(f)
BY DEF Plan

\* The items that are expected, and no other has the id 0.
WholeItem == [id : Nat \ {0}, len : Nat, data : Seq(Byte)]

\* Every item expected is one of the group's.
LEMMA MakingType ==
  ASSUME ig \in Seq(Nat)
  PROVE  \A i \in 0 .. Len(ig) : Making(Len(ig))[i] \in Seq(WholeItem)
<1>1. PICK n \in Nat : n = Len(ig)
  BY LenProperties
<1>2. PICK m : m = Making(n)
  OBVIOUS
<1>3. m[0] = <<>> /\ \A i \in 1 .. n : m[i] = IF ig[i] = 0 THEN m[i - 1] ELSE Append(m[i - 1], Whole(i))
  BY <1>2, MakingIs
<1>4. ASSUME NEW i \in 1 .. n PROVE Whole(i) \in WholeItem
  <2>1. ig[i] \in Nat
    BY <1>1, ElementOfSeq
  <2>2. Bytes(i, 0, ig[i]) \in Seq(Byte)
    <3>1. PICK j, w \in Nat : j = i /\ w = 0
      OBVIOUS
    <3>2. PICK g \in Nat : g = ig[i]
      BY <2>1
    <3>3. Bytes(j, w, g) \in Seq(Byte)
      BY BytesAre
    <3> QED
      BY <3>1, <3>2, <3>3
  <2> QED
    BY <2>1, <2>2 DEF Whole, WholeItem
<1> DEFINE R == {i \in Nat : i <= n => m[i] \in Seq(WholeItem)}
<1> HIDE DEF R
<1>5. 0 \in R
  <2>1. <<>> \in Seq(WholeItem)
    BY EmptySeq
  <2> QED
    BY <1>3, <2>1 DEF R
<1>6. ASSUME NEW j \in R PROVE j + 1 \in R
  <2>0. j \in Nat
    BY DEF R
  <2>1. SUFFICES ASSUME j + 1 <= n PROVE m[j + 1] \in Seq(WholeItem)
    BY <2>0 DEF R
  <2>2. PICK i \in 1 .. n : i = j + 1 /\ i - 1 = j
    BY <2>0, <2>1
  <2>3. m[j] \in Seq(WholeItem)
    BY <2>0, <2>1 DEF R
  <2>4. m[i] = IF ig[i] = 0 THEN m[j] ELSE Append(m[j], Whole(i))
    BY <1>3, <2>2
  <2>5. Append(m[j], Whole(i)) \in Seq(WholeItem)
    BY <1>4, <2>3, AppendProperties
  <2> QED
    BY <2>2, <2>3, <2>4, <2>5
<1>7. R = Nat
  <2>1. R \in SUBSET Nat
    BY DEF R
  <2> QED
    BY <1>5, <1>6, <2>1, EveryNumber
<1>8. ASSUME NEW i \in 0 .. n PROVE m[i] \in Seq(WholeItem)
  <2>1. i \in R /\ i <= n
    BY <1>7
  <2> QED
    BY <2>1 DEF R
<1> QED
  BY <1>1, <1>2, <1>8

\* The immediate item in front, if there is one.
LEMMA MarksType ==
  ASSUME NEW f \in Fronts
  PROVE  Marks(f) \in Seq(MadeItem) /\ Len(Marks(f)) = Len(f) /\ (f = <<>> <=> Len(f) = 0)
<1>1. Mark \in MadeItem
  BY CoalesceAssumption DEF Mark, MadeItem
<1>2. f = <<>> \/ f = <<Immediate>>
  BY DEF Fronts
<1>3. Len(<<Immediate>>) = 1 /\ Len(<<>>) = 0 /\ <<Immediate>> # <<>>
  OBVIOUS
<1>4. <<Mark>> \in Seq(MadeItem) /\ Len(<<Mark>>) = 1 /\ <<>> \in Seq(MadeItem)
  BY <1>1
<1> QED
  BY <1>2, <1>3, <1>4 DEF Marks

\* What each item of the stack brings: one in front, and item i of the group.
Brings(f, k) ==
  /\ Entry(f, k) \in StackEntry
  /\ MadeAt(f, k - 1) \in Seq(MadeItem)
  /\ MadeAt(f, k) = IF Entry(f, k).len = 0 THEN MadeAt(f, k - 1)
                    ELSE Append(MadeAt(f, k - 1), [id |-> Entry(f, k).id, len |-> Entry(f, k).len,
                                                   data |-> ValAt(f, k)])
  /\ PosAt(f, k - 1) \in Nat /\ PosAt(f, k) \in Nat /\ PosAt(f, k) <= heap_len
  /\ PosAt(f, k) = PosAt(f, k - 1) + (IF Entry(f, k).mode = "direct" THEN Entry(f, k).len ELSE 0)
  /\ UseAt(f, k - 1) \in Nat /\ UseAt(f, k) \in Nat
  /\ UseAt(f, k) = UseAt(f, k - 1) + Entry(f, k).len + StructLen
  /\ Entry(f, k).mode = "direct" => ValAt(f, k) \in Seq(Byte) /\ Len(ValAt(f, k)) = Entry(f, k).len
  /\ Entry(f, k).mode # "direct" => ValAt(f, k) = <<"value">>

\* One more times s.
LEMMA Steps ==
  \A k \in Nat \ {0} : \A s \in Nat :
    k * s \in Nat /\ (k - 1) * s \in Nat /\ k * s = (k - 1) * s + s
  OBVIOUS

\* The immediate item in front.
LEMMA FrontBrings ==
  ASSUME ig \in Seq(Nat), NEW f \in Fronts, NEW k \in 1 .. Len(f)
  PROVE  Brings(f, k)
<1>1. PICK n \in Nat : n = Len(ig)
  BY LenProperties
<1>2. f = <<Immediate>> /\ Len(f) = 1 /\ k = 1
  <2>1. f = <<>> \/ f = <<Immediate>>
    BY DEF Fronts
  <2>2. f # <<>>
    OBVIOUS
  <2>3. f = <<Immediate>>
    BY <2>1, <2>2
  <2>4. Len(<<Immediate>>) = 1
    OBVIOUS
  <2>5. Len(f) = 1
    BY <2>3, <2>4
  <2>6. k \in 1 .. 1
    BY <2>5
  <2>7. k = 1
    BY <2>6
  <2> QED
    BY <2>3, <2>5, <2>7
<1>3. k - 1 = 0 /\ k - Len(f) = 0 /\ ~(k < Len(f)) /\ 0 < Len(f) /\ k <= Len(f)
  BY <1>2
<1>4. Marks(f) = <<Mark>> /\ Mark \in MadeItem
  BY <1>2, CoalesceAssumption DEF Marks, Mark, MadeItem
<1>5. Entry(f, k) = [id |-> 0, mode |-> "immediate", len |-> ImmLen]
  BY <1>3 DEF Entry
<1>6. Entry(f, k) \in StackEntry /\ Entry(f, k).len = ImmLen /\ Entry(f, k).mode = "immediate" /\ Entry(f, k).id = 0
  BY <1>5, CoalesceAssumption DEF StackEntry
<1>7. MadeAt(f, k - 1) = <<>>
  BY <1>3 DEF MadeAt
<1>8. MadeAt(f, k) = <<Mark>>
  <2>1. MadeAt(f, k) = <<Mark>> \o Making(n)[0]
    BY <1>1, <1>3, <1>4 DEF MadeAt
  <2>2. Making(n)[0] = <<>>
    BY MakingIs
  <2>3. <<Mark>> \o <<>> = <<Mark>>
    BY <1>4
  <2> QED
    BY <2>1, <2>2, <2>3
<1>9. ValAt(f, k) = <<"value">>
  BY <1>3 DEF ValAt
<1>10. Append(MadeAt(f, k - 1), [id |-> Entry(f, k).id, len |-> Entry(f, k).len, data |-> ValAt(f, k)]) = <<Mark>>
  <2>1. [id |-> Entry(f, k).id, len |-> Entry(f, k).len, data |-> ValAt(f, k)] = Mark
    BY <1>6, <1>9 DEF Mark
  <2>2. Append(<<>>, Mark) = <<Mark>>
    BY <1>4
  <2> QED
    BY <1>7, <2>1, <2>2
<1>11. ImmLen # 0 /\ ImmLen \in Nat /\ StructLen \in Nat
  BY CoalesceAssumption
<1>12. PosAt(f, k - 1) = 0 /\ PosAt(f, k) = 0 /\ 0 <= heap_len
  <2>1. BytesUpTo(0) = 0
    BY UpTo
  <2>2. 0 \in 0 .. n
    OBVIOUS
  <2>3. 0 <= heap_len
    BY <1>1, <2>1, <2>2, UpTo
  <2> QED
    BY <1>3, <2>1, <2>3 DEF PosAt
<1>13. UseAt(f, k - 1) = 0 /\ UseAt(f, k) = ImmLen + StructLen
  <2>1. UseAt(f, k - 1) = 0 + 0 + 0 * StructLen
    BY <1>3, <1>12 DEF UseAt
  <2>2. UseAt(f, k) = 0 + 1 * ImmLen + 1 * StructLen
    BY <1>2, <1>3, <1>12 DEF UseAt
  <2> QED
    BY <1>11, <2>1, <2>2
<1>14. <<>> \in Seq(MadeItem)
  BY EmptySeq
<1>15. MadeAt(f, k) = IF Entry(f, k).len = 0 THEN MadeAt(f, k - 1)
                    ELSE Append(MadeAt(f, k - 1), [id |-> Entry(f, k).id, len |-> Entry(f, k).len,
                                                   data |-> ValAt(f, k)])
  BY <1>6, <1>8, <1>10, <1>11
<1>16. PosAt(f, k) = PosAt(f, k - 1) + (IF Entry(f, k).mode = "direct" THEN Entry(f, k).len ELSE 0)
  BY <1>6, <1>12
<1>17. UseAt(f, k) = UseAt(f, k - 1) + Entry(f, k).len + StructLen
       /\ UseAt(f, k) \in Nat /\ UseAt(f, k - 1) \in Nat
  BY <1>6, <1>11, <1>13
<1>18. MadeAt(f, k - 1) \in Seq(MadeItem) /\ PosAt(f, k - 1) \in Nat /\ PosAt(f, k) \in Nat /\ PosAt(f, k) <= heap_len
  <2>1. MadeAt(f, k - 1) \in Seq(MadeItem)
    BY <1>7, <1>14
  <2>2. PosAt(f, k - 1) \in Nat /\ PosAt(f, k) \in Nat /\ PosAt(f, k) <= heap_len
    BY <1>12
  <2> QED
    BY <2>1, <2>2
<1>19. Entry(f, k).mode # "direct"
  BY <1>6
<1> QED
  BY <1>6, <1>9, <1>15, <1>16, <1>17, <1>18, <1>19 DEF Brings

\* Item i of the group.
LEMMA ItemBrings ==
  ASSUME ig \in Seq(Nat), NEW f \in Fronts, NEW i \in 1 .. Len(ig)
  PROVE  Brings(f, Len(f) + i)
<1>1. PICK n \in Nat : n = Len(ig) /\ i \in 1 .. n
  BY LenProperties
<1>2. PICK F \in Nat : F = Len(f) /\ (F = 0 \/ F = 1)
  BY FrontType
<1>3. PICK k \in Nat \ {0} : k = F + i
  BY <1>1
<1>4. ~(k <= F) /\ ~(k < F) /\ ~(k - 1 < F) /\ k - F = i /\ k - 1 - F = i - 1
  BY <1>1, <1>3
<1>5. PICK g \in Nat : g = ig[i]
  BY <1>1, ElementOfSeq
<1>6. Entry(f, k) = [id |-> i, mode |-> "direct", len |-> g]
  BY <1>2, <1>4, <1>5 DEF Entry
<1>7. Entry(f, k) \in StackEntry /\ Entry(f, k).len = g /\ Entry(f, k).mode = "direct" /\ Entry(f, k).id = i
  BY <1>6 DEF StackEntry
<1>8. PICK e : e = Bytes(i, 0, g)
  OBVIOUS
<1>9. ValAt(f, k) = e /\ e \in Seq(Byte) /\ Len(e) = g
  <2>1. PICK j, w \in Nat : j = i /\ w = 0
    OBVIOUS
  <2>2. Bytes(j, w, g) \in Seq(Byte) /\ Len(Bytes(j, w, g)) = g
    BY BytesAre
  <2> QED
    BY <1>2, <1>4, <1>5, <1>8, <2>1, <2>2 DEF ValAt
<1>10. PICK m : m = Making(n)
  OBVIOUS
<1>11. m[i] = IF g = 0 THEN m[i - 1] ELSE Append(m[i - 1], Whole(i))
  <2>1. m[i] = IF ig[i] = 0 THEN m[i - 1] ELSE Append(m[i - 1], Whole(i))
    BY <1>1, <1>10, MakingIs
  <2> QED
    BY <1>5, <2>1
<1>12. MadeAt(f, k) = Marks(f) \o m[i] /\ MadeAt(f, k - 1) = Marks(f) \o m[i - 1]
  BY <1>1, <1>2, <1>4, <1>10 DEF MadeAt
<1>13. m[i - 1] \in Seq(MadeItem)
  <2>1. i - 1 \in 0 .. n
    BY <1>1
  <2>2. m[i - 1] \in Seq(WholeItem)
    BY <1>1, <1>10, <2>1, MakingType
  <2>3. WholeItem \subseteq MadeItem
    BY DEF WholeItem, MadeItem
  <2> QED
    BY <2>2, <2>3
<1>14. Marks(f) \in Seq(MadeItem)
  BY MarksType
<1>15. Whole(i) = [id |-> i, len |-> g, data |-> e]
  BY <1>5, <1>8 DEF Whole
<1>16. Whole(i) \in MadeItem
  BY <1>9, <1>15 DEF MadeItem
<1>17. Marks(f) \o m[i - 1] \in Seq(MadeItem)
  BY <1>13, <1>14, JoinedAt
<1>18. MadeAt(f, k) = IF g = 0 THEN MadeAt(f, k - 1) ELSE Append(MadeAt(f, k - 1), Whole(i))
  <2>1. Marks(f) \o Append(m[i - 1], Whole(i)) = Append(Marks(f) \o m[i - 1], Whole(i))
    <3>1. Appends(Marks(f), m[i - 1], Whole(i))
      BY <1>13, <1>14, <1>16, AppendLasts, Zenon
    <3> QED
      BY <3>1 DEF Appends
  <2> QED
    BY <1>11, <1>12, <2>1
<1>19. PICK q, r, h \in Nat : q = PosAt(f, k - 1) /\ r = PosAt(f, k) /\ h = heap_len /\ r = q + g /\ r <= h
  <2>1. i \in 0 .. n /\ i - 1 \in 0 .. n /\ n \in 0 .. n
    BY <1>1
  <2>2. BytesUpTo(i) \in Nat /\ BytesUpTo(i - 1) \in Nat /\ BytesUpTo(i) <= heap_len /\ heap_len \in Nat
    BY <1>1, <2>1, UpTo DEF heap_len
  <2>3. BytesUpTo(i) = BytesUpTo(i - 1) + g
    BY <1>1, <1>5, UpTo
  <2>4. PosAt(f, k - 1) = BytesUpTo(i - 1) /\ PosAt(f, k) = BytesUpTo(i)
    BY <1>2, <1>4 DEF PosAt
  <2> QED
    BY <2>2, <2>3, <2>4
<1>20. PICK I, S \in Nat : I = ImmLen /\ S = StructLen
  BY CoalesceAssumption
<1>21. PICK a, b, v \in Nat : a = (k - 1) * S /\ b = k * S /\ v = F * I /\ b = a + S
  <2>1. k * S \in Nat /\ (k - 1) * S \in Nat /\ k * S = (k - 1) * S + S
    BY Steps
  <2>2. F * I \in Nat
    OBVIOUS
  <2> QED
    BY <2>1, <2>2
<1>22. UseAt(f, k - 1) = q + v + a /\ UseAt(f, k) = r + v + b
  BY <1>2, <1>4, <1>19, <1>20, <1>21 DEF UseAt
<1>23. UseAt(f, k) = UseAt(f, k - 1) + g + StructLen /\ UseAt(f, k) \in Nat /\ UseAt(f, k - 1) \in Nat
  <2>1. r = q + g /\ b = a + S
    BY <1>19, <1>21
  <2>2. r + v + b = q + v + a + g + S /\ r + v + b \in Nat /\ q + v + a \in Nat
    BY <2>1
  <2>3. UseAt(f, k - 1) + g + StructLen = q + v + a + g + S
    BY <1>20, <1>22
  <2> QED
    BY <1>22, <2>2, <2>3
<1>24. Brings(f, k)
  BY <1>7, <1>9, <1>12, <1>15, <1>17, <1>18, <1>19, <1>23 DEF Brings
<1> QED
  BY <1>2, <1>3, <1>24

\* The packets carry the data of the items.
LEMMA PlanCarries ==
  ASSUME CutAll, state = "end", NEW f \in Fronts, NEW s \in BOOLEAN,
         NEW j \in 1 .. Len(Chained), NEW k \in 1 .. Len(f) + Len(ig)
  PROVE  Carries(Plan(f, s), j, k)
<1>1. ig \in Seq(Nat)
  BY PacketsAre
<1>2. PICK n \in Nat : n = Len(ig)
  BY <1>1, LenProperties
<1>3. PICK F \in Nat : F = Len(f) /\ (F = 0 \/ F = 1)
  BY FrontType
<1>4. PICK x : x = Chained[j]
  OBVIOUS
<1>5. x \in CutPacket /\ Right(x)
  BY <1>4, PacketsAre
<1>6. /\ Plan(f, s).packets[j].data = x.data /\ Plan(f, s).packets[j].off = x.off
      /\ Plan(f, s).packets[j].len = x.len
  <2>1. Plan(f, s).packets[j] = As(x, f, s)
    <3>1. Plan(f, s).packets = Wire(f, s)
      BY PlanParts
    <3> QED
      BY <1>4, <3>1, WireIs
  <2>2. PICK y : y = Plan(f, s).packets[j]
    OBVIOUS
  <2>3. /\ As(x, f, s).data = x.data /\ As(x, f, s).off = x.off
        /\ As(x, f, s).len = x.len
    <3>1. /\ As(Chained[j], f, s).data = Chained[j].data
          /\ As(Chained[j], f, s).off = Chained[j].off
          /\ As(Chained[j], f, s).len = Chained[j].len
      BY ZenonT(40), AsIs
    <3> QED
      BY <1>4, <3>1
  <2>4. y.data = x.data /\ y.off = x.off /\ y.len = x.len
    BY <2>1, <2>2, <2>3
  <2> QED
    BY <2>2, <2>4
<1>7. PICK d \in Seq(Byte), l, o \in Nat : d = x.data /\ l = x.len /\ o = x.off /\ Len(d) = l
  BY <1>5 DEF CutPacket, Right
<1>8. \A u \in 1 .. l : d[u] = Data[o + u]
  BY <1>5, <1>7 DEF Right
<1>9. ASSUME Entry(f, k).mode = "direct"
      PROVE  \A e \in 1 .. Entry(f, k).len : \A u \in 1 .. l : SameByte(Plan(f, s), j, k, e, u)
  <2>1. ~(k <= F)
    BY <1>3, <1>9 DEF Entry
  <2>2. PICK i \in 1 .. n : i = k - F /\ ~(k - 1 < F) /\ i - 1 = k - 1 - F
    <3>1. k \in 1 .. F + n
      BY <1>2, <1>3
    <3> QED
      BY <2>1, <3>1
  <2>3. PICK g \in Nat : g = ig[i]
    BY <1>1, <1>2, ElementOfSeq
  <2>4. Entry(f, k).len = g
    BY <1>3, <2>1, <2>2, <2>3 DEF Entry
  <2>5. Plan(f, s).val[k] = Bytes(i, 0, g)
    <3>1. Plan(f, s).val[k] = ValAt(f, k)
      BY PlanParts
    <3> QED
      BY <1>3, <2>1, <2>2, <2>3, <3>1 DEF ValAt
  <2>6. PICK q \in Nat : q = BytesUpTo(i - 1) /\ Plan(f, s).pos[k - 1] = q
    <3>1. k - 1 \in 0 .. Len(f) + Len(ig)
      BY <1>2, <1>3
    <3>2. Plan(f, s).pos[k - 1] = PosAt(f, k - 1)
      BY <3>1, PlanParts
    <3>3. i - 1 \in 0 .. n
      OBVIOUS
    <3>4. BytesUpTo(i - 1) \in Nat
      BY <1>1, <1>2, <3>3, UpTo
    <3> QED
      BY <1>3, <2>2, <3>2, <3>4 DEF PosAt
  <2>7. ASSUME NEW e \in 1 .. g, NEW u \in 1 .. l, o + u = q + e
        PROVE  d[u] = Bytes(i, 0, g)[e]
    <3>1. d[u] = Data[q + e]
      BY <1>8, <2>7
    <3>2. Data[q + e] = <<i, e>>
      BY <1>1, <1>2, <2>3, <2>6, DataIs
    <3>3. Bytes(i, 0, g)[e] = <<i, 0 + e>>
      <4>1. PICK y, w \in Nat : y = i /\ w = 0
        OBVIOUS
      <4>2. /\ Bytes(y, w, g) \in Seq(Byte) /\ Len(Bytes(y, w, g)) = g
            /\ \A v \in 1 .. g : Bytes(y, w, g)[v] = <<y, w + v>>
        BY BytesAre, ZenonT(40)
      <4>3. Bytes(y, w, g)[e] = <<y, w + e>>
        BY <4>2
      <4> QED
        BY <4>1, <4>3
    <3>4. 0 + e = e
      OBVIOUS
    <3> QED
      BY <3>1, <3>2, <3>3, <3>4
  <2>8. ASSUME NEW e \in 1 .. Entry(f, k).len, NEW u \in 1 .. l
        PROVE  SameByte(Plan(f, s), j, k, e, u)
    <3>1. SUFFICES ASSUME Plan(f, s).packets[j].off + u = Plan(f, s).pos[k - 1] + e
                   PROVE  Plan(f, s).packets[j].data[u] = Plan(f, s).val[k][e]
      BY DEF SameByte
    <3>2. e \in 1 .. g
      BY <2>4
    <3>3. Plan(f, s).packets[j].off = o /\ Plan(f, s).packets[j].data = d
      BY <1>6, <1>7
    <3>4. o + u = q + e
      BY <2>6, <3>1, <3>3
    <3>5. d[u] = Bytes(i, 0, g)[e]
      BY <2>7, <3>2, <3>4
    <3> QED
      BY <2>5, <3>3, <3>5
  <2> QED
    BY <2>8
<1>10. Plan(f, s).stack[k] = Entry(f, k)
  <2>1. Plan(f, s).stack = Stack(f)
    BY PlanParts
  <2>2. Stack(f)[k] = Entry(f, k)
    BY DEF Stack
  <2> QED
    BY <2>1, <2>2
<1>11. Plan(f, s).packets[j].data \in Seq(Byte) /\ Len(Plan(f, s).packets[j].data) = Plan(f, s).packets[j].len
  BY <1>6, <1>7
<1>12. Plan(f, s).packets[j].len = l
  BY <1>6, <1>7
<1> QED
  BY <1>9, <1>10, <1>11, <1>12 DEF Carries

\* The plan is sound: what it says of each item holds.
LEMMA PlanSound ==
  ASSUME CutAll, state = "end", ig \in Groups, NEW f \in Fronts, NEW s \in BOOLEAN
  PROVE  Sound(Plan(f, s)) /\ Len(Plan(f, s).stack) = Len(f) + Len(ig)
<1>1. ig \in Seq(Nat) /\ Roomful(f) < WordSize /\ heap_len < WordSize
  BY FitsMemory
<1>2. PICK n \in Nat : n = Len(ig)
  BY <1>1, LenProperties
<1>3. PICK F \in Nat : F = Len(f) /\ (F = 0 \/ F = 1)
  BY FrontType
<1>4. PICK L \in Nat : L = F + n
  OBVIOUS
<1>5. PICK P : P = Plan(f, s)
  OBVIOUS
<1>6. ASSUME NEW k \in 1 .. L PROVE Brings(f, k)
  <2>1. CASE k <= F
    <3>1. k \in 1 .. Len(f)
      BY <1>3, <2>1
    <3> QED
      BY <1>1, <3>1, FrontBrings
  <2>2. CASE ~(k <= F)
    <3>1. PICK i \in 1 .. n : i = k - F /\ F + i = k
      BY <1>4, <2>2
    <3>2. Brings(f, Len(f) + i)
      BY <1>1, <1>2, ItemBrings
    <3> QED
      BY <1>3, <3>1, <3>2
  <2> QED
    BY <2>1, <2>2
<1>7. /\ P.stack = Stack(f)
      /\ \A k \in 0 .. L : P.made[k] = MadeAt(f, k) /\ P.pos[k] = PosAt(f, k) /\ P.use[k] = UseAt(f, k)
      /\ \A k \in 1 .. L : P.val[k] = ValAt(f, k)
      /\ P.packets = Wire(f, s) /\ P.bytes = heap_len /\ P.arena = Roomful(f)
  BY <1>2, <1>3, <1>4, <1>5, PlanParts
<1>8. \A k \in 1 .. L : P.stack[k] = Entry(f, k)
  BY <1>2, <1>3, <1>4, <1>7 DEF Stack
<1>9. P.stack \in Seq(StackEntry) /\ Len(P.stack) = L
  <2>1. \A k \in 1 .. L : Entry(f, k) \in StackEntry
    BY <1>6 DEF Brings
  <2>2. Stack(f) \in [1 .. L -> StackEntry]
    BY <1>2, <1>3, <1>4, <2>1 DEF Stack
  <2>3. Stack(f) \in Seq(StackEntry) /\ Len(Stack(f)) = L
    BY <2>2
  <2> QED
    BY <1>7, <2>3
<1>10. /\ P.made[0] = <<>> /\ P.pos[0] = 0 /\ P.use[0] = 0
  <2>1. 0 \in 0 .. L
    OBVIOUS
  <2>2. BytesUpTo(0) = 0 /\ 0 - F = 0 - F
    BY <1>1, UpTo
  <2>3. PosAt(f, 0) = 0
    <3>1. CASE F = 0
      <4>1. 0 - F = 0
        BY <3>1
      <4> QED
        BY <1>3, <2>2, <3>1, <4>1 DEF PosAt
    <3>2. CASE F = 1
      BY <1>3, <3>2 DEF PosAt
    <3> QED
      BY <1>3, <3>1, <3>2
  <2>4. MadeAt(f, 0) = <<>>
    <3>1. CASE F = 0
      <4>1. 0 - F = 0 /\ ~(0 < F)
        BY <3>1
      <4>2. Marks(f) = <<>>
        BY <1>3, <3>1, MarksType DEF Marks
      <4>3. Making(n)[0] = <<>>
        BY MakingIs
      <4>4. <<>> \o <<>> = <<>>
        OBVIOUS
      <4> QED
        BY <1>2, <1>3, <4>1, <4>2, <4>3, <4>4 DEF MadeAt
    <3>2. CASE F = 1
      BY <1>3, <3>2 DEF MadeAt
    <3> QED
      BY <1>3, <3>1, <3>2
  <2>5. UseAt(f, 0) = 0
    <3>1. PICK I, S \in Nat : I = ImmLen /\ S = StructLen
      BY CoalesceAssumption
    <3>2. (IF 0 < F THEN 0 ELSE F * I) = 0
      BY <1>3
    <3>3. 0 * S = 0
      OBVIOUS
    <3> QED
      BY <1>3, <2>3, <3>1, <3>2, <3>3 DEF UseAt
  <2> QED
    BY <1>7, <2>1, <2>3, <2>4, <2>5
<1>11. PICK h \in Nat : h = heap_len /\ BytesUpTo(n) = h
  <2>1. n \in 0 .. n
    OBVIOUS
  <2> QED
    BY <1>1, <1>2, <2>1, UpTo DEF heap_len
<1>12. UseAt(f, L) = Roomful(f) /\ Roomful(f) \in Nat
  <2>1. ~(L < F) /\ L - F = n
    BY <1>4
  <2>2. PosAt(f, L) = h
    BY <1>3, <1>11, <2>1 DEF PosAt
  <2>3. PICK I, S \in Nat : I = ImmLen /\ S = StructLen
    BY CoalesceAssumption
  <2>4. PICK v, w \in Nat : v = F * I /\ w = L * S
    OBVIOUS
  <2>5. UseAt(f, L) = h + v + w
    BY <1>3, <2>1, <2>2, <2>3, <2>4 DEF UseAt
  <2>6. Roomful(f) = h + v + w
    BY <1>2, <1>3, <1>4, <1>11, <2>3, <2>4 DEF Roomful
  <2> QED
    BY <2>5, <2>6
<1>13. \A k \in 0 .. L : UseAt(f, k) <= Roomful(f)
  <2>1. PICK at : at = [k \in 0 .. L |-> UseAt(f, k)]
    OBVIOUS
  <2>2. PICK len : len = [k \in 1 .. L |-> Entry(f, k).len + StructLen]
    OBVIOUS
  <2>3. ASSUME NEW k \in 1 .. L
        PROVE  /\ len[k] \in Nat /\ at[k] = at[k - 1] + len[k]
               /\ at[k] \in Nat /\ at[k - 1] \in Nat
    <3>1. k \in 0 .. L /\ k - 1 \in 0 .. L
      OBVIOUS
    <3>2. PICK u, v, l, S \in Nat : u = UseAt(f, k) /\ v = UseAt(f, k - 1) /\ l = Entry(f, k).len /\ S = StructLen
          /\ u = v + l + S
      <4>1. Brings(f, k)
        BY <1>6
      <4>2. /\ Entry(f, k) \in StackEntry /\ UseAt(f, k - 1) \in Nat /\ UseAt(f, k) \in Nat
            /\ UseAt(f, k) = UseAt(f, k - 1) + Entry(f, k).len + StructLen
        BY <4>1, Zenon DEF Brings
      <4>3. PICK l \in Nat : l = Entry(f, k).len
        BY <4>2 DEF StackEntry
      <4>4. PICK S \in Nat : S = StructLen
        BY CoalesceAssumption
      <4>5. PICK u \in Nat : u = UseAt(f, k)
        BY <4>2
      <4>6. PICK v \in Nat : v = UseAt(f, k - 1)
        BY <4>2
      <4> QED
        BY <4>2, <4>3, <4>4, <4>5, <4>6
    <3>3. v + l + S = v + (l + S) /\ l + S \in Nat
      OBVIOUS
    <3> QED
      BY <2>1, <2>2, <3>1, <3>2, <3>3
  <2>4. at \in [0 .. L -> Nat]
    <3>1. ASSUME NEW k \in 0 .. L PROVE UseAt(f, k) \in Nat
      <4>1. CASE k = 0
        BY <1>7, <1>10, <4>1
      <4>2. CASE k # 0
        <5>1. k \in 1 .. L
          BY <4>2
        <5> QED
          BY <1>6, <5>1 DEF Brings
      <4> QED
        BY <4>1, <4>2
    <3> QED
      BY <2>1, <3>1
  <2>5. \A m \in 0 .. L : \A j \in 0 .. m : at[j] <= at[m]
    BY <2>3, <2>4, AtGrows
  <2>6. L \in 0 .. L
    OBVIOUS
  <2> QED
    BY <1>12, <2>1, <2>5, <2>6
<1>14. ASSUME NEW k \in 1 .. L PROVE OneMore(P, k)
  <2>1. k \in 0 .. L /\ k - 1 \in 0 .. L
    OBVIOUS
  <2>2. /\ P.stack[k] = Entry(f, k) /\ P.made[k] = MadeAt(f, k) /\ P.made[k - 1] = MadeAt(f, k - 1)
        /\ P.pos[k] = PosAt(f, k) /\ P.pos[k - 1] = PosAt(f, k - 1)
        /\ P.use[k] = UseAt(f, k) /\ P.use[k - 1] = UseAt(f, k - 1) /\ P.val[k] = ValAt(f, k)
        /\ P.bytes = heap_len /\ P.arena = Roomful(f)
    BY <1>7, <1>8, <2>1
  <2>3. Brings(f, k)
    BY <1>6
  <2>4. UseAt(f, k) <= Roomful(f)
    BY <1>13, <2>1
  <2> QED
    BY <2>2, <2>3, <2>4, Zenon DEF Brings, OneMore, MadeOf
<1>15. ASSUME NEW j \in 1 .. Len(P.packets), NEW k \in 1 .. L PROVE Carries(P, j, k)
  <2>1. j \in 1 .. Len(Chained)
    BY <1>7, WireIs
  <2>2. k \in 1 .. Len(f) + Len(ig)
    BY <1>2, <1>3, <1>4
  <2> QED
    BY <1>5, <2>1, <2>2, PlanCarries
<1>16. P.arena \in Nat /\ P.arena < WordSize /\ P.bytes \in Nat /\ P.bytes < WordSize
  BY <1>1, <1>7, <1>11, <1>12
<1>17. Sound(P)
  BY <1>9, <1>10, <1>14, <1>15, <1>16 DEF Sound
<1> QED
  BY <1>2, <1>3, <1>4, <1>5, <1>9, <1>17

(***************************************************************************)
(* The conversion goes by the plan                                         *)
(***************************************************************************)

\* k items are converted, and c bytes of the next, when the packets sent were
\* those of f and s and the table has T buckets.
On(f, s, T, k, c) ==
  /\ k \in 0 .. Len(Plan(f, s).stack)
  /\ Tabled(Plan(f, s), T, pkt_size)
  /\ Converting(Plan(f, s), T, k, c)

ByPlan ==
  \E T \in Nat \ {0} : \E f \in Fronts : \E s \in BOOLEAN : \E k \in Nat : \E c \in Nat :
    On(f, s, T, k, c)

ConvertInv == WellChained /\ phase \notin {"store", "collect"} => ByPlan

ArrivedInv == StoreInv /\ ig \in Groups /\ ConvertInv

\* The plan is of what the sender has made.
LEMMA SamePlan ==
  ASSUME UNCHANGED pvars, NEW f, NEW s
  PROVE  Plan(f, s)' = Plan(f, s)
<1>1. ig' = ig /\ pkt_size' = pkt_size
  BY DEF pvars
<1>2. heap_len' = heap_len /\ Wire(f, s)' = Wire(f, s)
  BY SameWire
<1>3. ASSUME NEW i PROVE BytesUpTo(i)' = BytesUpTo(i)
  BY <1>1, SameGroup
<1>4. ASSUME NEW i PROVE Whole(i)' = Whole(i)
  BY <1>1 DEF Whole
<1>5. ASSUME NEW n PROVE Making(n)' = Making(n)
  BY <1>1, <1>4 DEF Making
<1>6. ASSUME NEW k PROVE MadeAt(f, k)' = MadeAt(f, k)
  BY <1>1, <1>5 DEF MadeAt
<1>7. ASSUME NEW k PROVE ValAt(f, k)' = ValAt(f, k)
  BY <1>1 DEF ValAt
<1>8. ASSUME NEW k PROVE PosAt(f, k)' = PosAt(f, k)
  BY <1>3 DEF PosAt
<1>9. ASSUME NEW k PROVE UseAt(f, k)' = UseAt(f, k)
  BY <1>8 DEF UseAt
<1>10. Stack(f)' = Stack(f)
  BY <1>1 DEF Stack, Entry
<1>11. Roomful(f)' = Roomful(f)
  BY <1>1, <1>2 DEF Roomful
<1> QED
  BY <1>1, <1>2, <1>6, <1>7, <1>8, <1>9, <1>10, <1>11 DEF Plan

\* The table is as it was.
LEMMA SameChained ==
  ASSUME UNCHANGED pvars, UNCHANGED ht
  PROVE  WellChained' = WellChained
<1>1. ig' = ig /\ pkt_size' = pkt_size /\ ht' = ht
  BY DEF pvars
<1>2. ASSUME NEW i PROVE BytesUpTo(i)' = BytesUpTo(i)
  BY <1>1, SameGroup
<1>3. Boundary' = Boundary
  BY <1>1, <1>2 DEF Boundary
<1>4. Chain' = Chain
  BY <1>1 DEF Chain
<1> QED
  BY <1>3, <1>4 DEF WellChained

\* A plan's table stays the plan's.
LEMMA StillTabled ==
  ASSUME UNCHANGED ht, NEW P, NEW T, NEW z, Tabled(P, T, z)
  PROVE  Tabled(P, T, z)'
BY DEF Tabled, EndsAtHeads

\* The first packet of the table, when the cursor is at its start.
LEMMA StartHere ==
  ASSUME NEW T \in Nat, DOMAIN ht = 0 .. T - 1, UNCHANGED ht, cstate' = "object", coi' = 0
  PROVE  Here' = FirstAt(ht, T, 0)
<1>1. t_len' = T
  <2>1. t_len = T
    BY TLen
  <2> QED
    BY <2>1 DEF t_len
<1>2. AtEnd' = <<T, 0>>
  BY <1>1 DEF AtEnd
<1>3. FirstFrom(coi)' = FirstAt(ht, T, 0)
  BY <1>2 DEF FirstFrom, FirstAt
<1> QED
  BY <1>3 DEF Here

\* The table of a heap that is complete lists what was wanted.
LEMMA CollectsAll ==
  ASSUME CutAll, state = "end", ig \in Groups, Chained # <<>>, t_data_count = heap_len,
         NEW T \in Nat \ {0}, NEW f \in Fronts, NEW s \in BOOLEAN,
         Full(ht, T, Wire(f, s), heap_len), Rising(ht, T)
  PROVE  Listed # <<>> /\ Sized = Stack(f) /\ ArenaSize = Roomful(f)
<1>1. ig \in Seq(Nat) /\ ig # <<>> /\ heap_len < WordSize
  BY FitsMemory
<1>2. InOrder(ht) = Wire(f, s)
  BY TraversesAll, WireTiles
<1>3. Listed = Wanted(f)
  <2>1. FlattenSeq([j \in DOMAIN Wire(f, s) |-> Wire(f, s)[j].items]) = Wanted(f)
    BY WireLists
  <2> QED
    BY <1>2, <2>1 DEF Listed
<1>4. Wanted(f) # <<>>
  <2>1. PICK n \in Nat : n = Len(ig) /\ n # 0
    BY <1>1, LenProperties, EmptySeq
  <2>2. PICK F \in Nat : F = Len(f)
    BY FrontType
  <2>3. Len(Wanted(f)) = F + n
    <3>1. AllItems \in Seq(NetItem) /\ Len(AllItems) = n
      BY <1>1, <2>1, AllItemsAre
    <3> QED
      BY <2>2, <3>1, FrontType DEF Wanted
  <2>4. Len(<<>>) = 0
    OBVIOUS
  <2> QED
    BY <2>1, <2>2, <2>3, <2>4
<1>5. Sized = Stack(f)
  BY <1>1, <1>3, SizedIs
<1>6. ArenaSize = Roomful(f)
  BY <1>1, <1>3, ArenaIs DEF Roomful
<1> QED
  BY <1>3, <1>4, <1>5, <1>6

\* A well-chained table is that of a plan.
LEMMA PlanTabled ==
  ASSUME CutAll, state = "end", ig \in Groups,
         NEW T \in Nat \ {0}, NEW f \in Fronts, NEW s \in BOOLEAN, DOMAIN ht = 0 .. T - 1,
         Full(ht, T, Wire(f, s), heap_len), WellChained
  PROVE  Tabled(Plan(f, s), T, pkt_size)
<1>1. PICK P : P = Plan(f, s)
  OBVIOUS
<1>2. P.stack = Stack(f) /\ P.packets = Wire(f, s) /\ P.bytes = heap_len
  BY <1>1, PlanParts
<1>3. Rising(ht, T)
  BY ChainedRising
<1>4. Tiles(Wire(f, s), heap_len, pkt_size)
  BY WireTiles
<1>5. PICK n \in Nat : n = Len(ig)
  BY FitsMemory, LenProperties
<1>6. PICK F \in Nat : F = Len(f)
  BY FrontType
<1>7. Len(P.stack) = F + n
  BY <1>1, <1>5, <1>6, PlanSound
<1>8. ASSUME NEW k \in 1 .. F + n, P.stack[k].mode = "direct" PROVE P.pos[k] \in Boundary
  <2>1. k \in 1 .. Len(f) + Len(ig) /\ k \in 0 .. Len(f) + Len(ig)
    BY <1>5, <1>6
  <2>2. P.stack[k] = Entry(f, k)
    BY <1>2, <2>1 DEF Stack
  <2>3. ~(k <= F)
    BY <1>6, <1>8, <2>2 DEF Entry
  <2>4. ~(k < F) /\ k - F \in 1 .. n
    BY <2>3
  <2>5. P.pos[k] = PosAt(f, k)
    BY <1>1, <2>1, PlanParts
  <2>6. P.pos[k] = BytesUpTo(k - F)
    BY <1>6, <2>4, <2>5 DEF PosAt
  <2>7. DOMAIN ig = 1 .. n
    <3>1. ig \in Seq(Nat)
      BY FitsMemory
    <3> QED
      BY <1>5, <3>1, LenProperties
  <2> QED
    BY <2>4, <2>6, <2>7 DEF Boundary
<1>9. EndsAtHeads(P, T)
  <2>1. ASSUME NEW b \in 0 .. T - 1, NEW i \in 2 .. Len(ht[b]), NEW k \in 1 .. F + n,
               P.stack[k].mode = "direct"
        PROVE  ~(ht[b][i].off < P.pos[k] /\ P.pos[k] < ht[b][i].off + ht[b][i].len)
    <3>1. P.pos[k] \in Boundary
      BY <1>8, <2>1
    <3>2. \A e \in Boundary : ~(ht[b][i].off < e /\ e < ht[b][i].off + ht[b][i].len)
      BY ChainedRising
    <3> QED
      BY <3>1, <3>2
  <2> QED
    BY <1>7, <2>1 DEF EndsAtHeads
<1> QED
  BY <1>1, <1>2, <1>3, <1>4, <1>9 DEF Tabled

\* process_items begins with the first byte of the first item.
LEMMA CollectStarts ==
  ASSUME StoreInv, ig \in Groups, WellChained, Collect,
         NEW T \in Nat \ {0}, NEW f \in Fronts, NEW s \in BOOLEAN, DOMAIN ht = 0 .. T - 1,
         Full(ht, T, Wire(f, s), heap_len), NEW P, P = Plan(f, s)
  PROVE  Tabled(P, T, pkt_size) /\ Converting(P, T, 0, 0)'
<1>1. CutAll /\ state = "end" /\ t_data_count = heap_len /\ Chained # <<>>
  <2>1. phase # "store"
    BY DEF Collect
  <2> QED
    BY <2>1, CompleteFull DEF StoreInv
<1>2. Tabled(P, T, pkt_size)
  BY <1>1, PlanTabled
<1>3. Sound(P)
  BY <1>1, PlanSound
<1>4. P.stack = Stack(f) /\ P.packets = Wire(f, s) /\ P.bytes = heap_len /\ P.arena = Roomful(f)
  BY PlanParts
<1>5. Rising(ht, T)
  BY ChainedRising
<1>6. Listed # <<>> /\ Sized = Stack(f) /\ ArenaSize = Roomful(f)
  BY <1>1, <1>5, CollectsAll
<1>7. /\ d_stack' = Sized /\ g_size' = ArenaSize /\ phase' = "convert"
      /\ cstate' = "object" /\ coi' = 0
      /\ UNCHANGED <<ht, d_off, d_remaining, g_off, group>> /\ phase = "collect"
  BY <1>6 DEF Collect
<1>8. d_off' = 0 /\ d_remaining' = 0 /\ g_off' = 0 /\ group' = <<>>
  BY <1>7 DEF StoreInv, Untouched
<1>9. Here' = FirstAt(ht, T, 0)
  BY <1>7, StartHere
<1>10. P.made[0] = <<>> /\ P.pos[0] = 0 /\ P.use[0] = 0 /\ P.stack \in Seq(StackEntry)
  BY <1>3 DEF Sound
<1>11. d_stack' = SubSeq(P.stack, 0 + 1, Len(P.stack))
  <2>1. SubSeq(P.stack, 1, Len(P.stack)) = P.stack
    BY <1>10
  <2> QED
    BY <1>4, <1>6, <1>7, <2>1
<1>12. ASSUME P.pos[0] < P.bytes PROVE Stands(P, ht', T, Here', d_off', P.pos[0])
  <2>1. Tiles(P.packets, P.bytes, pkt_size) /\ Full(ht, T, P.packets, P.bytes)
    BY <1>2 DEF Tabled
  <2>2. PICK d, h : d = P.packets /\ h = P.bytes
    OBVIOUS
  <2>3. 1 \in 1 .. Len(d) /\ PlaceOf(ht, T, FirstAt(ht, T, 0), d[1])
    BY <1>5, <2>1, <2>2, StartsAt
  <2>4. d[1].off = 0 /\ d[1].len > 0 /\ d[1].off + 0 = 0
    <3>1. h > 0
      <4>1. h \in Nat
        BY <2>1, <2>2 DEF Tiles
      <4> QED
        BY <1>10, <1>12, <2>2, <4>1
    <3>2. d[1].off = 0
      BY <2>1, <2>2, <2>3 DEF Tiles
    <3>3. d[1].len > 0
      BY <2>1, <2>2, <2>3, <3>1 DEF Tiles
    <3> QED
      BY <3>2, <3>3
  <2>5. PlaceOf(ht', T, Here', d[1])
    BY <1>7, <1>9, <2>3
  <2>6. 0 < d[1].len
    <3>1. d[1].len \in Nat
      <4>1. d \in Seq(NetPacket)
        BY <2>1, <2>2 DEF Tiles
      <4>2. d[1] \in NetPacket
        BY <2>3, <4>1, ElementOfSeq
      <4> QED
        BY <4>2 DEF NetPacket
    <3> QED
      BY <2>4, <3>1
  <2> QED
    BY <1>8, <1>10, <2>2, <2>3, <2>4, <2>5, <2>6 DEF Stands
<1>13. g_size' = P.arena /\ g_off' \in Nat /\ g_off' <= P.use[0]
  BY <1>4, <1>6, <1>7, <1>8, <1>10
<1>14. Converting(P, T, 0, 0)'
  BY <1>7, <1>8, <1>10, <1>11, <1>12, <1>13 DEF Converting
<1> QED
  BY <1>2, <1>14

\* A step of the conversion goes on with the plan.
LEMMA GoesByPlan ==
  ASSUME StoreInv, ig \in Groups, WellChained, CoalesceStep, phase # "collect", ByPlan,
         UNCHANGED pvars
  PROVE  ByPlan'
<1>1. PICK T \in Nat \ {0}, f \in Fronts, s \in BOOLEAN, k \in Nat, c \in Nat : On(f, s, T, k, c)
  BY Zenon DEF ByPlan
<1>2. PICK P : P = Plan(f, s)
  OBVIOUS
<1>3. k \in 0 .. Len(P.stack) /\ Tabled(P, T, pkt_size) /\ Converting(P, T, k, c)
  BY <1>1, <1>2 DEF On
<1>4. CutAll /\ state = "end" /\ phase # "store"
  <2>1. phase # "store"
    BY ConvertKeeps
  <2> QED
    BY <2>1, CompleteFull DEF StoreInv
<1>5. Sound(P)
  BY <1>2, <1>4, PlanSound
<1>6. UNCHANGED ht
  BY ConvertKeeps
<1>7. Plan(f, s)' = P /\ pkt_size' = pkt_size
  BY <1>2, SamePlan DEF pvars
<1>8. Tabled(P, T, pkt_size)'
  <2>1. UNCHANGED ht
    BY <1>6
  <2>2. Tabled(P, T, pkt_size) /\ pkt_size' = pkt_size
    BY <1>3, <1>7
  <2>3. PICK z : z = pkt_size
    OBVIOUS
  <2>4. Tabled(P, T, z)'
    BY <2>1, <2>2, <2>3, StillTabled
  <2> QED
    BY <2>2, <2>3, <2>4
<1>9. ASSUME NEW k2 \in Nat, NEW c2 \in Nat, k2 \in 0 .. Len(P.stack), Converting(P, T, k2, c2)'
      PROVE  ByPlan'
  <2>1. On(f, s, T, k2, c2)'
    BY <1>7, <1>8, <1>9 DEF On
  <2> QED
    BY <2>1, Zenon DEF ByPlan
<1>10. CASE SkipItem
  <2>1. k + 1 \in 0 .. Len(P.stack) /\ Converting(P, T, k + 1, 0)'
    BY <1>3, <1>5, <1>10, SkipConvert
  <2>2. k + 1 \in Nat /\ 0 \in Nat
    OBVIOUS
  <2> QED
    BY <1>9, <2>1, <2>2
<1>11. CASE NewItem
  <2>1. k + 1 \in 0 .. Len(P.stack) /\ Converting(P, T, k + 1, 0)'
    BY <1>3, <1>5, <1>11, NewConvert
  <2>2. k + 1 \in Nat /\ 0 \in Nat
    OBVIOUS
  <2> QED
    BY <1>9, <2>1, <2>2
<1>12. CASE Converted
  <2>1. Converting(P, T, k, c)'
    BY <1>3, <1>5, <1>12, DoneConvert
  <2> QED
    BY <1>3, <1>9, <2>1
<1>13. CASE CopyWithin \/ CopyAcross
  <2>1. \E c2 \in Nat : Converting(P, T, k, c2)'
    BY <1>3, <1>5, <1>13, CopyConvert
  <2> QED
    BY <1>3, <1>9, <2>1
<1>14. ~CopyNothing /\ ~CopyFromStart /\ ~CopyFails
  BY <1>3, <1>5, NeverShort
<1>15. ~Collect
  BY DEF Collect
<1> QED
  BY <1>10, <1>11, <1>12, <1>13, <1>14, <1>15 DEF CoalesceStep

\* The first step of it is by a plan.
LEMMA PlanBegins ==
  ASSUME StoreInv, ig \in Groups, WellChained, Collect, UNCHANGED pvars
  PROVE  ByPlan'
<1>1. phase # "store" /\ ht' = ht
  BY DEF Collect
<1>2. CutAll /\ state = "end"
  BY <1>1, CompleteFull DEF StoreInv
<1>3. PICK T \in Nat \ {0}, f \in Fronts, s \in BOOLEAN :
        DOMAIN ht = 0 .. T - 1 /\ Full(ht, T, Wire(f, s), heap_len)
  BY <1>1, CompleteFull
<1>4. PICK P : P = Plan(f, s)
  OBVIOUS
<1>5. Tabled(P, T, pkt_size) /\ Converting(P, T, 0, 0)'
  BY <1>3, <1>4, CollectStarts
<1>6. Plan(f, s)' = P /\ pkt_size' = pkt_size
  BY <1>4, SamePlan DEF pvars
<1>7. Tabled(P, T, pkt_size)'
  <2>1. UNCHANGED ht
    BY <1>1
  <2>2. Tabled(P, T, pkt_size) /\ pkt_size' = pkt_size
    BY <1>5, <1>6
  <2>3. PICK z : z = pkt_size
    OBVIOUS
  <2>4. Tabled(P, T, z)'
    BY <2>1, <2>2, <2>3, StillTabled
  <2> QED
    BY <2>2, <2>3, <2>4
<1>8. 0 \in 0 .. Len(P.stack)
  <2>1. Sound(P)
    BY <1>2, <1>4, PlanSound
  <2>2. PICK L \in Nat : L = Len(P.stack)
    BY <2>1, LenProperties DEF Sound
  <2> QED
    BY <2>2
<1>9. On(f, s, T, 0, 0)'
  BY <1>5, <1>6, <1>7, <1>8 DEF On
<1> QED
  BY <1>9, Zenon DEF ByPlan

\* What a plan speaks of stays as it is.
LEMMA StaysByPlan ==
  ASSUME UNCHANGED <<pvars, cvars>>, ByPlan
  PROVE  ByPlan'
<1>1. PICK T \in Nat \ {0}, f \in Fronts, s \in BOOLEAN, k \in Nat, c \in Nat : On(f, s, T, k, c)
  BY Zenon DEF ByPlan
<1>2. PICK P : P = Plan(f, s)
  OBVIOUS
<1>3. k \in 0 .. Len(P.stack) /\ Tabled(P, T, pkt_size) /\ Converting(P, T, k, c)
  BY <1>1, <1>2 DEF On
<1>4. UNCHANGED pvars /\ UNCHANGED <<ht, phase, d_stack, d_off, d_remaining, g_size, g_off, group, cursor>>
  BY DEF cvars
<1>5. Plan(f, s)' = P /\ pkt_size' = pkt_size
  BY <1>2, <1>4, SamePlan DEF pvars
<1>6. Tabled(P, T, pkt_size)'
  <2>1. UNCHANGED ht
    BY <1>4
  <2>2. Tabled(P, T, pkt_size) /\ pkt_size' = pkt_size
    BY <1>3, <1>5
  <2>3. PICK z : z = pkt_size
    OBVIOUS
  <2>4. Tabled(P, T, z)'
    BY <2>1, <2>2, <2>3, StillTabled
  <2> QED
    BY <2>2, <2>3, <2>4
<1>7. Converting(P, T, k, c)'
  <2>1. Here' = Here
    BY <1>4, HereSame
  <2> QED
    BY <1>3, <1>4, <2>1 DEF Converting
<1>8. On(f, s, T, k, c)'
  BY <1>3, <1>5, <1>6, <1>7 DEF On
<1> QED
  BY <1>8, Zenon DEF ByPlan

\* The invariant holds at the start
LEMMA ArrivedInit == Init => ArrivedInv
<1> SUFFICES ASSUME Init PROVE ArrivedInv
  OBVIOUS
<1>1. ig \in Groups /\ phase = "store"
  BY DEF Init, PacketizeInit, CoalesceInit
<1> QED
  BY <1>1, StoreInit DEF ArrivedInv, ConvertInv

\* and after each step.
LEMMA ArrivedStep == ArrivedInv /\ [Next]_vars => ArrivedInv'
<1> SUFFICES ASSUME ArrivedInv, [Next]_vars PROVE ArrivedInv'
  OBVIOUS
<1>1. StoreInv /\ ig \in Groups /\ ConvertInv
  BY DEF ArrivedInv
<1>2. StoreInv'
  BY <1>1, StoreStep
<1>3. SUFFICES ig' = ig /\ ConvertInv'
  BY <1>1, <1>2 DEF ArrivedInv
<1>4. CASE PacketizeNext /\ UNCHANGED <<cvars, net, sent>>
  <2>1. state # "end" /\ ig' = ig
    BY <1>4 DEF PacketizeNext, GetPacket, BankDry, AddItems, InitPacket, CopyData, HashPacket
  <2>2. phase = "store" /\ phase' = phase
    <3>1. phase = "store"
      BY <1>1, <2>1, CompleteFull
    <3> QED
      BY <1>4, <3>1 DEF cvars
  <2> QED
    BY <2>1, <2>2 DEF ConvertInv
<1>5. CASE Send
  <2>1. UNCHANGED <<pvars, cvars>> /\ ~sent
    BY <1>5 DEF Send
  <2>2. UNCHANGED pvars /\ UNCHANGED phase
    BY <2>1 DEF cvars
  <2>3. phase = "store"
    BY <1>1, <2>1 DEF StoreInv, Arriving
  <2> QED
    BY <2>2, <2>3 DEF ConvertInv, pvars
<1>6. CASE Arrive
  <2>1. UNCHANGED pvars /\ phase' \in {"store", "collect"}
    BY <1>6 DEF Arrive, StorePacket
  <2> QED
    BY <2>1 DEF ConvertInv, pvars
<1>7. CASE CoalesceStep /\ UNCHANGED <<pvars, net, sent>>
  <2>1. UNCHANGED pvars /\ CoalesceStep
    BY <1>7
  <2>2. UNCHANGED ht /\ phase # "store"
    BY <2>1, ConvertKeeps
  <2>3. WellChained' <=> WellChained
    <3>1. UNCHANGED pvars /\ UNCHANGED ht
      BY <2>1, <2>2
    <3> QED
      BY <3>1, SameChained
  <2>4. ASSUME WellChained PROVE ByPlan'
    <3>1. CASE phase = "collect"
      <4>1. Collect
        BY <2>1, <3>1 DEF CoalesceStep, SkipItem, NewItem, Converted, CopyNothing, CopyFromStart,
                         CopyFails, CopyWithin, CopyAcross
      <4> QED
        BY <1>1, <2>1, <2>4, <4>1, PlanBegins
    <3>2. CASE phase # "collect"
      <4>1. ByPlan
        BY <1>1, <2>2, <2>4, <3>2 DEF ConvertInv
      <4> QED
        BY <1>1, <2>1, <2>4, <3>2, <4>1, GoesByPlan
    <3> QED
      BY <3>1, <3>2
  <2>5. ig' = ig
    BY <2>1 DEF pvars
  <2> QED
    BY <2>3, <2>4, <2>5 DEF ConvertInv
<1>8. CASE UNCHANGED vars
  <2>1. UNCHANGED <<pvars, cvars>>
    BY <1>8 DEF vars
  <2>2. UNCHANGED pvars /\ UNCHANGED <<ht, phase>>
    BY <2>1 DEF cvars
  <2>3. WellChained' <=> WellChained
    <3>1. UNCHANGED pvars /\ UNCHANGED ht
      BY <2>2
    <3> QED
      BY <3>1, SameChained
  <2>4. ByPlan => ByPlan'
    BY <2>1, StaysByPlan
  <2>5. ig' = ig
    BY <2>2 DEF pvars
  <2> QED
    BY <1>1, <2>2, <2>3, <2>4, <2>5 DEF ConvertInv
<1> QED
  BY <1>4, <1>5, <1>6, <1>7, <1>8 DEF Next

\* What is made by the plan is what was expected, behind the immediate item.
LEMMA PlanExpected ==
  ASSUME ig \in Groups, NEW f \in Fronts, NEW s \in BOOLEAN,
         group = Plan(f, s).made[Len(f) + Len(ig)]
  PROVE  Received = Expected
<1>1. ig \in Seq(Nat)
  BY FitsMemory
<1>2. PICK n \in Nat : n = Len(ig)
  BY <1>1, LenProperties
<1>3. PICK F \in Nat : F = Len(f)
  BY FrontType
<1>4. PICK m : m = Making(n)[n]
  OBVIOUS
<1>5. m \in Seq(WholeItem) /\ Expected = m
  <2>1. n \in 0 .. Len(ig)
    BY <1>2
  <2>2. Making(Len(ig))[n] \in Seq(WholeItem)
    BY <1>1, <2>1, MakingType
  <2> QED
    BY <1>2, <1>4, <2>2, ExpectedIs
<1>6. group = Marks(f) \o m
  <2>1. F + n \in 0 .. Len(f) + Len(ig)
    BY <1>2, <1>3
  <2>2. group = MadeAt(f, F + n)
    BY <1>2, <1>3, <2>1, PlanParts
  <2>3. ~(F + n < F) /\ F + n - F = n
    OBVIOUS
  <2> QED
    BY <1>2, <1>3, <1>4, <2>2, <2>3 DEF MadeAt
<1>7. CASE f = <<>>
  <2>1. group = m
    BY <1>5, <1>6, <1>7 DEF Marks
  <2>2. ~(m # <<>> /\ m[1].id = 0)
    <3>1. SUFFICES ASSUME m # <<>> PROVE m[1].id # 0
      OBVIOUS
    <3>2. m[1] \in WholeItem
      BY <1>5, <3>1
    <3> QED
      BY <3>2 DEF WholeItem
  <2> QED
    BY <1>5, <2>1, <2>2 DEF Received
<1>8. CASE f # <<>>
  <2>1. group = <<Mark>> \o m
    BY <1>6, <1>8 DEF Marks
  <2>2. Mark \in MadeItem /\ Mark.id = 0
    BY CoalesceAssumption DEF Mark, MadeItem
  <2>3. m \in Seq(MadeItem)
    <3>1. WholeItem \subseteq MadeItem
      BY DEF WholeItem, MadeItem
    <3> QED
      BY <1>5, <3>1
  <2>4. \A S : \A x \in S : \A q \in Seq(S) :
          <<x>> \o q # <<>> /\ (<<x>> \o q)[1] = x /\ Tail(<<x>> \o q) = q
    OBVIOUS
  <2>5. group # <<>> /\ group[1] = Mark /\ Tail(group) = m
    BY <2>1, <2>2, <2>3, <2>4
  <2> QED
    BY <1>5, <2>2, <2>5 DEF Received
<1> QED
  BY <1>7, <1>8

\* A conversion that is done has made all of the plan.
LEMMA ArrivedWhole == ArrivedInv => RoundTrip
<1> SUFFICES ASSUME ArrivedInv PROVE RoundTrip
  OBVIOUS
<1>1. StoreInv /\ ig \in Groups /\ ConvertInv
  BY DEF ArrivedInv
<1>2. ASSUME phase = "done", WellChained PROVE Received = Expected
  <2>1. ByPlan
    BY <1>1, <1>2 DEF ConvertInv
  <2>2. PICK T \in Nat \ {0}, f \in Fronts, s \in BOOLEAN, k \in Nat, c \in Nat : On(f, s, T, k, c)
    BY <2>1, Zenon DEF ByPlan
  <2>3. k = Len(Plan(f, s).stack) /\ group = Plan(f, s).made[k]
    BY <1>2, <2>2 DEF On, Converting
  <2>4. CutAll /\ state = "end"
    BY <1>1, <1>2, CompleteFull DEF StoreInv
  <2>5. Len(Plan(f, s).stack) = Len(f) + Len(ig)
    BY <1>1, <2>4, PlanSound
  <2> QED
    BY <1>1, <2>3, <2>5, PlanExpected
<1> QED
  BY <1>1, <1>2, RoomyChained DEF RoundTrip

\* A conversion by a plan has not failed.
LEMMA ArrivedFits == ArrivedInv => ArenaSuffices
<1> SUFFICES ASSUME ArrivedInv, WellChained, phase = "failed" PROVE FALSE
  BY DEF ArenaSuffices
<1>1. ByPlan
  BY DEF ArrivedInv, ConvertInv
<1>2. PICK T \in Nat \ {0}, f \in Fronts, s \in BOOLEAN, k \in Nat, c \in Nat : On(f, s, T, k, c)
  BY <1>1, Zenon DEF ByPlan
<1>3. phase \in {"convert", "copy", "done"}
  BY <1>2 DEF On, Converting
<1> QED
  BY <1>3

\* So it always holds.
LEMMA ArrivedAlways == Spec => []ArrivedInv
  BY ArrivedInit, ArrivedStep, PTL DEF Spec

\* Whatever the item group, the packet sizes, the tables and the order in which
\* the datagrams arrive: process_items makes of a WellChained table the group that
\* was sent, byte for byte, and a table with more buckets than packets is one.
THEOREM GroupComesBack == Spec => []RoundTrip
  BY ArrivedAlways, ArrivedWhole, PTL

\* And the arena create_item_group sizes from the byte count has room for every
\* item of it, so that no such heap is dropped.
THEOREM ArenaIsLargeEnough == Spec => []ArenaSuffices
  BY ArrivedAlways, ArrivedFits, PTL

=============================================================================
