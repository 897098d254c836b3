--------------------------- MODULE ReceiverProofs ---------------------------
(***************************************************************************)
(* Proofs about the receive path, for any number of workers, objects and   *)
(* tables and any traffic, duplicates, clashes and junk included.          *)
(* TypeOK, LocksMatchSections and ObjectsConserved are inductive together: *)
(* the typing of a worker's table and heap id needs to know that the       *)
(* object it points to is its own.  That a table's count is that of the    *)
(* packets chained in it follows them through the eviction and the add.    *)
(***************************************************************************)
EXTENDS Receiver, FiniteSetTheorems, TLAPS

Inv == TypeOK /\ ObjectsConserved /\ LocksMatchSections

LEMMA HashHeapRange == \A h \in Nat : HashHeap(h) \in Table
BY ReceiverAssumption DEF HashHeap, Table

LEMMA BlankContent == Blank \in Content
BY DEF Blank, Content

LEMMA InvInit == Init => Inv
<1> SUFFICES ASSUME Init PROVE Inv
  OBVIOUS
<1>1. TypeOK
  BY ReceiverAssumption, BlankContent DEF Init, TypeOK, Label, Table
<1>2. ObjectsConserved
  BY DEF Init, ObjectsConserved, OwnedPrivately, ChainedOnce, NoneLost, Owns
<1>3. LocksMatchSections
  BY ReceiverAssumption DEF Init, LocksMatchSections, Inside
<1> QED
  BY <1>1, <1>2, <1>3 DEF Inv

\* A worker that owns an object points at one.
LEMMA OwnedObject ==
  ASSUME TypeOK, ObjectsConserved, NEW w \in Worker, Owns(w)
  PROVE  o[w] \in Object /\ pkt[o[w]] \in Content
BY DEF TypeOK, ObjectsConserved, OwnedPrivately

LEMMA TypeStep == Inv /\ [Next]_vars => TypeOK'
<1> SUFFICES ASSUME Inv, [Next]_vars PROVE TypeOK'
  OBVIOUS
<1> USE DEF Inv, TypeOK, Label, Goto, wvars, tvars, svars
<1>1. ASSUME NEW w \in Worker, Pop(w) PROVE TypeOK'
  <2>1. CASE ~run[w] \/ bank = {}
    BY <1>1, <2>1 DEF Pop
  <2>2. CASE run[w] /\ bank # {}
    <3>1. PICK x \in bank : /\ bank' = bank \ {x}
                           /\ o' = [o EXCEPT ![w] = x]
                           /\ pkt' = [pkt EXCEPT ![x] = Blank]
      BY <1>1, <2>2 DEF Pop
    <3>2. pkt' \in [Object -> Content]
      BY <3>1, BlankContent
    <3> QED
      BY <1>1, <2>2, <3>1, <3>2 DEF Pop
  <2> QED
    BY <2>1, <2>2
<1>2. ASSUME NEW w \in Worker, Recv(w) PROVE TypeOK'
  <2>1. PICK d \in Datagram : /\ net[d] > 0
                             /\ net' = [net EXCEPT ![d] = @ - 1]
                             /\ pkt' = [pkt EXCEPT ![o[w]] = d]
                             /\ Goto(w, IF d.kind = "empty" THEN "unused" ELSE "unpack")
    BY <1>2 DEF Recv
  <2>2. net' \in [Datagram -> Nat]
    BY <2>1
  <2>3. d \in Content
    BY ReceiverAssumption
  <2>4. pkt' \in [Object -> Content]
    BY <2>1, <2>3
  <2> QED
    BY <1>2, <2>1, <2>2, <2>4 DEF Recv
<1>3. ASSUME NEW w \in Worker, Signal(w) PROVE TypeOK'
  BY <1>3 DEF Signal
<1>4. ASSUME NEW w \in Worker, PushBack(w) PROVE TypeOK'
  <2>1. o[w] \in Object
    BY <1>4, OwnedObject DEF PushBack, Owns
  <2> QED
    BY <1>4, <2>1 DEF PushBack
<1>5. ASSUME NEW w \in Worker, Unpack(w) PROVE TypeOK'
  BY <1>5 DEF Unpack
<1>6. ASSUME NEW w \in Worker, GetTable(w) PROVE TypeOK'
  <2>1. pkt[o[w]].heap \in Nat
    BY <1>6, OwnedObject DEF GetTable, Owns, Content
  <2>2. HashHeap(pkt[o[w]].heap) \in Table
    BY <2>1, HashHeapRange
  <2> QED
    BY <1>6, <2>1, <2>2 DEF GetTable
<1>7. ASSUME NEW w \in Worker, EmptyPush(w) PROVE TypeOK'
  BY <1>7 DEF EmptyPush
<1>8. ASSUME NEW w \in Worker, Evicted(w) PROVE TypeOK'
  BY <1>8 DEF Evicted, Reset
<1>9. ASSUME NEW w \in Worker, Add(w) PROVE TypeOK'
  <2>1. o[w] \in Object /\ pkt[o[w]].len \in Nat
    BY <1>9, OwnedObject DEF Add, Owns, Content
  <2>2. t_os' \in [Table -> SUBSET Object] /\ t_data_count' \in [Table -> Nat]
    BY <1>9, <2>1 DEF Add
  <2>3. t_m' \in [Table -> Worker \cup {None}] /\ pc' \in [Worker -> Label]
    BY <1>9 DEF Add
  <2>4. t_processing' \in [Table -> BOOLEAN]
    BY <1>9 DEF Add
  <2> QED
    BY <1>9, <2>2, <2>3, <2>4 DEF Add
<1>10. ASSUME NEW w \in Worker, ProcessItems(w) PROVE TypeOK'
  BY <1>10 DEF ProcessItems
<1>11. ASSUME NEW w \in Worker, Flushed(w) PROVE TypeOK'
  BY <1>11 DEF Flushed, Reset
<1>12. ASSUME NEW w \in Worker, NoItems(w) PROVE TypeOK'
  BY <1>12 DEF NoItems
<1>13. ASSUME NEW w \in Worker, Count(w) PROVE TypeOK'
  BY <1>13 DEF Count
<1>14. ASSUME NEW w \in Worker, Callback(w) PROVE TypeOK'
  BY <1>14 DEF Callback
<1>15. ASSUME NEW w \in Worker, Account(w) PROVE TypeOK'
  BY <1>15 DEF Account
<1>16. CASE UNCHANGED vars
  BY <1>16 DEF vars
<1> QED
  BY <1>1, <1>2, <1>3, <1>4, <1>5, <1>6, <1>7, <1>8, <1>9, <1>10, <1>11,
     <1>12, <1>13, <1>14, <1>15, <1>16 DEF Next, Step

LEMMA LocksStep == Inv /\ [Next]_vars => LocksMatchSections'
<1> SUFFICES ASSUME Inv, [Next]_vars PROVE LocksMatchSections'
  OBVIOUS
<1> USE ReceiverAssumption DEF Inv, TypeOK, Label, Goto, wvars, tvars, svars,
        LocksMatchSections, Inside
<1>1. ASSUME NEW w \in Worker, Pop(w) PROVE LocksMatchSections'
  BY <1>1 DEF Pop
<1>2. ASSUME NEW w \in Worker, Recv(w) PROVE LocksMatchSections'
  BY <1>2 DEF Recv
<1>3. ASSUME NEW w \in Worker, Signal(w) PROVE LocksMatchSections'
  BY <1>3 DEF Signal
<1>4. ASSUME NEW w \in Worker, PushBack(w) PROVE LocksMatchSections'
  BY <1>4 DEF PushBack
<1>5. ASSUME NEW w \in Worker, Unpack(w) PROVE LocksMatchSections'
  BY <1>5 DEF Unpack
<1>6. ASSUME NEW w \in Worker, GetTable(w) PROVE LocksMatchSections'
  <2>1. HashHeap(pkt[o[w]].heap) \in Table
    BY <1>6, OwnedObject, HashHeapRange DEF GetTable, Owns, Content
  <2> QED
    BY <1>6, <2>1 DEF GetTable
<1>7. ASSUME NEW w \in Worker, EmptyPush(w) PROVE LocksMatchSections'
  BY <1>7 DEF EmptyPush
<1>8. ASSUME NEW w \in Worker, Evicted(w) PROVE LocksMatchSections'
  BY <1>8 DEF Evicted
<1>9. ASSUME NEW w \in Worker, Add(w) PROVE LocksMatchSections'
  BY <1>9 DEF Add
<1>10. ASSUME NEW w \in Worker, ProcessItems(w) PROVE LocksMatchSections'
  BY <1>10 DEF ProcessItems
<1>11. ASSUME NEW w \in Worker, Flushed(w) PROVE LocksMatchSections'
  BY <1>11 DEF Flushed
<1>12. ASSUME NEW w \in Worker, NoItems(w) PROVE LocksMatchSections'
  BY <1>12 DEF NoItems
<1>13. ASSUME NEW w \in Worker, Count(w) PROVE LocksMatchSections'
  BY <1>13 DEF Count
<1>14. ASSUME NEW w \in Worker, Callback(w) PROVE LocksMatchSections'
  BY <1>14 DEF Callback
<1>15. ASSUME NEW w \in Worker, Account(w) PROVE LocksMatchSections'
  BY <1>15 DEF Account
<1>16. CASE UNCHANGED vars
  BY <1>16 DEF vars
<1> QED
  BY <1>1, <1>2, <1>3, <1>4, <1>5, <1>6, <1>7, <1>8, <1>9, <1>10, <1>11,
     <1>12, <1>13, <1>14, <1>15, <1>16 DEF Next, Step

\* A step that moves no object and changes nobody's ownership is harmless.
LEMMA ConservedFrame ==
  ASSUME ObjectsConserved, UNCHANGED <<bank, t_os, o>>,
         \A v \in Worker : Owns(v)' <=> Owns(v)
  PROVE  ObjectsConserved'
BY DEF ObjectsConserved, OwnedPrivately, ChainedOnce, NoneLost

LEMMA ConservedStep == Inv /\ [Next]_vars => ObjectsConserved'
<1> SUFFICES ASSUME Inv, [Next]_vars PROVE ObjectsConserved'
  OBVIOUS
<1> USE DEF Inv
<1>1. ASSUME NEW w \in Worker, Pop(w) PROVE ObjectsConserved'
  <2>1. CASE ~run[w] \/ bank = {}
    BY <1>1, <2>1, ConservedFrame DEF Pop, Goto, tvars, Owns, TypeOK
  <2>2. CASE run[w] /\ bank # {}
    <3>1. PICK x \in bank : bank' = bank \ {x} /\ o' = [o EXCEPT ![w] = x]
      BY <1>1, <2>2 DEF Pop
    <3>2. UNCHANGED t_os /\ pc' = [pc EXCEPT ![w] = "recv"] /\ ~Owns(w)
      BY <1>1, <2>2 DEF Pop, Goto, tvars, Owns
    <3>3. Owns(w)' /\ \A v \in Worker : v # w => (Owns(v)' <=> Owns(v))
      BY <3>2 DEF Owns, TypeOK
    <3>4. o'[w] = x /\ \A v \in Worker : v # w => o'[v] = o[v]
      BY <3>1 DEF TypeOK
    <3>5. OwnedPrivately'
      BY <3>1, <3>2, <3>3, <3>4
         DEF TypeOK, ObjectsConserved, OwnedPrivately, ChainedOnce
    <3>6. ChainedOnce' /\ NoneLost'
      BY <3>1, <3>2, <3>3, <3>4 DEF ObjectsConserved, ChainedOnce, NoneLost
    <3> QED
      BY <3>5, <3>6 DEF ObjectsConserved
  <2> QED
    BY <2>1, <2>2
<1>2. ASSUME NEW w \in Worker, Recv(w) PROVE ObjectsConserved'
  BY <1>2, ConservedFrame DEF Recv, Goto, tvars, Owns, TypeOK
<1>3. ASSUME NEW w \in Worker, Signal(w) PROVE ObjectsConserved'
  BY <1>3, ConservedFrame DEF Signal, Goto, tvars, Owns, TypeOK
<1>4. ASSUME NEW w \in Worker, PushBack(w) PROVE ObjectsConserved'
  <2>1. /\ bank' = bank \cup {o[w]} /\ UNCHANGED <<o, t_os>>
        /\ Owns(w) /\ ~Owns(w)'
        /\ \A v \in Worker : v # w => (Owns(v)' <=> Owns(v))
    BY <1>4 DEF PushBack, Goto, tvars, Owns, TypeOK
  <2> QED
    BY <2>1 DEF ObjectsConserved, OwnedPrivately, ChainedOnce, NoneLost
<1>5. ASSUME NEW w \in Worker, Unpack(w) PROVE ObjectsConserved'
  BY <1>5, ConservedFrame DEF Unpack, Goto, tvars, Owns, TypeOK
<1>6. ASSUME NEW w \in Worker, GetTable(w) PROVE ObjectsConserved'
  BY <1>6, ConservedFrame DEF GetTable, Goto, Owns, TypeOK
<1>7. ASSUME NEW w \in Worker, EmptyPush(w) PROVE ObjectsConserved'
  <2> DEFINE t == ht[w]
  <2>1. PICK x \in t_os[t] : /\ bank' = bank \cup {x}
                             /\ t_os' = [t_os EXCEPT ![t] = @ \ {x}]
    BY <1>7 DEF EmptyPush
  <2>2. UNCHANGED <<o, pc>> /\ \A v \in Worker : Owns(v)' <=> Owns(v)
    BY <1>7 DEF EmptyPush, wvars, Owns
  <2>3. t \in Table /\ t_os'[t] = t_os[t] \ {x}
        /\ \A u \in Table : u # t => t_os'[u] = t_os[u]
    BY <2>1 DEF TypeOK
  <2> HIDE DEF t
  <2>4. OwnedPrivately'
    BY <2>1, <2>2, <2>3 DEF ObjectsConserved, OwnedPrivately
  <2>5. ChainedOnce'
    BY <2>1, <2>3 DEF ObjectsConserved, ChainedOnce
  <2>6. NoneLost'
    BY <2>1, <2>2, <2>3 DEF ObjectsConserved, NoneLost
  <2> QED
    BY <2>4, <2>5, <2>6 DEF ObjectsConserved
<1>8. ASSUME NEW w \in Worker, Evicted(w) PROVE ObjectsConserved'
  BY <1>8, ConservedFrame DEF Evicted, Goto, Owns, TypeOK
<1>9. ASSUME NEW w \in Worker, Add(w) PROVE ObjectsConserved'
  <2>1. UNCHANGED <<bank, o>> /\ Owns(w)
    BY <1>9 DEF Add, Owns
  <2>2. CASE Bucket(pkt[o[w]]) >= TableLen /\ pc' = [pc EXCEPT ![w] = "reject"] /\ UNCHANGED t_os
    BY <2>1, <2>2, ConservedFrame DEF Owns, TypeOK
  <2>3. CASE /\ t_os' = [t_os EXCEPT ![ht[w]] = @ \cup {o[w]}]
             /\ \E l \in {"process", "account"} : pc' = [pc EXCEPT ![w] = l]
    <3> DEFINE t == ht[w]
    <3>1. ~Owns(w)' /\ \A v \in Worker : v # w => (Owns(v)' <=> Owns(v))
      BY <2>3 DEF Owns, TypeOK
    <3>2. t \in Table /\ t_os'[t] = t_os[t] \cup {o[w]}
          /\ \A u \in Table : u # t => t_os'[u] = t_os[u]
      BY <2>3 DEF TypeOK
    <3> HIDE DEF t
    <3>3. OwnedPrivately'
      BY <2>1, <3>1, <3>2 DEF ObjectsConserved, OwnedPrivately
    <3>4. ChainedOnce'
      BY <2>1, <3>2 DEF ObjectsConserved, OwnedPrivately, ChainedOnce
    <3>5. NoneLost'
      BY <2>1, <3>1, <3>2 DEF ObjectsConserved, NoneLost
    <3> QED
      BY <3>3, <3>4, <3>5 DEF ObjectsConserved
  <2> QED
    BY <1>9, <2>2, <2>3 DEF Add, Goto
<1>10. ASSUME NEW w \in Worker, ProcessItems(w) PROVE ObjectsConserved'
  BY <1>10, ConservedFrame DEF ProcessItems, Goto, tvars, Owns, TypeOK
<1>11. ASSUME NEW w \in Worker, Flushed(w) PROVE ObjectsConserved'
  BY <1>11, ConservedFrame DEF Flushed, Goto, Owns, TypeOK
<1>12. ASSUME NEW w \in Worker, NoItems(w) PROVE ObjectsConserved'
  BY <1>12, ConservedFrame DEF NoItems, Goto, tvars, Owns, TypeOK
<1>13. ASSUME NEW w \in Worker, Count(w) PROVE ObjectsConserved'
  BY <1>13, ConservedFrame DEF Count, Goto, tvars, Owns, TypeOK
<1>14. ASSUME NEW w \in Worker, Callback(w) PROVE ObjectsConserved'
  BY <1>14, ConservedFrame DEF Callback, Goto, tvars, Owns, TypeOK
<1>15. ASSUME NEW w \in Worker, Account(w) PROVE ObjectsConserved'
  BY <1>15, ConservedFrame DEF Account, Goto, tvars, Owns, TypeOK
<1>16. CASE UNCHANGED vars
  BY <1>16, ConservedFrame DEF vars, wvars, tvars, Owns
<1> QED
  BY <1>1, <1>2, <1>3, <1>4, <1>5, <1>6, <1>7, <1>8, <1>9, <1>10, <1>11,
     <1>12, <1>13, <1>14, <1>15, <1>16 DEF Next, Step

LEMMA InvAlways == Spec => []Inv
<1>1. Inv /\ [Next]_vars => Inv'
  BY TypeStep, LocksStep, ConservedStep DEF Inv
<1> QED
  BY <1>1, InvInit, PTL DEF Spec

\* The receive path's variables keep their types.
THEOREM TypeCorrect == Spec => []TypeOK
BY InvAlways, PTL DEF Inv

\* worker_task_us, store_packet_hs and empty_hash_table neither leak an object
\* of the bank nor let two owners have it, whatever arrives.
THEOREM Conservation == Spec => []ObjectsConserved
BY InvAlways, PTL DEF Inv

\* Every path through store_packet_hs pairs lock_mutex(&ht->t_m) with one
\* unlock: a table's lock is held exactly by the worker in its section.
THEOREM LockPairing == Spec => []LocksMatchSections
BY InvAlways, PTL DEF Inv

-----------------------------------------------------------------------------

\* The worker has a SPEAD packet for its table in its hands.
Storing(w) == pc[w] \in {"lock", "evict", "add"}

\* The worker has the table's lock and its bookkeeping is not settled.
Emptying(t) == \E w \in Worker : pc[w] \in {"evict", "flush"} /\ ht[w] = t

\* The worker is turning the table into an item group.
Processing(t) == \E w \in Worker : pc[w] \in {"process", "flush"} /\ ht[w] = t

PacketsRight ==
  \A w \in Worker :
    /\ Storing(w) => pkt[o[w]].kind = "spead"
    /\ pc[w] \in {"evict", "add"} => HashHeap(pkt[o[w]].heap) = ht[w]

TableRight(t) ==
  /\ IsFiniteSet(Bytes(t))
  /\ \A x \in t_os[t] : pkt[x].kind = "spead" /\ HashHeap(pkt[x].heap) = t
  /\ t_processing[t] => Processing(t)
  /\ ~Emptying(t) => t_data_count[t] = Cardinality(Bytes(t))

\* A table's bookkeeping, also inside its critical section: the count may
\* differ from the chains only while the table is being emptied.
TableInv == PacketsRight /\ \A t \in Table : TableRight(t)

LEMMA InBytes ==
  ASSUME NEW t, NEW c
  PROVE  c \in Bytes(t) <=> \E x \in t_os[t] : \E k \in 1 .. pkt[x].len : c = <<x, k>>
BY DEF Bytes

LEMMA BytesKept ==
  ASSUME NEW t, t_os'[t] = t_os[t], \A x \in t_os[t] : pkt'[x] = pkt[x]
  PROVE  Bytes(t)' = Bytes(t)
BY DEF Bytes

\* The worker's own packet is not one of the packets a table counts.
LEMMA PacketsKept ==
  ASSUME Inv, NEW t \in Table, [Next]_vars
  PROVE  \A x \in t_os[t] : pkt'[x] = pkt[x]
<1> USE DEF Inv, TypeOK
<1>1. ASSUME NEW w \in Worker, Pop(w) PROVE \A x \in t_os[t] : pkt'[x] = pkt[x]
  BY <1>1 DEF Pop, ObjectsConserved, ChainedOnce
<1>2. ASSUME NEW w \in Worker, Recv(w) PROVE \A x \in t_os[t] : pkt'[x] = pkt[x]
  BY <1>2 DEF Recv, ObjectsConserved, OwnedPrivately, Owns
<1>3. ASSUME pkt' = pkt PROVE \A x \in t_os[t] : pkt'[x] = pkt[x]
  BY <1>3
<1> QED
  BY <1>1, <1>2, <1>3
     DEF Next, Step, Signal, PushBack, Unpack, GetTable, EmptyPush, Evicted, Add,
         ProcessItems, Flushed, NoItems, Count, Callback, Account, vars

\* Add: the packet's bytes are new to the table.
LEMMA BytesAdded ==
  ASSUME Inv, NEW w \in Worker, Add(w), NEW t \in Table, ht[w] = t, IsFiniteSet(Bytes(t)),
         t_os' = [t_os EXCEPT ![t] = @ \cup {o[w]}]
  PROVE  /\ IsFiniteSet(Bytes(t)')
         /\ Cardinality(Bytes(t)') = Cardinality(Bytes(t)) + pkt[o[w]].len
<1> DEFINE new == {o[w]} \X (1 .. pkt[o[w]].len)
<1>1. pkt' = pkt /\ t_os'[t] = t_os[t] \cup {o[w]}
  BY DEF Inv, TypeOK, Add
<1>2. Bytes(t)' = Bytes(t) \cup new
  BY <1>1 DEF Bytes
<1>3. o[w] \notin t_os[t] /\ o[w] \in Object
  BY <1>1 DEF Inv, ObjectsConserved, OwnedPrivately, Owns, Add
<1>4. Bytes(t) \cap new = {}
  BY <1>3, InBytes
<1>5. pkt[o[w]].len \in Nat
  BY <1>3 DEF Inv, TypeOK, Content
<1>6. IsFiniteSet(new) /\ Cardinality(new) = pkt[o[w]].len
  <2>1. PICK n \in Nat : n = pkt[o[w]].len
    BY <1>5
  <2>2. IsFiniteSet(1 .. n) /\ Cardinality(1 .. n) = n
    BY FS_Interval
  <2>3. IsFiniteSet({o[w]}) /\ Cardinality({o[w]}) = 1
    BY FS_Singleton
  <2>4. Cardinality({o[w]} \X (1 .. n)) = 1 * n /\ IsFiniteSet({o[w]} \X (1 .. n))
    BY <2>2, <2>3, FS_Product, ZenonT(40)
  <2> QED
    BY <2>1, <2>4
<1> HIDE DEF new
<1>7. IsFiniteSet(Bytes(t)) /\ Cardinality(Bytes(t)) \in Nat
  BY FS_CardinalityType
<1>8. /\ IsFiniteSet(Bytes(t) \cup new)
      /\ Cardinality(Bytes(t) \cup new) = Cardinality(Bytes(t)) + Cardinality(new) - 0
  BY <1>4, <1>6, <1>7, FS_Union, FS_EmptySet
<1> QED
  BY <1>2, <1>5, <1>6, <1>7, <1>8

LEMMA PacketsStep == Inv /\ TableInv /\ [Next]_vars => PacketsRight'
<1> SUFFICES ASSUME Inv, PacketsRight, [Next]_vars PROVE PacketsRight'
  BY DEF TableInv
<1> USE DEF Inv, TypeOK, PacketsRight, Storing, Goto, wvars, tvars
<1>1. ASSUME NEW w \in Worker, Pop(w) PROVE PacketsRight'
  <2>1. ASSUME NEW v \in Worker, Storing(v)
        PROVE  v # w /\ o'[v] = o[v] /\ pkt'[o[v]] = pkt[o[v]]
    BY <1>1, <2>1 DEF Pop, Owns, ObjectsConserved, OwnedPrivately
  <2>2. ht' = ht /\ \A v \in Worker : pc'[v] = pc[v] \/ pc'[v] \in {"done", "recv"}
    BY <1>1 DEF Pop
  <2> QED
    BY <2>1, <2>2
<1>2. ASSUME NEW w \in Worker, Recv(w) PROVE PacketsRight'
  <2>1. ASSUME NEW v \in Worker, Storing(v)
        PROVE  v # w /\ o'[v] = o[v] /\ pkt'[o[v]] = pkt[o[v]]
    BY <1>2, <2>1 DEF Recv, Owns, ObjectsConserved, OwnedPrivately
  <2>2. ht' = ht /\ \A v \in Worker : pc'[v] = pc[v] \/ pc'[v] \in {"unused", "unpack"}
    BY <1>2 DEF Recv
  <2> QED
    BY <2>1, <2>2
<1>3. ASSUME NEW w \in Worker,
             Signal(w) \/ PushBack(w) \/ Unpack(w) \/ GetTable(w) \/ EmptyPush(w)
               \/ Evicted(w) \/ Add(w) \/ ProcessItems(w) \/ Flushed(w) \/ NoItems(w)
               \/ Count(w) \/ Callback(w) \/ Account(w)
      PROVE  PacketsRight'
  <2>1. UNCHANGED <<o, pkt>>
    BY <1>3 DEF Signal, PushBack, Unpack, GetTable, EmptyPush, Evicted, Add,
                ProcessItems, Flushed, NoItems, Count, Callback, Account
  <2>2. \A v \in Worker : v # w => pc'[v] = pc[v] /\ ht'[v] = ht[v]
    BY <1>3 DEF Signal, PushBack, Unpack, GetTable, EmptyPush, Evicted, Add,
                ProcessItems, Flushed, NoItems, Count, Callback, Account
  <2>3. Storing(w)' => pkt[o[w]].kind = "spead"
    BY <1>3 DEF Signal, PushBack, Unpack, GetTable, EmptyPush, Evicted, Add,
                ProcessItems, Flushed, NoItems, Count, Callback, Account
  <2>4. pc'[w] \in {"evict", "add"} => HashHeap(pkt[o[w]].heap) = ht'[w]
    BY <1>3 DEF Signal, PushBack, Unpack, GetTable, EmptyPush, Evicted, Add,
                ProcessItems, Flushed, NoItems, Count, Callback, Account
  <2> QED
    BY <2>1, <2>2, <2>3, <2>4 DEF HashHeap
<1>4. CASE UNCHANGED vars
  BY <1>4 DEF vars, HashHeap
<1> QED
  BY <1>1, <1>2, <1>3, <1>4 DEF Next, Step

\* A step that leaves the table's chains and bookkeeping and its sections
\* alone.
LEMMA TableKept ==
  ASSUME Inv, NEW t \in Table, TableRight(t), [Next]_vars,
         t_os'[t] = t_os[t], t_data_count'[t] = t_data_count[t],
         t_processing'[t] = t_processing[t],
         Processing(t) => Processing(t)', Emptying(t) => Emptying(t)'
  PROVE  TableRight(t)'
<1>1. \A x \in t_os[t] : pkt'[x] = pkt[x]
  BY PacketsKept
<1>2. Bytes(t)' = Bytes(t)
  BY <1>1, BytesKept
<1> QED
  BY <1>1, <1>2 DEF TableRight, HashHeap

LEMMA TableStep == Inv /\ TableInv /\ [Next]_vars => \A t \in Table : TableRight(t)'
<1> SUFFICES ASSUME Inv, TableInv, [Next]_vars, NEW t \in Table PROVE TableRight(t)'
  BY DEF Table
<1>0. TableRight(t)
  BY DEF TableInv
<1> USE DEF Inv, TypeOK, Goto, wvars, tvars
<1>1. ASSUME NEW w \in Worker,
             Pop(w) \/ Recv(w) \/ Signal(w) \/ PushBack(w) \/ Unpack(w) \/ GetTable(w)
               \/ ProcessItems(w) \/ NoItems(w) \/ Count(w) \/ Callback(w) \/ Account(w)
      PROVE  TableRight(t)'
  <2>1. /\ UNCHANGED <<t_os, t_data_count, t_processing>>
        /\ \A v \in Worker : v # w => pc'[v] = pc[v] /\ ht'[v] = ht[v]
    BY <1>1 DEF Pop, Recv, Signal, PushBack, Unpack, GetTable, ProcessItems, NoItems, Count,
                Callback, Account
  <2>2. /\ pc[w] \in {"process", "flush"} => pc'[w] \in {"process", "flush"} /\ ht'[w] = ht[w]
        /\ pc[w] \in {"evict", "flush"} => pc'[w] \in {"evict", "flush"} /\ ht'[w] = ht[w]
    BY <1>1 DEF Pop, Recv, Signal, PushBack, Unpack, GetTable, ProcessItems, NoItems, Count,
                Callback, Account
  <2> QED
    BY <1>0, <2>1, <2>2, TableKept DEF Processing, Emptying
<1>2. ASSUME NEW w \in Worker, EmptyPush(w) PROVE TableRight(t)'
  <2>1. /\ UNCHANGED <<pc, ht, pkt, t_data_count, t_processing>>
        /\ pc[w] \in {"evict", "flush"}
        /\ \A u \in Table : t_os'[u] \subseteq t_os[u]
    BY <1>2 DEF EmptyPush
  <2>2. CASE ht[w] = t
    <3>1. Bytes(t)' \in SUBSET Bytes(t)
      BY <2>1 DEF Bytes
    <3>2. IsFiniteSet(Bytes(t)')
      BY <1>0, <3>1, FS_Subset DEF TableRight
    <3>3. Emptying(t)' /\ (Processing(t)' <=> Processing(t))
      BY <2>1, <2>2 DEF Emptying, Processing
    <3> QED
      BY <1>0, <2>1, <3>2, <3>3 DEF TableRight, HashHeap
  <2>3. CASE ht[w] # t
    <3>1. t_os'[t] = t_os[t]
      BY <1>2, <2>3 DEF EmptyPush
    <3> QED
      BY <1>0, <2>1, <3>1, TableKept DEF Processing, Emptying
  <2> QED
    BY <2>2, <2>3
<1>3. ASSUME NEW w \in Worker, Evicted(w) \/ Flushed(w) PROVE TableRight(t)'
  <2>1. /\ UNCHANGED <<t_os, ht>> /\ t_os[ht[w]] = {}
        /\ t_data_count' = [t_data_count EXCEPT ![ht[w]] = 0]
        /\ t_processing' = [t_processing EXCEPT ![ht[w]] = FALSE]
        /\ \A v \in Worker : v # w => pc'[v] = pc[v]
    BY <1>3 DEF Evicted, Flushed, Reset
  <2>2. CASE ht[w] = t
    <3>1. Bytes(t)' = {}
      BY <2>1, <2>2 DEF Bytes
    <3>2. t_data_count'[t] = 0 /\ ~t_processing'[t] /\ t_os'[t] = {}
      BY <2>1, <2>2
    <3> QED
      BY <3>1, <3>2, FS_EmptySet DEF TableRight
  <2>3. CASE ht[w] # t
    <3>1. /\ t_os'[t] = t_os[t] /\ t_data_count'[t] = t_data_count[t]
          /\ t_processing'[t] = t_processing[t]
      BY <2>1, <2>3
    <3>2. (Processing(t) => Processing(t)') /\ (Emptying(t) => Emptying(t)')
      BY <2>1, <2>3 DEF Processing, Emptying
    <3> QED
      BY <1>0, <3>1, <3>2, TableKept
  <2> QED
    BY <2>2, <2>3
<1>4. ASSUME NEW w \in Worker, Add(w) PROVE TableRight(t)'
  <2>1. /\ UNCHANGED <<ht, pkt>> /\ pc[w] = "add"
        /\ \A v \in Worker : v # w => pc'[v] = pc[v]
        /\ \A u \in Table : u # ht[w] =>
             /\ t_os'[u] = t_os[u] /\ t_data_count'[u] = t_data_count[u]
             /\ t_processing'[u] = t_processing[u]
    BY <1>4 DEF Add
  <2>2. (Processing(t) => Processing(t)') /\ (Emptying(t) => Emptying(t)')
    BY <2>1 DEF Processing, Emptying
  <2>3. CASE ht[w] # t \/ pc' = [pc EXCEPT ![w] = "reject"]
    <3>1. /\ t_os'[t] = t_os[t] /\ t_data_count'[t] = t_data_count[t]
          /\ t_processing'[t] = t_processing[t]
      BY <1>4, <2>1, <2>3 DEF Add
    <3> QED
      BY <1>0, <2>2, <3>1, TableKept
  <2>4. CASE ht[w] = t /\ pc' # [pc EXCEPT ![w] = "reject"]
    <3>1. /\ t_os' = [t_os EXCEPT ![t] = @ \cup {o[w]}]
          /\ t_data_count' = [t_data_count EXCEPT ![t] = @ + pkt[o[w]].len]
          /\ t_processing'[t] => t_processing[t] \/ pc'[w] = "process"
      BY <1>4, <2>4 DEF Add
    <3>2. ~Emptying(t)
      BY <2>1, <2>4 DEF Emptying, LocksMatchSections, Inside
    <3>3. t_data_count[t] = Cardinality(Bytes(t)) /\ IsFiniteSet(Bytes(t))
      BY <1>0, <3>2 DEF TableRight
    <3>4. /\ IsFiniteSet(Bytes(t)')
          /\ Cardinality(Bytes(t)') = Cardinality(Bytes(t)) + pkt[o[w]].len
      BY <1>4, <2>4, <3>1, <3>3, BytesAdded
    <3>5. t_data_count'[t] = Cardinality(Bytes(t)')
      BY <3>1, <3>3, <3>4
    <3>6. t_processing'[t] => Processing(t)'
      BY <1>0, <2>1, <2>2, <2>4, <3>1 DEF TableRight, Processing
    <3>7. \A x \in t_os'[t] : pkt'[x].kind = "spead" /\ HashHeap(pkt'[x].heap) = t
      BY <1>0, <2>1, <2>4, <3>1 DEF TableRight, TableInv, PacketsRight, Storing
    <3> QED
      BY <3>4, <3>5, <3>6, <3>7 DEF TableRight, HashHeap
  <2> QED
    BY <2>3, <2>4
<1>5. CASE UNCHANGED vars
  BY <1>0, <1>5, TableKept DEF vars, Processing, Emptying
<1> QED
  BY <1>1, <1>2, <1>3, <1>4, <1>5 DEF Next, Step

LEMMA TableInit == Init => TableInv
<1> SUFFICES ASSUME Init PROVE TableInv
  OBVIOUS
<1>1. PacketsRight
  BY DEF Init, PacketsRight, Storing
<1>2. ASSUME NEW t \in Table PROVE TableRight(t)
  <2>1. t_os[t] = {} /\ Bytes(t) = {} /\ t_data_count[t] = 0 /\ ~t_processing[t]
    BY DEF Init, Bytes
  <2> QED
    BY <2>1, FS_EmptySet DEF TableRight
<1> QED
  BY <1>1, <1>2 DEF TableInv

LEMMA TableAlways == Spec => []TableInv
<1>1. Inv /\ TableInv /\ [Next]_vars => TableInv'
  BY PacketsStep, TableStep DEF TableInv, Table
<1> QED
  BY <1>1, TableInit, InvAlways, PTL DEF Spec

\* Whoever locks a table finds its count in step with its chains, no
\* processing flagged and only packets of heaps that map to it, whichever
\* clashes, rejected packets and half-emptied tables came before.
THEOREM TablesRight == Spec => []TableConsistent
<1>1. Inv /\ TableInv => TableConsistent
  <2> SUFFICES ASSUME Inv, TableInv, NEW t \in Table, t_m[t] = None
               PROVE  /\ t_data_count[t] = Cardinality(Bytes(t))
                      /\ ~t_processing[t]
                      /\ \A x \in t_os[t] :
                           pkt[x].kind = "spead" /\ HashHeap(pkt[x].heap) = t
    BY DEF TableConsistent
  <2>1. ~Emptying(t) /\ ~Processing(t)
    BY ReceiverAssumption DEF Emptying, Processing, Inv, LocksMatchSections, Inside
  <2> QED
    BY <2>1 DEF TableInv, TableRight
<1> QED
  BY <1>1, InvAlways, TableAlways, PTL

(***************************************************************************)
(* On a network that repeats no datagram no heap reaches the callbacks     *)
(* twice.  The argument follows a datagram: it is on the network, in one   *)
(* object, in one item group or in one delivery, and moves from each to    *)
(* the next.  If the traffic is also orderly, what reaches the callbacks   *)
(* is a whole heap: a table whose count is the heap's length has all its   *)
(* packets.                                                                *)
(***************************************************************************)

Spead == {d \in Datagram : d.kind = "spead"}

\* The worker holds a datagram that it may yet put into a table.
Carries(w) == pc[w] \in {"unpack", "lock", "evict", "add"}

\* The item group of the table has been made.
Flushing(t) == \E w \in Worker : pc[w] = "flush" /\ ht[w] = t

\* What is in the object has not been handed on.
Fresh(x) ==
  \/ \E w \in Worker : Carries(w) /\ o[w] = x
  \/ \E t \in Table : x \in t_os[t] /\ ~Flushing(t)

InObject(d, x) == Fresh(x) /\ pkt[x] = d
InGroup(d, w) == \E x \in DOMAIN ig[w] : ig[w][x] = d
InDelivered(d, k) == \E x \in DOMAIN delivered[k] : delivered[k][x] = d

\* The places of a datagram are one at most, and none before it arrives.
Apart(d) ==
  /\ \A x, y \in Object : InObject(d, x) /\ InObject(d, y) => x = y
  /\ \A v, w \in Worker : InGroup(d, v) /\ InGroup(d, w) => v = w
  /\ \A j, k \in DOMAIN delivered : InDelivered(d, j) /\ InDelivered(d, k) => j = k
  /\ \A x \in Object, w \in Worker : ~(InObject(d, x) /\ InGroup(d, w))
  /\ \A x \in Object, k \in DOMAIN delivered : ~(InObject(d, x) /\ InDelivered(d, k))
  /\ \A w \in Worker, k \in DOMAIN delivered : ~(InGroup(d, w) /\ InDelivered(d, k))

Nowhere(d) ==
  /\ \A x \in Object : ~InObject(d, x)
  /\ \A w \in Worker : ~InGroup(d, w)
  /\ \A k \in DOMAIN delivered : ~InDelivered(d, k)

OnePlace == \A d \in Spead : net[d] <= 1 /\ Apart(d) /\ (net[d] = 1 => Nowhere(d))

Groups == UNION {[D -> Content] : D \in SUBSET Object}

GroupType == ig \in [Worker -> Groups] /\ delivered \in Seq(Groups)

DeliveryInv == GroupType /\ OnePlace

LEMMA NoGroupType == NoGroup \in Groups
<1>1. NoGroup \in [{} -> Content]
  BY DEF NoGroup
<1> QED
  BY <1>1 DEF Groups

LEMMA DeliveryInit == MaxCopies <= 1 /\ Init => DeliveryInv
<1> SUFFICES ASSUME MaxCopies <= 1, Init PROVE DeliveryInv
  OBVIOUS
<1>1. GroupType
  BY NoGroupType DEF Init, GroupType
<1>2. ASSUME NEW d \in Spead PROVE net[d] <= 1 /\ Nowhere(d)
  <2>1. net[d] <= 1
    BY <1>2, ReceiverAssumption DEF Init, Spead
  <2>2. \A x \in Object : ~Fresh(x)
    BY DEF Init, Fresh, Carries
  <2>3. \A w \in Worker : DOMAIN ig[w] = {}
    BY DEF Init, NoGroup
  <2>4. DOMAIN delivered = {}
    BY DEF Init
  <2> QED
    BY <2>1, <2>2, <2>3, <2>4 DEF Nowhere, InObject, InGroup
<1>3. \A d \in Spead : Nowhere(d) => Apart(d)
  BY DEF Nowhere, Apart
<1> QED
  BY <1>1, <1>2, <1>3 DEF DeliveryInv, OnePlace

LEMMA GroupStep == Inv /\ GroupType /\ [Next]_vars => GroupType'
<1> SUFFICES ASSUME Inv, GroupType, [Next]_vars PROVE GroupType'
  OBVIOUS
<1>1. ASSUME NEW w \in Worker,
             Pop(w) \/ Recv(w) \/ PushBack(w) \/ Unpack(w) \/ GetTable(w) \/ EmptyPush(w)
             \/ Evicted(w) \/ Add(w) \/ Flushed(w) \/ NoItems(w) \/ Count(w) \/ Account(w)
             \/ Signal(w)
      PROVE  GroupType'
  BY <1>1 DEF GroupType, Pop, Recv, PushBack, Unpack, GetTable, EmptyPush, Evicted, Add,
              Flushed, NoItems, Count, Account, Signal, wvars
<1>2. ASSUME NEW w \in Worker, ProcessItems(w) PROVE GroupType'
  <2>1. t_os[ht[w]] \subseteq Object /\ pkt \in [Object -> Content]
    BY DEF Inv, TypeOK
  <2>2. [x \in t_os[ht[w]] |-> pkt[x]] \in [t_os[ht[w]] -> Content]
    BY <2>1
  <2>3. [x \in t_os[ht[w]] |-> pkt[x]] \in Groups
    BY <2>1, <2>2 DEF Groups
  <2> QED
    BY <1>2, <2>3, NoGroupType DEF ProcessItems, GroupType
<1>3. ASSUME NEW w \in Worker, Callback(w) PROVE GroupType'
  BY <1>3, NoGroupType DEF Callback, GroupType
<1>4. CASE UNCHANGED vars
  BY <1>4 DEF vars, wvars, GroupType
<1> QED
  BY <1>1, <1>2, <1>3, <1>4 DEF Next, Step

\* A step that brings no datagram to a new place.
LEMMA PlacesKept ==
  ASSUME OnePlace, UNCHANGED <<net, delivered>>,
         \A d \in Spead, x \in Object : InObject(d, x)' => InObject(d, x),
         \A d \in Spead, w \in Worker : InGroup(d, w)' => InGroup(d, w)
  PROVE  OnePlace'
<1>1. \A d \in Spead, k \in DOMAIN delivered : InDelivered(d, k)' <=> InDelivered(d, k)
  BY DEF InDelivered
<1> QED
  BY <1>1 DEF OnePlace, Apart, Nowhere

\* A step that chains no object and starts to carry none.
LEMMA FreshKept ==
  ASSUME Inv, OnePlace, UNCHANGED <<net, delivered, pkt, ig>>,
         \A w \in Worker : Carries(w)' => Carries(w) /\ o'[w] = o[w],
         \A t \in Table : \A x \in t_os'[t] : ~Flushing(t)' => x \in t_os[t] /\ ~Flushing(t)
  PROVE  OnePlace'
<1>1. \A x \in Object : Fresh(x)' => Fresh(x)
  BY DEF Fresh
<1>2. \A d \in Spead, x \in Object : InObject(d, x)' => InObject(d, x)
  BY <1>1 DEF InObject
<1>3. \A d \in Spead, w \in Worker : InGroup(d, w)' => InGroup(d, w)
  BY DEF InGroup
<1> QED
  BY <1>2, <1>3, PlacesKept

LEMMA PopPlaces == ASSUME Inv, OnePlace, NEW w \in Worker, Pop(w) PROVE OnePlace'
<1>1. /\ UNCHANGED <<net, delivered, ig, t_os, ht>>
      /\ pc' \in {[pc EXCEPT ![w] = "done"], [pc EXCEPT ![w] = "recv"]} /\ pc[w] = "pop"
      /\ \A v \in Worker : v # w => o'[v] = o[v]
  BY DEF Pop, Goto, tvars, Inv, TypeOK
<1>2. \A v \in Worker : (Carries(v)' => v # w /\ Carries(v)) /\ (pc'[v] = "flush" <=> pc[v] = "flush")
  BY <1>1 DEF Carries, Inv, TypeOK
<1>3. \A x \in Object : Fresh(x)' => Fresh(x)
  BY <1>1, <1>2 DEF Fresh, Flushing
<1>4. \A x \in Object : pkt'[x] = pkt[x] \/ pkt'[x] = Blank
  BY DEF Pop, Inv, TypeOK
<1>5. \A d \in Spead : d # Blank
  BY DEF Spead, Blank
<1>6. \A d \in Spead, x \in Object : InObject(d, x)' => InObject(d, x)
  BY <1>3, <1>4, <1>5 DEF InObject
<1>7. \A d \in Spead, v \in Worker : InGroup(d, v)' => InGroup(d, v)
  BY <1>1 DEF InGroup
<1> QED
  BY <1>1, <1>6, <1>7, PlacesKept

LEMMA RecvPlaces == ASSUME Inv, OnePlace, NEW w \in Worker, Recv(w) PROVE OnePlace'
<1>1. PICK e \in Datagram :
        /\ net[e] > 0 /\ net' = [net EXCEPT ![e] = @ - 1]
        /\ pkt' = [pkt EXCEPT ![o[w]] = e]
        /\ Goto(w, IF e.kind = "empty" THEN "unused" ELSE "unpack")
  BY DEF Recv
<1>2. UNCHANGED <<o, ht, ig, t_os, delivered>> /\ pc[w] = "recv" /\ o[w] \in Object
  BY OwnedObject DEF Recv, tvars, Inv, Owns
<1>3. \A v \in Worker : v # w => pc'[v] = pc[v]
  BY <1>1 DEF Goto, Inv, TypeOK
<1>4. pc'[w] \in {"unused", "unpack"}
  BY <1>1 DEF Goto, Inv, TypeOK
<1>5. \A x \in Object : x # o[w] /\ Fresh(x)' => Fresh(x)
  BY <1>2, <1>3, <1>4 DEF Fresh, Carries, Flushing
<1>6. \A x \in Object : pkt'[x] = IF x = o[w] THEN e ELSE pkt[x]
  BY <1>1 DEF Inv, TypeOK
<1>7. \A d \in Spead, x \in Object : InObject(d, x)' => InObject(d, x) \/ (x = o[w] /\ d = e)
  BY <1>5, <1>6 DEF InObject
<1>8. \A d \in Spead :
        /\ \A v \in Worker : InGroup(d, v)' <=> InGroup(d, v)
        /\ \A k \in DOMAIN delivered : InDelivered(d, k)' <=> InDelivered(d, k)
  BY <1>2 DEF InGroup, InDelivered
<1>9. \A d \in Spead : net'[d] = IF d = e THEN net[d] - 1 ELSE net[d]
  BY <1>1 DEF Spead, Inv, TypeOK
<1>10. ASSUME NEW d \in Spead PROVE net'[d] <= 1 /\ Apart(d)' /\ (net'[d] = 1 => Nowhere(d)')
  <2>1. CASE d = e
    <3>1. net[d] = 1 /\ net'[d] = 0 /\ Nowhere(d)
      BY <1>1, <1>9, <2>1 DEF OnePlace, Inv, TypeOK, Spead
    <3> QED
      BY <1>2, <1>7, <1>8, <3>1 DEF Apart, Nowhere
  <2>2. CASE d # e
    BY <1>2, <1>7, <1>8, <1>9, <2>2 DEF OnePlace, Apart, Nowhere
  <2> QED
    BY <2>1, <2>2
<1> QED
  BY <1>10 DEF OnePlace

LEMMA AddPlaces == ASSUME Inv, OnePlace, NEW w \in Worker, Add(w) PROVE OnePlace'
<1>1. /\ UNCHANGED <<net, delivered, pkt, ig, o, ht>> /\ pc[w] = "add"
      /\ \A t \in Table : t_os'[t] \subseteq t_os[t] \cup {o[w]}
      /\ \E l \in {"reject", "process", "account"} : pc' = [pc EXCEPT ![w] = l]
  BY DEF Add, Goto, Inv, TypeOK
<1>2. \A v \in Worker : (Carries(v)' => Carries(v)) /\ (pc'[v] = "flush" <=> pc[v] = "flush")
  BY <1>1 DEF Carries, Inv, TypeOK
<1>3. \A x \in Object : Fresh(x)' => Fresh(x)
  BY <1>1, <1>2 DEF Fresh, Flushing, Carries
<1>4. \A d \in Spead, x \in Object : InObject(d, x)' => InObject(d, x)
  BY <1>1, <1>3 DEF InObject
<1>5. \A d \in Spead, v \in Worker : InGroup(d, v)' => InGroup(d, v)
  BY <1>1 DEF InGroup
<1> QED
  BY <1>1, <1>4, <1>5, PlacesKept

LEMMA ProcessPlaces == ASSUME Inv, OnePlace, NEW w \in Worker, ProcessItems(w), GroupType PROVE OnePlace'
<1> DEFINE t == ht[w]
           xs == t_os[t]
<1>1. /\ UNCHANGED <<net, delivered, pkt, o, ht, t_os>> /\ pc[w] = "process"
      /\ pc' = [pc EXCEPT ![w] = "flush"]
      /\ \A v \in Worker : v # w => ig'[v] = ig[v]
      /\ ig'[w] = NoGroup \/ ig'[w] = [x \in xs |-> pkt[x]]
  BY DEF ProcessItems, Goto, tvars, GroupType
<1>2. t \in Table /\ xs \subseteq Object
  BY DEF Inv, TypeOK
<1>3. ~Flushing(t)
  BY <1>1, <1>2 DEF Flushing, Inv, LocksMatchSections, Inside
<1>4. \A v \in Worker : (Carries(v)' <=> Carries(v)) /\ (pc'[v] = "flush" <=> v = w \/ pc[v] = "flush")
  BY <1>1 DEF Carries, Inv, TypeOK
<1>5. \A u \in Table : ~Flushing(u)' => u # t /\ ~Flushing(u)
  BY <1>1, <1>4 DEF Flushing
<1>6. \A x \in Object : Fresh(x)' => Fresh(x) /\ x \notin xs
  <2>1. \A v \in Worker : Carries(v) => o[v] \notin xs
    BY <1>2 DEF Carries, Owns, Inv, ObjectsConserved, OwnedPrivately
  <2>2. \A u \in Table : u # t => t_os[u] \cap xs = {}
    BY <1>2 DEF Inv, ObjectsConserved, ChainedOnce
  <2>3. t_os' = t_os /\ o' = o
    BY <1>1
  <2> HIDE DEF t, xs
  <2>4. ASSUME NEW x \in Object, NEW v \in Worker, Carries(v)', o'[v] = x
        PROVE  Fresh(x) /\ x \notin xs
    BY <1>4, <2>1, <2>3, <2>4 DEF Fresh
  <2>5. ASSUME NEW x \in Object, NEW u \in Table, x \in t_os'[u], ~Flushing(u)'
        PROVE  Fresh(x) /\ x \notin xs
    BY <1>5, <2>2, <2>3, <2>5 DEF Fresh
  <2> QED
    BY <2>4, <2>5 DEF Fresh
<1>7. \A x \in xs : Fresh(x)
  BY <1>2, <1>3 DEF Fresh
<1>8. \A d \in Spead, x \in Object : InObject(d, x)' => InObject(d, x) /\ x \notin xs
  BY <1>1, <1>6 DEF InObject
<1>9. ASSUME NEW d \in Spead, InGroup(d, w)' PROVE \E x \in xs : InObject(d, x)
  <2>1. ig'[w] # NoGroup
    BY <1>9 DEF InGroup, NoGroup
  <2> QED
    BY <1>1, <1>7, <1>9, <2>1 DEF InGroup, InObject
<1>10. \A d \in Spead, v \in Worker : v # w => (InGroup(d, v)' <=> InGroup(d, v))
  BY <1>1 DEF InGroup
<1>11. \A d \in Spead, k \in DOMAIN delivered : InDelivered(d, k)' <=> InDelivered(d, k)
  BY <1>1 DEF InDelivered
<1> HIDE DEF t, xs
<1>12. ASSUME NEW d \in Spead PROVE Apart(d)' /\ (net'[d] = 1 => Nowhere(d)')
  <2>1. CASE InGroup(d, w)'
    <3>1. PICK x \in Object : x \in xs /\ InObject(d, x)
      BY <1>2, <1>9, <2>1
    <3>2. /\ \A y \in Object : ~InObject(d, y)'
          /\ \A v \in Worker : InGroup(d, v)' => v = w
          /\ \A k \in DOMAIN delivered : ~InDelivered(d, k)'
          /\ net[d] # 1
      BY <1>8, <1>10, <1>11, <3>1 DEF OnePlace, Apart, Nowhere
    <3> QED
      BY <1>1, <3>2 DEF Apart, Nowhere
  <2>2. CASE ~InGroup(d, w)'
    BY <1>1, <1>8, <1>10, <1>11, <2>2 DEF OnePlace, Apart, Nowhere
  <2> QED
    BY <2>1, <2>2
<1> QED
  BY <1>1, <1>12 DEF OnePlace

LEMMA CallbackPlaces == ASSUME Inv, OnePlace, GroupType, NEW w \in Worker, Callback(w) PROVE OnePlace'
<1>1. /\ UNCHANGED <<net, pkt, o, ht, t_os>> /\ pc[w] = "callback"
      /\ pc' = [pc EXCEPT ![w] = "account"]
      /\ \A v \in Worker : v # w => ig'[v] = ig[v]
      /\ ig'[w] = NoGroup
      /\ delivered' = delivered \/ delivered' = Append(delivered, ig[w])
  BY DEF Callback, Goto, tvars, GroupType
<1>2. \A v \in Worker : (Carries(v)' <=> Carries(v)) /\ (pc'[v] = "flush" <=> pc[v] = "flush")
  BY <1>1 DEF Carries, Inv, TypeOK
<1>3. \A x \in Object : Fresh(x)' <=> Fresh(x)
  BY <1>1, <1>2 DEF Fresh, Flushing
<1>4. \A d \in Spead, x \in Object : InObject(d, x)' <=> InObject(d, x)
  BY <1>1, <1>3 DEF InObject
<1>5. \A d \in Spead, v \in Worker : InGroup(d, v)' => v # w /\ InGroup(d, v)
  BY <1>1 DEF InGroup, NoGroup
<1>6. CASE delivered' = delivered
  <2>1. \A d \in Spead, x \in Object : InObject(d, x)' => InObject(d, x)
    BY <1>4
  <2>2. \A d \in Spead, v \in Worker : InGroup(d, v)' => InGroup(d, v)
    BY <1>5
  <2> QED
    BY <1>1, <1>6, <2>1, <2>2, PlacesKept
<1>7. CASE delivered' = Append(delivered, ig[w])
  <2>1. PICK n \in Nat :
          /\ DOMAIN delivered' = DOMAIN delivered \cup {n} /\ n \notin DOMAIN delivered
          /\ delivered'[n] = ig[w]
          /\ \A k \in DOMAIN delivered : delivered'[k] = delivered[k]
    <3>1. Len(delivered) + 1 \in Nat
      BY DEF GroupType
    <3> QED
      BY <1>7, <3>1 DEF GroupType
  <2>2. \A d \in Spead : /\ InDelivered(d, n)' <=> InGroup(d, w)
                         /\ \A k \in DOMAIN delivered : InDelivered(d, k)' <=> InDelivered(d, k)
    BY <2>1 DEF InDelivered, InGroup
  <2>3. ASSUME NEW d \in Spead PROVE Apart(d)' /\ (net'[d] = 1 => Nowhere(d)')
    <3>1. Apart(d) /\ (net[d] = 1 => Nowhere(d))
      BY DEF OnePlace
    <3>2. /\ \A x, y \in Object : InObject(d, x)' /\ InObject(d, y)' => x = y
          /\ \A u, v \in Worker : InGroup(d, u)' /\ InGroup(d, v)' => u = v
          /\ \A x \in Object, v \in Worker : ~(InObject(d, x)' /\ InGroup(d, v)')
      BY <1>4, <1>5, <3>1 DEF Apart
    <3>3. \A j, k \in DOMAIN delivered' : InDelivered(d, j)' /\ InDelivered(d, k)' => j = k
      BY <2>1, <2>2, <3>1 DEF Apart
    <3>4. \A x \in Object, k \in DOMAIN delivered' : ~(InObject(d, x)' /\ InDelivered(d, k)')
      BY <1>4, <2>1, <2>2, <3>1 DEF Apart
    <3>5. \A v \in Worker, k \in DOMAIN delivered' : ~(InGroup(d, v)' /\ InDelivered(d, k)')
      BY <1>5, <2>1, <2>2, <3>1 DEF Apart
    <3>6. net'[d] = 1 => Nowhere(d)'
      BY <1>1, <1>4, <1>5, <2>1, <2>2, <3>1 DEF Nowhere
    <3> QED
      BY <3>2, <3>3, <3>4, <3>5, <3>6 DEF Apart
  <2> QED
    BY <1>1, <2>3 DEF OnePlace
<1> QED
  BY <1>1, <1>6, <1>7

LEMMA OnePlaceStep == Inv /\ GroupType /\ OnePlace /\ [Next]_vars => OnePlace'
<1> SUFFICES ASSUME Inv, GroupType, OnePlace, [Next]_vars PROVE OnePlace'
  OBVIOUS
<1>1. ASSUME NEW w \in Worker,
             PushBack(w) \/ Unpack(w) \/ GetTable(w) \/ Evicted(w) \/ NoItems(w) \/ Count(w)
             \/ Account(w) \/ Signal(w)
      PROVE  OnePlace'
  <2>1. /\ UNCHANGED <<net, delivered, pkt, ig, o, t_os>>
        /\ \A v \in Worker : v # w => pc'[v] = pc[v] /\ ht'[v] = ht[v]
    BY <1>1 DEF PushBack, Unpack, GetTable, Evicted, NoItems, Count, Account, Signal, Goto,
                tvars, Inv, TypeOK
  <2>2. /\ pc[w] = "flush" => pc'[w] = "flush" /\ ht'[w] = ht[w]
        /\ Carries(w)' => Carries(w)
    BY <1>1 DEF PushBack, Unpack, GetTable, Evicted, NoItems, Count, Account, Signal, Goto,
                Carries, Inv, TypeOK
  <2>3. \A v \in Worker : Carries(v)' => Carries(v) /\ o'[v] = o[v]
    BY <2>1, <2>2 DEF Carries
  <2>4. \A t \in Table : \A x \in t_os'[t] : ~Flushing(t)' => x \in t_os[t] /\ ~Flushing(t)
    BY <2>1, <2>2 DEF Flushing
  <2> QED
    BY <2>1, <2>3, <2>4, FreshKept
<1>2. ASSUME NEW w \in Worker, EmptyPush(w) PROVE OnePlace'
  <2>1. /\ UNCHANGED <<net, delivered, pkt, ig, o, pc, ht>>
        /\ \A t \in Table : t_os'[t] \subseteq t_os[t]
    BY <1>2 DEF EmptyPush, wvars, Inv, TypeOK
  <2>2. \A v \in Worker : Carries(v)' => Carries(v) /\ o'[v] = o[v]
    BY <2>1 DEF Carries
  <2>3. \A t \in Table : \A x \in t_os'[t] : ~Flushing(t)' => x \in t_os[t] /\ ~Flushing(t)
    BY <2>1 DEF Flushing
  <2> QED
    BY <2>1, <2>2, <2>3, FreshKept
<1>3. ASSUME NEW w \in Worker, Flushed(w) PROVE OnePlace'
  <2>1. /\ UNCHANGED <<net, delivered, pkt, ig, o, ht, t_os>> /\ t_os[ht[w]] = {}
        /\ \A v \in Worker : v # w => pc'[v] = pc[v]
        /\ pc[w] = "flush" /\ pc'[w] \in {"nogroup", "count"}
    BY <1>3 DEF Flushed, Goto, Inv, TypeOK
  <2>2. \A v \in Worker : Carries(v)' => Carries(v) /\ o'[v] = o[v]
    BY <2>1 DEF Carries
  <2>3. \A t \in Table : \A x \in t_os'[t] : ~Flushing(t)' => x \in t_os[t] /\ ~Flushing(t)
    BY <2>1 DEF Flushing
  <2> QED
    BY <2>1, <2>2, <2>3, FreshKept
<1>4. CASE UNCHANGED vars
  BY <1>4 DEF vars, wvars, tvars, OnePlace, Apart, Nowhere, InObject, InGroup, InDelivered,
              Fresh, Carries, Flushing
<1> QED
  BY <1>1, <1>2, <1>3, <1>4, PopPlaces, RecvPlaces, AddPlaces, ProcessPlaces, CallbackPlaces
  DEF Next, Step

LEMMA DeliveryAlways == MaxCopies <= 1 /\ Spec => []DeliveryInv
<1>1. Inv /\ DeliveryInv /\ [Next]_vars => DeliveryInv'
  BY GroupStep, OnePlaceStep DEF DeliveryInv
<1> QED
  BY <1>1, DeliveryInit, InvAlways, PTL DEF Spec

\* On a network that loses and reorders datagrams but repeats none, the server
\* hands no heap to the callbacks twice, whichever workers have its packets:
\* the table is emptied in the section that made the item group.
THEOREM OnceOnly == MaxCopies <= 1 /\ Spec => []DeliveredOnce
<1>1. DeliveryInv => DeliveredOnce
  <2> SUFFICES ASSUME DeliveryInv, NEW j \in DOMAIN delivered, NEW k \in DOMAIN delivered,
                      NEW h \in Heaps, IsWhole(delivered[j], h), IsWhole(delivered[k], h)
               PROVE  j = k
    BY DEF DeliveredOnce
  <2>1. PICK d \in Spead : d.heap = h
    BY DEF Heaps, Spead
  <2>2. d \in HeapPackets(h)
    BY <2>1 DEF HeapPackets, Spead
  <2>3. InDelivered(d, j) /\ InDelivered(d, k)
    BY <2>2 DEF IsWhole, InDelivered
  <2> QED
    BY <2>3 DEF DeliveryInv, OnePlace, Apart
<1> QED
  BY <1>1, DeliveryAlways, PTL

-----------------------------------------------------------------------------

\* What is carried or chained came as a datagram, and only packets that have a
\* bucket are chained.
FromNet ==
  /\ \A w \in Worker : Carries(w) => pkt[o[w]] \in Datagram
  /\ \A t \in Table : \A x \in t_os[t] :
       pkt[x] \in Datagram /\ Bucket(pkt[x]) < TableLen

LEMMA FromNetStep == Inv /\ FromNet /\ [Next]_vars => FromNet'
<1> SUFFICES ASSUME Inv, FromNet, [Next]_vars PROVE FromNet'
  OBVIOUS
<1> USE DEF Inv, TypeOK, Carries, Goto, wvars, tvars
<1>1. \A t \in Table : \A x \in t_os[t] : pkt'[x] = pkt[x]
  BY PacketsKept
<1>2. ASSUME NEW w \in Worker, Pop(w) \/ Recv(w) PROVE FromNet'
  <2>1. UNCHANGED t_os /\ ~Carries(w) /\ pc[w] \in {"pop", "recv"}
    BY <1>2 DEF Pop, Recv
  <2>2. ASSUME NEW v \in Worker, v # w, Carries(v)
        PROVE  o'[v] = o[v] /\ pkt'[o[v]] = pkt[o[v]]
    BY <1>2, <2>2 DEF Pop, Recv, Owns, ObjectsConserved, OwnedPrivately
  <2>3. Carries(w)' => pkt'[o'[w]] \in Datagram
    <3>1. CASE Pop(w)
      BY <3>1 DEF Pop
    <3>2. CASE Recv(w)
      <4>1. o[w] \in Object
        BY <3>2, OwnedObject DEF Recv, Owns
      <4> QED
        BY <3>2, <4>1 DEF Recv
    <3> QED
      BY <1>2, <3>1, <3>2
  <2>4. \A v \in Worker : v # w => (Carries(v)' <=> Carries(v))
    BY <1>2 DEF Pop, Recv
  <2> QED
    BY <1>1, <2>1, <2>2, <2>3, <2>4, ZenonT(40) DEF FromNet, Bucket, Table
<1>3. ASSUME NEW w \in Worker,
             Signal(w) \/ PushBack(w) \/ Unpack(w) \/ GetTable(w) \/ EmptyPush(w)
               \/ Evicted(w) \/ Add(w) \/ ProcessItems(w) \/ Flushed(w) \/ NoItems(w)
               \/ Count(w) \/ Callback(w) \/ Account(w)
      PROVE  FromNet'
  <2>1. UNCHANGED <<o, pkt>>
    BY <1>3 DEF Signal, PushBack, Unpack, GetTable, EmptyPush, Evicted, Add,
                ProcessItems, Flushed, NoItems, Count, Callback, Account
  <2>2. \A v \in Worker : Carries(v)' => Carries(v)
    BY <1>3 DEF Signal, PushBack, Unpack, GetTable, EmptyPush, Evicted, Add,
                ProcessItems, Flushed, NoItems, Count, Callback, Account
  <2>3. CASE Add(w)
    <3>1. \A t \in Table : t_os'[t] = t_os[t]
            \/ (t_os'[t] = t_os[t] \cup {o[w]} /\ Bucket(pkt[o[w]]) < TableLen)
      BY <2>3 DEF Add
    <3>2. pkt[o[w]] \in Datagram
      BY <2>3 DEF Add, FromNet
    <3>3. \A t \in Table : \A x \in t_os'[t] :
            pkt[x] \in Datagram /\ Bucket(pkt[x]) < TableLen
      BY <3>1, <3>2 DEF FromNet
    <3>4. \A v \in Worker : Carries(v)' => pkt'[o'[v]] \in Datagram
      BY <2>1, <2>2 DEF FromNet
    <3> HIDE DEF Inv, TypeOK
    <3> QED
      BY <2>1, <3>3, <3>4 DEF FromNet, Bucket, Table
  <2>4. CASE ~Add(w)
    <3>1. \A t \in Table : t_os'[t] \subseteq t_os[t]
      BY <1>3, <2>4 DEF Signal, PushBack, Unpack, GetTable, EmptyPush, Evicted,
                ProcessItems, Flushed, NoItems, Count, Callback, Account
    <3> QED
      BY <2>1, <2>2, <3>1 DEF FromNet, Bucket, Table
  <2> QED
    BY <2>3, <2>4
<1>4. CASE UNCHANGED vars
  BY <1>4 DEF vars, FromNet, Bucket, Table
<1> QED
  BY <1>2, <1>3, <1>4 DEF Next, Step

\* The table that is turned into an item group counts as many bytes as the
\* heap of one of its packets has.
CountedOut ==
  \A w \in Worker : pc[w] = "process" =>
    \E x \in t_os[ht[w]] : t_data_count[ht[w]] = pkt[x].hlen

LEMMA CountedOutStep == Inv /\ CountedOut /\ [Next]_vars => CountedOut'
<1> SUFFICES ASSUME Inv, CountedOut, [Next]_vars, NEW w \in Worker, pc'[w] = "process"
             PROVE  \E x \in t_os'[ht'[w]] : t_data_count'[ht'[w]] = pkt'[x].hlen
  BY DEF CountedOut
<1> USE DEF Inv, TypeOK, Goto, wvars, tvars
<1>1. CASE Add(w)
  BY <1>1 DEF Add
<1>2. CASE ~Add(w)
  <2>1. pc[w] = "process" /\ ht'[w] = ht[w]
    <3>1. ASSUME NEW v \in Worker, Add(v), v # w PROVE pc'[w] = pc[w] /\ ht'[w] = ht[w]
      BY <3>1 DEF Add
    <3>2. ASSUME NEW v \in Worker,
                 Pop(v) \/ Recv(v) \/ Signal(v) \/ PushBack(v) \/ Unpack(v) \/ GetTable(v)
                   \/ EmptyPush(v)
          PROVE  pc'[w] = "process" => pc[w] = "process" /\ ht'[w] = ht[w]
      BY <3>2 DEF Pop, Recv, Signal, PushBack, Unpack, GetTable, EmptyPush
    <3>3. ASSUME NEW v \in Worker,
                 Evicted(v) \/ ProcessItems(v) \/ Flushed(v) \/ NoItems(v) \/ Count(v)
                   \/ Callback(v) \/ Account(v)
          PROVE  pc'[w] = "process" => pc[w] = "process" /\ ht'[w] = ht[w]
      BY <3>3 DEF Evicted, ProcessItems, Flushed, NoItems, Count, Callback, Account
    <3> HIDE DEF Inv, TypeOK
    <3> QED
      BY <1>2, <3>1, <3>2, <3>3 DEF Next, Step, vars
  <2>2. \A v \in Worker : v # w /\ Inside(v) => ht[v] # ht[w]
    BY <2>1 DEF LocksMatchSections, Inside
  <2>3. t_os'[ht[w]] = t_os[ht[w]] /\ t_data_count'[ht[w]] = t_data_count[ht[w]]
    <3>1. ASSUME NEW v \in Worker, EmptyPush(v) \/ Evicted(v) \/ Flushed(v) \/ Add(v)
          PROVE  t_os'[ht[w]] = t_os[ht[w]] /\ t_data_count'[ht[w]] = t_data_count[ht[w]]
      <4>1. ht[v] # ht[w]
        BY <1>2, <2>1, <2>2, <3>1 DEF EmptyPush, Evicted, Flushed, Add, Inside
      <4> QED
        BY <3>1, <4>1 DEF EmptyPush, Evicted, Flushed, Add, Reset
    <3>2. ASSUME UNCHANGED <<t_os, t_data_count>>
          PROVE  t_os'[ht[w]] = t_os[ht[w]] /\ t_data_count'[ht[w]] = t_data_count[ht[w]]
      BY <3>2
    <3> QED
      BY <3>1, <3>2 DEF Next, Step, Pop, Recv, Signal, PushBack, Unpack, GetTable,
                        ProcessItems, NoItems, Count, Callback, Account, vars
  <2>4. \A x \in t_os[ht[w]] : pkt'[x] = pkt[x]
    BY PacketsKept
  <2> QED
    BY <2>1, <2>3, <2>4 DEF CountedOut
<1> QED
  BY <1>1, <1>2

-----------------------------------------------------------------------------

\* In orderly traffic, the packets of a table that counts as many bytes as
\* their heap are that heap, each once.
LEMMA WholeTable ==
  ASSUME Orderly, Inv, TableInv, OnePlace, FromNet, CountedOut,
         NEW w \in Worker, pc[w] = "process"
  PROVE  \E h \in Heaps : IsWhole([x \in t_os[ht[w]] |-> pkt[x]], h)
<1>1. PICK t \in Table : t = ht[w]
  BY DEF Inv, TypeOK
<1>2. PICK xs \in SUBSET Object : xs = t_os[t]
  BY DEF Inv, TypeOK
<1>3. PICK g : g = [x \in xs |-> pkt[x]]
  OBVIOUS
<1>4. PICK x0 \in xs : t_data_count[t] = pkt[x0].hlen
  BY <1>1, <1>2 DEF CountedOut
<1>5. PICK h : h = pkt[x0].heap
  OBVIOUS
<1>6. \A x \in xs : g[x] = pkt[x] /\ g[x] \in HeapPackets(h)
  <2>1. \A x \in xs : /\ pkt[x] \in Datagram /\ Bucket(pkt[x]) < TableLen
                      /\ pkt[x].kind = "spead" /\ HashHeap(pkt[x].heap) = t
    BY <1>2 DEF FromNet, TableInv, TableRight
  <2> QED
    BY <1>3, <1>4, <1>5, <2>1 DEF Orderly, HeapPackets
<1>7. h \in Heaps
  BY <1>4, <1>5, <1>6 DEF HeapPackets, Heaps
<1>8. \A x, y \in xs : g[x] = g[y] => x = y
  <2>1. ~Flushing(t)
    BY <1>1 DEF Flushing, Inv, TypeOK, LocksMatchSections, Inside
  <2>2. \A x \in xs : x \in Object /\ g[x] \in Spead /\ InObject(g[x], x)
    BY <1>2, <1>6, <2>1 DEF InObject, Fresh, Spead, HeapPackets
  <2> QED
    BY <2>2 DEF OnePlace, Apart
<1> DEFINE P == {g[x] : x \in xs}
           PB == UNION {{d} \X (1 .. d.len) : d \in P}
<1>9. IsFiniteSet(HeapBytes(h)) /\ IsFiniteSet(HeapPackets(h))
  <2>1. IsFiniteSet(HeapPackets(h))
    BY FS_Subset DEF Orderly, HeapPackets
  <2> DEFINE S == {{d} \X (1 .. d.len) : d \in HeapPackets(h)}
  <2>2. IsFiniteSet(S)
    <3> DEFINE f == [d \in HeapPackets(h) |-> {d} \X (1 .. d.len)]
    <3>1. f \in Surjection(HeapPackets(h), S)
      BY DEF Surjection
    <3> HIDE DEF f, S
    <3> QED
      BY <2>1, <3>1, FS_Surjection
  <2>3. ASSUME NEW d \in HeapPackets(h) PROVE IsFiniteSet({d} \X (1 .. d.len))
    <3>1. PICK n \in Nat : n = d.len
      BY ReceiverAssumption DEF HeapPackets, Content
    <3>2. IsFiniteSet({d})
      BY FS_Singleton
    <3>3. IsFiniteSet(1 .. n)
      BY FS_Interval
    <3> QED
      BY <3>1, <3>2, <3>3, FS_Product
  <2>4. \A T \in S : IsFiniteSet(T)
    BY <2>3
  <2> HIDE DEF S
  <2>5. IsFiniteSet(UNION S)
    BY <2>2, <2>4, FS_UNION
  <2> QED
    BY <2>1, <2>5 DEF HeapBytes, S
<1>10. IsFiniteSet(Bytes(t)) /\ Cardinality(Bytes(t)) = pkt[x0].hlen
  <2>1. ~Emptying(t)
    BY <1>1 DEF Emptying, Inv, TypeOK, LocksMatchSections, Inside
  <2> QED
    BY <1>4, <2>1 DEF TableInv, TableRight
<1>11. Cardinality(HeapBytes(h)) = pkt[x0].hlen
  BY <1>4, <1>5, <1>6 DEF Orderly, HeapPackets
<1>12. IsFiniteSet(PB) /\ Cardinality(PB) = Cardinality(Bytes(t))
  <2> DEFINE f == [c \in Bytes(t) |-> <<g[c[1]], c[2]>>]
  <2>1. \A c \in Bytes(t) : c[1] \in xs /\ c[2] \in 1 .. g[c[1]].len /\ c = <<c[1], c[2]>>
    BY <1>2, <1>6, InBytes
  <2>2. \A x \in xs : \A k : k \in 1 .. g[x].len => <<x, k>> \in Bytes(t)
    BY <1>2, <1>6, InBytes
  <2>3. f \in [Bytes(t) -> PB]
    BY <2>1
  <2>4. f \in Injection(Bytes(t), PB)
    BY <1>8, <2>1, <2>3 DEF Injection, IsInjective
  <2>5. f \in Surjection(Bytes(t), PB)
    <3>1. ASSUME NEW p \in PB PROVE \E c \in Bytes(t) : f[c] = p
      <4>1. PICK x \in xs : \E k \in 1 .. g[x].len : p = <<g[x], k>>
        OBVIOUS
      <4>2. PICK k \in 1 .. g[x].len : p = <<g[x], k>>
        BY <4>1
      <4>3. <<x, k>> \in Bytes(t) /\ f[<<x, k>>] = p
        BY <2>2, <4>2
      <4> QED
        BY <4>3
    <3> QED
      BY <2>3, <3>1 DEF Surjection
  <2> HIDE DEF PB, f
  <2> QED
    BY <1>10, <2>4, <2>5, FS_Bijection DEF ExistsBijection, Bijection
<1>13. PB = HeapBytes(h)
  <2>1. PB \in SUBSET HeapBytes(h)
    BY <1>6 DEF HeapBytes
  <2> HIDE DEF PB
  <2> QED
    BY <1>9, <1>10, <1>11, <1>12, <2>1, FS_Subset
<1>14. P = HeapPackets(h)
  <2>1. P \subseteq HeapPackets(h) /\ g[x0] \in P
    BY <1>4, <1>6
  <2>2. ASSUME NEW d \in HeapPackets(h), d \notin P PROVE FALSE
    <3>1. d.len > 0 /\ d.len \in Nat
      BY <2>1, <2>2, ReceiverAssumption DEF Orderly, HeapPackets, Content
    <3>2. <<d, 1>> \in HeapBytes(h)
      BY <3>1 DEF HeapBytes
    <3>3. <<d, 1>> \in PB
      BY <1>13, <3>2
    <3> QED
      BY <2>2, <3>3
  <2> QED
    BY <2>1, <2>2
<1>15. Cardinality(xs) = Cardinality(HeapPackets(h))
  <2>1. g \in [xs -> HeapPackets(h)]
    BY <1>3, <1>6
  <2>2. g \in Injection(xs, HeapPackets(h)) /\ g \in Surjection(xs, HeapPackets(h))
    BY <1>8, <1>14, <2>1 DEF Injection, IsInjective, Surjection
  <2>3. IsFiniteSet(xs) /\ Cardinality(xs) <= Cardinality(HeapPackets(h))
        /\ (Cardinality(xs) = Cardinality(HeapPackets(h))
              <=> g \in Surjection(xs, HeapPackets(h)))
    BY <1>9, <2>2, FS_Injection
  <2> QED
    BY <2>2, <2>3
<1>16. IsWhole(g, h)
  <2>1. DOMAIN g = xs
    BY <1>3
  <2> QED
    BY <1>14, <1>15, <2>1 DEF IsWhole
<1> QED
  BY <1>1, <1>2, <1>3, <1>7, <1>16

\* Item groups on their way to the callbacks, and those that got there.
GroupsWhole ==
  /\ \A w \in Worker :
       /\ ig[w] = NoGroup \/ \E h \in Heaps : IsWhole(ig[w], h)
       /\ pc[w] \in {"count", "callback"} => ig[w] # NoGroup
  /\ DeliveredWhole

Whole(g) == \E h \in Heaps : IsWhole(g, h)

\* What a step has to give.
LEMMA GroupsWholeNext ==
  ASSUME \A w \in Worker : ig'[w] = NoGroup \/ Whole(ig'[w]),
         \A w \in Worker : pc'[w] \in {"count", "callback"} => ig'[w] # NoGroup,
         \A k \in DOMAIN delivered' : Whole(delivered'[k])
  PROVE  GroupsWhole'
<1>1. \A w \in Worker : (ig[w] = NoGroup \/ \E h \in Heaps : IsWhole(ig[w], h))'
  BY DEF Whole, IsWhole, HeapPackets, Heaps, NoGroup, Blank
<1>2. \A w \in Worker : (pc[w] \in {"count", "callback"} => ig[w] # NoGroup)'
  BY DEF NoGroup, Blank
<1>3. DeliveredWhole'
  BY DEF DeliveredWhole, Whole, IsWhole, HeapPackets, Heaps
<1> QED
  BY <1>1, <1>2, <1>3 DEF GroupsWhole

LEMMA GroupsWholeStep ==
  Orderly /\ Inv /\ TableInv /\ GroupType /\ OnePlace /\ FromNet /\ CountedOut
    /\ GroupsWhole /\ [Next]_vars => GroupsWhole'
<1> SUFFICES ASSUME Orderly, Inv, TableInv, GroupType, OnePlace, FromNet, CountedOut,
                    GroupsWhole, [Next]_vars
             PROVE  GroupsWhole'
  OBVIOUS
<1>1. /\ \A w \in Worker : ig[w] = NoGroup \/ Whole(ig[w])
      /\ \A w \in Worker : pc[w] \in {"count", "callback"} => ig[w] # NoGroup
      /\ \A k \in DOMAIN delivered : Whole(delivered[k])
  BY DEF GroupsWhole, DeliveredWhole, Whole
<1>2. ASSUME NEW w \in Worker,
             Pop(w) \/ Recv(w) \/ Signal(w) \/ PushBack(w) \/ Unpack(w) \/ GetTable(w)
               \/ EmptyPush(w) \/ Evicted(w) \/ Add(w) \/ Flushed(w) \/ NoItems(w)
               \/ Count(w) \/ Account(w)
      PROVE  GroupsWhole'
  <2>1. UNCHANGED delivered
    BY <1>2 DEF Pop, Recv, Signal, PushBack, Unpack, GetTable, EmptyPush, Evicted, Add,
                Flushed, NoItems, Count, Account, wvars
  <2>2. UNCHANGED ig
    BY <1>2 DEF Pop, Recv, Signal, PushBack, Unpack, GetTable, EmptyPush, Evicted, Add,
                Flushed, NoItems, Count, Account, wvars
  <2>3. \A v \in Worker :
          pc'[v] \in {"count", "callback"}
            => pc[v] \in {"count", "callback"} \/ ig[v] # NoGroup
    BY <1>2 DEF Pop, Recv, Signal, PushBack, Unpack, GetTable, EmptyPush, Evicted, Add,
                Flushed, NoItems, Count, Account, wvars, Goto, Inv, TypeOK
  <2> HIDE DEF Inv
  <2> QED
    BY <1>1, <2>1, <2>2, <2>3, GroupsWholeNext
<1>3. ASSUME NEW w \in Worker, ProcessItems(w) PROVE GroupsWhole'
  <2>1. ig'[w] = NoGroup \/ Whole(ig'[w])
    <3>1. ig'[w] = NoGroup \/ ig'[w] = [x \in t_os[ht[w]] |-> pkt[x]]
      BY <1>3 DEF ProcessItems, GroupType
    <3>2. Whole([x \in t_os[ht[w]] |-> pkt[x]])
      BY <1>3, WholeTable DEF ProcessItems, Whole
    <3> QED
      BY <3>1, <3>2
  <2>2. /\ delivered' = delivered
        /\ \A v \in Worker : v # w => ig'[v] = ig[v] /\ pc'[v] = pc[v]
        /\ pc'[w] = "flush"
    BY <1>3 DEF ProcessItems, GroupType, Goto, Inv, TypeOK
  <2> QED
    BY <1>1, <2>1, <2>2, GroupsWholeNext
<1>4. ASSUME NEW w \in Worker, Callback(w) PROVE GroupsWhole'
  <2>1. /\ pc[w] = "callback" /\ pc'[w] = "account" /\ ig'[w] = NoGroup
        /\ \A v \in Worker : v # w => ig'[v] = ig[v] /\ pc'[v] = pc[v]
    BY <1>4 DEF Callback, GroupType, Goto, Inv, TypeOK
  <2>2. Whole(ig[w])
    BY <1>1, <2>1
  <2>3. \A k \in DOMAIN delivered' : Whole(delivered'[k])
    <3>1. CASE delivered' = delivered
      BY <1>1, <3>1
    <3>2. CASE delivered' = Append(delivered, ig[w])
      <4>1. \A k \in DOMAIN delivered' :
              delivered'[k] = ig[w] \/ (k \in DOMAIN delivered /\ delivered'[k] = delivered[k])
        BY <3>2 DEF GroupType
      <4> QED
        BY <1>1, <2>2, <4>1
    <3> QED
      BY <1>4, <3>1, <3>2 DEF Callback
  <2> QED
    BY <1>1, <2>1, <2>3, GroupsWholeNext
<1>5. CASE UNCHANGED vars
  <2>1. UNCHANGED <<ig, pc, delivered>>
    BY <1>5 DEF vars, wvars
  <2> QED
    BY <1>1, <2>1, GroupsWholeNext
<1> QED
  BY <1>2, <1>3, <1>4, <1>5 DEF Next, Step

LEMMA WholeInit == Init => FromNet /\ CountedOut /\ GroupsWhole
<1> SUFFICES ASSUME Init PROVE FromNet /\ CountedOut /\ GroupsWhole
  OBVIOUS
<1>1. FromNet /\ CountedOut
  BY DEF Init, FromNet, CountedOut, Carries
<1>2. DOMAIN delivered = {}
  BY DEF Init
<1>3. GroupsWhole
  BY <1>2 DEF Init, GroupsWhole, DeliveredWhole
<1> QED
  BY <1>1, <1>3

\* In orderly traffic, losses, reordering, junk and clashing packets that no
\* bucket takes included, what store_packet_hs hands to the callbacks is a
\* whole heap, every packet of it once, whichever workers received them.
THEOREM HeapsWhole == ASSUME Orderly PROVE Spec => []DeliveredWhole
<1>1. MaxCopies <= 1
  BY DEF Orderly
<1>2. Spec => []DeliveryInv
  BY <1>1, DeliveryAlways
<1>3. Inv /\ TableInv /\ DeliveryInv /\ FromNet /\ CountedOut /\ GroupsWhole
        /\ [Next]_vars => (FromNet /\ CountedOut /\ GroupsWhole)'
  BY FromNetStep, CountedOutStep, GroupsWholeStep DEF DeliveryInv
<1>4. GroupsWhole => DeliveredWhole
  BY DEF GroupsWhole
<1> QED
  BY <1>2, <1>3, <1>4, WholeInit, InvAlways, TableAlways, PTL DEF Spec
=============================================================================
