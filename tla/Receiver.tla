------------------------------ MODULE Receiver ------------------------------
(***************************************************************************)
(* The receive path of the server: the worker processes of                 *)
(* worker_task_us (src/src/server.c), the heap store they share            *)
(* (src/src/spead.c) and the object bank and hash tables behind it         *)
(* (src/src/hash.c).  A worker pops an object from the bank, receives a    *)
(* datagram into it, adds it to the hash table of its heap, and when the   *)
(* table's byte count reaches the heap length turns the table into an item *)
(* group, returns the table's objects to the bank and runs the callbacks.  *)
(*                                                                         *)
(* Steps.  A critical section that takes one lock and only touches what    *)
(* that lock protects is one step (module Mutex implements the abstract    *)
(* lock): pop_hash_o and push_hash_o under l_m, each counter update under  *)
(* s_m.  The section under a table's t_m contains sections under l_m and   *)
(* s_m, so it is split: other workers pop and push between its steps.      *)
(*                                                                         *)
(* Data.  A datagram is a record with what the control flow looks at: the  *)
(* heap fields, the number of data items, two flags, and whether it is a   *)
(* SPEAD packet at all.  The order of a table's objects does not matter    *)
(* here, so the bank and the tables are sets.  s_bc and t_items, which are *)
(* counted and only ever printed, are left out, and so are failing         *)
(* memory allocations.                                                     *)
(***************************************************************************)
EXTENDS Integers, Sequences, FiniteSets

CONSTANTS Worker,     \* the forked children
          Object,     \* the objects of the bank, hashes * hashsize of them
          Backlog,    \* number of hash tables, s_backlog
          TableLen,   \* buckets of a hash table, t_len
          Datagram,   \* the datagrams a run may bring
          MaxCopies,  \* how often the network may deliver each datagram
          Signals,    \* whether SIGINT and SIGTERM may reach a worker
          None        \* no worker, no object

\* What bzero leaves in a packet.
Blank == [kind |-> "blank", heap |-> 0, hlen |-> 0, off |-> 0, len |-> 0,
          items |-> 0, term |-> FALSE, desc |-> FALSE]

Content == [kind : {"spead", "junk", "empty", "blank"},
            heap : Nat, hlen : Nat, off : Nat, len : Nat, items : Nat,
            term : BOOLEAN, desc : BOOLEAN]

ASSUME ReceiverAssumption ==
  /\ Backlog \in Nat \ {0}
  /\ TableLen \in Nat \ {0}
  /\ MaxCopies \in Nat
  /\ Signals \in BOOLEAN
  /\ Datagram \subseteq Content
  /\ None \notin Worker \cup Object

Table == 0 .. Backlog - 1

VARIABLES net,           \* deliveries left of each datagram
          bank,          \* s_list: the free objects
          pkt,           \* what each object's packet holds
          pc, run,       \* of each worker: where it stands, its flag run
          o, ht,         \* of each worker: its pointers o and ht
          ig,            \* of each worker: the packets in its item group
          t_os,          \* of each table: the objects chained in it
          t_data_id, t_data_count, t_processing,
          t_m,           \* of each table: the holder of its lock
          s_hpcount, s_hdcount, s_pc,
          delivered      \* history: the item groups given to the callbacks

wvars == <<pc, run, o, ht, ig>>
tvars == <<t_os, t_data_id, t_data_count, t_processing, t_m>>
svars == <<s_hpcount, s_hdcount, s_pc>>
vars == <<net, bank, pkt, wvars, tvars, svars, delivered>>

NoGroup == [x \in {} |-> Blank]

Init ==
  /\ net = [d \in Datagram |-> MaxCopies]
  /\ bank = Object
  /\ pkt = [x \in Object |-> Blank]
  /\ pc = [w \in Worker |-> "pop"]
  /\ run = [w \in Worker |-> TRUE]
  /\ o = [w \in Worker |-> None]
  /\ ht = [w \in Worker |-> 0]
  /\ ig = [w \in Worker |-> NoGroup]
  /\ t_os = [t \in Table |-> {}]
  /\ t_data_id = [t \in Table |-> -1]
  /\ t_data_count = [t \in Table |-> 0]
  /\ t_processing = [t \in Table |-> FALSE]
  /\ t_m = [t \in Table |-> None]
  /\ s_hpcount = 0 /\ s_hdcount = 0 /\ s_pc = 0
  /\ delivered = <<>>

Goto(w, l) == pc' = [pc EXCEPT ![w] = l]

\* hash_heap_hs
HashHeap(hid) == hid % Backlog

\* hash_fn_spead_packet, in exact arithmetic.
Bucket(p) ==
  IF p.hlen = 0 \/ TableLen = 1 THEN 0 ELSE (p.off * (TableLen - 1)) \div p.hlen

(***************************************************************************)
(* worker_task_us, up to the packet                                        *)
(***************************************************************************)

\* The head of the loop: leave it when run is 0 or the bank is empty,
\* otherwise pop_hash_o and bzero.
Pop(w) ==
  /\ pc[w] = "pop"
  /\ \/ /\ ~run[w] \/ bank = {}
        /\ run' = [run EXCEPT ![w] = FALSE]
        /\ Goto(w, "done")
        /\ UNCHANGED <<bank, pkt, o>>
     \/ /\ run[w]
        /\ \E x \in bank :
             /\ bank' = bank \ {x}
             /\ o' = [o EXCEPT ![w] = x]
             /\ pkt' = [pkt EXCEPT ![x] = Blank]
        /\ Goto(w, "recv")
        /\ UNCHANGED run
  /\ UNCHANGED <<net, ht, ig, tvars, svars, delivered>>

\* recvfrom returns a datagram.
Recv(w) ==
  /\ pc[w] = "recv"
  /\ \E d \in Datagram :
       /\ net[d] > 0
       /\ net' = [net EXCEPT ![d] = @ - 1]
       /\ pkt' = [pkt EXCEPT ![o[w]] = d]
       /\ Goto(w, IF d.kind = "empty" THEN "unused" ELSE "unpack")
  /\ UNCHANGED <<bank, run, o, ht, ig, tvars, svars, delivered>>

\* handle_us.  A worker inside recvfrom gets EINTR; one that has not entered
\* it yet does not notice.
Signal(w) ==
  /\ Signals /\ run[w] /\ pc[w] \notin {"done", "dead"}
  /\ run' = [run EXCEPT ![w] = FALSE]
  /\ \/ UNCHANGED pc
     \/ pc[w] = "recv" /\ Goto(w, "unused")
  /\ UNCHANGED <<net, bank, pkt, o, ht, ig, tvars, svars, delivered>>

\* Mutant: the error return of worker_task_us forgets the object.
PushBackUnlessRejected(w) ==
  /\ pc[w] \in {"unused", "reject"}
  /\ bank' = IF pc[w] = "unused" THEN bank \cup {o[w]} ELSE bank
  /\ Goto(w, IF pc[w] = "unused" THEN "pop" ELSE "dead")
  /\ UNCHANGED <<net, pkt, run, o, ht, ig, tvars, svars, delivered>>

\* push_hash_o of the worker's own object, then the loop ("unused": nread
\* was not positive) or the return of -1 ("reject").
PushBack(w) ==
  /\ pc[w] \in {"unused", "reject"}
  /\ bank' = bank \cup {o[w]}
  /\ Goto(w, IF pc[w] = "unused" THEN "pop" ELSE "dead")
  /\ UNCHANGED <<net, pkt, run, o, ht, ig, tvars, svars, delivered>>

\* process_packet_hs: spead_packet_unpack_header and _items.
Unpack(w) ==
  /\ pc[w] = "unpack"
  /\ Goto(w, IF pkt[o[w]].kind = "spead" THEN "lock" ELSE "reject")
  /\ UNCHANGED <<net, bank, pkt, run, o, ht, ig, tvars, svars, delivered>>

(***************************************************************************)
(* store_packet_hs                                                         *)
(***************************************************************************)

\* get_ht_hs: take the lock; a free table is claimed, a table of another
\* heap is emptied first.
GetTable(w) ==
  LET hid == pkt[o[w]].heap
      t   == HashHeap(hid)
  IN /\ pc[w] = "lock"
     /\ t_m[t] = None
     /\ t_m' = [t_m EXCEPT ![t] = w]
     /\ ht' = [ht EXCEPT ![w] = t]
     /\ t_data_id' = [t_data_id EXCEPT ![t] = IF @ < 0 THEN hid ELSE @]
     /\ Goto(w, IF t_data_id'[t] = hid THEN "add" ELSE "evict")
     /\ UNCHANGED <<net, bank, pkt, run, o, ig, t_os, t_data_count,
                    t_processing, svars, delivered>>

\* empty_hash_table: one push_hash_o of its loops.
EmptyPush(w) ==
  /\ pc[w] \in {"evict", "flush"}
  /\ \E x \in t_os[ht[w]] :
       /\ bank' = bank \cup {x}
       /\ t_os' = [t_os EXCEPT ![ht[w]] = @ \ {x}]
  /\ UNCHANGED <<net, pkt, wvars, t_data_id, t_data_count, t_processing, t_m,
                 svars, delivered>>

\* Mutant of the end of empty_hash_table: the byte count is kept.
ResetKeepsCount(t) ==
  /\ t_data_id' = [t_data_id EXCEPT ![t] = -1]
  /\ t_processing' = [t_processing EXCEPT ![t] = FALSE]
  /\ UNCHANGED t_data_count

\* empty_hash_table: what follows the loops.
Reset(t) ==
  /\ t_data_count' = [t_data_count EXCEPT ![t] = 0]
  /\ t_data_id' = [t_data_id EXCEPT ![t] = -1]
  /\ t_processing' = [t_processing EXCEPT ![t] = FALSE]

\* Mutant: the table is cleared before all its objects are back in the bank.
EvictedTooSoon(w) ==
  /\ pc[w] = "evict"
  /\ t_os' = [t_os EXCEPT ![ht[w]] = {}]
  /\ Reset(ht[w])
  /\ s_hdcount' = s_hdcount + 1
  /\ Goto(w, "add")
  /\ UNCHANGED <<net, bank, pkt, run, o, ht, ig, t_m, s_hpcount, s_pc, delivered>>

\* The end of empty_hash_table in get_ht_hs, then s_hdcount.
Evicted(w) ==
  /\ pc[w] = "evict"
  /\ t_os[ht[w]] = {}
  /\ Reset(ht[w])
  /\ s_hdcount' = s_hdcount + 1
  /\ Goto(w, "add")
  /\ UNCHANGED <<net, bank, pkt, run, o, ht, ig, t_os, t_m, s_hpcount, s_pc,
                 delivered>>

\* Mutants of the next action: the lock is not released; completion is tested
\* one byte early; completion is tested before the packet is counted.
AddWith(w, complete, release) ==
  LET p == pkt[o[w]]
      t == ht[w]
  IN /\ pc[w] = "add"
     /\ Goto(w, IF Bucket(p) >= TableLen THEN "reject"
                ELSE IF complete THEN "process" ELSE "account")
     /\ t_m' = [t_m EXCEPT ![t] = IF release /\ pc'[w] # "process" THEN None ELSE @]
     /\ t_processing' = [t_processing EXCEPT ![t] = pc'[w] = "process"]
     /\ t_os' = [t_os EXCEPT ![t] = IF pc'[w] = "reject" THEN @ ELSE @ \cup {o[w]}]
     /\ t_data_count' = [t_data_count EXCEPT ![t] = IF pc'[w] = "reject" THEN @ ELSE @ + p.len]
     /\ UNCHANGED <<net, bank, pkt, run, o, ht, ig, t_data_id, svars, delivered>>

AddKeepsLock(w) ==
  AddWith(w, t_data_count[ht[w]] + pkt[o[w]].len = pkt[o[w]].hlen, FALSE)

AddCompletesEarly(w) ==
  AddWith(w, t_data_count[ht[w]] + pkt[o[w]].len + 1 >= pkt[o[w]].hlen, TRUE)

AddComparesOldCount(w) ==
  AddWith(w, t_data_count[ht[w]] = pkt[o[w]].hlen, TRUE)

\* add_o_ht and the counting; the packet that completes the byte count
\* starts the processing, any other one releases the table.
Add(w) ==
  LET p == pkt[o[w]]
      t == ht[w]
      n == t_data_count[t] + p.len
  IN /\ pc[w] = "add"
     /\ \/ /\ Bucket(p) >= TableLen
           /\ Goto(w, "reject")
           /\ t_m' = [t_m EXCEPT ![t] = None]
           /\ UNCHANGED <<t_os, t_data_count, t_processing>>
        \/ /\ Bucket(p) < TableLen
           /\ t_os' = [t_os EXCEPT ![t] = @ \cup {o[w]}]
           /\ t_data_count' = [t_data_count EXCEPT ![t] = n]
           /\ \/ /\ n = p.hlen /\ ~t_processing[t]
                 /\ t_processing' = [t_processing EXCEPT ![t] = TRUE]
                 /\ Goto(w, "process")
                 /\ UNCHANGED t_m
              \/ /\ n # p.hlen \/ t_processing[t]
                 /\ Goto(w, "account")
                 /\ t_m' = [t_m EXCEPT ![t] = None]
                 /\ UNCHANGED t_processing
     /\ UNCHANGED <<net, bank, pkt, run, o, ht, ig, t_data_id, svars, delivered>>

\* process_items: the item group, or NULL when no packet carries an item.
ProcessItems(w) ==
  LET xs == t_os[ht[w]]
  IN /\ pc[w] = "process"
     /\ ig' = [ig EXCEPT ![w] = IF \A x \in xs : pkt[x].items = 0 THEN NoGroup
                                ELSE [x \in xs |-> pkt[x]]]
     /\ Goto(w, "flush")
     /\ UNCHANGED <<net, bank, pkt, run, o, ht, tvars, svars, delivered>>

\* The end of empty_hash_table and the unlock that follows it.
Flushed(w) ==
  /\ pc[w] = "flush"
  /\ t_os[ht[w]] = {}
  /\ Reset(ht[w])
  /\ t_m' = [t_m EXCEPT ![ht[w]] = None]
  /\ Goto(w, IF ig[w] = NoGroup THEN "nogroup" ELSE "count")
  /\ UNCHANGED <<net, bank, pkt, run, o, ht, ig, t_os, svars, delivered>>

\* No item group: p->is_stream_ctrl_term is read through o, which is back in
\* the bank and may meanwhile have been popped by another worker.
NoItems(w) ==
  /\ pc[w] = "nogroup"
  /\ \/ pkt[o[w]].term /\ s_hpcount' = s_hpcount + 1 /\ UNCHANGED s_hdcount
     \/ ~pkt[o[w]].term /\ s_hdcount' = s_hdcount + 1 /\ UNCHANGED s_hpcount
  /\ Goto(w, "account")
  /\ UNCHANGED <<net, bank, pkt, run, o, ht, ig, tvars, s_pc, delivered>>

Count(w) ==
  /\ pc[w] = "count"
  /\ s_hpcount' = s_hpcount + 1
  /\ Goto(w, "callback")
  /\ UNCHANGED <<net, bank, pkt, run, o, ht, ig, tvars, s_hdcount, s_pc, delivered>>

\* Mutant: the callbacks run again on the same item group.
CallbackTwice(w) ==
  /\ pc[w] = "callback"
  /\ delivered' = delivered \o <<ig[w], ig[w]>>
  /\ ig' = [ig EXCEPT ![w] = NoGroup]
  /\ Goto(w, "account")
  /\ UNCHANGED <<net, bank, pkt, run, o, ht, tvars, svars>>

\* process_item_descriptors, which only prints, or the pipeline's callbacks;
\* then destroy_item_group.
Callback(w) ==
  /\ pc[w] = "callback"
  /\ delivered' = IF \E x \in DOMAIN ig[w] : ig[w][x].desc THEN delivered
                  ELSE Append(delivered, ig[w])
  /\ ig' = [ig EXCEPT ![w] = NoGroup]
  /\ Goto(w, "account")
  /\ UNCHANGED <<net, bank, pkt, run, o, ht, tvars, svars>>

\* worker_task_us after process_packet_hs.
Account(w) ==
  /\ pc[w] = "account"
  /\ s_pc' = s_pc + 1
  /\ Goto(w, "pop")
  /\ UNCHANGED <<net, bank, pkt, run, o, ht, ig, tvars, s_hpcount, s_hdcount,
                 delivered>>

-----------------------------------------------------------------------------

Step(w) ==
  \/ Pop(w) \/ Recv(w) \/ PushBack(w) \/ Unpack(w)
  \/ GetTable(w) \/ EmptyPush(w) \/ Evicted(w) \/ Add(w) \/ ProcessItems(w)
  \/ Flushed(w) \/ NoItems(w) \/ Count(w) \/ Callback(w) \/ Account(w)

Next == \E w \in Worker : Step(w) \/ Signal(w)

Spec == Init /\ [][Next]_vars

\* The scheduler runs every worker that can run, recvfrom returns once a
\* datagram is there, and (module Mutex) a free lock is eventually taken.
FairSpec == Spec /\ \A w \in Worker : WF_vars(Step(w))

-----------------------------------------------------------------------------

Label == {"pop", "recv", "unused", "reject", "unpack", "lock", "evict", "add",
          "process", "flush", "nogroup", "count", "callback", "account",
          "done", "dead"}

\* Every variable of the receive path keeps its type (struct hash_table,
\* struct u_server and the locals of worker_task_us).
TypeOK ==
  /\ net \in [Datagram -> Nat]
  /\ bank \subseteq Object
  /\ pkt \in [Object -> Content]
  /\ pc \in [Worker -> Label]
  /\ run \in [Worker -> BOOLEAN]
  /\ o \in [Worker -> Object \cup {None}]
  /\ ht \in [Worker -> Table]
  /\ t_os \in [Table -> SUBSET Object]
  /\ t_data_id \in [Table -> Nat \cup {-1}]
  /\ t_data_count \in [Table -> Nat]
  /\ t_processing \in [Table -> BOOLEAN]
  /\ t_m \in [Table -> Worker \cup {None}]
  /\ s_hpcount \in Nat /\ s_hdcount \in Nat /\ s_pc \in Nat

\* The worker is between pop_hash_o and the step that gives its object away.
Owns(w) == pc[w] \in {"recv", "unused", "reject", "unpack", "lock", "evict", "add"}

\* The worker is inside a table's critical section.
Inside(w) == pc[w] \in {"evict", "add", "process", "flush"}

\* A worker's object is in no other place.
OwnedPrivately ==
  \A w \in Worker : Owns(w) =>
    /\ o[w] \in Object \ bank
    /\ \A t \in Table : o[w] \notin t_os[t]
    /\ \A v \in Worker : v # w /\ Owns(v) => o[v] # o[w]

\* A chained object is in no other table and not in the bank.
ChainedOnce ==
  \A t \in Table :
    /\ t_os[t] \cap bank = {}
    /\ \A u \in Table : u # t => t_os[t] \cap t_os[u] = {}

NoneLost ==
  \A x \in Object :
    \/ x \in bank
    \/ \E t \in Table : x \in t_os[t]
    \/ \E w \in Worker : Owns(w) /\ o[w] = x

\* No object is leaked or shared: each one is in exactly one place, the bank,
\* the chains of one hash table or the hands of one worker, on every path
\* through worker_task_us, the error returns and the emptying of a table
\* included.
ObjectsConserved == OwnedPrivately /\ ChainedOnce /\ NoneLost

\* A table's lock is held exactly by the worker inside its critical section:
\* no early return of store_packet_hs or get_ht_hs keeps it, no worker
\* exits with it.
LocksMatchSections ==
  \A t \in Table, w \in Worker : t_m[t] = w <=> Inside(w) /\ ht[w] = t

\* The payload bytes of the packets chained in a table.
Bytes(t) == UNION {{x} \X (1 .. pkt[x].len) : x \in t_os[t]}

\* Whoever locks a table finds its bookkeeping in step with its chains: the
\* byte count is that of the chained packets, no processing is flagged, and
\* every packet belongs to a heap that maps to this table.
TableConsistent ==
  \A t \in Table : t_m[t] = None =>
    /\ t_data_count[t] = Cardinality(Bytes(t))
    /\ ~t_processing[t]
    /\ \A x \in t_os[t] : pkt[x].kind = "spead" /\ HashHeap(pkt[x].heap) = t

\* get_ht_hs hands out a table of one heap only ("we empty hash table and then
\* return fresh").
OneHeapPerTable ==
  \A t \in Table : \A x, y \in t_os[t] : pkt[x].heap = pkt[y].heap

\* The datagrams of a heap.
HeapPackets(h) == {d \in Datagram : d.kind = "spead" /\ d.heap = h}

IsWhole(g, h) ==
  /\ {g[x] : x \in DOMAIN g} = HeapPackets(h)
  /\ Cardinality(DOMAIN g) = Cardinality(HeapPackets(h))

Heaps == {d.heap : d \in {e \in Datagram : e.kind = "spead"}}

\* Traffic as a sender that is not mistaken sends it over a network that
\* repeats nothing: the packets of a heap carry its length between them, and
\* two heaps whose packets can be chained do not share a table.
HeapBytes(h) == UNION {{d} \X (1 .. d.len) : d \in HeapPackets(h)}

Orderly ==
  /\ MaxCopies <= 1 /\ IsFiniteSet(Datagram)
  /\ \A d \in Datagram : d.kind = "spead" =>
       /\ d.hlen = Cardinality(HeapBytes(d.heap))
       /\ d.len > 0 \/ HeapPackets(d.heap) = {d}
       /\ \A e \in Datagram :
            e.kind = "spead" /\ HashHeap(e.heap) = HashHeap(d.heap)
              /\ Bucket(d) < TableLen /\ Bucket(e) < TableLen => e.heap = d.heap

\* What reaches the callbacks of store_packet_hs is a whole heap: every packet
\* of it, each exactly once.
DeliveredWhole ==
  \A k \in DOMAIN delivered : \E h \in Heaps : IsWhole(delivered[k], h)

\* No heap reaches the callbacks twice, whichever workers receive its packets.
DeliveredOnce ==
  \A j, k \in DOMAIN delivered : \A h \in Heaps :
    IsWhole(delivered[j], h) /\ IsWhole(delivered[k], h) => j = k

\* If the network delivers everything, every heap reaches the callbacks.
EveryHeapDelivered ==
  \A h \in Heaps : <>(\E k \in DOMAIN delivered : IsWhole(delivered[k], h))
=============================================================================
