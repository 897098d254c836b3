# SPEAD receiver and transmitter: a TLA+ verification development

The repository implements SPEAD, a protocol that streams astronomy data as
heaps cut into UDP packets: `speadrx` (src/src/server.c) receives packets into
heaps and hands each heap to callback modules, `speadtx` (src/src/tx.c) cuts a
file into heaps and sends them, and `mcs` (mcs/mcs.c), a variant of the server,
receives plain UDP packets. All fork worker processes that share memory
and a futex lock of the project's own. This directory models the programs
and the library under them, model-checks the models with TLC and proves
theorems about them with TLAPS.

## 1. The system

| Component | State | Operations | Talks to |
|---|---|---|---|
| futex mutex (mutex.c) | one word: 0 free, 1 taken, 2 taken with sleepers | lock_mutex, unlock_mutex | every other component, through shared memory |
| object bank, hash tables (hash.c) | free list of packet objects; chains of objects, a lock for each | pop_hash_o, push_hash_o, add_o_ht, empty_hash_table, traversals | workers |
| heap store (spead.c) | of each table: heap id, byte count, processing flag | get_ht_hs, store_packet_hs, process_packet_hs | bank, tables, workers |
| receive worker (server.c) | run flag, the object it holds | worker_task_us | socket, store, pipeline |
| raw capture (server.c, datafile.c) | file offset, file lock | raw_spead_cap_worker, write_next_chunk_raw_data_file | socket, file |
| server (server.c) | counters, timer and child flags, tree of children | main, startup, server_run_loop, shutdown | children, pipeline |
| multi-core receiver (mcs/mcs.c) | as the server's, without a store and modules | main, run loop, two kinds of worker | children, file |
| pipeline, modules (pipeline.c, module.c, gpu/snapshot.c, gpu/writefile.c) | the loaded modules, the data they share | setup, callback, timer, destroy | receive workers, server loop |
| transmitter (tx.c) | chunk offset, heap counter, store, tree of children | main, register_speadtx, three kinds of worker | data file, tables, socket |
| data file (datafile.c) | offset, lock, descriptor or map | requests of chunks and packets, writes | workers |
| worker processes (subprocess.c) | tree of children | create/wait/destroy_spead_workers | parents of both programs |
| sockets (net.c) | mode, options, group | create, bind, connect, multicast, destroy | both programs |
| packetizing, coalescing (spead.c, itemgroup.c) | the state of one cut or one reassembly | packetize_item_group, process_items | item groups, tables |
| packet library's heap (spead_packet.c) | packets in order of offset, what is known of the heap | add_packet, got_all_packets, finalize | programs that link it |
| shared memory (sharedmem.c) | regions, a free list for each size, a tree of sizes | shared_malloc, shared_free | everything |
| AVL tree, priority queue, stack (avltree.c, queue.c, stack.c) | nodes and pointers | insertion, deletion, search, walk | allocator, subprocess.c, coalescing, pipeline |

What makes them hard: processes interleave at any instruction of shared memory;
datagrams are lost, duplicated and reordered; signals interrupt calls and end
loops; reads and writes are short or fail half way; every error path has to
give back a lock and an object; the store is sized by a formula; modules see
their shared data appear and go while others use it. The hazards are listed
with their lines in PROJECT.json.

What makes each part correct: the lock excludes and loses no wake-up; an object
of the bank has one owner at any time; what reaches a callback is one whole
heap, once; each byte of a file goes out, once unless a send fails, and the
terminator last; a
captured file is a sequence of whole datagrams; no block of shared memory
overlaps another; nothing is reported twice; a parent takes nothing away that a
child still uses; nobody waits for ever.

## 2. Modules

The models follow the build of src/src/Makefile (`-DIKATCP -DDATA`, neither
DEBUG nor DISCARD).

| Module | Models | Role |
|---|---|---|
| AbstractLock | - | what a mutex promises: one holder, acquire, release |
| Mutex | mutex.c | one action per instruction of lock_mutex and unlock_mutex |
| MutexProofs | | type, exclusion, word, wake-up, refinement |
| Receiver, MCReceiver | server.c worker_task_us; spead.c process_packet_hs, store_packet_hs, get_ht_hs; hash.c bank and tables | the receive path of the workers |
| ReceiverProofs | | type, conservation of objects, lock pairing, tables, whole heaps, none twice |
| ObjectBank | - | what the bank and the tables promise: one place for each object, chains in order |
| HashList | hash.c, pointer by pointer | the free list, the chains and their traversal, shown to implement ObjectBank |
| ContainerProofs | | HashList: lists sound, refinement of ObjectBank, walks; PriorityQueue: the oldest of the highest |
| HashChains | hash.c hash functions, add_o_ht, the order of traversal | the chains of a table as sequences |
| Server | server.c main, create/startup/destroy_server_us, server_run_loop; subprocess.c; the loading in pipeline.c and module.c | the server around its workers |
| Mcs | mcs/mcs.c | the multi-core receiver: the server's variables and steps, with its own options, tasks and report |
| ServerProofs | | children first, nothing reported twice, both for Mcs too; the captured file; shared module data; the file put together; the modules in order |
| RawCapture | server.c raw_spead_cap_worker, datafile.c write path | workers appending to one file or to the standard output |
| Modules | pipeline.c, module.c at work; gpu/snapshot.c, gpu/writefile.c | shared module data; a file put together by the children |
| MCServer | - | Server, RawCapture, Modules and Mcs in one run |
| FileSender | - | what the transmitter promises of a file: chunks done, given up, repeated, and the terminator |
| Transmit | tx.c, datafile.c (mapped file), subprocess.c, control of packetize_item_group | the file workers and the parent of speadtx |
| TransmitProofs | | type, lock pairing, no byte twice unless its send failed, parent outlives workers, conservation of objects, size of the store, refinement of FileSender |
| Sender | tx.c main, create_speadtx, register_speadtx, pattern and raw packet workers; datafile.c request_packet_raw_packet_datafile; subprocess.c | the transmitter around its workers, replays and patterns |
| StreamReader | datafile.c request_chunk_datafile, stream branch | workers sharing one pipe |
| SenderProofs | | of the stream: type, chunks aligned; of a captured file: replayed in turn; of the heap: honest |
| SpeadHeap | spead_packet.c | the heap of the packet library |
| MCSender | - | Sender, StreamReader and SpeadHeap in one run |
| Sockets | net.c, UDP | each operation as the set of its outcomes; used by Server and Sender |
| Stack | stack.c | used by Server, Modules and AvlTree |
| AvlTree | avltree.c | one action per turn of a loop, the stores one by one |
| PriorityQueue | queue.c | the tree of queues and the xor-linked queues |
| SharedMem | sharedmem.c | regions, free lists, growth and its races |
| SharedMemProofs | | blocks tile the memory |
| MCContainers | - | AvlTree, PriorityQueue, HashList and SharedMem in one run |
| Packetize | spead.c packetize_item_group | the state machine that cuts an item group into packets |
| Coalesce | spead.c process_items, calculate_lengths, convert_to_ig, copy_direct_spead_item; hash.c single_traverse_hash_table; itemgroup.c arena | the reassembly, one round of its cursor a step |
| Transfer, MCTransfer | - | Packetize, a network that reorders, Coalesce: what was cut comes back |
| TransferProofs | | of Packetize: no packet over its payload, the packets are the group's data; of Transfer: the group comes back, the arena suffices |

How they compose. Mutex is shown to implement AbstractLock, and the other
modules use a lock as AbstractLock describes it: taken when nobody holds it,
released by its holder. A critical section that touches only what its lock
protects is one step. The section under a table's lock is split wherever the
code touches something that lock does not protect, such as the bank or the
server's counters. HashList is shown to implement ObjectBank, the sets and
sequences in which Receiver and HashChains describe the same lists. Transmit is
shown to implement FileSender. Receiver and Transmit leave the contents of a
heap out; Transfer composes the two sequential algorithms that handle them,
Packetize and Coalesce, which each run in one process under one table's lock
and so need no interleaving between them.

MCServer, MCSender and MCContainers put modules that share no state side by
side: the variable `which` says the one whose steps a behaviour takes, the
others stay in one initial state, and a property of the idle ones holds
trivially there. So one run explores the sum of the instances, not their
product.

Correspondence, module by module. Variables carry the source's field names;
where several modules meet in one run they carry a prefix.

* **Mutex.** `m` is the word, `pc` the instruction of each process, `i` its loop
  counter; the processes at "asleep" are the kernel's queue. `Spin`, `Mark` and
  `Wait` are lock_mutex; `Unlock`, `Store`, `Swap`, `Relax`, `Contend` and `Wake`
  are unlock_mutex, whose reset of a marked word is a separate plain store. `Interrupt` is a signal
  that ends a futex wait.
* **Receiver.** `bank` is s_list, `t_os` the set of objects chained in each table,
  `t_data_id`, `t_data_count`, `t_processing`, `t_m` the fields of struct
  hash_table, `run`, `o`, `ht`, `ig` the worker's locals, the counters those of
  struct u_server. A packet is a record of the fields the code reads. `net`
  counts the deliveries left of each datagram, which come in any order; losing
  one is leaving it there, `MaxCopies = 2` allows duplicates.
* **HashList.** `o_next` is the one link field that the free list and all
  chains run through, `l_top`, `l_len` the bank, `t_os` the heads of the chains,
  `h_m` the locks of the tables, `h_o`, `h_t`, `h_i` the locals of the loops.
  Emptying or walking a table takes a step for each object, so that others pop
  and push between.
* **Server.** `u_pc` is where the parent is, `u_run`, `u_timer`, `u_child` the
  flags its handlers set, `s_tree` w_tree, `u_bc`, `s_hp`, `s_hd` s_bc,
  s_hpcount and s_hdcount, `total` the base of the next rate. `Options`
  is main's loop over its arguments. `Fork` is fork_child_sp with its failures:
  no child; a child that the tree has no room for (`astray`), which is sent
  SIGTERM; a child that create_child_sp has no memory to record (`unknown`),
  which runs on. `Turn`, `Report`, `PrintHeaps`, `ClearTimer`, `Reset` and `Reap` are
  one round of server_run_loop, `Drain` and `Unload` destroy_server_us.
  What a child does with a datagram is Receiver's or RawCapture's matter; here it
  receives, counts and may fail. `task` is the function it runs. A child of a
  capture whose recvfrom is interrupted takes -1 for a length and counts it
  (`Miscount`), so that `u_bc` may go down and a single rate may be negative,
  which the code prints as a number near 2^64; `shown.received` keeps what
  has really come.
* **Mcs.** Most of mcs.c was copied from server.c, and where it still does the
  same the module takes Server's action (`Fork`, `Turn`, `Report`, `Drain`, ...).
  Its options, its tasks, which both count an interrupted recvfrom, and a
  report without heaps are its own.
* **RawCapture.** A byte of the file is a datagram's name and an index; each
  `Pwrite` writes any non-empty part of what is left, at an offset ("file") or
  behind what is there ("stream").
* **Modules.** `Pipeline` is l_mods; `k_at` the place of a child in
  traverse_stack. For "snapshot", `s_data` is the pointer to the shared data,
  `flag` the flag in it, `k_ss` what a callback has read of the pointer before it
  takes the lock. For "writefile", `k_ws` is its w_state and w_fd, `copies` the
  receiver's disk. A block that has been released may hold anything.
* **Transmit.** `f_off` is the data file's offset, `t_count` the heap counter,
  `bank` counts objects, `parent`/`p_run`/`w_tree` are
  register_speadtx. `got` is cut into ceil((got + Overhead) / PktSize) packets,
  and `Payload` says which bytes of the file packet k of a worker's heap has.
  A packet in a table (`t_os`) or in a traversal (`left`) is its worker and its
  number: a worker whose send fails exits, so that a leftover's worker still names
  its chunk. `Send` sends whatever the table holds, the worker's own packets and
  those a failed send left there, and `sent` counts each byte each time.
* **Sender.** `x_opt` is what main makes of its arguments, `x_pc` where
  register_speadtx is, `x_tree` the recorded children. A captured file is a
  sequence of kinds of packets and `f_off` counts them; `HeaderGood` and
  `Advance` keep the file's lock between them. `Wake` is a signal that
  interrupts pselect, unless it comes just before. `calm` and `wire` are
  history.
* **StreamReader.** A byte is its position in the stream; `buf[w]` is what
  request_chunk_datafile has read at `*ptr`, its length is `pos`.
* **SpeadHeap.** `heap` is struct spead_heap with its packets in the order of
  the chain; a packet on the wire is the item pointers of its header. `Slot`
  is where spead_heap_add_packet puts a packet, `Finalized` the items that
  spead_heap_finalize makes, whose bytes are positions in the payload.
* **Sockets.** `CreateUdp`, `Bind`, `Connect`, `JoinGroup` and the rest return
  what the call may do to a socket; `Listening` and `Sending` chain them as
  startup_server_us and create_speadtx do.
* **AvlTree.** `node` holds left, right, parent and balance of each key.
  `todo` is what a step still has to store, in the order of the code, and
  `WriteBack` performs it store by store while a search looks. `Descend`,
  `Climb`, `Rotate` are the insertion, the three `Remove...` cases and `Shrink`
  the deletion, `Destroy` and `Walk` the two walks, `Find` the search of
  another process.
* **PriorityQueue.** `o_xor` is a node's one link, the exclusive or of two
  addresses as a symmetric difference of sets. `Insert` is one of `Refuse`,
  `InsertInto`, `InsertNew` and `InsertFreed`, the last with `pq_highest` left at
  the queue that is freed again (`pq_freed`). `PullNext` is the branch that
  deletes an empty queue and tries the next one, once.
* **SharedMem.** `r_off` is where each region is cut next, `s_top` the free
  list of each size, `m_free` the sizes in the tree, `mapped` the regions each
  process has in its address space. `Grow`, `Reread` and `BumpBlind` are the
  full region, the new one and the cut that does not ask whether it still has
  room. `GrowFails` is a failed allocation: a caller's, one for a list head (the
  block is lost) or one for a tree node (the block is lost and the head freed). A head
  that is not stored is freed first and unlocked afterwards: `PushFree` or `Store`
  puts it on a list, `LateUnlock` clears its first word, and between the two another
  process may pop it. A process that finds a list in memory it has not mapped
  crashes, with the list's lock held.
* **Packetize.** `state` is the state of packetize_item_group's loop, one action
  a state. The group is the sequence `ig` of its items' lengths, byte k of item i
  is `<<i, k>>`, and `p`, `off`, `didcopy`, `remain` are the code's locals.
* **Coalesce.** `ht` is the receiver's table, each chain a sequence of packets.
  `cstate`, `coi`, `co` are the static variables of single_traverse_hash_table,
  with `co` the position in chain `coi`; `d_stack` is the stack of items, the top
  first. The copying actions carry the return value of copy_direct_spead_item
  in their comments. An immediate item, which other SPEAD senders put in front,
  is a mark. Such senders also list each item in the packet its data starts in,
  so that the item's length depends on the order of the traversal. Lengths are
  unsigned and wrap at `WordSize`.

## 3. What the runs check

| Run | Question | Bounds |
|---|---|---|
| mutex | truth of the word, wake-up duty, refinement of AbstractLock; everybody gets in once no new calls arrive | 3 processes, both loops bounded by 2 (100 and 200 in the code) |
| receiver_mixed | objects, locks, tables, whole heaps once, under junk, reordering, a clash, the terminator, descriptors, signals | 2 workers, 3 objects, 4 tables of 3 buckets |
| receiver_live | every heap delivered | distinct tables, each datagram once, no signals |
| receiver_fresh | **violation**: a table after a clash holds packets of two heaps | two heaps on one table |
| receiver_duplicate | **violation**: a duplicated datagram completes a heap that lacks one | each datagram up to twice |
| transmit_faults | locks, objects, the size of the store, no byte twice but of a chunk whose send failed, parent last, program ends; refinement of FileSender packet by packet | 2 workers, 5 chunks, 3 packets a heap where the store has room for 2 a table, failing sends, signals |
| transmit_ids | **violation**: two chunks under one heap id | 2 workers, 9 bytes in chunks of 2 |
| sender | a chunk of a stream is one aligned run of it and every full chunk is handed out unless a read fails; a replay sends the packets of a file in turn, each once, the terminator last; the transmitter ends; a heap of the library says the truth of itself | stream: 2 workers, chunks of 3, 7 bytes, failing reads; 11 command lines, up to 2 workers, a pattern of 1 heap; heaps of up to 4 packets out of 8 |
| stream_end | **violation**: end of file ends no worker | as sender's stream, no failing reads |
| server | the captured file is whole datagrams and nothing is dropped silently; modules in the order of the command line; nothing reported twice; children first; the server stops; shared module data; a transmitted file put together | capture: 2 workers, datagrams of 1, 2 and 2 bytes, failing writes, signals; 7 command lines (4 of mcs), up to 2 children, 1 or 2 heaps, up to 2 alarms (2 beside one child, 1 beside two, none without arguments); modules: 2 children, snapshot and writefile, 3 kinds of traffic, 1 turn of the timer |
| transfer | cutting and reassembling gives the item group back, byte for byte, in every order of arrival; the arena suffices; the cursor stops | groups of up to 3 items of 0 to 4 bytes, 7 in all; packets of 2 and 3; receiver's tables of 1 to 5 buckets; a bank of 3 |
| containers | the tree is a balanced search tree, walks see all of it, a search that an insertion overtakes ends; the highest priority comes first and nothing is stuck while memory lasts; blocks tile the regions; the linked lists implement the bank | tree: every sequence of calls on 6 keys, and 2 deletions from the Fibonacci tree of 12; queue: 4 priorities, 4 data; lists: 2 processes, 2 tables of 2 buckets, 3 objects; memory: 2 processes, 2 regions of 7 bytes, 2 calls each |

Why the bounds are enough. The races are between two parties: two workers on a
table, a worker and the bank, a worker and the parent, a child that sets up or
destroys a module beside one that calls it, a process that grows the memory
beside one that cuts from it; a third mutex process
adds the case of a sleeper beside two competing callers. Five chunks for two workers with
four tables make a table be used again, which is when leftovers of a failed
send matter. Chunks of two or three bytes have short reads of every size, and
the lengths 9 and 7 leave a partial chunk at the end. In transfer an item ends
before, at and after the end of a packet and may be empty or span several
packets, a bucket chains up to three packets, 7 bytes in packets of 2 run the
bank dry, and three items in packets of 3 exceed the largest packet. Six keys
reach every rotation of the AVL tree's insertions and deletions; the tree of
twelve is the smallest whose deletions rotate at two levels, which no tree of six
has. Two datagrams of two bytes make every pwrite short at least once and leave
the tail of a failed write under another packet. Two alarms let one come
between alarm(1) and `timer = 0`. The command lines cover each kind of argument main tells apart.
The theorems of section 4 remove the bounds for the properties they cover.

Runs without deadlock checking are those where the program stops: after the
last datagram, after the last chunk, or after all workers have left.

**Fairness.** Weak fairness for each process: a process that can run does run
(the kernel's scheduler), and a free lock somebody waits for is eventually
taken. The second is more than mutex.c promises to each caller: it lets a
newcomer overtake a woken sleeper, so the mutex run shows (`QuietEntry`) only
that all enter once calls stop, from which it follows that somebody enters. In
Receiver, Transmit, RawCapture and Sender each table or file lock is taken
finitely often in a bounded run, so
weak fairness on the steps is enough. Faults, signals and alarms are never
fair: nothing has to fail. StreamReader adds a fair writer, because the
question there is whether readers get what has been written. In Server and
Sender the parent's steps are fair as a whole and so are each child's, the
receipt of a datagram that has come among them. In containers only the search and the caller
that pulls go on. In Transfer both ends are loops of processes that run, and
each datagram arrives, so the whole next-state relation is weakly fair.

**What the properties leave out, and why.**

* `RoundTrip`, `ArenaSuffices` and `ConversionEnds` are about tables that are
  `WellChained`: in each chain packets are in the order of their offsets and no
  item ends inside a packet that is not the head of its chain. Return 2 of
  copy_direct_spead_item (src/src/hash.c:551 logs it as "same packet next item")
  makes the cursor start
  again at the head of the bucket. Without the second condition and with items of
  3 and 1 bytes, packets of 2 and one bucket, the second item gets the byte of
  packet 0 and not that of packet 1. Without the first, items may come in another order
  than their offsets, lengths wrap, and return 3 can go round for ever with the
  table's lock held. `RoundTrip` also says when this cannot happen:
  when the table has more buckets than the heap has packets (`Roomy`). The number
  of packets counts as if the heap had been cut to its end: one that a dry bank cut
  short has fewer packets, but its bytes are hashed by the whole length, and four
  buckets for 3 packets of a heap of 7 bytes can still put two into one.
* `StopsWhenTold` leaves out `Missed`: a SIGTERM that reaches a child between
  its test of `run` and recvfrom is noticed with the next datagram only. That a
  SIGALRM between alarm(1) and `timer = 0` ends all reports is in the model and
  not a property.
* `SenderEnds` leaves out `Forsaken`: a transmitter that could fork or record no
  child, or whose last child was reaped before it looks, waits in a pselect
  that nothing ends.
* `HeapHonest` is about heaps whose packets came once, each with the heap's
  length, the first one among them: a packet twice, a heap without its head, or
  one that does not tell its length are not recognised by the code.
* `CopyHonest` promises an exact copy only when one file is sent, less the
  chunks that a short pwrite, a failed open or a crash cut off: writefile never
  looks at a second name.
* `SharedDataRight` counts the callbacks that read the pointer before another
  child destroyed the data; what their write does to the allocator's free list
  is not modelled.
* `BlocksTile` holds as long as two processes have not changed the tree of sizes at
  the same time and no late unlock was written into a block that somebody used by
  then, or into the link of a block on a free list (`broken`).
* `PullsHighest` promises nothing once a failed allocation has left a queue
  without its end, or `pq_highest` at a queue that was freed (`q_lost`): behind such a
  queue every later pull may fail although data is held.
* `NoneLeftBehind` names the children a parent may leave: those that did not fit
  into its tree, which have been told to stop, and those it had no memory to
  record, which have not.
* `TwiceOnlyAfterFailure` allows a byte of a chunk whose send failed to go out once
  more for each failed send. It does: a table that was emptied after a clash
  keeps the id -1, so that a failed send there leaves packets which the next heap of
  that table adopts and sends, those that were out before the failure among them.
* `ImplementsSender` counts the terminator as out only in a run in which the
  parent and some worker have not been told to stop and no send has failed (`Calm`);
  what it says of the chunks holds under failures and signals too.
  That the file gets out then is part of it and of `TransmitEnds`, so
  there is no property of its own for it.

## 4. What is proved

TLAPS checks every theorem from the named assumptions on the constants, which
say only that sizes are naturals (positive where the code divides or compares)
and that the token `None` is not a worker, an object or a datagram.

* **MutexProofs.** *TypeCorrect*, *Exclusion*, *WordTruth*, *Wakeup*,
  *Refinement*. `MutualExclusion` alone is not inductive: it does not tell the
  value of the word that the next caller tests. The inductive
  invariant is `MutualExclusion /\ WordMatchesHolder`: the word is 0 exactly when
  nobody is between the acquiring exchange and the releasing instruction, and a
  holder that has read 2 in unlock_mutex still finds 2 there. On top of it
  `NoLostWakeup` is inductive: a sleeper implies a word of 2 or somebody on the
  way to wake a sleeper or to set the word to 2.
* **ReceiverProofs.** *Conservation* needs every object located: in the bank, in
  one bucket of one table, or in one worker's hand at a program point that
  holds one; the invariant says these are disjoint and cover everything.
  *LockPairing* ties the holder of each table's lock to the worker's program
  point.
  *TablesRight* (`TableConsistent`) adds what the section under the lock goes
  through: which packets are chained, counted or both at each program point. The
  byte count is a sum over a finite set of objects, written as a cardinality.
  *OnceOnly*, on a network that repeats nothing
  (`MaxCopies <= 1`): a datagram is on the network, in one object whose table has
  not been made into an item group, in one worker's item group, or in one
  delivery, and every step moves it from one to the next. The section that makes
  the item group also empties the table, and that the worker holds its lock
  meanwhile is LockPairing, which this proof builds on together with
  Conservation.
  *HeapsWhole* (`DeliveredWhole`) assumes `Orderly`: nothing is repeated, no two
  heaps whose packets can be chained share a table, the packets of a heap carry
  the sum of their lengths, one without data is alone in its heap, and there are
  finitely many datagrams. The runs receiver_fresh and receiver_duplicate show
  that the first two are needed. A table that is being made into an item group
  has chained distinct packets of one heap whose lengths sum to that of the heap,
  so it has all of them.
* **TransmitProofs.** *RepeatsOnlyFailed* (`TwiceOnlyAfterFailure`) rests on: bytes
  at or above `f_off` have not been given away or sent, the chunks in the workers'
  hands are disjoint, no byte of a chunk is in two packets, and of the chunk a worker
  is sending exactly the bytes in packets it has passed are out, once (`OwnSent`).
  The bound on the repetitions needs more than itself: a leftover in a table
  that its present holder, if there is one, has still to pass has gone out at most
  once for each failed send (`Leftovers`), and whoever sends it next either ends the
  traversal and empties the table or is one more failed send. *ParentOutlives*: a worker missing from the tree has
  exited, and the parent ends only with an empty tree.
  *Conservation* is the receiver's argument, by tables. *StoreSuffices*
  (`BankSuffices`) maps the objects out of the bank one to one into the workers
  times the packets a whole chunk takes: a table in use was numbered by one
  worker, and of the leftovers of a failed send there are no more than of a chunk. It
  assumes `Overhead <= 3 * PktSize`: the formula of tx.c takes twice the
  chunk's packets, and more overhead than that would exceed it for the smallest chunk.
  *SendsTheFile* (`ImplementsSender`) maps each packet that goes out to a piece of its
  chunk, the end of the traversal to the chunk's being done, a failed send to its
  being given up, and all other steps of a worker to a stutter. That a chunk is done
  only when each byte went out is where the packets' bytes must cover it (every byte
  is in one packet, and a heap being sent has all of its packets, by
  StoreSuffices).
* **SenderProofs.** *Aligned*: whoever is reading holds the lock; what has
  been consumed is a whole number of chunks plus what is in the holder's
  buffer.
  *InTurn* (`ReplayInTurn`): only the holder of `f_m` looks at the file;
  everything before the offset can be replayed, and is on the wire or in
  the hand of one worker at "send" (`InHand`, `SentOnce`). As long as the run
  is calm, moreover: a worker that has ended found nothing more to replay at the
  offset, which therefore stays; every packet with data before it has been sent or is in
  hand (`SentOrInHand`); every worker not yet reaped is in the tree, and the
  parent writes the terminator when all are reaped and at least one was
  (`AllReaped`), so that none is left to send behind it. The steps are first
  sorted by what they do to these variables (`StepsAre`). The assumptions: a command
  line is a sequence, the argument of -r is a captured file, and a
  packet that is longer than what is left of the file is its last.
  *HeapIsHonest* (`HeapHonest`): the chain has the packets that came, in the order
  of their offsets (`Chained`), so each ends before the next one begins and
  the walk of spead_heap_got_all_packets meets a gap exactly when a byte is missing
  (`WalkTells`); the answer is computed anew with every packet (`Told`). An item
  made while packets are missing may have the wrong end, but is then
  not valid: the pointer that would end it is in a packet whose bytes the
  item needs, or in the first one (`ItemSent`, `Right`). Once an item is
  right no later packet changes that. The assumption `WireAssumption` says
  what senders do: packets of a heap share no byte and no item, those
  that tell its length tell the same, and an item is listed in the packet its
  data starts in or in the first one, in the order of the data.
* **TransferProofs.** *PacketizeFits*: every packet in hand or in the table
  carries no more than the payload size. `PayloadFits` alone is not inductive:
  the copy is bounded by what is left of the packet, so `FillInv` says that while
  a packet is being filled, `off`, `didcopy` and the length of its data agree and
  are below the payload size, and that an item left over from the packet before
  finds an empty one.
  *GroupCut* (`CutsTheGroup`): the table's packets, walked in order, carry what
  lies below one place in the items' data; the packet in hand goes on from there,
  and the item and the place in it from which the next copy is taken stand
  where the packet in hand ends. The hash never falls as the offset grows, so
  no bucket behind that of the next packet has been used: a packet added is walked last,
  and what the walk yields is the old one with the packet appended. Where an item ends
  in the data, and what `FlattenSeq` yields, is computed by partial sums and
  shown for each number by `EveryNumber`, from the library's well-founded order.
  *GroupComesBack* (`RoundTrip`) and *ArenaIsLargeEnough* (`ArenaSuffices`) are
  about the whole way. `StoreInv`: as long as packets arrive, the table and
  the packets under way make up what was sent, each in the bucket of its offset, and
  the count is the bytes of those that have come. So when the count is the
  heap's length no packet is missing, and in a table whose chains rise the
  order of traversal is that in which they were cut (`TraversesAll`): the map from
  the places to the packets is rising and onto, therefore the identity. From the
  list of items so found calculate_lengths gets back each item's length
  (`SizedIs`), and the arena's size is that of all of them (`ArenaIs`). `ConvertInv`
  then compares the conversion with a plan, a record of the items to convert, the
  value of each, and the sums of their data and of their room: after k items and c
  bytes of the next the group is the plan's, the cursor is at the packet that has
  the next byte (`Converting`), and neither -1 nor 3 is returned (`NeverShort`).
  That the cursor, sent to the head of a chain by return 2, is where the item
  ended needs that the packet was the head: the second condition of `WellChained`.
  The assumption `TransferAssumption` is that the arena of a group is smaller than
  2^64 bytes.
* **ServerProofs.** *ChildrenFirst* rests on: a child that runs, or has exited
  and has not been reaped, is in the tree, astray or unknown; the ones astray have
  been told to stop and never start again; and destroy_server_us goes on only with an
  empty tree. That a fork does not bring back a child that is astray or unknown needs the
  numbers of the children to be below the loop counter. *NothingTwice* rests
  on: what has come but is not in the counter, because a capture counted
  backwards, covers what has been shown beyond the base of the next rate, except
  between the section that takes the rate and the one that renews the base, and
  the heaps shown are counted anew in the same span. Both invariants hold of Mcs
  as well (*McsToo*): every step of it is the server's but for the start with its
  own options and the report without heaps.
  *CaptureWhole* (`FileWhole`): below `f_off` the file is cut into one place
  for each datagram stored, the places of those whose last pwrite is still to
  come or has failed excepted; a worker that writes holds the lock, starts at
  `f_off` and has so far put the head of its datagram there. What
  has gone to standard output is cut the same way; its last bytes may be the
  head of the datagram of the worker that holds the lock, and a failed write
  leaves only such a head behind.
  *OneForAll*: at most one block is allocated, the one the
  shared pointer names; while there is one, some child has yet to pass
  "snapshot" on its way out, which is what makes the last child take the data
  along; and a set flag stands for one picture that may still be drawn.
  *InOrder* (`PipelineInOrder`) assumes no more than that a command line is a sequence. The
  fold over the arguments is unfolded one argument at a time: at
  each the stack holds the names of the last list so far, the last name on top
  (`ReadSoFar`, `LastList`, `Stacked`). While funnel_stack turns it over, what is
  on the two stacks together is that list (`Turned`), and when one module cannot be
  loaded the new stack is emptied.
  *CopiedRight* (`CopyHonest`): each chunk is still to come, at hand in a child
  that has yet to pass "writefile", in its place in the copy, or recorded as cut
  short, and what a child has open is a file that one of the chunks names. The
  hypothesis is that "writefile" is in the pipeline.
* **ContainerProofs.** *HashSafe*: the free list and every chain are paths along
  `o_next` that end, and all of them and the objects in the workers' hands are
  disjoint; a loop over a table stands on the path it is emptying or walking.
  `PathOf` says what a path is without recursion. HashList's own recursive functions
  `ListFrom` and `LastOf` and the fold in `FlattenSeq` are computed on paths by
  taking the least length at which the claim would fail, so no induction theorem
  with an operator for a parameter is needed. *ListsAreBank*: from the paths each
  step on the links is a step of ObjectBank on the sequences they stand for, or
  none. *WalksPassAll* (`WalksWhole`): what a walk has passed is what the
  chains before its bucket hold and the part of its own chain before its cursor.
  *OldestFirst* (the safety half of `PullsHighest`, `OldestOfHighest`): while
  `q_lost` is false, `pq_highest` is at no freed queue, every queue has the ends and the links of the data accepted
  for its priority (`QueueOf`), no datum is in two queues or twice in one, every
  priority with data is in the tree, and `pq_highest` is the greatest key of the
  tree, which exists because the tree is finite. So a node's link, once one
  neighbour is taken out of it, is the other.
* **SharedMemProofs.** *MemoryTiled* (`BlocksTile`): there is a function from
  blocks to places (a caller, a queue of things to free, a list at a
  position, a node of the tree, lost) such that each place holds what the
  function says, so that no block is in two; positions are counted from the end
  of a list, so that putting one in front moves none. The blocks of a region lie
  below its offset, apart, and cover what is below it. Cutting without asking
  whether there is room is safe because a region but the first is mapped by the process
  that made it only: it finds its own new region empty, and in one that
  another has made it crashes, as the model says (`Regions`). A head freed before its
  unlock changes its place when it is pushed, so that the late write needs no
  place of its own; of a failed allocation the block's place is "lost". The
  hypothesis is `~broken`, as in the property.

Only model-checked: the liveness properties, that the data of PriorityQueue gets
out (the other half of `PullsHighest`) among them, because the prover has no rule
for fairness and ENABLED here; and the
properties of AvlTree, `TreeRight` among them. Besides liveness, the
prover cannot use the library's induction theorems (their parameter is an operator)
nor a module with a RECURSIVE operator; ContainerProofs and TransferProofs show how
far arguments by least numbers go instead.

## 5. Disagreements found

1. `receiver_fresh`: get_ht_hs does not hand out a fresh table after a clash;
   it keeps the id -1 and adopts the next heap's id over foreign packets
   (src/src/spead.c:158-184; comment at 1342).
2. `receiver_duplicate`: "have all packets by data count" (src/src/spead.c:1375)
   counts a duplicate as a new packet.
3. `transmit_ids`: the chunk id is not unique (src/src/tx.c:142).
4. `stream_end`: end of file on a stream is never noticed
   (src/src/datafile.c:375).

## 6. Not modelled

* The OpenCL and plotting modules under src/gpu (they need a graphics card and
  keep no state that the server's processes share), the FFT, the other example
  modules, the socket test program, and the stand-alone utilities with the raw
  IP and TCP sockets that only they use.
* The bit-copying helpers at the head of spead_packet.c and the macros of the
  headers: the fields of a packet are modelled by the values they have.
* The wording and layout of logs and reports, printing of trees, self-tests.
* Failing memory allocations inside Receiver, Transmit and Coalesce; they are
  modelled where the code's handling of them matters (Modules, PriorityQueue,
  SharedMem, SpeadHeap, Sockets, the forks of Server and Sender).
* Equal addresses of two regions: create_shared_mem_region maps a new region
  where the kernel likes, and two children that have the same address space after
  fork may map two new regions at one address, so that a pointer into one region
  means another block for the other child. The model takes regions to be
  apart.
* SIGPIPE on the standard output of the raw capture; a second server on the same
  port; the effect of a stale write of "snapshot" on the allocator.
* Weak memory order: the code's atomics are full barriers on the supported
  machines and the plain accesses to the lock word are single aligned loads and
  stores.

## 7. What could come next

Proofs: AvlTree's `TreeRight`. It is within the prover's reach but long: it needs heights and
key ranges of the nodes as functions the invariant says exist, with one place on
the way up where a parent does not yet know of its child's new height, and the effect of
every list of stores in `todo`. Models: the raw IP sockets and the utilities built on them.
