------------------------------ MODULE Transmit ------------------------------
(***************************************************************************)
(* The transmitter of a file (src/src/tx.c): register_speadtx forks the    *)
(* workers, each of which takes a chunk of the file from the shared        *)
(* data_file (src/src/datafile.c), numbers it, packetizes it into a hash   *)
(* table of the shared heap store (src/src/spead.c, src/src/hash.c), sends *)
(* the table's packets and empties the table.  The parent reaps the        *)
(* workers (src/src/subprocess.c) and sends the stream terminator.         *)
(*                                                                         *)
(* Steps.  As in module Receiver a section that takes one lock and touches *)
(* what it protects is one step; the section under a table's t_m is split, *)
(* because it pops and pushes objects of the bank all workers share.       *)
(*                                                                         *)
(* Data.  A heap's payload is the Overhead bytes of its first items and    *)
(* the bytes of a chunk; packetize_item_group cuts it into packets of      *)
(* PktSize bytes (module Packetize looks inside).  A packet is the worker  *)
(* that made it and its place in the last heap this worker made: a heap    *)
(* whose send fails is its worker's last.  The objects of the bank are     *)
(* only counted.  t_pc, counted and only printed, is left out.             *)
(***************************************************************************)
EXTENDS Integers, FiniteSets

CONSTANTS Worker,     \* the forked children
          FileSize,   \* bytes of the file
          ChunkSize,  \* t_chunk_size
          PktSize,    \* t_pkt_size
          Overhead,   \* bytes of the items that carry name, id and offset
          Faults,     \* whether sendto may fail
          Signals,    \* whether SIGINT and SIGTERM may arrive
          None        \* no worker

ASSUME TransmitAssumption ==
  /\ IsFiniteSet(Worker) /\ Worker # {}
  /\ FileSize \in Nat \ {0}
  /\ ChunkSize \in Nat \ {0}
  /\ PktSize \in Nat \ {0}
  /\ Overhead \in Nat
  /\ Faults \in BOOLEAN /\ Signals \in BOOLEAN
  /\ None \notin Worker

\* Mutant: one object less for each table.
PacketsOneSpare == ChunkSize \div PktSize + 1

\* register_speadtx: the dimensions of the heap store.
Backlog == 2 * Cardinality(Worker)
Packets == ChunkSize \div PktSize + 2

Table == 0 .. Backlog - 1
Byte == 0 .. FileSize - 1

VARIABLES f_off,            \* bytes of the file handed out
          t_count,          \* heaps numbered
          bank,             \* objects in s_list
          t_os, t_data_id,  \* of each table: chained packets, heap
          t_m,              \* of each table: the holder of its lock
          pc, run,          \* of each worker: where it stands, its flag run
          off, got,         \* of each worker: its chunk
          hid,              \* of each worker: its heap id
          made, left,       \* of each worker: packets made (a count), packets
                            \* to send (a set)
          parent, p_run,    \* where register_speadtx stands, its flag run
          w_tree,           \* the workers not yet reaped
          sent,             \* history: how often each byte went out
          term              \* history: the terminator went out

tvars == <<bank, t_os, t_data_id, t_m>>
wvars == <<pc, run, off, got, hid, made, left>>
pvars == <<parent, p_run, w_tree, term>>
vars == <<f_off, t_count, tvars, wvars, pvars, sent>>

Init ==
  /\ f_off = 0 /\ t_count = 0
  /\ bank = Backlog * Packets
  /\ t_os = [t \in Table |-> {}]
  /\ t_data_id = [t \in Table |-> -1]
  /\ t_m = [t \in Table |-> None]
  /\ pc = [w \in Worker |-> "request"]
  /\ run = [w \in Worker |-> TRUE]
  /\ off = [w \in Worker |-> 0]
  /\ got = [w \in Worker |-> 0]
  /\ hid = [w \in Worker |-> 0]
  /\ made = [w \in Worker |-> 0]
  /\ left = [w \in Worker |-> {}]
  /\ parent = "loop" /\ p_run = TRUE
  /\ w_tree = Worker
  /\ sent = [b \in Byte |-> 0]
  /\ term = FALSE

Goto(w, l) == pc' = [pc EXCEPT ![w] = l]

\* hash_heap_hs, of the worker's heap
ht(w) == hid[w] % Backlog

\* The packets packetize_item_group cuts a chunk of n bytes into.
PacketsOf(n) == (n + Overhead + PktSize - 1) \div PktSize

\* The bytes of a worker's chunk, and those of them in packet k of its heap.
Chunk(w) == {b \in Byte : off[w] <= b /\ b < off[w] + got[w]}
Payload(w, k) ==
  LET place(b) == Overhead + b - off[w] IN
  {b \in Chunk(w) : (k - 1) * PktSize <= place(b) /\ place(b) < k * PktSize}

(***************************************************************************)
(* worker_task_data_file_speadtx                                           *)
(***************************************************************************)

\* The length of the next chunk.
Remaining == IF FileSize > f_off + ChunkSize THEN ChunkSize ELSE FileSize - f_off

\* Mutants of the next action: a partial last chunk counts as end of file;
\* the offset is not advanced.
RequestWith(w, more, n, step) ==
  /\ pc[w] = "request"
  /\ \/ /\ ~run[w] \/ ~more
        /\ got' = IF run[w] THEN [got EXCEPT ![w] = 0] ELSE got
        /\ run' = [run EXCEPT ![w] = FALSE]
        /\ Goto(w, "exited")
        /\ UNCHANGED <<f_off, off>>
     \/ /\ run[w] /\ more
        /\ off' = [off EXCEPT ![w] = f_off]
        /\ got' = [got EXCEPT ![w] = n]
        /\ f_off' = f_off + step
        /\ Goto(w, "count")
        /\ UNCHANGED run
  /\ UNCHANGED <<t_count, tvars, hid, made, left, pvars, sent>>

RequestDropsTail(w) ==
  RequestWith(w, f_off + ChunkSize <= FileSize, Remaining, Remaining)

RequestSwapped(w) == RequestWith(w, f_off < FileSize, Remaining, 0)

\* The head of the loop and request_chunk_datafile of a mapped file, which
\* returns 0 at its end.
Request(w) ==
  /\ pc[w] = "request"
  /\ \/ /\ ~run[w] \/ f_off >= FileSize
        /\ got' = IF run[w] THEN [got EXCEPT ![w] = 0] ELSE got
        /\ run' = [run EXCEPT ![w] = FALSE]
        /\ Goto(w, "exited")
        /\ UNCHANGED <<f_off, off>>
     \/ /\ run[w] /\ f_off < FileSize
        /\ off' = [off EXCEPT ![w] = f_off]
        /\ got' = [got EXCEPT ![w] = Remaining]
        /\ f_off' = f_off + got'[w]
        /\ Goto(w, "count")
        /\ UNCHANGED run
  /\ UNCHANGED <<t_count, tvars, hid, made, left, pvars, sent>>

\* get_count_speadtx increments under the lock ...
Count(w) ==
  /\ pc[w] = "count"
  /\ t_count' = t_count + 1
  /\ Goto(w, "number")
  /\ UNCHANGED <<f_off, tvars, run, off, got, hid, made, left, pvars, sent>>

\* ... and returns what it reads after unlocking.
Number(w) ==
  /\ pc[w] = "number"
  /\ hid' = [hid EXCEPT ![w] = t_count]
  /\ Goto(w, "table")
  /\ UNCHANGED <<f_off, t_count, tvars, run, off, got, made, left, pvars, sent>>

\* packetize_item_group: get_ht_hs up to the emptying of a clashing table.
GetTable(w) ==
  /\ pc[w] = "table"
  /\ t_m[ht(w)] = None
  /\ t_m' = [t_m EXCEPT ![ht(w)] = w]
  /\ t_data_id' = [t_data_id EXCEPT ![ht(w)] = IF @ < 0 THEN hid[w] ELSE @]
  /\ made' = [made EXCEPT ![w] = 0]
  /\ Goto(w, IF t_data_id'[ht(w)] = hid[w] THEN "fill" ELSE "evict")
  /\ UNCHANGED <<f_off, t_count, bank, t_os, run, off, got, hid, left, pvars, sent>>

\* The packets of a table that may come first: the loops over it take those of
\* a heap in their order, and mix those of two heaps.
Foremost(S) == {p \in S : \A q \in S : q[1] = p[1] => p[2] <= q[2]}

\* empty_hash_table: one push_hash_o of its loops.
EmptyPush(w) ==
  /\ pc[w] \in {"evict", "flush"}
  /\ \E p \in Foremost(t_os[ht(w)]) : t_os' = [t_os EXCEPT ![ht(w)] = @ \ {p}]
  /\ bank' = bank + 1
  /\ UNCHANGED <<f_off, t_count, t_data_id, t_m, wvars, pvars, sent>>

\* The end of empty_hash_table in get_ht_hs.
Evicted(w) ==
  /\ pc[w] = "evict"
  /\ t_os[ht(w)] = {}
  /\ t_data_id' = [t_data_id EXCEPT ![ht(w)] = -1]
  /\ Goto(w, "fill")
  /\ UNCHANGED <<f_off, t_count, bank, t_os, t_m, run, off, got, hid, made, left,
                 pvars, sent>>

\* One packet of packetize_item_group: PZ_GETPACKET pops an object and
\* PZ_HASHPACKET chains it; an empty bank ends the heap where it stands.
Fill(w) ==
  /\ pc[w] = "fill"
  /\ \/ /\ bank > 0
        /\ bank' = bank - 1
        /\ t_os' = [t_os EXCEPT ![ht(w)] = @ \cup {<<w, made[w] + 1>>}]
        /\ made' = [made EXCEPT ![w] = @ + 1]
        /\ Goto(w, IF made'[w] < PacketsOf(got[w]) THEN "fill" ELSE "send")
     \/ /\ bank = 0
        /\ Goto(w, "send")
        /\ UNCHANGED <<bank, t_os, made>>
  /\ left' = [left EXCEPT ![w] = t_os'[ht(w)]]
  /\ UNCHANGED <<f_off, t_count, t_data_id, t_m, run, off, got, hid, pvars, sent>>

\* inorder_traverse_hash_table: send_packet_spead_socket of one packet, the
\* worker's own or one it found in the table.
Send(w) ==
  /\ pc[w] = "send"
  /\ \E p \in Foremost(left[w]) :
       /\ left' = [left EXCEPT ![w] = @ \ {p}]
       /\ sent' = [b \in Byte |->
                     IF b \in Payload(p[1], p[2]) THEN sent[b] + 1 ELSE sent[b]]
  /\ UNCHANGED <<f_off, t_count, tvars, pc, run, off, got, hid, made, pvars>>

\* The traversal is over.
Sent(w) ==
  /\ pc[w] = "send"
  /\ left[w] = {}
  /\ Goto(w, "flush")
  /\ UNCHANGED <<f_off, t_count, tvars, run, off, got, hid, made, left, pvars, sent>>

\* Mutant: the error return keeps the table's lock.
SendFailsLocked(w) ==
  /\ Faults
  /\ pc[w] = "send" /\ left[w] # {}
  /\ Goto(w, "exited")
  /\ UNCHANGED <<f_off, t_count, tvars, run, off, got, hid, made, left, pvars, sent>>

\* Mutant: the callback's error does not stop the traversal.
SendFailsUnnoticed(w) ==
  /\ Faults
  /\ pc[w] = "send"
  /\ \E p \in left[w] : left' = [left EXCEPT ![w] = @ \ {p}]
  /\ UNCHANGED <<f_off, t_count, tvars, pc, run, off, got, hid, made, pvars, sent>>

\* sendto fails: the lock is released, all packets stay in the table, those
\* that are out too, and the worker returns -1 and exits.  Who takes the table
\* next with another heap id empties it; who finds its own id there, or -1,
\* adds its packets and sends them all.
SendFails(w) ==
  /\ Faults
  /\ pc[w] = "send" /\ left[w] # {}
  /\ t_m' = [t_m EXCEPT ![ht(w)] = None]
  /\ Goto(w, "exited")
  /\ UNCHANGED <<f_off, t_count, bank, t_os, t_data_id, run, off, got, hid, made,
                 left, pvars, sent>>

\* Mutant: the table is given up before its objects are back in the bank.
FlushedTooSoon(w) ==
  /\ pc[w] = "flush"
  /\ t_os' = [t_os EXCEPT ![ht(w)] = {}]
  /\ t_data_id' = [t_data_id EXCEPT ![ht(w)] = -1]
  /\ t_m' = [t_m EXCEPT ![ht(w)] = None]
  /\ Goto(w, "request")
  /\ UNCHANGED <<f_off, t_count, bank, run, off, got, hid, made, left, pvars, sent>>

\* The end of empty_hash_table, the unlock, usleep.
Flushed(w) ==
  /\ pc[w] = "flush"
  /\ t_os[ht(w)] = {}
  /\ t_data_id' = [t_data_id EXCEPT ![ht(w)] = -1]
  /\ t_m' = [t_m EXCEPT ![ht(w)] = None]
  /\ Goto(w, "request")
  /\ UNCHANGED <<f_off, t_count, bank, t_os, run, off, got, hid, made, left, pvars,
                 sent>>

\* handle_us in a worker.  run is read at the head of the loop only: a signal
\* that comes earlier is one that comes there.
Signal(w) ==
  /\ Signals /\ run[w] /\ pc[w] = "request"
  /\ run' = [run EXCEPT ![w] = FALSE]
  /\ UNCHANGED <<f_off, t_count, tvars, pc, off, got, hid, made, left, pvars, sent>>

(***************************************************************************)
(* register_speadtx, in the parent                                         *)
(***************************************************************************)

\* handle_us in the parent
SignalParent ==
  /\ Signals /\ p_run /\ parent = "loop"
  /\ p_run' = FALSE
  /\ UNCHANGED <<f_off, t_count, tvars, wvars, parent, w_tree, term, sent>>

Zombie == {w \in w_tree : pc[w] = "exited"}

\* Mutant: the loop ends as soon as one worker has been reaped.
ReapOne ==
  /\ parent = "loop" /\ p_run
  /\ Zombie # {}
  /\ w_tree' = w_tree \ Zombie
  /\ parent' = "terminate"
  /\ UNCHANGED <<f_off, t_count, tvars, wvars, p_run, term, sent>>

\* One turn of the loop: pselect returns when the pipe of an exited child
\* reads end of file, wait_spead_workers reaps every child that has exited.
Reap ==
  /\ parent = "loop" /\ p_run
  /\ Zombie # {}
  /\ w_tree' = w_tree \ Zombie
  /\ parent' = IF w_tree' = {} THEN "terminate" ELSE "loop"
  /\ UNCHANGED <<f_off, t_count, tvars, wvars, p_run, term, sent>>

\* The loop's condition fails.
Stop ==
  /\ parent = "loop" /\ ~p_run
  /\ parent' = "terminate"
  /\ UNCHANGED <<f_off, t_count, tvars, wvars, p_run, w_tree, term, sent>>

\* send_spead_stream_terminator
Terminate ==
  /\ parent = "terminate"
  /\ \/ term' = TRUE
     \/ Faults /\ UNCHANGED term
  /\ parent' = "destroy"
  /\ UNCHANGED <<f_off, t_count, tvars, wvars, p_run, w_tree, sent>>

\* Mutant: destroy_speadtx waits once, not until every worker is reaped.
DestroyAtOnce ==
  /\ parent = "destroy"
  /\ w_tree' = w_tree \ Zombie
  /\ parent' = "end"
  /\ UNCHANGED <<f_off, t_count, tvars, wvars, p_run, term, sent>>

\* destroy_speadtx: destroy_spead_workers reaps until no worker is left,
\* then the socket, the store and the file go.
Destroy ==
  /\ parent = "destroy"
  /\ Zombie # {} \/ w_tree = {}
  /\ w_tree' = w_tree \ Zombie
  /\ parent' = IF w_tree' = {} THEN "end" ELSE "destroy"
  /\ UNCHANGED <<f_off, t_count, tvars, wvars, p_run, term, sent>>

-----------------------------------------------------------------------------

Step(w) ==
  \/ Request(w) \/ Count(w) \/ Number(w) \/ GetTable(w) \/ EmptyPush(w)
  \/ Evicted(w) \/ Fill(w) \/ Send(w) \/ Sent(w) \/ Flushed(w)

ParentStep == Reap \/ Stop \/ Terminate \/ Destroy

Next ==
  \/ \E w \in Worker : Step(w) \/ SendFails(w) \/ Signal(w)
  \/ ParentStep \/ SignalParent

Spec == Init /\ [][Next]_vars

\* The scheduler runs every process that can run; a free lock is eventually
\* taken (module Mutex); sendto returns.
FairSpec == Spec /\ WF_vars(ParentStep) /\ \A w \in Worker : WF_vars(Step(w))

-----------------------------------------------------------------------------

Label == {"request", "count", "number", "table", "evict", "fill", "send", "flush",
          "exited"}

\* Every variable of the transmitter keeps its type (struct spead_tx, struct
\* data_file, struct hash_table and the locals of the worker).
TypeOK ==
  /\ f_off \in 0 .. FileSize
  /\ t_count \in Nat
  /\ bank \in Nat
  /\ t_os \in [Table -> SUBSET (Worker \X Nat)]
  /\ t_data_id \in [Table -> Nat \cup {-1}]
  /\ t_m \in [Table -> Worker \cup {None}]
  /\ pc \in [Worker -> Label]
  /\ run \in [Worker -> BOOLEAN]
  /\ off \in [Worker -> Nat] /\ got \in [Worker -> Nat]
  /\ hid \in [Worker -> Nat]
  /\ made \in [Worker -> Nat] /\ left \in [Worker -> SUBSET (Worker \X Nat)]
  /\ parent \in {"loop", "terminate", "destroy", "end"}
  /\ p_run \in BOOLEAN /\ term \in BOOLEAN
  /\ w_tree \subseteq Worker
  /\ sent \in [Byte -> Nat]

\* The worker is inside a table's critical section.
Inside(w) == pc[w] \in {"evict", "fill", "send", "flush"}

\* packetize_item_group returns with the table's mutex set ("ht is returned
\* with mutex set"), and every path of the worker after it, the failing send
\* included, releases that mutex exactly once.
LocksMatchSections ==
  \A t \in Table, w \in Worker : t_m[t] = w <=> Inside(w) /\ ht(w) = t

\* The objects chained in the tables, by table and packet.
Chained == UNION {{t} \X t_os[t] : t \in Table}

\* The objects of the bank are conserved, whatever fails: each one is in the
\* bank or chained in a table.
ObjectsConserved == bank + Cardinality(Chained) = Backlog * Packets

\* The store register_speadtx dimensions (2 * workers tables, chunk / packet
\* + 2 objects for each) is enough: packetize_item_group never finds the bank
\* empty and cuts a heap short, even with the packets a failed send leaves
\* behind.
BankSuffices == \A w \in Worker : pc[w] = "fill" => bank > 0

\* The workers whose send failed.
FailedSends == {w \in Worker : pc[w] = "exited" /\ left[w] # {}}

\* No byte goes out twice unless the send of its chunk failed: then its
\* packets, those already out too, may be sent again with the heap of whoever
\* adopts the table, but once at most for each send that fails, and once more.
TwiceOnlyAfterFailure ==
  \A b \in Byte : sent[b] > 1 =>
    /\ \E w \in FailedSends : b \in Chunk(w)
    /\ sent[b] <= 1 + Cardinality(FailedSends)

\* The parent takes the socket, the store and the file away only when no
\* worker is left that could use them, whatever signal ended its loop.
NoOrphans == parent = "end" => \A w \in Worker : pc[w] = "exited"

\* A heap id names one chunk: two workers never packetize under the same id
\* (the id also goes out as the chunk id).
HeapIdsDistinct ==
  \A v, w \in Worker :
    v # w /\ pc[v] \in Label \ {"request", "count", "number", "exited"}
          /\ pc[w] \in Label \ {"request", "count", "number", "exited"}
      => hid[v] # hid[w]

\* The transmitter ends: no worker waits forever for a table, and the parent
\* notices the last exit, also after failures and signals.
TransmitEnds == <>(parent = "end")

\* The worker left because of a signal, not at the end of the file.
Told(w) == pc[w] = "exited" /\ (got[w] > 0 \/ hid[w] = 0)

\* The parent and some worker have not been told to stop, and no send has
\* failed.
Calm ==
  /\ p_run
  /\ \E w \in Worker : ~Told(w)
  /\ FailedSends = {}
  /\ parent \in {"destroy", "end"} => term

\* The worker holds a chunk that is not out.
Carries(w) == pc[w] \in {"count", "number", "table", "evict", "fill", "send"}

\* The chunks that somebody has taken and sent.
Finished ==
  {b \in Byte : /\ b % ChunkSize = 0 /\ b < f_off
                /\ \A w \in Worker : Carries(w) \/ w \in FailedSends => off[w] # b}

F == INSTANCE FileSender
       WITH out <- sent, failed <- {off[w] : w \in FailedSends}, done <- Finished,
            terminated <- term /\ Calm

\* Packet by packet, under failures and signals too, the transmitter sends the
\* file as FileSender says: a chunk is done when each of its bytes went out
\* once, none goes out after that, bytes of a chunk whose send failed may be
\* repeated, and a terminator that nothing has brought forward follows the
\* last chunk.  (With TransmitEnds: if all stays calm the whole file and its
\* terminator get out.)
ImplementsSender == F!Spec
=============================================================================
