------------------------------- MODULE Sender -------------------------------
(***************************************************************************)
(* The transmitter around its workers (src/src/tx.c): the command line,    *)
(* the socket, the data file, the workers that send a test pattern and     *)
(* those that replay a file of captured packets (src/src/datafile.c), the  *)
(* parent that reaps them (src/src/subprocess.c), and the terminator.  The *)
(* workers that send a file in chunks are module Transmit's.               *)
(*                                                                         *)
(* Steps.  The lock f_m and the locks of the hash tables are held from one *)
(* step to another; a section under t_m is a step.                         *)
(*                                                                         *)
(* Data.  A captured file is a sequence of packets: "data", "bare" (one    *)
(* without payload), "bad" (one with another header), "cut" (the last one, *)
(* longer than what is left of the file).  An offset counts packets, and   *)
(* what a pattern's items are filled with is left out.                     *)
(***************************************************************************)
EXTENDS Integers, SequencesExt, FiniteSetsExt, Sockets

CONSTANTS SenderLines,  \* command lines: sequences of [opt, val]
          MaxSender,    \* bound: workers
          PatternHeaps, \* bound: heaps a pattern is sent in
          HeapPackets,  \* packets of a pattern's heap
          SenderFaults  \* whether calls to the kernel may fail

\* What a captured file holds.
Kinds == {"data", "bare", "bad", "cut"}
CapturedFile(f) == f \in Seq(Kinds) /\ \A k \in DOMAIN f : f[k] = "cut" => k = Len(f)

ASSUME SenderAssumption ==
  /\ MaxSender \in Nat /\ PatternHeaps \in Nat /\ HeapPackets \in Nat \ {0}
  /\ SenderFaults \in BOOLEAN
  /\ \A l \in SenderLines :
       /\ l \in Seq({l[i] : i \in DOMAIN l})
       /\ \A i \in DOMAIN l : l[i].opt = "r" => CapturedFile(l[i].val)

Kid == 1 .. MaxSender
NoKid == 0
Terminator == 0

VARIABLES x_opt,          \* what main makes of its arguments
          x_pc,           \* register_speadtx: where it is
          x_run, x_child, \* its flags run and child
          t_x,            \* the socket
          t_f,            \* whether there is a data file
          f_off, f_lock,  \* its offset, the holder of f_m
          t_hs,           \* whether there is a store
          t_lock,         \* of each table of it: the holder of t_m
          t_count,        \* heaps numbered
          x_forks, x_tree, x_astray, \* children forked, recorded, lost
          k_pc, k_run,    \* of each child: where it is, its flag run
          k_at,           \* of each child: its packet of the file, or its heap
          k_left,         \* of each child: packets of its heap to send
          wire,           \* history: what went out
          calm            \* history: no signal yet, no failure of a child

opened == <<x_opt, t_x, t_f, t_hs>>
kids == <<k_pc, k_run, k_at, k_left>>
brood == <<x_forks, x_tree, x_astray>>
shared == <<f_off, f_lock, t_lock, t_count, wire>>
xvars == <<x_pc, x_run, x_child, opened, kids, brood, shared, calm>>

(***************************************************************************)
(* main                                                                    *)
(***************************************************************************)
NoSenderArguments ==
  [args |-> <<>>, cpus |-> MaxSender, broadcast |-> FALSE, multicast |-> FALSE,
   ifile |-> FALSE, rfile |-> FALSE, file |-> <<>>, usage |-> FALSE]

SenderArgument(o, a) ==
  CASE a.opt = "x" -> [o EXCEPT !.broadcast = TRUE]
    [] a.opt = "m" -> [o EXCEPT !.multicast = TRUE]
    [] a.opt = "w" -> [o EXCEPT !.cpus = a.val]
    [] a.opt = "i" -> [o EXCEPT !.ifile = TRUE]
    [] a.opt = "r" -> [o EXCEPT !.rfile = TRUE, !.file = a.val]
    [] a.opt \in {"c", "s"} -> [o EXCEPT !.usage = a.val = 0]
    [] a.opt = "d" -> o
    [] a.opt = "" /\ Len(o.args) < 2 -> [o EXCEPT !.args = Append(@, a.val)]
    [] OTHER -> [o EXCEPT !.usage = TRUE]

SenderOptions(line) ==
  LET o == FoldLeft(LAMBDA p, a : IF p.usage THEN p ELSE SenderArgument(p, a),
                    NoSenderArguments, line)
  IN [o EXCEPT !.usage = @ \/ Len(o.args) < 2]

\* A table for each of the heaps of the store.
TableOf(hid) == hid % (2 * x_opt.cpus)

SenderInit ==
  /\ x_opt \in {SenderOptions(line) : line \in SenderLines}
  /\ x_pc = IF x_opt.usage THEN "end" ELSE "create"
  /\ x_run = TRUE /\ x_child = FALSE
  /\ t_x = NoSocket /\ t_f = FALSE /\ t_hs = FALSE
  /\ f_off = 0 /\ f_lock = NoKid
  /\ t_lock = [t \in 0 .. 2 * MaxSender - 1 |-> NoKid] /\ t_count = 0
  /\ x_forks = 0 /\ x_tree = {} /\ x_astray = {}
  /\ k_pc = [w \in Kid |-> "none"] /\ k_run = [w \in Kid |-> TRUE]
  /\ k_at = [w \in Kid |-> 0] /\ k_left = [w \in Kid |-> 0]
  /\ wire = <<>> /\ calm = TRUE

(***************************************************************************)
(* create_speadtx and register_speadtx                                     *)
(***************************************************************************)
ToAll == x_opt.args[1] = "all"

\* When it fails the socket is destroyed with the rest.
CreateTx ==
  /\ x_pc = "create"
  /\ \E k \in Sending(x_opt.multicast, x_opt.broadcast, ToAll, SenderFaults) :
       IF k.ok THEN t_x' = k.x /\ x_pc' = "load" ELSE t_x' = NoSocket /\ x_pc' = "end"
  /\ UNCHANGED <<x_run, x_child, x_opt, t_f, t_hs, kids, brood, shared, calm>>

\* -i and -r exclude each other, and a file has to open: otherwise the
\* program ends, with nothing destroyed.  A store that cannot be created is
\* not missed before the first heap.
LoadFile ==
  /\ x_pc = "load"
  /\ \/ /\ ~(x_opt.ifile /\ x_opt.rfile)
        /\ t_f' = x_opt.rfile
        /\ t_hs' \in IF x_opt.rfile THEN {FALSE} ELSE IF SenderFaults THEN BOOLEAN ELSE {TRUE}
        /\ x_pc' = "fork"
     \/ /\ (x_opt.ifile /\ x_opt.rfile) \/ (x_opt.rfile /\ SenderFaults)
        /\ x_pc' = "end"
        /\ UNCHANGED <<t_f, t_hs>>
  /\ UNCHANGED <<x_run, x_child, x_opt, t_x, kids, brood, shared, calm>>

\* create_spead_workers: each fork gives a child, a child that cannot be
\* recorded (and is sent SIGTERM, if its record could be made at all), or
\* none.  (-w 0 gives none at all.)
ForkKid ==
  LET w == x_forks + 1 IN
  /\ x_pc = "fork" /\ x_forks < x_opt.cpus
  /\ x_forks' = w
  /\ \/ x_tree' = x_tree \cup {w} /\ UNCHANGED x_astray
     \/ SenderFaults /\ x_astray' = x_astray \cup {w} /\ UNCHANGED x_tree
     \/ SenderFaults /\ UNCHANGED <<x_tree, x_astray>>
  /\ k_pc' = [k_pc EXCEPT ![w] = IF w \in x_tree' \cup x_astray' THEN "test" ELSE "none"]
  /\ \E told \in IF w \in x_astray' THEN BOOLEAN ELSE {FALSE} :
       k_run' = [k_run EXCEPT ![w] = x_run /\ ~told]
  /\ calm' = (calm /\ w \notin x_astray')
  /\ UNCHANGED <<x_pc, x_run, x_child, opened, k_at, k_left, shared>>

ForksDone ==
  /\ x_pc = "fork" /\ x_forks >= x_opt.cpus
  /\ x_pc' = "loop"
  /\ UNCHANGED <<x_run, x_child, opened, kids, brood, shared, calm, calm>>

(***************************************************************************)
(* The loop of register_speadtx                                            *)
(***************************************************************************)
Gone == {w \in Kid : k_pc[w] = "zombie"}

LoopTest ==
  /\ x_pc = "loop"
  /\ x_pc' = IF x_run THEN "select" ELSE "terminate"
  /\ UNCHANGED <<x_run, x_child, opened, kids, brood, shared, calm>>

\* Mutant: the pipes of the children are not looked at.
ReadableNever == FALSE
Readable == \E w \in x_tree : k_pc[w] = "zombie"

\* pselect without a timeout: the pipe of a recorded child that has exited
\* is readable.  (A signal interrupts it, see Wake.)
Selected ==
  /\ x_pc = "select" /\ Readable
  /\ x_pc' = "woken"
  /\ UNCHANGED <<x_run, x_child, opened, kids, brood, shared, calm>>

SelectError ==
  /\ SenderFaults /\ x_pc = "select"
  /\ x_run' = FALSE /\ x_pc' = "loop"
  /\ calm' = FALSE
  /\ UNCHANGED <<x_child, opened, kids, brood, shared>>

\* wait_spead_workers
ReapKids ==
  /\ k_pc' = [w \in Kid |-> IF w \in Gone THEN "reaped" ELSE k_pc[w]]
  /\ x_tree' = x_tree \ Gone

\* Mutant: one child that has exited is enough.
NoneLeftOne(tree) == TRUE
NoneLeft(tree) == tree = {}

Woken ==
  /\ x_pc = "woken"
  /\ \/ /\ x_child
        /\ ReapKids
        /\ x_run' = IF NoneLeft(x_tree') THEN FALSE ELSE x_run
     \/ ~x_child /\ UNCHANGED <<x_run, k_pc, x_tree>>
  /\ x_pc' = IF x_child /\ NoneLeft(x_tree') THEN "terminate" ELSE "loop"
  /\ UNCHANGED <<x_child, opened, k_run, k_at, k_left, x_forks, x_astray, shared, calm>>

\* send_spead_stream_terminator
Terminate ==
  /\ x_pc = "terminate"
  /\ \/ wire' = Append(wire, Terminator)
     \/ SenderFaults /\ UNCHANGED wire
  /\ x_pc' = "drain"
  /\ UNCHANGED <<x_run, x_child, opened, kids, brood, f_off, f_lock, t_lock, t_count, calm>>

\* destroy_speadtx: the workers are waited for, then the rest goes.
DestroyTx ==
  /\ x_pc = "drain"
  /\ ReapKids
  /\ IF x_tree' = {}
     THEN x_pc' = "end" /\ t_x' = Destroy(t_x) /\ t_hs' = FALSE /\ t_f' = FALSE
     ELSE UNCHANGED <<x_pc, t_x, t_hs, t_f>>
  /\ UNCHANGED <<x_run, x_child, x_opt, k_run, k_at, k_left, x_forks, x_astray, shared, calm>>

(***************************************************************************)
(* The children                                                            *)
(***************************************************************************)
KidGoto(w, l) == k_pc' = [k_pc EXCEPT ![w] = l]

\* A signal interrupts pselect, unless it comes just before.
Wake ==
  \/ UNCHANGED x_pc
  \/ x_pc = "select" /\ x_pc' = "woken"

Alone(w) == UNCHANGED <<x_pc, x_run, x_child, opened, brood>>

\* The head of both loops.
KidTest(w) ==
  /\ k_pc[w] = "test"
  /\ x_opt.rfile \/ ~k_run[w] \/ t_count < PatternHeaps
  /\ KidGoto(w, IF ~k_run[w] THEN "done" ELSE IF x_opt.rfile THEN "request" ELSE "count")
  /\ Alone(w) /\ UNCHANGED <<k_run, k_at, k_left, shared, calm>>

KidExit(w) ==
  /\ k_pc[w] = "done"
  /\ KidGoto(w, "zombie") /\ x_child' = TRUE /\ Wake
  /\ UNCHANGED <<x_run, opened, brood, k_run, k_at, k_left, shared, calm>>

(***************************************************************************)
(* worker_task_raw_packet_file_speadtx, request_packet_raw_packet_datafile *)
(***************************************************************************)
RequestPacket(w) ==
  /\ k_pc[w] = "request" /\ f_lock = NoKid
  /\ f_lock' = w
  /\ KidGoto(w, "header")
  /\ Alone(w) /\ UNCHANGED <<k_run, k_at, k_left, f_off, t_lock, t_count, wire, calm>>

\* The kind of the packet at the offset, or the end of the file.
Here == IF f_off < Len(x_opt.file) THEN x_opt.file[f_off + 1] ELSE "end"

\* The end of the file, a packet that is none, or one that has no payload:
\* the offset stays, and the worker ends.
HeaderEnds(w) ==
  /\ k_pc[w] = "header"
  /\ Here \in {"end", "bad", "bare"}
  /\ f_lock' = NoKid
  /\ k_run' = [k_run EXCEPT ![w] = FALSE]
  /\ KidGoto(w, "done")
  /\ Alone(w) /\ UNCHANGED <<k_at, k_left, f_off, t_lock, t_count, wire, calm>>

\* Mutant: the lock is released before the offset moves on.
FreedEarly(w) == NoKid
Freed(w) == w

\* Its length is known ...
HeaderGood(w) ==
  /\ k_pc[w] = "header"
  /\ Here \in {"data", "cut"}
  /\ k_at' = [k_at EXCEPT ![w] = f_off + 1]
  /\ f_lock' = Freed(w)
  /\ KidGoto(w, "advance")
  /\ Alone(w) /\ UNCHANGED <<k_run, k_left, f_off, t_lock, t_count, wire, calm>>

\* ... f_off += rtn, unlock_mutex.
Advance(w) ==
  /\ k_pc[w] = "advance"
  /\ f_off' = f_off + 1
  /\ f_lock' = NoKid
  /\ KidGoto(w, "send")
  /\ Alone(w) /\ UNCHANGED <<k_run, k_at, k_left, t_lock, t_count, wire, calm>>

\* send_raw_data_spead_socket.  What lies behind a file that is cut off may
\* be readable or not.
SendRaw(w) ==
  /\ k_pc[w] = "send"
  /\ \/ /\ wire' = Append(wire, k_at[w])
        /\ KidGoto(w, "test") /\ UNCHANGED <<k_run, calm>>
     \/ /\ SenderFaults \/ x_opt.file[k_at[w]] = "cut"
        /\ k_run' = [k_run EXCEPT ![w] = FALSE]
        /\ calm' = (calm /\ x_opt.file[k_at[w]] = "cut")
        /\ KidGoto(w, "done") /\ UNCHANGED wire
  /\ Alone(w) /\ UNCHANGED <<k_at, k_left, f_off, f_lock, t_lock, t_count>>

(***************************************************************************)
(* worker_task_pattern_speadtx                                             *)
(***************************************************************************)

\* get_count_speadtx: counted in one section, read again after it.
CountHeap(w) ==
  /\ k_pc[w] = "count"
  /\ t_count' = t_count + 1
  /\ KidGoto(w, "number")
  /\ Alone(w) /\ UNCHANGED <<k_run, k_at, k_left, f_off, f_lock, t_lock, wire, calm>>

ReadCount(w) ==
  /\ k_pc[w] = "number"
  /\ k_at' = [k_at EXCEPT ![w] = t_count]
  /\ KidGoto(w, "packetize")
  /\ Alone(w) /\ UNCHANGED <<k_run, k_left, shared, calm>>

\* packetize_item_group returns with the table locked ...
PacketizeHeap(w) ==
  /\ k_pc[w] = "packetize" /\ t_hs
  /\ t_lock[TableOf(k_at[w])] = NoKid
  /\ t_lock' = [t_lock EXCEPT ![TableOf(k_at[w])] = w]
  /\ k_left' = [k_left EXCEPT ![w] = HeapPackets]
  /\ KidGoto(w, "traverse")
  /\ Alone(w) /\ UNCHANGED <<k_run, k_at, f_off, f_lock, t_count, wire, calm>>

\* ... or fails, as it does without a store, and the worker ends.
PacketizeFails(w) ==
  /\ k_pc[w] = "packetize" /\ ~t_hs
  /\ KidGoto(w, "done")
  /\ Alone(w) /\ UNCHANGED <<k_run, k_at, k_left, shared, calm>>

\* Mutant: a worker whose send fails keeps the table.
UnlockedNot(w) == t_lock
Unlocked(w) == [t_lock EXCEPT ![TableOf(k_at[w])] = NoKid]

\* send_packet_spead_socket of every packet; at the first that fails the
\* table is unlocked and the worker ends.
SendPacket(w) ==
  /\ k_pc[w] = "traverse" /\ k_left[w] > 0
  /\ \/ k_left' = [k_left EXCEPT ![w] = @ - 1] /\ UNCHANGED <<k_pc, t_lock>>
     \/ SenderFaults /\ t_lock' = Unlocked(w) /\ KidGoto(w, "done") /\ UNCHANGED k_left
  /\ Alone(w) /\ UNCHANGED <<k_run, k_at, f_off, f_lock, t_count, wire, calm>>

\* empty_hash_table, unlock_mutex
EmptyTable(w) ==
  /\ k_pc[w] = "traverse" /\ k_left[w] = 0
  /\ t_lock' = Unlocked(w)
  /\ KidGoto(w, "test")
  /\ Alone(w) /\ UNCHANGED <<k_run, k_at, k_left, f_off, f_lock, t_count, wire, calm>>

(***************************************************************************)
(* Signals                                                                 *)
(***************************************************************************)
Alive(w) == k_pc[w] \notin {"none", "zombie", "reaped"}

\* SIGINT from the terminal, or SIGTERM to one process.
InterruptAll ==
  /\ x_run /\ x_pc # "end"
  /\ x_run' = FALSE /\ Wake
  /\ k_run' = [w \in Kid |-> k_run[w] /\ ~Alive(w)]
  /\ calm' = FALSE
  /\ UNCHANGED <<x_child, opened, brood, k_pc, k_at, k_left, shared>>

TerminateSender ==
  /\ x_run /\ x_pc # "end"
  /\ x_run' = FALSE /\ Wake
  /\ calm' = FALSE
  /\ UNCHANGED <<x_child, opened, brood, kids, shared>>

TerminateKid(w) ==
  /\ Alive(w) /\ k_run[w]
  /\ k_run' = [k_run EXCEPT ![w] = FALSE]
  /\ calm' = FALSE
  /\ Alone(w) /\ UNCHANGED <<k_pc, k_at, k_left, shared>>

-----------------------------------------------------------------------------

Register ==
  CreateTx \/ LoadFile \/ ForkKid \/ ForksDone \/ LoopTest \/ Selected \/ Woken \/ Terminate
  \/ DestroyTx

KidStep(w) ==
  \/ KidTest(w) \/ KidExit(w)
  \/ RequestPacket(w) \/ HeaderEnds(w) \/ HeaderGood(w) \/ Advance(w) \/ SendRaw(w)
  \/ CountHeap(w) \/ ReadCount(w) \/ PacketizeHeap(w) \/ PacketizeFails(w)
  \/ SendPacket(w) \/ EmptyTable(w)

SenderNext ==
  \/ Register \/ SelectError \/ InterruptAll \/ TerminateSender
  \/ \E w \in Kid : KidStep(w) \/ TerminateKid(w)

SenderSpec == SenderInit /\ [][SenderNext]_xvars

-----------------------------------------------------------------------------

\* The packets of the file before the first that cannot be replayed.
Replayable ==
  LET stop == {k \in DOMAIN x_opt.file : x_opt.file[k] \in {"bad", "bare"}}
  IN IF stop = {} THEN DOMAIN x_opt.file ELSE 1 .. Min(stop) - 1

\* A replay sends no packet twice and none behind the first it cannot send;
\* if nobody interrupts it and no send fails it sends all that come before,
\* and the terminator last of all, whichever worker takes which packet and
\* whichever is the last to end.
ReplayInTurn ==
  /\ IsInjective(wire)
  /\ \A k \in DOMAIN wire : wire[k] # Terminator => wire[k] \in Replayable
  /\ calm /\ Terminator \in ToSet(wire) =>
       /\ Last(wire) = Terminator
       /\ \A k \in Replayable : x_opt.file[k] = "data" => k \in ToSet(wire)

\* Everybody has been told to stop.
EveryoneTold == ~x_run /\ \A w \in Kid : Alive(w) => ~k_run[w]

\* No child was recorded, or all were reaped before the signal: pselect has
\* nothing to wait for.
Forsaken == x_pc = "select" /\ x_tree = {}

\* A replay ends by itself, and any transmission once everybody has been told
\* to stop, whichever sends fail and whichever signal comes too early, if
\* there was a child to begin with.
SenderEnds ==
  (x_opt.rfile \/ <>[]EveryoneTold) => <>[](x_pc = "end" \/ Forsaken)
=============================================================================
