------------------------------- MODULE Server -------------------------------
(***************************************************************************)
(* The server around its workers: the command line (main), the pipeline of *)
(* modules (src/src/pipeline.c, src/src/module.c), the forking and reaping *)
(* of the children (src/src/subprocess.c), server_run_loop with its timer, *)
(* and the shutdown (src/src/server.c).                                    *)
(*                                                                         *)
(* Steps.  A signal may come between any two.  A section under s_m is a    *)
(* step.  What a child does with a datagram is module Receiver's, or       *)
(* RawCapture's with -r; here it counts it.                                *)
(*                                                                         *)
(* Data.  An argument is [opt, val], opt "" for one without a dash.  A     *)
(* heap is one datagram of one byte.                                       *)
(***************************************************************************)
EXTENDS Integers, SequencesExt, Stack, Sockets

CONSTANTS CommandLines, \* sequences of arguments
          MaxChild,     \* bound: what -w asks for at most
          Heaps,        \* bound: datagrams the network brings
          Alarms,       \* bound: SIGALRMs
          ServerFaults  \* whether forks, modules, sockets and children may fail

ASSUME ServerAssumption ==
  /\ MaxChild \in Nat /\ Heaps \in Nat /\ Alarms \in Nat /\ ServerFaults \in BOOLEAN
  /\ \A l \in CommandLines : l \in Seq({l[i] : i \in DOMAIN l})

Child == 1 .. MaxChild

VARIABLES argv, cpus,    \* the command line, and what main makes of it
          task,          \* what the children run: worker_task_us ("worker"),
                         \* raw_spead_cap_worker ("capture"), or module Mcs's
                         \* mcs_packet_worker ("packet")
          u_pc,          \* the parent: where it is
          u_run, u_timer, u_child, \* its flags run, timer, child
          u_alarm,       \* SIGALRMs to come, and whether the alarm is set
          pl, s_p,       \* stacks: module names, loaded modules (l_mods)
          s_x,           \* the socket
          forks,         \* the loop counter of create_spead_workers
          s_tree,        \* w_tree: the children recorded
          astray, unknown,  \* children the tree has no room for, and those whose
                         \* record could not be allocated
          u_bc, s_hp, s_hd, \* s_bc, s_hpcount, s_hdcount
          total,
          c_pc, c_run,   \* of each child: where it is, its flag run
          s_net,         \* datagrams still to come
          shown          \* history: the sums of bytes and heaps reported, the
                         \* bytes received and the heaps counted

flags == <<u_run, u_timer, u_child, u_alarm>>
modules == <<argv, cpus, task, pl, s_p, s_x>>
family == <<forks, s_tree, astray, unknown>>
counters == <<u_bc, s_hp, s_hd, total, shown>>
children == <<c_pc, c_run, s_net>>
uvars == <<u_pc, flags, modules, family, counters, children>>

(***************************************************************************)
(* main: the arguments one by one.                                         *)
(***************************************************************************)
NoArguments == [pl |-> CreateStack, mod_start |-> FALSE, multi_start |-> FALSE,
                multi_grp |-> "", multi_if |-> "", broadcast |-> FALSE, raw |-> FALSE,
                cpus |-> MaxChild, usage |-> FALSE]

\* An option, which ends a list of modules; -d starts one, on a new stack.
OptionArgument(o, a) ==
  LET p == [o EXCEPT !.mod_start = FALSE] IN
  CASE a.opt = "x" -> [p EXCEPT !.broadcast = TRUE]
    [] a.opt = "r" -> [p EXCEPT !.raw = TRUE]
    [] a.opt = "w" -> [p EXCEPT !.cpus = a.val]
    [] a.opt = "m" -> [p EXCEPT !.multi_start = TRUE, !.multi_grp = a.val]
    [] a.opt \in {"p", "b", "l"} -> p
    [] a.opt = "d" -> [p EXCEPT !.mod_start = TRUE, !.pl = PushStack(CreateStack, a.val)]
    [] OTHER -> [p EXCEPT !.usage = TRUE]

\* Any other argument is one more module, or the interface of -m.
PlainArgument(o, a) ==
  CASE o.mod_start -> [o EXCEPT !.pl = PushStack(o.pl, a.val)]
    [] ~o.mod_start /\ o.multi_start -> [o EXCEPT !.multi_start = FALSE, !.multi_if = a.val]
    [] OTHER -> [o EXCEPT !.usage = TRUE]

Options(args) ==
  FoldLeft(LAMBDA o, a : IF o.usage THEN o
                         ELSE IF a.opt = "" THEN PlainArgument(o, a) ELSE OptionArgument(o, a),
           NoArguments, args)

\* The server with the options o, before it loads or starts anything.
Created(o) ==
  /\ cpus = o.cpus /\ pl = o.pl
  /\ u_pc = IF o.usage \/ o.cpus < 1 THEN "end" ELSE "load"
  /\ s_p = CreateStack /\ s_x = NoSocket
  /\ u_run = TRUE /\ u_timer = FALSE /\ u_child = FALSE
  /\ u_alarm \in [left : 0 .. Alarms, set : {FALSE}]
  /\ forks = 0 /\ s_tree = {} /\ astray = {} /\ unknown = {}
  /\ u_bc = 0 /\ s_hp = 0 /\ s_hd = 0 /\ total = 0
  /\ c_pc = [w \in Child |-> "none"] /\ c_run = [w \in Child |-> TRUE]
  /\ s_net \in 1 .. Heaps
  /\ shown = [bytes |-> 0, heaps |-> 0, received |-> 0, counted |-> 0]

ServerInit ==
  /\ argv \in CommandLines
  /\ Created(Options(argv))
  /\ task = IF Options(argv).raw THEN "capture" ELSE "worker"

(***************************************************************************)
(* create_server_us, startup_server_us and create_spead_workers            *)
(***************************************************************************)

\* Mutant: the modules are taken as they lie.
FunnelKept(src, dst) == [src |-> PopStack(src), dst |-> Append(dst, TopStack(src))]
FunnelModules(src, dst) == FunnelTurn(src, dst)

\* funnel_stack with load_modules_spead_pipeline.
LoadModule ==
  /\ u_pc = "load" /\ CanPopStack(pl)
  /\ pl' = FunnelModules(pl, s_p).src /\ s_p' = FunnelModules(pl, s_p).dst
  /\ UNCHANGED <<u_pc, flags, argv, cpus, task, s_x, family, counters, children>>

\* A module cannot be loaded: the server goes on with none.
LoadFails ==
  /\ ServerFaults /\ u_pc = "load" /\ CanPopStack(pl)
  /\ pl' = DestroyStack(pl) /\ s_p' = CreateStack
  /\ UNCHANGED <<u_pc, flags, argv, cpus, task, s_x, family, counters, children>>

\* startup_server_us; when it fails the server shuts down.
StartupWith(o) ==
  /\ u_pc = "load" /\ ~CanPopStack(pl)
  /\ \E k \in Listening(o.broadcast, o.multi_grp # "" /\ o.multi_if # "", ServerFaults) :
       /\ s_x' = k.x
       /\ u_pc' = IF k.ok THEN "fork" ELSE "drain"
  /\ UNCHANGED <<flags, argv, cpus, task, pl, s_p, family, counters, children>>

Startup == StartupWith(Options(argv))

\* fork_child_sp.  The child starts with the parent's flags and sets up its
\* modules.  One that does not fit into the tree is sent SIGTERM and forgotten;
\* one that create_child_sp has no memory for is forgotten as it runs.
Fork ==
  LET w == forks + 1 IN
  /\ u_pc = "fork" /\ forks < cpus
  /\ forks' = w
  /\ \/ /\ c_pc' = [c_pc EXCEPT ![w] = "test"]
        /\ \/ s_tree' = s_tree \cup {w} /\ UNCHANGED <<astray, unknown>>
           \/ ServerFaults /\ astray' = astray \cup {w} /\ UNCHANGED <<s_tree, unknown>>
           \/ ServerFaults /\ unknown' = unknown \cup {w} /\ UNCHANGED <<s_tree, astray>>
        /\ c_run' = [c_run EXCEPT ![w] = u_run /\ w \notin astray']
     \/ ServerFaults /\ UNCHANGED <<c_pc, c_run, s_tree, astray, unknown>>
  /\ UNCHANGED <<u_pc, flags, modules, counters, s_net>>

\* The head of server_run_loop: alarm(1).
StartLoop ==
  /\ u_pc = "fork" /\ forks = cpus
  /\ u_pc' = "loop"
  /\ u_alarm' = [u_alarm EXCEPT !.set = TRUE]
  /\ UNCHANGED <<u_run, u_timer, u_child, modules, family, counters, children>>

(***************************************************************************)
(* server_run_loop                                                         *)
(***************************************************************************)
Zombie == {w \in Child : c_pc[w] = "zombie"}

\* pselect with its timeout of 100 ms, and the modules' timers, which run in
\* the parent.
Turn ==
  /\ u_pc = "loop"
  /\ u_pc' = IF ~u_run THEN "drain" ELSE IF u_timer THEN "report" ELSE "reap"
  /\ UNCHANGED <<flags, modules, family, counters, children>>

\* pselect fails, and not because of a signal.
SelectFails ==
  /\ ServerFaults /\ u_pc = "loop" /\ u_run
  /\ u_run' = FALSE
  /\ UNCHANGED <<u_pc, u_timer, u_child, u_alarm, modules, family, counters, children>>

\* The rate, in one section ...
Report ==
  /\ u_pc = "report"
  /\ total' = u_bc - total
  /\ shown' = [shown EXCEPT !.bytes = @ + total']
  /\ u_pc' = "print"
  /\ UNCHANGED <<flags, modules, family, u_bc, s_hp, s_hd, children>>

\* ... the heaps, without a lock, and alarm(1) ...
PrintHeaps ==
  /\ u_pc = "print"
  /\ shown' = [shown EXCEPT !.heaps = @ + s_hp + s_hd]
  /\ u_alarm' = [u_alarm EXCEPT !.set = TRUE]
  /\ u_pc' = "clear"
  /\ UNCHANGED <<u_run, u_timer, u_child, modules, family, u_bc, s_hp, s_hd, total,
                 children>>

\* ... timer = 0, which an alarm may have overtaken ...
ClearTimer ==
  /\ u_pc = "clear"
  /\ u_timer' = FALSE
  /\ u_pc' = "reset"
  /\ UNCHANGED <<u_run, u_child, u_alarm, modules, family, counters, children>>

\* Mutant: the next rate starts from nothing.
RenewZero == 0
Renew == u_bc

\* ... the counters, in another section.
Reset ==
  /\ u_pc = "reset"
  /\ total' = Renew /\ s_hp' = 0 /\ s_hd' = 0
  /\ u_pc' = "reap"
  /\ UNCHANGED <<flags, modules, family, u_bc, shown, children>>

\* wait_spead_workers: every child that has exited, recorded or not.
WaitWorkers ==
  /\ c_pc' = [w \in Child |-> IF w \in Zombie THEN "reaped" ELSE c_pc[w]]
  /\ s_tree' = s_tree \ Zombie

Reap ==
  /\ u_pc = "reap"
  /\ IF u_child THEN WaitWorkers ELSE UNCHANGED <<c_pc, s_tree>>
  /\ u_pc' = "loop"
  /\ UNCHANGED <<flags, modules, forks, astray, unknown, counters, c_run, s_net>>

(***************************************************************************)
(* destroy_server_us                                                       *)
(***************************************************************************)

\* Mutants: the children are waited for once; a child that could not be
\* started is waited for like the others.
DrainedAtOnce(tree) == TRUE
DrainedWhole(tree) == tree = {} /\ \A w \in 1 .. forks : c_pc[w] # "none"
Drained(tree) == tree = {}

\* The socket is destroyed; destroy_spead_workers polls until all are reaped.
Drain ==
  /\ u_pc = "drain"
  /\ s_x' = IF s_x.open THEN Destroy(s_x) ELSE s_x
  /\ WaitWorkers
  /\ u_pc' = IF Drained(s_tree') THEN "unload" ELSE "drain"
  /\ UNCHANGED <<flags, argv, cpus, task, pl, s_p, forks, astray, unknown, counters, c_run, s_net>>

\* The file, the modules, the store and the shared memory.
Unload ==
  /\ u_pc = "unload"
  /\ s_p' = DestroyStack(s_p)
  /\ u_pc' = "end"
  /\ UNCHANGED <<flags, argv, cpus, task, pl, s_x, family, counters, children>>

(***************************************************************************)
(* A child: worker_task_us or raw_spead_cap_worker                         *)
(***************************************************************************)
Living(w) == c_pc[w] \in {"test", "recv", "process", "count", "miscount", "done"}
ChildGoto(w, l) == c_pc' = [c_pc EXCEPT ![w] = l]

Test(w) ==
  /\ c_pc[w] = "test"
  /\ ChildGoto(w, IF c_run[w] THEN "recv" ELSE "done")
  /\ UNCHANGED <<u_pc, flags, modules, family, counters, c_run, s_net>>

\* The store has no object left: run = 0.
BankEmpty(w) ==
  /\ c_pc[w] = "test" /\ c_run[w] /\ task = "worker"
  /\ c_run' = [c_run EXCEPT ![w] = FALSE]
  /\ ChildGoto(w, "done")
  /\ UNCHANGED <<u_pc, flags, modules, family, counters, s_net>>

Receive(w) ==
  /\ c_pc[w] = "recv" /\ s_net > 0
  /\ s_net' = s_net - 1
  /\ ChildGoto(w, IF task = "worker" THEN "process" ELSE "count")
  /\ UNCHANGED <<u_pc, flags, modules, family, counters, c_run>>

\* process_packet_hs: the heap is counted as processed or as discarded.
Process(w) ==
  /\ c_pc[w] = "process"
  /\ \/ s_hp' = s_hp + 1 /\ UNCHANGED s_hd
     \/ s_hd' = s_hd + 1 /\ UNCHANGED s_hp
  /\ shown' = [shown EXCEPT !.counted = @ + 1]
  /\ ChildGoto(w, "count")
  /\ UNCHANGED <<u_pc, flags, modules, family, u_bc, total, c_run, s_net>>

\* It fails, and the task returns -1.
ProcessFails(w) ==
  /\ ServerFaults /\ c_pc[w] = "process"
  /\ ChildGoto(w, "zombie") /\ u_child' = TRUE
  /\ UNCHANGED <<u_pc, u_run, u_timer, u_alarm, modules, family, counters, c_run, s_net>>

Count(w) ==
  /\ c_pc[w] = "count"
  /\ u_bc' = u_bc + 1
  /\ shown' = [shown EXCEPT !.received = @ + 1]
  /\ ChildGoto(w, "test")
  /\ UNCHANGED <<u_pc, flags, modules, family, s_hp, s_hd, total, c_run, s_net>>

\* What recvfrom returned was -1, which an unsigned nread does not show; after
\* a write that fails the sum is one byte lower.
Miscount(w) ==
  /\ c_pc[w] = "miscount"
  /\ u_bc' = u_bc - 1
  /\ ChildGoto(w, "test")
  /\ UNCHANGED <<u_pc, flags, modules, family, s_hp, s_hd, total, shown, c_run, s_net>>

\* The pipe is closed, the modules' data destroyed; exit, and SIGCHLD.
Leave(w) ==
  /\ c_pc[w] = "done"
  /\ ChildGoto(w, "zombie") /\ u_child' = TRUE
  /\ UNCHANGED <<u_pc, u_run, u_timer, u_alarm, modules, family, counters, c_run, s_net>>

(***************************************************************************)
(* Signals                                                                 *)
(***************************************************************************)

\* The children S run handle_us.  A recvfrom that has begun is interrupted;
\* worker_task_us goes back to the loop's test, the others count.  One that is
\* about to begin is not interrupted.
Notify(S) ==
  /\ c_run' = [w \in Child |-> IF w \in S THEN FALSE ELSE c_run[w]]
  /\ \E I \in SUBSET {w \in S : c_pc[w] = "recv"} :
       c_pc' = [w \in Child |->
                  IF w \notin I THEN c_pc[w] ELSE IF task = "worker" THEN "test" ELSE "miscount"]

\* SIGINT from the terminal, to the parent and its children.
Interrupt ==
  /\ u_run /\ u_pc \notin {"unload", "end"}
  /\ u_run' = FALSE
  /\ Notify({w \in Child : Living(w)})
  /\ UNCHANGED <<u_pc, u_timer, u_child, u_alarm, modules, family, counters, s_net>>

\* SIGTERM to one process.
TerminateParent ==
  /\ u_run /\ u_pc \notin {"unload", "end"}
  /\ u_run' = FALSE
  /\ UNCHANGED <<u_pc, u_timer, u_child, u_alarm, modules, family, counters, children>>

TerminateChild(w) ==
  /\ Living(w) /\ c_run[w]
  /\ Notify({w})
  /\ UNCHANGED <<u_pc, flags, modules, family, counters, s_net>>

Alarm ==
  /\ u_alarm.set /\ u_alarm.left > 0 /\ u_pc \notin {"unload", "end"}
  /\ u_alarm' = [left |-> u_alarm.left - 1, set |-> FALSE]
  /\ u_timer' = TRUE
  /\ UNCHANGED <<u_pc, u_run, u_child, modules, family, counters, children>>

-----------------------------------------------------------------------------

Parent ==
  LoadModule \/ Startup \/ Fork \/ StartLoop \/ Turn \/ Report \/ PrintHeaps \/ ClearTimer
  \/ Reset \/ Reap \/ Drain \/ Unload

ChildStep(w) == Test(w) \/ Receive(w) \/ Process(w) \/ Count(w) \/ Miscount(w) \/ Leave(w)

ServerNext ==
  \/ Parent \/ LoadFails \/ SelectFails \/ Interrupt \/ TerminateParent \/ Alarm
  \/ \E w \in Child : ChildStep(w) \/ BankEmpty(w) \/ ProcessFails(w) \/ TerminateChild(w)

ServerSpec == ServerInit /\ [][ServerNext]_uvars

-----------------------------------------------------------------------------

\* The modules a heap passes are those of the last -d, in the order of the
\* command line (or none, when one of them could not be loaded), although
\* they have gone through two stacks.
LastModules ==
  LET d == {i \in DOMAIN argv : argv[i].opt = "d"}
      first == CHOOSE i \in d : \A j \in d : j <= i
      rest == SubSeq(argv, first + 1, Len(argv))
      names == SelectInSeq(rest, LAMBDA a : a.opt # "")
      own == IF names = 0 THEN rest ELSE SubSeq(rest, 1, names - 1)
  IN IF d = {} THEN <<>>
     ELSE <<argv[first].val>> \o [i \in DOMAIN own |-> own[i].val]

PipelineInOrder ==
  u_pc \in {"fork", "loop"} => TraverseStack(s_p) \in {<<>>, LastModules}

\* No byte and no heap is reported twice: what has been shown never exceeds
\* what has come, although the rate is taken in one section and its base
\* renewed in another, the children count on in between, and the interrupted
\* ones of a capture count backwards.
RatesHonest ==
  /\ shown.bytes <= shown.received
  /\ u_pc = "loop" => shown.heaps + s_hp + s_hd <= shown.counted

\* The modules, the store and the shared memory are taken away only when
\* every child the parent knows of has been reaped.  Of those it forgot, one
\* that did not fit into the tree has been told to stop; only one whose record
\* could not be allocated, when the memory of the parent had run out, may go
\* on unknown and untold.
NoneLeftBehind ==
  u_pc \in {"unload", "end"} =>
    \A w \in Child : Living(w) => w \in unknown \/ (w \in astray /\ ~c_run[w])

\* Everybody has been told to stop.
AllTold == ~u_run /\ \A w \in Child : Living(w) => ~c_run[w]

\* A child that the signal reached between the test of run and recvfrom.
Missed == \E w \in s_tree : c_pc[w] = "recv" /\ s_net = 0

\* Once everybody has been told to stop the server ends, whichever children
\* are lost on the way, unless a signal was missed and the network is quiet.
StopsWhenTold == <>[]AllTold => <>[](u_pc = "end" \/ Missed)
=============================================================================
