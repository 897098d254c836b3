-------------------------------- MODULE Mcs --------------------------------
(***************************************************************************)
(* The multi-core UDP receiver (mcs/mcs.c), a server of its own on the     *)
(* sockets, worker processes and data files of the library.  It was made   *)
(* from src/src/server.c and most of its steps are the server's; it has no *)
(* pipeline and no store, and its children write each datagram to a file   *)
(* (raw_spead_cap_worker) or hand it to a callback that only prints        *)
(* (mcs_packet_worker).  The variables are the server's.                   *)
(***************************************************************************)
EXTENDS Server

CONSTANT McsCommandLines   \* sequences of arguments

\* main: -w, -r, -m, -x and -p, and one argument that is the interface of -m.
McsOption(o, a) ==
  CASE a.opt = "x" -> [o EXCEPT !.broadcast = TRUE]
    [] a.opt = "r" -> [o EXCEPT !.raw = TRUE]
    [] a.opt = "w" -> [o EXCEPT !.cpus = a.val]
    [] a.opt = "m" -> [o EXCEPT !.multi_start = TRUE, !.multi_grp = a.val]
    [] a.opt = "p" -> o
    [] OTHER -> [o EXCEPT !.usage = TRUE]

McsArgument(o, a) ==
  IF o.multi_start THEN [o EXCEPT !.multi_start = FALSE, !.multi_if = a.val]
  ELSE [o EXCEPT !.usage = TRUE]

McsOptions(args) ==
  FoldLeft(LAMBDA o, a : IF o.usage THEN o
                         ELSE IF a.opt = "" THEN McsArgument(o, a) ELSE McsOption(o, a),
           NoArguments, args)

\* create_server_us.
McsInit ==
  /\ argv \in McsCommandLines
  /\ Created(McsOptions(argv))
  /\ task = IF McsOptions(argv).raw THEN "capture" ELSE "packet"

McsStartup == StartupWith(McsOptions(argv))

\* create_spead_workers with the one or the other task.
McsFork == Fork

(***************************************************************************)
(* server_run_loop and destroy_server_us                                   *)
(***************************************************************************)
McsTurn == StartLoop \/ Turn

\* No heaps are shown; alarm(1).
McsAlarmAgain ==
  /\ u_pc = "print"
  /\ u_alarm' = [u_alarm EXCEPT !.set = TRUE]
  /\ u_pc' = "clear"
  /\ UNCHANGED <<u_run, u_timer, u_child, modules, family, counters, children>>

McsRate == Report \/ McsAlarmAgain \/ ClearTimer \/ Reset

McsReap == Reap

McsDestroy == Drain \/ Unload

(***************************************************************************)
(* The two tasks: both keep what recvfrom returns in an unsigned nread.    *)
(***************************************************************************)
Datagrams(w) == Test(w) \/ Receive(w) \/ Count(w) \/ Miscount(w) \/ Leave(w)

CaptureTask(w) == task = "capture" /\ Datagrams(w)
PacketTask(w)  == task = "packet" /\ Datagrams(w)

McsSignal == Interrupt \/ TerminateParent \/ Alarm

-----------------------------------------------------------------------------

McsParent == McsStartup \/ McsFork \/ McsTurn \/ McsRate \/ McsReap \/ McsDestroy

McsChild(w) == CaptureTask(w) \/ PacketTask(w)

McsNext ==
  \/ McsParent \/ SelectFails \/ McsSignal
  \/ \E w \in Child : McsChild(w) \/ TerminateChild(w)

McsSpec == McsInit /\ [][McsNext]_uvars
=============================================================================
