---------------------------- MODULE ServerProofs ----------------------------
(***************************************************************************)
(* Proofs about the server and the multi-core receiver, for any command    *)
(* line and any number of children, datagrams and alarms, with signals and *)
(* failing forks, modules and sockets; about the file the children of a    *)
(* raw capture write, with short and failing writes; for any pipeline,     *)
(* about the data the children share through a module and about the file   *)
(* they put together; and about the way of the modules from the command    *)
(* line to the pipeline.                                                   *)
(***************************************************************************)
EXTENDS Mcs, RawCapture, Modules, FiniteSetTheorems, SequenceTheorems,
        WellFoundedInduction, TLAPS

ChildPlace == {"none", "test", "recv", "process", "count", "miscount", "done", "zombie",
               "reaped"}

FamilyType ==
  /\ c_pc \in [Child -> ChildPlace] /\ c_run \in [Child -> BOOLEAN]
  /\ u_run \in BOOLEAN /\ forks \in Nat

\* Every child that runs is recorded, unless the parent forgot it; one that the
\* tree had no room for has been told to stop.  A child is numbered when it is
\* forked.
Accounted ==
  /\ \A w \in Child : Living(w) \/ c_pc[w] = "zombie" => w \in s_tree \cup astray \cup unknown
  /\ \A w \in Child \cap astray : ~c_run[w]
  /\ \A w \in s_tree \cup astray \cup unknown : w \in Nat /\ w <= forks

ReapedFirst == u_pc \in {"unload", "end"} => s_tree = {}

FamilyInv == FamilyType /\ Accounted /\ ReapedFirst

LEMMA FamilyInit == ServerInit => FamilyInv
<1> SUFFICES ASSUME ServerInit PROVE FamilyInv
  OBVIOUS
<1>1. FamilyType
  BY DEF ServerInit, Created, FamilyType, ChildPlace
<1>2. s_tree = {} /\ astray = {} /\ unknown = {} /\ \A w \in Child : c_pc[w] = "none"
  BY DEF ServerInit, Created
<1> QED
  BY <1>1, <1>2 DEF FamilyInv, Accounted, ReapedFirst, Living

\* A step that forks and reaps nobody and lets nobody start again.
LEMMA FamilyKept ==
  ASSUME FamilyInv, FamilyType',
         UNCHANGED <<forks, s_tree, astray, unknown>>,
         u_pc' \in {"unload", "end"} => u_pc \in {"unload", "end"},
         \A w \in Child : c_pc'[w] # "none" /\ c_pc'[w] # "reaped"
                            => c_pc[w] # "none" /\ c_pc[w] # "reaped",
         \A w \in Child : c_run'[w] => c_run[w]
  PROVE  FamilyInv'
<1>1. \A w \in Child : Living(w)' \/ c_pc'[w] = "zombie" => Living(w) \/ c_pc[w] = "zombie"
  BY DEF FamilyInv, FamilyType, ChildPlace, Living
<1> QED
  BY <1>1 DEF FamilyInv, Accounted, ReapedFirst

\* The children that have exited are taken out of the tree.
LEMMA FamilyReaped ==
  ASSUME FamilyInv, WaitWorkers,
         UNCHANGED <<u_run, forks, astray, unknown, c_run>>,
         u_pc' \in {"unload", "end"} => s_tree' = {}
  PROVE  FamilyInv'
<1>1. FamilyType'
  BY DEF FamilyInv, FamilyType, ChildPlace, WaitWorkers
<1>2. \A w \in Child : c_pc'[w] = (IF c_pc[w] = "zombie" THEN "reaped" ELSE c_pc[w])
  BY DEF WaitWorkers, Zombie, FamilyInv, FamilyType
<1>3. \A w \in Child : Living(w)' \/ c_pc'[w] = "zombie" => Living(w) /\ w \notin Zombie
  BY <1>2 DEF Living, Zombie
<1> QED
  BY <1>1, <1>3 DEF FamilyInv, Accounted, ReapedFirst, WaitWorkers

LEMMA FamilyStep == FamilyInv /\ [ServerNext]_uvars => FamilyInv'
<1> SUFFICES ASSUME FamilyInv, [ServerNext]_uvars PROVE FamilyInv'
  OBVIOUS
<1> USE DEF flags, modules, family, counters, children
<1>1. CASE LoadModule \/ LoadFails \/ StartLoop \/ Turn \/ SelectFails \/ Report \/ PrintHeaps
           \/ ClearTimer \/ Reset \/ TerminateParent \/ Alarm \/ UNCHANGED uvars
  BY <1>1, FamilyKept
  DEF LoadModule, LoadFails, StartLoop, Turn, SelectFails, Report, PrintHeaps, ClearTimer,
      Reset, TerminateParent, Alarm, uvars, FamilyInv, FamilyType
<1>2. CASE Startup
  BY <1>2, FamilyKept DEF Startup, StartupWith, FamilyInv, FamilyType
<1>3. CASE Unload
  BY <1>3, FamilyKept DEF Unload, FamilyInv, FamilyType
<1>4. CASE Fork
  <2> DEFINE w == forks + 1
  <2>1. forks' = w /\ u_pc' = u_pc /\ u_pc = "fork" /\ w \in Nat
    BY <1>4 DEF Fork, FamilyInv, FamilyType
  <2>2. FamilyType'
    BY <1>4, <2>1 DEF Fork, FamilyInv, FamilyType, ChildPlace
  <2>3. \A v \in Child : v # w => c_pc'[v] = c_pc[v] /\ c_run'[v] = c_run[v]
    BY <1>4 DEF Fork, FamilyInv, FamilyType
  <2>4. w \notin s_tree /\ w \notin astray
    BY <2>1 DEF FamilyInv, FamilyType, Accounted
  <2>5. \/ s_tree' = s_tree \cup {w} /\ astray' = astray /\ unknown' = unknown
        \/ /\ s_tree' = s_tree /\ astray' = astray \cup {w} /\ unknown' = unknown
           /\ w \in Child => c_run'[w] = FALSE
        \/ s_tree' = s_tree /\ astray' = astray /\ unknown' = unknown \cup {w}
        \/ /\ s_tree' = s_tree /\ astray' = astray /\ unknown' = unknown
           /\ c_pc' = c_pc /\ c_run' = c_run
    BY <1>4 DEF Fork, FamilyInv, FamilyType
  <2>6. \A v \in s_tree' \cup astray' \cup unknown' : v \in Nat /\ v <= forks'
    BY <2>1, <2>5 DEF FamilyInv, FamilyType, Accounted
  <2>7. \A v \in Child : Living(v)' \/ c_pc'[v] = "zombie"
                           => v \in s_tree' \cup astray' \cup unknown'
    BY <2>3, <2>5 DEF FamilyInv, Accounted, Living
  <2>8. \A v \in Child \cap astray' : ~c_run'[v]
    BY <2>3, <2>4, <2>5 DEF FamilyInv, Accounted
  <2> QED
    BY <2>1, <2>2, <2>6, <2>7, <2>8 DEF FamilyInv, Accounted, ReapedFirst
<1>5. CASE Reap
  <2>1. CASE u_child
    BY <1>5, <2>1, FamilyReaped DEF Reap
  <2>2. CASE ~u_child
    BY <1>5, <2>2, FamilyKept DEF Reap, FamilyInv, FamilyType
  <2> QED
    BY <2>1, <2>2
<1>6. CASE Drain
  <2>1. u_pc' \in {"unload", "end"} => s_tree' = {}
    BY <1>6 DEF Drain, Drained
  <2> QED
    BY <1>6, <2>1, FamilyReaped DEF Drain
<1>7. ASSUME NEW w \in Child,
             Test(w) \/ BankEmpty(w) \/ Receive(w) \/ Process(w) \/ ProcessFails(w)
             \/ Count(w) \/ Miscount(w) \/ Leave(w)
      PROVE  FamilyInv'
  <2>1. FamilyType' /\ UNCHANGED <<forks, s_tree, astray, unknown, u_pc>>
    BY <1>7 DEF Test, BankEmpty, Receive, Process, ProcessFails, Count, Miscount, Leave,
                ChildGoto,
                FamilyInv, FamilyType, ChildPlace
  <2>2. /\ \A v \in Child : v # w => c_pc'[v] = c_pc[v]
        /\ c_pc[w] # "none" /\ c_pc[w] # "reaped"
        /\ \A v \in Child : c_run'[v] => c_run[v]
    BY <1>7 DEF Test, BankEmpty, Receive, Process, ProcessFails, Count, Miscount, Leave,
                ChildGoto,
                FamilyInv, FamilyType, ChildPlace
  <2> QED
    BY <2>1, <2>2, FamilyKept
<1>8. ASSUME NEW S \in SUBSET Child, Notify(S),
             UNCHANGED <<forks, s_tree, astray, unknown, u_pc>>,
             u_run' \in BOOLEAN,
             \A w \in S : Living(w)
      PROVE  FamilyInv'
  <2>1. PICK I \in SUBSET {w \in S : c_pc[w] = "recv"} :
          c_pc' = [w \in Child |->
                     IF w \notin I THEN c_pc[w]
                     ELSE IF task = "worker" THEN "test" ELSE "miscount"]
    BY <1>8 DEF Notify
  <2>2. c_run' = [w \in Child |-> IF w \in S THEN FALSE ELSE c_run[w]]
    BY <1>8 DEF Notify
  <2>3. FamilyType'
    BY <1>8, <2>1, <2>2 DEF FamilyInv, FamilyType, ChildPlace
  <2>4. \A v \in Child : c_pc'[v] # "none" /\ c_pc'[v] # "reaped"
                           => c_pc[v] # "none" /\ c_pc[v] # "reaped"
    BY <1>8, <2>1
  <2>5. \A v \in Child : c_run'[v] => c_run[v]
    BY <2>2
  <2> QED
    BY <1>8, <2>3, <2>4, <2>5, FamilyKept
<1>9. CASE Interrupt
  BY <1>8, <1>9 DEF Interrupt
<1>10. ASSUME NEW w \in Child, TerminateChild(w) PROVE FamilyInv'
  <2>1. /\ {w} \in SUBSET Child /\ Notify({w}) /\ u_run' \in BOOLEAN
        /\ UNCHANGED <<forks, s_tree, astray, unknown, u_pc>>
        /\ \A v \in {w} : Living(v)
    BY <1>10 DEF TerminateChild, FamilyInv, FamilyType
  <2> HIDE DEF FamilyInv
  <2> QED
    BY <1>8, <2>1
<1> QED
  BY <1>1, <1>2, <1>3, <1>4, <1>5, <1>6, <1>7, <1>9, <1>10
  DEF ServerNext, Parent, ChildStep

\* The modules, the store and the shared memory outlive every child the
\* server knows of, whenever signals come and whichever forks fail:
\* destroy_spead_workers waits until the tree is empty.  A child that did not
\* fit into the tree may outlive them, but has been told to stop; one whose
\* record could not be allocated may outlive them untold.
THEOREM ChildrenFirst == ServerSpec => []NoneLeftBehind
<1>1. FamilyInv => NoneLeftBehind
  BY DEF FamilyInv, Accounted, ReapedFirst, NoneLeftBehind
<1> QED
  BY <1>1, FamilyInit, FamilyStep, PTL DEF ServerSpec

-----------------------------------------------------------------------------

CounterType ==
  /\ u_bc \in Int /\ s_hp \in Nat /\ s_hd \in Nat /\ total \in Int
  /\ shown \in [bytes : Int, heaps : Nat, received : Nat, counted : Nat]

\* What has been received, counted and miscounted since the base of the next
\* rate was taken covers what will be shown, except after a rate has been taken
\* and until the base is renewed; the heaps that have been shown are counted
\* anew in the same span.
Rated == u_pc \notin {"print", "clear", "reset"} => shown.bytes - total <= shown.received - u_bc
Listed == u_pc \notin {"clear", "reset"} => shown.heaps + s_hp + s_hd <= shown.counted

RateInv ==
  /\ CounterType /\ Rated /\ Listed
  /\ shown.bytes <= shown.received /\ u_bc <= shown.received /\ shown.heaps <= shown.counted

LEMMA RateInit == ServerInit => RateInv
<1> SUFFICES ASSUME ServerInit PROVE RateInv
  OBVIOUS
<1> QED
  BY DEF ServerInit, Created, RateInv, CounterType, Rated, Listed

\* A step that leaves the counters alone, and where the parent is reporting.
LEMMA RateKept ==
  ASSUME RateInv, UNCHANGED counters,
         u_pc' \in {"print", "clear", "reset"} <=> u_pc \in {"print", "clear", "reset"},
         u_pc' \in {"clear", "reset"} <=> u_pc \in {"clear", "reset"}
  PROVE  RateInv'
BY DEF RateInv, CounterType, Rated, Listed, counters

LEMMA RateStep == RateInv /\ [ServerNext]_uvars => RateInv'
<1> SUFFICES ASSUME RateInv, [ServerNext]_uvars PROVE RateInv'
  OBVIOUS
<1>1. CASE LoadModule \/ LoadFails \/ Startup \/ Fork \/ StartLoop \/ Turn \/ SelectFails
           \/ ClearTimer \/ Reap \/ Drain \/ Unload
  BY <1>1, RateKept
  DEF LoadModule, LoadFails, Startup, StartupWith, Fork, StartLoop, Turn, SelectFails,
      ClearTimer, Reap, Drain, Unload
<1>2. CASE Interrupt \/ TerminateParent \/ Alarm \/ UNCHANGED uvars
  BY <1>2, RateKept DEF Interrupt, TerminateParent, Alarm, uvars
<1>3. CASE Report
  <2>1. /\ u_pc = "report" /\ u_pc' = "print" /\ total' = u_bc - total
        /\ shown' = [shown EXCEPT !.bytes = @ + total']
        /\ UNCHANGED <<u_bc, s_hp, s_hd>>
    BY <1>3 DEF Report
  <2>2. /\ shown'.bytes = shown.bytes + (u_bc - total)
        /\ shown'.heaps = shown.heaps /\ shown'.counted = shown.counted
        /\ shown'.received = shown.received
    BY <2>1 DEF RateInv, CounterType
  <2>3. CounterType'
    BY <2>1 DEF RateInv, CounterType
  <2> QED
    BY <2>1, <2>2, <2>3 DEF RateInv, CounterType, Rated, Listed
<1>4. CASE PrintHeaps
  <2>1. /\ u_pc = "print" /\ u_pc' = "clear"
        /\ shown' = [shown EXCEPT !.heaps = @ + s_hp + s_hd]
        /\ UNCHANGED <<u_bc, s_hp, s_hd, total>>
    BY <1>4 DEF PrintHeaps
  <2> QED
    BY <2>1 DEF RateInv, CounterType, Rated, Listed
<1>5. CASE Reset
  <2>1. /\ u_pc = "reset" /\ u_pc' = "reap" /\ total' = u_bc /\ s_hp' = 0 /\ s_hd' = 0
        /\ UNCHANGED <<u_bc, shown>>
    BY <1>5 DEF Reset, Renew
  <2> QED
    BY <2>1 DEF RateInv, CounterType, Rated, Listed
<1>6. ASSUME NEW w \in Child, Process(w) PROVE RateInv'
  <2>1. /\ u_pc' = u_pc /\ total' = total /\ u_bc' = u_bc
        /\ shown' = [shown EXCEPT !.counted = @ + 1]
        /\ \/ s_hp' = s_hp + 1 /\ s_hd' = s_hd
           \/ s_hd' = s_hd + 1 /\ s_hp' = s_hp
    BY <1>6 DEF Process
  <2> QED
    BY <2>1 DEF RateInv, CounterType, Rated, Listed
<1>7. ASSUME NEW w \in Child, Count(w) PROVE RateInv'
  <2>1. /\ u_bc' = u_bc + 1 /\ UNCHANGED <<u_pc, s_hp, s_hd, total>>
        /\ shown' = [shown EXCEPT !.received = @ + 1]
    BY <1>7 DEF Count
  <2>2. /\ shown'.received = shown.received + 1 /\ shown'.bytes = shown.bytes
        /\ shown'.heaps = shown.heaps /\ shown'.counted = shown.counted
    BY <2>1 DEF RateInv, CounterType
  <2>3. CounterType'
    BY <2>1 DEF RateInv, CounterType
  <2> QED
    BY <2>1, <2>2, <2>3 DEF RateInv, Rated, Listed, CounterType
<1>8. ASSUME NEW w \in Child,
             Test(w) \/ BankEmpty(w) \/ Receive(w) \/ ProcessFails(w) \/ Leave(w)
             \/ TerminateChild(w)
      PROVE  RateInv'
  BY <1>8, RateKept DEF Test, BankEmpty, Receive, ProcessFails, Leave, TerminateChild
<1>9. ASSUME NEW w \in Child, Miscount(w) PROVE RateInv'
  <2>1. u_bc' = u_bc - 1 /\ UNCHANGED <<u_pc, s_hp, s_hd, total, shown>>
    BY <1>9 DEF Miscount
  <2> QED
    BY <2>1 DEF RateInv, CounterType, Rated, Listed
<1> QED
  BY <1>1, <1>2, <1>3, <1>4, <1>5, <1>6, <1>7, <1>8, <1>9 DEF ServerNext, Parent, ChildStep

\* Nothing is reported twice by server_run_loop, although the rate, its base
\* and the counters' reset lie in sections apart and the children count on
\* between them.
THEOREM NothingTwice == ServerSpec => []RatesHonest
<1>1. RateInv => RatesHonest
  BY DEF RateInv, Listed, RatesHonest
<1> QED
  BY <1>1, RateInit, RateStep, PTL DEF ServerSpec

-----------------------------------------------------------------------------

\* The multi-core receiver starts as a server would, with other options, and
\* takes two steps of its own.
LEMMA McsStarts == McsInit => FamilyInv /\ RateInv
<1> SUFFICES ASSUME McsInit PROVE FamilyInv /\ RateInv
  OBVIOUS
<1>1. FamilyType
  BY DEF McsInit, Created, FamilyType, ChildPlace
<1>2. s_tree = {} /\ astray = {} /\ unknown = {} /\ \A w \in Child : c_pc[w] = "none"
  BY DEF McsInit, Created
<1>3. u_pc \in {"load", "end"} /\ FamilyInv
  BY <1>1, <1>2 DEF McsInit, Created, FamilyInv, Accounted, ReapedFirst, Living
<1>4. RateInv
  BY DEF McsInit, Created, RateInv, CounterType, Rated, Listed
<1> QED
  BY <1>3, <1>4

LEMMA McsSteps == [McsNext]_uvars =>
  \/ [ServerNext]_uvars
  \/ StartupWith(McsOptions(argv))
  \/ McsAlarmAgain
BY DEF McsNext, McsParent, McsStartup, McsFork, McsTurn, McsRate, McsReap, McsDestroy, McsSignal,
       McsChild, CaptureTask, PacketTask, Datagrams, ServerNext, Parent, ChildStep

LEMMA McsKeeps == FamilyInv /\ RateInv /\ [McsNext]_uvars => FamilyInv' /\ RateInv'
<1> SUFFICES ASSUME FamilyInv, RateInv, [McsNext]_uvars PROVE FamilyInv' /\ RateInv'
  OBVIOUS
<1>1. CASE [ServerNext]_uvars
  BY <1>1, FamilyStep, RateStep
<1>2. CASE StartupWith(McsOptions(argv))
  <2>1. FamilyInv'
    BY <1>2, FamilyKept DEF StartupWith, FamilyInv, FamilyType, flags, family, children
  <2>2. RateInv'
    BY <1>2, RateKept DEF StartupWith
  <2> QED
    BY <2>1, <2>2
<1>3. CASE McsAlarmAgain
  <2>1. FamilyInv'
    BY <1>3, FamilyKept DEF McsAlarmAgain, FamilyInv, FamilyType, family, children
  <2>2. u_pc = "print" /\ u_pc' = "clear" /\ UNCHANGED <<u_bc, s_hp, s_hd, total, shown>>
    BY <1>3 DEF McsAlarmAgain, counters
  <2>3. RateInv'
    BY <2>2 DEF RateInv, CounterType, Rated, Listed
  <2> QED
    BY <2>1, <2>3
<1> QED
  BY <1>1, <1>2, <1>3, McsSteps

\* What holds of the server holds of the multi-core receiver: it takes nothing
\* away under a child it knows of and reports no byte twice.
THEOREM McsToo == McsSpec => [](NoneLeftBehind /\ RatesHonest)
<1>1. FamilyInv /\ RateInv => NoneLeftBehind /\ RatesHonest
  BY DEF FamilyInv, Accounted, ReapedFirst, NoneLeftBehind, RateInv, Listed, RatesHonest
<1> QED
  BY <1>1, McsStarts, McsKeeps, PTL DEF McsSpec

(***************************************************************************)
(* The raw capture.  What is before f_off is whole datagrams of workers    *)
(* that are done with them; what the holder of the lock has written stands *)
(* right behind it, where the next write of another goes if this one fails.*)
(***************************************************************************)

\* A worker that has a datagram which is neither given up nor counted.
Busy(w) == pc[w] \in {"lock", "write", "written"} /\ p[w] # None

CaptureType ==
  /\ TypeOK
  /\ \A w \in Worker : pc[w] \in {"write", "written"} <=> f_m = w
  /\ \A w \in Worker : pc[w] = "write" /\ p[w] # None => pos[w] < Length[p[w]]
  /\ \A w \in Worker : pc[w] = "written" => p[w] # None /\ pos[w] = Length[p[w]]

InHand ==
  /\ \A w \in Worker : Busy(w) => p[w] \notin net
  /\ \A v, w \in Worker : Busy(v) /\ Busy(w) /\ p[v] = p[w] => v = w

CaptureInv == CaptureType /\ InHand

LEMMA CaptureInit == Init => CaptureInv
BY CaptureAssumption DEF Init, CaptureInv, CaptureType, TypeOK, InHand, Busy

LEMMA CaptureStep == CaptureInv /\ [Next]_vars => CaptureInv'
<1> SUFFICES ASSUME CaptureInv, [Next]_vars PROVE CaptureInv'
  OBVIOUS
<1> USE CaptureAssumption DEF CaptureInv, CaptureType, TypeOK, InHand, Busy, Goto
<1>1. ASSUME NEW w \in Worker, Exit(w) PROVE CaptureInv'
  BY <1>1 DEF Exit
<1>2. ASSUME NEW w \in Worker, Recv(w) PROVE CaptureInv'
  BY <1>2 DEF Recv
<1>3. ASSUME NEW w \in Worker, Lock(w) PROVE CaptureInv'
  BY <1>3 DEF Lock
<1>4. ASSUME NEW w \in Worker, Pwrite(w) PROVE CaptureInv'
  BY <1>4 DEF Pwrite
<1>5. ASSUME NEW w \in Worker, PwriteRefused(w) PROVE CaptureInv'
  BY <1>5 DEF PwriteRefused
<1>6. ASSUME NEW w \in Worker, Written(w) PROVE CaptureInv'
  BY <1>6 DEF Written
<1>7. ASSUME NEW w \in Worker, Account(w) PROVE CaptureInv'
  BY <1>7 DEF Account
<1>8. ASSUME NEW w \in Worker, PwriteFails(w) PROVE CaptureInv'
  BY <1>8 DEF PwriteFails
<1>9. ASSUME NEW w \in Worker, Signal(w) PROVE CaptureInv'
  BY <1>9 DEF Signal
<1>10. CASE UNCHANGED vars
  BY <1>10 DEF vars
<1> QED
  BY <1>1, <1>2, <1>3, <1>4, <1>5, <1>6, <1>7, <1>8, <1>9, <1>10 DEF Next, Step

-----------------------------------------------------------------------------

FileByte == Datagram \X Nat

\* The first n bytes of s hold the whole of d behind offset a.
WholeAt(s, n, d, a) ==
  a + Length[d] <= n /\ \A j \in 1 .. Length[d] : s[a + j] = <<d, j>>

\* A file that is whole datagrams up to f_off, and behind it what the worker
\* that writes has written.
Tiled ==
  /\ f_off <= Len(file)
  /\ \A k \in 1 .. f_off : \E d \in Datagram, a \in Nat :
       WholeAt(file, f_off, d, a) /\ k - a \in 1 .. Length[d]
  /\ \A j, k \in 1 .. f_off : file[j] = file[k] => j = k

Begun ==
  \A w \in Worker : Busy(w) /\ pc[w] # "lock" =>
    /\ f_off + pos[w] <= Len(file)
    /\ \A i \in 1 .. pos[w] : file[f_off + i] = <<p[w], i>>

Done ==
  \A k \in 1 .. f_off :
    file[k][1] \notin net /\ \A w \in Worker : Busy(w) => p[w] # file[k][1]

FileInv ==
  /\ file \in Seq(FileByte)
  /\ f_state = "file" => Tiled /\ Begun /\ Done

\* A stream in which each datagram is a run from its first byte, and whose last
\* bytes are those of the worker that writes.
Streamed ==
  /\ OneAfterAnother
  /\ \A k \in 1 .. Len(file) : file[k][2] \in 1 .. Length[file[k][1]]

BegunThere ==
  \A w \in Worker : Busy(w) /\ pc[w] # "lock" /\ pos[w] > 0 =>
    Len(file) > 0 /\ file[Len(file)] = <<p[w], pos[w]>>

DoneThere ==
  \A k \in 1 .. Len(file) :
    /\ file[k][1] \notin net
    /\ \A w \in Worker : Busy(w) /\ p[w] = file[k][1] =>
                           pc[w] # "lock" /\ file[k][2] <= pos[w]

StreamInv == f_state = "stream" => Streamed /\ BegunThere /\ DoneThere

\* Steps that write nothing.
Idle ==
  /\ UNCHANGED <<f_state, f_off, file>>
  /\ net' \subseteq net
  /\ \A w \in Worker : Busy(w)' =>
       \/ pc'[w] = "lock" /\ p'[w] \in net
       \/ /\ Busy(w) /\ p'[w] = p[w]
          /\ \/ pc'[w] = pc[w] /\ pos'[w] = pos[w]
             \/ pc[w] = "lock" /\ pos'[w] = 0

LEMMA IdleKeeps ==
  ASSUME CaptureInv, FileInv, StreamInv, Idle
  PROVE  FileInv' /\ StreamInv'
<1> USE DEF Idle
<1>1. \A k \in 1 .. Len(file) : file[k] \in FileByte
  BY DEF FileInv
<1>2. ASSUME f_state = "file" PROVE (Tiled /\ Begun /\ Done)'
  <2>1. Tiled /\ Begun /\ Done
    BY <1>2 DEF FileInv
  <2>2. Tiled'
    BY <2>1 DEF Tiled, WholeAt
  <2>3. f_off \in Nat
    BY DEF CaptureInv, CaptureType, TypeOK
  <2>4. Begun'
    BY <2>1, <2>3 DEF Begun, Tiled
  <2>5. Done'
    BY <2>1 DEF Done
  <2> QED
    BY <2>2, <2>4, <2>5
<1>3. ASSUME f_state = "stream" PROVE (Streamed /\ BegunThere /\ DoneThere)'
  <2>1. Streamed /\ BegunThere /\ DoneThere
    BY <1>3 DEF StreamInv
  <2>2. Streamed'
    BY <2>1 DEF Streamed, OneAfterAnother
  <2>3. BegunThere'
    BY <2>1 DEF BegunThere
  <2>4. DoneThere'
    BY <2>1 DEF DoneThere
  <2> QED
    BY <2>2, <2>3, <2>4
<1> QED
  BY <1>2, <1>3 DEF FileInv, StreamInv

LEMMA SliceSeq ==
  ASSUME NEW d \in Datagram, NEW i \in Nat, NEW n \in Nat
  PROVE  /\ Slice(d, i, n) \in Seq(FileByte) /\ Len(Slice(d, i, n)) = n
         /\ \A k \in 1 .. n : Slice(d, i, n)[k] = <<d, i + k>>
BY DEF Slice, FileByte

\* s is a, of length l, followed by b, of length m.
Joined(s, a, l, b, m) ==
  /\ s \in Seq(FileByte) /\ Len(s) = l + m
  /\ \A k \in 1 .. l : s[k] = a[k]
  /\ \A k \in 1 .. m : s[l + k] = b[k]

LEMMA JoinAt ==
  ASSUME NEW a \in Seq(FileByte), NEW b \in Seq(FileByte), NEW s, s = a \o b,
         NEW l \in Nat, l = Len(a), NEW m \in Nat, m = Len(b)
  PROVE  Joined(s, a, l, b, m)
<1>1. /\ s \in Seq(FileByte) /\ Len(s) = l + m
      /\ \A k \in 1 .. l + m : s[k] = IF k <= l THEN a[k] ELSE b[k - l]
  BY ConcatProperties
<1>2. ASSUME NEW k \in 1 .. l PROVE s[k] = a[k]
  <2>1. k \in 1 .. l + m /\ k <= l
    OBVIOUS
  <2> QED
    BY <1>1, <2>1
<1>3. ASSUME NEW k \in 1 .. m PROVE s[l + k] = b[k]
  <2>1. l + k \in 1 .. l + m /\ ~(l + k <= l) /\ (l + k) - l = k
    OBVIOUS
  <2>2. s[l + k] = b[(l + k) - l]
    BY <1>1, <2>1
  <2> QED
    BY <2>1, <2>2
<1> QED
  BY <1>1, <1>2, <1>3 DEF Joined

LEMMA PieceOf ==
  ASSUME file \in Seq(FileByte), NEW m \in Nat \ {0}
  PROVE  /\ SubSeq(file, m, Len(file)) \in Seq(FileByte)
         /\ Len(SubSeq(file, m, Len(file))) \in Nat
<1>1. Len(file) \in Int /\ m \in Int /\ \A i \in m .. Len(file) : file[i] \in FileByte
  OBVIOUS
<1>2. SubSeq(file, m, Len(file)) \in Seq(FileByte)
  BY <1>1, SubSeqProperties
<1> QED
  BY <1>2, LenProperties

LEMMA HeadOf ==
  ASSUME file \in Seq(FileByte), NEW at \in 0 .. Len(file)
  PROVE  /\ SubSeq(file, 1, at) \in Seq(FileByte) /\ Len(SubSeq(file, 1, at)) = at
         /\ \A k \in 1 .. at : SubSeq(file, 1, at)[k] = file[k]
<1>1. Len(file) \in Nat /\ at \in Nat /\ \A i \in 1 .. at : file[i] \in FileByte
  OBVIOUS
<1>2. /\ SubSeq(file, 1, at) \in Seq(FileByte)
      /\ Len(SubSeq(file, 1, at)) = IF 1 <= at THEN at - 1 + 1 ELSE 0
      /\ \A k \in 1 .. at - 1 + 1 : SubSeq(file, 1, at)[k] = file[1 + k - 1]
  BY <1>1, SubSeqProperties
<1> QED
  BY <1>1, <1>2

\* Of old, s has the first at bytes, and behind them n bytes of d.
Overwritten(s, old, at, d, i, n) ==
  /\ s \in Seq(FileByte) /\ at + n <= Len(s) /\ Len(s) \in Nat
  /\ \A k \in 1 .. at : s[k] = old[k]
  /\ \A k \in 1 .. n : s[at + k] = <<d, i + k>>

\* pwrite changes nothing before the bytes it writes.
LEMMA PutAt ==
  ASSUME file \in Seq(FileByte), NEW d \in Datagram, NEW i \in Nat, NEW n \in Nat,
         NEW at \in 0 .. Len(file), NEW s, s = Put(d, i, n, at)
  PROVE  Overwritten(s, file, at, d, i, n)
<1>1. PICK a \in Seq(FileByte) : /\ a = SubSeq(file, 1, at)
                                 /\ Len(a) = at /\ \A k \in 1 .. at : a[k] = file[k]
  BY HeadOf
<1>2. PICK b \in Seq(FileByte) : /\ b = Slice(d, i, n)
                                 /\ Len(b) = n /\ \A k \in 1 .. n : b[k] = <<d, i + k>>
  BY SliceSeq
<1> at \in Nat /\ at + n \in Nat /\ at + n + 1 \in Nat \ {0}
  OBVIOUS
<1>3. PICK c \in Seq(FileByte) : c = SubSeq(file, at + n + 1, Len(file)) /\ Len(c) \in Nat
  BY PieceOf, Zenon
<1>4. PICK e : e = a \o b
  OBVIOUS
<1>5. Joined(e, a, at, b, n)
  BY <1>1, <1>2, <1>4, JoinAt
<1>6. e \in Seq(FileByte) /\ Len(e) = at + n
  BY <1>5 DEF Joined
<1>7. s = e \o c
  BY <1>1, <1>2, <1>3, <1>4 DEF Put
<1>8. PICK m \in Nat : m = Len(c)
  BY <1>3
<1>9. Joined(s, e, at + n, c, m)
  BY <1>6, <1>7, <1>8, JoinAt
<1>10. ASSUME NEW k \in 1 .. at PROVE s[k] = file[k]
  <2>1. k \in 1 .. at + n
    OBVIOUS
  <2>2. s[k] = e[k] /\ e[k] = a[k]
    BY <1>5, <1>9, <2>1 DEF Joined
  <2> QED
    BY <1>1, <2>2
<1>11. ASSUME NEW k \in 1 .. n PROVE s[at + k] = <<d, i + k>>
  <2>1. at + k \in 1 .. at + n
    OBVIOUS
  <2>2. s[at + k] = e[at + k] /\ e[at + k] = b[k]
    BY <1>5, <1>9, <2>1 DEF Joined
  <2> QED
    BY <1>2, <2>2
<1>12. s \in Seq(FileByte) /\ Len(s) \in Nat /\ at + n <= Len(s)
  BY <1>9 DEF Joined
<1> QED
  BY <1>10, <1>11, <1>12 DEF Overwritten

\* What a step of pwrite does, in rigid terms.
LEMMA PwriteDoes ==
  ASSUME CaptureInv, NEW w \in Worker, Pwrite(w)
  PROVE  \E d \in Datagram, n \in Nat \ {0}, q \in Nat, f \in Nat :
           /\ d = p[w] /\ q = pos[w] /\ f = f_off /\ q + n <= Length[d]
           /\ pc[w] = "write" /\ Busy(w)
           /\ file' = IF f_state = "stream" THEN Appended(d, q, n) ELSE Put(d, q, n, f + q)
           /\ pos'[w] = q + n /\ pc'[w] \in {"write", "written"}
           /\ \A v \in Worker : v # w => pos'[v] = pos[v] /\ pc'[v] = pc[v]
           /\ \A v \in Worker : pc[v] \in {"write", "written"} => v = w
           /\ UNCHANGED <<f_state, net, f_off, p, lost>>
<1>1. PICK n \in 1 .. Length[p[w]] - pos[w] :
        /\ file' = OutputWith(w, n)
        /\ pos' = [pos EXCEPT ![w] = @ + n]
        /\ pc' = [pc EXCEPT ![w] = IF pos'[w] = Length[p[w]] THEN "written" ELSE "write"]
  BY DEF Pwrite, Goto
<1>2. /\ pc[w] = "write" /\ p[w] \in Datagram /\ Busy(w) /\ pos[w] \in Nat /\ f_off \in Nat
      /\ UNCHANGED <<f_state, net, f_off, p, lost>>
      /\ Length[p[w]] \in Nat
  BY CaptureAssumption DEF Pwrite, Busy, CaptureInv, CaptureType, TypeOK
<1>3. n \in Nat \ {0} /\ pos[w] + n <= Length[p[w]]
  BY <1>2
<1>4. /\ pos'[w] = pos[w] + n /\ pc'[w] \in {"write", "written"}
      /\ \A v \in Worker : v # w => pos'[v] = pos[v] /\ pc'[v] = pc[v]
  BY <1>1 DEF CaptureInv, CaptureType, TypeOK
<1>5. \A v \in Worker : pc[v] \in {"write", "written"} => v = w
  BY <1>2 DEF CaptureInv, CaptureType
<1> QED
  BY <1>1, <1>2, <1>3, <1>4, <1>5 DEF OutputWith

LEMMA PwriteFile ==
  ASSUME CaptureInv, FileInv, f_state = "file", NEW w \in Worker, Pwrite(w)
  PROVE  FileInv' /\ \A k \in 1 .. f_off : file'[k] = file[k]
<1>1. PICK d \in Datagram, n \in Nat \ {0}, q \in Nat, f \in Nat :
        /\ d = p[w] /\ q = pos[w] /\ f = f_off
        /\ pc[w] = "write" /\ Busy(w) /\ file' = Put(d, q, n, f + q)
        /\ pos'[w] = q + n /\ pc'[w] \in {"write", "written"}
        /\ \A v \in Worker : v # w => pos'[v] = pos[v] /\ pc'[v] = pc[v]
        /\ \A v \in Worker : pc[v] \in {"write", "written"} => v = w
        /\ UNCHANGED <<f_state, net, f_off, p>>
  BY PwriteDoes
<1>2. Tiled /\ Begun /\ Done /\ Len(file) \in Nat
  BY DEF FileInv
<1>3. f + q <= Len(file) /\ \A k \in 1 .. q : file[f + k] = <<d, k>>
  BY <1>1, <1>2 DEF Begun
<1>4. PICK at \in 0 .. Len(file) : at = f + q
  BY <1>2, <1>3
<1>5. PICK g : g = file'
  OBVIOUS
<1>6. /\ g \in Seq(FileByte) /\ at + n <= Len(g) /\ Len(g) \in Nat
      /\ \A k \in 1 .. at : g[k] = file[k]
      /\ \A k \in 1 .. n : g[at + k] = <<d, q + k>>
  <2>1. g = Put(d, q, n, at) /\ file \in Seq(FileByte) /\ n \in Nat
    BY <1>1, <1>4, <1>5 DEF FileInv
  <2>2. Overwritten(g, file, at, d, q, n)
    BY <2>1, PutAt
  <2> QED
    BY <2>2 DEF Overwritten
<1>7. f <= Len(g) /\ \A k \in 1 .. f : g[k] = file[k]
  BY <1>4, <1>6
<1>8. Tiled'
  <2>1. ASSUME NEW k \in 1 .. f
        PROVE  \E e \in Datagram, a \in Nat : WholeAt(g, f, e, a) /\ k - a \in 1 .. Length[e]
    <3>1. PICK e \in Datagram, a \in Nat : WholeAt(file, f, e, a) /\ k - a \in 1 .. Length[e]
      BY <1>1, <1>2 DEF Tiled
    <3>2. PICK l \in Nat : l = Length[e]
      BY CaptureAssumption
    <3>3. ASSUME NEW i \in 1 .. l PROVE a + i \in 1 .. f /\ file[a + i] = <<e, i>>
      <4>1. a + l <= f /\ file[a + i] = <<e, i>>
        BY <3>1, <3>2 DEF WholeAt
      <4> QED
        BY <4>1
    <3>4. WholeAt(g, f, e, a)
      BY <1>7, <3>1, <3>2, <3>3 DEF WholeAt
    <3> QED
      BY <3>1, <3>4
  <2>2. \A j, k \in 1 .. f : g[j] = g[k] => j = k
    BY <1>1, <1>2, <1>7 DEF Tiled
  <2>3. f_off' = f
    BY <1>1
  <2>4. Tiled' <=> /\ f <= Len(g)
                   /\ \A k \in 1 .. f : \E e \in Datagram, a \in Nat :
                        WholeAt(g, f, e, a) /\ k - a \in 1 .. Length[e]
                   /\ \A j, k \in 1 .. f : g[j] = g[k] => j = k
    BY <1>5, <2>3 DEF Tiled, WholeAt
  <2> QED
    BY <1>7, <2>1, <2>2, <2>4
<1>9. Begun'
  <2>1. ASSUME NEW k \in 1 .. q + n PROVE g[f + k] = <<d, k>>
    <3>1. CASE k <= q
      <4>1. k \in 1 .. q /\ f + k \in 1 .. at
        BY <1>4, <3>1
      <4> QED
        BY <1>3, <1>6, <4>1
    <3>2. CASE ~(k <= q)
      <4>1. k - q \in 1 .. n /\ at + (k - q) = f + k /\ q + (k - q) = k
        BY <1>4, <3>2
      <4>2. g[at + (k - q)] = <<d, q + (k - q)>>
        BY <1>6, <4>1
      <4> QED
        BY <4>1, <4>2
    <3> QED
      BY <3>1, <3>2
  <2>2. f + (q + n) <= Len(g)
    BY <1>4, <1>6
  <2>3. \A v \in Worker : Busy(v)' /\ pc'[v] # "lock" => v = w
    BY <1>1 DEF Busy
  <2> QED
    BY <1>1, <1>5, <2>1, <2>2, <2>3 DEF Begun
<1>10. Done'
  <2>1. \A v \in Worker : Busy(v)' => Busy(v)
    BY <1>1 DEF Busy
  <2>2. ASSUME NEW k \in 1 .. f
        PROVE  g[k][1] \notin net /\ \A v \in Worker : Busy(v) => p[v] # g[k][1]
    <3>1. g[k] = file[k]
      BY <1>7
    <3> QED
      BY <1>1, <1>2, <3>1 DEF Done
  <2>3. f_off' = f /\ p' = p /\ net' = net
    BY <1>1
  <2> QED
    BY <1>5, <2>1, <2>2, <2>3 DEF Done
<1>11. FileInv'
  BY <1>1, <1>5, <1>6, <1>8, <1>9, <1>10 DEF FileInv
<1> QED
  BY <1>1, <1>5, <1>7, <1>11

LEMMA WrittenFile ==
  ASSUME CaptureInv, FileInv, f_state = "file", NEW w \in Worker, Written(w)
  PROVE  FileInv'
<1> USE DEF Goto
<1>1. PICK d \in Datagram : d = p[w]
  BY DEF Written, CaptureInv, CaptureType, TypeOK
<1>2. PICK n \in Nat \ {0} : n = Length[d]
  BY CaptureAssumption
<1>3. PICK f \in Nat : f = f_off
  BY DEF CaptureInv, CaptureType, TypeOK
<1>4. /\ pc[w] = "written" /\ Busy(w) /\ pos[w] = n
      /\ f_off' = f + n /\ pc' = [pc EXCEPT ![w] = "account"]
      /\ UNCHANGED <<f_state, net, file, p, pos>>
  BY <1>1, <1>2, <1>3 DEF Written, Busy, CaptureInv, CaptureType
<1>5. Tiled /\ Begun /\ Done /\ Len(file) \in Nat
  BY DEF FileInv
<1>6. f + n <= Len(file) /\ \A k \in 1 .. n : file[f + k] = <<d, k>>
  BY <1>1, <1>3, <1>4, <1>5 DEF Begun
<1>7. d \notin net /\ \A k \in 1 .. f : file[k][1] # d
  BY <1>1, <1>3, <1>4, <1>5 DEF Done, CaptureInv, InHand
<1>8. \A v \in Worker : Busy(v)' => Busy(v) /\ pc'[v] = "lock" /\ pc[v] = "lock" /\ p[v] # d
  BY <1>1, <1>4 DEF Busy, CaptureInv, CaptureType, TypeOK, InHand
<1>9. ASSUME NEW k \in 1 .. f + n, ~(k <= f)
      PROVE  k - f \in 1 .. n /\ file[k] = <<d, k - f>>
  <2>1. k - f \in 1 .. n /\ f + (k - f) = k
    BY <1>9
  <2> QED
    BY <1>6, <2>1
<1>10. Tiled'
  <2>1. ASSUME NEW k \in 1 .. f + n
        PROVE  \E e \in Datagram, a \in Nat : WholeAt(file, f + n, e, a) /\ k - a \in 1 .. Length[e]
    <3>1. CASE k <= f
      <4>1. PICK e \in Datagram, a \in Nat : WholeAt(file, f, e, a) /\ k - a \in 1 .. Length[e]
        <5>1. k \in 1 .. f
          BY <3>1
        <5> QED
          BY <1>3, <1>5, <5>1 DEF Tiled
      <4>2. Length[e] \in Nat
        BY CaptureAssumption
      <4>3. WholeAt(file, f + n, e, a)
        BY <4>1, <4>2 DEF WholeAt
      <4> QED
        BY <4>1, <4>3
    <3>2. CASE ~(k <= f)
      <4>1. WholeAt(file, f + n, d, f) /\ k - f \in 1 .. Length[d]
        BY <1>2, <1>6, <1>9, <3>2 DEF WholeAt
      <4> QED
        BY <4>1
    <3> QED
      BY <3>1, <3>2
  <2>2. ASSUME NEW j \in 1 .. f + n, NEW k \in 1 .. f + n, file[j] = file[k]
        PROVE  j = k
    <3>1. CASE j <= f /\ k <= f
      <4>1. j \in 1 .. f /\ k \in 1 .. f
        BY <3>1
      <4> QED
        BY <1>3, <1>5, <2>2, <4>1 DEF Tiled
    <3>2. CASE ~(j <= f) /\ ~(k <= f)
      <4>1. file[j] = <<d, j - f>> /\ file[k] = <<d, k - f>>
        BY <1>9, <3>2
      <4>2. file[j][2] = j - f /\ file[k][2] = k - f
        BY <4>1
      <4>3. j - f = k - f
        BY <2>2, <4>2
      <4> QED
        BY <4>3
    <3>3. ASSUME NEW a \in 1 .. f + n, NEW b \in 1 .. f + n, a <= f, ~(b <= f)
          PROVE  file[a] # file[b]
      <4>1. file[b] = <<d, b - f>> /\ a \in 1 .. f
        BY <1>9, <3>3
      <4>2. file[b][1] = d
        BY <4>1
      <4> QED
        BY <1>7, <4>1, <4>2
    <3> QED
      BY <2>2, <3>1, <3>2, <3>3
  <2> QED
    BY <1>4, <1>6, <2>1, <2>2 DEF Tiled, WholeAt
<1>11. Begun'
  BY <1>8 DEF Begun
<1>12. Done'
  <2>1. ASSUME NEW k \in 1 .. f + n
        PROVE  file[k][1] \notin net /\ \A v \in Worker : Busy(v)' => p[v] # file[k][1]
    <3>1. CASE k <= f
      <4>1. k \in 1 .. f
        BY <3>1
      <4> QED
        BY <1>3, <1>5, <1>8, <4>1 DEF Done
    <3>2. CASE ~(k <= f)
      <4>1. file[k][1] = d
        BY <1>9, <3>2
      <4> QED
        BY <1>7, <1>8, <4>1
    <3> QED
      BY <3>1, <3>2
  <2> QED
    BY <1>4, <2>1 DEF Done
<1> QED
  BY <1>4, <1>10, <1>11, <1>12 DEF FileInv

LEMMA PwriteStream ==
  ASSUME CaptureInv, FileInv, StreamInv, f_state = "stream", NEW w \in Worker, Pwrite(w)
  PROVE  /\ FileInv' /\ StreamInv'
         /\ file' \in Seq(FileByte) /\ Len(file) <= Len(file')
         /\ \A k \in 1 .. Len(file) : file'[k] = file[k]
<1>1. PICK d \in Datagram, n \in Nat \ {0}, q \in Nat :
        /\ d = p[w] /\ q = pos[w] /\ q + n <= Length[d]
        /\ pc[w] = "write" /\ Busy(w) /\ file' = file \o Slice(d, q, n)
        /\ pos'[w] = q + n /\ pc'[w] \in {"write", "written"}
        /\ \A v \in Worker : v # w => pos'[v] = pos[v] /\ pc'[v] = pc[v]
        /\ \A v \in Worker : pc[v] \in {"write", "written"} => v = w
        /\ UNCHANGED <<f_state, net, p>>
  BY PwriteDoes DEF Appended
<1>2. Streamed /\ BegunThere /\ DoneThere /\ file \in Seq(FileByte)
  BY DEF StreamInv, FileInv
<1>3. PICK l \in Nat : l = Len(file)
  BY <1>2
<1>4. PICK g : g = file'
  OBVIOUS
<1>5. PICK b \in Seq(FileByte) : /\ b = Slice(d, q, n) /\ Len(b) = n
                                 /\ \A k \in 1 .. n : b[k] = <<d, q + k>>
  BY SliceSeq
<1>6. Joined(g, file, l, b, n)
  BY <1>1, <1>2, <1>3, <1>4, <1>5, JoinAt
<1>7. g \in Seq(FileByte) /\ Len(g) = l + n /\ DOMAIN g = 1 .. l + n /\ DOMAIN file = 1 .. l
  BY <1>2, <1>3, <1>6 DEF Joined
<1>8. \A k \in 1 .. l : g[k] = file[k]
  BY <1>6 DEF Joined
<1>9. ASSUME NEW k \in 1 .. l + n, ~(k <= l)
      PROVE  k - l \in 1 .. n /\ g[k] = <<d, q + (k - l)>> /\ g[k][1] = d
             /\ g[k][2] = q + (k - l)
  <2>1. k - l \in 1 .. n /\ l + (k - l) = k
    BY <1>9
  <2>2. g[l + (k - l)] = b[k - l]
    BY <1>6, <2>1 DEF Joined
  <2>3. g[k] = <<d, q + (k - l)>>
    BY <1>5, <2>1, <2>2
  <2> QED
    BY <2>1, <2>3
<1>10. \A k \in 1 .. l : file[k][1] = d => file[k][2] <= q
  BY <1>1, <1>2, <1>3 DEF DoneThere
<1>11. \A k \in 1 .. l : file[k][2] \in 1 .. Length[file[k][1]]
  BY <1>2, <1>3 DEF Streamed
<1>12. \A k \in 1 .. l + n : g[k][2] \in 1 .. Length[g[k][1]]
  <2> TAKE k \in 1 .. l + n
  <2>1. CASE k <= l
    BY <1>8, <1>11, <2>1
  <2>2. CASE ~(k <= l)
    <3>1. Length[d] \in Nat
      BY CaptureAssumption
    <3> QED
      BY <1>1, <1>9, <2>2, <3>1, SMTT(30)
  <2> QED
    BY <2>1, <2>2
<1>13. \A j, k \in 1 .. l + n : g[j] = g[k] => j = k
  <2>1. ASSUME NEW j \in 1 .. l + n, NEW k \in 1 .. l + n, j <= l, ~(k <= l)
        PROVE  g[j] # g[k]
    <3>1. j \in 1 .. l
      BY <2>1
    <3>2. g[j] = file[j] /\ file[j][2] \in Int
      BY <1>8, <1>11, <3>1
    <3>3. g[k][1] = d /\ ~(g[k][2] <= q)
      BY <1>9, <2>1
    <3> QED
      BY <1>10, <3>1, <3>2, <3>3
  <2>2. ASSUME NEW j \in 1 .. l + n, NEW k \in 1 .. l + n, g[j] = g[k]
        PROVE  j = k
    <3>1. CASE j <= l /\ k <= l
      <4>1. j \in 1 .. l /\ k \in 1 .. l
        BY <3>1
      <4> QED
        BY <1>2, <1>7, <1>8, <2>2, <4>1 DEF Streamed, OneAfterAnother, IsInjective
    <3>2. CASE ~(j <= l) /\ ~(k <= l)
      <4>1. g[j][2] = q + (j - l) /\ g[k][2] = q + (k - l)
        BY <1>9, <3>2
      <4>2. q + (j - l) = q + (k - l)
        BY <2>2, <4>1
      <4> QED
        BY <4>2
    <3> QED
      BY <2>1, <2>2, <3>1, <3>2
  <2> QED
    BY <2>2
<1>14. ASSUME NEW k \in 1 .. l + n, g[k][2] > 1
       PROVE  k > 1 /\ g[k - 1] = <<g[k][1], g[k][2] - 1>>
  <2>1. CASE k <= l
    <3>1. k \in 1 .. l
      BY <2>1
    <3>2. k > 1 /\ file[k - 1] = <<file[k][1], file[k][2] - 1>>
      BY <1>2, <1>7, <1>8, <1>14, <3>1 DEF Streamed, OneAfterAnother
    <3>3. k - 1 \in 1 .. l
      BY <3>1, <3>2
    <3> QED
      BY <1>8, <3>1, <3>2, <3>3
  <2>2. CASE ~(k <= l)
    <3>1. g[k][1] = d /\ g[k][2] = q + (k - l)
      BY <1>9, <2>2
    <3>2. CASE k = l + 1
      <4>1. q > 0 /\ q + (k - l) - 1 = q
        BY <1>14, <3>1, <3>2
      <4>2. l > 0 /\ file[l] = <<d, q>>
        BY <1>1, <1>2, <1>3, <4>1 DEF BegunThere
      <4>3. k > 1 /\ k - 1 = l /\ g[l] = <<d, q>>
        BY <1>8, <3>2, <4>2
      <4> QED
        BY <3>1, <4>1, <4>3
    <3>3. CASE k # l + 1
      <4>1. k - 1 \in 1 .. l + n /\ ~(k - 1 <= l) /\ k > 1
        BY <2>2, <3>3
      <4>2. g[k - 1] = <<d, q + ((k - 1) - l)>>
        BY <1>9, <4>1
      <4>3. q + ((k - 1) - l) = q + (k - l) - 1
        OBVIOUS
      <4> QED
        BY <3>1, <4>1, <4>2, <4>3
    <3> QED
      BY <3>2, <3>3
  <2> QED
    BY <2>1, <2>2
<1>15. Streamed'
  BY <1>4, <1>7, <1>12, <1>13, <1>14 DEF Streamed, OneAfterAnother, IsInjective
<1>16. \A v \in Worker : Busy(v)' <=> Busy(v)
  BY <1>1 DEF Busy
<1>17. \A v \in Worker : pc'[v] # "lock" /\ Busy(v)' => v = w
  BY <1>1 DEF Busy
<1>18. BegunThere'
  <2>1. l + n \in 1 .. l + n /\ ~(l + n <= l) /\ (l + n) - l = n /\ l + n > 0
    OBVIOUS
  <2>2. g[l + n] = <<d, q + n>>
    BY <1>9, <2>1
  <2>3. Len(g) > 0 /\ g[Len(g)] = <<d, q + n>>
    BY <1>7, <2>1, <2>2
  <2> QED
    BY <1>1, <1>4, <1>17, <2>3 DEF BegunThere
<1>19. DoneThere'
  <2>1. ASSUME NEW k \in 1 .. l + n
        PROVE  /\ g[k][1] \notin net
               /\ \A v \in Worker : Busy(v)' /\ p[v] = g[k][1] =>
                                      pc'[v] # "lock" /\ g[k][2] <= pos'[v]
    <3>1. CASE k <= l
      <4>1. k \in 1 .. l /\ g[k] = file[k] /\ file[k][2] \in Int
        BY <1>8, <1>11, <3>1
      <4>2. /\ file[k][1] \notin net
            /\ \A v \in Worker : Busy(v) /\ p[v] = file[k][1] =>
                                   pc[v] # "lock" /\ file[k][2] <= pos[v]
        BY <1>2, <1>3, <4>1 DEF DoneThere
      <4>3. ASSUME NEW v \in Worker, Busy(v), p[v] = file[k][1]
            PROVE  pc'[v] # "lock" /\ file[k][2] <= pos'[v]
        <5>1. v = w /\ file[k][2] <= q
          BY <1>1, <4>2, <4>3 DEF Busy
        <5> QED
          BY <1>1, <4>1, <5>1
      <4> QED
        BY <1>16, <4>1, <4>2, <4>3
    <3>2. CASE ~(k <= l)
      <4>1. g[k][1] = d /\ g[k][2] = q + (k - l) /\ q + (k - l) <= q + n
        BY <1>9, <3>2
      <4>2. d \notin net /\ \A v \in Worker : Busy(v) /\ p[v] = d => v = w
        BY <1>1 DEF CaptureInv, InHand
      <4> QED
        BY <1>1, <1>16, <4>1, <4>2
    <3> QED
      BY <3>1, <3>2
  <2>2. p' = p /\ net' = net
    BY <1>1
  <2> QED
    BY <1>4, <1>7, <2>1, <2>2 DEF DoneThere
<1>20. f_state' = "stream"
  BY <1>1
<1>21. FileInv'
  BY <1>4, <1>7, <1>20 DEF FileInv
<1>22. StreamInv'
  BY <1>15, <1>18, <1>19 DEF StreamInv
<1> QED
  BY <1>3, <1>4, <1>7, <1>8, <1>21, <1>22

-----------------------------------------------------------------------------

\* No datagram that has come is forgotten.
Given ==
  \A d \in Datagram \ net :
    d \in Stored \cup lost \/ \E w \in Worker : Busy(w) /\ p[w] = d

\* Steps that write nothing, but for the end of a write.
LEMMA IdleSteps ==
  ASSUME CaptureInv, Given, NEW w \in Worker,
         Exit(w) \/ Recv(w) \/ Signal(w) \/ Lock(w) \/ PwriteRefused(w)
           \/ PwriteFails(w) \/ Account(w)
  PROVE  Idle /\ Given'
<1> USE DEF CaptureInv, CaptureType, TypeOK, Busy, Goto
<1>1. Idle
  BY DEF Idle, Exit, Recv, Signal, Lock, PwriteRefused, PwriteFails, Account
<1>2. Stored' = Stored
  BY <1>1 DEF Idle, Stored
<1>3. CASE Exit(w) \/ Signal(w) \/ Lock(w) \/ PwriteRefused(w) \/ Account(w)
  <2>1. net' = net /\ lost' = lost
        /\ \A v \in Worker : Busy(v) => Busy(v)' /\ p'[v] = p[v]
    BY <1>3 DEF Exit, Signal, Lock, PwriteRefused, Account
  <2> QED
    BY <1>1, <1>2, <2>1 DEF Given
<1>4. CASE Recv(w)
  <2>1. PICK d \in net : net' = net \ {d} /\ p' = [p EXCEPT ![w] = d]
    BY <1>4 DEF Recv
  <2>2. Busy(w)' /\ p'[w] = d /\ lost' = lost
    BY <1>4, <2>1, CaptureAssumption DEF Recv
  <2>3. \A v \in Worker : Busy(v) => Busy(v)' /\ p'[v] = p[v]
    BY <1>4, <2>1 DEF Recv
  <2> QED
    BY <1>1, <1>2, <2>1, <2>2, <2>3 DEF Given
<1>5. CASE PwriteFails(w)
  BY <1>1, <1>2, <1>5 DEF PwriteFails, Given
<1> QED
  BY <1>1, <1>3, <1>4, <1>5

LEMMA PwriteGiven ==
  ASSUME CaptureInv, FileInv, StreamInv, Given, NEW w \in Worker, Pwrite(w)
  PROVE  FileInv' /\ StreamInv' /\ Given'
<1>1. /\ UNCHANGED <<f_state, net, f_off, p, lost>>
      /\ \A v \in Worker : Busy(v) => Busy(v)'
  BY PwriteDoes DEF Busy
<1>2. f_state \in {"file", "stream"} /\ f_off \in Nat
  BY DEF CaptureInv, CaptureType, TypeOK
<1>3. CASE f_state = "file"
  <2>1. FileInv'
    BY <1>3, PwriteFile
  <2>2. StreamInv'
    BY <1>1, <1>3 DEF StreamInv
  <2>3. \A k \in 1 .. f_off : file'[k] = file[k]
    BY <1>3, PwriteFile
  <2>4. Stored' = Stored
    BY <1>1, <1>3, <2>3 DEF Stored
  <2> QED
    BY <1>1, <2>1, <2>2, <2>4 DEF Given
<1>4. CASE f_state = "stream"
  <2>1. /\ FileInv' /\ StreamInv'
        /\ file' \in Seq(FileByte) /\ Len(file) <= Len(file')
        /\ \A k \in 1 .. Len(file) : file'[k] = file[k]
    BY <1>4, PwriteStream
  <2>2. DOMAIN file = 1 .. Len(file) /\ DOMAIN file' = 1 .. Len(file')
        /\ Len(file) \in Nat /\ Len(file') \in Nat
    BY <2>1 DEF FileInv
  <2>3. DOMAIN file \subseteq DOMAIN file'
    BY <2>1, <2>2
  <2>4. Range(file) \subseteq Range(file)'
    BY <2>1, <2>2, <2>3 DEF Range
  <2>5. Stored \subseteq Stored'
    BY <1>1, <1>4, <2>4 DEF Stored
  <2> QED
    BY <1>1, <2>1, <2>5 DEF Given
<1> QED
  BY <1>2, <1>3, <1>4

LEMMA WrittenGiven ==
  ASSUME CaptureInv, FileInv, StreamInv, Given, NEW w \in Worker, Written(w)
  PROVE  FileInv' /\ StreamInv' /\ Given'
<1>1. PICK d \in Datagram : d = p[w]
  BY DEF Written, CaptureInv, CaptureType, TypeOK
<1>2. PICK n \in Nat \ {0} : n = Length[d]
  BY CaptureAssumption
<1>3. PICK f \in Nat : f = f_off
  BY DEF CaptureInv, CaptureType, TypeOK
<1>4. /\ pc[w] = "written" /\ Busy(w) /\ pos[w] = n
      /\ f_off' = f + n
      /\ UNCHANGED <<f_state, net, file, p, pos, lost>>
      /\ ~Busy(w)'
      /\ \A v \in Worker : v # w => pc'[v] = pc[v] /\ (Busy(v)' <=> Busy(v))
  BY <1>1, <1>2, <1>3 DEF Written, Busy, Goto, CaptureInv, CaptureType, TypeOK
<1>5. f_state \in {"file", "stream"}
  BY DEF CaptureInv, CaptureType, TypeOK
<1>6. CASE f_state = "file"
  <2>1. FileInv'
    BY <1>6, WrittenFile
  <2>2. StreamInv'
    BY <1>4, <1>6 DEF StreamInv
  <2>3. \A e \in Stored : e \in Stored'
    <3>1. \A k \in 1 .. f : k \in 1 .. f + n
      OBVIOUS
    <3> QED
      BY <1>3, <1>4, <1>6, <3>1 DEF Stored
  <2>4. d \in Stored'
    <3>1. file[f + 1] = <<d, 1>>
      BY <1>1, <1>3, <1>4, <1>6 DEF FileInv, Begun
    <3>2. f + 1 \in 1 .. f + n
      OBVIOUS
    <3> QED
      BY <1>4, <1>6, <3>1, <3>2 DEF Stored
  <2> QED
    BY <1>1, <1>4, <2>1, <2>2, <2>3, <2>4 DEF Given
<1>7. CASE f_state = "stream"
  <2>1. FileInv'
    BY <1>4, <1>7 DEF FileInv
  <2>2. Streamed /\ BegunThere /\ DoneThere
    BY <1>7 DEF StreamInv
  <2>3. Streamed' /\ BegunThere' /\ DoneThere'
    BY <1>4, <2>2 DEF Streamed, OneAfterAnother, BegunThere, DoneThere
  <2>4. StreamInv'
    BY <2>3 DEF StreamInv
  <2>5. <<d, n>> \in Range(file)
    <3>1. Len(file) > 0 /\ file[Len(file)] = <<d, n>>
      BY <1>1, <1>4, <2>2 DEF BegunThere
    <3>2. Len(file) \in DOMAIN file
      BY <3>1 DEF FileInv
    <3> QED
      BY <3>1, <3>2 DEF Range
  <2>6. Stored' = Stored /\ d \in Stored
    BY <1>2, <1>4, <1>7, <2>5 DEF Stored
  <2> QED
    BY <1>1, <1>4, <2>1, <2>4, <2>6 DEF Given
<1> QED
  BY <1>5, <1>6, <1>7

AppendInv == CaptureInv /\ FileInv /\ StreamInv /\ Given

LEMMA AppendInit == Init => AppendInv
<1> SUFFICES ASSUME Init PROVE AppendInv
  OBVIOUS
<1>1. FileInv
  BY DEF Init, FileInv, Tiled, Begun, Done, Busy
<1>2. StreamInv
  BY DEF Init, StreamInv, Streamed, OneAfterAnother, IsInjective, BegunThere, DoneThere, Busy
<1>3. Given
  BY DEF Init, Given
<1> QED
  BY <1>1, <1>2, <1>3, CaptureInit DEF AppendInv

LEMMA AppendStep == AppendInv /\ [Next]_vars => AppendInv'
<1> SUFFICES ASSUME AppendInv, [Next]_vars PROVE AppendInv'
  OBVIOUS
<1> USE DEF AppendInv
<1>1. CaptureInv'
  BY CaptureStep
<1>2. ASSUME NEW w \in Worker,
             Exit(w) \/ Recv(w) \/ Signal(w) \/ Lock(w) \/ PwriteRefused(w)
               \/ PwriteFails(w) \/ Account(w)
      PROVE  AppendInv'
  BY <1>1, <1>2, IdleSteps, IdleKeeps
<1>3. ASSUME NEW w \in Worker, Pwrite(w) PROVE AppendInv'
  BY <1>1, <1>3, PwriteGiven
<1>4. ASSUME NEW w \in Worker, Written(w) PROVE AppendInv'
  BY <1>1, <1>4, WrittenGiven
<1>5. CASE UNCHANGED vars
  <2>1. Idle
    BY <1>5 DEF vars, Idle, Busy
  <2>2. Given'
    BY <1>5 DEF vars, Given, Stored, Busy
  <2> QED
    BY <1>1, <2>1, <2>2, IdleKeeps
<1> QED
  BY <1>2, <1>3, <1>4, <1>5 DEF Next, Step

\* The bytes of the datagrams in the file are the first f_off of it.
LEMMA TiledWhole ==
  ASSUME CaptureInv, FileInv, f_state = "file"
  PROVE  WholeUpToOffset
<1>1. PICK f \in Nat : f = f_off
  BY DEF CaptureInv, CaptureType, TypeOK
<1>2. Tiled /\ Len(file) \in Nat
  BY DEF FileInv
<1> DEFINE B == UNION {{d} \X (1 .. Length[d]) : d \in Stored}
<1>3. \A d \in Datagram : d \in Stored <=> \E k \in 1 .. f : file[k] = <<d, 1>>
  BY <1>1 DEF Stored
<1>4. ASSUME NEW d \in Stored
      PROVE  \E a \in Nat : WholeAt(file, f, d, a)
  <2>1. PICK k \in 1 .. f : file[k] = <<d, 1>>
    BY <1>3 DEF Stored
  <2>2. PICK e \in Datagram, a \in Nat : WholeAt(file, f, e, a) /\ k - a \in 1 .. Length[e]
    BY <1>1, <1>2 DEF Tiled
  <2>3. file[k] = <<e, k - a>>
    <3>1. file[a + (k - a)] = <<e, k - a>>
      BY <2>2 DEF WholeAt
    <3>2. a + (k - a) = k
      OBVIOUS
    <3> QED
      BY <3>1, <3>2
  <2> QED
    BY <2>1, <2>2, <2>3
<1>5. ASSUME NEW k \in 1 .. f PROVE file[k] \in B
  <2>1. PICK e \in Datagram, a \in Nat : WholeAt(file, f, e, a) /\ k - a \in 1 .. Length[e]
    BY <1>1, <1>2 DEF Tiled
  <2>2. PICK n \in Nat \ {0} : n = Length[e]
    BY CaptureAssumption
  <2>3. a + n <= f /\ \A j \in 1 .. n : file[a + j] = <<e, j>>
    BY <2>1, <2>2 DEF WholeAt
  <2>4. a + 1 \in 1 .. f /\ file[a + 1] = <<e, 1>>
    BY <2>3
  <2>5. e \in Stored
    BY <1>3, <2>4
  <2>6. a + (k - a) = k /\ k - a \in 1 .. n
    BY <2>1, <2>2
  <2>7. file[k] = <<e, k - a>>
    BY <2>3, <2>6
  <2> QED
    BY <2>1, <2>5, <2>7
<1>6. Cardinality(B) = f
  <2> DEFINE g == [k \in 1 .. f |-> file[k]]
  <2>1. g \in [1 .. f -> B]
    BY <1>5
  <2>2. g \in Injection(1 .. f, B)
    BY <1>1, <1>2, <2>1 DEF Injection, IsInjective, Tiled
  <2>3. ASSUME NEW b \in B PROVE \E k \in 1 .. f : g[k] = b
    <3>1. PICK d \in Stored : b \in {d} \X (1 .. Length[d])
      OBVIOUS
    <3>2. PICK i \in 1 .. Length[d] : b = <<d, i>>
      BY <3>1
    <3>3. PICK a \in Nat : WholeAt(file, f, d, a)
      BY <1>4
    <3>4. PICK n \in Nat \ {0} : n = Length[d]
      BY CaptureAssumption DEF Stored
    <3>5. a + i \in 1 .. f /\ file[a + i] = <<d, i>>
      BY <3>3, <3>4 DEF WholeAt
    <3> QED
      BY <3>2, <3>5
  <2>4. g \in Surjection(1 .. f, B)
    BY <2>1, <2>3 DEF Surjection
  <2>5. g \in Bijection(1 .. f, B)
    BY <2>2, <2>4 DEF Bijection
  <2>6. IsFiniteSet(1 .. f) /\ Cardinality(1 .. f) = f
    BY FS_Interval
  <2>7. ExistsBijection(1 .. f, B)
    BY <2>5 DEF ExistsBijection
  <2> HIDE DEF B
  <2> QED
    BY <2>6, <2>7, FS_Bijection
<1>7. ASSUME NEW d \in Stored
      PROVE  \E k \in 0 .. f - Length[d] : SubSeq(file, k + 1, k + Length[d]) = Slice(d, 0, Length[d])
  <2>1. PICK n \in Nat \ {0} : n = Length[d]
    BY CaptureAssumption DEF Stored
  <2>2. PICK a \in Nat : a + n <= f /\ \A j \in 1 .. n : file[a + j] = <<d, j>>
    BY <1>4, <2>1 DEF WholeAt
  <2>3. SubSeq(file, a + 1, a + n) = [j \in 1 .. n |-> <<d, j>>]
    <3>1. SubSeq(file, a + 1, a + n) = [j \in 1 .. (a + n) - (a + 1) + 1 |-> file[(a + 1) + j - 1]]
      OBVIOUS
    <3>2. (a + n) - (a + 1) + 1 = n /\ \A j \in 1 .. n : (a + 1) + j - 1 = a + j
      OBVIOUS
    <3> QED
      BY <2>2, <3>1, <3>2
  <2>4. Slice(d, 0, n) = [j \in 1 .. n |-> <<d, j>>]
    BY DEF Slice
  <2>5. a \in 0 .. f - n
    BY <2>2
  <2> QED
    BY <2>1, <2>3, <2>4, <2>5
<1> QED
  BY <1>1, <1>2, <1>6, <1>7 DEF WholeUpToOffset, Tiled

\* For any datagrams and workers the captured file is whole datagrams up to
\* its offset, each once, however short the writes of pwrite are and wherever
\* they fail; on the standard output no datagram is torn by another; and none
\* that has come is dropped without its write having failed.
THEOREM CaptureWhole == Spec => []FileWhole
<1>1. AppendInv => FileWhole
  <2> SUFFICES ASSUME AppendInv PROVE FileWhole
    OBVIOUS
  <2>1. f_state = "stream" => OneAfterAnother
    BY DEF AppendInv, StreamInv, Streamed
  <2>2. f_state # "stream" => WholeUpToOffset
    BY TiledWhole DEF AppendInv, CaptureInv, CaptureType, TypeOK
  <2>3. \A d \in Datagram \ net :
          \/ d \in Stored \cup lost
          \/ \E w \in Worker : p[w] = d /\ pc[w] \in {"lock", "write", "written"}
    BY DEF AppendInv, Given, Busy
  <2> QED
    BY <2>1, <2>2, <2>3 DEF FileWhole
<1> QED
  BY <1>1, AppendInit, AppendStep, PTL DEF Spec

-----------------------------------------------------------------------------
\* The data that the children of a server share through a module.

ModulePlace == {"setup", "idle", "call", "shot", "destroy", "gone", "crashed"}

ModuleType ==
  /\ k_pc \in [ModChild -> ModulePlace] /\ k_at \in [ModChild -> Nat \ {0}]
  /\ \A c \in ModChild : k_pc[c] = "idle" => k_at[c] = 1
  /\ k_ss \in [ModChild -> Block \cup {NoBlock}]
  /\ s_data \in Block \cup {NoBlock} /\ flag \in [Block -> BOOLEAN]
  /\ DOMAIN log = {"sent", "pictures", "late", "short"}
  /\ log.pictures \in Nat /\ log.late \in Nat /\ timers \in Nat

OneBlock == alive = {s_data} \ {NoBlock}

\* The child c has yet to pass "snapshot" on its way out, or will never go.
StillToDestroy(c) ==
  /\ k_pc[c] # "gone"
  /\ k_pc[c] = "destroy" => \E j \in DOMAIN Order : k_at[c] <= j /\ Order[j] = "snapshot"

SomebodyDestroys ==
  s_data # NoBlock =>
    /\ \E j \in DOMAIN Order : Order[j] = "snapshot"
    /\ \E c \in ModChild : StillToDestroy(c)

\* The pictures there may still be: one, if the flag is set.
Pending == IF s_data # NoBlock /\ flag[s_data] THEN 1 ELSE 0

OnePicture == log.pictures + Pending <= MaxTimers - timers + log.late

ShotInv == ModuleType /\ OneBlock /\ SomebodyDestroys /\ OnePicture

LEMMA OrderType ==
  Order \in Seq({"snapshot", "writefile"}) /\ DOMAIN Order = 1 .. Len(Order)
BY ModulesAssumption DEF Order, TraverseStack

\* What the program counters are after the next module's turn has come.
LEMMA NextType ==
  ASSUME ModuleType, NEW c \in ModChild, NEW l \in ModulePlace \ {"idle"}, NextModule(c, l)
  PROVE  /\ k_pc' \in [ModChild -> ModulePlace] /\ k_at' \in [ModChild -> Nat \ {0}]
         /\ \A d \in ModChild : k_pc'[d] = "idle" => k_at'[d] = 1
         /\ k_pc'[c] = l /\ k_at'[c] = k_at[c] + 1
         /\ \A d \in ModChild \ {c} : k_pc'[d] = k_pc[d] /\ k_at'[d] = k_at[d]
BY DEF ModuleType, NextModule

LEMMA ShotInit == ModulesInit => ShotInv
<1> SUFFICES ASSUME ModulesInit PROVE ShotInv
  OBVIOUS
<1>1. ModuleType
  BY ModulesAssumption DEF ModulesInit, ModuleType, ModulePlace
<1>2. log.pictures = 0 /\ log.late = 0 /\ timers = MaxTimers /\ s_data = NoBlock /\ alive = {}
  BY DEF ModulesInit
<1>3. OnePicture
  BY <1>2, ModulesAssumption DEF OnePicture, Pending
<1> QED
  BY <1>1, <1>2, <1>3 DEF ShotInv, OneBlock, SomebodyDestroys

\* A step of one child that lets the shared data alone and is not past the
\* last "snapshot" of its way out afterwards, unless it was before.
LEMMA ShotKept ==
  ASSUME ShotInv, ModuleType', UNCHANGED shot, UNCHANGED timers,
         log'.pictures = log.pictures, log'.late = log.late,
         NEW c \in ModChild,
         \A d \in ModChild \ {c} : k_pc'[d] = k_pc[d] /\ k_at'[d] = k_at[d],
         s_data # NoBlock /\ StillToDestroy(c) => StillToDestroy(c)'
  PROVE  ShotInv'
<1>1. OneBlock' /\ OnePicture'
  BY DEF ShotInv, OneBlock, OnePicture, Pending, shot
<1>2. ASSUME NEW d \in ModChild, s_data # NoBlock, StillToDestroy(d) PROVE StillToDestroy(d)'
  <2>1. CASE d = c
    BY <1>2, <2>1
  <2>2. CASE d # c
    <3>1. k_pc'[d] = k_pc[d] /\ k_at'[d] = k_at[d] /\ Order' = Order
      BY <2>2 DEF Order
    <3> QED
      BY <1>2, <3>1 DEF StillToDestroy
  <2> QED
    BY <2>1, <2>2
<1>3. SomebodyDestroys'
  <2>1. s_data' = s_data /\ Order' = Order
    BY DEF shot, Order
  <2> QED
    BY <1>2, <2>1 DEF ShotInv, SomebodyDestroys
<1> QED
  BY <1>1, <1>3 DEF ShotInv

LEMMA SetupSnapshotStep ==
  ASSUME ShotInv, NEW c \in ModChild, SetupSnapshot(c)
  PROVE  ShotInv'
<1> USE DEF ShotInv
<1>0. /\ TurnOf(c, "setup", "snapshot") /\ NextModule(c, "setup")
      /\ UNCHANGED <<k_ss, log, timers>>
      /\ s_data' \in Block \cup {NoBlock} /\ flag' \in [Block -> BOOLEAN]
  BY DEF SetupSnapshot, ModuleType, shot
<1>1. ModuleType'
  BY <1>0, NextType DEF ModuleType, ModulePlace
<1>2. /\ TurnOf(c, "setup", "snapshot") /\ k_pc'[c] = "setup"
      /\ \A d \in ModChild \ {c} : k_pc'[d] = k_pc[d] /\ k_at'[d] = k_at[d]
      /\ UNCHANGED <<log, timers>>
  BY <1>0, NextType DEF ModulePlace
<1>3. StillToDestroy(c)'
  BY <1>2 DEF StillToDestroy
<1>4. CASE UNCHANGED shot
  BY <1>1, <1>2, <1>3, <1>4, ShotKept
<1>5. ASSUME NeedsSetup, NEW b \in Block \ alive, s_data' = b, alive' = alive \cup {b},
             flag' = [flag EXCEPT ![b] = FALSE]
      PROVE  ShotInv'
  <2>1. s_data = NoBlock /\ alive = {} /\ b # NoBlock
    BY <1>5, ModulesAssumption DEF NeedsSetup, OneBlock
  <2>2. OneBlock'
    BY <1>5, <2>1 DEF OneBlock
  <2>3. Pending = 0 /\ Pending' = 0
    BY <1>5, <2>1 DEF Pending, ModuleType
  <2>4. OnePicture'
    BY <1>2, <2>3 DEF OnePicture
  <2>5. \E j \in DOMAIN Order' : Order'[j] = "snapshot"
    BY <1>2 DEF TurnOf, Order
  <2> QED
    BY <1>1, <1>3, <2>2, <2>4, <2>5 DEF SomebodyDestroys
<1> QED
  BY <1>4, <1>5 DEF SetupSnapshot

LEMMA DestroySnapshotStep ==
  ASSUME ShotInv, NEW c \in ModChild, DestroySnapshot(c)
  PROVE  ShotInv'
<1> USE DEF ShotInv
<1>1. ModuleType'
  BY DEF DestroySnapshot, NextModule, ModuleType, ModulePlace, Cleared
<1>2. s_data' = NoBlock /\ alive' = {} /\ UNCHANGED <<log, timers>>
  BY DEF DestroySnapshot, Cleared, OneBlock
<1>3. Pending' = 0 /\ Pending \in {0, 1}
  BY <1>2 DEF Pending
<1>4. OnePicture'
  BY <1>2, <1>3, ModulesAssumption DEF OnePicture, ModuleType
<1> QED
  BY <1>1, <1>2, <1>4 DEF OneBlock, SomebodyDestroys

LEMMA SnapshotStep ==
  ASSUME ShotInv, NEW c \in ModChild, Snapshot(c)
  PROVE  ShotInv'
<1> USE DEF ShotInv
<1> DEFINE ss == k_ss[c]
<1>0. /\ k_pc[c] = "shot" /\ NextModule(c, "call")
      /\ UNCHANGED <<k_ss, s_data, alive, timers>>
  BY DEF Snapshot, TurnOf
<1>1. /\ k_pc[c] = "shot" /\ k_pc'[c] = "call"
      /\ \A d \in ModChild \ {c} : k_pc'[d] = k_pc[d] /\ k_at'[d] = k_at[d]
      /\ UNCHANGED <<k_ss, s_data, alive, timers>>
      /\ k_pc' \in [ModChild -> ModulePlace] /\ k_at' \in [ModChild -> Nat \ {0}]
      /\ \A d \in ModChild : k_pc'[d] = "idle" => k_at'[d] = 1
  BY <1>0, NextType DEF ModulePlace
<1>2. StillToDestroy(c)'
  BY <1>1 DEF StillToDestroy
<1>3. CASE ss = NoBlock
  <2>1. UNCHANGED <<flag, log>>
    BY <1>3 DEF Snapshot
  <2> QED
    BY <1>1, <1>2, <2>1, ShotKept DEF ModuleType, shot
<1>4. CASE ss # NoBlock
  <2>1. PICK found \in IF ss \in alive THEN {flag[ss]} ELSE BOOLEAN :
          /\ flag' = IF found THEN Taken(flag, ss) ELSE flag
          /\ log' = [log EXCEPT !.pictures = @ + IF found THEN 1 ELSE 0,
                                !.late = @ + IF ss \in alive THEN 0 ELSE 1]
    BY <1>4 DEF Snapshot
  <2>2. ss \in Block /\ found \in BOOLEAN
    BY <1>4, <2>1 DEF ModuleType
  <2>3. /\ log'.pictures = log.pictures + (IF found THEN 1 ELSE 0)
        /\ log'.late = log.late + (IF ss \in alive THEN 0 ELSE 1)
        /\ DOMAIN log' = DOMAIN log
    BY <2>1 DEF ModuleType
  <2>4. flag' \in [Block -> BOOLEAN]
    BY <2>1, <2>2 DEF Taken, ModuleType
  <2>5. ModuleType'
    BY <1>1, <2>3, <2>4 DEF ModuleType
  <2>6. OnePicture'
    <3>1. CASE ss \in alive
      <4>1. s_data = ss /\ s_data' = ss /\ s_data # NoBlock /\ found = flag[ss]
        BY <1>1, <1>4, <2>1, <3>1 DEF OneBlock
      <4>2. flag'[ss] = FALSE
        BY <2>1, <2>2, <4>1 DEF Taken, ModuleType
      <4>3. Pending = (IF found THEN 1 ELSE 0) /\ Pending' = 0
        BY <4>1, <4>2 DEF Pending
      <4> QED
        BY <1>1, <2>3, <3>1, <4>3, ModulesAssumption DEF OnePicture, ModuleType
    <3>2. CASE ss \notin alive
      <4>1. s_data # NoBlock => s_data # ss /\ flag'[s_data] = flag[s_data]
        BY <1>4, <2>1, <2>2, <3>2 DEF OneBlock, Taken, ModuleType
      <4>2. Pending' = Pending /\ Pending \in {0, 1}
        BY <1>1, <4>1 DEF Pending
      <4> QED
        BY <1>1, <2>2, <2>3, <3>2, <4>2, ModulesAssumption DEF OnePicture, ModuleType
    <3> QED
      BY <3>1, <3>2
  <2>7. SomebodyDestroys'
    BY <1>1, <1>2 DEF SomebodyDestroys, Order
  <2> QED
    BY <1>1, <2>5, <2>6, <2>7 DEF OneBlock
<1> QED
  BY <1>3, <1>4

LEMMA RunTimersStep == ASSUME ShotInv, RunTimers PROVE ShotInv'
<1> USE DEF ShotInv
<1>1. /\ timers > 0 /\ timers' = timers - 1 /\ s_data # NoBlock
      /\ flag' = [flag EXCEPT ![s_data] = TRUE]
      /\ UNCHANGED <<k_pc, k_at, k_ss, s_data, alive, log>>
  BY DEF RunTimers
<1>2. ModuleType'
  BY <1>1 DEF ModuleType
<1>3. Pending \in {0, 1} /\ Pending' = 1
  BY <1>1 DEF Pending, ModuleType
<1>4. OnePicture'
  BY <1>1, <1>3, ModulesAssumption DEF OnePicture, ModuleType
<1> QED
  BY <1>1, <1>2, <1>4 DEF OneBlock, SomebodyDestroys, StillToDestroy, Order

LEMMA ShotStep == ShotInv /\ [ModulesNext]_mvars => ShotInv'
<1> SUFFICES ASSUME ShotInv, [ModulesNext]_mvars PROVE ShotInv'
  OBVIOUS
<1>1. ASSUME NEW c \in ModChild,
             SetupWritefile(c) \/ ReadShared(c) \/ OpenFile(c) \/ WriteFile(c) \/ SkipFile(c)
             \/ HeapComplete(c) \/ Crash(c)
      PROVE  ShotInv'
  <2> USE DEF ShotInv
  <2>1. /\ UNCHANGED shot /\ UNCHANGED timers
        /\ log'.pictures = log.pictures /\ log'.late = log.late /\ DOMAIN log' = DOMAIN log
        /\ k_ss' \in [ModChild -> Block \cup {NoBlock}]
    BY <1>1 DEF SetupWritefile, HeapComplete, ReadShared, OpenFile, WriteFile, Crash, SkipFile,
                ModuleType
  <2>2. \/ NextModule(c, "setup") \/ NextModule(c, "call")
        \/ \E l \in {"call", "shot", "crashed"} : k_pc' = [k_pc EXCEPT ![c] = l] /\ k_at' = k_at
        \/ k_pc[c] = "call" /\ UNCHANGED <<k_pc, k_at>>
    BY <1>1 DEF SetupWritefile, HeapComplete, ReadShared, OpenFile, WriteFile, Crash, SkipFile,
                TurnOf
  <2>3. /\ k_pc' \in [ModChild -> ModulePlace] /\ k_at' \in [ModChild -> Nat \ {0}]
        /\ \A d \in ModChild : k_pc'[d] = "idle" => k_at'[d] = 1
        /\ k_pc'[c] \notin {"destroy", "gone"}
        /\ \A d \in ModChild \ {c} : k_pc'[d] = k_pc[d] /\ k_at'[d] = k_at[d]
    BY <2>2, NextType DEF ModuleType, ModulePlace
  <2>4. ModuleType'
    BY <2>1, <2>3 DEF ModuleType, shot
  <2>5. StillToDestroy(c)'
    BY <2>3 DEF StillToDestroy
  <2> HIDE DEF ShotInv
  <2> QED
    BY <2>1, <2>3, <2>4, <2>5, ShotKept
<1>2. ASSUME NEW c \in ModChild, SetUp(c) \/ Called(c) PROVE ShotInv'
  <2>1. /\ ModuleType' /\ UNCHANGED shot /\ UNCHANGED <<timers, log>> /\ k_pc'[c] = "idle"
        /\ \A d \in ModChild \ {c} : k_pc'[d] = k_pc[d] /\ k_at'[d] = k_at[d]
    BY <1>2 DEF SetUp, Called, LoopEnds, ShotInv, ModuleType, ModulePlace, shot
  <2>2. StillToDestroy(c)'
    BY <2>1 DEF StillToDestroy
  <2> QED
    BY <2>1, <2>2, ShotKept
<1>3. ASSUME NEW c \in ModChild, Return(c) PROVE ShotInv'
  <2>1. /\ ModuleType' /\ UNCHANGED shot /\ UNCHANGED <<timers, log, k_at>>
        /\ k_pc[c] = "idle" /\ k_pc'[c] = "destroy"
        /\ \A d \in ModChild \ {c} : k_pc'[d] = k_pc[d] /\ k_at'[d] = k_at[d]
    BY <1>3 DEF Return, ShotInv, ModuleType, ModulePlace, shot
  <2>2. s_data # NoBlock => StillToDestroy(c)'
    BY <2>1, OrderType DEF StillToDestroy, ShotInv, ModuleType, SomebodyDestroys, Order
  <2> QED
    BY <2>1, <2>2, ShotKept
<1>4. ASSUME NEW c \in ModChild, DestroyWritefile(c) PROVE ShotInv'
  <2>1. /\ ModuleType' /\ UNCHANGED shot /\ UNCHANGED <<timers, log>>
        /\ TurnOf(c, "destroy", "writefile") /\ k_pc'[c] = "destroy" /\ k_at'[c] = k_at[c] + 1
        /\ \A d \in ModChild \ {c} : k_pc'[d] = k_pc[d] /\ k_at'[d] = k_at[d]
    BY <1>4 DEF DestroyWritefile, NextModule, TurnOf, ShotInv, ModuleType, ModulePlace, shot
  <2>2. \A j \in DOMAIN Order : k_at[c] <= j /\ Order[j] = "snapshot" => k_at[c] + 1 <= j
    BY <2>1, OrderType DEF TurnOf, ShotInv, ModuleType
  <2>3. StillToDestroy(c) => StillToDestroy(c)'
    BY <2>1, <2>2 DEF StillToDestroy, TurnOf, Order
  <2> QED
    BY <2>1, <2>3, ShotKept
<1>5. ASSUME NEW c \in ModChild, Gone(c) PROVE ShotInv'
  <2>1. /\ ModuleType' /\ UNCHANGED shot /\ UNCHANGED <<timers, log>>
        /\ k_pc[c] = "destroy" /\ k_at[c] \notin DOMAIN Order
        /\ \A d \in ModChild \ {c} : k_pc'[d] = k_pc[d] /\ k_at'[d] = k_at[d]
    BY <1>5 DEF Gone, LoopEnds, ShotInv, ModuleType, ModulePlace, shot
  <2>2. ~StillToDestroy(c)
    BY <2>1, OrderType DEF StillToDestroy, ShotInv, ModuleType
  <2> QED
    BY <2>1, <2>2, ShotKept
<1>6. CASE UNCHANGED mvars
  BY <1>6 DEF mvars, shot, ShotInv, ModuleType, OneBlock, SomebodyDestroys, StillToDestroy,
              OnePicture, Pending, Order
<1> QED
  BY <1>1, <1>2, <1>3, <1>4, <1>5, <1>6, SetupSnapshotStep, DestroySnapshotStep, SnapshotStep,
     RunTimersStep DEF ModulesNext, ModuleStep

\* What the children share through "snapshot" exists at most once, is gone
\* when they are, and is good for one picture a turn of the timer, in any
\* pipeline and whichever child sets up, calls back or destroys first.
THEOREM OneForAll == ModulesSpec => []SharedDataRight
<1>1. ShotInv => SharedDataRight
  <2> SUFFICES ASSUME ShotInv PROVE SharedDataRight
    OBVIOUS
  <2>1. Cardinality({b \in alive : flag[b]}) = Pending
    <3>1. CASE s_data # NoBlock /\ flag[s_data]
      <4>1. {b \in alive : flag[b]} = {s_data}
        BY <3>1 DEF ShotInv, OneBlock
      <4> QED
        BY <3>1, <4>1, FS_Singleton DEF Pending
    <3>2. CASE ~(s_data # NoBlock /\ flag[s_data])
      <4>1. {b \in alive : flag[b]} = {}
        BY <3>2 DEF ShotInv, OneBlock
      <4> QED
        BY <3>2, <4>1, FS_EmptySet DEF Pending
    <3> QED
      BY <3>1, <3>2
  <2>2. (\A c \in ModChild : k_pc[c] = "gone") => s_data = NoBlock
    BY DEF ShotInv, SomebodyDestroys, StillToDestroy
  <2> QED
    BY <2>1, <2>2 DEF ShotInv, OneBlock, OnePicture, SharedDataRight
<1> QED
  BY <1>1, ShotInit, ShotStep, PTL DEF ModulesSpec

-----------------------------------------------------------------------------
\* The file that the children put together.

\* Bytes of the copies, and what "writefile" keeps.
CopyByte == [file : Files \cup {NoFile}, off : Int]
Sink == [state : {"null", "stat", "write"}, fd : Files \cup {NoFile}]

CopyType ==
  /\ log.sent \in Traffic /\ arriving \subseteq log.sent
  /\ k_heap \in [ModChild -> log.sent \cup {NoHeap}]
  /\ k_ws \in [ModChild -> Sink]
  /\ copies \in [Files -> [Offsets -> CopyByte]]

\* No other file than f is sent.
Alone(f) == \A h \in log.sent : h.file \in {f, NoFile}

\* A child has its file's name from one of the heaps.
Named ==
  \A c \in ModChild : k_ws[c].state = "write" =>
    \E h \in log.sent : h.file # NoFile /\ h.file = k_ws[c].fd

InPlace ==
  \A f \in Files : \A o \in Offsets : copies[f][o] # Hole =>
    copies[f][o].off = o /\ (copies[f][o].file = f \/ ~Alone(f))

\* A heap is at hand in the callbacks only; one that kills has no chunk.
AtHand ==
  \A c \in ModChild :
    /\ k_pc[c] \notin {"call", "shot", "crashed"} => k_heap[c] = NoHeap
    /\ k_pc[c] = "crashed" => k_heap[c].file = NoFile

\* The child c has been at "writefile" with the heap at hand.
Passed(c) == \E j \in DOMAIN Order : j < k_at[c] /\ Order[j] = "writefile"

Copied(h) == \A o \in h.off .. h.off + h.len - 1 : copies[h.file][o] # Hole

\* A chunk is on its way, in the copy or cut short.
Tracked ==
  \A h \in log.sent \ log.short : h.file # NoFile /\ Alone(h.file) =>
    \/ h \in arriving
    \/ \E c \in ModChild : k_heap[c] = h /\ ~Passed(c)
    \/ Copied(h)

CopyInv == CopyType /\ Named /\ InPlace /\ AtHand /\ Tracked

LEMMA CopyInit == ModulesInit => CopyInv
<1> SUFFICES ASSUME ModulesInit PROVE CopyInv
  OBVIOUS
<1> USE DEF ModulesInit
<1>1. log.sent = arriving /\ arriving \in Traffic
  OBVIOUS
<1>2. Hole \in CopyByte /\ NoSink \in Sink
  BY DEF Hole, CopyByte, NoSink, Sink
<1>3. CopyType
  BY <1>1, <1>2 DEF CopyType
<1>4. Named
  BY DEF Named, NoSink
<1>5. InPlace
  BY DEF InPlace
<1>6. AtHand
  BY DEF AtHand
<1>7. Tracked
  BY <1>1 DEF Tracked
<1> QED
  BY <1>3, <1>4, <1>5, <1>6, <1>7 DEF CopyInv

LEMMA HeapType ==
  ASSUME CopyType, NEW h \in log.sent
  PROVE  /\ h.off \in Nat /\ h.len \in Nat
         /\ h.file # NoFile => h.file \in Files
         /\ h.off .. h.off + h.len - 1 \subseteq Offsets
<1>1. h \in UNION Traffic
  BY DEF CopyType
<1> QED
  BY <1>1, ModulesAssumption DEF Files, Offsets

\* The child c goes on, and no byte of a copy becomes a hole again.
Along(c) ==
  /\ log'.sent = log.sent /\ log.short \subseteq log'.short
  /\ \A d \in ModChild \ {c} : k_heap'[d] = k_heap[d] /\ k_at'[d] = k_at[d]
  /\ \A f \in Files, o \in Offsets : copies[f][o] # Hole => copies'[f][o] # Hole

LEMMA TrackedAlong ==
  ASSUME CopyInv, NEW c \in ModChild, Along(c),
         arriving' = arriving \/ \E h : arriving' = arriving \ {h} /\ k_heap'[c] = h /\ ~Passed(c)',
         \A h \in log.sent \ log'.short :
           h = k_heap[c] /\ h.file # NoFile /\ ~Passed(c) /\ Alone(h.file) =>
             Copied(h)' \/ (k_heap'[c] = h /\ ~Passed(c)')
  PROVE  Tracked'
<1> SUFFICES ASSUME NEW h \in log.sent, h \notin log'.short, h.file # NoFile, Alone(h.file)'
             PROVE  \/ h \in arriving'
                    \/ \E d \in ModChild : k_heap'[d] = h /\ ~Passed(d)'
                    \/ Copied(h)'
  BY DEF Tracked, Along
<1>1. Alone(h.file) /\ h \notin log.short
  BY DEF Alone, Along
<1>2. CASE h \in arriving
  BY <1>2
<1>3. CASE \E d \in ModChild : k_heap[d] = h /\ ~Passed(d)
  <2>1. PICK d \in ModChild : k_heap[d] = h /\ ~Passed(d)
    BY <1>3
  <2>2. CASE d = c
    BY <1>1, <2>1, <2>2
  <2>3. CASE d # c
    BY <2>1, <2>3 DEF Along, Passed, Order
  <2> QED
    BY <2>2, <2>3
<1>4. CASE Copied(h)
  BY <1>4, HeapType DEF Copied, Along, CopyInv
<1> QED
  BY <1>1, <1>2, <1>3, <1>4 DEF CopyInv, Tracked

\* A step that writes no copy.
LEMMA QuietCopies ==
  ASSUME CopyInv, UNCHANGED copies, log'.sent = log.sent
  PROVE  InPlace'
BY DEF CopyInv, InPlace, Alone

\* The module at hand is not "writefile": the child has not passed it.
LEMMA SnapshotPassed ==
  ASSUME NEW c \in ModChild, k_at \in [ModChild -> Nat \ {0}],
         NEW k, NEW l, TurnOf(c, k, "snapshot"), NextModule(c, l), ~Passed(c)
  PROVE  ~Passed(c)'
BY OrderType DEF Passed, TurnOf, NextModule, Order

\* The copy, with the first n bytes of the chunk h put over it.
CopiedOver(h, n, copy) ==
  [o \in Offsets |->
     IF \E q \in 0 .. n - 1 : Place(h, q) = o
     THEN [file |-> h.file, off |-> h.off + (CHOOSE q \in 0 .. n - 1 : Place(h, q) = o)]
     ELSE copy[o]]

LEMMA WriteFileStep ==
  ASSUME ShotInv, CopyInv, NEW c \in ModChild, WriteFile(c)
  PROVE  CopyInv'
<1>0. /\ k_pc \in [ModChild -> ModulePlace] /\ k_at \in [ModChild -> Nat \ {0}]
      /\ DOMAIN log = {"sent", "pictures", "late", "short"}
  BY DEF ShotInv, ModuleType
<1>a. CopyType /\ Named /\ InPlace /\ AtHand
  BY DEF CopyInv
<1>1. PICK h : h = k_heap[c]
  OBVIOUS
<1>2. /\ UNCHANGED <<k_heap, k_ws, arriving>>
      /\ k_pc[c] = "call" /\ k_pc' = [k_pc EXCEPT ![c] = "call"] /\ h.file # NoFile
      /\ \A d \in ModChild \ {c} : k_at'[d] = k_at[d]
      /\ log'.sent = log.sent /\ log.short \subseteq log'.short
      /\ k_ws[c].state = "write"
  BY <1>0, <1>1 DEF WriteFile, TurnOf, NextModule
<1>3. h \in log.sent /\ h.off \in Nat /\ h.len \in Nat /\ h.file \in Files
      /\ h.off .. h.off + h.len - 1 \subseteq Offsets
  BY <1>a, <1>1, <1>2, HeapType DEF CopyType, NoHeap
<1>4. PICK g \in Files : g = k_ws[c].fd /\ \E s \in log.sent : s.file = g
  BY <1>a, <1>2, HeapType DEF Named
<1>5. PICK n \in 0 .. h.len :
        /\ copies' = [copies EXCEPT ![g] = CopiedOver(h, n, copies[g])]
        /\ n < h.len => h \in log'.short
  <2>1. PICK n \in IF ModFaults THEN 0 .. k_heap[c].len ELSE {k_heap[c].len} :
          /\ copies' = [copies EXCEPT ![k_ws[c].fd] =
                          CopiedOver(k_heap[c], n, copies[k_ws[c].fd])]
          /\ log' = IF n < k_heap[c].len THEN [log EXCEPT !.short = @ \cup {k_heap[c]}] ELSE log
    BY DEF WriteFile, CopiedOver
  <2>2. n \in 0 .. h.len
    BY <1>1, <1>3, <2>1
  <2>3. copies' = [copies EXCEPT ![g] = CopiedOver(h, n, copies[g])]
    BY <1>1, <1>4, <2>1
  <2>4. n < h.len => h \in log'.short
    BY <1>0, <1>1, <2>1
  <2> QED
    BY <2>2, <2>3, <2>4
<1>6. \A f \in Files \ {g} : copies'[f] = copies[f]
  BY <1>a, <1>5 DEF CopyType
<1> DEFINE Hit(o) == \E q \in 0 .. n - 1 : h.off + q = o
<1>7. \A o \in Offsets :
        /\ Hit(o) => copies'[g][o] = [file |-> h.file, off |-> o]
        /\ ~Hit(o) => copies'[g][o] = copies[g][o]
  <2>1. copies'[g] = CopiedOver(h, n, copies[g])
    BY <1>a, <1>5 DEF CopyType
  <2> TAKE o \in Offsets
  <2>2. ASSUME \E q \in 0 .. n - 1 : Place(h, q) = o
        PROVE  h.off + (CHOOSE q \in 0 .. n - 1 : Place(h, q) = o) = o
    BY <2>2 DEF Place
  <2>3. copies'[g][o] = IF \E q \in 0 .. n - 1 : Place(h, q) = o
                          THEN [file |-> h.file,
                                off |-> h.off + (CHOOSE q \in 0 .. n - 1 : Place(h, q) = o)]
                          ELSE copies[g][o]
    BY <2>1 DEF CopiedOver
  <2>4. Hit(o) <=> \E q \in 0 .. n - 1 : Place(h, q) = o
    BY DEF Place
  <2> QED
    BY <2>2, <2>3, <2>4
<1>8. \A o \in Offsets : Hit(o) => copies'[g][o] # Hole /\ copies'[g][o] \in CopyByte
  <2> TAKE o \in Offsets
  <2> HAVE Hit(o)
  <2>1. o \in Int
    BY <1>3
  <2>2. copies'[g][o] = [file |-> h.file, off |-> o]
    BY <1>7
  <2>3. copies'[g][o].file = h.file /\ Hole.file = NoFile
    BY <2>2 DEF Hole
  <2> QED
    BY <1>2, <1>3, <2>1, <2>2, <2>3 DEF CopyByte
<1> HIDE DEF Hit
<1>9. CopyType'
  <2>1. copies' \in [Files -> [Offsets -> CopyByte]]
    <3>1. ASSUME NEW o \in Offsets PROVE copies'[g][o] \in CopyByte
      BY <1>a, <1>7, <1>8 DEF CopyType
    <3>2. copies'[g] = CopiedOver(h, n, copies[g])
      BY <1>a, <1>5 DEF CopyType
    <3>3. CopiedOver(h, n, copies[g]) \in [Offsets -> CopyByte]
      BY <3>1, <3>2 DEF CopiedOver
    <3> QED
      BY <1>a, <1>5, <3>3 DEF CopyType
  <2> QED
    BY <1>a, <1>2, <2>1 DEF CopyType
<1>10. Named' /\ \A f : Alone(f)' = Alone(f)
  BY <1>a, <1>2 DEF Named, Alone
<1>11. InPlace'
  <2> SUFFICES ASSUME NEW f \in Files, NEW o \in Offsets, copies'[f][o] # Hole
               PROVE  copies'[f][o].off = o /\ (copies'[f][o].file = f \/ ~Alone(f))
    BY <1>10 DEF InPlace
  <2>1. CASE f = g /\ Hit(o)
    <3>0. copies'[f][o] = [file |-> h.file, off |-> o]
      BY <1>7, <2>1
    <3>1. copies'[f][o].off = o /\ copies'[f][o].file = h.file
      BY <3>0
    <3> QED
      BY <1>2, <1>3, <3>1 DEF Alone
  <2>2. CASE ~(f = g /\ Hit(o))
    <3>1. copies'[f][o] = copies[f][o]
      BY <1>6, <1>7, <2>2
    <3> QED
      BY <1>a, <3>1 DEF InPlace
  <2> QED
    BY <2>1, <2>2
<1>12. AtHand'
  BY <1>0, <1>a, <1>2 DEF AtHand
<1>13. Along(c)
  BY <1>2, <1>6, <1>7, <1>8 DEF Along
<1>14. ASSUME h \notin log'.short, Alone(h.file) PROVE Copied(h)'
  <2>1. h.file = g
    BY <1>4, <1>14 DEF Alone, Files
  <2>2. n = h.len
    BY <1>3, <1>5, <1>14
  <2>3. \A o \in h.off .. h.off + h.len - 1 : copies'[g][o] # Hole
    <3> TAKE o \in h.off .. h.off + h.len - 1
    <3>1. o - h.off \in 0 .. n - 1 /\ h.off + (o - h.off) = o
      BY <1>3, <2>2
    <3> QED
      BY <1>3, <1>8, <3>1 DEF Hit
  <2> QED
    BY <2>1, <2>3 DEF Copied
<1>15. Tracked'
  BY <1>1, <1>2, <1>13, <1>14, TrackedAlong
<1> QED
  BY <1>9, <1>10, <1>11, <1>12, <1>15 DEF CopyInv

LEMMA CopyStep ==
  ASSUME \E i \in DOMAIN Pipeline : Pipeline[i] = "writefile"
  PROVE  ShotInv /\ CopyInv /\ [ModulesNext]_mvars => CopyInv'
<1> SUFFICES ASSUME ShotInv, CopyInv, [ModulesNext]_mvars PROVE CopyInv'
  OBVIOUS
<1>0. /\ k_pc \in [ModChild -> ModulePlace] /\ k_at \in [ModChild -> Nat \ {0}]
      /\ \A c \in ModChild : k_pc[c] = "idle" => k_at[c] = 1
      /\ DOMAIN log = {"sent", "pictures", "late", "short"}
  BY DEF ShotInv, ModuleType
<1>a. CopyType /\ Named /\ InPlace /\ AtHand
  BY DEF CopyInv
<1>1. ASSUME NEW c \in ModChild, SetupSnapshot(c) \/ DestroySnapshot(c) \/ Snapshot(c)
      PROVE  CopyInv'
  <2>1. PICK l \in {"setup", "destroy", "call"} :
          NextModule(c, l) /\ (l # "call" => k_pc[c] = l) /\ (l = "call" => k_pc[c] = "shot")
    BY <1>1 DEF SetupSnapshot, DestroySnapshot, Snapshot, TurnOf
  <2>2. /\ UNCHANGED <<k_heap, k_ws, copies, arriving>>
        /\ log'.sent = log.sent /\ log'.short = log.short
    BY <1>0, <1>1 DEF SetupSnapshot, DestroySnapshot, Snapshot
  <2>3. CopyType' /\ Named' /\ InPlace'
    BY <1>a, <2>2, QuietCopies DEF CopyType, Named
  <2>4. AtHand'
    BY <1>0, <1>a, <2>1, <2>2 DEF AtHand, NextModule, ModulePlace
  <2>5. ~Passed(c) => ~Passed(c)'
    BY <1>0, <1>1, <2>1, SnapshotPassed DEF SetupSnapshot, DestroySnapshot, Snapshot
  <2>6. Along(c)
    BY <1>0, <2>1, <2>2 DEF Along, NextModule
  <2>7. Tracked'
    BY <2>2, <2>5, <2>6, TrackedAlong
  <2> QED
    BY <2>3, <2>4, <2>7 DEF CopyInv
<1>2. ASSUME NEW c \in ModChild, ReadShared(c) PROVE CopyInv'
  <2>1. /\ UNCHANGED <<k_heap, k_ws, copies, arriving, log>>
        /\ k_pc[c] = "call" /\ k_pc' = [k_pc EXCEPT ![c] = k_pc'[c]] /\ k_pc'[c] \in {"call", "shot"}
        /\ \A d \in ModChild \ {c} : k_at'[d] = k_at[d]
    BY <1>0, <1>2 DEF ReadShared, TurnOf, NextModule
  <2>2. CopyType' /\ Named' /\ InPlace'
    BY <1>a, <2>1, QuietCopies DEF CopyType, Named
  <2>3. AtHand'
    BY <1>0, <1>a, <2>1 DEF AtHand
  <2>4. ~Passed(c) => ~Passed(c)'
    BY <1>0, <1>2, SnapshotPassed DEF ReadShared, Passed, Order
  <2>5. Along(c)
    BY <2>1 DEF Along
  <2>6. Tracked'
    BY <2>1, <2>4, <2>5, TrackedAlong
  <2> QED
    BY <2>2, <2>3, <2>6 DEF CopyInv
<1>3. ASSUME NEW c \in ModChild, SetupWritefile(c) \/ DestroyWritefile(c) PROVE CopyInv'
  <2>0. k_ws' = k_ws \/ \E s \in Sink : s.state # "write" /\ k_ws' = [k_ws EXCEPT ![c] = s]
    <3>1. [state |-> "stat", fd |-> NoFile] \in Sink /\ NoSink \in Sink
      BY DEF Sink, NoSink
    <3> QED
      BY <1>3, <3>1 DEF SetupWritefile, DestroyWritefile, NoSink
  <2>1. /\ UNCHANGED <<k_heap, copies, arriving, log>>
        /\ k_pc[c] \in {"setup", "destroy"} /\ k_pc' = [k_pc EXCEPT ![c] = k_pc[c]]
        /\ \A d \in ModChild \ {c} : k_at'[d] = k_at[d]
        /\ \A d \in ModChild \ {c} : k_ws'[d] = k_ws[d]
        /\ k_ws' \in [ModChild -> Sink]
        /\ k_ws'[c].state = "write" => k_ws'[c] = k_ws[c]
    <3>1. /\ UNCHANGED <<k_heap, copies, arriving, log>>
          /\ k_pc[c] \in {"setup", "destroy"} /\ k_pc' = [k_pc EXCEPT ![c] = k_pc[c]]
          /\ \A d \in ModChild \ {c} : k_at'[d] = k_at[d]
      BY <1>0, <1>3 DEF SetupWritefile, DestroyWritefile, TurnOf, NextModule
    <3> QED
      BY <1>a, <2>0, <3>1 DEF CopyType
  <2>2. CopyType' /\ Named' /\ InPlace'
    BY <1>a, <2>1, QuietCopies DEF CopyType, Named
  <2>3. AtHand'
    BY <1>0, <1>a, <2>1 DEF AtHand
  <2>4. k_heap[c] = NoHeap
    BY <1>a, <2>1 DEF AtHand
  <2>5. Along(c)
    BY <2>1 DEF Along
  <2>6. Tracked'
    BY <2>1, <2>4, <2>5, TrackedAlong DEF NoHeap
  <2> QED
    BY <2>2, <2>3, <2>6 DEF CopyInv
<1>4. ASSUME NEW c \in ModChild, SetUp(c) \/ Gone(c) \/ Return(c) PROVE CopyInv'
  <2>1. /\ UNCHANGED <<k_heap, k_ws, copies, arriving, log>>
        /\ k_pc[c] \in {"setup", "destroy", "idle"} /\ k_pc' = [k_pc EXCEPT ![c] = k_pc'[c]]
        /\ k_pc'[c] \in {"idle", "gone", "destroy"}
        /\ \A d \in ModChild \ {c} : k_at'[d] = k_at[d]
    BY <1>0, <1>4 DEF SetUp, Gone, Return, LoopEnds
  <2>2. CopyType' /\ Named' /\ InPlace'
    BY <1>a, <2>1, QuietCopies DEF CopyType, Named
  <2>3. k_heap[c] = NoHeap
    BY <1>a, <2>1 DEF AtHand
  <2>4. AtHand'
    BY <1>0, <1>a, <2>1, <2>3 DEF AtHand
  <2>5. Along(c)
    BY <2>1 DEF Along
  <2>6. Tracked'
    BY <2>1, <2>3, <2>5, TrackedAlong DEF NoHeap
  <2> QED
    BY <2>2, <2>4, <2>6 DEF CopyInv
<1>5. ASSUME NEW c \in ModChild, HeapComplete(c) PROVE CopyInv'
  <2>1. PICK h \in arriving :
          /\ arriving' = arriving \ {h} /\ k_heap' = [k_heap EXCEPT ![c] = h]
          /\ k_pc[c] = "idle" /\ k_pc' = [k_pc EXCEPT ![c] = "call"]
          /\ UNCHANGED <<k_at, k_ws, copies, log>>
    BY <1>5 DEF HeapComplete
  <2>2. CopyType' /\ Named' /\ InPlace'
    BY <1>a, <2>1, QuietCopies DEF CopyType, Named
  <2>3. k_heap[c] = NoHeap
    BY <1>a, <2>1 DEF AtHand
  <2>4. AtHand'
    BY <1>0, <1>a, <2>1 DEF AtHand
  <2>5. Along(c)
    BY <2>1 DEF Along
  <2>6. ~Passed(c)'
    BY <1>0, <2>1, OrderType DEF Passed, Order
  <2>7. k_heap'[c] = h
    BY <1>a, <2>1 DEF CopyType
  <2>8. Tracked'
    BY <2>1, <2>3, <2>5, <2>6, <2>7, TrackedAlong DEF NoHeap
  <2> QED
    BY <2>2, <2>4, <2>8 DEF CopyInv
<1>6. ASSUME NEW c \in ModChild, OpenFile(c) PROVE CopyInv'
  <2>1. /\ UNCHANGED <<k_heap, copies, arriving>>
        /\ k_pc[c] = "call" /\ k_pc' = [k_pc EXCEPT ![c] = "call"]
        /\ \A d \in ModChild \ {c} : k_at'[d] = k_at[d]
        /\ log'.sent = log.sent /\ log.short \subseteq log'.short
    BY <1>0, <1>6 DEF OpenFile, TurnOf, NextModule
  <2>2. \/ UNCHANGED k_ws /\ k_heap[c] \in log'.short
        \/ /\ k_heap[c].file # NoFile /\ UNCHANGED k_at
           /\ k_ws' = [k_ws EXCEPT ![c] = [state |-> "write", fd |-> k_heap[c].file]]
    BY <1>0, <1>6 DEF OpenFile
  <2>3. k_heap[c].file # NoFile => k_heap[c] \in log.sent /\ k_heap[c].file \in Files
    BY <1>a, HeapType DEF CopyType, NoHeap
  <2>4. CopyType'
    BY <1>a, <2>1, <2>2, <2>3 DEF CopyType, Sink
  <2>5. Named'
    BY <1>a, <2>1, <2>2, <2>3 DEF Named, CopyType
  <2>6. AtHand'
    BY <1>0, <1>a, <2>1 DEF AtHand
  <2>7. Along(c)
    BY <2>1 DEF Along
  <2>8. Tracked'
    BY <2>1, <2>2, <2>7, TrackedAlong DEF Passed, Order
  <2> QED
    BY <1>a, <2>1, <2>4, <2>5, <2>6, <2>8, QuietCopies DEF CopyInv
<1>7. ASSUME NEW c \in ModChild, SkipFile(c) PROVE CopyInv'
  <2>1. /\ UNCHANGED <<k_heap, k_ws, copies, arriving>>
        /\ k_pc[c] = "call" /\ k_pc' = [k_pc EXCEPT ![c] = "call"]
        /\ \A d \in ModChild \ {c} : k_at'[d] = k_at[d]
        /\ log'.sent = log.sent /\ log.short \subseteq log'.short
        /\ k_heap[c] \in log'.short
    BY <1>0, <1>7 DEF SkipFile, TurnOf, NextModule
  <2>2. CopyType' /\ Named' /\ InPlace'
    BY <1>a, <2>1, QuietCopies DEF CopyType, Named
  <2>3. AtHand'
    BY <1>0, <1>a, <2>1 DEF AtHand
  <2>4. Along(c)
    BY <2>1 DEF Along
  <2>5. Tracked'
    BY <2>1, <2>4, TrackedAlong
  <2> QED
    BY <2>2, <2>3, <2>5 DEF CopyInv
<1>8. ASSUME NEW c \in ModChild, Crash(c) PROVE CopyInv'
  <2>1. /\ UNCHANGED <<k_at, k_heap, k_ws, copies, arriving, log>>
        /\ k_heap[c].file = NoFile /\ k_pc' = [k_pc EXCEPT ![c] = "crashed"]
    BY <1>8 DEF Crash
  <2>2. CopyType' /\ Named' /\ InPlace'
    BY <1>a, <2>1, QuietCopies DEF CopyType, Named
  <2>3. AtHand'
    BY <1>0, <1>a, <2>1 DEF AtHand
  <2>4. Along(c)
    BY <2>1 DEF Along
  <2>5. Tracked'
    BY <2>1, <2>4, TrackedAlong
  <2> QED
    BY <2>2, <2>3, <2>5 DEF CopyInv
<1>9. ASSUME NEW c \in ModChild, WriteFile(c) PROVE CopyInv'
  BY <1>9, WriteFileStep
<1>10. ASSUME NEW c \in ModChild, Called(c) PROVE CopyInv'
  <2>1. /\ UNCHANGED <<k_ws, copies, arriving, log>>
        /\ k_pc[c] = "call" /\ k_pc' = [k_pc EXCEPT ![c] = "idle"]
        /\ k_at[c] \notin DOMAIN Order /\ k_at' = [k_at EXCEPT ![c] = 1]
        /\ k_heap' = [k_heap EXCEPT ![c] = NoHeap]
    BY <1>10 DEF Called, LoopEnds
  <2>2. CopyType' /\ Named' /\ InPlace'
    BY <1>a, <2>1, QuietCopies DEF CopyType, Named
  <2>3. AtHand'
    <3>1. SUFFICES ASSUME NEW d \in ModChild
                   PROVE  /\ k_pc'[d] \notin {"call", "shot", "crashed"} => k_heap'[d] = NoHeap
                          /\ k_pc'[d] = "crashed" => k_heap'[d].file = NoFile
      BY DEF AtHand
    <3>2. CASE d = c
      <4>1. k_pc'[c] = "idle" /\ k_heap'[c] = NoHeap
        BY <1>0, <1>a, <2>1 DEF CopyType
      <4> QED
        BY <3>2, <4>1
    <3>3. CASE d # c
      <4>1. k_pc'[d] = k_pc[d] /\ k_heap'[d] = k_heap[d]
        BY <1>0, <1>a, <2>1, <3>3 DEF CopyType
      <4> QED
        BY <1>a, <4>1 DEF AtHand
    <3> QED
      BY <3>2, <3>3
  <2>4. Along(c)
    BY <2>1 DEF Along
  <2>5. Passed(c)
    <3>1. PICK j \in DOMAIN Order : Order[j] = "writefile"
      BY OrderType DEF Order, TraverseStack
    <3>2. j < k_at[c]
      BY <1>0, <2>1, OrderType
    <3> QED
      BY <3>1, <3>2 DEF Passed
  <2>6. Tracked'
    BY <2>1, <2>4, <2>5, TrackedAlong
  <2> QED
    BY <2>2, <2>3, <2>6 DEF CopyInv
<1>11. CASE RunTimers \/ UNCHANGED mvars
  BY <1>11, <1>a, SMTT(30) DEF RunTimers, mvars, shot, CopyInv, CopyType, Named, InPlace, AtHand, Tracked,
                     Alone, Passed, Copied, Order
<1> QED
  BY <1>1, <1>2, <1>3, <1>4, <1>5, <1>6, <1>7, <1>8, <1>9, <1>10, <1>11
     DEF ModulesNext, ModuleStep

\* The children of a server whose pipeline has "writefile" put together the
\* file that was sent, each byte in its place, and nothing is missing but what
\* was cut short, for any number of children, file, chunks and pipeline.
THEOREM CopiedRight ==
  ASSUME \E i \in DOMAIN Pipeline : Pipeline[i] = "writefile"
  PROVE  ModulesSpec => []CopyHonest
<1>1. CopyInv => CopyHonest
  <2> SUFFICES ASSUME CopyInv, NEW f \in Files
               PROVE  /\ \A o \in Offsets : copies[f][o] # Hole =>
                           copies[f][o].off = o /\ (copies[f][o].file = f \/ ~Alone(f))
                      /\ Alone(f) /\ arriving = {}
                           /\ (\A c \in ModChild : k_heap[c] = NoHeap \/ k_pc[c] = "crashed") =>
                         \A h \in log.sent \ log.short :
                           h.file = f => \A o \in h.off .. h.off + h.len - 1 : copies[f][o] # Hole
    BY DEF CopyHonest, Alone
  <2>1. f # NoFile
    BY DEF Files
  <2>2. ASSUME Alone(f), arriving = {},
               \A c \in ModChild : k_heap[c] = NoHeap \/ k_pc[c] = "crashed",
               NEW h \in log.sent \ log.short, h.file = f
        PROVE  Copied(h)
    BY <2>1, <2>2 DEF CopyInv, Tracked, AtHand, NoHeap
  <2> QED
    BY <2>2 DEF CopyInv, InPlace, Copied
<1>2. ShotInv /\ CopyInv /\ [ModulesNext]_mvars => ShotInv' /\ CopyInv'
  BY CopyStep, ShotStep
<1> QED
  BY <1>1, <1>2, CopyInit, ShotInit, PTL DEF ModulesSpec

-----------------------------------------------------------------------------
\* The modules on the command line and in the pipeline.

\* A set of numbers has a least one.
LEMMA LeastNumber ==
  ASSUME NEW T \in SUBSET Nat, T # {}
  PROVE  \E n \in T : \A m \in T : n <= m
<1>1. PICK n \in T : \A m \in T : ~ (<<m, n>> \in OpToRel(<, Nat))
  BY NatLessThanWellFounded, WFMin
<1>2. \A m \in T : ~ (m < n)
  BY <1>1 DEF OpToRel
<1> QED
  BY <1>2

\* What holds of 0 and goes on from each number to the next holds of all.
LEMMA EveryNumber ==
  ASSUME NEW T \in SUBSET Nat, 0 \in T, \A n \in T : n + 1 \in T
  PROVE  T = Nat
<1>1. SUFFICES ASSUME T # Nat PROVE FALSE
  OBVIOUS
<1>2. PICK n \in Nat \ T : \A m \in Nat \ T : n <= m
  BY <1>1, LeastNumber
<1>3. n - 1 \in T
  BY <1>2
<1> QED
  BY <1>2, <1>3

\* What main makes of the options so far and one more argument.
Reading(o, a) ==
  IF o.usage THEN o
  ELSE IF a.opt = "" THEN PlainArgument(o, a) ELSE OptionArgument(o, a)

\* The function in MapThenFoldSet for the FoldLeft of Options.
Readings(args, n) ==
  CHOOSE iter :
    iter = [s \in SUBSET (1 .. n) |->
              IF s = {} THEN NoArguments ELSE Reading(iter[s \ {Max(s)}], args[Max(s)])]

\* A greatest number is the maximum.
LEMMA MaxIs ==
  ASSUME NEW s \in SUBSET Nat, NEW m \in s, \A k \in s : k <= m
  PROVE  Max(s) = m
<1>1. \A k \in s : m >= k
  OBVIOUS
<1>2. PICK x : x = Max(s)
  OBVIOUS
<1>3. x \in s /\ \A k \in s : x >= k
  BY <1>1, <1>2 DEF Max
<1> QED
  BY <1>1, <1>2, <1>3

\* What main has read are all its arguments.
LEMMA OptionsAre ==
  \A args : \A n \in Nat : DOMAIN args = 1 .. n => Options(args) = Readings(args, n)[1 .. n]
BY Zenon DEF Options, FoldLeft, MapThenFoldSet, Readings, Reading

\* That function exists, and is what its equation says.
LEMMA ReadingsAre ==
  ASSUME NEW args, NEW n \in Nat
  PROVE  Readings(args, n) = [s \in SUBSET (1 .. n) |->
           IF s = {} THEN NoArguments
           ELSE Reading(Readings(args, n)[s \ {Max(s)}], args[Max(s)])]
<1> DEFINE Rec(f, m) == [s \in SUBSET (1 .. m) |->
                           IF s = {} THEN NoArguments
                           ELSE Reading(f[s \ {Max(s)}], args[Max(s)])]
           T == {m \in Nat : \E f : f = Rec(f, m)}
<1> HIDE DEF T
<1>1. 0 \in T
  <2>1. PICK f : f = [s \in SUBSET (1 .. 0) |-> NoArguments]
    OBVIOUS
  <2>2. \A s \in SUBSET (1 .. 0) : s = {}
    OBVIOUS
  <2>3. f = Rec(f, 0)
    BY <2>1, <2>2
  <2> QED
    BY <2>3 DEF T
<1>2. ASSUME NEW m \in T PROVE m + 1 \in T
  <2>0. m \in Nat
    BY DEF T
  <2>1. PICK f : f = Rec(f, m)
    BY DEF T
  <2>2. PICK l : l = m + 1
    OBVIOUS
  <2>3. PICK g : g = [s \in SUBSET (1 .. l) |-> IF l \in s THEN Reading(f[s \ {l}], args[l])
                                               ELSE f[s]]
    OBVIOUS
  <2>4. \A s \in SUBSET (1 .. m) : f[s] = IF s = {} THEN NoArguments
                                          ELSE Reading(f[s \ {Max(s)}], args[Max(s)])
    BY <2>1
  <2>5. ASSUME NEW s \in SUBSET (1 .. l)
        PROVE  g[s] = IF s = {} THEN NoArguments ELSE Reading(g[s \ {Max(s)}], args[Max(s)])
    <3>1. CASE l \in s
      <4>1. Max(s) = l
        <5>1. s \in SUBSET Nat /\ \A k \in s : k <= l
          BY <2>0, <2>2
        <5> QED
          BY <3>1, <5>1, MaxIs
      <4>2. s \ {l} \in SUBSET (1 .. l) /\ l \notin s \ {l}
        OBVIOUS
      <4>3. g[s \ {l}] = f[s \ {l}]
        BY <2>3, <4>2
      <4> QED
        BY <2>3, <3>1, <4>1, <4>3
    <3>2. CASE l \notin s
      <4>1. s \in SUBSET (1 .. m) /\ g[s] = f[s]
        BY <2>0, <2>2, <2>3, <3>2
      <4>2. CASE s # {}
        <5>1. PICK x : x = Max(s)
          OBVIOUS
        <5>2. s \ {x} \in SUBSET (1 .. l) /\ l \notin s \ {x}
          BY <3>2
        <5>3. g[s \ {x}] = f[s \ {x}]
          BY <2>3, <5>2
        <5> QED
          BY <2>4, <4>1, <4>2, <5>1, <5>3
      <4> QED
        BY <2>4, <4>1, <4>2
    <3> QED
      BY <3>1, <3>2
  <2>6. g = [s \in SUBSET (1 .. l) |-> g[s]]
    BY <2>3
  <2>7. g = Rec(g, l)
    BY <2>5, <2>6
  <2>8. l \in Nat
    BY <2>0, <2>2
  <2> HIDE DEF Rec
  <2>9. l \in T
    BY <2>7, <2>8 DEF T
  <2> QED
    BY <2>2, <2>9
<1>3. T = Nat
  <2>1. T \in SUBSET Nat
    BY DEF T
  <2> QED
    BY <1>1, <1>2, <2>1, EveryNumber
<1>4. PICK g : g = Readings(args, n)
  OBVIOUS
<1>5. \E f : f = Rec(f, n)
  BY <1>3 DEF T
<1>6. g = Rec(g, n)
  BY <1>4, <1>5 DEF Readings
<1> QED
  BY <1>4, <1>6

\* The arguments are read one by one.
OneByOne(F, args, n) ==
  /\ F[0] = NoArguments /\ F[n] = Options(args)
  /\ \A i \in 1 .. n : F[i] = Reading(F[i - 1], args[i])

\* There are such steps.
LEMMA ReadOneByOne ==
  ASSUME NEW args, NEW n \in Nat, DOMAIN args = 1 .. n
  PROVE  \E F : OneByOne(F, args, n)
<1>1. PICK f : f = Readings(args, n)
  OBVIOUS
<1>2. \A s \in SUBSET (1 .. n) :
        f[s] = IF s = {} THEN NoArguments ELSE Reading(f[s \ {Max(s)}], args[Max(s)])
  <2>1. f = [s \in SUBSET (1 .. n) |->
               IF s = {} THEN NoArguments ELSE Reading(f[s \ {Max(s)}], args[Max(s)])]
    <3>1. Readings(args, n) = [s \in SUBSET (1 .. n) |->
            IF s = {} THEN NoArguments
            ELSE Reading(Readings(args, n)[s \ {Max(s)}], args[Max(s)])]
      BY ReadingsAre
    <3> QED
      BY <1>1, <3>1, Zenon
  <2> QED
    BY <2>1
<1>3. PICK F : F = [i \in 0 .. n |-> f[1 .. i]]
  OBVIOUS
<1>4. F[0] = NoArguments
  <2>1. 0 \in 0 .. n /\ 1 .. 0 = {} /\ {} \in SUBSET (1 .. n)
    OBVIOUS
  <2>2. F[0] = f[{}]
    BY <1>3, <2>1
  <2> QED
    BY <1>2, <2>1, <2>2
<1>5. F[n] = Options(args)
  <2>1. Options(args) = Readings(args, n)[1 .. n]
    BY OptionsAre, Zenon
  <2>2. n \in 0 .. n
    OBVIOUS
  <2> QED
    BY <1>1, <1>3, <2>1, <2>2
<1>6. ASSUME NEW i \in 1 .. n PROVE F[i] = Reading(F[i - 1], args[i])
  <2>1. 1 .. i \in SUBSET (1 .. n) /\ 1 .. i # {}
    OBVIOUS
  <2>2. (1 .. i) \ {i} = 1 .. i - 1
    OBVIOUS
  <2>3. Max(1 .. i) = i
    <3>1. 1 .. i \in SUBSET Nat /\ i \in 1 .. i /\ \A k \in 1 .. i : k <= i
      OBVIOUS
    <3> QED
      BY <3>1, MaxIs
  <2>4. f[1 .. i] = Reading(f[1 .. i - 1], args[i])
    BY <1>2, <2>1, <2>2, <2>3
  <2>5. i \in 0 .. n /\ i - 1 \in 0 .. n
    OBVIOUS
  <2>6. F[i] = f[1 .. i] /\ F[i - 1] = f[1 .. i - 1]
    BY <1>3, <2>5
  <2> QED
    BY <2>4, <2>6
<1> QED
  BY <1>4, <1>5, <1>6 DEF OneByOne

\* The fields of what main keeps.
OptionFields == {"pl", "mod_start", "multi_start", "multi_grp", "multi_if", "broadcast",
                 "raw", "cpus", "usage"}

\* What one argument a makes of the list of modules.
NewList(o, o2, a) == a.opt = "d" /\ o2.pl = <<a.val>> /\ o2.mod_start = TRUE
NextName(o, o2, a) ==
  a.opt = "" /\ o.mod_start = TRUE /\ o2.pl = <<a.val>> \o o.pl /\ o2.mod_start = TRUE
ListEnds(o, o2, a) == a.opt \notin {"", "d"} /\ o2.pl = o.pl /\ o2.mod_start = FALSE
NoName(o, o2, a) ==
  a.opt = "" /\ o.mod_start = FALSE /\ o2.pl = o.pl /\ o2.mod_start = FALSE

\* One argument read: refused, or one of these.
ReadsRight(o, o2, a) ==
  /\ DOMAIN o2 = OptionFields /\ o2.usage \in BOOLEAN /\ o2.mod_start \in BOOLEAN
     /\ o2.multi_start \in BOOLEAN
  /\ o2.usage = FALSE =>
       /\ o.usage = FALSE
       /\ NewList(o, o2, a) \/ NextName(o, o2, a) \/ ListEnds(o, o2, a) \/ NoName(o, o2, a)

\* Every branch of main's loop is one of these.
LEMMA ReadingRight ==
  ASSUME NEW o, DOMAIN o = OptionFields, o.usage \in BOOLEAN, o.mod_start \in BOOLEAN,
         o.multi_start \in BOOLEAN,
         o = [f \in OptionFields |-> o[f]],
         NEW a
  PROVE  LET o2 == Reading(o, a)
         IN  ReadsRight(o, o2, a) /\ o2 = [f \in OptionFields |-> o2[f]]
<1>1. PICK o2 : o2 = Reading(o, a)
  OBVIOUS
<1> SUFFICES ReadsRight(o, o2, a) /\ o2 = [f \in OptionFields |-> o2[f]]
  BY <1>1
<1>2. CASE o.usage
  BY <1>1, <1>2 DEF Reading, ReadsRight
<1>3. CASE ~o.usage /\ a.opt = ""
  <2>1. o2 = PlainArgument(o, a)
    BY <1>1, <1>3 DEF Reading
  <2>2. CASE o.mod_start
    <3>1. o2 = [o EXCEPT !.pl = <<a.val>> \o o.pl]
      BY <2>1, <2>2 DEF PlainArgument, PushStack
    <3> QED
      BY <1>3, <2>2, <3>1 DEF ReadsRight, NextName, OptionFields
  <2>3. CASE ~o.mod_start /\ o.multi_start
    <3>1. o2 = [o EXCEPT !.multi_start = FALSE, !.multi_if = a.val]
      BY <2>1, <2>3 DEF PlainArgument
    <3> QED
      BY <1>3, <2>3, <3>1 DEF ReadsRight, NoName, OptionFields
  <2>4. CASE ~o.mod_start /\ ~o.multi_start
    <3>1. o2 = [o EXCEPT !.usage = TRUE]
      BY <2>1, <2>4 DEF PlainArgument
    <3> QED
      BY <1>3, <2>4, <3>1 DEF ReadsRight, OptionFields
  <2> QED
    BY <2>2, <2>3, <2>4
<1>4. CASE ~o.usage /\ a.opt # ""
  <2>1. o2 = OptionArgument(o, a)
    BY <1>1, <1>4 DEF Reading
  <2>2. CASE a.opt = "d"
    <3>1. o2 = [[o EXCEPT !.mod_start = FALSE] EXCEPT !.mod_start = TRUE, !.pl = <<a.val>>]
      BY <2>1, <2>2 DEF OptionArgument, PushStack, CreateStack
    <3> QED
      BY <1>4, <2>2, <3>1 DEF ReadsRight, NewList, OptionFields
  <2>3. CASE a.opt # "d"
    <3>1. PICK q : q = [o EXCEPT !.mod_start = FALSE]
      OBVIOUS
    <3>2. \/ o2 = [q EXCEPT !.broadcast = TRUE] \/ o2 = [q EXCEPT !.raw = TRUE]
          \/ o2 = [q EXCEPT !.cpus = a.val]
          \/ o2 = [q EXCEPT !.multi_start = TRUE, !.multi_grp = a.val]
          \/ o2 = q \/ o2 = [q EXCEPT !.usage = TRUE]
      BY <2>1, <2>3, <3>1 DEF OptionArgument
    <3>3. /\ DOMAIN q = OptionFields /\ q.mod_start = FALSE /\ q.pl = o.pl
          /\ q.usage = o.usage /\ q.multi_start = o.multi_start
          /\ q = [f \in OptionFields |-> q[f]]
      BY <3>1 DEF OptionFields
    <3>4. /\ DOMAIN o2 = OptionFields /\ o2.mod_start = FALSE /\ o2.pl = o.pl
          /\ o2.usage \in BOOLEAN /\ o2.multi_start \in BOOLEAN
          /\ o2 = [f \in OptionFields |-> o2[f]]
      BY <3>2, <3>3 DEF OptionFields
    <3> QED
      BY <1>4, <2>3, <3>4 DEF ReadsRight, ListEnds
  <2> QED
    BY <2>2, <2>3
<1> QED
  BY <1>2, <1>3, <1>4

\* Of the first i arguments, the last "d" is at d, and its list of names goes
\* on as far as m.
LastList(args, i, d, m) ==
  /\ d \in 1 .. i /\ m \in d .. i /\ args[d].opt = "d"
  /\ \A j \in d + 1 .. i : args[j].opt # "d"
  /\ \A j \in d + 1 .. m : args[j].opt = ""
  /\ m < i => args[m + 1].opt # ""

\* The stack s holds the names from d to m, the last on top.
Stacked(s, args, d, m) ==
  /\ s \in Seq({args[j].val : j \in DOMAIN args}) /\ Len(s) = m - d + 1
  /\ \A k \in 1 .. m - d + 1 : s[k] = args[m - k + 1].val

\* What has been read of i arguments.
ReadSoFar(o, args, i) ==
  \/ (\A j \in 1 .. i : args[j].opt # "d") /\ o.pl = <<>> /\ o.mod_start = FALSE
  \/ \E d, m \in Nat :
       LastList(args, i, d, m) /\ Stacked(o.pl, args, d, m) /\ (o.mod_start = TRUE <=> m = i)

\* A name more.
LEMMA PushName ==
  ASSUME NEW args, NEW n \in Nat, DOMAIN args = 1 .. n, NEW d \in Nat, NEW m \in Nat,
         1 <= d, d <= m, m + 1 <= n,
         NEW s, Stacked(s, args, d, m)
  PROVE  Stacked(<<args[m + 1].val>> \o s, args, d, m + 1)
<1>1. PICK S : S = {args[j].val : j \in DOMAIN args}
  OBVIOUS
<1>2. PICK e \in S : e = args[m + 1].val
  BY <1>1
<1>3. PICK l \in Nat : l = m - d + 1
  OBVIOUS
<1>4. s \in Seq(S) /\ Len(s) = l /\ \A k \in 1 .. l : s[k] = args[m - k + 1].val
  BY <1>1, <1>3 DEF Stacked
<1>5. PICK t : t = <<e>> \o s
  OBVIOUS
<1>6. t \in Seq(S) /\ Len(t) = l + 1 /\ t[1] = e /\ \A k \in 2 .. l + 1 : t[k] = s[k - 1]
  BY <1>4, <1>5
<1>7. ASSUME NEW k \in 1 .. l + 1 PROVE t[k] = args[m + 1 - k + 1].val
  <2>1. CASE k = 1
    <3>1. m + 1 - k + 1 = m + 1
      BY <2>1
    <3> QED
      BY <1>2, <1>6, <2>1, <3>1
  <2>2. CASE k # 1
    <3>1. PICK h \in 1 .. l : h = k - 1 /\ k \in 2 .. l + 1 /\ m - h + 1 = m + 1 - k + 1
      BY <2>2
    <3>2. t[k] = s[h] /\ s[h] = args[m - h + 1].val
      BY <1>4, <1>6, <3>1
    <3> QED
      BY <3>1, <3>2
  <2> QED
    BY <2>1, <2>2
<1>8. m + 1 - d + 1 = l + 1
  BY <1>3
<1>9. PICK q \in Nat : q = m + 1 /\ q - d + 1 = l + 1
  BY <1>8
<1>10. Stacked(t, args, d, q)
  <2>1. t \in Seq({args[j].val : j \in DOMAIN args})
    BY <1>1, <1>6, Zenon
  <2>2. Len(t) = q - d + 1
    BY <1>6, <1>9
  <2>3. \A k \in 1 .. q - d + 1 : t[k] = args[q - k + 1].val
    BY <1>7, <1>9
  <2> QED
    BY <2>1, <2>2, <2>3, Zenon DEF Stacked
<1> QED
  BY <1>2, <1>5, <1>9, <1>10

\* One argument more.
LEMMA ReadOn ==
  ASSUME NEW args, NEW n \in Nat, DOMAIN args = 1 .. n, NEW i \in Nat, i + 1 <= n,
         NEW o, o.mod_start \in BOOLEAN, ReadSoFar(o, args, i),
         NEW o2, NEW a, a = args[i + 1],
         NewList(o, o2, a) \/ NextName(o, o2, a) \/ ListEnds(o, o2, a) \/ NoName(o, o2, a)
  PROVE  ReadSoFar(o2, args, i + 1)
<1>1. PICK j \in 1 .. n : j = i + 1
  OBVIOUS
<1>2. CASE NewList(o, o2, a)
  <2>1. LastList(args, j, j, j)
    <3>1. args[j].opt = "d"
      BY <1>1, <1>2 DEF NewList
    <3>2. j \in 1 .. j /\ j \in j .. j /\ ~(j < j) /\ j + 1 .. j = {}
      OBVIOUS
    <3> QED
      BY <3>1, <3>2, Zenon DEF LastList
  <2>2. Stacked(o2.pl, args, j, j)
    <3>1. PICK e \in {args[k].val : k \in DOMAIN args} : e = args[j].val
      BY <1>1
    <3>2. o2.pl = <<e>>
      BY <1>1, <1>2, <3>1 DEF NewList
    <3>3. j - j + 1 = 1 /\ \A k \in 1 .. 1 : k = 1 /\ j - k + 1 = j
      OBVIOUS
    <3> QED
      BY <3>1, <3>2, <3>3 DEF Stacked
  <2>3. o2.mod_start = TRUE /\ j \in Nat
    BY <1>2 DEF NewList
  <2> QED
    BY <1>1, <2>1, <2>2, <2>3 DEF ReadSoFar
<1>3. CASE ~NewList(o, o2, a) /\ \A k \in 1 .. i : args[k].opt # "d"
  <2>1. o.pl = <<>> /\ o.mod_start = FALSE
    BY <1>3 DEF ReadSoFar, LastList
  <2>2. a.opt # "d" /\ o2.pl = <<>> /\ o2.mod_start = FALSE
    BY <1>3, <2>1 DEF NextName, ListEnds, NoName
  <2>3. \A k \in 1 .. i + 1 : args[k].opt # "d"
    <3>1. \A k \in 1 .. i + 1 : k \in 1 .. i \/ k = i + 1
      OBVIOUS
    <3> QED
      BY <1>3, <2>2, <3>1
  <2> QED
    BY <2>2, <2>3 DEF ReadSoFar
<1>4. CASE ~NewList(o, o2, a) /\ ~ \A k \in 1 .. i : args[k].opt # "d"
  <2>1. PICK d, m \in Nat :
          LastList(args, i, d, m) /\ Stacked(o.pl, args, d, m) /\ (o.mod_start = TRUE <=> m = i)
    BY <1>4 DEF ReadSoFar
  <2>2. 1 <= d /\ d <= i /\ d <= m /\ m <= i
    <3>1. d \in 1 .. i /\ m \in d .. i
      BY <2>1, Zenon DEF LastList
    <3> QED
      BY <3>1
  <2>3. a.opt # "d"
    BY <1>4 DEF NextName, ListEnds, NoName
  <2>4. \A k \in d + 1 .. i + 1 : args[k].opt # "d"
    <3>1. \A k \in d + 1 .. i + 1 : k \in d + 1 .. i \/ k = i + 1
      OBVIOUS
    <3> QED
      BY <2>1, <2>3, <3>1 DEF LastList
  <2>5. CASE NextName(o, o2, a)
    <3>1. m = i /\ a.opt = "" /\ o2.pl = <<a.val>> \o o.pl /\ o2.mod_start = TRUE
      BY <2>1, <2>5 DEF NextName
    <3>2. Stacked(o2.pl, args, d, i + 1)
      BY <2>1, <2>2, <3>1, PushName
    <3>3. \A k \in d + 1 .. i + 1 : args[k].opt = ""
      <4>1. \A k \in d + 1 .. i + 1 : k \in d + 1 .. i \/ k = i + 1
        OBVIOUS
      <4> QED
        BY <2>1, <3>1, <4>1 DEF LastList
    <3>4. LastList(args, i + 1, d, i + 1)
      <4>1. d \in 1 .. i + 1 /\ i + 1 \in d .. i + 1 /\ ~(i + 1 < i + 1)
        BY <2>2
      <4>2. args[d].opt = "d"
        BY <2>1, Zenon DEF LastList
      <4> QED
        BY <2>4, <3>3, <4>1, <4>2, Zenon DEF LastList
    <3>5. i + 1 \in Nat
      OBVIOUS
    <3> QED
      BY <3>1, <3>2, <3>4, <3>5, Zenon DEF ReadSoFar
  <2>6. CASE ListEnds(o, o2, a) \/ NoName(o, o2, a)
    <3>1. o2.pl = o.pl /\ o2.mod_start = FALSE
      BY <2>6 DEF ListEnds, NoName
    <3>2. m < i + 1 => args[m + 1].opt # ""
      <4>1. CASE m = i
        <5>1. ListEnds(o, o2, a)
          BY <2>1, <2>6, <4>1 DEF NoName
        <5> QED
          BY <4>1, <5>1 DEF ListEnds
      <4>2. CASE m # i
        <5>1. m < i
          BY <2>2, <4>2
        <5> QED
          BY <2>1, <5>1, Zenon DEF LastList
      <4> QED
        BY <4>1, <4>2
    <3>3. LastList(args, i + 1, d, m)
      <4>1. d \in 1 .. i + 1 /\ m \in d .. i + 1
        BY <2>2
      <4> QED
        BY <2>1, <2>4, <3>2, <4>1, Zenon DEF LastList
    <3>4. m # i + 1
      BY <2>2
    <3> QED
      BY <2>1, <3>1, <3>3, <3>4 DEF ReadSoFar
  <2> QED
    BY <1>4, <2>5, <2>6
<1> QED
  BY <1>2, <1>3, <1>4

\* main's loop has put the names of the last list on the stack.
LEMMA OptionsRead ==
  ASSUME NEW args, NEW n \in Nat, DOMAIN args = 1 .. n, ~Options(args).usage
  PROVE  ReadSoFar(Options(args), args, n)
<1>1. PICK F : OneByOne(F, args, n)
  BY ReadOneByOne
<1> DEFINE Kept(o) == /\ DOMAIN o = OptionFields /\ o = [f \in OptionFields |-> o[f]]
                      /\ o.usage \in BOOLEAN /\ o.mod_start \in BOOLEAN
                      /\ o.multi_start \in BOOLEAN
           Ok(i) == Kept(F[i]) /\ (F[i].usage = FALSE => ReadSoFar(F[i], args, i))
           T == {i \in Nat : i <= n => Ok(i)}
<1>2. 0 \in T
  <2>1. F[0] = NoArguments
    BY <1>1 DEF OneByOne
  <2>2. Kept(NoArguments)
    BY DEF NoArguments, OptionFields
  <2>3. ReadSoFar(NoArguments, args, 0)
    BY DEF ReadSoFar, NoArguments, CreateStack
  <2> QED
    BY <2>1, <2>2, <2>3
<1>3. ASSUME NEW i \in T PROVE i + 1 \in T
  <2> HIDE DEF T, Ok
  <2>0. i \in Nat /\ (i <= n => Ok(i))
    BY DEF T
  <2>1. SUFFICES ASSUME i + 1 <= n PROVE Ok(i + 1)
    BY <2>0 DEF T
  <2>2. Ok(i)
    BY <2>0, <2>1
  <2> USE DEF Ok
  <2>3. PICK o : o = F[i]
    OBVIOUS
  <2>4. PICK a : a = args[i + 1]
    OBVIOUS
  <2>5. PICK o2 : o2 = Reading(o, a)
    OBVIOUS
  <2>6. F[i + 1] = o2
    <3>1. PICK k \in 1 .. n : k = i + 1 /\ k - 1 = i
      BY <2>0, <2>1
    <3>2. F[k] = Reading(F[k - 1], args[k])
      BY <1>1 DEF OneByOne
    <3> HIDE DEF Ok
    <3> QED
      BY <2>3, <2>4, <2>5, <3>1, <3>2
  <2>7. Kept(o) /\ (o.usage = FALSE => ReadSoFar(o, args, i))
    BY <2>2, <2>3
  <2>8. ReadsRight(o, o2, a) /\ o2 = [f \in OptionFields |-> o2[f]]
    BY <2>5, <2>7, ReadingRight
  <2>9. Kept(o2)
    BY <2>8 DEF ReadsRight
  <2>10. ASSUME o2.usage = FALSE PROVE ReadSoFar(o2, args, i + 1)
    <3>1. /\ o.usage = FALSE /\ o.mod_start \in BOOLEAN
          /\ NewList(o, o2, a) \/ NextName(o, o2, a) \/ ListEnds(o, o2, a) \/ NoName(o, o2, a)
      BY <2>7, <2>8, <2>10 DEF ReadsRight
    <3>2. ReadSoFar(o, args, i)
      BY <2>7, <3>1
    <3> QED
      BY <2>0, <2>1, <2>4, <3>1, <3>2, ReadOn
  <2> QED
    BY <2>6, <2>9, <2>10
<1>4. T = Nat
  <2>1. T \in SUBSET Nat
    OBVIOUS
  <2> HIDE DEF T
  <2> QED
    BY <1>2, <1>3, <2>1, EveryNumber
<1>5. Ok(n)
  BY <1>4
<1>6. F[n] = Options(args)
  BY <1>1 DEF OneByOne
<1> QED
  BY <1>5, <1>6

\* Where main has read a list, LastModules is what the stack holds, turned over.
LEMMA ListIs ==
  ASSUME NEW n \in Nat, n = Len(argv), argv \in Seq({argv[j] : j \in DOMAIN argv}),
         NEW d \in Nat, NEW m \in Nat, LastList(argv, n, d, m)
  PROVE  LastModules = [k \in 1 .. m - d + 1 |-> argv[d + k - 1].val]
<1>1. d \in 1 .. n /\ m \in d .. n
  BY Zenon DEF LastList
<1> DEFINE D == {i \in DOMAIN argv : argv[i].opt = "d"}
           first == CHOOSE i \in D : \A j \in D : j <= i
           rest == SubSeq(argv, first + 1, Len(argv))
           I == {i \in 1 .. Len(rest) : rest[i].opt # ""}
           names == IF I # {} THEN Min(I) ELSE 0
           own == IF names = 0 THEN rest ELSE SubSeq(rest, 1, names - 1)
<1>2. LastModules = IF D = {} THEN <<>>
                    ELSE <<argv[first].val>> \o [i \in DOMAIN own |-> own[i].val]
  BY Zenon DEF LastModules, SelectInSeq
<1> HIDE DEF D, first, rest, I, names, own
<1>3. DOMAIN argv = 1 .. n
  OBVIOUS
<1>4. d \in D /\ \A j \in D : j <= d
  <2>1. argv[d].opt = "d" /\ \A j \in d + 1 .. n : argv[j].opt # "d"
    BY Zenon DEF LastList
  <2>2. \A j \in 1 .. n : j <= d \/ j \in d + 1 .. n
    BY <1>1
  <2> QED
    BY <1>1, <1>3, <2>1, <2>2 DEF D
<1>5. first = CHOOSE i \in D : \A j \in D : j <= i
  BY Zenon DEF first
<1>6. first = d
  <2>1. first \in D /\ \A j \in D : j <= first
    BY <1>4, <1>5
  <2>2. first <= d /\ d <= first
    BY <1>4, <2>1
  <2>3. first \in Nat
    BY <1>3, <2>1 DEF D
  <2> QED
    BY <2>2, <2>3
<1>7. PICK S : S = {argv[j] : j \in DOMAIN argv}
  OBVIOUS
<1>8. rest = SubSeq(argv, d + 1, n)
  BY <1>6 DEF rest
<1>9. /\ rest \in Seq(S) /\ Len(rest) = n - d
      /\ \A k \in 1 .. n - d : rest[k] = argv[d + k]
  <2>1. \A k \in 1 .. n - d : d + 1 + k - 1 = d + k
    OBVIOUS
  <2>2. n - (d + 1) + 1 = n - d /\ d + 1 <= n + 1 /\ d + 1 \in 1 .. n + 1
    BY <1>1
  <2>3. \A i \in d + 1 .. n : argv[i] \in S
    BY <1>1, <1>3, <1>7
  <2>4. /\ rest \in Seq(S)
        /\ Len(rest) = IF d + 1 <= n THEN n - (d + 1) + 1 ELSE 0
        /\ \A i \in 1 .. n - (d + 1) + 1 : rest[i] = argv[d + 1 + i - 1]
    BY <1>8, <2>3, SubSeqProperties
  <2> QED
    BY <1>1, <2>1, <2>2, <2>4
<1>11. I = {i \in 1 .. Len(rest) : rest[i].opt # ""}
  BY Zenon DEF I
<1>12. names = IF I # {} THEN Min(I) ELSE 0
  BY Zenon DEF names
<1>13. \A k \in 1 .. m - d : rest[k].opt = ""
  <2>1. \A j \in d + 1 .. m : argv[j].opt = ""
    BY Zenon DEF LastList
  <2>2. \A k \in 1 .. m - d : d + k \in d + 1 .. m /\ k \in 1 .. n - d
    BY <1>1
  <2> QED
    BY <1>9, <2>1, <2>2
<1>14. own = IF names = 0 THEN rest ELSE SubSeq(rest, 1, names - 1)
  BY Zenon DEF own
<1>15. Len(own) = m - d /\ DOMAIN own = 1 .. m - d /\ \A k \in 1 .. m - d : own[k] = argv[d + k]
  <2>1. CASE m = n
    <3>1. I = {}
      BY <1>9, <1>11, <1>13, <2>1
    <3>2. own = rest
      BY <1>12, <1>14, <3>1
    <3> QED
      BY <1>9, <2>1, <3>2
  <2>2. CASE m # n
    <3>1. PICK l \in 1 .. n - d : l = m - d + 1
      BY <1>1, <2>2
    <3>2. rest[l].opt # ""
      <4>1. m < n
        BY <1>1, <2>2
      <4>2. argv[m + 1].opt # ""
        BY <4>1, Zenon DEF LastList
      <4>3. d + l = m + 1
        BY <3>1
      <4> QED
        BY <1>9, <3>1, <4>2, <4>3
    <3>3. l \in I /\ \A k \in I : l <= k
      <4>1. \A k \in 1 .. n - d : l <= k \/ k \in 1 .. m - d
        BY <1>1, <3>1
      <4> QED
        BY <1>9, <1>11, <1>13, <3>1, <3>2, <4>1
    <3>4. names = l
      <4>1. PICK x : x = Min(I)
        OBVIOUS
      <4>2. x \in I /\ \A y \in I : x <= y
        BY <3>3, <4>1 DEF Min
      <4>3. x \in Nat
        <5>1. x \in 1 .. Len(rest)
          BY <1>11, <4>2
        <5> QED
          BY <5>1
      <4>4. x <= l /\ l <= x
        BY <3>3, <4>2
      <4>5. x = l
        BY <4>3, <4>4
      <4> QED
        BY <1>12, <3>3, <4>1, <4>5
    <3>5. own = SubSeq(rest, 1, m - d)
      BY <1>14, <3>1, <3>4
    <3>6. m - d \in Nat /\ m - d <= n - d
      BY <1>1
    <3>7. \A i \in 1 .. m - d : rest[i] \in S
      BY <1>9, <3>6, ElementOfSeq
    <3>8. /\ own \in Seq(S)
          /\ Len(own) = IF 1 <= m - d THEN m - d - 1 + 1 ELSE 0
          /\ \A i \in 1 .. m - d - 1 + 1 : own[i] = rest[1 + i - 1]
      BY SMTT(30), <3>5, <3>7, <3>6, SubSeqProperties
    <3>9. Len(own) = m - d
      BY <3>6, <3>8
    <3>10. \A i \in 1 .. m - d : own[i] = rest[i]
      BY <3>6, <3>8
    <3> QED
      BY <1>9, <3>6, <3>8, <3>9, <3>10
  <2> QED
    BY <2>1, <2>2
<1>16. LastModules = <<argv[d].val>> \o [i \in DOMAIN own |-> own[i].val]
  <2>1. D # {}
    BY <1>4
  <2> QED
    BY <1>2, <1>6, <2>1, Zenon
<1>17. PICK v : v = [i \in 1 .. m - d |-> own[i].val]
  OBVIOUS
<1>18. PICK e : e = argv[d].val
  OBVIOUS
<1>19. PICK l \in Nat : l = m - d
  BY <1>1
<1>20. PICK t : t = <<e>> \o v
  OBVIOUS
<1>21. t = [k \in 1 .. l + 1 |-> argv[d + k - 1].val]
  <2>1. PICK V : V = {e} \cup {own[i].val : i \in 1 .. l}
    OBVIOUS
  <2>2. v \in Seq(V) /\ Len(v) = l /\ e \in V
    BY <1>17, <1>19, <2>1
  <2>3. /\ t \in Seq(V) /\ Len(t) = l + 1 /\ t[1] = e
        /\ \A k \in 2 .. l + 1 : t[k] = v[k - 1]
    BY <1>20, <2>2
  <2>4. ASSUME NEW k \in 1 .. l + 1 PROVE t[k] = argv[d + k - 1].val
    <3>1. CASE k = 1
      <4>1. d + k - 1 = d
        BY <3>1
      <4> QED
        BY <1>18, <2>3, <3>1, <4>1
    <3>2. CASE k # 1
      <4>1. PICK h \in 1 .. l : h = k - 1 /\ k \in 2 .. l + 1 /\ d + h = d + k - 1
        BY <3>2
      <4>2. v[h] = own[h].val /\ own[h] = argv[d + h]
        BY <1>15, <1>17, <1>19, <4>1
      <4> QED
        BY <2>3, <4>1, <4>2
    <3> QED
      BY <3>1, <3>2
  <2>5. t = [k \in 1 .. l + 1 |-> t[k]]
    BY <2>3
  <2> QED
    BY <2>4, <2>5
<1>22. m - d + 1 = l + 1
  BY <1>19
<1> QED
  BY <1>15, <1>16, <1>17, <1>18, <1>20, <1>21, <1>22

\* The names that main has stacked, and where they are while funnel_stack
\* turns the stack over.
Names == Options(argv).pl
Values == {argv[j].val : j \in DOMAIN argv}

Turned(src, dst) ==
  /\ src \in Seq(Values) /\ dst \in Seq(Values) /\ Names \in Seq(Values)
  /\ Len(src) + Len(dst) = Len(Names)
  /\ \A k \in 1 .. Len(src) : src[k] = Names[Len(dst) + k]
  /\ \A k \in 1 .. Len(dst) : dst[k] = Names[Len(dst) + 1 - k]

\* The invariant.
PipelineInv ==
  /\ argv \in CommandLines
  /\ u_pc # "end" => ~Options(argv).usage /\ (Turned(pl, s_p) \/ (pl = <<>> /\ s_p = <<>>))
  /\ u_pc \notin {"load", "end"} => pl = <<>>

\* One turn of funnel_stack.
LEMMA TurnedOn ==
  ASSUME NEW src, NEW dst, Turned(src, dst), src # <<>>
  PROVE  Turned(Tail(src), <<Head(src)>> \o dst)
<1>1. PICK V : V = Values
  OBVIOUS
<1>2. PICK N : N = Names
  OBVIOUS
<1>3. /\ src \in Seq(V) /\ dst \in Seq(V) /\ N \in Seq(V) /\ Len(src) + Len(dst) = Len(N)
      /\ \A k \in 1 .. Len(src) : src[k] = N[Len(dst) + k]
      /\ \A k \in 1 .. Len(dst) : dst[k] = N[Len(dst) + 1 - k]
  BY <1>1, <1>2 DEF Turned
<1>4. PICK s : s = Tail(src)
  OBVIOUS
<1>5. PICK x : x = Head(src)
  OBVIOUS
<1>6. PICK t : t = <<x>> \o dst
  OBVIOUS
<1>7. PICK m, n \in Nat : m = Len(src) /\ n = Len(dst)
  BY <1>3
<1>8. m # 0 /\ x \in V /\ x = src[1]
  BY <1>3, <1>5, <1>7
<1>9. s \in Seq(V) /\ Len(s) = m - 1 /\ \A k \in 1 .. m - 1 : s[k] = src[k + 1]
  BY <1>3, <1>4, <1>7, HeadTailProperties
<1>10. t \in Seq(V) /\ Len(t) = n + 1 /\ t[1] = x /\ \A k \in 2 .. n + 1 : t[k] = dst[k - 1]
  BY <1>3, <1>6, <1>7, <1>8
<1>11. ASSUME NEW k \in 1 .. Len(s) PROVE s[k] = N[Len(t) + k]
  <2>1. k \in 1 .. m - 1
    BY <1>9
  <2>2. PICK h \in 1 .. m : h = k + 1 /\ n + h = n + 1 + k
    BY <2>1
  <2>3. src[h] = N[n + h]
    BY <1>3, <1>7
  <2>4. s[k] = src[h]
    BY <1>9, <2>1, <2>2
  <2> QED
    BY <1>10, <2>2, <2>3, <2>4
<1>12. ASSUME NEW k \in 1 .. Len(t) PROVE t[k] = N[Len(t) + 1 - k]
  <2>1. k \in 1 .. n + 1
    BY <1>10
  <2>2. CASE k = 1
    <3>1. 1 \in 1 .. m
      BY <1>8
    <3>2. src[1] = N[n + 1]
      BY <1>3, <1>7, <3>1
    <3>3. Len(t) + 1 - k = n + 1
      BY <1>10, <2>2
    <3> QED
      BY <1>8, <1>10, <2>2, <3>2, <3>3
  <2>3. CASE k # 1
    <3>1. PICK h \in 1 .. n : h = k - 1 /\ k \in 2 .. n + 1 /\ n + 1 - h = n + 1 + 1 - k
      BY <2>1, <2>3
    <3>2. dst[h] = N[n + 1 - h]
      BY <1>3, <1>7
    <3>3. t[k] = dst[h]
      BY <1>10, <3>1
    <3> QED
      BY <1>10, <3>1, <3>2, <3>3
  <2> QED
    BY <2>2, <2>3
<1>13. Len(s) + Len(t) = Len(N)
  <2>1. m + n = Len(N)
    BY <1>3, <1>7
  <2>2. (m - 1) + (n + 1) = m + n
    BY <1>8
  <2> QED
    BY <1>9, <1>10, <2>1, <2>2
<1>14. Turned(s, t)
  BY <1>1, <1>2, <1>3, <1>9, <1>10, <1>11, <1>12, <1>13, Zenon DEF Turned
<1> QED
  BY <1>4, <1>5, <1>6, <1>14

\* A command line is a sequence.
LEMMA ArgumentsAre ==
  ASSUME argv \in CommandLines
  PROVE  argv \in Seq({argv[i] : i \in DOMAIN argv})
BY ServerAssumption, Zenon

\* What main has made of a command line it does not refuse.
LEMMA NamesAre ==
  ASSUME argv \in CommandLines, ~Options(argv).usage
  PROVE  ReadSoFar(Options(argv), argv, Len(argv)) /\ Names \in Seq(Values)
<1>1. argv \in Seq({argv[i] : i \in DOMAIN argv})
  BY ArgumentsAre
<1>2. PICK n \in Nat : n = Len(argv) /\ DOMAIN argv = 1 .. n
  BY <1>1
<1>3. ReadSoFar(Options(argv), argv, n)
  BY <1>2, OptionsRead
<1>4. Names = <<>> \/ Names \in Seq(Values)
  BY <1>3 DEF ReadSoFar, Stacked, Names, Values
<1>5. <<>> \in Seq(Values)
  OBVIOUS
<1> QED
  BY <1>2, <1>3, <1>4, <1>5

\* The invariant holds at first and is kept.
LEMMA PipelineInit == ServerInit => PipelineInv
<1> SUFFICES ASSUME ServerInit PROVE PipelineInv
  OBVIOUS
<1>1. /\ argv \in CommandLines /\ pl = Names /\ s_p = <<>>
      /\ u_pc = IF Options(argv).usage \/ Options(argv).cpus < 1 THEN "end" ELSE "load"
  BY DEF ServerInit, Created, CreateStack, Names
<1>2. ASSUME u_pc # "end" PROVE ~Options(argv).usage /\ Turned(pl, s_p)
  <2>1. ~Options(argv).usage
    BY <1>1, <1>2
  <2>2. Names \in Seq(Values)
    BY <1>1, <2>1, NamesAre
  <2>3. Turned(Names, <<>>)
    <3>1. <<>> \in Seq(Values) /\ Len(<<>>) = 0 /\ 1 .. 0 = {}
      OBVIOUS
    <3>2. Len(Names) \in Nat
      BY <2>2
    <3>3. Len(Names) + Len(<<>>) = Len(Names)
      BY <3>1, <3>2
    <3>4. \A k \in 1 .. Len(Names) : Names[k] = Names[Len(<<>>) + k]
      BY <3>1, <3>2
    <3>5. \A k \in 1 .. Len(<<>>) : <<>>[k] = Names[Len(<<>>) + 1 - k]
      BY <3>1
    <3> QED
      BY <2>2, <3>1, <3>3, <3>4, <3>5 DEF Turned
  <2> QED
    BY <1>1, <2>1, <2>3
<1> QED
  BY <1>1, <1>2 DEF PipelineInv

\* A step that leaves the stacks alone.
LEMMA PipelineKept ==
  ASSUME PipelineInv, UNCHANGED <<argv, pl, s_p>>,
         u_pc' # "end" => u_pc # "end",
         u_pc' \notin {"load", "end"} => pl = <<>>
  PROVE  PipelineInv'
<1>1. Names' = Names /\ Values' = Values
  BY DEF Names, Values
<1>2. Turned(pl, s_p) => Turned(pl, s_p)'
  BY <1>1 DEF Turned
<1> QED
  BY <1>2 DEF PipelineInv

LEMMA PipelineStep == PipelineInv /\ [ServerNext]_uvars => PipelineInv'
<1> SUFFICES ASSUME PipelineInv, [ServerNext]_uvars PROVE PipelineInv'
  OBVIOUS
<1> USE DEF flags, modules, family, counters, children
<1>1. CASE LoadModule
  <2>1. /\ u_pc = "load" /\ pl # <<>> /\ pl' = Tail(pl) /\ s_p' = <<Head(pl)>> \o s_p
        /\ UNCHANGED <<u_pc, argv>>
    BY <1>1 DEF LoadModule, CanPopStack, CreateStack, FunnelModules, FunnelTurn, PopStack,
                PushStack, TopStack
  <2>2. Turned(pl, s_p) /\ argv \in CommandLines /\ ~Options(argv).usage
    BY <2>1 DEF PipelineInv
  <2>3. Turned(Tail(pl), <<Head(pl)>> \o s_p)
    BY <2>1, <2>2, TurnedOn
  <2>4. Names' = Names /\ Values' = Values
    BY <2>1 DEF Names, Values
  <2>5. Turned(pl, s_p)'
    BY <2>1, <2>3, <2>4 DEF Turned
  <2> QED
    BY <2>1, <2>2, <2>5 DEF PipelineInv
<1>2. CASE LoadFails
  <2>1. u_pc = "load" /\ pl' = <<>> /\ s_p' = <<>> /\ UNCHANGED <<u_pc, argv>>
    BY <1>2 DEF LoadFails, DestroyStack, CreateStack
  <2> QED
    BY <2>1 DEF PipelineInv
<1>3. CASE Startup
  BY <1>3, PipelineKept DEF Startup, StartupWith, CanPopStack, CreateStack
<1>4. CASE Unload
  BY <1>4 DEF Unload, PipelineInv
<1>5. CASE Fork \/ StartLoop \/ Turn \/ SelectFails \/ Report \/ PrintHeaps \/ ClearTimer
           \/ Reset \/ Reap \/ Drain
  <2>1. UNCHANGED <<argv, pl, s_p>> /\ u_pc \notin {"load", "end"}
    BY <1>5 DEF Fork, StartLoop, Turn, SelectFails, Report, PrintHeaps, ClearTimer, Reset, Reap,
                Drain
  <2>2. pl = <<>>
    BY <2>1 DEF PipelineInv
  <2> QED
    BY <2>1, <2>2, PipelineKept
<1>6. CASE Interrupt \/ TerminateParent \/ Alarm \/ UNCHANGED uvars
           \/ \E w \in Child : ChildStep(w) \/ BankEmpty(w) \/ ProcessFails(w)
                               \/ TerminateChild(w)
  <2>1. UNCHANGED <<argv, pl, s_p, u_pc>>
    BY <1>6 DEF Interrupt, TerminateParent, Alarm, uvars, ChildStep, BankEmpty, ProcessFails,
                TerminateChild, Test, Receive, Process, Count, Miscount, Leave
  <2>2. u_pc \notin {"load", "end"} => pl = <<>>
    BY DEF PipelineInv
  <2> QED
    BY <2>1, <2>2, PipelineKept
<1> QED
  BY <1>1, <1>2, <1>3, <1>4, <1>5, <1>6 DEF ServerNext, Parent

\* When the modules are there they are those of the last list, in its order.
LEMMA PipelineRight == PipelineInv => PipelineInOrder
<1> SUFFICES ASSUME PipelineInv, u_pc \in {"fork", "loop"}, s_p # <<>> PROVE s_p = LastModules
  BY DEF PipelineInOrder, TraverseStack
<1>1. argv \in CommandLines /\ ~Options(argv).usage /\ pl = <<>> /\ Turned(pl, s_p)
  BY DEF PipelineInv
<1>2. PICK n \in Nat : n = Len(argv)
  BY <1>1, ArgumentsAre
<1>3. ReadSoFar(Options(argv), argv, n)
  BY <1>1, <1>2, NamesAre
<1>4. /\ s_p \in Seq(Values) /\ Names \in Seq(Values) /\ Len(s_p) = Len(Names)
      /\ \A k \in 1 .. Len(s_p) : s_p[k] = Names[Len(s_p) + 1 - k]
  BY <1>1 DEF Turned
<1>5. Names # <<>>
  BY <1>4
<1>6. PICK d, m \in Nat : LastList(argv, n, d, m) /\ Stacked(Names, argv, d, m)
  BY <1>3, <1>5 DEF ReadSoFar, Names
<1>7. LastModules = [k \in 1 .. m - d + 1 |-> argv[d + k - 1].val]
  BY <1>1, <1>2, <1>6, ArgumentsAre, ListIs
<1>8. PICK l \in Nat : l = m - d + 1 /\ Len(Names) = l /\ Len(s_p) = l
  <2>1. Len(Names) = m - d + 1
    BY <1>6 DEF Stacked
  <2> QED
    BY <1>4, <2>1
<1>9. ASSUME NEW k \in 1 .. l PROVE s_p[k] = argv[d + k - 1].val
  <2>1. PICK h \in 1 .. l : h = l + 1 - k
    OBVIOUS
  <2>2. m - h + 1 = d + k - 1
    BY <1>8, <2>1
  <2>3. Names[h] = argv[m - h + 1].val
    BY <1>6, <1>8 DEF Stacked
  <2>4. s_p[k] = Names[h]
    BY <1>4, <1>8, <2>1
  <2> QED
    BY <2>2, <2>3, <2>4
<1>10. s_p = [k \in 1 .. l |-> s_p[k]]
  BY <1>4, <1>8
<1>11. s_p = [k \in 1 .. l |-> argv[d + k - 1].val]
  BY <1>9, <1>10
<1> QED
  BY <1>7, <1>8, <1>11

\* The modules a heap passes are those of the last -d, in the order of the
\* command line, or none, whatever the command line: main takes them from one
\* stack, and load_modules_spead_pipeline turns it over.
THEOREM InOrder == ServerSpec => []PipelineInOrder
<1>1. ServerSpec => []PipelineInv
  BY PipelineInit, PipelineStep, PTL DEF ServerSpec
<1> QED
  BY <1>1, PipelineRight, PTL
=============================================================================
