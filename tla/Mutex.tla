------------------------------- MODULE Mutex --------------------------------
(***************************************************************************)
(* The futex mutex of src/src/mutex.c, shared by every process of the      *)
(* server and the transmitter.  The lock word *m is 0 (free), 1 (locked,   *)
(* nobody is known to wait) or 2 (locked, someone may be waiting).  Each   *)
(* atomic instruction, each plain read or store of *m and each futex call  *)
(* is one step; cpu_relax changes nothing.                                 *)
(*                                                                         *)
(*   pc[p]        where p stands                                           *)
(*   "idle"       outside both functions, not holding the lock             *)
(*   "spin"       lock_mutex: the cmpxchg(m, 0, 1) loop                    *)
(*   "mark"       lock_mutex: about to run c = xchg(m, 2)                  *)
(*   "wait"       lock_mutex: about to call FUTEX_WAIT                     *)
(*   "asleep"     lock_mutex: queued in the kernel on m                    *)
(*   "held"       between the two functions, in the critical section       *)
(*   "store"      unlock_mutex: read *m == 2, about to store 0             *)
(*   "swap"       unlock_mutex: read *m # 2, about to run xchg(m, 0)       *)
(*   "relax"      unlock_mutex: top of the relax loop                      *)
(*   "contend"    unlock_mutex: read *m # 0, about to run cmpxchg(m, 1, 2) *)
(*   "wake"       unlock_mutex: about to call FUTEX_WAKE                   *)
(***************************************************************************)
EXTENDS Naturals

CONSTANTS Proc,       \* the processes that share the lock
          SpinBound,  \* iterations of lock_mutex's loop, 100 in the code
          RelaxBound  \* iterations of unlock_mutex's loop, 200 in the code

ASSUME BoundsAssumption == SpinBound \in Nat \ {0} /\ RelaxBound \in Nat \ {0}

VARIABLES m,   \* the lock word
          pc,  \* the program counters
          i    \* the loop counters

vars == <<m, pc, i>>

Init ==
  /\ m = 0
  /\ pc = [p \in Proc |-> "idle"]
  /\ i = [p \in Proc |-> 0]

Goto(p, l) == pc' = [pc EXCEPT ![p] = l]

(***************************************************************************)
(* lock_mutex                                                              *)
(***************************************************************************)

\* lock_mutex is called.
Start(p) ==
  /\ pc[p] = "idle"
  /\ Goto(p, "spin")
  /\ i' = [i EXCEPT ![p] = 0]
  /\ UNCHANGED m

\* One cmpxchg(m, 0, 1).  The last failing one leaves c = *m: 1 goes on to
\* xchg(m, 2), 2 straight to the futex.
Spin(p) ==
  /\ pc[p] = "spin"
  /\ \/ /\ m = 0
        /\ m' = 1
        /\ Goto(p, "held")
        /\ UNCHANGED i
     \/ /\ m # 0
        /\ i' = [i EXCEPT ![p] = @ + 1]
        /\ Goto(p, IF i[p] + 1 < SpinBound THEN "spin"
                   ELSE IF m = 1 THEN "mark" ELSE "wait")
        /\ UNCHANGED m

\* Mutant of Wait: a refused futex wait is taken for a lock.
WaitWithoutRetry(p) ==
  /\ pc[p] = "wait"
  /\ Goto(p, IF m = 2 THEN "asleep" ELSE "held")
  /\ UNCHANGED <<m, i>>

\* c = xchg(m, 2), before the loop and at its end.
Mark(p) ==
  /\ pc[p] = "mark"
  /\ m' = 2
  /\ Goto(p, IF m = 0 THEN "held" ELSE "wait")
  /\ UNCHANGED i

\* FUTEX_WAIT compares the word with 2 and queues the caller atomically;
\* a different value is EAGAIN.
Wait(p) ==
  /\ pc[p] = "wait"
  /\ Goto(p, IF m = 2 THEN "asleep" ELSE "mark")
  /\ UNCHANGED <<m, i>>

\* FUTEX_WAIT returns EINTR: a signal (SIGCHLD, SIGTERM, SIGINT) arrived.
Interrupt(p) ==
  /\ pc[p] = "asleep"
  /\ Goto(p, "mark")
  /\ UNCHANGED <<m, i>>

(***************************************************************************)
(* unlock_mutex                                                            *)
(***************************************************************************)

\* unlock_mutex is called and reads *m.
Unlock(p) ==
  /\ pc[p] = "held"
  /\ Goto(p, IF m = 2 THEN "store" ELSE "swap")
  /\ UNCHANGED <<m, i>>

\* Mutant: the release of a contended lock returns without waking anybody.
StoreAndReturn(p) ==
  /\ pc[p] = "store"
  /\ m' = 0
  /\ Goto(p, "idle")
  /\ UNCHANGED i

\* The plain store *m = 0.
Store(p) ==
  /\ pc[p] = "store"
  /\ m' = 0
  /\ Goto(p, "relax")
  /\ i' = [i EXCEPT ![p] = 0]

\* xchg(m, 0): 1 means that nobody marked the lock meanwhile.
Swap(p) ==
  /\ pc[p] = "swap"
  /\ m' = 0
  /\ Goto(p, IF m = 1 THEN "idle" ELSE "relax")
  /\ i' = [i EXCEPT ![p] = 0]

\* The end of one iteration of the relax loop.
Again(p) ==
  /\ i' = [i EXCEPT ![p] = @ + 1]
  /\ Goto(p, IF i[p] + 1 < RelaxBound THEN "relax" ELSE "wake")

\* Mutants of the rest of unlock_mutex: it returns as soon as the lock is
\* taken again; it exchanges where it should compare and exchange.
RelaxAndReturn(p) ==
  /\ pc[p] = "relax"
  /\ \/ m # 0 /\ Goto(p, "idle") /\ UNCHANGED i
     \/ m = 0 /\ Again(p)
  /\ UNCHANGED m

ContendByExchange(p) ==
  /\ pc[p] = "contend"
  /\ m' = 2
  /\ \/ m # 0 /\ Goto(p, "idle") /\ UNCHANGED i
     \/ m = 0 /\ Again(p)

\* The loop reads *m.
Relax(p) ==
  /\ pc[p] = "relax"
  /\ \/ m # 0 /\ Goto(p, "contend") /\ UNCHANGED i
     \/ m = 0 /\ Again(p)
  /\ UNCHANGED m

\* cmpxchg(m, 1, 2): a new holder takes over the duty to wake, and
\* unlock_mutex returns.
Contend(p) ==
  /\ pc[p] = "contend"
  /\ m' = IF m = 1 THEN 2 ELSE m
  /\ \/ m # 0 /\ Goto(p, "idle") /\ UNCHANGED i
     \/ m = 0 /\ Again(p)

\* FUTEX_WAKE of one sleeper, if there is any.
Wake(p) ==
  /\ pc[p] = "wake"
  /\ \/ \E q \in Proc :
          /\ pc[q] = "asleep"
          /\ pc' = [pc EXCEPT ![p] = "idle", ![q] = "mark"]
     \/ /\ \A q \in Proc : pc[q] # "asleep"
        /\ Goto(p, "idle")
  /\ UNCHANGED <<m, i>>

-----------------------------------------------------------------------------

\* What a process does of itself once it has called lock_mutex.
Step(p) ==
  \/ Spin(p) \/ Mark(p) \/ Wait(p)
  \/ Unlock(p) \/ Store(p) \/ Swap(p) \/ Relax(p) \/ Contend(p) \/ Wake(p)

Next == \E p \in Proc : Start(p) \/ Interrupt(p) \/ Step(p)

Spec == Init /\ [][Next]_vars

\* The scheduler runs every process that can run, and critical sections are
\* finite.  No process has to call lock_mutex, no signal has to arrive.
FairSpec == Spec /\ \A p \in Proc : WF_vars(Step(p))

-----------------------------------------------------------------------------

Label == {"idle", "spin", "mark", "wait", "asleep", "held", "store", "swap",
          "relax", "contend", "wake"}

\* The lock word, the program counters and the loop counters keep their
\* types (mutex.c: the word is only ever 0, 1 or 2).
TypeOK ==
  /\ m \in {0, 1, 2}
  /\ pc \in [Proc -> Label]
  /\ i \in [Proc -> Nat]

Holding(p) == pc[p] \in {"held", "store", "swap"}

Trying(p) == pc[p] \in {"spin", "mark", "wait", "asleep"}

\* Two processes are never between the return of lock_mutex and the release
\* in unlock_mutex at the same time.
MutualExclusion ==
  \A p, q \in Proc : Holding(p) /\ Holding(q) => p = q

\* The word tells the truth: it is 0 exactly when nobody holds the lock, and
\* a holder that read 2 in unlock_mutex still finds 2 when its plain,
\* non-atomic store of 0 happens.
WordMatchesHolder ==
  /\ m = 0 <=> \A p \in Proc : ~Holding(p)
  /\ \A p \in Proc : pc[p] = "store" => m = 2

\* No wake-up is lost: while somebody sleeps on the futex, either the word
\* still says 2, so that whoever releases will call FUTEX_WAKE, or some
\* process is already on its way to wake a sleeper or to set the word to 2.
NoLostWakeup ==
  (\E p \in Proc : pc[p] = "asleep")
    => m = 2 \/ \E p \in Proc : pc[p] \in {"relax", "contend", "wake", "mark"}

\* Once no new lock_mutex call arrives, every process still inside
\* lock_mutex gets the lock: no sleeper is forgotten.  (Hence, while somebody
\* wants the lock, somebody gets it: if from some point on nobody did, the
\* calls would stop coming.)
QuietEntry ==
  <>[][\A p \in Proc : ~Start(p)]_vars
    => \A p \in Proc : Trying(p) ~> Holding(p)

-----------------------------------------------------------------------------

\* The caller's view of each process.
phaseBar ==
  [p \in Proc |-> IF Holding(p) THEN "in" ELSE IF Trying(p) THEN "trying" ELSE "out"]

L == INSTANCE AbstractLock WITH phase <- phaseBar

\* lock_mutex and unlock_mutex implement the abstract lock.
ImplementsLock == L!Spec
=============================================================================
