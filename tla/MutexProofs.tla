---------------------------- MODULE MutexProofs -----------------------------
(***************************************************************************)
(* Proofs about the futex mutex, for any set of processes and any bounds   *)
(* of the two loops.  WordMatchesHolder and MutualExclusion together are   *)
(* inductive; NoLostWakeup needs them because the release of a marked      *)
(* lock must be seen to pass through the waking half of unlock_mutex.      *)
(***************************************************************************)
EXTENDS Mutex, TLAPS

\* The lock word and the counters of mutex.c keep their types.
THEOREM TypeCorrect == Spec => []TypeOK
<1>1. Init => TypeOK
  BY DEF Init, TypeOK, Label
<1>2. TypeOK /\ [Next]_vars => TypeOK'
  <2> SUFFICES ASSUME TypeOK, [Next]_vars PROVE TypeOK'
    OBVIOUS
  <2> USE DEF TypeOK, Label, Goto
  <2>1. ASSUME NEW p \in Proc, Start(p) PROVE TypeOK'
    BY <2>1 DEF Start
  <2>2. ASSUME NEW p \in Proc, Interrupt(p) PROVE TypeOK'
    BY <2>2 DEF Interrupt
  <2>3. ASSUME NEW p \in Proc, Spin(p) PROVE TypeOK'
    BY <2>3 DEF Spin
  <2>4. ASSUME NEW p \in Proc, Mark(p) PROVE TypeOK'
    BY <2>4 DEF Mark
  <2>5. ASSUME NEW p \in Proc, Wait(p) PROVE TypeOK'
    BY <2>5 DEF Wait
  <2>6. ASSUME NEW p \in Proc, Unlock(p) PROVE TypeOK'
    BY <2>6 DEF Unlock
  <2>7. ASSUME NEW p \in Proc, Store(p) PROVE TypeOK'
    BY <2>7 DEF Store
  <2>8. ASSUME NEW p \in Proc, Swap(p) PROVE TypeOK'
    BY <2>8 DEF Swap
  <2>9. ASSUME NEW p \in Proc, Relax(p) PROVE TypeOK'
    BY <2>9 DEF Relax, Again
  <2>10. ASSUME NEW p \in Proc, Contend(p) PROVE TypeOK'
    BY <2>10 DEF Contend, Again
  <2>11. ASSUME NEW p \in Proc, Wake(p) PROVE TypeOK'
    BY <2>11 DEF Wake
  <2>12. CASE UNCHANGED vars
    BY <2>12 DEF vars
  <2> QED
    BY <2>1, <2>2, <2>3, <2>4, <2>5, <2>6, <2>7, <2>8, <2>9, <2>10, <2>11,
       <2>12 DEF Next, Step
<1> QED
  BY <1>1, <1>2, PTL DEF Spec

\* The inductive invariant: the word and the holder agree.
LockInv == TypeOK /\ MutualExclusion /\ WordMatchesHolder

LEMMA LockInvStep == LockInv /\ TypeOK' /\ [Next]_vars => LockInv'
<1> SUFFICES ASSUME LockInv, TypeOK', [Next]_vars PROVE LockInv'
  OBVIOUS
<1> USE DEF LockInv, TypeOK, Label, Goto, MutualExclusion, WordMatchesHolder, Holding
<1>1. ASSUME NEW p \in Proc, Start(p) PROVE LockInv'
  BY <1>1 DEF Start
<1>2. ASSUME NEW p \in Proc, Interrupt(p) PROVE LockInv'
  BY <1>2 DEF Interrupt
<1>3. ASSUME NEW p \in Proc, Spin(p) PROVE LockInv'
  BY <1>3 DEF Spin
<1>4. ASSUME NEW p \in Proc, Mark(p) PROVE LockInv'
  BY <1>4 DEF Mark
<1>5. ASSUME NEW p \in Proc, Wait(p) PROVE LockInv'
  BY <1>5 DEF Wait
<1>6. ASSUME NEW p \in Proc, Unlock(p) PROVE LockInv'
  BY <1>6 DEF Unlock
<1>7. ASSUME NEW p \in Proc, Store(p) PROVE LockInv'
  BY <1>7 DEF Store
<1>8. ASSUME NEW p \in Proc, Swap(p) PROVE LockInv'
  BY <1>8 DEF Swap
<1>9. ASSUME NEW p \in Proc, Relax(p) PROVE LockInv'
  BY <1>9 DEF Relax, Again
<1>10. ASSUME NEW p \in Proc, Contend(p) PROVE LockInv'
  BY <1>10 DEF Contend, Again
<1>11. ASSUME NEW p \in Proc, Wake(p) PROVE LockInv'
  BY <1>11 DEF Wake
<1>12. CASE UNCHANGED vars
  BY <1>12 DEF vars
<1> QED
  BY <1>1, <1>2, <1>3, <1>4, <1>5, <1>6, <1>7, <1>8, <1>9, <1>10, <1>11, <1>12
     DEF Next, Step

LEMMA LockInvAlways == Spec => []LockInv
<1>1. Init => LockInv
  BY DEF Init, LockInv, TypeOK, Label, MutualExclusion, WordMatchesHolder, Holding
<1> QED
  BY <1>1, LockInvStep, TypeCorrect, PTL DEF Spec

\* lock_mutex lets one process at a time into the critical section.
THEOREM Exclusion == Spec => []MutualExclusion
BY LockInvAlways, PTL DEF LockInv

\* The word is 0 exactly when the lock is free, and the plain store of 0 in
\* unlock_mutex never overwrites anything but the 2 that was read.
THEOREM WordTruth == Spec => []WordMatchesHolder
BY LockInvAlways, PTL DEF LockInv

\* Whoever sleeps on the futex has somebody bound to wake it: no
\* interleaving of lock_mutex and unlock_mutex loses a wake-up.
THEOREM Wakeup == Spec => []NoLostWakeup
<1>1. Init => NoLostWakeup
  BY DEF Init, NoLostWakeup
<1>2. LockInv /\ NoLostWakeup /\ [Next]_vars => NoLostWakeup'
  <2> SUFFICES ASSUME LockInv, NoLostWakeup, [Next]_vars,
                      NEW s \in Proc, pc'[s] = "asleep"
               PROVE  NoLostWakeup'
    BY DEF NoLostWakeup
  <2> USE DEF LockInv, TypeOK, Label, Goto
  <2>1. ASSUME NEW p \in Proc, Start(p) PROVE NoLostWakeup'
    BY <2>1 DEF Start, NoLostWakeup
  <2>2. ASSUME NEW p \in Proc, Interrupt(p) PROVE NoLostWakeup'
    BY <2>2 DEF Interrupt, NoLostWakeup
  <2>3. ASSUME NEW p \in Proc, Spin(p) PROVE NoLostWakeup'
    BY <2>3 DEF Spin, NoLostWakeup
  <2>4. ASSUME NEW p \in Proc, Mark(p) PROVE NoLostWakeup'
    BY <2>4 DEF Mark, NoLostWakeup
  <2>5. ASSUME NEW p \in Proc, Wait(p) PROVE NoLostWakeup'
    BY <2>5 DEF Wait, NoLostWakeup
  <2>6. ASSUME NEW p \in Proc, Unlock(p) PROVE NoLostWakeup'
    BY <2>6 DEF Unlock, NoLostWakeup
  <2>7. ASSUME NEW p \in Proc, Store(p) PROVE NoLostWakeup'
    BY <2>7 DEF Store, NoLostWakeup
  <2>8. ASSUME NEW p \in Proc, Swap(p) PROVE NoLostWakeup'
    BY <2>8 DEF Swap, NoLostWakeup, WordMatchesHolder, Holding
  <2>9. ASSUME NEW p \in Proc, Relax(p) PROVE NoLostWakeup'
    BY <2>9 DEF Relax, Again, NoLostWakeup
  <2>10. ASSUME NEW p \in Proc, Contend(p) PROVE NoLostWakeup'
    BY <2>10 DEF Contend, Again, NoLostWakeup
  <2>11. ASSUME NEW p \in Proc, Wake(p) PROVE NoLostWakeup'
    BY <2>11 DEF Wake, NoLostWakeup
  <2>12. CASE UNCHANGED vars
    BY <2>12 DEF vars, NoLostWakeup
  <2> QED
    BY <2>1, <2>2, <2>3, <2>4, <2>5, <2>6, <2>7, <2>8, <2>9, <2>10, <2>11,
       <2>12 DEF Next, Step
<1> QED
  BY <1>1, <1>2, LockInvAlways, PTL DEF Spec

\* lock_mutex and unlock_mutex implement the abstract lock: every
\* instruction is a Request, an Enter, a Leave or invisible to the callers.
THEOREM Refinement == Spec => ImplementsLock
<1> USE DEF phaseBar, Holding, Trying
<1>1. Init => L!Init
  BY DEF Init, L!Init
<1>2. LockInv /\ [Next]_vars => [L!Next]_phaseBar
  <2> SUFFICES ASSUME LockInv, [Next]_vars PROVE [L!Next]_phaseBar
    OBVIOUS
  <2> USE DEF LockInv, TypeOK, Label, Goto
  <2>1. ASSUME NEW p \in Proc, Start(p) PROVE L!Request(p)
    BY <2>1 DEF Start, L!Request
  <2>2. ASSUME NEW p \in Proc, Interrupt(p) PROVE UNCHANGED phaseBar
    BY <2>2 DEF Interrupt
  <2>3. ASSUME NEW p \in Proc, Spin(p) PROVE L!Enter(p) \/ UNCHANGED phaseBar
    <3>1. CASE m = 0
      BY <2>3, <3>1 DEF Spin, L!Enter, WordMatchesHolder
    <3>2. CASE m # 0
      BY <2>3, <3>2 DEF Spin
    <3> QED
      BY <3>1, <3>2
  <2>4. ASSUME NEW p \in Proc, Mark(p) PROVE L!Enter(p) \/ UNCHANGED phaseBar
    <3>1. CASE m = 0
      BY <2>4, <3>1 DEF Mark, L!Enter, WordMatchesHolder
    <3>2. CASE m # 0
      BY <2>4, <3>2 DEF Mark
    <3> QED
      BY <3>1, <3>2
  <2>5. ASSUME NEW p \in Proc, Wait(p) PROVE UNCHANGED phaseBar
    BY <2>5 DEF Wait
  <2>6. ASSUME NEW p \in Proc, Unlock(p) PROVE UNCHANGED phaseBar
    BY <2>6 DEF Unlock
  <2>7. ASSUME NEW p \in Proc, Store(p) PROVE L!Leave(p)
    BY <2>7 DEF Store, L!Leave
  <2>8. ASSUME NEW p \in Proc, Swap(p) PROVE L!Leave(p)
    BY <2>8 DEF Swap, L!Leave
  <2>9. ASSUME NEW p \in Proc, Relax(p) PROVE UNCHANGED phaseBar
    BY <2>9 DEF Relax, Again
  <2>10. ASSUME NEW p \in Proc, Contend(p) PROVE UNCHANGED phaseBar
    BY <2>10 DEF Contend, Again
  <2>11. ASSUME NEW p \in Proc, Wake(p) PROVE UNCHANGED phaseBar
    BY <2>11 DEF Wake
  <2>12. CASE UNCHANGED vars
    BY <2>12 DEF vars
  <2> QED
    BY <2>1, <2>2, <2>3, <2>4, <2>5, <2>6, <2>7, <2>8, <2>9, <2>10, <2>11,
       <2>12 DEF Next, Step, L!Next
<1> QED
  BY <1>1, <1>2, LockInvAlways, PTL DEF Spec, ImplementsLock, L!Spec
=============================================================================
