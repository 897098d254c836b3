---------------------------- MODULE AbstractLock ----------------------------
(***************************************************************************)
(* What lock_mutex and unlock_mutex promise their callers: a process that  *)
(* asks for the lock stays between the call and its return ("trying")      *)
(* until nobody is inside, then it is alone inside until it releases.      *)
(* The modules of the receive and transmit paths take one step for a       *)
(* whole lock_mutex call on the strength of this specification, which      *)
(* module Mutex is shown to implement.                                     *)
(***************************************************************************)

CONSTANT Proc

VARIABLE phase

Init == phase = [p \in Proc |-> "out"]

Request(p) ==
  /\ phase[p] = "out"
  /\ phase' = [phase EXCEPT ![p] = "trying"]

Enter(p) ==
  /\ phase[p] = "trying"
  /\ \A q \in Proc : phase[q] # "in"
  /\ phase' = [phase EXCEPT ![p] = "in"]

Leave(p) ==
  /\ phase[p] = "in"
  /\ phase' = [phase EXCEPT ![p] = "out"]

Next == \E p \in Proc : Request(p) \/ Enter(p) \/ Leave(p)

Spec == Init /\ [][Next]_phase
=============================================================================
