----------------------------- MODULE FileSender -----------------------------
(***************************************************************************)
(* What the transmitter promises of a file: its chunks go out in pieces    *)
(* and in any order.  A chunk is done when each of its bytes went out      *)
(* once; one that was given up is never done, and its bytes may go out     *)
(* again.  The stream terminator follows when every chunk is done.         *)
(***************************************************************************)
EXTENDS Integers

CONSTANTS FileSize, ChunkSize

Byte == 0 .. FileSize - 1

\* The chunks, by the offsets they start at, and their bytes.
Offset == {b \in Byte : b % ChunkSize = 0}
ChunkAt(o) == {b \in Byte : o <= b /\ b < o + ChunkSize}

VARIABLES out,        \* how often each byte went out
          failed,     \* the chunks given up
          done,       \* the chunks that are out
          terminated

vars == <<out, failed, done, terminated>>

Init ==
  /\ out = [b \in Byte |-> 0]
  /\ failed = {} /\ done = {}
  /\ terminated = FALSE

\* Some bytes of a chunk.
Send(o) ==
  /\ o \notin done
  /\ \E piece \in SUBSET ChunkAt(o) :
       /\ o \in failed \/ \A b \in piece : out[b] = 0
       /\ out' = [b \in Byte |-> IF b \in piece THEN out[b] + 1 ELSE out[b]]
  /\ UNCHANGED <<failed, done, terminated>>

Finish(o) ==
  /\ o \notin done \cup failed
  /\ \A b \in ChunkAt(o) : out[b] = 1
  /\ done' = done \cup {o}
  /\ UNCHANGED <<out, failed, terminated>>

GiveUp(o) ==
  /\ o \notin done \cup failed
  /\ failed' = failed \cup {o}
  /\ UNCHANGED <<out, done, terminated>>

Terminate ==
  /\ done = Offset
  /\ ~terminated /\ terminated' = TRUE
  /\ UNCHANGED <<out, failed, done>>

Next == Terminate \/ \E o \in Offset : Send(o) \/ Finish(o) \/ GiveUp(o)

Spec == Init /\ [][Next]_vars
=============================================================================
