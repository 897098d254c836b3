---------------------------- MODULE StreamReader ----------------------------
(***************************************************************************)
(* request_chunk_datafile (src/src/datafile.c) when the data file is       *)
(* stdin: the workers of the transmitter (src/src/tx.c) share one pipe and *)
(* read whole chunks from it, one worker at a time under f_m, however      *)
(* short the single reads are.  Some writer fills the pipe and may close   *)
(* it.  What a worker does with its chunk is module Transmit's subject;    *)
(* here it takes the chunk away and asks for the next one.                 *)
(*                                                                         *)
(* Data.  The bytes of the stream are their positions, 0 .. Input - 1.     *)
(***************************************************************************)
EXTENDS Integers, Sequences

CONSTANTS Worker,
          Input,      \* bytes the writer sends before it closes the pipe
          ChunkSize,  \* len
          ReadFaults, \* whether read may fail other than by EINTR or EAGAIN
          None        \* no worker

ASSUME StreamAssumption ==
  /\ Input \in Nat
  /\ ChunkSize \in Nat \ {0}
  /\ ReadFaults \in BOOLEAN
  /\ None \notin Worker

VARIABLES written,    \* bytes the writer has sent
          closed,     \* the writer has closed the pipe
          consumed,   \* bytes read from the pipe
          f_m,        \* the holder of the file's lock
          pc,         \* of each worker
          buf,        \* of each worker: the bytes at *ptr, pos is its length
          taken       \* history: the chunks handed out

vars == <<written, closed, consumed, f_m, pc, buf, taken>>

Init ==
  /\ written = 0 /\ closed = FALSE /\ consumed = 0
  /\ f_m = None
  /\ pc = [w \in Worker |-> "request"]
  /\ buf = [w \in Worker |-> <<>>]
  /\ taken = {}

Goto(w, l) == pc' = [pc EXCEPT ![w] = l]

\* The writer at the other end of the pipe.
Write ==
  /\ ~closed /\ written < Input
  /\ written' = written + 1
  /\ UNCHANGED <<closed, consumed, f_m, pc, buf, taken>>

Close ==
  /\ ~closed /\ written = Input
  /\ closed' = TRUE
  /\ UNCHANGED <<written, consumed, f_m, pc, buf, taken>>

\* lock_mutex, with pos = 0.
Lock(w) ==
  /\ pc[w] = "request"
  /\ f_m = None
  /\ f_m' = w
  /\ buf' = [buf EXCEPT ![w] = <<>>]
  /\ Goto(w, "read")
  /\ UNCHANGED <<written, closed, consumed, taken>>

\* Mutants of the next action: the lock is released after every read; a
\* short read is taken for the whole chunk.
ReadUpTo(w, most) ==
  /\ pc[w] = "read"
  /\ \E n \in 1 .. most :
       /\ consumed + n <= written
       /\ consumed' = consumed + n
       /\ buf' = [buf EXCEPT ![w] = @ \o [k \in 1 .. n |-> consumed + k - 1]]
       /\ Goto(w, IF Len(buf[w]) + n = ChunkSize THEN "full" ELSE "read")
  /\ UNCHANGED <<written, closed, taken>>

ReadUnlocked(w) == ReadUpTo(w, ChunkSize - Len(buf[w])) /\ f_m' = None

ReadShort(w) ==
  /\ pc[w] = "read"
  /\ \E n \in 1 .. ChunkSize :
       /\ consumed + n <= written
       /\ consumed' = consumed + n
       /\ buf' = [buf EXCEPT ![w] = [k \in 1 .. n |-> consumed + k - 1]]
  /\ Goto(w, "full")
  /\ UNCHANGED <<written, closed, f_m, taken>>

\* One read that returns data, any amount of what there is.
Read(w) ==
  /\ pc[w] = "read"
  /\ \E n \in 1 .. ChunkSize - Len(buf[w]) :
       /\ consumed + n <= written
       /\ consumed' = consumed + n
       /\ buf' = [buf EXCEPT ![w] = @ \o [k \in 1 .. n |-> consumed + k - 1]]
       /\ Goto(w, IF Len(buf[w]) + n = ChunkSize THEN "full" ELSE "read")
  /\ UNCHANGED <<written, closed, f_m, taken>>

\* read returns 0: "if (pos == len) break;" never holds inside the loop, so
\* the worker reads again, and again gets 0.  (EINTR and EAGAIN change
\* nothing either.)
ReadEOF(w) ==
  /\ pc[w] = "read"
  /\ closed /\ consumed = written
  /\ Len(buf[w]) # ChunkSize
  /\ UNCHANGED vars

\* read fails: return -1 with the lock held.  The worker stores the result in
\* an unsigned, fails to copy that much and exits.
ReadFails(w) ==
  /\ ReadFaults
  /\ pc[w] = "read"
  /\ Goto(w, "exited")
  /\ UNCHANGED <<written, closed, consumed, f_m, buf, taken>>

\* sr is 0: unlock_mutex and return the chunk.
Unlock(w) ==
  /\ pc[w] = "full"
  /\ f_m' = None
  /\ taken' = taken \cup {buf[w]}
  /\ Goto(w, "request")
  /\ UNCHANGED <<written, closed, consumed, buf>>

-----------------------------------------------------------------------------

Step(w) == Lock(w) \/ Read(w) \/ ReadEOF(w) \/ Unlock(w)

Next == Write \/ Close \/ \E w \in Worker : Step(w) \/ ReadFails(w)

Spec == Init /\ [][Next]_vars

\* The writer writes on and closes, the scheduler runs every worker.
FairSpec == Spec /\ WF_vars(Write \/ Close) /\ \A w \in Worker : WF_vars(Step(w))

-----------------------------------------------------------------------------

\* Every variable of the stream keeps its type.
TypeOK ==
  /\ written \in 0 .. Input /\ closed \in BOOLEAN
  /\ consumed \in 0 .. written
  /\ f_m \in Worker \cup {None}
  /\ pc \in [Worker -> {"request", "read", "full", "exited"}]
  /\ buf \in [Worker -> Seq(Nat)]
  /\ \A w \in Worker : Len(buf[w]) <= ChunkSize

\* A chunk is a run of consecutive bytes of the stream that starts at a
\* multiple of its length: no other worker's read cuts in between the short
\* reads that make it up.
ChunksAligned ==
  \A c \in taken :
    /\ Len(c) = ChunkSize
    /\ c[1] % ChunkSize = 0
    /\ \A k \in 1 .. Len(c) : c[k] = c[1] + k - 1

\* Every full chunk of the stream is handed out, unless a read fails.
FullChunksTaken ==
  \A k \in 0 .. Input \div ChunkSize - 1 :
    <>((\E c \in taken : c[1] = k * ChunkSize) \/ \E w \in Worker : pc[w] = "exited")

\* The end of the stream ends the workers ("EOF", "got 0 ending").
WorkersEnd == closed ~> \A w \in Worker : pc[w] = "exited"
=============================================================================
