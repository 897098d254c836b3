----------------------------- MODULE RawCapture -----------------------------
(***************************************************************************)
(* The raw capture of the server: the workers of raw_spead_cap_worker      *)
(* (src/src/server.c) receive datagrams and append them to one data file   *)
(* with write_next_chunk_raw_data_file (src/src/datafile.c), which writes  *)
(* at f_off, in as many pwrite calls as it takes, under f_m; or to the     *)
(* standard output, where a write can only append.                         *)
(*                                                                         *)
(* Data.  A datagram is its name and its length; the file is the sequence  *)
(* of what stands at each offset, the name of a datagram and the index of  *)
(* the byte in it.                                                         *)
(***************************************************************************)
EXTENDS Integers, SequencesExt

CONSTANTS Worker,
          Datagram,   \* the datagrams the network brings, once each
          Length,     \* the length of each of them
          Faults,     \* whether pwrite may fail other than by EINTR or EAGAIN
          Signals,    \* whether signals may interrupt recvfrom
          None        \* no worker, no datagram

ASSUME CaptureAssumption ==
  /\ Length \in [Datagram -> Nat \ {0}]
  /\ Faults \in BOOLEAN /\ Signals \in BOOLEAN
  /\ None \notin Worker \cup Datagram

VARIABLES net,        \* datagrams not yet received
          f_m,        \* the holder of the file's lock
          f_state,    \* "file", or "stream" for the standard output
          f_off,      \* bytes of whole packets in the file
          file,       \* what is at each offset
          pc, run,    \* of each worker
          p,          \* of each worker: the datagram it works on
          pos,        \* of each worker: bytes of it written
          s_bc, s_pc, \* the server's counters
          lost        \* history: datagrams whose write failed

vars == <<net, f_m, f_state, f_off, file, pc, run, p, pos, s_bc, s_pc, lost>>

Init ==
  /\ net = Datagram
  /\ f_m = None /\ f_state \in {"file", "stream"} /\ f_off = 0
  /\ file = <<>>
  /\ pc = [w \in Worker |-> "recv"]
  /\ run = [w \in Worker |-> TRUE]
  /\ p = [w \in Worker |-> None]
  /\ pos = [w \in Worker |-> 0]
  /\ s_bc = 0 /\ s_pc = 0
  /\ lost = {}

Goto(w, l) == pc' = [pc EXCEPT ![w] = l]

\* The head of the loop, when run is 0.
Exit(w) ==
  /\ pc[w] = "recv" /\ ~run[w]
  /\ Goto(w, "exited")
  /\ UNCHANGED <<f_state, net, f_m, f_off, file, run, p, pos, s_bc, s_pc, lost>>

\* recvfrom returns a datagram; a worker that was past the loop's test when
\* the signal came still receives one.
Recv(w) ==
  /\ pc[w] = "recv"
  /\ \E d \in net :
       /\ net' = net \ {d}
       /\ p' = [p EXCEPT ![w] = d]
  /\ Goto(w, "lock")
  /\ UNCHANGED <<f_state, f_m, f_off, file, run, pos, s_bc, s_pc, lost>>

\* handle_us.  An interrupted recvfrom returns -1, which the unsigned nread
\* takes for a length: the worker goes on to write that much (p is None).
Signal(w) ==
  /\ Signals /\ run[w] /\ pc[w] # "exited"
  /\ run' = [run EXCEPT ![w] = FALSE]
  /\ \/ UNCHANGED <<pc, p>>
     \/ pc[w] = "recv" /\ Goto(w, "lock") /\ p' = [p EXCEPT ![w] = None]
  /\ UNCHANGED <<f_state, net, f_m, f_off, file, pos, s_bc, s_pc, lost>>

\* write_next_chunk_raw_data_file: lock_mutex, and pos = 0.
Lock(w) ==
  /\ pc[w] = "lock"
  /\ f_m = None
  /\ f_m' = w
  /\ pos' = [pos EXCEPT ![w] = 0]
  /\ Goto(w, "write")
  /\ UNCHANGED <<f_state, net, f_off, file, run, p, s_bc, s_pc, lost>>

\* The n bytes of datagram d from index i on.
Slice(d, i, n) == [k \in 1 .. n |-> <<d, i + k>>]

\* write: those bytes come after whatever is there.
Appended(d, i, n) == file \o Slice(d, i, n)

\* pwrite: they are put at offset at.
Put(d, i, n, at) == SubSeq(file, 1, at) \o Slice(d, i, n)
                      \o SubSeq(file, at + n + 1, Len(file))

OutputWith(w, n) ==
  IF f_state = "stream" THEN Appended(p[w], pos[w], n)
  ELSE Put(p[w], pos[w], n, f_off + pos[w])

\* Mutant: a short write ends the loop.
PwriteOnce(w) ==
  /\ pc[w] = "write" /\ p[w] # None
  /\ \E n \in 1 .. Length[p[w]] - pos[w] :
       /\ file' = OutputWith(w, n)
       /\ pos' = [pos EXCEPT ![w] = Length[p[w]]]
  /\ Goto(w, "written")
  /\ UNCHANGED <<f_state, net, f_m, f_off, run, p, s_bc, s_pc, lost>>

\* write_chunk_raw_data_file: one pwrite or write of part of what is left, in
\* a file at f_off + pos, over whatever a failed write may have left there.
Pwrite(w) ==
  /\ pc[w] = "write" /\ p[w] # None
  /\ \E n \in 1 .. Length[p[w]] - pos[w] :
       /\ file' = OutputWith(w, n)
       /\ pos' = [pos EXCEPT ![w] = @ + n]
       /\ Goto(w, IF pos'[w] = Length[p[w]] THEN "written" ELSE "write")
  /\ UNCHANGED <<f_state, net, f_m, f_off, run, p, s_bc, s_pc, lost>>

\* pwrite refuses a length of -1: unlock and return -1, which the worker
\* ignores.
PwriteRefused(w) ==
  /\ pc[w] = "write" /\ p[w] = None
  /\ f_m' = None
  /\ Goto(w, "account")
  /\ UNCHANGED <<f_state, net, f_off, file, run, p, pos, s_bc, s_pc, lost>>

\* pwrite fails for another reason, with the same outcome.
PwriteFails(w) ==
  /\ Faults
  /\ pc[w] = "write" /\ p[w] # None
  /\ f_m' = None
  /\ lost' = lost \cup {p[w]}
  /\ Goto(w, "account")
  /\ UNCHANGED <<f_state, net, f_off, file, run, p, pos, s_bc, s_pc>>

\* Mutant: the lock is kept.
WrittenLocked(w) ==
  /\ pc[w] = "written"
  /\ f_off' = f_off + Length[p[w]]
  /\ Goto(w, "account")
  /\ UNCHANGED <<f_state, net, f_m, file, run, p, pos, s_bc, s_pc, lost>>

\* f_off += len and unlock_mutex.
Written(w) ==
  /\ pc[w] = "written"
  /\ f_off' = f_off + Length[p[w]]
  /\ f_m' = None
  /\ Goto(w, "account")
  /\ UNCHANGED <<f_state, net, file, run, p, pos, s_bc, s_pc, lost>>

\* The counters, under s_m; for a length of -1 s_bc loses a byte.
Account(w) ==
  /\ pc[w] = "account"
  /\ s_bc' = s_bc + IF p[w] = None THEN -1 ELSE Length[p[w]]
  /\ s_pc' = s_pc + 1
  /\ Goto(w, "recv")
  /\ UNCHANGED <<f_state, net, f_m, f_off, file, run, p, pos, lost>>

-----------------------------------------------------------------------------

Step(w) ==
  \/ Exit(w) \/ Recv(w) \/ Lock(w) \/ Pwrite(w) \/ PwriteRefused(w) \/ Written(w)
  \/ Account(w)

Next == \E w \in Worker : Step(w) \/ PwriteFails(w) \/ Signal(w)

Spec == Init /\ [][Next]_vars

FairSpec == Spec /\ \A w \in Worker : WF_vars(Step(w))

-----------------------------------------------------------------------------

\* Every variable of the capture keeps its type.
TypeOK ==
  /\ net \subseteq Datagram /\ lost \subseteq Datagram
  /\ f_m \in Worker \cup {None} /\ f_state \in {"file", "stream"}
  /\ f_off \in Nat
  /\ pc \in [Worker -> {"recv", "lock", "write", "written", "account", "exited"}]
  /\ run \in [Worker -> BOOLEAN]
  /\ p \in [Worker -> Datagram \cup {None}]
  /\ pos \in [Worker -> Nat]
  /\ \A w \in Worker :
       pc[w] \in {"write", "written"} /\ p[w] # None => pos[w] <= Length[p[w]]
  /\ s_bc \in Int /\ s_pc \in Nat

\* The datagrams whose write has been completed.
Stored ==
  {d \in Datagram : IF f_state = "stream" THEN <<d, Length[d]>> \in Range(file)
                    ELSE \E k \in 1 .. f_off : file[k] = <<d, 1>>}

WholeUpToOffset ==
  /\ f_off <= Len(file)
  /\ \A d \in Stored : \E k \in 0 .. f_off - Length[d] :
       SubSeq(file, k + 1, k + Length[d]) = Slice(d, 0, Length[d])
  /\ f_off = Cardinality(UNION {{d} \X (1 .. Length[d]) : d \in Stored})

OneAfterAnother ==
  /\ IsInjective(file)
  /\ \A k \in DOMAIN file :
       LET d == file[k][1]  i == file[k][2]
       IN i > 1 => k > 1 /\ file[k - 1] = <<d, i - 1>>

\* Up to f_off the file is a sequence of whole datagrams, each in one piece
\* and once, however short the single writes were and whatever failed in
\* between; on the standard output, where a failed write leaves the head of
\* its datagram, no datagram is torn by another one.  Every datagram that was
\* received and given up by its worker is there whole or its write failed:
\* nothing is dropped silently or overwritten.
FileWhole ==
  /\ IF f_state = "stream" THEN OneAfterAnother ELSE WholeUpToOffset
  /\ \A d \in Datagram \ net :
       \/ d \in Stored \cup lost
       \/ \E w \in Worker : p[w] = d /\ pc[w] \in {"lock", "write", "written"}

\* While one worker is left alone by the signals every datagram gets written
\* or its write fails: no worker waits forever for the file.
CaptureDrains == (\E w \in Worker : []run[w]) => <>(Stored \cup lost = Datagram)
=============================================================================
