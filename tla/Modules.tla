------------------------------- MODULE Modules ------------------------------
(***************************************************************************)
(* The modules of a pipeline at work (src/src/pipeline.c, src/src/module.c) *)
(* in the children of a server and in the timer of its parent, with two of *)
(* the modules that come with it: "snapshot" (src/gpu/snapshot.c), which   *)
(* keeps a flag in memory that all processes share, and "writefile"        *)
(* (src/gpu/writefile.c), which puts a transmitted file together again.    *)
(*                                                                         *)
(* Steps.  A section under s_m is a step; an access outside of it is a     *)
(* step of its own.  A pwrite with its loop is a step, as the chunks of a  *)
(* file do not overlap.                                                    *)
(*                                                                         *)
(* Data.  A heap is what a transmitter sends, a chunk [file, off, len], or *)
(* has no file (a test pattern).  A byte is [file, off] in the file that   *)
(* was sent.                                                               *)
(***************************************************************************)
EXTENDS Integers, SequencesExt, Stack

CONSTANTS ModChild,   \* the children
          Pipeline,   \* l_mods: a stack of "snapshot" and "writefile"
          Traffic,    \* sets of heaps, one of which arrives
          Block,      \* what shared_malloc hands out for a struct snap_shot
          NoBlock,    \* the null pointer
          NoFile,     \* no name
          MaxTimers,  \* bound: turns of the parent's loop that run the timers
          ModFaults   \* whether malloc, open and pwrite may fail

ASSUME ModulesAssumption ==
  /\ Pipeline \in Seq({"snapshot", "writefile"})
  /\ MaxTimers \in Nat /\ ModFaults \in BOOLEAN /\ NoBlock \notin Block
  /\ \A h \in UNION Traffic : h.off \in Nat /\ h.len \in Nat

VARIABLES k_pc, k_at, k_heap, \* of each child: where it is, its place in the
                              \* pipeline, the heap at hand
          k_ss,        \* the pointer its callback of "snapshot" has read
          k_ws,        \* m_data of its "writefile": w_state, w_fd
          s_data,      \* of "snapshot": the shared pointer
          alive, flag, \* the blocks allocated; flag[0] of each block
          copies,      \* the files on the receiver's disk
          arriving, timers,
          log          \* history: the heaps sent, pictures drawn, callbacks that
                       \* touched a block after its release, chunks cut short

shot == <<s_data, alive, flag>>
mvars == <<k_pc, k_at, k_heap, k_ss, k_ws, shot, copies, arriving, timers, log>>

NoHeap == [file |-> NoFile, off |-> 0, len |-> 0]
NoSink == [state |-> "null", fd |-> NoFile]

Files == {h.file : h \in UNION Traffic} \ {NoFile}
Offsets == UNION {h.off .. h.off + h.len - 1 : h \in UNION Traffic}
Hole == [file |-> NoFile, off |-> 0]

ModulesInit ==
  /\ k_pc = [c \in ModChild |-> "setup"] /\ k_at = [c \in ModChild |-> 1]
  /\ k_heap = [c \in ModChild |-> NoHeap] /\ k_ss = [c \in ModChild |-> NoBlock]
  /\ k_ws = [c \in ModChild |-> NoSink]
  /\ s_data = NoBlock /\ alive = {} /\ flag = [b \in Block |-> FALSE]
  /\ copies = [f \in Files |-> [o \in Offsets |-> Hole]]
  /\ arriving \in Traffic /\ timers = MaxTimers
  /\ log = [sent |-> arriving, pictures |-> 0, late |-> 0, short |-> {}]

(***************************************************************************)
(* traverse_stack over l_mods.  What a module's function returns is only   *)
(* logged: the next module's turn comes in any case.                       *)
(***************************************************************************)
Order == TraverseStack(Pipeline)

\* The child c in the loop l is at the module m ...
TurnOf(c, l, m) == k_pc[c] = l /\ k_at[c] \in DOMAIN Order /\ Order[k_at[c]] = m

\* ... and goes on to the next one.
NextModule(c, l) ==
  /\ k_pc' = [k_pc EXCEPT ![c] = l]
  /\ k_at' = [k_at EXCEPT ![c] = @ + 1]

\* The end of the loop l.
LoopEnds(c, l, next) ==
  /\ k_pc[c] = l /\ k_at[c] \notin DOMAIN Order
  /\ k_pc' = [k_pc EXCEPT ![c] = next]
  /\ k_at' = [k_at EXCEPT ![c] = 1]

(***************************************************************************)
(* setup_spead_pipeline                                                    *)
(***************************************************************************)

\* Mutant: every child makes a flag of its own.
SetupAlways == TRUE
NeedsSetup == s_data = NoBlock

\* The first child to come makes the shared data.
SetupSnapshot(c) ==
  /\ TurnOf(c, "setup", "snapshot")
  /\ \/ /\ NeedsSetup
        /\ \E b \in Block \ alive :
             /\ s_data' = b /\ alive' = alive \cup {b}
             /\ flag' = [flag EXCEPT ![b] = FALSE]
     \/ /\ ModFaults \/ ~NeedsSetup
        /\ UNCHANGED shot
  /\ NextModule(c, "setup")
  /\ UNCHANGED <<k_heap, k_ss, k_ws, copies, arriving, timers, log>>

SetupWritefile(c) ==
  /\ TurnOf(c, "setup", "writefile")
  /\ \/ k_ws' = [k_ws EXCEPT ![c] = [state |-> "stat", fd |-> NoFile]]
     \/ ModFaults /\ UNCHANGED k_ws
  /\ NextModule(c, "setup")
  /\ UNCHANGED <<k_heap, k_ss, shot, copies, arriving, timers, log>>

SetUp(c) ==
  /\ LoopEnds(c, "setup", "idle")
  /\ UNCHANGED <<k_heap, k_ss, k_ws, shot, copies, arriving, timers, log>>

(***************************************************************************)
(* run_callbacks_spead_pipeline                                            *)
(***************************************************************************)

\* A heap is complete, whichever and in whichever child.
HeapComplete(c) ==
  /\ k_pc[c] = "idle"
  /\ \E h \in arriving :
       /\ arriving' = arriving \ {h}
       /\ k_heap' = [k_heap EXCEPT ![c] = h]
  /\ k_pc' = [k_pc EXCEPT ![c] = "call"]
  /\ UNCHANGED <<k_at, k_ss, k_ws, shot, copies, timers, log>>

\* "snapshot" looks for the item 0xb001, which is a chunk's id, and reads
\* the shared pointer before it takes the lock.
ReadShared(c) ==
  /\ TurnOf(c, "call", "snapshot")
  /\ IF k_heap[c].file = NoFile
       THEN NextModule(c, "call") /\ UNCHANGED k_ss
       ELSE /\ k_ss' = [k_ss EXCEPT ![c] = s_data]
            /\ k_pc' = [k_pc EXCEPT ![c] = "shot"] /\ UNCHANGED k_at
  /\ UNCHANGED <<k_heap, k_ws, shot, copies, arriving, timers, log>>

\* Mutant: the flag stays.
TakenStays(f, b) == f
Taken(f, b) == [f EXCEPT ![b] = FALSE]

\* The section: the child that finds the flag draws the picture.  Of a block
\* released meanwhile it finds what the allocator has left there.
Snapshot(c) ==
  /\ TurnOf(c, "shot", "snapshot")
  /\ LET ss == k_ss[c] IN
       IF ss = NoBlock THEN UNCHANGED <<flag, log>>
       ELSE \E found \in IF ss \in alive THEN {flag[ss]} ELSE BOOLEAN :
              /\ flag' = IF found THEN Taken(flag, ss) ELSE flag
              /\ log' = [log EXCEPT !.pictures = @ + IF found THEN 1 ELSE 0,
                                    !.late = @ + IF ss \in alive THEN 0 ELSE 1]
  /\ NextModule(c, "call")
  /\ UNCHANGED <<k_heap, k_ss, k_ws, s_data, alive, copies, arriving, timers>>

\* "writefile": the first heap names the file ...
OpenFile(c) ==
  /\ TurnOf(c, "call", "writefile") /\ k_ws[c].state = "stat"
  /\ \/ /\ k_heap[c].file # NoFile
        /\ k_ws' = [k_ws EXCEPT ![c] = [state |-> "write", fd |-> k_heap[c].file]]
        /\ UNCHANGED <<k_pc, k_at, log>>
     \/ /\ ModFaults \/ k_heap[c].file = NoFile
        /\ log' = [log EXCEPT !.short = @ \cup {k_heap[c]}]
        /\ NextModule(c, "call") /\ UNCHANGED k_ws
  /\ UNCHANGED <<k_heap, k_ss, shot, copies, arriving, timers>>

\* Mutant: where a chunk goes is not looked at.
PlaceAtStart(h, pos) == pos
Place(h, pos) == h.off + pos

\* ... every heap is written to it, or as much as the first pwrite takes.
WriteFile(c) ==
  LET h == k_heap[c] IN
  /\ TurnOf(c, "call", "writefile") /\ k_ws[c].state = "write" /\ h.file # NoFile
  /\ \E n \in IF ModFaults THEN 0 .. h.len ELSE {h.len} :
       /\ copies' = [copies EXCEPT ![k_ws[c].fd] =
            [o \in Offsets |->
               IF \E p \in 0 .. n - 1 : Place(h, p) = o
               THEN [file |-> h.file,
                     off |-> h.off + (CHOOSE p \in 0 .. n - 1 : Place(h, p) = o)]
               ELSE @[o]]]
       /\ log' = IF n < h.len THEN [log EXCEPT !.short = @ \cup {h}] ELSE log
  /\ NextModule(c, "call")
  /\ UNCHANGED <<k_heap, k_ss, k_ws, shot, arriving, timers>>

\* A heap without a chunk after one with: data_item is null, the child dies.
Crash(c) ==
  /\ TurnOf(c, "call", "writefile")
  /\ k_ws[c].state = "write" /\ k_heap[c].file = NoFile
  /\ k_pc' = [k_pc EXCEPT ![c] = "crashed"]
  /\ UNCHANGED <<k_at, k_heap, k_ss, k_ws, shot, copies, arriving, timers, log>>

\* No m_data: -1.
SkipFile(c) ==
  /\ TurnOf(c, "call", "writefile") /\ k_ws[c].state = "null"
  /\ log' = [log EXCEPT !.short = @ \cup {k_heap[c]}]
  /\ NextModule(c, "call")
  /\ UNCHANGED <<k_heap, k_ss, k_ws, shot, copies, arriving, timers>>

Called(c) ==
  /\ LoopEnds(c, "call", "idle")
  /\ k_heap' = [k_heap EXCEPT ![c] = NoHeap]
  /\ UNCHANGED <<k_ss, k_ws, shot, copies, arriving, timers, log>>

(***************************************************************************)
(* The task returns, on a signal or an error: destroy_spead_pipeline.      *)
(***************************************************************************)
Return(c) ==
  /\ k_pc[c] = "idle"
  /\ k_pc' = [k_pc EXCEPT ![c] = "destroy"]
  /\ UNCHANGED <<k_at, k_heap, k_ss, k_ws, shot, copies, arriving, timers, log>>

\* Mutant: the memory is released, the pointer stays.
ClearedNot(p) == p
Cleared(p) == NoBlock

\* The first child to leave takes the shared data away from all.
DestroySnapshot(c) ==
  /\ TurnOf(c, "destroy", "snapshot")
  /\ alive' = alive \ {s_data} /\ s_data' = Cleared(s_data)
  /\ NextModule(c, "destroy")
  /\ UNCHANGED <<k_heap, k_ss, k_ws, flag, copies, arriving, timers, log>>

DestroyWritefile(c) ==
  /\ TurnOf(c, "destroy", "writefile")
  /\ k_ws' = [k_ws EXCEPT ![c] = NoSink]
  /\ NextModule(c, "destroy")
  /\ UNCHANGED <<k_heap, k_ss, shot, copies, arriving, timers, log>>

Gone(c) ==
  /\ LoopEnds(c, "destroy", "gone")
  /\ UNCHANGED <<k_heap, k_ss, k_ws, shot, copies, arriving, timers, log>>

(***************************************************************************)
(* run_timers_spead_pipeline, in the parent: "snapshot" sets its flag.     *)
(***************************************************************************)
RunTimers ==
  /\ timers > 0 /\ s_data # NoBlock /\ "snapshot" \in ToSet(Order)
  /\ timers' = timers - 1
  /\ flag' = [flag EXCEPT ![s_data] = TRUE]
  /\ UNCHANGED <<k_pc, k_at, k_heap, k_ss, k_ws, s_data, alive, copies, arriving, log>>

-----------------------------------------------------------------------------

ModuleStep(c) ==
  \/ SetupSnapshot(c) \/ SetupWritefile(c) \/ SetUp(c)
  \/ HeapComplete(c) \/ ReadShared(c) \/ Snapshot(c)
  \/ OpenFile(c) \/ WriteFile(c) \/ Crash(c) \/ SkipFile(c) \/ Called(c)
  \/ Return(c) \/ DestroySnapshot(c) \/ DestroyWritefile(c) \/ Gone(c)

ModulesNext == RunTimers \/ \E c \in ModChild : ModuleStep(c)

ModulesSpec == ModulesInit /\ [][ModulesNext]_mvars

-----------------------------------------------------------------------------

\* The data the children share through a module: it exists at most once and
\* only while the shared pointer says so, whoever sets up or destroys first;
\* it is gone when all children have left in order; and a turn of the timer
\* brings one picture at most, over all children, but for those that read
\* the pointer before another child took the data away.
SharedDataRight ==
  /\ alive = {s_data} \ {NoBlock}
  /\ (\A c \in ModChild : k_pc[c] = "gone") => s_data = NoBlock
  /\ log.pictures + Cardinality({b \in alive : flag[b]}) <= MaxTimers - timers + log.late

\* The file that was sent is put together by children that know nothing of
\* each other: at each offset is the byte that was there, unless a child had
\* taken the name from another file before, and when all chunks have been
\* handled nothing is missing but what a pwrite, an open or a crash cut off.
CopyHonest ==
  LET alone(f) == \A h \in log.sent : h.file \in {f, NoFile}
      handled == arriving = {} /\ \A c \in ModChild : k_heap[c] = NoHeap \/ k_pc[c] = "crashed"
  IN \A f \in Files :
       /\ \A o \in Offsets :
            copies[f][o] # Hole =>
              copies[f][o].off = o /\ (copies[f][o].file = f \/ ~alone(f))
       /\ alone(f) /\ handled =>
            \A h \in log.sent \ log.short :
              h.file = f => \A o \in h.off .. h.off + h.len - 1 : copies[f][o] # Hole
=============================================================================
