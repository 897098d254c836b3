------------------------------ MODULE MCSender ------------------------------
(***************************************************************************)
(* What happens before a packet is in the receiver's store: the stream a   *)
(* transmitter reads, the transmitter's processes, and the heap of the     *)
(* packet library, each with its own instance: which says the one that a   *)
(* behaviour runs.                                                         *)
(***************************************************************************)
EXTENDS StreamReader, SpeadHeap, Sender

Opt(o, v) == [opt |-> o, val |-> v]
NoDestination == <<Opt("", "host")>>
To(host) == <<Opt("", host), Opt("", "port")>>

VARIABLE which

everything == <<which, vars, svars, xvars>>

MCInit ==
  /\ which \in {"stream", "heap", "sender"}
  /\ Init /\ HeapInit /\ SenderInit
  /\ which # "sender" => x_opt = SenderOptions(NoDestination)

Streams == which = "stream" /\ UNCHANGED <<which, svars, xvars>>
Heaps   == which = "heap"   /\ UNCHANGED <<which, vars, xvars>>
Sends   == which = "sender" /\ UNCHANGED <<which, vars, svars>>

MCNext ==
  \/ Streams /\ Next
  \/ Heaps /\ HeapNext
  \/ Sends /\ SenderNext

\* The writer writes on and closes; the scheduler runs every process that can
\* run.
MCSpec ==
  /\ MCInit /\ [][MCNext]_everything
  /\ WF_everything(Streams /\ (Write \/ Close))
  /\ \A w \in Worker : WF_everything(Streams /\ Step(w))
  /\ WF_everything(Sends /\ Register)
  /\ \A w \in Kid : WF_everything(Sends /\ KidStep(w))

\* StreamReader's promise, when it is the one that runs.
ChunksReach == which = "stream" => FullChunksTaken

-----------------------------------------------------------------------------

\* Replays by two workers: a file that is cut off, one with a packet without
\* payload (such as a terminator), one with something else in it; a test
\* pattern, with two workers, to a group, to everyone; and lines that are
\* refused or lead nowhere.
Lines ==
  {<<Opt("r", <<"data", "cut">>)>> \o To("host"),
   <<Opt("r", <<"data", "data", "bare", "data">>)>> \o To("host"),
   <<Opt("r", <<"data", "bad">>), Opt("x", "")>> \o To("all"),
   <<Opt("d", 1), Opt("s", 1), Opt("c", 2)>> \o To("host"),
   <<Opt("w", 1), Opt("m", "group")>> \o To("host"),
   <<Opt("w", 1)>> \o To("all"),
   <<Opt("w", 0)>> \o To("host"),
   <<Opt("i", "file"), Opt("r", <<"data">>)>> \o To("host"),
   To("host") \o <<Opt("", "more")>>, <<Opt("c", 0)>> \o To("host"), NoDestination}

Ptr(id, direct, addr) == [id |-> id, direct |-> direct, addr |-> addr]
Header(cnt, len, off, plen) ==
  <<Ptr(CntId, FALSE, cnt), Ptr(LenId, FALSE, len), Ptr(OffId, FALSE, off),
    Ptr(PayloadId, FALSE, plen)>>

\* A heap of four bytes and two items in three packets, the first with all
\* the pointers; one whose pointers are spread over its packets; a packet
\* that does not say how long the heap is, one that names no heap, one
\* without items.
Packets ==
  {Header(1, 4, 0, 2) \o <<Ptr(16, TRUE, 0), Ptr(17, TRUE, 2), Ptr(18, FALSE, 9)>>,
   Header(1, 4, 2, 1), Header(1, 4, 3, 1),
   Header(2, 4, 0, 2) \o <<Ptr(16, TRUE, 0)>>, Header(2, 4, 2, 2) \o <<Ptr(17, TRUE, 2)>>,
   <<Ptr(CntId, FALSE, 1), Ptr(OffId, FALSE, 2), Ptr(PayloadId, FALSE, 1)>>,
   <<Ptr(OffId, FALSE, 0), Ptr(PayloadId, FALSE, 1)>>, <<>>}
=============================================================================
