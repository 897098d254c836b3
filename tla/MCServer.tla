------------------------------ MODULE MCServer ------------------------------
(***************************************************************************)
(* The server, its raw capture, the modules in its children, and the       *)
(* multi-core receiver, each with its own instance: which says the one     *)
(* that a behaviour runs.                                                  *)
(***************************************************************************)
EXTENDS RawCapture, Mcs, Modules

CONSTANTS a, b, c

VARIABLE which

\* A file of three bytes in two chunks; with the heap of a test pattern;
\* after another file.
Chunk(f, off, len) == [file |-> f, off |-> off, len |-> len]
TwoChunks == {Chunk("f", 0, 2), Chunk("f", 2, 1)}
Arrivals ==
  {TwoChunks, {Chunk("f", 0, 2), NoHeap}, {Chunk("f", 0, 2), Chunk("g", 0, 1)}}
Both == <<"snapshot", "writefile">>

allvars == <<which, vars, uvars, mvars>>

MCInit ==
  /\ which \in {"capture", "server", "modules", "mcs"}
  /\ Init /\ ModulesInit
  /\ IF which = "mcs" THEN McsInit ELSE ServerInit
  /\ which \in {"capture", "modules"} => argv = <<>> /\ s_net = 1 /\ u_alarm.left = 0
  /\ which # "modules" => arriving = TwoChunks
  /\ which # "capture" => f_state = "file"
  /\ which \in {"server", "mcs"} =>         \* twos for one worker, no alarm without options
       /\ s_net = IF cpus = 2 THEN 1 ELSE 2
       /\ u_alarm.left = IF argv = <<>> THEN 0 ELSE IF cpus = 2 THEN 1 ELSE 2

Capture == which = "capture" /\ UNCHANGED <<which, uvars, mvars>>
Serve   == which = "server" /\ UNCHANGED <<which, vars, mvars>>
Collect == which = "mcs" /\ UNCHANGED <<which, vars, mvars>>
CallOn  == which = "modules" /\ UNCHANGED <<which, vars, uvars>>

MCNext ==
  \/ Capture /\ Next
  \/ Serve /\ ServerNext
  \/ Collect /\ McsNext
  \/ CallOn /\ ModulesNext

\* The scheduler runs every process that can run.
MCSpec ==
  /\ MCInit /\ [][MCNext]_allvars
  /\ \A w \in Worker : WF_allvars(Capture /\ Step(w))
  /\ WF_allvars(Serve /\ Parent)
  /\ \A w \in Child : WF_allvars(Serve /\ ChildStep(w))
  /\ WF_allvars(Collect /\ McsParent)
  /\ \A w \in Child : WF_allvars(Collect /\ McsChild(w))

\* RawCapture's promise, when it is the one that runs: every datagram gets
\* written or its write fails, while the signals leave one worker alone.
RawCaptureDrains == which = "capture" => CaptureDrains

-----------------------------------------------------------------------------

\* Three datagrams, two of which take several writes at times.
Lengths == [d \in {a, b, c} |-> IF d = a THEN 1 ELSE 2]

Opt(o, v) == [opt |-> o, val |-> v]
Arg(v) == Opt("", v)

\* Two workers with three modules; the raw capture; a second -d, which drops
\* the modules of the first; an interface that follows modules; arguments
\* that main refuses.
Lines ==
  {<<>>,
   <<Opt("p", 8888), Opt("d", "m1"), Arg("m2"), Arg("m3")>>,
   <<Opt("w", 1), Opt("r", "file"), Opt("x", "")>>,
   <<Opt("w", 1), Opt("d", "m1"), Arg("m2"), Opt("d", "m3"), Arg("m4"),
     Opt("m", "group"), Arg("interface")>>,
   <<Opt("w", 0)>>, <<Arg("m1")>>, <<Opt("q", "")>>}

\* Two workers that call back; one that captures, in a group; no module.
McsLines ==
  {<<>>,
   <<Opt("w", 1), Opt("r", "file"), Opt("x", ""), Opt("p", 8888), Opt("m", "group"),
     Arg("interface")>>,
   <<Opt("d", "m1")>>, <<Arg("m1")>>}
=============================================================================
