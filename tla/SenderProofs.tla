---------------------------- MODULE SenderProofs ----------------------------
(***************************************************************************)
(* What the transmitter's workers take from the file they share, and what  *)
(* the packet library's heap makes of the packets that come.               *)
(*                                                                         *)
(* A stream: the chunks read from it are runs of consecutive bytes that    *)
(* start at multiples of the chunk size, for any number of workers, any    *)
(* writer and any short reads.  The inductive invariant says what the      *)
(* holder of the lock has in its buffer: everything read since the last    *)
(* whole chunk.                                                            *)
(*                                                                         *)
(* A file of captured packets: a replay sends each of them once, the       *)
(* terminator last and nothing left out, for any number of workers, any    *)
(* file and any command line.  The inductive invariant says where a packet *)
(* before the offset is: on the wire or in the hand of one worker; and,    *)
(* as long as nobody has interfered, that a worker ends at the end of the  *)
(* file only, and that the terminator goes out when all have been reaped.  *)
(*                                                                         *)
(* The heap of the packet library: what it says of itself is true, for any *)
(* well-formed senders and any order of the packets.  The inductive        *)
(* invariant says that the chain has the packets that came, in the order   *)
(* of their offsets, that the answer is up to date, and of each item that  *)
(* is marked valid that it has the sender's range, which no later packet   *)
(* can change.                                                             *)
(***************************************************************************)
EXTENDS StreamReader, Sender, SpeadHeap, SequenceTheorems, WellFoundedInduction, TLAPS

(***************************************************************************)
(* A stream                                                                *)
(***************************************************************************)
LEMMA MultipleMod == \A q \in Nat, n \in Nat \ {0} : (q * n) % n = 0
OBVIOUS

LEMMA TypeInit == Init => TypeOK
<1> SUFFICES ASSUME Init PROVE TypeOK
  OBVIOUS
<1>1. closed \in BOOLEAN
  BY DEF Init
<1>2. written \in 0 .. Input /\ consumed \in 0 .. written
  BY StreamAssumption DEF Init
<1>3. <<>> \in Seq(Nat) /\ Len(<<>>) = 0
  OBVIOUS
<1>4. buf \in [Worker -> Seq(Nat)] /\ \A w \in Worker : Len(buf[w]) <= ChunkSize
  BY <1>3, StreamAssumption DEF Init
<1>5. f_m \in Worker \cup {None} /\ pc \in [Worker -> {"request", "read", "full", "exited"}]
  BY DEF Init
<1> QED
  BY <1>1, <1>2, <1>4, <1>5 DEF TypeOK

LEMMA TypeStep == TypeOK /\ [Next]_vars => TypeOK'
<1> SUFFICES ASSUME TypeOK, [Next]_vars PROVE TypeOK'
  OBVIOUS
<1> USE StreamAssumption DEF TypeOK, Goto
<1>1. CASE Write \/ Close
  <2>1. closed' \in BOOLEAN
    BY <1>1 DEF Write, Close
  <2>2. written' \in 0 .. Input /\ consumed' \in 0 .. written'
    BY <1>1 DEF Write, Close
  <2>3. UNCHANGED <<f_m, pc, buf>>
    BY <1>1 DEF Write, Close
  <2> QED
    BY <2>1, <2>2, <2>3
<1>2. ASSUME NEW w \in Worker, Lock(w) PROVE TypeOK'
  BY <1>2 DEF Lock
<1>3. ASSUME NEW w \in Worker, Read(w) PROVE TypeOK'
  <2>1. PICK n \in 1 .. ChunkSize - Len(buf[w]) :
          /\ consumed + n <= written
          /\ consumed' = consumed + n
          /\ buf' = [buf EXCEPT ![w] = @ \o [k \in 1 .. n |-> consumed + k - 1]]
    BY <1>3 DEF Read
  <2> DEFINE fresh == [k \in 1 .. n |-> consumed + k - 1]
  <2>2. fresh \in Seq(Nat) /\ Len(fresh) = n
    OBVIOUS
  <2>3. buf[w] \o fresh \in Seq(Nat) /\ Len(buf[w] \o fresh) = Len(buf[w]) + n
    BY <2>2
  <2>4. pc' \in [Worker -> {"request", "read", "full", "exited"}]
    BY <1>3 DEF Read
  <2> QED
    BY <1>3, <2>1, <2>3, <2>4 DEF Read
<1>4. ASSUME NEW w \in Worker, ReadEOF(w) \/ ReadFails(w) \/ Unlock(w) PROVE TypeOK'
  BY <1>4 DEF ReadEOF, ReadFails, Unlock, vars
<1>5. CASE UNCHANGED vars
  BY <1>5 DEF vars
<1> QED
  BY <1>1, <1>2, <1>3, <1>4, <1>5 DEF Next, Step

\* The variables of the stream keep their types; no read overruns the buffer.
THEOREM TypeCorrect == Spec => []TypeOK
BY TypeInit, TypeStep, PTL DEF Spec

-----------------------------------------------------------------------------

Reading(w) == pc[w] \in {"read", "full"}

\* s holds the bytes of the stream from base on.
RunFrom(s, base) == \A k \in 1 .. Len(s) : s[k] = base + k - 1

HolderReads == \A w \in Worker : Reading(w) => f_m = w

Boundary ==
  \E q \in Nat :
    /\ f_m = None => consumed = q * ChunkSize
    /\ \A w \in Worker : Reading(w) =>
         consumed = q * ChunkSize + Len(buf[w]) /\ RunFrom(buf[w], q * ChunkSize)

FullBuffer == \A w \in Worker : pc[w] = "full" => Len(buf[w]) = ChunkSize

StreamInv == HolderReads /\ Boundary /\ FullBuffer /\ ChunksAligned

LEMMA StreamInit == Init => StreamInv
<1> SUFFICES ASSUME Init PROVE StreamInv
  OBVIOUS
<1>1. 0 \in Nat /\ consumed = 0 * ChunkSize
  BY StreamAssumption DEF Init
<1>2. Boundary
  BY <1>1 DEF Init, Boundary, Reading
<1> QED
  BY <1>2 DEF Init, StreamInv, HolderReads, FullBuffer, ChunksAligned, Reading

LEMMA StreamStep == TypeOK /\ StreamInv /\ [Next]_vars => StreamInv'
<1> SUFFICES ASSUME TypeOK, StreamInv, [Next]_vars PROVE StreamInv'
  OBVIOUS
<1> USE DEF StreamInv
<1>1. CASE Write \/ Close \/ UNCHANGED vars
  <2>1. UNCHANGED <<consumed, f_m, pc, buf, taken>>
    BY <1>1 DEF Write, Close, vars
  <2> QED
    BY <2>1 DEF HolderReads, Boundary, FullBuffer, ChunksAligned, Reading, RunFrom
<1>2. ASSUME NEW w \in Worker, Lock(w) PROVE StreamInv'
  <2>1. /\ f_m = None /\ f_m' = w
        /\ buf' = [buf EXCEPT ![w] = <<>>]
        /\ pc' = [pc EXCEPT ![w] = "read"]
        /\ UNCHANGED <<consumed, taken>>
    BY <1>2 DEF Lock, Goto
  <2>2. \A v \in Worker : Reading(v)' => v = w
    BY <2>1, StreamAssumption DEF HolderReads, Reading, TypeOK
  <2>3. HolderReads' /\ FullBuffer'
    BY <2>1, <2>2 DEF HolderReads, FullBuffer, Reading, TypeOK
  <2>4. PICK q \in Nat : consumed = q * ChunkSize
    BY <2>1 DEF Boundary
  <2>5. buf'[w] = <<>> /\ q * ChunkSize \in Nat
    BY <2>1, StreamAssumption DEF TypeOK
  <2>6. consumed' = q * ChunkSize + Len(buf'[w]) /\ RunFrom(buf'[w], q * ChunkSize)
    BY <2>1, <2>4, <2>5 DEF RunFrom
  <2>7. f_m' # None
    BY <2>1, StreamAssumption
  <2>8. Boundary'
    BY <2>1, <2>2, <2>4, <2>6, <2>7 DEF Boundary
  <2> QED
    BY <2>1, <2>3, <2>8 DEF ChunksAligned
<1>3. ASSUME NEW w \in Worker, Read(w) PROVE StreamInv'
  <2>1. PICK n \in 1 .. ChunkSize - Len(buf[w]) :
          /\ consumed' = consumed + n
          /\ buf' = [buf EXCEPT ![w] = @ \o [k \in 1 .. n |-> consumed + k - 1]]
          /\ Goto(w, IF Len(buf[w]) + n = ChunkSize THEN "full" ELSE "read")
    BY <1>3 DEF Read
  <2>2. pc[w] = "read" /\ f_m' = f_m /\ taken' = taken
    BY <1>3 DEF Read
  <2>3. f_m = w
    BY <2>2 DEF HolderReads, Reading
  <2>4. \A v \in Worker : Reading(v)' => v = w
    BY <2>1, <2>2, <2>3 DEF HolderReads, Reading, Goto, TypeOK
  <2>5. PICK q \in Nat : /\ consumed = q * ChunkSize + Len(buf[w])
                        /\ RunFrom(buf[w], q * ChunkSize)
    BY <2>2 DEF Boundary, Reading
  <2> DEFINE base == q * ChunkSize
             fresh == [k \in 1 .. n |-> consumed + k - 1]
  <2>6. base \in Nat /\ consumed \in Nat /\ n \in Nat /\ buf[w] \in Seq(Nat)
    BY StreamAssumption DEF TypeOK
  <2>7. /\ buf'[w] = buf[w] \o fresh
        /\ fresh \in Seq(Nat) /\ Len(fresh) = n
    BY <2>1, <2>6 DEF TypeOK
  <2>8. consumed' = base + Len(buf'[w])
    BY <2>1, <2>5, <2>6, <2>7
  <2>9. RunFrom(buf'[w], base)
    <3>1. ASSUME NEW k \in 1 .. Len(buf[w]) + n
          PROVE  (buf[w] \o fresh)[k] = base + k - 1
      <4>1. CASE k <= Len(buf[w])
        <5>1. Len(buf[w]) \in Nat /\ k \in 1 .. Len(buf[w])
          BY <2>6, <4>1
        <5>2. buf[w][k] = base + k - 1
          BY <2>5, <5>1 DEF RunFrom
        <5>3. (buf[w] \o fresh)[k] = buf[w][k]
          BY <2>6, <2>7, <5>1
        <5> QED
          BY <5>2, <5>3
      <4>2. CASE k > Len(buf[w])
        BY <2>5, <2>6, <2>7, <4>2
      <4> QED
        BY <2>6, <4>1, <4>2
    <3>2. Len(buf'[w]) = Len(buf[w]) + n
      BY <2>6, <2>7
    <3> QED
      BY <2>7, <3>1, <3>2 DEF RunFrom
  <2>10. Boundary'
    <3>1. f_m' # None
      BY <2>2, <2>3, StreamAssumption
    <3> QED
      BY <2>4, <2>8, <2>9, <3>1 DEF Boundary
  <2>11. FullBuffer'
    <3>1. pc'[w] = "full" => Len(buf'[w]) = ChunkSize
      BY <2>1, <2>6, <2>7 DEF Goto, TypeOK
    <3> QED
      BY <2>4, <3>1 DEF FullBuffer, Reading
  <2>12. HolderReads'
    BY <2>2, <2>3, <2>4 DEF HolderReads
  <2> QED
    BY <2>2, <2>10, <2>11, <2>12 DEF ChunksAligned
<1>4. ASSUME NEW w \in Worker, ReadEOF(w) PROVE StreamInv'
  BY <1>4 DEF ReadEOF, vars, HolderReads, Boundary, FullBuffer, ChunksAligned, Reading,
              RunFrom
<1>5. ASSUME NEW w \in Worker, ReadFails(w) PROVE StreamInv'
  <2>1. UNCHANGED <<consumed, f_m, buf, taken>> /\ \A v \in Worker : Reading(v)' => Reading(v)
    BY <1>5 DEF ReadFails, Goto, Reading, TypeOK
  <2>2. \A v \in Worker : pc'[v] = "full" => pc[v] = "full"
    BY <1>5 DEF ReadFails, Goto, TypeOK
  <2> QED
    BY <2>1, <2>2 DEF HolderReads, Boundary, FullBuffer, ChunksAligned, RunFrom
<1>6. ASSUME NEW w \in Worker, Unlock(w) PROVE StreamInv'
  <2>1. /\ pc[w] = "full" /\ f_m' = None
        /\ taken' = taken \cup {buf[w]}
        /\ pc' = [pc EXCEPT ![w] = "request"]
        /\ UNCHANGED <<consumed, buf>>
    BY <1>6 DEF Unlock, Goto
  <2>2. f_m = w
    BY <2>1 DEF HolderReads, Reading
  <2>3. \A v \in Worker : ~Reading(v)'
    BY <2>1, <2>2 DEF HolderReads, Reading, TypeOK
  <2>4. PICK q \in Nat : /\ consumed = q * ChunkSize + Len(buf[w])
                        /\ RunFrom(buf[w], q * ChunkSize)
    BY <2>1 DEF Boundary, Reading
  <2>5. Len(buf[w]) = ChunkSize /\ buf[w] \in Seq(Nat)
    BY <2>1 DEF FullBuffer, TypeOK
  <2>6. consumed' = (q + 1) * ChunkSize /\ q + 1 \in Nat
    BY <2>1, <2>4, <2>5, StreamAssumption
  <2>7. Boundary'
    BY <2>3, <2>6 DEF Boundary
  <2>8. q * ChunkSize \in Nat /\ (q * ChunkSize) % ChunkSize = 0
    BY MultipleMod, StreamAssumption
  <2>9. buf[w][1] = q * ChunkSize
    BY <2>4, <2>5, <2>8, StreamAssumption DEF RunFrom
  <2>10. ChunksAligned'
    BY <2>1, <2>4, <2>5, <2>8, <2>9 DEF ChunksAligned, RunFrom
  <2> QED
    BY <2>3, <2>7, <2>10 DEF HolderReads, FullBuffer, Reading
<1> QED
  BY <1>1, <1>2, <1>3, <1>4, <1>5, <1>6 DEF Next, Step

\* request_chunk_datafile hands out runs of consecutive bytes of the stream,
\* aligned to the chunk size: nobody reads between a worker's short reads.
THEOREM Aligned == Spec => []ChunksAligned
<1>1. StreamInv => ChunksAligned
  BY DEF StreamInv
<1> QED
  BY <1>1, StreamInit, StreamStep, TypeCorrect, PTL DEF Spec

(***************************************************************************)
(* A file of captured packets.  First: whatever the command line, main     *)
(* keeps the file of a -r, or none.                                        *)
(***************************************************************************)
\* A set of numbers has a least one.
LEMMA LeastNumber ==
  ASSUME NEW T \in SUBSET Nat, T # {}
  PROVE  \E n \in T : \A m \in T : n <= m
<1>1. PICK n \in T : \A m \in T : ~ (<<m, n>> \in OpToRel(<, Nat))
  BY NatLessThanWellFounded, WFMin
<1>2. \A m \in T : ~ (m < n)
  BY <1>1 DEF OpToRel
<1> QED
  BY <1>2

\* What holds of 0 and goes on from each number to the next holds of all.
LEMMA EveryNumber ==
  ASSUME NEW T \in SUBSET Nat, 0 \in T, \A n \in T : n + 1 \in T
  PROVE  T = Nat
<1>1. SUFFICES ASSUME T # Nat PROVE FALSE
  OBVIOUS
<1>2. PICK n \in Nat \ T : \A m \in Nat \ T : n <= m
  BY <1>1, LeastNumber
<1>3. n - 1 \in T
  BY <1>2
<1> QED
  BY <1>2, <1>3

\* What main makes of the options so far and one more argument.
ReadArgument(o, a) == IF o.usage THEN o ELSE SenderArgument(o, a)

\* What all the arguments make.
AllRead(args) ==
  FoldLeft(LAMBDA p, a : IF p.usage THEN p ELSE SenderArgument(p, a), NoSenderArguments, args)

\* The function in MapThenFoldSet for the FoldLeft of AllRead.
Readings(args, n) ==
  CHOOSE iter :
    iter = [s \in SUBSET (1 .. n) |->
              IF s = {} THEN NoSenderArguments ELSE ReadArgument(iter[s \ {Max(s)}], args[Max(s)])]

\* A greatest number is the maximum.
LEMMA MaxIs ==
  ASSUME NEW s \in SUBSET Nat, NEW m \in s, \A k \in s : k <= m
  PROVE  Max(s) = m
<1>1. \A k \in s : m >= k
  OBVIOUS
<1>2. PICK x : x = Max(s)
  OBVIOUS
<1>3. x \in s /\ \A k \in s : x >= k
  BY <1>1, <1>2 DEF Max
<1> QED
  BY <1>1, <1>2, <1>3

\* What main has read are all its arguments.
LEMMA AllReadIs ==
  \A args : \A n \in Nat : DOMAIN args = 1 .. n => AllRead(args) = Readings(args, n)[1 .. n]
BY Zenon DEF AllRead, FoldLeft, MapThenFoldSet, Readings, ReadArgument

\* That function exists, and is what its equation says.
LEMMA ReadingsAre ==
  ASSUME NEW args, NEW n \in Nat
  PROVE  Readings(args, n) = [s \in SUBSET (1 .. n) |->
           IF s = {} THEN NoSenderArguments
           ELSE ReadArgument(Readings(args, n)[s \ {Max(s)}], args[Max(s)])]
<1> DEFINE Rec(f, m) == [s \in SUBSET (1 .. m) |->
                           IF s = {} THEN NoSenderArguments
                           ELSE ReadArgument(f[s \ {Max(s)}], args[Max(s)])]
           T == {m \in Nat : \E f : f = Rec(f, m)}
<1> HIDE DEF T
<1>1. 0 \in T
  <2>1. PICK f : f = [s \in SUBSET (1 .. 0) |-> NoSenderArguments]
    OBVIOUS
  <2>2. \A s \in SUBSET (1 .. 0) : s = {}
    OBVIOUS
  <2>3. f = Rec(f, 0)
    BY <2>1, <2>2
  <2> QED
    BY <2>3 DEF T
<1>2. ASSUME NEW m \in T PROVE m + 1 \in T
  <2>0. m \in Nat
    BY DEF T
  <2>1. PICK f : f = Rec(f, m)
    BY DEF T
  <2>2. PICK l : l = m + 1
    OBVIOUS
  <2>3. PICK g : g = [s \in SUBSET (1 .. l) |-> IF l \in s THEN ReadArgument(f[s \ {l}], args[l])
                                               ELSE f[s]]
    OBVIOUS
  <2>4. \A s \in SUBSET (1 .. m) : f[s] = IF s = {} THEN NoSenderArguments
                                          ELSE ReadArgument(f[s \ {Max(s)}], args[Max(s)])
    BY <2>1
  <2>5. ASSUME NEW s \in SUBSET (1 .. l)
        PROVE  g[s] = IF s = {} THEN NoSenderArguments
                      ELSE ReadArgument(g[s \ {Max(s)}], args[Max(s)])
    <3>1. CASE l \in s
      <4>1. Max(s) = l
        <5>1. s \in SUBSET Nat /\ \A k \in s : k <= l
          BY <2>0, <2>2
        <5> QED
          BY <3>1, <5>1, MaxIs
      <4>2. s \ {l} \in SUBSET (1 .. l) /\ l \notin s \ {l}
        OBVIOUS
      <4>3. g[s \ {l}] = f[s \ {l}]
        BY <2>3, <4>2
      <4> QED
        BY <2>3, <3>1, <4>1, <4>3
    <3>2. CASE l \notin s
      <4>1. s \in SUBSET (1 .. m) /\ g[s] = f[s]
        BY <2>0, <2>2, <2>3, <3>2
      <4>2. CASE s # {}
        <5>1. PICK x : x = Max(s)
          OBVIOUS
        <5>2. s \ {x} \in SUBSET (1 .. l) /\ l \notin s \ {x}
          BY <3>2
        <5>3. g[s \ {x}] = f[s \ {x}]
          BY <2>3, <5>2
        <5> QED
          BY <2>4, <4>1, <4>2, <5>1, <5>3
      <4> QED
        BY <2>4, <4>1, <4>2
    <3> QED
      BY <3>1, <3>2
  <2>6. g = [s \in SUBSET (1 .. l) |-> g[s]]
    BY <2>3
  <2>7. g = Rec(g, l)
    BY <2>5, <2>6
  <2>8. l \in Nat
    BY <2>0, <2>2
  <2> HIDE DEF Rec
  <2>9. l \in T
    BY <2>7, <2>8 DEF T
  <2> QED
    BY <2>2, <2>9
<1>3. T = Nat
  <2>1. T \in SUBSET Nat
    BY DEF T
  <2> QED
    BY <1>1, <1>2, <2>1, EveryNumber
<1>4. PICK g : g = Readings(args, n)
  OBVIOUS
<1>5. \E f : f = Rec(f, n)
  BY <1>3 DEF T
<1>6. g = Rec(g, n)
  BY <1>4, <1>5 DEF Readings
<1> QED
  BY <1>4, <1>6

\* The arguments are read one by one.
OneByOne(F, args, n) ==
  /\ F[0] = NoSenderArguments /\ F[n] = AllRead(args)
  /\ \A i \in 1 .. n : F[i] = ReadArgument(F[i - 1], args[i])

\* There are such steps.
LEMMA ReadOneByOne ==
  ASSUME NEW args, NEW n \in Nat, DOMAIN args = 1 .. n
  PROVE  \E F : OneByOne(F, args, n)
<1>1. PICK f : f = Readings(args, n)
  OBVIOUS
<1>2. \A s \in SUBSET (1 .. n) :
        f[s] = IF s = {} THEN NoSenderArguments ELSE ReadArgument(f[s \ {Max(s)}], args[Max(s)])
  <2>1. f = [s \in SUBSET (1 .. n) |->
               IF s = {} THEN NoSenderArguments ELSE ReadArgument(f[s \ {Max(s)}], args[Max(s)])]
    <3>1. Readings(args, n) = [s \in SUBSET (1 .. n) |->
            IF s = {} THEN NoSenderArguments
            ELSE ReadArgument(Readings(args, n)[s \ {Max(s)}], args[Max(s)])]
      BY ReadingsAre
    <3> QED
      BY <1>1, <3>1, Zenon
  <2> QED
    BY <2>1
<1>3. PICK F : F = [i \in 0 .. n |-> f[1 .. i]]
  OBVIOUS
<1>4. F[0] = NoSenderArguments
  <2>1. 0 \in 0 .. n /\ 1 .. 0 = {} /\ {} \in SUBSET (1 .. n)
    OBVIOUS
  <2>2. F[0] = f[{}]
    BY <1>3, <2>1
  <2> QED
    BY <1>2, <2>1, <2>2
<1>5. F[n] = AllRead(args)
  <2>1. AllRead(args) = Readings(args, n)[1 .. n]
    BY AllReadIs, Zenon
  <2>2. n \in 0 .. n
    OBVIOUS
  <2> QED
    BY <1>1, <1>3, <2>1, <2>2
<1>6. ASSUME NEW i \in 1 .. n PROVE F[i] = ReadArgument(F[i - 1], args[i])
  <2>1. 1 .. i \in SUBSET (1 .. n) /\ 1 .. i # {}
    OBVIOUS
  <2>2. (1 .. i) \ {i} = 1 .. i - 1
    OBVIOUS
  <2>3. Max(1 .. i) = i
    <3>1. 1 .. i \in SUBSET Nat /\ i \in 1 .. i /\ \A k \in 1 .. i : k <= i
      OBVIOUS
    <3> QED
      BY <3>1, MaxIs
  <2>4. f[1 .. i] = ReadArgument(f[1 .. i - 1], args[i])
    BY <1>2, <2>1, <2>2, <2>3
  <2>5. i \in 0 .. n /\ i - 1 \in 0 .. n
    OBVIOUS
  <2>6. F[i] = f[1 .. i] /\ F[i - 1] = f[1 .. i - 1]
    BY <1>3, <2>5
  <2> QED
    BY <2>4, <2>6
<1> QED
  BY <1>4, <1>5, <1>6 DEF OneByOne

SenderFields == {"args", "cpus", "broadcast", "multicast", "ifile", "rfile", "file", "usage"}

\* What main keeps of -r: the file is a captured one, or there is none.
FileRead(o) ==
  /\ DOMAIN o = SenderFields /\ o = [f \in SenderFields |-> o[f]]
  /\ CapturedFile(o.file)
  /\ o.rfile = TRUE \/ (o.rfile = FALSE /\ o.file = <<>>)

\* One more argument changes nothing about that.
LEMMA FileReadOn ==
  ASSUME NEW o, FileRead(o), NEW a, a.opt = "r" => CapturedFile(a.val)
  PROVE  FileRead(ReadArgument(o, a))
<1>1. PICK p : p = ReadArgument(o, a)
  OBVIOUS
<1>2. \/ p = o \/ p = [o EXCEPT !.broadcast = TRUE] \/ p = [o EXCEPT !.multicast = TRUE]
      \/ p = [o EXCEPT !.cpus = a.val] \/ p = [o EXCEPT !.ifile = TRUE]
      \/ a.opt = "r" /\ p = [o EXCEPT !.rfile = TRUE, !.file = a.val]
      \/ p = [o EXCEPT !.usage = a.val = 0]
      \/ p = [o EXCEPT !.args = Append(@, a.val)] \/ p = [o EXCEPT !.usage = TRUE]
  BY <1>1 DEF ReadArgument, SenderArgument
<1>3. CASE a.opt = "r" /\ p = [o EXCEPT !.rfile = TRUE, !.file = a.val]
  BY <1>1, <1>3 DEF FileRead, SenderFields
<1>4. CASE ~(a.opt = "r" /\ p = [o EXCEPT !.rfile = TRUE, !.file = a.val])
  <2>1. /\ DOMAIN p = SenderFields /\ p = [f \in SenderFields |-> p[f]]
        /\ p.file = o.file /\ p.rfile = o.rfile
    BY <1>2, <1>4 DEF FileRead, SenderFields
  <2> QED
    BY <1>1, <2>1 DEF FileRead
<1> QED
  BY <1>3, <1>4

\* Whatever the command line.
LEMMA FileIs ==
  ASSUME NEW l \in SenderLines
  PROVE  FileRead(SenderOptions(l))
<1>1. PICK n \in Nat : n = Len(l) /\ DOMAIN l = 1 .. n
  <2>1. l \in Seq({l[i] : i \in DOMAIN l})
    BY SenderAssumption, Zenon
  <2> QED
    BY <2>1
<1>2. \A i \in 1 .. n : l[i].opt = "r" => CapturedFile(l[i].val)
  BY <1>1, SenderAssumption, Zenon
<1>3. PICK F : OneByOne(F, l, n)
  BY <1>1, ReadOneByOne
<1> DEFINE T == {i \in Nat : i <= n => FileRead(F[i])}
<1>4. 0 \in T
  <2>1. F[0] = NoSenderArguments
    BY <1>3 DEF OneByOne
  <2>2. CapturedFile(<<>>)
    BY DEF CapturedFile
  <2>3. FileRead(NoSenderArguments)
    BY <2>2 DEF FileRead, NoSenderArguments, SenderFields
  <2> QED
    BY <2>1, <2>3
<1>5. ASSUME NEW i \in T PROVE i + 1 \in T
  <2>1. SUFFICES ASSUME i + 1 <= n PROVE FileRead(F[i + 1])
    OBVIOUS
  <2>2. PICK k \in 1 .. n : k = i + 1 /\ k - 1 = i
    BY <2>1
  <2>3. FileRead(F[k - 1])
    BY <2>1, <2>2
  <2>4. F[k] = ReadArgument(F[k - 1], l[k])
    BY <1>3 DEF OneByOne
  <2>5. FileRead(F[k])
    BY <1>2, <2>3, <2>4, FileReadOn
  <2> QED
    BY <2>2, <2>5
<1>6. T = Nat
  <2>1. T \in SUBSET Nat
    OBVIOUS
  <2> HIDE DEF T
  <2> QED
    BY <1>4, <1>5, <2>1, EveryNumber
<1>7. FileRead(AllRead(l))
  BY <1>3, <1>6 DEF OneByOne
<1>8. PICK o : o = AllRead(l)
  OBVIOUS
<1>9. SenderOptions(l) = [o EXCEPT !.usage = @ \/ Len(o.args) < 2]
  BY <1>8, Zenon DEF SenderOptions, AllRead
<1> QED
  BY <1>7, <1>8, <1>9 DEF FileRead, SenderFields

-----------------------------------------------------------------------------

(***************************************************************************)
(* The inductive invariant                                                 *)
(***************************************************************************)
KidPlaces ==
  {"none", "test", "request", "header", "advance", "send", "count", "number", "packetize",
   "traverse", "done", "zombie", "reaped"}
PatternPlaces == {"count", "number", "packetize", "traverse"}

SenderTypes ==
  /\ k_pc \in [Kid -> KidPlaces] /\ k_run \in [Kid -> BOOLEAN] /\ DOMAIN k_at = Kid
  /\ x_forks \in Nat /\ f_off \in Nat /\ wire \in Seq(Nat) /\ calm \in BOOLEAN

\* A worker that has not been forked is none.
OnlyForked == \A w \in Kid : w > x_forks => k_pc[w] = "none"

\* Who looks at the file holds its lock.
LockHeld == \A w \in Kid : k_pc[w] \in {"header", "advance"} => f_lock = w

\* All packets before the offset can be replayed, and the one somebody found
\* there too.
Passed ==
  /\ f_off <= Len(x_opt.file)
  /\ \A k \in 1 .. f_off : x_opt.file[k] \in {"data", "cut"}
  /\ \A w \in Kid : k_pc[w] = "advance" =>
       /\ k_at[w] = f_off + 1 /\ f_off < Len(x_opt.file)
       /\ x_opt.file[f_off + 1] \in {"data", "cut"}

\* A packet to be sent was passed, was not sent, and is nobody else's.
InHand ==
  \A w \in Kid : k_pc[w] = "send" =>
    /\ k_at[w] \in 1 .. f_off
    /\ \A i \in DOMAIN wire : wire[i] # k_at[w]
    /\ \A v \in Kid \ {w} : k_pc[v] = "send" => k_at[v] # k_at[w]

\* What was sent was passed, and was sent once.
SentOnce ==
  /\ \A i \in DOMAIN wire : wire[i] \in 0 .. f_off
  /\ \A i, j \in DOMAIN wire : wire[i] = wire[j] => i = j
  /\ \A i \in DOMAIN wire : wire[i] = Terminator => x_pc \in {"drain", "end"}

\* Only without a captured file is a pattern sent.
ByPattern == \A w \in Kid : k_pc[w] \in PatternPlaces => ~x_opt.rfile

Recorded == \A w \in Kid : k_pc[w] \notin {"none", "reaped"} => w \in x_tree
StillRun == \A w \in Kid : k_pc[w] \notin {"done", "zombie", "reaped"} => k_run[w]
AtTheEnd ==
  \A w \in Kid : x_opt.rfile /\ k_pc[w] \in {"done", "zombie", "reaped"} /\ f_off < Len(x_opt.file)
                 => x_opt.file[f_off + 1] \in {"bad", "bare"}
SentOrInHand ==
  \A k \in 1 .. f_off : x_opt.file[k] = "data" =>
    \/ \E i \in DOMAIN wire : wire[i] = k
    \/ \E w \in Kid : k_pc[w] = "send" /\ k_at[w] = k
SomeExited == x_child => \E w \in Kid : k_pc[w] \in {"zombie", "reaped"}
ParentRuns == x_run \/ x_pc \in {"terminate", "drain", "end"}
AllReaped ==
  x_pc = "terminate" \/ (\E i \in DOMAIN wire : wire[i] = Terminator) =>
    /\ \A w \in Kid : k_pc[w] \in {"none", "reaped"}
    /\ \E w \in Kid : k_pc[w] = "reaped"
TerminatorLast == \A i \in DOMAIN wire : wire[i] = Terminator => i = Len(wire)

-----------------------------------------------------------------------------

\* What a step does to what the invariant is about: nothing much, ...
Still ==
  /\ UNCHANGED <<x_opt, k_pc, k_at, x_forks, x_tree, x_child, f_off, f_lock, wire>>
  /\ k_run' \in [Kid -> BOOLEAN] /\ calm' \in BOOLEAN
  /\ calm' => calm /\ k_run' = k_run /\ (x_run => x_run')
  /\ x_pc \in {"terminate", "drain", "end"} => x_pc' = x_pc
  /\ x_pc' = "terminate" => x_pc = "terminate" \/ ~x_run

\* ... reap the children that have exited, ...
Reap ==
  /\ ReapKids
  /\ UNCHANGED <<x_opt, k_run, k_at, x_forks, x_child, f_off, f_lock, wire, calm>>
  /\ \/ x_pc = "woken" /\ x_pc' = "loop" /\ x_run' = x_run /\ x_child
     \/ x_pc = "woken" /\ x_pc' = "terminate" /\ x_tree' = {} /\ x_child
     \/ x_pc = "drain" /\ x_pc' \in {"drain", "end"}

\* ... or take a worker on that does not look at the file.
Move(w) ==
  /\ UNCHANGED <<x_opt, x_pc, x_run, x_child, x_forks, x_tree, k_run, f_off, f_lock, wire, calm>>
  /\ DOMAIN k_at' = Kid /\ \A v \in Kid \ {w} : k_at'[v] = k_at[v]
  /\ \E l \in KidPlaces :
       /\ k_pc' = [k_pc EXCEPT ![w] = l]
       /\ \/ k_pc[w] = "test" /\ l = "done" /\ ~k_run[w]
          \/ k_pc[w] = "test" /\ l = "request"
          \/ k_pc[w] = "test" /\ l = "count" /\ ~x_opt.rfile
          \/ k_pc[w] \in PatternPlaces /\ l \in PatternPlaces \cup {"test", "done"}

Steps(w) ==
  \/ Move(w) \/ KidExit(w) \/ RequestPacket(w) \/ HeaderEnds(w) \/ HeaderGood(w) \/ Advance(w)
  \/ SendRaw(w)

AStep == Still \/ Reap \/ ForkKid \/ Terminate \/ \E w \in Kid : Steps(w)

\* The steps of the parent and the signals that change nothing much.
LEMMA StillSteps ==
  ASSUME SenderTypes,
         \/ CreateTx \/ LoadFile \/ ForksDone \/ LoopTest \/ Selected \/ SelectError
         \/ InterruptAll \/ TerminateSender \/ (Woken /\ ~x_child) \/ UNCHANGED xvars
         \/ \E w \in Kid : TerminateKid(w)
  PROVE  Still
<1> USE DEF SenderTypes, Still, opened, kids, brood, shared
<1>1. CASE CreateTx
  BY <1>1 DEF CreateTx
<1>2. CASE LoadFile
  BY <1>2 DEF LoadFile
<1>3. CASE ForksDone
  BY <1>3 DEF ForksDone
<1>4. CASE LoopTest
  BY <1>4 DEF LoopTest
<1>5. CASE Selected
  BY <1>5 DEF Selected
<1>6. CASE SelectError
  BY <1>6 DEF SelectError
<1>7. CASE InterruptAll
  BY <1>7 DEF InterruptAll, Wake
<1>8. CASE TerminateSender
  BY <1>8 DEF TerminateSender, Wake
<1>9. CASE Woken /\ ~x_child
  <2>1. /\ UNCHANGED <<x_run, k_pc, x_tree>> /\ x_pc = "woken" /\ x_pc' = "loop"
        /\ UNCHANGED <<x_child, x_opt, k_run, k_at, x_forks, f_off, f_lock, wire, calm>>
    BY <1>9, Zenon DEF Woken
  <2> QED
    BY <2>1
<1>10. CASE UNCHANGED xvars
  BY <1>10 DEF xvars
<1>11. ASSUME NEW w \in Kid, TerminateKid(w) PROVE Still
  BY <1>11 DEF TerminateKid, Alone
<1> QED
  BY <1>1, <1>2, <1>3, <1>4, <1>5, <1>6, <1>7, <1>8, <1>9, <1>10, <1>11

\* The steps of the parent that reap.
LEMMA ReapSteps ==
  ASSUME (Woken /\ x_child) \/ DestroyTx
  PROVE  Reap
BY DEF Woken, DestroyTx, Reap, NoneLeft, opened, kids, brood, shared

\* The steps of a worker that does not look at the file.
LEMMA MoveSteps ==
  ASSUME SenderTypes, NEW w \in Kid,
         \/ KidTest(w) \/ CountHeap(w) \/ ReadCount(w) \/ PacketizeHeap(w) \/ PacketizeFails(w)
         \/ SendPacket(w) \/ EmptyTable(w)
  PROVE  Move(w)
<1>1. /\ UNCHANGED <<x_opt, x_pc, x_run, x_child, x_forks, x_tree, k_run, f_off, f_lock, wire,
                      calm>>
      /\ DOMAIN k_at' = Kid /\ \A v \in Kid \ {w} : k_at'[v] = k_at[v]
  BY DEF SenderTypes, KidTest, CountHeap, ReadCount, PacketizeHeap, PacketizeFails, SendPacket,
         EmptyTable, Alone, opened, kids, brood, shared
<1>2. \E l \in KidPlaces :
       /\ k_pc' = [k_pc EXCEPT ![w] = l]
       /\ \/ k_pc[w] = "test" /\ l = "done" /\ ~k_run[w]
          \/ k_pc[w] = "test" /\ l = "request"
          \/ k_pc[w] = "test" /\ l = "count" /\ ~x_opt.rfile
          \/ k_pc[w] \in PatternPlaces /\ l \in PatternPlaces \cup {"test", "done"}
  <2> USE DEF KidGoto, KidPlaces, PatternPlaces
  <2>1. CASE KidTest(w)
    <3>1. CASE ~k_run[w]
      <4>1. k_pc' = [k_pc EXCEPT ![w] = "done"] /\ k_pc[w] = "test"
        BY <2>1, <3>1 DEF KidTest
      <4> QED
        BY <3>1, <4>1
    <3>2. CASE k_run[w] /\ x_opt.rfile
      <4>1. k_pc' = [k_pc EXCEPT ![w] = "request"] /\ k_pc[w] = "test"
        BY <2>1, <3>2 DEF KidTest
      <4> QED
        BY <4>1
    <3>3. CASE k_run[w] /\ ~x_opt.rfile
      <4>1. k_pc' = [k_pc EXCEPT ![w] = "count"] /\ k_pc[w] = "test"
        BY <2>1, <3>3 DEF KidTest
      <4> QED
        BY <3>3, <4>1
    <3> QED
      BY <3>1, <3>2, <3>3
  <2>2. CASE CountHeap(w)
    BY <2>2 DEF CountHeap
  <2>3. CASE ReadCount(w)
    BY <2>3 DEF ReadCount
  <2>4. CASE PacketizeHeap(w)
    BY <2>4 DEF PacketizeHeap
  <2>5. CASE PacketizeFails(w)
    BY <2>5 DEF PacketizeFails
  <2>6. CASE SendPacket(w)
    <3>1. k_pc[w] = "traverse"
      BY <2>6 DEF SendPacket
    <3>2. k_pc' = k_pc \/ k_pc' = [k_pc EXCEPT ![w] = "done"]
      BY <2>6 DEF SendPacket
    <3>3. k_pc = [k_pc EXCEPT ![w] = "traverse"]
      BY <3>1 DEF SenderTypes
    <3> QED
      BY <3>1, <3>2, <3>3
  <2>7. CASE EmptyTable(w)
    BY <2>7 DEF EmptyTable
  <2> QED
    BY <2>1, <2>2, <2>3, <2>4, <2>5, <2>6, <2>7
<1> QED
  BY <1>1, <1>2 DEF Move

\* There are no other steps than these.
LEMMA StepsAre ==
  ASSUME SenderTypes, [SenderNext]_xvars
  PROVE  AStep
<1>1. CASE \/ CreateTx \/ LoadFile \/ ForksDone \/ LoopTest \/ Selected \/ SelectError
           \/ InterruptAll \/ TerminateSender \/ (Woken /\ ~x_child) \/ UNCHANGED xvars
           \/ \E w \in Kid : TerminateKid(w)
  BY <1>1, StillSteps, Zenon DEF AStep
<1>2. CASE (Woken /\ x_child) \/ DestroyTx
  BY <1>2, ReapSteps, Zenon DEF AStep
<1>3. CASE ForkKid \/ Terminate
  BY <1>3 DEF AStep
<1>4. ASSUME NEW w \in Kid, KidStep(w) PROVE AStep
  <2>1. CASE \/ KidTest(w) \/ CountHeap(w) \/ ReadCount(w) \/ PacketizeHeap(w)
             \/ PacketizeFails(w) \/ SendPacket(w) \/ EmptyTable(w)
    BY <1>4, <2>1, MoveSteps, Zenon DEF AStep, Steps
  <2> QED
    BY <1>4, <2>1, Zenon DEF KidStep, AStep, Steps
<1> QED
  BY <1>1, <1>2, <1>3, <1>4, Zenon DEF SenderNext, Register

-----------------------------------------------------------------------------

\* One more packet on the wire.
LEMMA OneMore ==
  \A s \in Seq(Nat), e \in Nat :
    /\ Append(s, e) \in Seq(Nat)
    /\ Len(Append(s, e)) = Len(s) + 1 /\ DOMAIN Append(s, e) = 1 .. Len(s) + 1
    /\ DOMAIN s = 1 .. Len(s) /\ Len(s) \in Nat
    /\ Append(s, e)[Len(s) + 1] = e
    /\ \A i \in 1 .. Len(s) : Append(s, e)[i] = s[i]
OBVIOUS

LEMMA SenderTypesInit == SenderInit => SenderTypes
BY DEF SenderInit, SenderTypes, KidPlaces

\* Every step keeps the types.
LEMMA SenderTypesStep == ASSUME SenderTypes, InHand, AStep PROVE SenderTypes'
<1> USE DEF SenderTypes
<1>1. CASE Still
  BY <1>1 DEF Still
<1>2. CASE Reap
  BY <1>2 DEF Reap, ReapKids, KidPlaces
<1>3. CASE ForkKid
  <2>1. k_run' \in [Kid -> BOOLEAN]
    BY <1>3 DEF ForkKid
  <2>2. k_pc' \in [Kid -> KidPlaces]
    BY <1>3 DEF ForkKid, KidPlaces
  <2> QED
    BY <1>3, <2>1, <2>2 DEF ForkKid, shared
<1>4. CASE Terminate
  <2>1. wire' \in Seq(Nat)
    BY SMTT(30), <1>4 DEF Terminate, Terminator
  <2> QED
    BY <1>4, <2>1 DEF Terminate, opened, kids, brood
<1>5. ASSUME NEW w \in Kid, Steps(w) PROVE SenderTypes'
  <2> USE DEF Alone, opened, kids, brood, shared, KidGoto
  <2>1. CASE Move(w)
    BY <2>1 DEF Move
  <2>2. CASE KidExit(w)
    BY <2>2 DEF KidExit, KidPlaces
  <2>3. CASE RequestPacket(w)
    BY <2>3 DEF RequestPacket, KidPlaces
  <2>4. CASE HeaderEnds(w)
    BY <2>4 DEF HeaderEnds, KidPlaces
  <2>5. CASE HeaderGood(w)
    BY <2>5 DEF HeaderGood, KidPlaces
  <2>6. CASE Advance(w)
    BY <2>6 DEF Advance, KidPlaces
  <2>7. CASE SendRaw(w)
    <3>1. k_pc' \in [Kid -> KidPlaces] /\ k_run' \in [Kid -> BOOLEAN]
      BY <2>7 DEF SendRaw, KidPlaces
    <3>2. UNCHANGED <<k_at, x_forks, f_off>> /\ calm' \in BOOLEAN
      BY <2>7 DEF SendRaw
    <3>3. k_at[w] \in Nat
      BY <2>7 DEF SendRaw, InHand
    <3>4. wire' = Append(wire, k_at[w]) \/ wire' = wire
      BY <2>7 DEF SendRaw
    <3>5. wire' \in Seq(Nat)
      BY <3>3, <3>4, OneMore, Zenon DEF SenderTypes
    <3> QED
      BY <3>1, <3>2, <3>5
  <2> QED
    BY <1>5, <2>1, <2>2, <2>3, <2>4, <2>5, <2>6, <2>7 DEF Steps
<1> QED
  BY <1>1, <1>2, <1>3, <1>4, <1>5 DEF AStep

\* What a step of one worker leaves to the others.
LEMMA StepsOf ==
  ASSUME SenderTypes, NEW w \in Kid, Steps(w)
  PROVE  /\ k_pc[w] \notin {"none", "reaped", "zombie"}
         /\ \A v \in Kid \ {w} : k_pc'[v] = k_pc[v] /\ k_at'[v] = k_at[v] /\ k_run'[v] = k_run[v]
         /\ x_opt' = x_opt /\ x_forks' = x_forks /\ x_tree' = x_tree /\ x_run' = x_run
         /\ calm' => calm
         /\ x_pc' = x_pc \/ (x_pc = "select" /\ x_pc' = "woken")
<1> USE DEF SenderTypes, KidGoto, Alone, opened, kids, brood, shared
<1>1. CASE Move(w)
  BY <1>1 DEF Move, PatternPlaces
<1>2. CASE KidExit(w)
  BY <1>2 DEF KidExit, Wake
<1>3. CASE RequestPacket(w)
  BY <1>3 DEF RequestPacket
<1>4. CASE HeaderEnds(w)
  BY <1>4 DEF HeaderEnds
<1>5. CASE HeaderGood(w)
  BY <1>5 DEF HeaderGood
<1>6. CASE Advance(w)
  BY <1>6 DEF Advance
<1>7. CASE SendRaw(w)
  <2>1. /\ k_pc[w] = "send" /\ k_at' = k_at /\ x_opt' = x_opt /\ x_forks' = x_forks
        /\ x_tree' = x_tree /\ x_run' = x_run /\ x_pc' = x_pc
    BY <1>7 DEF SendRaw
  <2>2. \A v \in Kid \ {w} : k_pc'[v] = k_pc[v] /\ k_run'[v] = k_run[v]
    BY <1>7 DEF SendRaw
  <2>3. calm' => calm
    BY <1>7 DEF SendRaw
  <2> QED
    BY <2>1, <2>2, <2>3
<1> QED
  BY <1>1, <1>2, <1>3, <1>4, <1>5, <1>6, <1>7 DEF Steps

\* Each part of the invariant is kept by every step.
LEMMA OnlyForkedStep ==
  ASSUME SenderTypes, OnlyForked, AStep PROVE OnlyForked'
<1> USE DEF SenderTypes, OnlyForked
<1>1. CASE Still
  BY <1>1 DEF Still
<1>2. CASE Reap
  BY <1>2 DEF Reap, ReapKids, Gone
<1>3. CASE ForkKid
  BY SMTT(30), <1>3 DEF ForkKid
<1>4. CASE Terminate
  BY <1>4 DEF Terminate, kids, brood
<1>5. ASSUME NEW w \in Kid, Steps(w) PROVE OnlyForked'
  BY <1>5, StepsOf
<1> QED
  BY <1>1, <1>2, <1>3, <1>4, <1>5 DEF AStep

LEMMA LockHeldStep ==
  ASSUME SenderTypes, LockHeld, AStep PROVE LockHeld'
<1> USE DEF SenderTypes, LockHeld
<1>1. CASE Still
  BY <1>1 DEF Still
<1>2. CASE Reap
  BY <1>2 DEF Reap, ReapKids, Gone
<1>3. CASE ForkKid
  BY <1>3 DEF ForkKid, shared
<1>4. CASE Terminate
  BY <1>4 DEF Terminate, kids
<1>5. ASSUME NEW w \in Kid, Steps(w) PROVE LockHeld'
  <2>0. \A v \in Kid \ {w} : k_pc'[v] = k_pc[v]
    BY <1>5, StepsOf
  <2>1. CASE Move(w)
    BY <2>1 DEF Move, PatternPlaces
  <2>2. CASE KidExit(w)
    BY <2>2 DEF KidExit, KidGoto, shared
  <2>3. CASE RequestPacket(w)
    BY <2>3 DEF RequestPacket, KidGoto, Kid, NoKid
  <2>4. CASE HeaderEnds(w)
    BY <2>4 DEF HeaderEnds, KidGoto, Kid
  <2>5. CASE HeaderGood(w)
    BY <2>5 DEF HeaderGood, KidGoto, Freed
  <2>6. CASE Advance(w)
    BY <2>6 DEF Advance, KidGoto, Kid
  <2>7. CASE SendRaw(w)
    <3>1. k_pc'[w] \in {"test", "done"} /\ f_lock' = f_lock
      BY <2>7 DEF SendRaw, KidGoto
    <3> QED
      BY <2>0, <3>1
  <2> QED
    BY <1>5, <2>1, <2>2, <2>3, <2>4, <2>5, <2>6, <2>7 DEF Steps
<1> QED
  BY <1>1, <1>2, <1>3, <1>4, <1>5 DEF AStep

\* Its packets are data, and what else there is.
LEMMA Captured ==
  ASSUME FileRead(x_opt)
  PROVE  /\ Len(x_opt.file) \in Nat /\ DOMAIN x_opt.file = 1 .. Len(x_opt.file)
         /\ \A k \in 1 .. Len(x_opt.file) : x_opt.file[k] \in Kinds
         /\ \A k \in 1 .. Len(x_opt.file) : x_opt.file[k] = "cut" => k = Len(x_opt.file)
<1>1. PICK f : f = x_opt.file
  OBVIOUS
<1>2. f \in Seq(Kinds) /\ \A k \in DOMAIN f : f[k] = "cut" => k = Len(f)
  BY <1>1 DEF FileRead, CapturedFile
<1>3. Len(f) \in Nat /\ DOMAIN f = 1 .. Len(f) /\ \A k \in 1 .. Len(f) : f[k] \in Kinds
  BY <1>2
<1> QED
  BY <1>1, <1>2, <1>3

LEMMA PassedStep ==
  ASSUME SenderTypes, FileRead(x_opt), LockHeld, Passed, AStep PROVE Passed'
<1> USE DEF SenderTypes, Passed
<1>1. CASE Still
  BY <1>1 DEF Still
<1>2. CASE Reap
  BY <1>2 DEF Reap, ReapKids, Gone
<1>3. CASE ForkKid
  BY <1>3 DEF ForkKid, shared, opened
<1>4. CASE Terminate
  BY <1>4 DEF Terminate, kids, opened
<1>5. ASSUME NEW w \in Kid, Steps(w) PROVE Passed'
  <2>0. /\ \A v \in Kid \ {w} : k_pc'[v] = k_pc[v] /\ k_at'[v] = k_at[v]
        /\ x_opt' = x_opt
    BY <1>5, StepsOf
  <2>1. CASE f_off' = f_off /\ k_pc'[w] # "advance"
    BY <2>0, <2>1
  <2>2. CASE HeaderGood(w)
    <3>1. Here \in {"data", "cut"} =>
            f_off < Len(x_opt.file) /\ x_opt.file[f_off + 1] \in {"data", "cut"}
      BY DEF Here
    <3>2. f_off' = f_off /\ k_at'[w] = f_off + 1 /\ Here \in {"data", "cut"}
      BY <2>2 DEF HeaderGood
    <3> QED
      BY <2>0, <3>1, <3>2
  <2>3. CASE Advance(w)
    <3>1. /\ f_off' = f_off + 1 /\ k_pc[w] = "advance" /\ k_pc'[w] = "send"
      BY <2>3 DEF Advance, KidGoto
    <3>2. \A v \in Kid \ {w} : k_pc[v] # "advance"
      BY <3>1 DEF LockHeld
    <3>3. f_off < Len(x_opt.file) /\ x_opt.file[f_off + 1] \in {"data", "cut"}
      BY <3>1
    <3>4. \A k \in 1 .. f_off' : x_opt.file[k] \in {"data", "cut"}
      BY <3>1, <3>3
    <3>5. f_off' <= Len(x_opt.file)
      BY <3>1, <3>3, Captured
    <3> QED
      BY <2>0, <3>1, <3>2, <3>4, <3>5
  <2>4. CASE SendRaw(w)
    <3>1. k_pc'[w] \in {"test", "done"} /\ f_off' = f_off
      BY <2>4 DEF SendRaw, KidGoto
    <3> QED
      BY <2>1, <3>1
  <2>5. CASE Move(w)
    BY <2>1, <2>5 DEF Move, PatternPlaces
  <2>6. CASE KidExit(w)
    BY <2>1, <2>6 DEF KidExit, KidGoto, shared
  <2>7. CASE RequestPacket(w)
    BY <2>1, <2>7 DEF RequestPacket, KidGoto
  <2>8. CASE HeaderEnds(w)
    BY <2>1, <2>8 DEF HeaderEnds, KidGoto
  <2> QED
    BY <1>5, <2>2, <2>3, <2>4, <2>5, <2>6, <2>7, <2>8 DEF Steps
<1> QED
  BY <1>1, <1>2, <1>3, <1>4, <1>5 DEF AStep

LEMMA InHandStep ==
  ASSUME SenderTypes, LockHeld, Passed, InHand, SentOnce, AStep PROVE InHand'
<1> USE DEF SenderTypes, InHand
<1>1. CASE Still
  BY <1>1 DEF Still
<1>2. CASE Reap
  BY <1>2 DEF Reap, ReapKids, Gone
<1>3. CASE ForkKid
  BY <1>3 DEF ForkKid, shared, opened
<1>4. CASE Terminate
  <2>1. wire' = Append(wire, Terminator) \/ wire' = wire
    BY <1>4 DEF Terminate
  <2>2. k_pc' = k_pc /\ k_at' = k_at /\ f_off' = f_off
    BY <1>4 DEF Terminate, kids
  <2>3. \A k \in 1 .. f_off :
          (\A i \in DOMAIN wire : wire[i] # k) => \A i \in DOMAIN wire' : wire'[i] # k
    BY SMTT(30), <2>1, OneMore DEF Terminator
  <2> QED
    BY <2>2, <2>3
<1>5. ASSUME NEW w \in Kid, Steps(w) PROVE InHand'
  <2>0. \A v \in Kid \ {w} : k_pc'[v] = k_pc[v] /\ k_at'[v] = k_at[v]
    BY <1>5, StepsOf
  <2>1. CASE f_off' = f_off /\ k_pc'[w] # "send" /\ wire' = wire
    BY <2>0, <2>1
  <2>2. CASE Advance(w)
    <3>1. /\ f_off' = f_off + 1 /\ k_pc[w] = "advance" /\ k_pc'[w] = "send" /\ k_at' = k_at
          /\ wire' = wire
      BY <2>2 DEF Advance, KidGoto
    <3>2. k_at[w] = f_off + 1
      BY <3>1 DEF Passed
    <3>3. \A i \in DOMAIN wire : wire[i] # f_off + 1
      BY DEF SentOnce
    <3>4. \A v \in Kid \ {w} : k_pc[v] = "send" => k_at[v] # f_off + 1
      OBVIOUS
    <3>5. ASSUME NEW v \in Kid, k_pc'[v] = "send"
          PROVE  /\ k_at[v] \in 1 .. f_off + 1
                 /\ \A i \in DOMAIN wire : wire[i] # k_at[v]
                 /\ \A u \in Kid \ {v} : k_pc'[u] = "send" => k_at[u] # k_at[v]
      <4>1. CASE v = w
        BY <2>0, <3>2, <3>3, <3>4, <4>1
      <4>2. CASE v # w
        BY <2>0, <3>2, <3>4, <3>5, <4>2
      <4> QED
        BY <4>1, <4>2
    <3> QED
      BY <3>1, <3>5
  <2>3. CASE SendRaw(w)
    <3>1. k_pc'[w] \in {"test", "done"} /\ f_off' = f_off /\ k_pc[w] = "send"
      BY <2>3 DEF SendRaw, KidGoto
    <3>2. wire' = Append(wire, k_at[w]) \/ wire' = wire
      BY <2>3 DEF SendRaw
    <3>3. \A v \in Kid \ {w} : k_pc[v] = "send" => \A i \in DOMAIN wire' : wire'[i] # k_at[v]
      <4>1. \A v \in Kid \ {w} : k_pc[v] = "send" => k_at[v] # k_at[w]
        BY <3>1
      <4>2. k_at[w] \in Nat
        BY <3>1
      <4> QED
        BY SMTT(30), <3>2, <4>1, <4>2, OneMore
    <3> QED
      BY <2>0, <3>1, <3>3
  <2>4. CASE HeaderGood(w)
    BY <2>1, <2>4 DEF HeaderGood, KidGoto
  <2>5. CASE Move(w)
    BY <2>1, <2>5 DEF Move, PatternPlaces
  <2>6. CASE KidExit(w)
    BY <2>1, <2>6 DEF KidExit, KidGoto, shared
  <2>7. CASE RequestPacket(w)
    BY <2>1, <2>7 DEF RequestPacket, KidGoto
  <2>8. CASE HeaderEnds(w)
    BY <2>1, <2>8 DEF HeaderEnds, KidGoto
  <2> QED
    BY <1>5, <2>2, <2>3, <2>4, <2>5, <2>6, <2>7, <2>8 DEF Steps
<1> QED
  BY <1>1, <1>2, <1>3, <1>4, <1>5 DEF AStep

Once(s) == \A i, j \in DOMAIN s : s[i] = s[j] => i = j
UpTo(s, n) == \A i \in DOMAIN s : s[i] \in 0 .. n

\* What was sent once, and one more that was not sent.
LEMMA OneMoreOnce ==
  \A s \in Seq(Nat), e \in Nat :
    Once(s) /\ (\A i \in DOMAIN s : s[i] # e) => Once(Append(s, e))
<1> SUFFICES ASSUME NEW s \in Seq(Nat), NEW e \in Nat, Once(s), \A i \in DOMAIN s : s[i] # e
             PROVE  Once(Append(s, e))
  OBVIOUS
<1>1. PICK t : t = Append(s, e)
  OBVIOUS
<1>2. PICK n \in Nat : n = Len(s) /\ DOMAIN s = 1 .. n
  OBVIOUS
<1>3. DOMAIN t = 1 .. n + 1 /\ t[n + 1] = e /\ \A i \in 1 .. n : t[i] = s[i]
  BY <1>1, <1>2, OneMore
<1>4. ASSUME NEW i \in 1 .. n + 1, NEW j \in 1 .. n + 1, t[i] = t[j] PROVE i = j
  <2>1. CASE i = n + 1 /\ j = n + 1
    BY <2>1
  <2>2. CASE i \in 1 .. n /\ j \in 1 .. n
    BY <1>2, <1>3, <1>4, <2>2 DEF Once
  <2>3. CASE i = n + 1 /\ j \in 1 .. n
    BY <1>2, <1>3, <1>4, <2>3
  <2>4. CASE j = n + 1 /\ i \in 1 .. n
    BY <1>2, <1>3, <1>4, <2>4
  <2> QED
    BY <2>1, <2>2, <2>3, <2>4
<1> QED
  BY <1>1, <1>3, <1>4 DEF Once

\* No number on the wire is above n, nor is the one more.
LEMMA OneMoreUpTo ==
  \A s \in Seq(Nat), e \in Nat, n \in Nat : UpTo(s, n) /\ e \in 0 .. n => UpTo(Append(s, e), n)
<1> SUFFICES ASSUME NEW s \in Seq(Nat), NEW e \in Nat, NEW n \in Nat, UpTo(s, n), e \in 0 .. n
             PROVE  UpTo(Append(s, e), n)
  OBVIOUS
<1>1. PICK t : t = Append(s, e)
  OBVIOUS
<1>2. PICK k \in Nat : k = Len(s) /\ DOMAIN s = 1 .. k
  OBVIOUS
<1>3. DOMAIN t = 1 .. k + 1 /\ t[k + 1] = e /\ \A i \in 1 .. k : t[i] = s[i]
  BY <1>1, <1>2, OneMore
<1>4. ASSUME NEW i \in 1 .. k + 1 PROVE t[i] \in 0 .. n
  BY SMTT(30), <1>2, <1>3 DEF UpTo
<1> QED
  BY <1>1, <1>3, <1>4 DEF UpTo

LEMMA SentOnceStep ==
  ASSUME SenderTypes, InHand, SentOnce, AStep PROVE SentOnce'
<1> USE DEF SenderTypes
<1>1. CASE Still
  BY <1>1 DEF Still, SentOnce
<1>2. CASE Reap
  BY <1>2 DEF Reap, SentOnce
<1>3. CASE ForkKid
  BY <1>3 DEF ForkKid, shared, SentOnce
<1>4. CASE Terminate
  <2>1. wire' = Append(wire, Terminator) \/ wire' = wire
    BY <1>4 DEF Terminate
  <2>2. x_pc = "terminate" /\ x_pc' = "drain" /\ f_off' = f_off
    BY <1>4 DEF Terminate
  <2>3. \A i \in DOMAIN wire : wire[i] # Terminator
    BY <2>2 DEF SentOnce
  <2>4. \A i \in DOMAIN wire' : wire'[i] \in 0 .. f_off
    <3>1. UpTo(wire, f_off) /\ Terminator \in 0 .. f_off /\ Terminator \in Nat
      BY DEF SentOnce, UpTo, Terminator
    <3>2. UpTo(wire', f_off)
      BY <2>1, <3>1, OneMoreUpTo, Zenon
    <3> QED
      BY <3>2 DEF UpTo
  <2>5. \A i, j \in DOMAIN wire' : wire'[i] = wire'[j] => i = j
    <3>1. Once(wire) /\ Terminator \in Nat
      BY DEF SentOnce, Once, Terminator
    <3>2. Once(wire')
      BY <2>1, <2>3, <3>1, OneMoreOnce, Zenon
    <3> QED
      BY <3>2 DEF Once
  <2> QED
    BY <2>2, <2>4, <2>5 DEF SentOnce
<1>5. ASSUME NEW w \in Kid, Steps(w) PROVE SentOnce'
  <2>0. x_pc \in {"drain", "end"} => x_pc' \in {"drain", "end"}
    BY <1>5, StepsOf
  <2>1. CASE f_off' \in {f_off, f_off + 1} /\ wire' = wire
    BY <2>0, <2>1 DEF SentOnce
  <2>2. CASE SendRaw(w)
    <3>1. k_pc[w] = "send" /\ f_off' = f_off
      BY <2>2 DEF SendRaw
    <3>2. wire' = Append(wire, k_at[w]) \/ wire' = wire
      BY <2>2 DEF SendRaw
    <3>3. k_at[w] \in 1 .. f_off /\ \A i \in DOMAIN wire : wire[i] # k_at[w]
      BY <3>1 DEF InHand
    <3>4. \A i \in DOMAIN wire' : wire'[i] \in 0 .. f_off
      <4>1. UpTo(wire, f_off) /\ k_at[w] \in 0 .. f_off /\ k_at[w] \in Nat
        BY <3>3 DEF SentOnce, UpTo
      <4>2. UpTo(wire', f_off)
        BY <3>2, <4>1, OneMoreUpTo, Zenon
      <4> QED
        BY <4>2 DEF UpTo
    <3>5. \A i, j \in DOMAIN wire' : wire'[i] = wire'[j] => i = j
      <4>1. Once(wire) /\ k_at[w] \in Nat
        BY <3>3 DEF SentOnce, Once
      <4>2. Once(wire')
        BY <3>2, <3>3, <4>1, OneMoreOnce, Zenon
      <4> QED
        BY <4>2 DEF Once
    <3>6. \A i \in DOMAIN wire' : wire'[i] = Terminator => x_pc' \in {"drain", "end"}
      BY <2>0, <3>2, <3>3, OneMore DEF SentOnce, Terminator
    <3> QED
      BY <3>1, <3>4, <3>5, <3>6 DEF SentOnce
  <2>3. CASE Advance(w)
    BY <2>1, <2>3 DEF Advance
  <2>4. CASE HeaderGood(w)
    BY <2>1, <2>4 DEF HeaderGood
  <2>5. CASE Move(w)
    BY <2>1, <2>5 DEF Move
  <2>6. CASE KidExit(w)
    BY <2>1, <2>6 DEF KidExit, shared
  <2>7. CASE RequestPacket(w)
    BY <2>1, <2>7 DEF RequestPacket
  <2>8. CASE HeaderEnds(w)
    BY <2>1, <2>8 DEF HeaderEnds
  <2> QED
    BY <1>5, <2>2, <2>3, <2>4, <2>5, <2>6, <2>7, <2>8 DEF Steps
<1> QED
  BY <1>1, <1>2, <1>3, <1>4, <1>5 DEF AStep

LEMMA ByPatternStep ==
  ASSUME SenderTypes, ByPattern, AStep PROVE ByPattern'
<1> USE DEF SenderTypes, ByPattern, PatternPlaces
<1>1. CASE Still
  BY <1>1 DEF Still
<1>2. CASE Reap
  BY <1>2 DEF Reap, ReapKids, Gone
<1>3. CASE ForkKid
  BY <1>3 DEF ForkKid, opened
<1>4. CASE Terminate
  BY <1>4 DEF Terminate, kids, opened
<1>5. ASSUME NEW w \in Kid, Steps(w) PROVE ByPattern'
  <2>0. /\ \A v \in Kid \ {w} : k_pc'[v] = k_pc[v]
        /\ x_opt' = x_opt
    BY <1>5, StepsOf
  <2>1. k_pc'[w] \in PatternPlaces => k_pc[w] \in PatternPlaces \/ ~x_opt.rfile
    <3>1. CASE Move(w)
      BY <3>1 DEF Move
    <3>2. CASE SendRaw(w)
      <4>1. k_pc'[w] \in {"test", "done"}
        BY <3>2 DEF SendRaw, KidGoto
      <4> QED
        BY <4>1
    <3>3. CASE ~Move(w) /\ ~SendRaw(w)
      BY <1>5, <3>3 DEF Steps, KidExit, RequestPacket, HeaderEnds, HeaderGood, Advance, KidGoto
    <3> QED
      BY <3>1, <3>2, <3>3
  <2> QED
    BY <2>0, <2>1
<1> QED
  BY <1>1, <1>2, <1>3, <1>4, <1>5 DEF AStep

\* Who is calm was calm.
LEMMA CalmBefore == ASSUME SenderTypes, AStep, calm' PROVE calm
<1>1. CASE Still
  BY <1>1 DEF Still
<1>2. CASE Reap
  BY <1>2 DEF Reap
<1>3. CASE ForkKid
  BY <1>3 DEF ForkKid
<1>4. CASE Terminate
  BY <1>4 DEF Terminate
<1>5. ASSUME NEW w \in Kid, Steps(w) PROVE calm
  BY <1>5, StepsOf
<1> QED
  BY <1>1, <1>2, <1>3, <1>4, <1>5 DEF AStep

\* As long as the transmitter is calm, so is each of the other parts.
LEMMA RecordedStep ==
  ASSUME SenderTypes, OnlyForked, Recorded, AStep, calm' PROVE Recorded'
<1> USE DEF SenderTypes, Recorded
<1>1. CASE Still
  BY <1>1 DEF Still
<1>2. CASE Reap
  BY <1>2 DEF Reap, ReapKids, Gone
<1>3. CASE ForkKid
  <2>1. PICK w : w = x_forks + 1
    OBVIOUS
  <2>2. w \notin x_astray'
    BY <1>3, <2>1 DEF ForkKid
  <2>3. x_tree \subseteq x_tree'
    BY <1>3 DEF ForkKid
  <2>4. k_pc' = [k_pc EXCEPT ![w] = IF w \in x_tree' \cup x_astray' THEN "test" ELSE "none"]
    BY <1>3, <2>1 DEF ForkKid
  <2> QED
    BY <2>2, <2>3, <2>4
<1>4. CASE Terminate
  BY <1>4 DEF Terminate, kids, brood
<1>5. ASSUME NEW w \in Kid, Steps(w) PROVE Recorded'
  BY <1>5, StepsOf
<1> QED
  BY <1>1, <1>2, <1>3, <1>4, <1>5 DEF AStep

LEMMA StillRunStep ==
  ASSUME SenderTypes, OnlyForked, StillRun, ParentRuns, AStep, calm' PROVE StillRun'
<1> USE DEF SenderTypes, StillRun
<1>1. CASE Still
  BY <1>1 DEF Still
<1>2. CASE Reap
  BY <1>2 DEF Reap, ReapKids, Gone
<1>3. CASE ForkKid
  <2>1. PICK w : w = x_forks + 1
    OBVIOUS
  <2>2. w \notin x_astray' /\ x_pc = "fork"
    BY <1>3, <2>1 DEF ForkKid
  <2>3. x_run
    BY <2>2 DEF ParentRuns
  <2>4. k_run' = [k_run EXCEPT ![w] = TRUE]
    BY <1>3, <2>1, <2>2, <2>3 DEF ForkKid
  <2>5. \A v \in Kid \ {w} : k_pc'[v] = k_pc[v] /\ k_run'[v] = k_run[v]
    BY <1>3, <2>1, <2>4 DEF ForkKid
  <2> QED
    BY <2>4, <2>5
<1>4. CASE Terminate
  BY <1>4 DEF Terminate, kids, brood
<1>5. ASSUME NEW w \in Kid, Steps(w) PROVE StillRun'
  <2>0. \A v \in Kid \ {w} : k_pc'[v] = k_pc[v] /\ k_run'[v] = k_run[v]
    BY <1>5, StepsOf
  <2>1. k_pc'[w] \notin {"done", "zombie", "reaped"} =>
          k_pc[w] \notin {"done", "zombie", "reaped"} /\ k_run'[w] = k_run[w]
    <3>1. CASE Move(w)
      BY <3>1 DEF Move, PatternPlaces
    <3>2. CASE SendRaw(w)
      <4>1. \/ k_run' = k_run /\ k_pc[w] = "send"
            \/ k_pc'[w] = "done"
        BY <3>2 DEF SendRaw, KidGoto
      <4> QED
        BY <4>1
    <3>3. CASE KidExit(w)
      BY <3>3 DEF KidExit, KidGoto
    <3>4. CASE ~Move(w) /\ ~SendRaw(w) /\ ~KidExit(w)
      BY <1>5, <3>4 DEF Steps, RequestPacket, HeaderEnds, HeaderGood, Advance, KidGoto
    <3> QED
      BY <3>1, <3>2, <3>3, <3>4
  <2> QED
    BY <2>0, <2>1
<1> QED
  BY <1>1, <1>2, <1>3, <1>4, <1>5 DEF AStep

LEMMA AtTheEndStep ==
  ASSUME SenderTypes, FileRead(x_opt), OnlyForked, Passed, InHand, ByPattern, StillRun, AtTheEnd,
         AStep, calm'
  PROVE  AtTheEnd'
<1> USE DEF SenderTypes, AtTheEnd
<1>1. CASE Still
  BY <1>1 DEF Still
<1>2. CASE Reap
  BY <1>2 DEF Reap, ReapKids, Gone
<1>3. CASE ForkKid
  BY <1>3 DEF ForkKid, opened, shared
<1>4. CASE Terminate
  BY <1>4 DEF Terminate, kids, opened
<1>5. ASSUME NEW w \in Kid, Steps(w) PROVE AtTheEnd'
  <2>0. /\ \A v \in Kid \ {w} : k_pc'[v] = k_pc[v]
        /\ x_opt' = x_opt
    BY <1>5, StepsOf
  <2>1. CASE /\ f_off' = f_off
             /\ k_pc'[w] \in {"done", "zombie", "reaped"} => k_pc[w] \in {"done", "zombie", "reaped"}
    BY <2>0, <2>1
  <2>2. CASE Move(w)
    <3>1. k_pc'[w] = "done" => (~k_run[w] /\ k_pc[w] = "test") \/ ~x_opt.rfile
      BY <2>2 DEF Move, ByPattern, PatternPlaces
    <3>2. k_pc[w] = "test" => k_run[w]
      BY DEF StillRun
    <3>3. k_pc'[w] \notin {"zombie", "reaped"} /\ f_off' = f_off
      BY <2>2 DEF Move, PatternPlaces
    <3> QED
      BY <2>0, <3>1, <3>2, <3>3
  <2>3. CASE KidExit(w)
    BY <2>1, <2>3 DEF KidExit, shared
  <2>4. CASE RequestPacket(w)
    BY <2>1, <2>4 DEF RequestPacket, KidGoto
  <2>5. CASE HeaderGood(w)
    BY <2>1, <2>5 DEF HeaderGood, KidGoto
  <2>6. CASE HeaderEnds(w)
    <3>1. Here \in {"end", "bad", "bare"} /\ f_off' = f_off
      BY <2>6 DEF HeaderEnds
    <3>2. f_off < Len(x_opt.file) => x_opt.file[f_off + 1] \in {"bad", "bare"}
      <4>1. SUFFICES ASSUME f_off < Len(x_opt.file) PROVE x_opt.file[f_off + 1] \in {"bad", "bare"}
        OBVIOUS
      <4>2. f_off + 1 \in 1 .. Len(x_opt.file)
        BY <4>1, Captured
      <4>3. x_opt.file[f_off + 1] \in Kinds
        BY <4>2, Captured
      <4> QED
        BY <3>1, <4>1, <4>3 DEF Here, Kinds
    <3> QED
      BY <2>0, <3>1, <3>2
  <2>7. CASE Advance(w)
    <3>1. f_off' = f_off + 1 /\ k_pc[w] = "advance" /\ k_pc'[w] = "send"
      BY <2>7 DEF Advance, KidGoto
    <3>2. f_off < Len(x_opt.file) /\ x_opt.file[f_off + 1] \in {"data", "cut"}
      BY <3>1 DEF Passed
    <3>3. \A v \in Kid : x_opt.rfile => k_pc[v] \notin {"done", "zombie", "reaped"}
      BY <3>2
    <3> QED
      BY <2>0, <3>1, <3>3
  <2>8. CASE SendRaw(w)
    <3>1. k_pc[w] = "send" /\ f_off' = f_off /\ k_pc'[w] \in {"test", "done"}
      BY <2>8 DEF SendRaw, KidGoto
    <3>2. k_pc'[w] = "done" => x_opt.file[k_at[w]] = "cut"
      BY <2>8 DEF SendRaw, KidGoto
    <3>3. k_at[w] \in 1 .. f_off
      BY <3>1 DEF InHand
    <3>4. f_off <= Len(x_opt.file)
      BY DEF Passed
    <3>5. k_pc'[w] = "done" => k_at[w] = Len(x_opt.file)
      BY <3>2, <3>3, <3>4, Captured
    <3>6. k_pc'[w] = "done" => ~(f_off < Len(x_opt.file))
      BY <3>3, <3>5
    <3> QED
      BY <2>0, <3>1, <3>6
  <2> QED
    BY <1>5, <2>2, <2>3, <2>4, <2>5, <2>6, <2>7, <2>8 DEF Steps
<1> QED
  BY <1>1, <1>2, <1>3, <1>4, <1>5 DEF AStep

Has(s, k) == \E i \in DOMAIN s : s[i] = k

\* The one more is on the wire, and all that was before.
LEMMA OneMoreHas ==
  \A s \in Seq(Nat), e \in Nat :
    Has(Append(s, e), e) /\ \A k : Has(s, k) => Has(Append(s, e), k)
<1> SUFFICES ASSUME NEW s \in Seq(Nat), NEW e \in Nat
             PROVE  Has(Append(s, e), e) /\ \A k : Has(s, k) => Has(Append(s, e), k)
  OBVIOUS
<1>1. PICK t : t = Append(s, e)
  OBVIOUS
<1>2. PICK n \in Nat : n = Len(s) /\ DOMAIN s = 1 .. n
  OBVIOUS
<1>3. DOMAIN t = 1 .. n + 1 /\ t[n + 1] = e /\ \A i \in 1 .. n : t[i] = s[i]
  BY <1>1, <1>2, OneMore
<1>4. n + 1 \in DOMAIN t /\ \A i \in DOMAIN s : i \in DOMAIN t /\ t[i] = s[i]
  BY <1>2, <1>3
<1> QED
  BY <1>1, <1>3, <1>4, Zenon DEF Has

LEMMA SentOrInHandStep ==
  ASSUME SenderTypes, OnlyForked, Passed, InHand, SentOrInHand, AStep, calm'
  PROVE  SentOrInHand'
<1> USE DEF SenderTypes, SentOrInHand
<1>1. CASE Still
  BY <1>1 DEF Still
<1>2. CASE Reap
  BY <1>2 DEF Reap, ReapKids, Gone
<1>3. CASE ForkKid
  BY SMTT(30), <1>3 DEF ForkKid, opened, shared, OnlyForked
<1>4. CASE Terminate
  <2>1. wire' = Append(wire, Terminator) \/ wire' = wire
    BY <1>4 DEF Terminate
  <2>2. \A k : Has(wire, k) => Has(wire', k)
    <3>1. wire \in Seq(Nat) /\ Terminator \in Nat
      BY DEF Terminator
    <3> HIDE DEF SenderTypes, SentOrInHand
    <3> QED
      BY <2>1, <3>1, OneMoreHas, Zenon
  <2>3. k_pc' = k_pc /\ k_at' = k_at /\ f_off' = f_off /\ x_opt' = x_opt
    BY <1>4 DEF Terminate, kids, opened
  <2> QED
    BY <2>2, <2>3 DEF Has
<1>5. ASSUME NEW w \in Kid, Steps(w) PROVE SentOrInHand'
  <2>0. /\ \A v \in Kid \ {w} : k_pc'[v] = k_pc[v] /\ k_at'[v] = k_at[v]
        /\ x_opt' = x_opt
    BY <1>5, StepsOf
  <2>1. CASE f_off' = f_off /\ wire' = wire /\ k_pc[w] # "send"
    BY <2>0, <2>1
  <2>2. CASE Move(w)
    BY <2>1, <2>2 DEF Move, PatternPlaces
  <2>3. CASE KidExit(w)
    BY <2>1, <2>3 DEF KidExit, shared
  <2>4. CASE RequestPacket(w)
    BY <2>1, <2>4 DEF RequestPacket
  <2>5. CASE HeaderGood(w)
    BY <2>1, <2>5 DEF HeaderGood
  <2>6. CASE HeaderEnds(w)
    BY <2>1, <2>6 DEF HeaderEnds
  <2>7. CASE Advance(w)
    <3>1. /\ f_off' = f_off + 1 /\ k_pc[w] = "advance" /\ k_pc'[w] = "send" /\ k_at' = k_at
          /\ wire' = wire
      BY <2>7 DEF Advance, KidGoto
    <3>2. k_at[w] = f_off + 1
      BY <3>1 DEF Passed
    <3>3. x_opt' = x_opt
      BY <2>0
    <3>4. SUFFICES ASSUME NEW k \in 1 .. f_off', x_opt'.file[k] = "data"
                   PROVE  \/ \E i \in DOMAIN wire' : wire'[i] = k
                          \/ \E v \in Kid : k_pc'[v] = "send" /\ k_at'[v] = k
      BY DEF SentOrInHand
    <3>5. CASE k = f_off + 1
      BY <3>1, <3>2, <3>5
    <3>6. CASE k \in 1 .. f_off
      BY <2>0, <3>1, <3>3, <3>4, <3>6
    <3> QED
      BY <3>1, <3>4, <3>5, <3>6
  <2>8. CASE SendRaw(w)
    <3>1. k_pc[w] = "send" /\ f_off' = f_off /\ k_at' = k_at
      BY <2>8 DEF SendRaw
    <3>2. wire' = Append(wire, k_at[w]) \/ (wire' = wire /\ x_opt.file[k_at[w]] = "cut")
      BY <2>8 DEF SendRaw
    <3>3. k_at[w] \in Nat
      BY <3>1 DEF InHand
    <3>4. /\ \A k : Has(wire, k) => Has(wire', k)
          /\ x_opt.file[k_at[w]] = "data" => Has(wire', k_at[w])
      <4>1. wire \in Seq(Nat)
        OBVIOUS
      <4>2. CASE wire' = Append(wire, k_at[w])
        BY <3>3, <4>1, <4>2, OneMoreHas, Zenon
      <4>3. CASE wire' = wire /\ x_opt.file[k_at[w]] = "cut"
        <5>1. x_opt.file[k_at[w]] # "data"
          BY <4>3
        <5> QED
          BY <4>3, <5>1
      <4> QED
        BY <3>2, <4>2, <4>3
    <3>6. ASSUME NEW k \in 1 .. f_off, x_opt.file[k] = "data"
          PROVE  \/ Has(wire', k)
                 \/ \E v \in Kid : k_pc'[v] = "send" /\ k_at[v] = k
      <4>1. CASE Has(wire, k)
        BY <3>4, <4>1
      <4>2. CASE \E v \in Kid : k_pc[v] = "send" /\ k_at[v] = k
        BY <2>0, <3>4, <3>6, <4>2
      <4> QED
        BY <3>6, <4>1, <4>2 DEF Has
    <3> QED
      BY <2>0, <3>1, <3>6 DEF Has
  <2> QED
    BY <1>5, <2>2, <2>3, <2>4, <2>5, <2>6, <2>7, <2>8 DEF Steps
<1> QED
  BY <1>1, <1>2, <1>3, <1>4, <1>5 DEF AStep

LEMMA SomeExitedStep ==
  ASSUME SenderTypes, OnlyForked, SomeExited, AStep PROVE SomeExited'
<1> USE DEF SenderTypes, SomeExited
<1>1. CASE Still
  BY <1>1 DEF Still
<1>2. CASE Reap
  BY <1>2 DEF Reap, ReapKids, Gone
<1>3. CASE ForkKid
  <2>1. \A v \in Kid : k_pc[v] \in {"zombie", "reaped"} => k_pc'[v] = k_pc[v]
    BY <1>3 DEF ForkKid, OnlyForked
  <2>2. x_child' = x_child
    BY <1>3 DEF ForkKid
  <2> QED
    BY <2>1, <2>2
<1>4. CASE Terminate
  BY <1>4 DEF Terminate, kids
<1>5. ASSUME NEW w \in Kid, Steps(w) PROVE SomeExited'
  <2>0. \A v \in Kid : k_pc[v] \in {"zombie", "reaped"} => k_pc'[v] = k_pc[v]
    BY <1>5, StepsOf
  <2>1. CASE KidExit(w)
    <3>1. k_pc'[w] = "zombie"
      BY <2>1 DEF KidExit, KidGoto
    <3> QED
      BY <3>1
  <2>2. CASE ~KidExit(w)
    <3>1. x_child' = x_child
      BY <1>5, <2>2 DEF Steps, Move, RequestPacket, HeaderEnds, HeaderGood, Advance, SendRaw, Alone
    <3> QED
      BY <2>0, <3>1
  <2> QED
    BY <2>1, <2>2
<1> QED
  BY <1>1, <1>2, <1>3, <1>4, <1>5 DEF AStep

LEMMA ParentRunsStep ==
  ASSUME SenderTypes, ParentRuns, AStep, calm' PROVE ParentRuns'
<1> USE DEF ParentRuns
<1>1. CASE Still
  <2>1. x_run => x_run'
    BY <1>1, Zenon DEF Still
  <2>2. x_pc \in {"terminate", "drain", "end"} => x_pc' = x_pc
    BY <1>1 DEF Still
  <2> QED
    BY <2>1, <2>2
<1>2. CASE Reap
  BY <1>2 DEF Reap
<1>3. CASE ForkKid
  BY <1>3 DEF ForkKid
<1>4. CASE Terminate
  BY <1>4 DEF Terminate
<1>5. ASSUME NEW w \in Kid, Steps(w) PROVE ParentRuns'
  <2>1. x_run' = x_run /\ (x_pc' = x_pc \/ (x_pc = "select" /\ x_pc' = "woken"))
    BY <1>5, StepsOf
  <2>2. x_pc \in {"terminate", "drain", "end"} => x_pc' = x_pc
    BY <2>1
  <2> QED
    BY <2>1, <2>2
<1> QED
  BY <1>1, <1>2, <1>3, <1>4, <1>5 DEF AStep

LEMMA AllReapedStep ==
  ASSUME SenderTypes, OnlyForked, SentOnce, InHand, Recorded, SomeExited, ParentRuns, AllReaped,
         AStep, calm'
  PROVE  AllReaped'
<1> USE DEF SenderTypes
<1> DEFINE Over == x_pc = "terminate" \/ \E i \in DOMAIN wire : wire[i] = Terminator
           Quiet == (\A w \in Kid : k_pc[w] \in {"none", "reaped"}) /\ \E w \in Kid : k_pc[w] = "reaped"
<1>0. Over => Quiet
  BY DEF AllReaped
<1>o. Over => x_pc \in {"terminate", "drain", "end"}
  BY DEF SentOnce
<1>1. CASE Still
  <2>1. k_pc' = k_pc /\ wire' = wire
    BY <1>1 DEF Still
  <2>2. x_pc' = "terminate" => x_pc = "terminate"
    BY <1>1 DEF Still, ParentRuns
  <2> QED
    BY <1>0, <2>1, <2>2 DEF AllReaped
<1>2. CASE Reap
  <2>1. wire' = wire /\ k_pc' = [w \in Kid |-> IF k_pc[w] = "zombie" THEN "reaped" ELSE k_pc[w]]
    BY <1>2 DEF Reap, ReapKids, Gone
  <2>2. CASE Over
    BY <1>0, <2>1, <2>2 DEF AllReaped
  <2>3. CASE ~Over /\ x_pc' = "terminate"
    <3>1. x_tree' = {} /\ x_tree' = x_tree \ Gone /\ x_child
      BY <1>2, <2>3 DEF Reap, ReapKids
    <3>2. \A w \in Kid : k_pc[w] \in {"none", "reaped", "zombie"}
      BY <3>1 DEF Recorded, Gone
    <3>3. \E w \in Kid : k_pc[w] \in {"zombie", "reaped"}
      BY <3>1 DEF SomeExited
    <3> QED
      BY <2>1, <3>2, <3>3 DEF AllReaped
  <2>4. CASE ~Over /\ x_pc' # "terminate"
    BY <2>1, <2>4 DEF AllReaped
  <2> QED
    BY <2>2, <2>3, <2>4
<1>3. CASE ForkKid
  <2>1. x_pc = "fork" /\ x_pc' = x_pc /\ wire' = wire
    BY <1>3 DEF ForkKid, shared
  <2> QED
    BY <1>o, <2>1 DEF AllReaped
<1>4. CASE Terminate
  <2>1. x_pc = "terminate" /\ k_pc' = k_pc
    BY <1>4 DEF Terminate, kids
  <2> QED
    BY <1>0, <2>1 DEF AllReaped
<1>5. ASSUME NEW w \in Kid, Steps(w) PROVE AllReaped'
  <2>1. k_pc[w] \notin {"none", "reaped"} /\ (x_pc' = x_pc \/ x_pc' = "woken")
    BY <1>5, StepsOf
  <2>2. ~Over
    BY <1>0, <2>1
  <2>3. CASE SendRaw(w)
    <3>1. wire' = Append(wire, k_at[w]) \/ wire' = wire
      BY <2>3 DEF SendRaw
    <3>2. k_at[w] \in 1 .. f_off
      BY <2>3 DEF SendRaw, InHand
    <3>3. \A i \in DOMAIN wire' : wire'[i] # Terminator
      BY SMTT(30), <2>2, <3>1, <3>2, OneMore DEF Terminator
    <3> QED
      BY <2>1, <2>2, <3>3 DEF AllReaped
  <2>4. CASE ~SendRaw(w)
    <3>1. wire' = wire
      BY <1>5, <2>4 DEF Steps, Move, KidExit, RequestPacket, HeaderEnds, HeaderGood, Advance, shared
    <3> QED
      BY <2>1, <2>2, <3>1 DEF AllReaped
  <2> QED
    BY <2>3, <2>4
<1> QED
  BY <1>1, <1>2, <1>3, <1>4, <1>5 DEF AStep

LEMMA TerminatorLastStep ==
  ASSUME SenderTypes, SentOnce, InHand, AllReaped, TerminatorLast, AStep PROVE TerminatorLast'
<1> USE DEF SenderTypes
<1>1. CASE wire' = wire
  BY <1>1 DEF TerminatorLast
<1>2. CASE Terminate
  <2>1. wire' = Append(wire, Terminator) \/ wire' = wire
    BY <1>2 DEF Terminate
  <2>2. \A i \in DOMAIN wire : wire[i] # Terminator
    BY <1>2 DEF Terminate, SentOnce
  <2> QED
    BY <1>1, <2>1, <2>2, OneMore DEF TerminatorLast, Terminator
<1>3. ASSUME NEW w \in Kid, SendRaw(w) PROVE TerminatorLast'
  <2>1. wire' = Append(wire, k_at[w]) \/ wire' = wire
    BY <1>3 DEF SendRaw
  <2>2. k_pc[w] = "send"
    BY <1>3 DEF SendRaw
  <2>3. k_at[w] \in 1 .. f_off
    BY <2>2 DEF InHand
  <2>4. \A i \in DOMAIN wire : wire[i] # Terminator
    BY <2>2 DEF AllReaped
  <2>5. \A i \in DOMAIN wire' : wire'[i] # Terminator
    BY SMTT(30), <2>1, <2>3, <2>4, OneMore DEF Terminator
  <2> QED
    BY <2>5 DEF TerminatorLast
<1>4. CASE Still \/ Reap \/ ForkKid \/ \E w \in Kid : Steps(w) /\ ~SendRaw(w)
  <2>1. wire' = wire
    BY <1>4 DEF Still, Reap, ForkKid, Steps, Move, KidExit, RequestPacket, HeaderEnds, HeaderGood,
                Advance, shared
  <2> QED
    BY <1>1, <2>1
<1> QED
  BY <1>2, <1>3, <1>4 DEF AStep, Steps

\* The inductive invariant.
SenderInv ==
  /\ SenderTypes /\ FileRead(x_opt)
  /\ OnlyForked /\ LockHeld /\ Passed /\ InHand /\ SentOnce /\ ByPattern
  /\ calm => /\ Recorded /\ StillRun /\ AtTheEnd /\ SentOrInHand
             /\ SomeExited /\ ParentRuns /\ AllReaped /\ TerminatorLast

\* The invariant holds to begin with ...
LEMMA SenderInvInit == SenderInit => SenderInv
<1> SUFFICES ASSUME SenderInit PROVE SenderInv
  OBVIOUS
<1>1. SenderTypes
  BY SenderTypesInit
<1>2. FileRead(x_opt)
  <2>1. PICK l \in SenderLines : x_opt = SenderOptions(l)
    BY DEF SenderInit
  <2> QED
    BY <2>1, FileIs
<1>3. /\ k_pc = [w \in Kid |-> "none"] /\ k_run = [w \in Kid |-> TRUE]
      /\ f_off = 0 /\ wire = <<>> /\ x_run = TRUE /\ x_child = FALSE
      /\ x_pc \in {"create", "end"}
  BY DEF SenderInit
<1>4. DOMAIN wire = {} /\ 1 .. f_off = {}
  BY <1>3
<1>5. OnlyForked /\ LockHeld /\ InHand /\ ByPattern /\ Recorded /\ StillRun /\ AtTheEnd
  BY <1>3 DEF OnlyForked, LockHeld, InHand, ByPattern, PatternPlaces, Recorded, StillRun, AtTheEnd
<1>6. Passed
  <2>1. f_off <= Len(x_opt.file)
    BY <1>2, <1>3, Captured
  <2> QED
    BY <1>3, <1>4, <2>1 DEF Passed
<1>7. SentOnce /\ SentOrInHand /\ TerminatorLast
  BY <1>4 DEF SentOnce, SentOrInHand, TerminatorLast
<1>8. SomeExited /\ ParentRuns
  BY <1>3 DEF SomeExited, ParentRuns
<1>9. AllReaped
  BY <1>3, <1>4 DEF AllReaped
<1> QED
  BY <1>1, <1>2, <1>5, <1>6, <1>7, <1>8, <1>9 DEF SenderInv

\* ... and is kept by every step.
LEMMA SenderInvStep == SenderInv /\ [SenderNext]_xvars => SenderInv'
<1> SUFFICES ASSUME SenderInv, [SenderNext]_xvars PROVE SenderInv'
  OBVIOUS
<1>1. /\ SenderTypes /\ FileRead(x_opt)
      /\ OnlyForked /\ LockHeld /\ Passed /\ InHand /\ SentOnce /\ ByPattern
  BY Zenon DEF SenderInv
<1>2. AStep
  BY <1>1, StepsAre
<1>3. SenderTypes' /\ OnlyForked' /\ LockHeld'
  BY <1>1, <1>2, SenderTypesStep, OnlyForkedStep, LockHeldStep, Zenon
<1>4. Passed' /\ InHand' /\ SentOnce' /\ ByPattern'
  BY <1>1, <1>2, PassedStep, InHandStep, SentOnceStep, ByPatternStep, Zenon
<1>5. FileRead(x_opt)'
  <2>1. x_opt' = x_opt
    <3>1. ASSUME NEW w \in Kid, Steps(w) PROVE x_opt' = x_opt
      BY <1>1, <3>1, StepsOf
    <3> QED
      BY <1>2, <3>1 DEF AStep, Still, Reap, ForkKid, Terminate, opened
  <2> QED
    BY <1>1, <2>1
<1>6. ASSUME calm'
      PROVE  /\ Recorded' /\ StillRun' /\ AtTheEnd' /\ SentOrInHand'
             /\ SomeExited' /\ ParentRuns' /\ AllReaped' /\ TerminatorLast'
  <2>1. /\ Recorded /\ StillRun /\ AtTheEnd /\ SentOrInHand
        /\ SomeExited /\ ParentRuns /\ AllReaped /\ TerminatorLast
    <3>1. calm
      BY <1>1, <1>2, <1>6, CalmBefore, Zenon
    <3> QED
      BY <3>1, Zenon DEF SenderInv
  <2>2. Recorded' /\ StillRun' /\ AtTheEnd'
    BY <1>1, <1>2, <1>6, <2>1, RecordedStep, StillRunStep, AtTheEndStep, Zenon
  <2>3. SentOrInHand' /\ SomeExited' /\ ParentRuns'
    BY <1>1, <1>2, <1>6, <2>1, SentOrInHandStep, SomeExitedStep, ParentRunsStep, Zenon
  <2>4. AllReaped' /\ TerminatorLast'
    BY <1>1, <1>2, <1>6, <2>1, AllReapedStep, TerminatorLastStep, Zenon
  <2> QED
    BY <2>2, <2>3, <2>4, Zenon
<1> QED
  BY <1>3, <1>4, <1>5, <1>6, Zenon DEF SenderInv

\* The least of some numbers is one of them, and none is less.
LEMMA LeastIn ==
  ASSUME NEW S \in SUBSET Nat, S # {}
  PROVE  Min(S) \in S /\ \A n \in S : Min(S) <= n
<1>1. \E n \in S : \A m \in S : n <= m
  BY LeastNumber
<1> QED
  BY <1>1 DEF Min

\* What lies before the offset can be replayed.
LEMMA PassedReplayable ==
  ASSUME SenderTypes, FileRead(x_opt), Passed
  PROVE  1 .. f_off \subseteq Replayable
<1> DEFINE Stop == {k \in DOMAIN x_opt.file : x_opt.file[k] \in {"bad", "bare"}}
<1>1. f_off \in Nat /\ Len(x_opt.file) \in Nat /\ DOMAIN x_opt.file = 1 .. Len(x_opt.file)
  BY Captured DEF SenderTypes
<1>2. f_off <= Len(x_opt.file) /\ \A k \in 1 .. f_off : x_opt.file[k] \in {"data", "cut"}
  BY DEF Passed
<1>3. CASE Stop = {}
  <2>1. Replayable = DOMAIN x_opt.file
    BY <1>3 DEF Replayable
  <2> QED
    BY <1>1, <1>2, <2>1
<1>4. CASE Stop # {}
  <2>1. PICK m : m = Min(Stop)
    OBVIOUS
  <2>2. m \in Stop
    <3>1. Stop \in SUBSET Nat
      BY <1>1
    <3> HIDE DEF Stop
    <3> QED
      BY <1>4, <2>1, <3>1, LeastIn
  <2>3. Replayable = 1 .. m - 1
    BY <1>4, <2>1 DEF Replayable
  <2>4. m \in Nat /\ ~(m <= f_off)
    BY <1>1, <1>2, <2>2
  <2> QED
    BY <1>1, <2>3, <2>4
<1> QED
  BY <1>3, <1>4

\* At the end of the file there is nothing more, nor is there behind the
\* first packet that cannot be replayed, whatever the lines that follow.
LEMMA ReplayableEnds ==
  ASSUME SenderTypes, FileRead(x_opt), Passed,
         x_opt.rfile /\ f_off < Len(x_opt.file) => x_opt.file[f_off + 1] \in {"bad", "bare"}
  PROVE  Replayable \subseteq 1 .. f_off
<1> DEFINE Stop == {k \in DOMAIN x_opt.file : x_opt.file[k] \in {"bad", "bare"}}
<1>1. f_off \in Nat /\ Len(x_opt.file) \in Nat /\ DOMAIN x_opt.file = 1 .. Len(x_opt.file)
  BY Captured DEF SenderTypes
<1>2. CASE f_off < Len(x_opt.file)
  <2>1. x_opt.rfile
    <3>1. x_opt.file = <<>> => Len(x_opt.file) = 0
      OBVIOUS
    <3> QED
      BY <1>1, <1>2, <3>1 DEF FileRead
  <2>2. f_off + 1 \in Stop
    BY <1>1, <1>2, <2>1
  <2>3. PICK m : m = Min(Stop)
    OBVIOUS
  <2>4. m \in Stop /\ m <= f_off + 1
    <3>1. Stop \in SUBSET Nat
      BY <1>1
    <3> HIDE DEF Stop
    <3> QED
      BY <2>2, <2>3, <3>1, LeastIn
  <2>5. Replayable = 1 .. m - 1
    BY <2>2, <2>3 DEF Replayable
  <2>6. m \in Nat
    BY <1>1, <2>4
  <2> QED
    BY <1>1, <2>4, <2>5, <2>6
<1>3. CASE ~(f_off < Len(x_opt.file))
  <2>1. Replayable \subseteq 1 .. Len(x_opt.file)
    <3>1. CASE Stop = {}
      BY <1>1, <3>1 DEF Replayable
    <3>2. CASE Stop # {}
      <4>1. PICK m : m = Min(Stop)
        OBVIOUS
      <4>2. m \in Stop
        <5>1. Stop \in SUBSET Nat
          BY <1>1
        <5> HIDE DEF Stop
        <5> QED
          BY <3>2, <4>1, <5>1, LeastIn
      <4>3. Replayable = 1 .. m - 1
        BY <3>2, <4>1 DEF Replayable
      <4>4. m \in 1 .. Len(x_opt.file)
        BY <1>1, <4>2
      <4> QED
        BY <1>1, <4>3, <4>4
    <3> QED
      BY <3>1, <3>2
  <2> QED
    BY <1>1, <1>3, <2>1
<1> QED
  BY <1>2, <1>3

\* The workers that share a captured file (worker_task_raw_packet_file_speadtx,
\* request_packet_raw_packet_datafile) send each of its packets once and none
\* behind the first that cannot be replayed; a replay that nobody interrupts
\* sends them all, and register_speadtx its terminator last.
THEOREM InTurn == SenderSpec => []ReplayInTurn
<1>1. SenderSpec => []SenderInv
  BY SenderInvInit, SenderInvStep, PTL DEF SenderSpec
<1>2. SenderInv => ReplayInTurn
  <2> SUFFICES ASSUME SenderInv PROVE ReplayInTurn
    OBVIOUS
  <2>1. /\ SenderTypes /\ FileRead(x_opt) /\ Passed /\ SentOnce
        /\ calm => AtTheEnd /\ SentOrInHand /\ AllReaped /\ TerminatorLast
    BY Zenon DEF SenderInv
  <2>2. IsInjective(wire)
    BY <2>1, Zenon DEF SentOnce, IsInjective
  <2>3. \A k \in DOMAIN wire : wire[k] # Terminator => wire[k] \in Replayable
    <3>1. \A k \in DOMAIN wire : wire[k] \in 0 .. f_off
      BY <2>1 DEF SentOnce
    <3>2. f_off \in Nat
      BY <2>1 DEF SenderTypes
    <3> QED
      BY <2>1, <3>1, <3>2, PassedReplayable DEF Terminator
  <2>4. ASSUME calm, Terminator \in ToSet(wire)
        PROVE  /\ Last(wire) = Terminator
               /\ \A k \in Replayable : x_opt.file[k] = "data" => k \in ToSet(wire)
    <3>1. PICK i \in DOMAIN wire : wire[i] = Terminator
      BY <2>4 DEF ToSet
    <3>2. Last(wire) = Terminator
      <4>1. i = Len(wire)
      BY <2>1, <2>4, <3>1, Zenon DEF TerminatorLast
    <4> QED
      BY <3>1, <4>1, Zenon DEF Last
    <3>3. (\A w \in Kid : k_pc[w] \in {"none", "reaped"}) /\ \E w \in Kid : k_pc[w] = "reaped"
      BY <2>1, <2>4, <3>1 DEF AllReaped
    <3>4. \A k \in 1 .. f_off : x_opt.file[k] = "data" => k \in ToSet(wire)
      <4>1. \A k \in 1 .. f_off : x_opt.file[k] = "data" => \E j \in DOMAIN wire : wire[j] = k
        BY <2>1, <2>4, <3>3 DEF SentOrInHand
      <4> QED
        BY <4>1 DEF ToSet
    <3>5. Replayable \subseteq 1 .. f_off
      BY <2>1, <2>4, <3>3, ReplayableEnds DEF AtTheEnd
    <3> QED
      BY <3>2, <3>4, <3>5
  <2> QED
    BY <2>2, <2>3, <2>4, Zenon DEF ReplayInTurn
<1> QED
  BY <1>1, <1>2, PTL

(***************************************************************************)
(* The heap of the packet library                                          *)
(***************************************************************************)
\* Some numbers up to n have a greatest.
LEMMA GreatestIn ==
  ASSUME NEW n \in Nat, NEW s \in SUBSET (1 .. n), s # {}
  PROVE  Max(s) \in s /\ \A k \in s : k <= Max(s)
<1> DEFINE T == {m \in Nat : \A k \in s : k <= m}
<1>1. n \in T
  OBVIOUS
<1>2. PICK m \in T : \A l \in T : m <= l
  BY <1>1, LeastNumber
<1>3. m \in s
  <2>1. SUFFICES ASSUME m \notin s PROVE FALSE
    OBVIOUS
  <2>2. PICK k \in s : TRUE
    OBVIOUS
  <2>3. \A l \in s : l <= m /\ l # m
    BY <1>2, <2>1
  <2>4. m - 1 \in Nat
    BY <2>2, <2>3
  <2>5. m - 1 \in T
    BY <2>3, <2>4
  <2> QED
    BY <1>2, <2>5
<1>4. \A k \in s : k <= m
  BY <1>2
<1>5. Max(s) = m
  BY <1>3, <1>4, MaxIs
<1> QED
  BY <1>3, <1>4, <1>5

Packet == {Unpack(w) : w \in Wire \ {<<>>}}

\* An address in a header is a natural number, or what is there without one.
LEMMA AddressIs ==
  ASSUME NEW items \in Seq(Pointer), NEW id, NEW d
  PROVE  Address(items, id, d) \in Nat \cup {d}
<1>1. PICK n \in Nat : n = Len(items) /\ DOMAIN items = 1 .. n
  OBVIOUS
<1>2. PICK at : at = {k \in DOMAIN items : items[k].id = id}
  OBVIOUS
<1>3. CASE at = {}
  BY <1>2, <1>3 DEF Address
<1>4. CASE at # {}
  <2>1. at \in SUBSET (1 .. n)
    BY <1>1, <1>2
  <2>2. Max(at) \in at
    BY <1>4, <2>1, GreatestIn
  <2>3. Max(at) \in DOMAIN items
    BY <1>2, <2>2
  <2>4. items[Max(at)].addr \in Nat
    <3>1. items[Max(at)] \in Pointer
      BY <2>3
    <3> QED
      BY <3>1 DEF Pointer
  <2>5. Address(items, id, d) = items[Max(at)].addr
    BY <1>2, <1>4 DEF Address
  <2> QED
    BY <2>4, <2>5
<1> QED
  BY <1>3, <1>4

\* What a packet is.
LEMMA PacketType ==
  ASSUME NEW p \in Packet
  PROVE  /\ p \in [items : Seq(Pointer), cnt : Nat \cup {Err}, len : Nat \cup {Err},
                   off : Nat, plen : Nat]
         /\ End(p) \in Nat /\ Sound(p) /\ p.items # <<>>
<1>1. PICK w \in Wire \ {<<>>} : p = Unpack(w)
  BY DEF Packet
<1>2. w \in Seq(Pointer) /\ Sound(p)
  BY <1>1, WireAssumption
<1>3. p = [items |-> w, cnt |-> Address(w, CntId, Err), len |-> Address(w, LenId, Err),
           off |-> Address(w, OffId, 0), plen |-> Address(w, PayloadId, 0)]
  BY <1>1 DEF Unpack
<1>4. /\ Address(w, CntId, Err) \in Nat \cup {Err} /\ Address(w, LenId, Err) \in Nat \cup {Err}
      /\ Address(w, OffId, 0) \in Nat /\ Address(w, PayloadId, 0) \in Nat
  <2>1. Address(w, OffId, 0) \in Nat \cup {0} /\ Address(w, PayloadId, 0) \in Nat \cup {0}
    BY <1>2, AddressIs
  <2> QED
    BY <1>2, <2>1, AddressIs
<1>5. p \in [items : Seq(Pointer), cnt : Nat \cup {Err}, len : Nat \cup {Err},
             off : Nat, plen : Nat]
  BY <1>2, <1>3, <1>4
<1> QED
  BY <1>1, <1>2, <1>3, <1>5 DEF End

\* Two packets of a heap that tell its length are as the senders make them.
LEMMA PairAgrees ==
  ASSUME NEW p \in Packet, NEW q \in Packet, p # q, p.cnt = q.cnt, p.len # Err, q.len # Err
  PROVE  Agree(p, q) /\ Agree(q, p)
BY WireAssumption DEF Packet

(***************************************************************************)
(* The chain                                                               *)
(***************************************************************************)
Ordered(s) == \A i, j \in 1 .. Len(s) : i < j => s[i].off <= s[j].off

OneHeap(s, c, l) == \A i \in 1 .. Len(s) : s[i].cnt = c /\ s[i].len = l

Distinct(s) == \A i, j \in 1 .. Len(s) : s[i] = s[j] => i = j

\* Each packet ends before those behind it begin.
LEMMA NextBehind ==
  ASSUME NEW s \in Seq(Packet), NEW c, NEW l \in Nat, Ordered(s), OneHeap(s, c, l), Distinct(s)
  PROVE  /\ \A i \in 1 .. Len(s) : /\ s[i].off \in Nat /\ End(s[i]) \in Nat
                                   /\ s[i].off <= End(s[i]) /\ End(s[i]) <= l
                                   /\ l # 0 => s[i].off < End(s[i])
         /\ \A i, j \in 1 .. Len(s) : i < j => End(s[i]) <= s[j].off
<1>1. ASSUME NEW i \in 1 .. Len(s)
      PROVE  /\ s[i].off \in Nat /\ End(s[i]) \in Nat
             /\ s[i].off <= End(s[i]) /\ End(s[i]) <= l
             /\ l # 0 => s[i].off < End(s[i])
  <2>1. s[i] \in Packet
    OBVIOUS
  <2>2. /\ s[i].off \in Nat /\ s[i].plen \in Nat /\ End(s[i]) = s[i].off + s[i].plen
        /\ Sound(s[i])
    BY <2>1, PacketType DEF End
  <2>3. s[i].len = l /\ l # Err
    BY DEF OneHeap, Err
  <2>4. End(s[i]) <= l /\ (s[i].plen > 0 \/ l = 0)
    BY <2>2, <2>3 DEF Sound
  <2> QED
    BY <2>2, <2>4
<1>2. ASSUME NEW i \in 1 .. Len(s), NEW j \in 1 .. Len(s), i < j
      PROVE  End(s[i]) <= s[j].off
  <2>1. s[i] \in Packet /\ s[j] \in Packet /\ s[i] # s[j]
    BY <1>2 DEF Distinct
  <2>2. s[i].cnt = s[j].cnt /\ s[i].len # Err /\ s[j].len # Err
    BY DEF OneHeap, Err
  <2>3. Agree(s[i], s[j])
    BY <2>1, <2>2, PairAgrees
  <2>4. End(s[i]) <= s[j].off \/ End(s[j]) <= s[i].off
    BY <2>3 DEF Agree
  <2>5. s[i].off <= s[j].off
    BY <1>2 DEF Ordered
  <2>6. PICK a, b, x, y : a = s[i].off /\ b = s[j].off /\ x = End(s[i]) /\ y = End(s[j])
    OBVIOUS
  <2>7. /\ a \in Nat /\ b \in Nat /\ x \in Nat /\ y \in Nat
        /\ a <= x /\ b <= y /\ x <= l /\ y <= l /\ (l # 0 => b < y) /\ a <= b
        /\ x <= b \/ y <= a
    BY <1>1, <2>4, <2>5, <2>6
  <2>8. x <= b
    BY <2>7
  <2> QED
    BY <2>6, <2>8
<1> QED
  BY <1>1, <1>2

Covered(s) == UNION {s[i].off .. End(s[i]) - 1 : i \in 1 .. Len(s)}

\* The walk over the chain finds out whether every byte is there.
LEMMA WalkTells ==
  ASSUME NEW s \in Seq(Packet), s # <<>>, NEW c, NEW l \in Nat, Ordered(s), OneHeap(s, c, l),
         Distinct(s), \E i \in 1 .. Len(s) : s[i].off = 0
  PROVE  Complete(s, l) <=> Covered(s) = 0 .. l - 1
<1>1. PICK n \in Nat : n = Len(s) /\ n # 0
  OBVIOUS
<1>2. PICK o : o = [i \in 1 .. n |-> s[i].off]
  OBVIOUS
<1>3. PICK e : e = [i \in 1 .. n |-> End(s[i])]
  OBVIOUS
<1>4. /\ \A i \in 1 .. n : /\ o[i] \in Nat /\ e[i] \in Nat /\ o[i] <= e[i] /\ e[i] <= l
                           /\ l # 0 => o[i] < e[i]
      /\ \A i, j \in 1 .. n : i < j => e[i] <= o[j]
  BY <1>1, <1>2, <1>3, NextBehind
<1>5. Complete(s, l) <=> /\ \A k \in 1 .. n - 1 : e[k] = o[k + 1]
                         /\ e[n] = l
  <2>1. Last(s) = s[n]
    BY <1>1 DEF Last
  <2>2. \A k \in 1 .. n - 1 : k \in 1 .. n /\ k + 1 \in 1 .. n
    BY <1>1
  <2>3. n \in 1 .. n
    BY <1>1
  <2> QED
    BY <1>1, <1>2, <1>3, <2>1, <2>2, <2>3 DEF Complete
<1>6. \A x : x \in Covered(s) <=> x \in Int /\ \E i \in 1 .. n : o[i] <= x /\ x < e[i]
  <2>1. ASSUME NEW i \in 1 .. n PROVE \A x : x \in s[i].off .. End(s[i]) - 1 <=>
                                               x \in Int /\ o[i] <= x /\ x < e[i]
    BY <1>2, <1>3, <1>4
  <2> QED
    BY <1>1, <2>1 DEF Covered
<1>7. o[1] = 0 /\ 1 \in 1 .. n
  <2>1. PICK i \in 1 .. n : o[i] = 0
    BY <1>1, <1>2
  <2>2. i = 1 \/ 1 < i
    OBVIOUS
  <2>3. 1 \in 1 .. n
    BY <1>1
  <2>4. o[1] \in Nat /\ o[1] <= e[1] /\ (1 < i => e[1] <= o[i]) /\ e[1] \in Nat
    BY <1>4, <2>3
  <2> QED
    BY <2>1, <2>2, <2>3, <2>4
<1> HIDE DEF Covered, Complete
<1>8. ASSUME \A k \in 1 .. n - 1 : e[k] = o[k + 1], e[n] = l
      PROVE  Covered(s) = 0 .. l - 1
  <2>1. ASSUME NEW x \in 0 .. l - 1 PROVE \E i \in 1 .. n : o[i] <= x /\ x < e[i]
    <3> DEFINE T == {k \in 1 .. n : x < e[k]}
    <3>1. n \in T /\ T \in SUBSET Nat
      BY <1>1, <1>8
    <3>2. PICK k \in T : \A m \in T : k <= m
      BY <3>1, LeastNumber
    <3>3. CASE k = 1
      BY <1>7, <3>2, <3>3
    <3>4. CASE k # 1
      <4>1. k - 1 \in 1 .. n - 1 /\ k - 1 \in 1 .. n /\ k - 1 \notin T
        BY <3>2, <3>4
      <4>2. ~(x < e[k - 1]) /\ e[k - 1] = o[k - 1 + 1] /\ k - 1 + 1 = k
        BY <1>8, <3>2, <4>1
      <4>3. e[k - 1] \in Nat /\ o[k] <= x
        BY <1>4, <4>1, <4>2
      <4> QED
        BY <3>2, <4>3
    <3> QED
      BY <3>3, <3>4
  <2>2. ASSUME NEW x \in Covered(s) PROVE x \in 0 .. l - 1
    BY SMTT(30), <1>4, <1>6
  <2>3. \A x : x \in 0 .. l - 1 => x \in Covered(s)
    BY <1>6, <2>1
  <2> QED
    BY <2>2, <2>3
<1>9. ASSUME Covered(s) = 0 .. l - 1
      PROVE  (\A k \in 1 .. n - 1 : e[k] = o[k + 1]) /\ e[n] = l
  <2>0. \A x \in 0 .. l - 1 : \E i \in 1 .. n : o[i] <= x /\ x < e[i]
    BY <1>6, <1>9
  <2>1. ASSUME NEW k \in 1 .. n - 1 PROVE e[k] = o[k + 1]
    <3>1. k \in 1 .. n /\ k + 1 \in 1 .. n /\ k < k + 1
      BY <1>1
    <3>2. e[k] <= o[k + 1]
      BY <1>4, <3>1
    <3>3. SUFFICES ASSUME e[k] < o[k + 1] PROVE FALSE
      BY <1>4, <3>1, <3>2
    <3>4. e[k] \in Nat /\ o[k + 1] \in Nat /\ o[k + 1] <= e[k + 1] /\ e[k + 1] <= l /\ e[k + 1] \in Nat
      BY <1>4, <3>1
    <3>5. e[k] \in 0 .. l - 1
      BY <3>3, <3>4
    <3>6. PICK i \in 1 .. n : o[i] <= e[k] /\ e[k] < e[i]
      BY <2>0, <3>5
    <3>7. i # k
      BY <1>4, <3>6
    <3>8. CASE i < k
      <4>1. e[i] <= o[k] /\ o[k] <= e[k] /\ e[i] \in Nat /\ o[k] \in Nat
        BY <1>4, <3>1, <3>8
      <4> QED
        BY <3>4, <3>6, <4>1
    <3>9. CASE i = k + 1
      BY <1>4, <3>3, <3>4, <3>6, <3>9
    <3>10. CASE k + 1 < i
      <4>1. e[k + 1] <= o[i] /\ o[i] \in Nat
        BY <1>4, <3>1, <3>10
      <4> QED
        BY <3>3, <3>4, <3>6, <4>1
    <3> QED
      BY <3>7, <3>8, <3>9, <3>10
  <2>2. e[n] = l
    <3>1. n \in 1 .. n /\ e[n] \in Nat /\ e[n] <= l
      BY <1>1, <1>4
    <3>2. SUFFICES ASSUME e[n] < l PROVE FALSE
      BY <3>1
    <3>3. PICK i \in 1 .. n : o[i] <= e[n] /\ e[n] < e[i]
      <4>1. e[n] \in 0 .. l - 1
        BY <3>1, <3>2
      <4> QED
        BY <2>0, <4>1
    <3>4. i < n
      BY <3>1, <3>3
    <3>5. e[i] <= o[n] /\ o[n] <= e[n] /\ e[i] \in Nat /\ o[n] \in Nat
      BY <1>4, <3>1, <3>4
    <3> QED
      BY <3>1, <3>3, <3>5
  <2> QED
    BY <2>1, <2>2
<1> QED
  BY <1>5, <1>8, <1>9

\* The function in FlattenSeq.
Flattening(s, n) ==
  CHOOSE f : f = [i \in 1 .. n |-> IF i = 1 THEN s[i] ELSE f[i - 1] \o s[i]]

\* That function exists, and is what its equation says.
LEMMA FlatteningIs ==
  ASSUME NEW s, NEW n \in Nat
  PROVE  \A i \in 1 .. n : Flattening(s, n)[i] =
           IF i = 1 THEN s[i] ELSE Flattening(s, n)[i - 1] \o s[i]
<1> DEFINE Rec(f, m) == [i \in 1 .. m |-> IF i = 1 THEN s[i] ELSE f[i - 1] \o s[i]]
           T == {m \in Nat : \E f : f = Rec(f, m)}
<1>1. 0 \in T
  <2>1. PICK f : f = [i \in 1 .. 0 |-> <<>>]
    OBVIOUS
  <2>2. f = Rec(f, 0)
    BY <2>1
  <2> QED
    BY <2>2
<1>2. ASSUME NEW m \in T PROVE m + 1 \in T
  <2>1. PICK f : f = Rec(f, m)
    BY <1>2
  <2>2. PICK last : last = IF m = 0 THEN s[1] ELSE f[m] \o s[m + 1]
    OBVIOUS
  <2>3. PICK g : g = [i \in 1 .. m + 1 |-> IF i = m + 1 THEN last ELSE f[i]]
    OBVIOUS
  <2>4. \A i \in 1 .. m : f[i] = IF i = 1 THEN s[i] ELSE f[i - 1] \o s[i]
    BY <2>1
  <2> HIDE DEF Rec
  <2>5. ASSUME NEW i \in 1 .. m + 1
        PROVE  g[i] = IF i = 1 THEN s[i] ELSE g[i - 1] \o s[i]
    <3>1. CASE i = m + 1
      <4>1. i # 1 => i - 1 \in 1 .. m /\ i - 1 = m /\ g[i - 1] = f[m]
        BY <2>3, <3>1
      <4> QED
        BY <2>2, <2>3, <3>1, <4>1
    <3>2. CASE i # m + 1
      <4>1. i \in 1 .. m /\ g[i] = f[i]
        BY <2>3, <3>2
      <4>2. i # 1 => i - 1 \in 1 .. m + 1 /\ i - 1 # m + 1 /\ g[i - 1] = f[i - 1]
        BY <2>3, <3>2
      <4> QED
        BY <2>4, <4>1, <4>2
    <3> QED
      BY <3>1, <3>2
  <2>6. g = [i \in 1 .. m + 1 |-> g[i]]
    BY <2>3
  <2>7. g = Rec(g, m + 1)
    BY <2>5, <2>6 DEF Rec
  <2> QED
    BY <2>7
<1>3. T = Nat
  <2> HIDE DEF T
  <2>1. T \in SUBSET Nat
    BY DEF T
  <2> QED
    BY <1>1, <1>2, <2>1, EveryNumber
<1>4. PICK g : g = Flattening(s, n)
  OBVIOUS
<1>5. \E f : f = Rec(f, n)
  BY <1>3
<1>6. g = Rec(g, n)
  BY <1>4, <1>5 DEF Flattening
<1> QED
  BY <1>4, <1>6

\* FlattenSeq is its last value.
LEMMA FlattenIs ==
  ASSUME NEW s, Len(s) # 0
  PROVE  FlattenSeq(s) = Flattening(s, Len(s))[Len(s)]
  BY Zenon DEF FlattenSeq, Flattening


\* t has the pointers of the first m packets of s.
Gathers(t, s, m) ==
  /\ t \in Seq(Pointer)
  /\ \A x \in 1 .. Len(t) : \E i \in 1 .. m : \E y \in DOMAIN s[i].items : t[x] = s[i].items[y]
  /\ \A i \in 1 .. m : \A y \in DOMAIN s[i].items : \E x \in 1 .. Len(t) : t[x] = s[i].items[y]

\* The addresses of direct pointers rise.
Rising(t) ==
  \A x, y \in 1 .. Len(t) : x < y /\ t[x].direct /\ t[y].direct => t[x].addr < t[y].addr

\* So they do from packet to packet.
Rises(s) ==
  /\ \A i \in 1 .. Len(s) : Rising(s[i].items)
  /\ \A i, j \in 1 .. Len(s) : i < j =>
       \A y \in Directs(s[i].items), z \in Directs(s[j].items) :
         s[i].items[y].addr < s[j].items[z].addr

\* The pointers of one packet more.
LEMMA GathersMore ==
  ASSUME NEW s \in Seq(Packet), NEW m \in Nat, m + 1 <= Len(s), NEW t, Gathers(t, s, m)
  PROVE  /\ Gathers(t \o s[m + 1].items, s, m + 1)
         /\ Rises(s) /\ Rising(t) => Rising(t \o s[m + 1].items)
<1>1. m + 1 \in 1 .. Len(s)
  OBVIOUS
<1>2. PICK w : w = s[m + 1].items
  OBVIOUS
<1>3. w \in Seq(Pointer) /\ t \in Seq(Pointer)
  BY SMTT(30), <1>1, <1>2, PacketType DEF Gathers
<1>4. PICK u : u = t \o w
  OBVIOUS
<1>5. PICK a \in Nat, b \in Nat : a = Len(t) /\ b = Len(w) /\ DOMAIN w = 1 .. b
  BY <1>3
<1>6. /\ u \in Seq(Pointer) /\ Len(u) = a + b
      /\ \A x \in 1 .. a : u[x] = t[x]
      /\ \A x \in 1 .. b : u[a + x] = w[x]
  BY <1>3, <1>4, <1>5
<1>7. \A x \in 1 .. a + b : x \in 1 .. a \/ (x - a \in 1 .. b /\ u[x] = w[x - a])
  <2>1. SUFFICES ASSUME NEW x \in 1 .. a + b, x \notin 1 .. a
                 PROVE  x - a \in 1 .. b /\ u[x] = w[x - a]
    OBVIOUS
  <2>2. x - a \in 1 .. b /\ a + (x - a) = x
    BY <2>1
  <2> QED
    BY <1>6, <2>2
<1>8. Gathers(u, s, m + 1)
  <2>1. ASSUME NEW x \in 1 .. Len(u)
        PROVE  \E i \in 1 .. m + 1 : \E y \in DOMAIN s[i].items : u[x] = s[i].items[y]
    <3>1. CASE x \in 1 .. a
      <4>1. PICK i \in 1 .. m : \E y \in DOMAIN s[i].items : t[x] = s[i].items[y]
        BY <1>5, <3>1 DEF Gathers
      <4>2. i \in 1 .. m + 1 /\ u[x] = t[x]
        BY <1>6, <3>1
      <4> QED
        BY <4>1, <4>2
    <3>2. CASE x - a \in 1 .. b /\ u[x] = w[x - a]
      BY <1>2, <1>5, <3>2
    <3> QED
      BY <1>6, <1>7, <3>1, <3>2
  <2>2. ASSUME NEW i \in 1 .. m + 1, NEW y \in DOMAIN s[i].items
        PROVE  \E x \in 1 .. Len(u) : u[x] = s[i].items[y]
    <3>1. CASE i \in 1 .. m
      <4>1. PICK x \in 1 .. a : t[x] = s[i].items[y]
        BY <1>5, <3>1 DEF Gathers
      <4>2. x \in 1 .. a + b
        BY <1>5
      <4> QED
        BY <1>6, <4>1, <4>2
    <3>2. CASE i = m + 1
      <4>1. y \in 1 .. b /\ a + y \in 1 .. a + b
        BY <1>2, <1>5, <3>2
      <4> QED
        BY <1>2, <1>6, <3>2, <4>1
    <3> QED
      BY <3>1, <3>2
  <2> QED
    BY <1>6, <2>1, <2>2 DEF Gathers
<1>9. ASSUME Rises(s), Rising(t) PROVE Rising(u)
  <2>1. SUFFICES ASSUME NEW x \in 1 .. a + b, NEW y \in 1 .. a + b, x < y,
                        u[x].direct, u[y].direct
                 PROVE  u[x].addr < u[y].addr
    BY <1>6 DEF Rising
  <2>2. CASE x \in 1 .. a /\ y \in 1 .. a
    BY <1>5, <1>6, <1>9, <2>1, <2>2 DEF Rising
  <2>3. CASE x \in 1 .. a /\ y \notin 1 .. a
    <3>1. y - a \in 1 .. b /\ u[y] = w[y - a] /\ u[x] = t[x]
      BY <1>6, <1>7, <2>3
    <3>2. PICK i \in 1 .. m : \E z \in DOMAIN s[i].items : t[x] = s[i].items[z]
      BY <1>5, <2>3 DEF Gathers
    <3>3. PICK z \in DOMAIN s[i].items : t[x] = s[i].items[z]
      BY <3>2
    <3>4. z \in Directs(s[i].items) /\ y - a \in Directs(s[m + 1].items)
      BY <1>2, <1>5, <2>1, <3>1, <3>3 DEF Directs
    <3>5. i \in 1 .. Len(s) /\ i < m + 1
      OBVIOUS
    <3>6. s[i].items[z].addr < s[m + 1].items[y - a].addr
      BY <1>1, <1>9, <3>4, <3>5 DEF Rises
    <3> QED
      BY <1>2, <3>1, <3>3, <3>6
  <2>4. CASE x \notin 1 .. a /\ y \notin 1 .. a
    <3>1. /\ x - a \in 1 .. b /\ y - a \in 1 .. b /\ x - a < y - a
          /\ u[x] = w[x - a] /\ u[y] = w[y - a]
      BY <1>7, <2>1, <2>4
    <3>2. Rising(w)
      BY <1>1, <1>2, <1>9 DEF Rises
    <3> QED
      BY <1>5, <2>1, <3>1, <3>2 DEF Rising
  <2>5. ~(x \notin 1 .. a /\ y \in 1 .. a)
    BY <2>1
  <2> QED
    BY <2>2, <2>3, <2>4, <2>5
<1> QED
  BY <1>2, <1>4, <1>8, <1>9

\* The list of pointers has those of all packets, in order.
LEMMA PointersAre ==
  ASSUME NEW h, h.pkts \in Seq(Packet), h.pkts # <<>>
  PROVE  Gathers(Pointers(h), h.pkts, Len(h.pkts)) /\ (Rises(h.pkts) => Rising(Pointers(h)))
<1>1. PICK s \in Seq(Packet) : s = h.pkts
  OBVIOUS
<1>2. PICK n \in Nat : n = Len(s) /\ n # 0 /\ DOMAIN s = 1 .. n
  BY <1>1
<1>3. PICK f : f = [k \in DOMAIN s |-> s[k].items]
  OBVIOUS
<1>4. Len(f) = n /\ \A k \in 1 .. n : f[k] = s[k].items
  BY <1>2, <1>3
<1>5. PICK g : g = Flattening(f, n)
  OBVIOUS
<1>6. \A i \in 1 .. n : g[i] = IF i = 1 THEN f[i] ELSE g[i - 1] \o f[i]
  BY <1>5, FlatteningIs
<1>7. Pointers(h) = g[n]
  BY <1>1, <1>2, <1>3, <1>4, <1>5, FlattenIs DEF Pointers
<1>60. \A i \in 1 .. n : i # 1 => g[i] = g[i - 1] \o s[i].items
  BY <1>4, <1>6
<1> DEFINE T == {m \in Nat : m + 1 <= n => /\ Gathers(g[m + 1], s, m + 1)
                                           /\ Rises(s) => Rising(g[m + 1])}
<1>8. 0 \in T
  <2>1. g[1] = s[1].items /\ s[1] \in Packet
    BY <1>2, <1>4, <1>6
  <2>2. s[1].items \in Seq(Pointer)
    BY <2>1, PacketType
  <2>3. Gathers(s[1].items, s, 1)
    BY SMTT(30), <2>2 DEF Gathers
  <2>4. Rises(s) => Rising(s[1].items)
    BY <1>2 DEF Rises
  <2> QED
    BY <2>1, <2>3, <2>4
<1>9. ASSUME NEW m \in T PROVE m + 1 \in T
  <2>1. SUFFICES ASSUME m + 1 + 1 <= n
                 PROVE  /\ Gathers(g[m + 1 + 1], s, m + 1 + 1)
                        /\ Rises(s) => Rising(g[m + 1 + 1])
    OBVIOUS
  <2>2. m \in Nat /\ Gathers(g[m + 1], s, m + 1) /\ (Rises(s) => Rising(g[m + 1]))
    BY <2>1
  <2>3. g[m + 1 + 1] = g[m + 1] \o s[m + 1 + 1].items
    <3>1. PICK i : i = m + 1 + 1
      OBVIOUS
    <3>2. i \in 1 .. n /\ i # 1 /\ i - 1 = m + 1
      BY <2>1, <2>2, <3>1
    <3>3. g[i] = g[i - 1] \o s[i].items
      BY <1>60, <3>2
    <3> QED
      BY <3>1, <3>2, <3>3
  <2>4. m + 1 \in Nat /\ m + 1 + 1 <= Len(s)
    BY <1>2, <2>1, <2>2
  <2> HIDE DEF T
  <2> QED
    BY <2>2, <2>3, <2>4, GathersMore
<1>10. T = Nat
  <2>1. T \in SUBSET Nat
    OBVIOUS
  <2> HIDE DEF T
  <2> QED
    BY <1>8, <1>9, <2>1, EveryNumber
<1>11. n - 1 \in T /\ n - 1 + 1 = n /\ n - 1 + 1 <= n
  <2>1. n - 1 \in Nat /\ n - 1 + 1 = n
    BY <1>2
  <2> HIDE DEF T
  <2> QED
    BY <1>10, <2>1
<1> QED
  BY <1>1, <1>2, <1>7, <1>11

(***************************************************************************)
(* The items                                                               *)
(***************************************************************************)
ItemType == [id : Nat, valid : BOOLEAN, from : Nat, len : Int]

\* A least number is the minimum.
LEMMA LeastIs ==
  ASSUME NEW S \in SUBSET Int, NEW m \in S, \A k \in S : m <= k
  PROVE  Min(S) = m
<1>1. PICK x : x = Min(S)
  OBVIOUS
<1>2. x \in S /\ \A k \in S : x <= k
  BY <1>1 DEF Min
<1> QED
  BY <1>1, <1>2

\* The length of an item is up to the next direct pointer, or to the end.
LEMMA LengthIs ==
  ASSUME NEW h, NEW t \in Seq(Pointer), NEW k \in 1 .. Len(t)
  PROVE  \/ /\ Length(h, t, k) = h.len - t[k].addr
            /\ \A j \in k + 1 .. Len(t) : ~t[j].direct
         \/ \E m \in k + 1 .. Len(t) :
              /\ t[m].direct /\ Length(h, t, k) = t[m].addr - t[k].addr
              /\ \A j \in k + 1 .. Len(t) : t[j].direct => m <= j
<1>1. PICK later : later = {j \in k + 1 .. Len(t) : t[j].direct}
  OBVIOUS
<1>2. CASE later = {}
  BY <1>1, <1>2 DEF Length
<1>3. CASE later # {}
  <2>1. later \in SUBSET Nat
    BY <1>1
  <2>2. Min(later) \in later /\ \A j \in later : Min(later) <= j
    BY <1>3, <2>1, LeastIn
  <2>3. Length(h, t, k) = t[Min(later)].addr - t[k].addr
    BY <1>1, <1>3 DEF Length
  <2> QED
    BY <1>1, <2>2, <2>3
<1> QED
  BY <1>2, <1>3

\* An item has its pointer's name and place, and if it is valid all its bytes.
LEMMA ItemIs ==
  ASSUME NEW h, h.len \in Int, NEW t \in Seq(Pointer), NEW k \in 1 .. Len(t)
  PROVE  /\ Item(h, t, k) \in ItemType
         /\ Item(h, t, k).id = t[k].id /\ Item(h, t, k).from = t[k].addr
         /\ t[k].direct => Item(h, t, k).len = Length(h, t, k)
         /\ ~t[k].direct => Item(h, t, k).len = Err
         /\ t[k].direct /\ Item(h, t, k).valid =>
              \A x \in t[k].addr .. t[k].addr + Length(h, t, k) - 1 : Holders(h, x) # {}
<1>1. t[k] \in Pointer
  OBVIOUS
<1>2. Length(h, t, k) \in Int
  <2>1. \A j \in 1 .. Len(t) : t[j] \in Pointer
    OBVIOUS
  <2>2. \A j \in 1 .. Len(t) : t[j].addr \in Nat
    BY <2>1 DEF Pointer
  <2>3. CASE Length(h, t, k) = h.len - t[k].addr
    BY <2>2, <2>3
  <2>4. CASE \E m \in k + 1 .. Len(t) : Length(h, t, k) = t[m].addr - t[k].addr
    <3>1. PICK m \in k + 1 .. Len(t) : Length(h, t, k) = t[m].addr - t[k].addr
      BY <2>4
    <3>2. m \in 1 .. Len(t)
      OBVIOUS
    <3> QED
      BY <2>2, <3>1, <3>2
  <2> QED
    BY <2>3, <2>4, LengthIs, Zenon
<1> QED
  <2>1. PICK n \in Int : n = Length(h, t, k)
    BY <1>2
  <2>2. PICK q \in Pointer : q = t[k]
    BY <1>1
  <2>3. q.id \in Nat /\ q.addr \in Nat /\ q.direct \in BOOLEAN
    BY DEF Pointer
  <2>4. PICK missing \in BOOLEAN :
          missing <=> \E x \in q.addr .. q.addr + n - 1 : Holders(h, x) = {}
    OBVIOUS
  <2>5. CASE q.direct
    <3>1. /\ Item(h, t, k).id = q.id /\ Item(h, t, k).from = q.addr /\ Item(h, t, k).len = n
          /\ Item(h, t, k) = [id |-> q.id, valid |-> Item(h, t, k).valid,
                              from |-> q.addr, len |-> n]
          /\ Item(h, t, k).valid = (n >= 0 /\ ~(\E x \in q.addr .. q.addr + n - 1 :
                                                Holders(h, x) = {}))
      BY <2>1, <2>2, <2>5 DEF Item
    <3>2. Item(h, t, k).valid \in BOOLEAN
      BY <3>1
    <3>3. Item(h, t, k) \in ItemType
      BY <2>3, <3>1, <3>2 DEF ItemType
    <3> QED
      BY <2>1, <2>2, <2>5, <3>1, <3>3
  <2>6. CASE ~q.direct
    <3>1. Item(h, t, k) = [id |-> q.id, valid |-> TRUE, from |-> q.addr, len |-> Err]
      BY <2>2, <2>6 DEF Item
    <3> QED
      BY <2>2, <2>3, <2>6, <3>1 DEF ItemType, Err
  <2> QED
    BY <2>5, <2>6

\* The function in Items.
Making(h, t) ==
  CHOOSE made : made = [k \in 0 .. Len(t) |->
    IF k = 0 THEN <<>>
    ELSE IF t[k].id \in {CntId, OffId, PayloadId, CtrlId} THEN made[k - 1]
    ELSE Append(made[k - 1], Item(h, t, k))]

\* The items made of the first k pointers.
LEMMA MakingIs ==
  ASSUME NEW h, NEW t \in Seq(Pointer)
  PROVE  \A k \in 0 .. Len(t) : Making(h, t)[k] =
           IF k = 0 THEN <<>>
           ELSE IF t[k].id \in {CntId, OffId, PayloadId, CtrlId} THEN Making(h, t)[k - 1]
           ELSE Append(Making(h, t)[k - 1], Item(h, t, k))
<1> DEFINE Next1(f, k) ==
             IF t[k].id \in {CntId, OffId, PayloadId, CtrlId} THEN f[k - 1]
             ELSE Append(f[k - 1], Item(h, t, k))
           Rec(f, m) == [k \in 0 .. m |-> IF k = 0 THEN <<>> ELSE Next1(f, k)]
           T == {m \in Nat : \E f : f = Rec(f, m)}
<1>1. 0 \in T
  <2>1. PICK f : f = [k \in 0 .. 0 |-> <<>>]
    OBVIOUS
  <2>2. f = Rec(f, 0)
    BY <2>1
  <2> QED
    BY <2>2
<1>2. ASSUME NEW m \in T PROVE m + 1 \in T
  <2>1. PICK f : f = Rec(f, m)
    BY <1>2
  <2>2. PICK last : last = IF t[m + 1].id \in {CntId, OffId, PayloadId, CtrlId} THEN f[m]
                           ELSE Append(f[m], Item(h, t, m + 1))
    OBVIOUS
  <2>3. PICK g : g = [k \in 0 .. m + 1 |-> IF k = m + 1 THEN last ELSE f[k]]
    OBVIOUS
  <2>4. \A k \in 0 .. m : f[k] = IF k = 0 THEN <<>> ELSE Next1(f, k)
    BY <2>1
  <2>5. ASSUME NEW k \in 0 .. m + 1
        PROVE  g[k] = IF k = 0 THEN <<>> ELSE Next1(g, k)
    <3>1. CASE k = m + 1
      <4>1. k # 0 /\ k - 1 = m /\ g[k - 1] = f[m] /\ g[k] = last
        BY <2>3, <3>1
      <4> QED
        BY <2>2, <3>1, <4>1
    <3>2. CASE k # m + 1
      <4>1. k \in 0 .. m /\ g[k] = f[k]
        BY <2>3, <3>2
      <4>2. k # 0 => k - 1 \in 0 .. m + 1 /\ k - 1 # m + 1 /\ g[k - 1] = f[k - 1]
        BY <2>3, <3>2
      <4> QED
        BY <2>4, <4>1, <4>2
    <3> QED
      BY <3>1, <3>2
  <2>6. g = [k \in 0 .. m + 1 |-> g[k]]
    BY <2>3
  <2> HIDE DEF Next1
  <2>7. g = Rec(g, m + 1)
    BY <2>5, <2>6
  <2> QED
    BY <2>7
<1>3. T = Nat
  <2>1. T \in SUBSET Nat
    OBVIOUS
  <2> HIDE DEF T
  <2> QED
    BY <1>1, <1>2, <2>1, EveryNumber
<1>4. PICK g : g = Making(h, t)
  OBVIOUS
<1>5. \E f : f = Rec(f, Len(t))
  <2>1. Len(t) \in T
    BY <1>3
  <2> QED
    BY <2>1
<1>6. g = Rec(g, Len(t))
  BY <1>4, <1>5, Zenon DEF Making
<1> QED
  BY <1>4, <1>6

\* Each item is one of a pointer's.
LEMMA ItemsAre ==
  ASSUME NEW h, h.len \in Int, h.pkts \in Seq(Packet), h.pkts # <<>>
  PROVE  /\ Items(h) \in Seq(ItemType)
         /\ \A j \in 1 .. Len(Items(h)) : \E k \in 1 .. Len(Pointers(h)) :
              Items(h)[j] = Item(h, Pointers(h), k)
<1>1. PICK t \in Seq(Pointer) : t = Pointers(h)
  BY PointersAre DEF Gathers
<1>2. PICK g : g = Making(h, t)
  OBVIOUS
<1>3. PICK n \in Nat : n = Len(t)
  OBVIOUS
<1>4. \A k \in 0 .. n : g[k] =
           IF k = 0 THEN <<>>
           ELSE IF t[k].id \in {CntId, OffId, PayloadId, CtrlId} THEN g[k - 1]
           ELSE Append(g[k - 1], Item(h, t, k))
  BY <1>2, <1>3, MakingIs
<1>5. Items(h) = g[n]
  BY <1>1, <1>2, <1>3, Zenon DEF Items, Making
<1> DEFINE S == {Item(h, t, k) : k \in 1 .. n}
           T == {m \in Nat : m <= n => g[m] \in Seq(S)}
<1>40. \A k \in 1 .. n : g[k] = g[k - 1] \/ g[k] = Append(g[k - 1], Item(h, t, k))
  <2>1. \A k \in 1 .. n : k # 0 /\ k \in 0 .. n
    OBVIOUS
  <2> QED
    BY <1>4, <2>1
<1>6. 0 \in T
  <2>1. g[0] = <<>>
    BY <1>4
  <2>2. <<>> \in Seq(S)
    <3> HIDE DEF S
    <3> QED
      OBVIOUS
  <2> QED
    BY <2>1, <2>2
<1>7. ASSUME NEW m \in T PROVE m + 1 \in T
  <2>1. SUFFICES ASSUME m + 1 <= n PROVE g[m + 1] \in Seq(S)
    OBVIOUS
  <2>2. m \in Nat /\ g[m] \in Seq(S) /\ m + 1 \in 1 .. n /\ m + 1 - 1 = m /\ m + 1 \in 0 .. n
    BY <2>1
  <2>3. Item(h, t, m + 1) \in S
    BY <2>2
  <2>4. g[m + 1] = g[m] \/ g[m + 1] = Append(g[m], Item(h, t, m + 1))
    BY <1>40, <2>2
  <2> HIDE DEF S
  <2>5. Append(g[m], Item(h, t, m + 1)) \in Seq(S)
    BY <2>2, <2>3
  <2> QED
    BY <2>2, <2>4, <2>5
<1>8. T = Nat
  <2>1. T \in SUBSET Nat
    OBVIOUS
  <2> HIDE DEF T
  <2> QED
    BY <1>6, <1>7, <2>1, EveryNumber
<1>9. g[n] \in Seq(S)
  BY SMTT(30), <1>8
<1>10. S \subseteq ItemType
  BY <1>3, ItemIs
<1>11. g[n] \in Seq(ItemType)
  <2> HIDE DEF S
  <2> QED
    BY <1>9, <1>10
<1>12. ASSUME NEW j \in 1 .. Len(g[n]) PROVE \E k \in 1 .. n : g[n][j] = Item(h, t, k)
  <2>1. g[n][j] \in S
    <3> HIDE DEF S
    <3> QED
      BY <1>9
  <2> QED
    BY <2>1
<1> QED
  BY <1>1, <1>3, <1>5, <1>11, <1>12

\* Where the sender put an item of heap c of l bytes.
SentIn(c, l, id) ==
  LET ptrs == UNION {ToSet(w) : w \in {v \in Wire : v # <<>> /\ Unpack(v).cnt = c}}
      direct == {q \in ptrs : q.direct}
      q == CHOOSE q \in direct : q.id = id
      ends == {r.addr : r \in {r \in direct : r.addr > q.addr}} \cup {l}
  IN <<q.addr, Min(ends) - q.addr>>

\* SentItem, with the heap as a parameter.
LEMMA SentItemIs == \A id : SentItem(id) = SentIn(heap.cnt, came[1].len, id)
BY DEF SentItem, SentIn

\* The direct pointers a sender sends for heap c.
SentFor(c) == {q \in UNION {ToSet(w) : w \in {v \in Wire : v # <<>> /\ Unpack(v).cnt = c}} : q.direct}

\* These are the direct pointers of the heap's packets.
LEMMA SentForIs ==
  ASSUME NEW c, NEW r
  PROVE  r \in SentFor(c) <=> r.direct /\ \E p \in Packet : p.cnt = c /\ \E z \in DOMAIN p.items : r = p.items[z]
<1>1. ASSUME r \in SentFor(c)
      PROVE  r.direct /\ \E p \in Packet : p.cnt = c /\ \E z \in DOMAIN p.items : r = p.items[z]
  <2>1. PICK w \in Wire : w # <<>> /\ Unpack(w).cnt = c /\ r \in ToSet(w)
    BY <1>1 DEF SentFor
  <2>2. PICK p : p = Unpack(w)
    OBVIOUS
  <2>3. p \in Packet /\ p.items = w /\ p.cnt = c
    BY <2>1, <2>2 DEF Packet, Unpack
  <2>4. \E z \in DOMAIN w : r = w[z]
    BY <2>1 DEF ToSet
  <2> QED
    BY <1>1, <2>3, <2>4 DEF SentFor
<1>2. ASSUME r.direct, NEW p \in Packet, p.cnt = c, NEW z \in DOMAIN p.items, r = p.items[z]
      PROVE  r \in SentFor(c)
  <2>1. PICK w \in Wire \ {<<>>} : p = Unpack(w)
    BY DEF Packet
  <2>2. p.items = w
    BY <2>1 DEF Unpack
  <2>3. r \in ToSet(w)
    BY <1>2, <2>2 DEF ToSet
  <2> QED
    BY <1>2, <2>1, <2>3 DEF SentFor
<1> QED
  BY <1>1, <1>2

\* The length of a heap and its items bind its packets.
LEMMA SentPointer ==
  ASSUME NEW c, NEW l \in Nat, NEW v \in Packet, v.cnt = c, v.len = l, NEW r \in SentFor(c)
  PROVE  \E p \in Packet : /\ p.cnt = c /\ p.len = l
                           /\ \E z \in Directs(p.items) : r = p.items[z]
                           /\ r.addr \in Nat /\ r.addr <= l
                           /\ p.off = 0 \/ r.addr \in p.off .. End(p) - 1
<1>1. PICK p \in Packet : p.cnt = c /\ \E z \in DOMAIN p.items : r = p.items[z]
  BY SentForIs
<1>2. PICK z \in DOMAIN p.items : r = p.items[z]
  BY <1>1
<1>3. r.direct
  BY SentForIs
<1>4. z \in Directs(p.items)
  BY <1>2, <1>3 DEF Directs
<1>5. Sound(p) /\ p.items \in Seq(Pointer)
  BY PacketType
<1>6. /\ p.len # Err /\ p.items[z].addr <= p.len
      /\ p.off = 0 \/ p.items[z].addr \in p.off .. End(p) - 1
  BY <1>4, <1>5 DEF Sound
<1>7. r \in Pointer
  BY <1>2, <1>5
<1>8. p.len = l
  <2>1. v.len # Err
    BY DEF Err
  <2>2. p # v => Agree(p, v)
    BY <1>1, <1>6, <2>1, PairAgrees
  <2> QED
    BY <2>2 DEF Agree
<1> QED
  BY <1>1, <1>2, <1>4, <1>6, <1>7, <1>8 DEF Pointer

\* No two items of a heap have the same name.
LEMMA OneName ==
  ASSUME NEW c, NEW l \in Nat, NEW v \in Packet, v.cnt = c, v.len = l,
         NEW q \in SentFor(c), NEW r \in SentFor(c), q.id = r.id
  PROVE  q = r
<1>1. PICK p1 \in Packet : /\ p1.cnt = c /\ p1.len = l
                           /\ \E z \in Directs(p1.items) : q = p1.items[z]
  BY SentPointer
<1>2. PICK p2 \in Packet : /\ p2.cnt = c /\ p2.len = l
                           /\ \E z \in Directs(p2.items) : r = p2.items[z]
  BY SentPointer
<1>3. PICK y \in Directs(p1.items) : q = p1.items[y]
  BY <1>1
<1>4. PICK z \in Directs(p2.items) : r = p2.items[z]
  BY <1>2
<1>5. CASE p1 = p2
  <2>1. Sound(p1)
    BY PacketType
  <2>2. y = z
    BY <1>3, <1>4, <1>5, <2>1 DEF Sound
  <2> QED
    BY <1>3, <1>4, <1>5, <2>2
<1>6. CASE p1 # p2
  <2>1. p1.len # Err /\ p2.len # Err
    BY <1>1, <1>2 DEF Err
  <2>2. Agree(p1, p2)
    BY <1>1, <1>2, <1>6, <2>1, PairAgrees
  <2> QED
    BY <1>3, <1>4, <2>2 DEF Agree
<1> QED
  BY <1>5, <1>6

\* In a heap with data the items of a chain are in the order of their data.
LEMMA ChainRises ==
  ASSUME NEW s \in Seq(Packet), NEW c, NEW l \in Nat, l # 0, Ordered(s), OneHeap(s, c, l), Distinct(s)
  PROVE  Rises(s)
<1>1. ASSUME NEW i \in 1 .. Len(s) PROVE Rising(s[i].items)
  <2>1. Sound(s[i]) /\ s[i].items \in Seq(Pointer)
    BY PacketType
  <2> QED
    BY <2>1 DEF Sound, Rising, Directs
<1>2. ASSUME NEW i \in 1 .. Len(s), NEW j \in 1 .. Len(s), i < j,
             NEW y \in Directs(s[i].items), NEW z \in Directs(s[j].items)
      PROVE  s[i].items[y].addr < s[j].items[z].addr
  <2>1. s[i] \in Packet /\ s[j] \in Packet /\ s[i] # s[j]
    BY <1>2 DEF Distinct
  <2>2. s[i].cnt = s[j].cnt /\ s[i].len # Err /\ s[j].len # Err
    BY DEF OneHeap, Err
  <2>3. Agree(s[i], s[j])
    BY <2>1, <2>2, PairAgrees
  <2>4. s[i].off < s[j].off
    <3>1. /\ s[i].off \in Nat /\ s[j].off \in Nat /\ End(s[i]) \in Nat
          /\ s[i].off < End(s[i]) /\ End(s[i]) <= s[j].off
      BY <1>2, NextBehind
    <3> QED
      BY <3>1
  <2> QED
    BY <2>3, <2>4 DEF Agree
<1> QED
  BY <1>1, <1>2 DEF Rises

\* An item of which every byte was found is the sender's.
LEMMA ItemSent ==
  ASSUME NEW s \in Seq(Packet), s # <<>>, NEW c \in Nat, NEW l \in Nat,
         Ordered(s), OneHeap(s, c, l), Distinct(s), NEW h, h.pkts = s, h.len = l,
         NEW t, t = Pointers(h), NEW k \in 1 .. Len(t), t[k].direct, Item(h, t, k).valid
  PROVE  <<t[k].addr, Length(h, t, k)>> = SentIn(c, l, t[k].id)
<1>1. /\ Gathers(t, s, Len(s)) /\ (Rises(s) => Rising(t)) /\ t \in Seq(Pointer)
  <2>1. h.pkts \in Seq(Packet) /\ h.pkts # <<>>
    OBVIOUS
  <2>2. Gathers(Pointers(h), h.pkts, Len(h.pkts)) /\ (Rises(h.pkts) => Rising(Pointers(h)))
    BY <2>1, PointersAre
  <2>3. Gathers(t, s, Len(s)) /\ (Rises(s) => Rising(t))
    BY <2>2, Zenon
  <2> QED
    BY <2>3 DEF Gathers
<1>2. PICK q : q = t[k]
  OBVIOUS
<1>3. ASSUME NEW j \in 1 .. Len(t), t[j].direct
      PROVE  /\ t[j] \in SentFor(c)
             /\ \E i \in 1 .. Len(s) : \E y \in Directs(s[i].items) : t[j] = s[i].items[y]
  <2>1. PICK i \in 1 .. Len(s) : \E y \in DOMAIN s[i].items : t[j] = s[i].items[y]
    BY <1>1 DEF Gathers
  <2>2. PICK y \in DOMAIN s[i].items : t[j] = s[i].items[y]
    BY <2>1
  <2>3. s[i] \in Packet /\ s[i].cnt = c
    BY DEF OneHeap
  <2>4. t[j] \in SentFor(c)
    BY <1>3, <2>2, <2>3, SentForIs
  <2>5. y \in Directs(s[i].items)
    BY <1>3, <2>2 DEF Directs
  <2> QED
    BY <2>2, <2>4, <2>5
<1>4. q \in SentFor(c)
  BY <1>2, <1>3
<1>5. PICK v \in Packet : v.cnt = c /\ v.len = l
  <2>1. 1 \in 1 .. Len(s)
    OBVIOUS
  <2> QED
    BY <2>1 DEF OneHeap
<1>6. (CHOOSE r \in SentFor(c) : r.id = q.id) = q
  <2>1. PICK x : x = (CHOOSE r \in SentFor(c) : r.id = q.id)
    OBVIOUS
  <2>2. x \in SentFor(c) /\ x.id = q.id
    BY <1>4, <2>1
  <2> QED
    BY <1>4, <1>5, <2>1, <2>2, OneName
<1>7. PICK ends : ends = {r.addr : r \in {r \in SentFor(c) : r.addr > q.addr}} \cup {l}
  OBVIOUS
<1>8. SentIn(c, l, q.id) = <<q.addr, Min(ends) - q.addr>>
  BY <1>6, <1>7 DEF SentIn, SentFor
<1>9. \A r \in SentFor(c) : r.addr \in Nat /\ r.addr <= l
  BY <1>5, SentPointer
<1>10. PICK n : n = Length(h, t, k)
  OBVIOUS
<1>11. PICK a \in Nat : a = q.addr /\ a <= l
  BY <1>4, <1>9
<1>12. SUFFICES Min(ends) - a = n
  BY <1>2, <1>8, <1>10, <1>11
<1>13. \/ n = l - a /\ \A j \in k + 1 .. Len(t) : ~t[j].direct
       \/ \E m \in k + 1 .. Len(t) : /\ t[m].direct /\ n = t[m].addr - a
                                     /\ \A j \in k + 1 .. Len(t) : t[j].direct => m <= j
  BY <1>1, <1>2, <1>10, <1>11, LengthIs
<1>14. PICK e \in Nat : /\ n = e - a /\ e <= l
                        /\ \/ e = l /\ \A j \in k + 1 .. Len(t) : ~t[j].direct
                           \/ \E m \in k + 1 .. Len(t) :
                                /\ t[m].direct /\ e = t[m].addr
                                /\ \A j \in k + 1 .. Len(t) : t[j].direct => m <= j
  <2>1. CASE n = l - a /\ \A j \in k + 1 .. Len(t) : ~t[j].direct
    BY <2>1
  <2>2. ASSUME NEW m \in k + 1 .. Len(t), t[m].direct, n = t[m].addr - a,
               \A j \in k + 1 .. Len(t) : t[j].direct => m <= j
        PROVE  \E x \in Nat : /\ n = x - a /\ x <= l
                              /\ \E y \in k + 1 .. Len(t) :
                                   /\ t[y].direct /\ x = t[y].addr
                                   /\ \A j \in k + 1 .. Len(t) : t[j].direct => y <= j
    <3>1. m \in 1 .. Len(t)
      OBVIOUS
    <3>2. t[m].addr \in Nat /\ t[m].addr <= l
      BY <1>3, <1>9, <2>2, <3>1
    <3> QED
      BY <2>2, <3>2
  <2> QED
    BY <1>13, <2>1, <2>2
<1>15. ends \in SUBSET Int /\ l \in ends
  BY <1>7, <1>9
<1>16. CASE l = 0
  <2>1. ends = {0}
    <3>1. \A r \in SentFor(c) : ~(r.addr > q.addr)
      BY <1>9, <1>11, <1>16
    <3> QED
      BY <1>7, <1>16, <3>1
  <2>2. Min(ends) = 0
    <3>1. 0 \in ends /\ ends \in SUBSET Int /\ \A x \in ends : 0 <= x
      BY <2>1
    <3> QED
      BY <3>1, LeastIs, Zenon
  <2> QED
    BY <1>11, <1>14, <1>16, <2>2
<1>17. CASE l # 0
  <2>1. Rising(t)
    BY <1>1, <1>17, ChainRises
  <2>2. e \in ends
    <3>1. ASSUME NEW m \in k + 1 .. Len(t), t[m].direct, e = t[m].addr PROVE e \in ends
      <4>1. m \in 1 .. Len(t) /\ k < m
        OBVIOUS
      <4>2. t[m] \in SentFor(c)
        BY <1>3, <3>1, <4>1
      <4>3. q.addr < t[m].addr
        BY <1>2, <2>1, <3>1, <4>1 DEF Rising
      <4>4. t[m].addr > q.addr
        BY <1>11, <3>1, <4>3
      <4> QED
        BY <1>7, <3>1, <4>2, <4>4
    <3> QED
      BY <1>14, <1>15, <3>1
  <2>3. ASSUME NEW r \in SentFor(c), a < r.addr, r.addr < e PROVE FALSE
    <3>1. PICK p \in Packet : /\ p.cnt = c /\ p.len = l
                              /\ \E z \in Directs(p.items) : r = p.items[z]
                              /\ p.off = 0 \/ r.addr \in p.off .. End(p) - 1
      BY <1>5, SentPointer
    <3>2. PICK z \in Directs(p.items) : r = p.items[z]
      BY <3>1
    <3>3. r.direct
      BY SentForIs
    <3>4. CASE \E x \in 1 .. Len(s) : p = s[x]
      <4>1. PICK x \in 1 .. Len(s) : p = s[x]
        BY <3>4
      <4>2. z \in DOMAIN s[x].items
        BY <4>1 DEF Directs
      <4>3. PICK u \in 1 .. Len(t) : t[u] = r
        BY <1>1, <3>2, <4>1, <4>2 DEF Gathers
      <4>4. CASE k < u
        <5>1. u \in k + 1 .. Len(t)
          BY <4>4
        <5>2. PICK m \in k + 1 .. Len(t) : t[m].direct /\ e = t[m].addr /\ m <= u
          BY <1>14, <3>3, <4>3, <5>1
        <5>3. m \in 1 .. Len(t) /\ (m = u \/ m < u)
          BY <5>2
        <5>4. e = r.addr \/ e < r.addr
          BY <2>1, <3>3, <4>3, <5>2, <5>3 DEF Rising
        <5> QED
          BY <1>9, <2>3, <5>4
      <4>5. CASE k = u
        BY <1>2, <1>9, <1>11, <2>3, <4>3, <4>5
      <4>6. CASE u < k
        <5>1. r.addr < q.addr
          BY <1>2, <2>1, <3>3, <4>3, <4>6 DEF Rising
        <5> QED
          BY <1>9, <1>11, <2>3, <5>1
      <4> QED
        BY <4>4, <4>5, <4>6
    <3>5. CASE \A x \in 1 .. Len(s) : p # s[x]
      <4>1. ASSUME NEW x \in 1 .. Len(s) PROVE Agree(p, s[x]) /\ s[x] \in Packet
        <5>1. s[x].cnt = p.cnt /\ s[x].len # Err /\ p.len # Err
          BY <3>1 DEF OneHeap, Err
        <5> QED
          BY <3>5, <5>1, PairAgrees
      <4>2. p.off \in Nat /\ p.plen \in Nat /\ End(p) = p.off + p.plen /\ p.plen > 0
        <5>1. Sound(p) /\ p.off \in Nat /\ p.plen \in Nat
          BY PacketType
        <5>2. p.plen > 0
          BY <1>17, <3>1, <5>1 DEF Sound, Err
        <5> QED
          BY <5>1, <5>2 DEF End
      <4>3. \A x \in 1 .. Len(s) : /\ s[x].off \in Nat /\ End(s[x]) \in Nat
                                   /\ s[x].off < End(s[x])
        BY <1>17, NextBehind
      <4>4. CASE p.off = 0
        <5>1. PICK i \in 1 .. Len(s) : \E y \in Directs(s[i].items) : t[k] = s[i].items[y]
          BY <1>3
        <5>2. PICK y \in Directs(s[i].items) : t[k] = s[i].items[y]
          BY <5>1
        <5>3. Agree(p, s[i])
          BY <4>1
        <5>4. End(p) <= s[i].off \/ End(s[i]) <= p.off
          BY <5>3 DEF Agree
        <5>5. p.off < s[i].off
          BY <4>2, <4>3, <4>4, <5>4
        <5>6. r.addr < q.addr
          BY <1>2, <3>2, <5>2, <5>3, <5>5 DEF Agree
        <5> QED
          BY <1>9, <1>11, <2>3, <5>6
      <4>5. CASE r.addr \in p.off .. End(p) - 1
        <5>1. \A x \in q.addr .. q.addr + n - 1 : Holders(h, x) # {}
          <6>1. h.len \in Int
            OBVIOUS
          <6> QED
            BY <1>1, <1>2, <1>10, <6>1, ItemIs
        <5>2. r.addr \in q.addr .. q.addr + n - 1
          BY SMTT(30), <1>9, <1>11, <1>14, <2>3
        <5>3. Holders(h, r.addr) # {}
          BY <5>1, <5>2
        <5>4. PICK x \in DOMAIN s : End(s[x]) > r.addr /\ s[x].off <= r.addr
          <6>1. PICK reach : reach = {j \in DOMAIN s : End(s[j]) > r.addr}
            OBVIOUS
          <6>2. reach # {} /\ \E j \in {Min(reach)} : s[j].off <= r.addr
            BY <5>3, <6>1 DEF Holders
          <6>3. reach \in SUBSET Nat
            BY <6>1
          <6>4. Min(reach) \in reach
            BY <6>2, <6>3, LeastIn
          <6> QED
            BY <6>1, <6>2, <6>4
        <5>5. x \in 1 .. Len(s)
          OBVIOUS
        <5>6. End(p) <= s[x].off \/ End(s[x]) <= p.off
          BY <4>1, <5>5 DEF Agree
        <5>7. r.addr \in Nat
          BY <1>9
        <5> QED
          BY SMTT(30), <4>2, <4>3, <4>5, <5>4, <5>5, <5>6, <5>7
      <4> QED
        BY <3>1, <4>4, <4>5
    <3> QED
      BY <3>4, <3>5
  <2>4. \A x \in ends : e <= x
    <3>1. SUFFICES ASSUME NEW x \in ends PROVE e <= x
      OBVIOUS
    <3>2. CASE x = l
      BY <1>14, <3>2
    <3>3. CASE x # l
      <4>1. PICK r \in SentFor(c) : x = r.addr /\ r.addr > q.addr
        BY <1>7, <3>3
      <4>2. r.addr \in Nat
        BY <1>9
      <4> QED
        BY <1>11, <1>14, <2>3, <4>1, <4>2
    <3> QED
      BY <3>2, <3>3
  <2>5. Min(ends) = e
    BY <1>15, <2>2, <2>4, LeastIs
  <2> QED
    BY <1>11, <1>14, <2>5
<1> QED
  BY <1>16, <1>17

\* An element put in place k of a sequence.
LEMMA InsertedIs ==
  ASSUME NEW S, NEW s \in Seq(S), NEW k \in 1 .. Len(s) + 1, NEW e \in S
  PROVE  /\ InsertAt(s, k, e) \in Seq(S) /\ Len(InsertAt(s, k, e)) = Len(s) + 1
         /\ \A i \in 1 .. Len(s) + 1 :
              InsertAt(s, k, e)[i] = IF i < k THEN s[i] ELSE IF i = k THEN e ELSE s[i - 1]
<1>1. PICK n \in Nat : n = Len(s)
  OBVIOUS
<1>2. PICK a : a = SubSeq(s, 1, k - 1)
  OBVIOUS
<1>3. PICK b : b = SubSeq(s, k, n)
  OBVIOUS
<1>4. a \in Seq(S) /\ Len(a) = k - 1 /\ \A i \in 1 .. k - 1 : a[i] = s[i]
  <2>1. k - 1 <= n /\ k - 1 \in Nat
    BY <1>1
  <2> QED
    BY <1>1, <1>2, <2>1
<1>5. b \in Seq(S) /\ Len(b) = n + 1 - k /\ \A i \in 1 .. n + 1 - k : b[i] = s[i + k - 1]
  <2>1. k \in 1 .. n + 1
    BY <1>1
  <2> QED
    BY <1>1, <1>3, <2>1
<1>6. PICK c : c = a \o <<e>>
  OBVIOUS
<1>7. c \in Seq(S) /\ Len(c) = k /\ c[k] = e /\ \A i \in 1 .. k - 1 : c[i] = s[i]
  BY <1>1, <1>4, <1>6
<1>8. InsertAt(s, k, e) = c \o b
  BY <1>1, <1>2, <1>3, <1>6 DEF InsertAt
<1>9. PICK r : r = c \o b
  OBVIOUS
<1>10. r \in Seq(S) /\ Len(r) = n + 1
  BY <1>1, <1>5, <1>7, <1>9
<1>11. ASSUME NEW i \in 1 .. n + 1
       PROVE  r[i] = IF i < k THEN s[i] ELSE IF i = k THEN e ELSE s[i - 1]
  <2>1. CASE i <= k
    <3>1. r[i] = c[i]
      BY <1>1, <1>5, <1>7, <1>9, <2>1
    <3> QED
      BY <1>1, <1>7, <2>1, <3>1
  <2>2. CASE k < i
    <3>1. r[i] = b[i - k]
      BY <1>1, <1>5, <1>7, <1>9, <2>2
    <3>2. i - k \in 1 .. n + 1 - k /\ i - k + k - 1 = i - 1
      BY <1>1, <2>2
    <3>3. b[i - k] = s[i - 1]
      BY <1>5, <3>2
    <3> QED
      BY <2>2, <3>1, <3>3
  <2> QED
    BY <1>1, <2>1, <2>2
<1> QED
  BY <1>1, <1>8, <1>9, <1>10, <1>11

\* A packet's place is behind those with a smaller offset and before those
\* with a greater one.
LEMMA SlotIs ==
  ASSUME NEW s \in Seq(Packet), s # <<>>, Ordered(s), NEW p \in Packet
  PROVE  /\ Slot(s, p) \in 1 .. Len(s) + 1
         /\ \A i \in 1 .. Len(s) : i < Slot(s, p) => s[i].off <= p.off
         /\ \A i \in 1 .. Len(s) : Slot(s, p) <= i => p.off <= s[i].off
<1>1. PICK n \in Nat : n = Len(s) /\ n # 0
  OBVIOUS
<1>2. PICK o : o = [i \in 1 .. n |-> s[i].off]
  OBVIOUS
<1>3. (\A i \in 1 .. n : o[i] \in Nat) /\ \A i, j \in 1 .. n : i < j => o[i] <= o[j]
  <2>1. ASSUME NEW i \in 1 .. n PROVE o[i] \in Nat
    <3>1. s[i] \in Packet
      BY <1>1
    <3> QED
      BY <1>2, <3>1, PacketType
  <2> QED
    BY <1>1, <1>2, <2>1 DEF Ordered
<1>4. PICK m \in Nat : m = p.off
  BY PacketType
<1>5. 1 \in 1 .. n
  BY <1>1
<1>6. PICK k : k = Slot(s, p)
  OBVIOUS
<1>7. PICK stop : stop = {i \in 2 .. n : o[i] >= m}
  OBVIOUS
<1>8. k = IF m < o[1] THEN 1 ELSE IF stop = {} THEN n + 1 ELSE Min(stop)
  <2>1. {i \in 2 .. Len(s) : s[i].off >= p.off} = stop
    BY <1>1, <1>2, <1>4, <1>7
  <2> QED
    BY <1>1, <1>2, <1>4, <1>5, <1>6, <2>1 DEF Slot
<1>9. /\ k \in 1 .. n + 1
      /\ \A i \in 1 .. n : i < k => o[i] <= m
      /\ \A i \in 1 .. n : k <= i => m <= o[i]
  <2>1. CASE m < o[1]
    <3>1. \A i \in 1 .. n : o[1] <= o[i]
      BY <1>3, <1>5
    <3> QED
      BY <1>3, <1>5, <1>8, <2>1, <3>1
  <2>2. CASE ~(m < o[1]) /\ stop = {}
    <3>1. o[1] <= m
      BY <1>3, <1>5, <2>2
    <3>2. \A i \in 2 .. n : ~(o[i] >= m) /\ i \in 1 .. n
      BY <1>7, <2>2
    <3>3. \A i \in 2 .. n : o[i] <= m
      BY <1>3, <3>2
    <3>4. \A i \in 1 .. n : o[i] <= m
      BY <3>1, <3>3
    <3> QED
      BY <1>8, <2>2, <3>4
  <2>3. CASE ~(m < o[1]) /\ stop # {}
    <3>1. o[1] <= m
      BY <1>3, <1>5, <2>3
    <3>2. stop \in SUBSET Nat
      BY <1>7
    <3>3. k \in stop /\ \A i \in stop : k <= i
      BY <1>8, <2>3, <3>2, LeastIn
    <3>4. k \in 2 .. n /\ k \in 1 .. n /\ o[k] >= m
      BY <1>7, <3>3
    <3>5. ASSUME NEW i \in 1 .. n, i < k PROVE o[i] <= m
      <4>1. CASE i = 1
        BY <3>1, <4>1
      <4>2. CASE i # 1
        <5>1. i \in 2 .. n /\ i \notin stop
          BY <3>3, <3>4, <3>5, <4>2
        <5> QED
          BY <1>3, <1>7, <5>1
      <4> QED
        BY <4>1, <4>2
    <3>6. ASSUME NEW i \in 1 .. n, k <= i PROVE m <= o[i]
      <4>1. k = i \/ k < i
        BY <3>4, <3>6
      <4>2. o[k] <= o[i]
        BY <1>3, <3>4, <4>1
      <4> QED
        BY <1>3, <3>4, <4>2
    <3> QED
      BY <3>4, <3>5, <3>6
  <2> QED
    BY <2>1, <2>2, <2>3
<1> QED
  BY <1>1, <1>2, <1>4, <1>6, <1>9

\* A packet is in a sequence.
In(p, s) == \E i \in 1 .. Len(s) : s[i] = p

\* The chain stays in order, has one packet more, and no packet twice if this
\* one is new.
LEMMA ChainGrows ==
  ASSUME NEW s \in Seq(Packet), s # <<>>, Ordered(s), NEW p \in Packet
  PROVE  LET r == InsertAt(s, Slot(s, p), p)
         IN /\ r \in Seq(Packet) /\ r # <<>> /\ Ordered(r)
            /\ \A q : In(q, r) <=> In(q, s) \/ q = p
            /\ Distinct(s) /\ ~In(p, s) => Distinct(r)
<1>1. PICK n \in Nat : n = Len(s) /\ n # 0
  OBVIOUS
<1>2. PICK k : k = Slot(s, p)
  OBVIOUS
<1>3. /\ k \in 1 .. n + 1
      /\ \A i \in 1 .. n : i < k => s[i].off <= p.off
      /\ \A i \in 1 .. n : k <= i => p.off <= s[i].off
  BY <1>1, <1>2, SlotIs
<1>4. PICK r : r = InsertAt(s, k, p)
  OBVIOUS
<1>5. /\ r \in Seq(Packet) /\ Len(r) = n + 1
      /\ \A i \in 1 .. n + 1 : r[i] = IF i < k THEN s[i] ELSE IF i = k THEN p ELSE s[i - 1]
  <2>1. k \in 1 .. Len(s) + 1
    BY <1>1, <1>3
  <2>2. /\ InsertAt(s, k, p) \in Seq(Packet) /\ Len(InsertAt(s, k, p)) = Len(s) + 1
        /\ \A i \in 1 .. Len(s) + 1 :
             InsertAt(s, k, p)[i] = IF i < k THEN s[i] ELSE IF i = k THEN p ELSE s[i - 1]
    BY <2>1, InsertedIs
  <2> QED
    BY <1>1, <1>4, <2>2
<1>6. \A i \in 1 .. n + 1 : /\ i < k => i \in 1 .. n /\ r[i] = s[i]
                            /\ i = k => r[i] = p
                            /\ k < i => i - 1 \in 1 .. n /\ k <= i - 1 /\ r[i] = s[i - 1]
  BY <1>3, <1>5
<1>7. Ordered(r)
  <2>1. SUFFICES ASSUME NEW i \in 1 .. n + 1, NEW j \in 1 .. n + 1, i < j
                 PROVE  r[i].off <= r[j].off
    BY <1>5 DEF Ordered
  <2>2. \A a, b \in 1 .. n : a < b => s[a].off <= s[b].off
    BY <1>1 DEF Ordered
  <2>3. CASE j < k
    <3>1. i < k /\ i \in 1 .. n /\ j \in 1 .. n /\ r[i] = s[i] /\ r[j] = s[j]
      BY <1>3, <1>6, <2>1, <2>3
    <3> QED
      BY <2>1, <2>2, <3>1
  <2>4. CASE i < k /\ j = k
    BY <1>3, <1>6, <2>4
  <2>5. CASE i < k /\ k < j
    <3>1. i < j - 1 /\ i \in 1 .. n /\ j - 1 \in 1 .. n /\ r[i] = s[i] /\ r[j] = s[j - 1]
      BY <1>3, <1>6, <2>5
    <3> QED
      BY <2>2, <3>1
  <2>6. CASE i = k
    <3>1. j - 1 \in 1 .. n /\ k <= j - 1 /\ r[i] = p /\ r[j] = s[j - 1]
      BY <1>6, <2>1, <2>6
    <3> QED
      BY <1>3, <3>1
  <2>7. CASE k < i
    <3>1. i - 1 < j - 1 /\ i - 1 \in 1 .. n /\ j - 1 \in 1 .. n /\ r[i] = s[i - 1] /\ r[j] = s[j - 1]
      BY <1>3, <1>6, <2>1, <2>7
    <3> QED
      BY <2>2, <3>1
  <2> QED
    BY <1>3, <2>1, <2>3, <2>4, <2>5, <2>6, <2>7
<1>8. ASSUME NEW q PROVE In(q, r) <=> In(q, s) \/ q = p
  <2>1. ASSUME NEW i \in 1 .. n + 1, r[i] = q PROVE In(q, s) \/ q = p
    BY <1>1, <1>3, <1>6, <2>1 DEF In
  <2>2. ASSUME NEW i \in 1 .. n, s[i] = q PROVE In(q, r)
    <3>1. CASE i < k
      <4>1. i \in 1 .. n + 1 /\ r[i] = q
        BY <1>6, <2>2, <3>1
      <4> QED
        BY <1>5, <4>1 DEF In
    <3>2. CASE k <= i
      <4>1. i + 1 \in 1 .. n + 1 /\ k < i + 1 /\ i + 1 - 1 = i
        BY <1>3, <3>2
      <4>2. r[i + 1] = q
        BY <1>6, <2>2, <4>1
      <4> QED
        BY <1>5, <4>1, <4>2 DEF In
    <3> QED
      BY <1>3, <3>1, <3>2
  <2>3. In(p, r)
    BY <1>3, <1>5, <1>6 DEF In
  <2> QED
    BY <1>1, <1>5, <2>1, <2>2, <2>3 DEF In
<1>9. ASSUME Distinct(s), ~In(p, s) PROVE Distinct(r)
  <2>1. SUFFICES ASSUME NEW i \in 1 .. n + 1, NEW j \in 1 .. n + 1, r[i] = r[j], i < j
                 PROVE  FALSE
    <3>1. \A i, j \in 1 .. n + 1 : r[i] = r[j] => i = j
      <4>1. SUFFICES ASSUME NEW i \in 1 .. n + 1, NEW j \in 1 .. n + 1, r[i] = r[j], i # j
                     PROVE  FALSE
        OBVIOUS
      <4>2. i < j \/ j < i
        BY <4>1
      <4> QED
        BY <2>1, <4>1, <4>2
    <3> QED
      BY <1>5, <3>1 DEF Distinct
  <2>2. \A a, b \in 1 .. n : s[a] = s[b] => a = b
    BY <1>1, <1>9 DEF Distinct
  <2>3. \A a \in 1 .. n : s[a] # p
    BY <1>1, <1>9 DEF In
  <2>4. CASE j < k
    <3>1. i \in 1 .. n /\ j \in 1 .. n /\ s[i] = s[j] /\ i # j
      BY <1>3, <1>6, <2>1, <2>4
    <3> QED
      BY <2>2, <3>1
  <2>5. CASE i < k /\ j = k
    BY <1>6, <2>1, <2>3, <2>5
  <2>6. CASE i < k /\ k < j
    <3>1. i \in 1 .. n /\ j - 1 \in 1 .. n /\ s[i] = s[j - 1] /\ i # j - 1
      BY <1>3, <1>6, <2>1, <2>6
    <3> QED
      BY <2>2, <3>1
  <2>7. CASE i = k
    BY <1>6, <2>1, <2>3, <2>7
  <2>8. CASE k < i
    <3>1. i - 1 \in 1 .. n /\ j - 1 \in 1 .. n /\ s[i - 1] = s[j - 1] /\ i - 1 # j - 1
      BY <1>3, <1>6, <2>1, <2>8
    <3> QED
      BY <2>2, <3>1
  <2> QED
    BY <1>3, <2>1, <2>4, <2>5, <2>6, <2>7, <2>8
<1> QED
  BY <1>2, <1>4, <1>5, <1>7, <1>8, <1>9

(***************************************************************************)
(* The invariant                                                           *)
(***************************************************************************)
HeapType == [cnt : Nat \cup {Err}, len : Nat \cup {Err}, has_all : {Err, 0, 1},
             pkts : Seq(Packet), items : Seq(ItemType), valid : BOOLEAN]

AllTell(c) == IsInjective(c) /\ \A k \in DOMAIN c : c[k].len # Err

\* The chain has the packets that came, in order, and none twice unless it
\* came twice.
Chained(h, c) ==
  /\ h \in HeapType /\ c \in Seq(Packet)
  /\ \A q : In(q, h.pkts) <=> In(q, c)
  /\ Ordered(h.pkts)
  /\ IsInjective(c) => Distinct(h.pkts)
  /\ \A i \in 1 .. Len(h.pkts) : h.pkts[i].cnt = h.cnt
  /\ h.pkts = <<>> => c = <<>> /\ h.cnt = Err

\* The length is the sender's, and the answer is up to date.
Told(h, c) ==
  AllTell(c) /\ c # <<>> => /\ h.len = c[1].len
                            /\ h.has_all = IF Complete(h.pkts, h.len) THEN 1 ELSE 0

\* An item with all its bytes is the sender's; before the count is known
\* there are none.
Right(h, c, i) ==
  i.valid /\ i.len # Err => /\ h.cnt # Err
                            /\ AllTell(c) /\ c # <<>> =>
                                 <<i.from, i.len>> = SentIn(h.cnt, c[1].len, i.id)

HeapInv(h, c) ==
  Chained(h, c) /\ Told(h, c) /\ \A k \in 1 .. Len(h.items) : Right(h, c, h.items[k])

\* Packets that all tell the length tell the same.
LEMMA OneLength ==
  ASSUME NEW h, NEW c, Chained(h, c), AllTell(c), c # <<>>
  PROVE  c[1].len \in Nat /\ OneHeap(h.pkts, h.cnt, c[1].len) /\ Distinct(h.pkts) /\ h.pkts # <<>>
<1>1. /\ h.pkts \in Seq(Packet) /\ c \in Seq(Packet)
      /\ \A i \in 1 .. Len(h.pkts) : h.pkts[i].cnt = h.cnt
      /\ \A q : In(q, h.pkts) <=> In(q, c)
  BY DEF Chained, HeapType
<1>2. PICK s \in Seq(Packet) : s = h.pkts
  BY <1>1
<1>3. 1 \in 1 .. Len(c) /\ c[1] \in Packet /\ c[1].len # Err
  BY <1>1 DEF AllTell
<1>4. c[1].len \in Nat
  BY <1>3, PacketType
<1>5. c[1].cnt = h.cnt
  <2>1. In(c[1], h.pkts)
    BY <1>1, <1>3 DEF In
  <2> QED
    BY <1>1, <2>1 DEF In
<1>6. ASSUME NEW i \in 1 .. Len(s) PROVE s[i].cnt = h.cnt /\ s[i].len = c[1].len
  <2>1. s[i] \in Packet /\ s[i].cnt = h.cnt
    BY <1>1, <1>2
  <2>2. In(s[i], c)
    BY <1>1, <1>2 DEF In
  <2>3. s[i].len # Err
    BY <1>1, <2>2 DEF In, AllTell
  <2>4. s[i] # c[1] => Agree(s[i], c[1])
    BY <1>3, <1>5, <2>1, <2>3, PairAgrees
  <2> QED
    BY <2>1, <2>4 DEF Agree
<1>7. OneHeap(h.pkts, h.cnt, c[1].len)
  BY <1>2, <1>6 DEF OneHeap
<1>8. Distinct(h.pkts) /\ h.pkts # <<>>
  BY DEF Chained, AllTell
<1> QED
  BY <1>4, <1>7, <1>8

\* What asking the heap changes.
LEMMA AskedIs ==
  ASSUME NEW h \in HeapType
  PROVE  /\ GotAll(h) \in HeapType
         /\ GotAll(h).cnt = h.cnt /\ GotAll(h).len = h.len /\ GotAll(h).pkts = h.pkts
         /\ GotAll(h).items = h.items /\ GotAll(h).valid = h.valid
         /\ GotAll(h).has_all = IF h.len = Err \/ h.pkts = <<>> \/ h.has_all # Err
                                THEN h.has_all
                                ELSE IF Complete(h.pkts, h.len) THEN 1 ELSE 0
BY DEF GotAll, HeapType

\* A heap's packets and items decide two parts of the invariant.
LEMMA SamePackets ==
  ASSUME NEW h, NEW c, NEW g \in HeapType, g.cnt = h.cnt, g.pkts = h.pkts
  PROVE  /\ Chained(h, c) => Chained(g, c)
         /\ \A i : Right(h, c, i) => Right(g, c, i)
BY DEF Chained, Right

\* spead_heap_got_all_packets keeps the invariant.
LEMMA AskedKeeps ==
  ASSUME NEW h, NEW c, HeapInv(h, c)
  PROVE  HeapInv(GotAll(h), c)
<1>1. h \in HeapType
  BY DEF HeapInv, Chained
<1>2. PICK g : g = GotAll(h)
  OBVIOUS
<1>3. /\ g \in HeapType /\ g.cnt = h.cnt /\ g.len = h.len /\ g.pkts = h.pkts /\ g.items = h.items
      /\ h.has_all # Err => g.has_all = h.has_all
  BY <1>1, <1>2, AskedIs
<1>4. Chained(g, c) /\ \A i : Right(h, c, i) => Right(g, c, i)
  BY <1>3, SamePackets DEF HeapInv
<1>5. Told(g, c)
  BY <1>3 DEF HeapInv, Told, Err
<1> QED
  BY <1>2, <1>3, <1>4, <1>5 DEF HeapInv

\* The heap an added packet leaves, before it is asked.
Taken(h, p) ==
  [h EXCEPT !.cnt = IF h.cnt < 0 THEN p.cnt ELSE @,
            !.pkts = IF h.cnt < 0 THEN <<p>> ELSE InsertAt(@, Slot(@, p), p),
            !.len = IF p.len # Err THEN p.len ELSE @,
            !.has_all = Err]

\* spead_heap_add_packet takes a packet, then asks.
LEMMA AddedIs == \A h, p : Added(h, p) = GotAll(Taken(h, p))
BY DEF Added, Taken

\* What taking a packet changes.
LEMMA TakenIs ==
  ASSUME NEW h \in HeapType, NEW p \in Packet, NEW s \in Seq(Packet),
         s = IF h.cnt < 0 THEN <<p>> ELSE InsertAt(h.pkts, Slot(h.pkts, p), p)
  PROVE  /\ Taken(h, p) \in HeapType
         /\ Taken(h, p).cnt = (IF h.cnt < 0 THEN p.cnt ELSE h.cnt)
         /\ Taken(h, p).pkts = s /\ Taken(h, p).items = h.items
         /\ Taken(h, p).len = (IF p.len # Err THEN p.len ELSE h.len)
         /\ Taken(h, p).has_all = Err
<1>1. p.cnt \in Nat \cup {Err} /\ p.len \in Nat \cup {Err}
  BY PacketType
<1> QED
  BY <1>1 DEF Taken, HeapType

\* A new heap has the packet that makes it.
LEMMA FreshKeeps ==
  ASSUME NEW h, NEW c, HeapInv(h, c), h.cnt < 0, NEW p \in Packet
  PROVE  HeapInv(Added(h, p), <<p>>)
<1>1. h \in HeapType /\ h.cnt = Err
  BY DEF HeapInv, Chained, HeapType, Err
<1>2. PICK g : g = Taken(h, p)
  OBVIOUS
<1>3. PICK d : d = <<p>>
  OBVIOUS
<1>4. d \in Seq(Packet) /\ Len(d) = 1 /\ d[1] = p /\ d # <<>>
  BY <1>3
<1>5. /\ g \in HeapType /\ g.cnt = p.cnt /\ g.pkts = d /\ g.items = h.items
      /\ g.len = (IF p.len # Err THEN p.len ELSE h.len) /\ g.has_all = Err
  BY <1>1, <1>2, <1>3, <1>4, TakenIs
<1>6. PICK e : e = GotAll(g)
  OBVIOUS
<1>7. /\ e \in HeapType /\ e.cnt = p.cnt /\ e.pkts = d /\ e.items = h.items /\ e.len = g.len
      /\ e.has_all = IF g.len = Err THEN Err ELSE IF Complete(d, g.len) THEN 1 ELSE 0
  BY <1>4, <1>5, <1>6, AskedIs
<1>8. Chained(e, d)
  <2>1. Ordered(d) /\ Distinct(d)
    BY <1>4 DEF Ordered, Distinct
  <2>0. e.pkts = d
    BY <1>7
  <2>2. \A q : In(q, e.pkts) <=> In(q, d)
    BY <2>0, Zenon DEF In
  <2>3. \A i \in 1 .. Len(e.pkts) : e.pkts[i].cnt = e.cnt
    <3>1. \A i \in 1 .. Len(d) : d[i].cnt = p.cnt
      BY <1>4
    <3>2. e.cnt = p.cnt
      BY <1>7
    <3> QED
      BY <2>0, <3>1, <3>2, Zenon
  <2> QED
    BY <1>4, <1>7, <2>1, <2>2, <2>3 DEF Chained
<1>9. Told(e, d)
  <2>1. SUFFICES ASSUME AllTell(d) PROVE e.len = p.len /\ p.len # Err /\ g.len = p.len
    BY <1>4, <1>7 DEF Told
  <2> QED
    BY <1>4, <1>5, <1>7, <2>1 DEF AllTell
<1>10. ASSUME NEW k \in 1 .. Len(e.items) PROVE Right(e, d, e.items[k])
  <2>1. Right(h, c, e.items[k])
    BY <1>7 DEF HeapInv
  <2> QED
    BY <1>1, <2>1 DEF Right
<1> QED
  BY <1>2, <1>3, <1>6, <1>8, <1>9, <1>10, AddedIs DEF HeapInv

\* What holds of all packets that came held of those before.
LEMMA AppendTells ==
  ASSUME NEW c \in Seq(Packet), NEW p \in Packet
  PROVE  /\ IsInjective(Append(c, p)) => IsInjective(c) /\ ~In(p, c)
         /\ AllTell(Append(c, p)) => AllTell(c) /\ p.len # Err
         /\ c # <<>> => Append(c, p)[1] = c[1]
         /\ Append(c, p) # <<>> /\ Append(c, p) \in Seq(Packet)
         /\ \A q : In(q, Append(c, p)) <=> In(q, c) \/ q = p
<1>1. PICK n \in Nat : n = Len(c)
  OBVIOUS
<1>2. PICK d : d = Append(c, p)
  OBVIOUS
<1>3. /\ d \in Seq(Packet) /\ Len(d) = n + 1 /\ DOMAIN d = 1 .. n + 1 /\ DOMAIN c = 1 .. n
      /\ d[n + 1] = p /\ \A i \in 1 .. n : d[i] = c[i]
  BY <1>1, <1>2
<1>4. \A i \in 1 .. n : i \in 1 .. n + 1 /\ i # n + 1
  BY <1>1
<1>5. n + 1 \in 1 .. n + 1
  BY <1>1
<1>6. IsInjective(d) => IsInjective(c) /\ ~In(p, c)
  BY <1>1, <1>3, <1>4, <1>5 DEF IsInjective, In
<1>7. AllTell(d) => AllTell(c) /\ p.len # Err
  BY <1>3, <1>4, <1>5, <1>6 DEF AllTell
<1>8. c # <<>> => d[1] = c[1]
  <2>1. c # <<>> => 1 \in 1 .. n
    BY <1>1
  <2> QED
    BY <1>3, <2>1
<1>9. \A i \in 1 .. n + 1 : i \in 1 .. n \/ i = n + 1
  BY <1>1
<1>10. ASSUME NEW q PROVE In(q, d) <=> In(q, c) \/ q = p
  <2>1. In(q, d) => In(q, c) \/ q = p
    BY <1>1, <1>3, <1>9 DEF In
  <2>2. In(q, c) => In(q, d)
    BY <1>1, <1>3, <1>4 DEF In
  <2>3. In(p, d)
    BY <1>3, <1>5 DEF In
  <2> QED
    BY <2>1, <2>2, <2>3
<1>11. d # <<>>
  BY <1>1, <1>3
<1> QED
  BY <1>2, <1>3, <1>6, <1>7, <1>8, <1>10, <1>11

\* A packet of the heap is put in its place.
LEMMA AddKeeps ==
  ASSUME NEW h, NEW c, HeapInv(h, c), NEW p \in Packet, h.cnt >= 0, h.cnt = p.cnt
  PROVE  HeapInv(Added(h, p), Append(c, p))
<1>1. h \in HeapType /\ c \in Seq(Packet) /\ Chained(h, c) /\ Told(h, c)
  BY DEF HeapInv, Chained
<1>2. h.cnt \in Nat /\ h.pkts \in Seq(Packet) /\ h.pkts # <<>> /\ Ordered(h.pkts)
  BY <1>1 DEF Chained, HeapType, Err
<1>3. PICK s : s = InsertAt(h.pkts, Slot(h.pkts, p), p)
  OBVIOUS
<1>4. /\ s \in Seq(Packet) /\ s # <<>> /\ Ordered(s)
      /\ \A q : In(q, s) <=> In(q, h.pkts) \/ q = p
      /\ Distinct(h.pkts) /\ ~In(p, h.pkts) => Distinct(s)
  <2>1. LET r == InsertAt(h.pkts, Slot(h.pkts, p), p)
        IN /\ r \in Seq(Packet) /\ r # <<>> /\ Ordered(r)
           /\ \A q : In(q, r) <=> In(q, h.pkts) \/ q = p
           /\ Distinct(h.pkts) /\ ~In(p, h.pkts) => Distinct(r)
    BY <1>2, ChainGrows
  <2> QED
    BY <1>3, <2>1
<1>5. PICK g : g = Taken(h, p)
  OBVIOUS
<1>6. /\ g \in HeapType /\ g.cnt = h.cnt /\ g.pkts = s /\ g.items = h.items
      /\ g.len = (IF p.len # Err THEN p.len ELSE h.len) /\ g.has_all = Err
  BY <1>1, <1>2, <1>3, <1>4, <1>5, TakenIs
<1>7. PICK e : e = GotAll(g)
  OBVIOUS
<1>8. /\ e \in HeapType /\ e.cnt = h.cnt /\ e.pkts = s /\ e.items = h.items /\ e.len = g.len
      /\ e.has_all = IF g.len = Err THEN Err ELSE IF Complete(s, g.len) THEN 1 ELSE 0
  BY <1>4, <1>6, <1>7, AskedIs
<1>9. PICK d : d = Append(c, p)
  OBVIOUS
<1>10. /\ IsInjective(d) => IsInjective(c) /\ ~In(p, c)
       /\ AllTell(d) => AllTell(c) /\ p.len # Err
       /\ c # <<>> => d[1] = c[1]
       /\ d # <<>> /\ d \in Seq(Packet)
       /\ \A q : In(q, d) <=> In(q, c) \/ q = p
  BY <1>1, <1>9, AppendTells
<1>11. (\A q : In(q, h.pkts) <=> In(q, c)) /\ (IsInjective(c) => Distinct(h.pkts))
  BY <1>1 DEF Chained
<1>12. c # <<>>
  <2>1. In(h.pkts[1], h.pkts)
    BY <1>2 DEF In
  <2>2. In(h.pkts[1], c)
    BY <1>11, <2>1
  <2> QED
    BY <2>2 DEF In
<1>13. Chained(e, d)
  <2>1. \A q : In(q, s) <=> In(q, d)
    BY <1>4, <1>10, <1>11
  <2>2. IsInjective(d) => Distinct(s)
    BY <1>4, <1>10, <1>11
  <2>3. ASSUME NEW i \in 1 .. Len(s) PROVE s[i].cnt = h.cnt
    <3>1. In(s[i], s)
      BY DEF In
    <3>2. In(s[i], h.pkts) \/ s[i] = p
      BY <1>4, <3>1
    <3> QED
      BY <1>1, <3>2 DEF In, Chained
  <2> QED
    BY <1>4, <1>8, <1>10, <2>1, <2>2, <2>3 DEF Chained
<1>14. ASSUME AllTell(d) PROVE AllTell(c) /\ d[1] = c[1] /\ g.len = c[1].len /\ g.len # Err
  <2>1. AllTell(c) /\ p.len # Err /\ d[1] = c[1]
    BY <1>10, <1>12, <1>14
  <2>2. g.len = p.len
    BY <1>6, <2>1
  <2>3. OneHeap(e.pkts, e.cnt, d[1].len)
    BY <1>10, <1>13, <1>14, OneLength
  <2>4. In(p, s)
    BY <1>4
  <2>5. p.len = d[1].len
    BY <1>8, <2>3, <2>4 DEF OneHeap, In
  <2> QED
    BY <2>1, <2>2, <2>5
<1>15. Told(e, d)
  BY <1>8, <1>14 DEF Told
<1>16. ASSUME NEW k \in 1 .. Len(e.items) PROVE Right(e, d, e.items[k])
  <2>1. Right(h, c, e.items[k])
    BY <1>8 DEF HeapInv
  <2> QED
    BY <1>8, <1>12, <1>14, <2>1 DEF Right
<1> QED
  BY <1>5, <1>7, <1>9, <1>13, <1>15, <1>16, AddedIs DEF HeapInv

\* The heap with the length it takes itself to have.
KnownHeap(h) == [h EXCEPT !.len = IF @ = Err THEN End(Last(h.pkts)) ELSE @]

\* A heap that knew its length stays as it is.
LEMMA KnownIs ==
  ASSUME NEW h \in HeapType, h.pkts # <<>>
  PROVE  /\ KnownHeap(h) \in HeapType
         /\ KnownHeap(h).cnt = h.cnt /\ KnownHeap(h).pkts = h.pkts
         /\ KnownHeap(h).items = h.items /\ KnownHeap(h).has_all = h.has_all
         /\ KnownHeap(h).valid = h.valid
         /\ KnownHeap(h).len \in Nat /\ (h.len # Err => KnownHeap(h).len = h.len)
<1>1. PICK s \in Seq(Packet) : s = h.pkts /\ s # <<>>
  BY DEF HeapType
<1>2. Last(s) \in Packet
  BY <1>1 DEF Last
<1>3. End(Last(s)) \in Nat
  BY <1>2, PacketType
<1> QED
  BY <1>1, <1>3 DEF KnownHeap, HeapType

\* The items made of the chain.
LEMMA MadeRight ==
  ASSUME NEW h, NEW c, HeapInv(h, c), h.pkts # <<>>,
         NEW j \in 1 .. Len(Items(KnownHeap(h)))
  PROVE  Right(h, c, Items(KnownHeap(h))[j])
<1>1. h \in HeapType /\ Chained(h, c) /\ Told(h, c)
  BY DEF HeapInv, Chained
<1>2. PICK g : g = KnownHeap(h)
  OBVIOUS
<1>3. /\ g.pkts = h.pkts /\ g.cnt = h.cnt /\ g.len \in Nat /\ (h.len # Err => g.len = h.len)
      /\ g.pkts \in Seq(Packet)
  BY <1>1, <1>2, KnownIs DEF HeapType
<1>4. PICK s \in Seq(Packet) : s = h.pkts /\ s # <<>> /\ s = g.pkts
  BY <1>3
<1>5. PICK t : t = Pointers(g)
  OBVIOUS
<1>6. Gathers(t, s, Len(s)) /\ t \in Seq(Pointer)
  <2>1. Gathers(Pointers(g), g.pkts, Len(g.pkts))
    BY <1>3, <1>4, PointersAre
  <2>2. Gathers(t, s, Len(s))
    BY <1>4, <1>5, <2>1, Zenon
  <2> QED
    BY <2>2 DEF Gathers
<1>7. PICK k \in 1 .. Len(t) : Items(g)[j] = Item(g, t, k)
  <2>1. g.len \in Int /\ g.pkts # <<>> /\ j \in 1 .. Len(Items(g))
    BY <1>2, <1>3, <1>4
  <2>2. \E k \in 1 .. Len(Pointers(g)) : Items(g)[j] = Item(g, Pointers(g), k)
    BY <1>3, <2>1, ItemsAre
  <2> QED
    BY <1>5, <2>2
<1>8. PICK i : i = Item(g, t, k)
  OBVIOUS
<1>9. /\ i.id = t[k].id /\ i.from = t[k].addr
      /\ t[k].direct => i.len = Length(g, t, k)
      /\ ~t[k].direct => i.len = Err
  <2>1. g.len \in Int
    BY <1>3
  <2> QED
    BY <1>6, <1>8, <2>1, ItemIs
<1>10. SUFFICES ASSUME i.valid, i.len # Err
                PROVE  /\ h.cnt # Err
                       /\ AllTell(c) /\ c # <<>> =>
                            <<i.from, i.len>> = SentIn(h.cnt, c[1].len, i.id)
  BY <1>2, <1>7, <1>8 DEF Right
<1>11. t[k].direct /\ i.len = Length(g, t, k)
  <2>1. t[k] \in Pointer
    BY <1>6
  <2>2. t[k].direct
    BY <1>9, <1>10
  <2> QED
    BY <1>9, <2>2
<1>12. h.cnt # Err
  <2>1. PICK a \in 1 .. Len(s) : \E y \in DOMAIN s[a].items : t[k] = s[a].items[y]
    BY <1>6 DEF Gathers
  <2>2. PICK y \in DOMAIN s[a].items : t[k] = s[a].items[y]
    BY <2>1
  <2>3. y \in Directs(s[a].items)
    BY <1>11, <2>2 DEF Directs
  <2>4. s[a] \in Packet /\ Sound(s[a])
    BY SMTT(30), PacketType
  <2>5. s[a].cnt # Err
    BY <2>3, <2>4 DEF Sound
  <2> QED
    BY <1>1, <1>4, <2>5 DEF Chained
<1>13. ASSUME AllTell(c), c # <<>>
       PROVE  <<i.from, i.len>> = SentIn(h.cnt, c[1].len, i.id)
  <2>1. c[1].len \in Nat /\ OneHeap(s, h.cnt, c[1].len) /\ Distinct(s)
    BY <1>1, <1>4, <1>13, OneLength
  <2>2. g.len = c[1].len
    BY <1>1, <1>3, <1>13, <2>1 DEF Told, Err
  <2>3. h.cnt \in Nat
    BY <1>1, <1>12 DEF HeapType
  <2>4. Ordered(s)
    BY <1>1, <1>4 DEF Chained
  <2>5. PICK l \in Nat : l = c[1].len
    BY <2>1
  <2>6. PICK n \in Nat : n = h.cnt
    BY <2>3
  <2>7. Item(g, t, k).valid
    BY <1>8, <1>10
  <2>8. OneHeap(s, n, l) /\ g.len = l /\ g.pkts = s
    BY <1>4, <2>1, <2>2, <2>5, <2>6
  <2>9. <<t[k].addr, Length(g, t, k)>> = SentIn(n, l, t[k].id)
    BY <1>4, <1>5, <1>11, <2>1, <2>4, <2>7, <2>8, ItemSent
  <2> QED
    BY <1>9, <1>11, <2>5, <2>6, <2>9
<1> QED
  BY <1>12, <1>13

\* A heap with other items, some of those just made.
LEMMA MakesItems ==
  ASSUME NEW h, NEW c, HeapInv(h, c), h.pkts # <<>>, NEW items \in Seq(ItemType),
         Len(items) <= Len(Items(KnownHeap(h))),
         \A j \in 1 .. Len(items) : items[j] = Items(KnownHeap(h))[j],
         NEW g \in HeapType, g.cnt = h.cnt, g.pkts = h.pkts, g.has_all = h.has_all,
         g.len = KnownHeap(h).len, g.items = items
  PROVE  HeapInv(g, c)
<1>1. h \in HeapType /\ Told(h, c) /\ Chained(h, c)
  BY DEF HeapInv, Chained
<1>2. h.len # Err => g.len = h.len
  BY <1>1, KnownIs
<1>3. Chained(g, c) /\ \A i : Right(h, c, i) => Right(g, c, i)
  BY <1>1, SamePackets
<1>4. Told(g, c)
  <2>1. SUFFICES ASSUME AllTell(c), c # <<>> PROVE h.len # Err
    BY <1>1, <1>2 DEF Told
  <2>2. c[1].len \in Nat
    BY <1>1, <2>1, OneLength
  <2> QED
    BY <1>1, <2>1, <2>2 DEF Told, Err
<1>5. ASSUME NEW j \in 1 .. Len(items) PROVE Right(g, c, items[j])
  <2>1. PICK made : made = Items(KnownHeap(h))
    OBVIOUS
  <2>2. made \in Seq(ItemType)
    <3>1. KnownHeap(h).len \in Int /\ KnownHeap(h).pkts \in Seq(Packet) /\ KnownHeap(h).pkts # <<>>
      BY <1>1, KnownIs DEF HeapType
    <3> QED
      BY <2>1, <3>1, ItemsAre
  <2>3. j \in 1 .. Len(made)
    BY <2>1, <2>2
  <2>4. Right(h, c, made[j])
    BY <2>1, <2>3, MadeRight
  <2> QED
    BY <1>3, <2>1, <2>4
<1> QED
  BY <1>3, <1>4, <1>5 DEF HeapInv

\* spead_heap_finalize, with that heap named.
LEMMA FinalizedIs ==
  ASSUME NEW h
  PROVE  Finalized(h) = [KnownHeap(h) EXCEPT
           !.items = Items(KnownHeap(h)),
           !.valid = IF Items(KnownHeap(h)) = <<>> THEN @
                     ELSE \A j \in DOMAIN Items(KnownHeap(h)) : Items(KnownHeap(h))[j].valid]
BY DEF Finalized, KnownHeap

\* spead_heap_finalize keeps the invariant, wherever malloc fails.
LEMMA FinalizeKeeps ==
  ASSUME NEW h, NEW c, HeapInv(h, c), h.pkts # <<>>
  PROVE  /\ HeapInv(Finalized(h), c)
         /\ \A n \in 0 .. Len(Finalized(h).items) - 1, v \in BOOLEAN :
              HeapInv([Finalized(h) EXCEPT !.items = SubSeq(Finalized(h).items, 1, n), !.valid = v], c)
<1>1. h \in HeapType
  BY DEF HeapInv, Chained
<1>2. PICK g : g = KnownHeap(h)
  OBVIOUS
<1>3. /\ g \in HeapType /\ g.cnt = h.cnt /\ g.pkts = h.pkts /\ g.has_all = h.has_all
      /\ g.len \in Nat
  BY <1>1, <1>2, KnownIs
<1>4. PICK made : made = Items(g)
  OBVIOUS
<1>5. made \in Seq(ItemType)
  <2>1. g.len \in Int /\ g.pkts \in Seq(Packet) /\ g.pkts # <<>>
    BY <1>3 DEF HeapType
  <2> QED
    BY <1>4, <2>1, ItemsAre
<1>6. PICK b : b = IF made = <<>> THEN g.valid ELSE \A j \in DOMAIN made : made[j].valid
  OBVIOUS
<1>7. b \in BOOLEAN
  <2>1. g.valid \in BOOLEAN
    BY <1>3 DEF HeapType
  <2>2. (\A j \in DOMAIN made : made[j].valid) \in BOOLEAN
    OBVIOUS
  <2> QED
    BY <1>6, <2>1, <2>2
<1>8. PICK f : f = Finalized(h)
  OBVIOUS
<1>9. f = [g EXCEPT !.items = made, !.valid = b]
  BY <1>2, <1>4, <1>6, <1>8, FinalizedIs
<1>10. /\ f \in HeapType /\ f.cnt = g.cnt /\ f.pkts = g.pkts /\ f.has_all = g.has_all
       /\ f.len = g.len /\ f.items = made
  BY <1>3, <1>5, <1>7, <1>9 DEF HeapType
<1>11. HeapInv(f, c)
  BY <1>2, <1>3, <1>4, <1>5, <1>10, MakesItems
<1>12. ASSUME NEW n \in 0 .. Len(f.items) - 1, NEW v \in BOOLEAN
       PROVE  HeapInv([f EXCEPT !.items = SubSeq(f.items, 1, n), !.valid = v], c)
  <2>1. PICK part : part = SubSeq(made, 1, n)
    OBVIOUS
  <2>2. part \in Seq(ItemType) /\ Len(part) = n /\ \A j \in 1 .. n : part[j] = made[j]
    BY <1>5, <1>10, <2>1
  <2>3. PICK e : e = [f EXCEPT !.items = part, !.valid = v]
    OBVIOUS
  <2>4. /\ e \in HeapType /\ e.cnt = f.cnt /\ e.pkts = f.pkts /\ e.has_all = f.has_all
        /\ e.len = f.len /\ e.items = part
    BY <1>10, <2>2, <2>3 DEF HeapType
  <2>5. n <= Len(made)
    BY <1>5, <1>10
  <2>6. HeapInv(e, c)
    BY SMTT(30), <1>2, <1>3, <1>4, <1>10, <2>2, <2>4, <2>5, MakesItems
  <2> QED
    BY <1>10, <2>1, <2>3, <2>6
<1> QED
  BY <1>8, <1>11, <1>12

(***************************************************************************)
(* The steps                                                               *)
(***************************************************************************)
LEMMA NoHeapHolds == HeapInv(NoHeap, <<>>)
<1>1. PICK h : h = NoHeap
  OBVIOUS
<1>2. PICK e : e = <<>>
  OBVIOUS
<1>3. e \in Seq(Packet) /\ e \in Seq(ItemType) /\ Len(e) = 0
  BY <1>2
<1>4. h.cnt = Err /\ h.pkts = e /\ h.items = e /\ h \in HeapType
  BY <1>1, <1>2, <1>3 DEF NoHeap, HeapType
<1>5. Ordered(e) /\ Distinct(e)
  BY <1>3 DEF Ordered, Distinct
<1>6. Chained(h, e)
  BY <1>2, <1>3, <1>4, <1>5 DEF Chained
<1>7. Told(h, e)
  BY <1>2 DEF Told
<1> QED
  BY <1>1, <1>2, <1>3, <1>4, <1>6, <1>7 DEF HeapInv

\* Every step keeps the invariant.
LEMMA HeapInvStep ==
  ASSUME HeapInv(heap, came), [HeapNext]_svars
  PROVE  HeapInv(heap', came')
<1>1. CASE AddPacket
  <2>1. PICK items \in Wire : /\ items # <<>>
                              /\ heap.cnt < 0 \/ heap.cnt = Unpack(items).cnt
                              /\ heap' = Added(heap, Unpack(items))
                              /\ came' = IF heap.cnt < 0 THEN <<Unpack(items)>>
                                         ELSE Append(came, Unpack(items))
    BY <1>1 DEF AddPacket
  <2>2. PICK p : p = Unpack(items)
    OBVIOUS
  <2>3. p \in Packet
    BY <2>1, <2>2 DEF Packet
  <2>4. CASE heap.cnt < 0
    <3>1. heap' = Added(heap, p) /\ came' = <<p>>
      BY <2>1, <2>2, <2>4
    <3> QED
      BY <2>3, <2>4, <3>1, FreshKeeps
  <2>5. CASE ~(heap.cnt < 0)
    <3>1. heap' = Added(heap, p) /\ came' = Append(came, p) /\ heap.cnt = p.cnt
      BY <2>1, <2>2, <2>5
    <3>2. heap.cnt >= 0
      <4>1. heap.cnt \in Nat \cup {Err}
        BY DEF HeapInv, Chained, HeapType
      <4> QED
        BY <2>5, <4>1 DEF Err
    <3> QED
      BY <2>3, <3>1, <3>2, AddKeeps
  <2> QED
    BY <2>4, <2>5
<1>2. CASE Refuse \/ UNCHANGED svars
  BY <1>2 DEF Refuse, svars
<1>3. CASE Query
  BY <1>3, AskedKeeps DEF Query
<1>4. CASE Finalize
  BY <1>4, FinalizeKeeps DEF Finalize
<1>5. CASE FinalizeFails
  <2>1. PICK h : h = Finalized(heap)
    OBVIOUS
  <2>2. heap.pkts # <<>> /\ came' = came
    BY <1>5 DEF FinalizeFails
  <2>3. PICK k \in 0 .. Len(h.items) - 1 :
          heap' = [h EXCEPT !.items = SubSeq(h.items, 1, k),
                            !.valid = IF k = 0 THEN heap.valid
                                      ELSE \A j \in DOMAIN SubSeq(h.items, 1, k) :
                                             SubSeq(h.items, 1, k)[j].valid]
    BY <1>5, <2>1 DEF FinalizeFails
  <2>4. PICK v : v = IF k = 0 THEN heap.valid
                     ELSE \A j \in DOMAIN SubSeq(h.items, 1, k) : SubSeq(h.items, 1, k)[j].valid
    OBVIOUS
  <2>5. v \in BOOLEAN
    <3>1. heap.valid \in BOOLEAN
      BY DEF HeapInv, Chained, HeapType
    <3>2. (\A j \in DOMAIN SubSeq(h.items, 1, k) : SubSeq(h.items, 1, k)[j].valid) \in BOOLEAN
      OBVIOUS
    <3> QED
      BY <2>4, <3>1, <3>2
  <2>6. heap' = [h EXCEPT !.items = SubSeq(h.items, 1, k), !.valid = v]
    BY <2>3, <2>4
  <2>7. \A n \in 0 .. Len(h.items) - 1, w \in BOOLEAN :
          HeapInv([h EXCEPT !.items = SubSeq(h.items, 1, n), !.valid = w], came)
    BY <2>1, <2>2, FinalizeKeeps
  <2>8. HeapInv([h EXCEPT !.items = SubSeq(h.items, 1, k), !.valid = v], came)
    BY <2>5, <2>7
  <2> QED
    BY <2>2, <2>6, <2>8
<1>6. CASE Wipe
  BY <1>6, NoHeapHolds DEF Wipe
<1> QED
  BY <1>1, <1>2, <1>3, <1>4, <1>5, <1>6 DEF HeapNext

\* The invariant is as strong as the property.
LEMMA HonestHolds ==
  ASSUME HeapInv(heap, came) PROVE HeapHonest
<1>1. SUFFICES ASSUME came # <<>>, heap.cnt >= 0, Clean, \E p \in ToSet(came) : p.off = 0
               PROVE  /\ heap.has_all = (IF AllCame THEN 1 ELSE 0)
                      /\ \A k \in DOMAIN heap.items :
                           heap.items[k].valid /\ heap.items[k].len # Err =>
                             <<heap.items[k].from, heap.items[k].len>> = SentItem(heap.items[k].id)
  BY DEF HeapHonest
<1>2. AllTell(came) /\ Chained(heap, came) /\ Told(heap, came) /\ came \in Seq(Packet)
  BY <1>1 DEF HeapInv, Chained, Clean, AllTell
<1>3. PICK s \in Seq(Packet) : s = heap.pkts
  BY <1>2 DEF Chained, HeapType
<1>4. PICK l \in Nat : l = came[1].len
  BY <1>1, <1>2, OneLength
<1>5. OneHeap(s, heap.cnt, l) /\ Distinct(s) /\ Ordered(s) /\ s # <<>>
  <2>1. OneHeap(heap.pkts, heap.cnt, came[1].len) /\ Distinct(heap.pkts) /\ heap.pkts # <<>>
    BY <1>1, <1>2, OneLength
  <2> QED
    BY <1>2, <1>3, <1>4, <2>1 DEF Chained
<1>6. \A q : q \in ToSet(came) <=> In(q, s)
  <2>1. \A q : q \in ToSet(came) <=> In(q, came)
    BY <1>2 DEF ToSet, In
  <2> QED
    BY <1>2, <1>3, <2>1 DEF Chained
<1>7. AllCame <=> Covered(s) = 0 .. l - 1
  <2>1. \A x : x \in UNION {p.off .. End(p) - 1 : p \in ToSet(came)} <=> x \in Covered(s)
    BY <1>6 DEF In, Covered
  <2>2. UNION {p.off .. End(p) - 1 : p \in ToSet(came)} = Covered(s)
    BY <2>1
  <2> QED
    BY <1>4, <2>2 DEF AllCame
<1>8. \E i \in 1 .. Len(s) : s[i].off = 0
  BY <1>1, <1>6 DEF In
<1>9. Complete(s, l) <=> Covered(s) = 0 .. l - 1
  BY <1>5, <1>8, WalkTells
<1>10. heap.has_all = (IF Complete(s, l) THEN 1 ELSE 0)
  BY <1>1, <1>2, <1>3, <1>4 DEF Told
<1>11. heap.has_all = (IF AllCame THEN 1 ELSE 0)
  BY <1>7, <1>9, <1>10
<1>12. ASSUME NEW k \in DOMAIN heap.items, heap.items[k].valid, heap.items[k].len # Err
       PROVE  <<heap.items[k].from, heap.items[k].len>> = SentItem(heap.items[k].id)
  <2>1. k \in 1 .. Len(heap.items)
    BY <1>2 DEF Chained, HeapType
  <2>2. Right(heap, came, heap.items[k])
    BY <2>1 DEF HeapInv
  <2> QED
    BY <1>1, <1>2, <1>12, <2>2, SentItemIs DEF Right
<1> QED
  BY <1>11, <1>12

\* What a heap of spead_packet.c says of itself is true, in whatever order its
\* packets come and whenever it is asked, finalized and wiped: it has all
\* packets when it has, and an item spead_heap_finalize marks valid has the
\* bytes its sender gave it.
THEOREM HeapIsHonest == HeapSpec => []HeapHonest
<1>1. HeapInit => HeapInv(heap, came)
  BY NoHeapHolds DEF HeapInit
<1>2. HeapInv(heap, came) /\ [HeapNext]_svars => HeapInv(heap, came)'
  BY HeapInvStep
<1>3. HeapInv(heap, came) => HeapHonest
  BY HonestHolds
<1> QED
  BY <1>1, <1>2, <1>3, PTL DEF HeapSpec
=============================================================================
