--------------------------- MODULE TransmitProofs ---------------------------
(***************************************************************************)
(* Proofs about the transmitter, for any number of workers, any file,      *)
(* chunk and packet size, with failing sends and signals.  The chunks that *)
(* are not out, those of failed sends included, are disjoint and below     *)
(* f_off.  A packet in a table is one of the heap its holder works on, or  *)
(* was left there by a failed send.  So a byte goes out with its own heap, *)
(* or with the heap of whoever found its packet in the table, and that one *)
(* empties the table unless its own send fails: that is what bounds the    *)
(* repetitions by the sends that fail.  That the store suffices: the       *)
(* objects out of the bank map one to one into the workers times the       *)
(* packets of a whole chunk.  The refinement of FileSender maps the sending*)
(* of a packet to that of some bytes of its chunk, the end of a traversal  *)
(* to the chunk's being done, a failing send to its being given up, and    *)
(* every other step of a worker to a stutter.                              *)
(***************************************************************************)
EXTENDS Transmit, FiniteSetTheorems, TLAPS

LEMMA BacklogType == Backlog \in Nat \ {0}
BY TransmitAssumption, FS_CardinalityType, FS_EmptySet DEF Backlog

LEMMA TableRange == ASSUME NEW h \in Nat PROVE h % Backlog \in Table
BY BacklogType DEF Table

LEMMA PacketsType == Packets \in Nat
BY TransmitAssumption DEF Packets

LEMMA InitType == Init => TypeOK
<1> SUFFICES ASSUME Init PROVE TypeOK
  OBVIOUS
<1>1. bank \in Nat
  BY BacklogType, PacketsType DEF Init
<1>2. f_off \in 0 .. FileSize
  BY TransmitAssumption DEF Init
<1>3. t_os \in [Table -> SUBSET (Worker \X Nat)] /\ t_data_id \in [Table -> Nat \cup {-1}]
  BY DEF Init
<1>4. t_m \in [Table -> Worker \cup {None}] /\ pc \in [Worker -> Label]
  BY DEF Init, Label
<1> QED
  BY <1>1, <1>2, <1>3, <1>4 DEF Init, TypeOK

LEMMA TypeStep == TypeOK /\ [Next]_vars => TypeOK'
<1> SUFFICES ASSUME TypeOK, [Next]_vars PROVE TypeOK'
  OBVIOUS
<1> USE DEF TypeOK, Label, Goto, tvars, wvars, pvars
<1>1. ASSUME NEW w \in Worker PROVE ht(w) \in Table
  BY TableRange DEF ht
<1>2. ASSUME NEW w \in Worker, Request(w) PROVE TypeOK'
  <2>1. CASE ~run[w] \/ f_off >= FileSize
    <3>1. /\ UNCHANGED <<f_off, off>>
          /\ got' = (IF run[w] THEN [got EXCEPT ![w] = 0] ELSE got)
          /\ pc' \in [Worker -> Label] /\ run' \in [Worker -> BOOLEAN]
      <4>1. ~(f_off < FileSize /\ run[w])
        BY <2>1, TransmitAssumption
      <4> QED
        BY <1>2, <4>1 DEF Request
    <3>2. got' \in [Worker -> Nat]
      BY <3>1
    <3> QED
      BY <1>2, <3>1, <3>2 DEF Request
  <2>2. CASE run[w] /\ f_off < FileSize
    <3>1. f_off' = f_off + Remaining /\ Remaining \in Nat /\ f_off + Remaining <= FileSize
      BY <1>2, <2>2, TransmitAssumption DEF Request, Remaining
    <3>2. f_off' \in 0 .. FileSize
      BY <3>1, TransmitAssumption
    <3> QED
      BY <1>2, <2>2, <3>1, <3>2, TransmitAssumption DEF Request
  <2> QED
    BY <2>1, <2>2, TransmitAssumption
<1>3. ASSUME NEW w \in Worker, Count(w) PROVE TypeOK'
  BY <1>3 DEF Count
<1>4. ASSUME NEW w \in Worker, Number(w) PROVE TypeOK'
  BY <1>4 DEF Number
<1>5. ASSUME NEW w \in Worker, GetTable(w) PROVE TypeOK'
  BY <1>1, <1>5 DEF GetTable
<1>6. ASSUME NEW w \in Worker, EmptyPush(w) PROVE TypeOK'
  BY <1>1, <1>6 DEF EmptyPush
<1>7. ASSUME NEW w \in Worker, Evicted(w) PROVE TypeOK'
  BY <1>1, <1>7 DEF Evicted
<1>8. ASSUME NEW w \in Worker, Fill(w) PROVE TypeOK'
  <2>1. t_os' \in [Table -> SUBSET (Worker \X Nat)]
    <3>1. CASE bank > 0
      <4>1. made[w] + 1 \in Nat /\ t_os[ht(w)] \cup {<<w, made[w] + 1>>} \in SUBSET (Worker \X Nat)
        BY <1>1
      <4>2. t_os' = [t_os EXCEPT ![ht(w)] = t_os[ht(w)] \cup {<<w, made[w] + 1>>}]
        BY <1>1, <1>8, <3>1 DEF Fill
      <4> QED
        BY <1>1, <4>1, <4>2
    <3>2. CASE ~(bank > 0)
      BY <1>8, <3>2 DEF Fill
    <3> QED
      BY <3>1, <3>2
  <2>2. left' \in [Worker -> SUBSET (Worker \X Nat)]
    <3>1. left' = [left EXCEPT ![w] = t_os'[ht(w)]]
      BY <1>8 DEF Fill
    <3> QED
      BY <1>1, <2>1, <3>1
  <2>3. bank' \in Nat /\ made' \in [Worker -> Nat]
    BY <1>8 DEF Fill
  <2>4. pc' \in [Worker -> Label]
    BY <1>8 DEF Fill
  <2> QED
    BY <1>8, <2>1, <2>2, <2>3, <2>4 DEF Fill
<1>9. ASSUME NEW w \in Worker, Send(w) PROVE TypeOK'
  BY <1>9 DEF Send
<1>10. ASSUME NEW w \in Worker, Sent(w) PROVE TypeOK'
  BY <1>10 DEF Sent
<1>11. ASSUME NEW w \in Worker, Flushed(w) PROVE TypeOK'
  BY <1>1, <1>11 DEF Flushed
<1>12. ASSUME NEW w \in Worker, SendFails(w) PROVE TypeOK'
  BY <1>1, <1>12 DEF SendFails
<1>13. ASSUME NEW w \in Worker, Signal(w) PROVE TypeOK'
  BY <1>13 DEF Signal
<1>14. CASE ParentStep \/ SignalParent
  BY <1>14 DEF ParentStep, Reap, Stop, Terminate, Destroy, SignalParent, Zombie
<1>15. CASE UNCHANGED vars
  BY <1>15 DEF vars
<1> QED
  BY <1>2, <1>3, <1>4, <1>5, <1>6, <1>7, <1>8, <1>9, <1>10, <1>11, <1>12, <1>13,
     <1>14, <1>15 DEF Next, Step

\* The variables of the transmitter keep their types; in particular f_off
\* never passes the end of the file.
THEOREM TypeCorrect == Spec => []TypeOK
<1> QED
  BY InitType, TypeStep, PTL DEF Spec

-----------------------------------------------------------------------------

LEMMA LocksInit == Init => LocksMatchSections
BY TransmitAssumption DEF Init, LocksMatchSections, Inside

LEMMA LocksStep == TypeOK /\ LocksMatchSections /\ [Next]_vars => LocksMatchSections'
<1> SUFFICES ASSUME TypeOK, LocksMatchSections, [Next]_vars PROVE LocksMatchSections'
  OBVIOUS
<1> USE TransmitAssumption DEF TypeOK, LocksMatchSections, Inside, Goto, tvars, wvars, pvars
<1>1. ASSUME NEW w \in Worker PROVE ht(w) \in Table
  BY TableRange DEF ht
<1>2. ASSUME NEW w \in Worker, Request(w) PROVE LocksMatchSections'
  BY <1>2 DEF Request, ht
<1>3. ASSUME NEW w \in Worker, Count(w) PROVE LocksMatchSections'
  BY <1>3 DEF Count, ht
<1>4. ASSUME NEW w \in Worker, Number(w) PROVE LocksMatchSections'
  BY <1>4 DEF Number, ht
<1>5. ASSUME NEW w \in Worker, GetTable(w) PROVE LocksMatchSections'
  BY <1>1, <1>5 DEF GetTable, ht
<1>6. ASSUME NEW w \in Worker, EmptyPush(w) PROVE LocksMatchSections'
  BY <1>6 DEF EmptyPush, ht
<1>7. ASSUME NEW w \in Worker, Evicted(w) PROVE LocksMatchSections'
  BY <1>7 DEF Evicted, ht
<1>8. ASSUME NEW w \in Worker, Fill(w) PROVE LocksMatchSections'
  BY <1>8 DEF Fill, ht
<1>9. ASSUME NEW w \in Worker, Send(w) PROVE LocksMatchSections'
  BY <1>9 DEF Send, ht
<1>10. ASSUME NEW w \in Worker, Sent(w) PROVE LocksMatchSections'
  BY <1>10 DEF Sent, ht
<1>11. ASSUME NEW w \in Worker, Flushed(w) PROVE LocksMatchSections'
  BY <1>1, <1>11 DEF Flushed, ht
<1>12. ASSUME NEW w \in Worker, SendFails(w) PROVE LocksMatchSections'
  BY <1>1, <1>12 DEF SendFails, ht
<1>13. ASSUME NEW w \in Worker, Signal(w) PROVE LocksMatchSections'
  BY <1>13 DEF Signal, ht
<1>14. CASE ParentStep \/ SignalParent
  BY <1>14 DEF ParentStep, Reap, Stop, Terminate, Destroy, SignalParent, ht
<1>15. CASE UNCHANGED vars
  BY <1>15 DEF vars, ht
<1> QED
  BY <1>2, <1>3, <1>4, <1>5, <1>6, <1>7, <1>8, <1>9, <1>10, <1>11, <1>12, <1>13,
     <1>14, <1>15 DEF Next, Step

\* The mutex packetize_item_group returns with is released exactly once on
\* every path of the worker, the failing send included.
THEOREM LockPairing == Spec => []LocksMatchSections
<1> QED
  BY LocksInit, LocksStep, TypeCorrect, PTL DEF Spec

-----------------------------------------------------------------------------

-----------------------------------------------------------------------------

LEMMA DivMono ==
  ASSUME NEW a \in Nat, NEW b \in Nat, NEW p \in Nat \ {0}, a <= b
  PROVE  a \div p \in Nat /\ a \div p <= b \div p
OBVIOUS

LEMMA DivPos == ASSUME NEW a \in Nat, NEW p \in Nat \ {0}, a >= p PROVE a \div p > 0
OBVIOUS

\* A larger chunk needs no fewer packets, and every chunk needs one.
LEMMA PacketsOfBounds ==
  ASSUME NEW n \in 1 .. ChunkSize
  PROVE  /\ PacketsOf(n) \in Nat \ {0} /\ PacketsOf(ChunkSize) \in Nat
         /\ PacketsOf(n) <= PacketsOf(ChunkSize)
<1> DEFINE a == n + Overhead + PktSize - 1
           b == ChunkSize + Overhead + PktSize - 1
<1>1. a \in Nat /\ b \in Nat /\ a <= b /\ PktSize <= a
  BY TransmitAssumption
<1>2. PktSize \in Nat \ {0}
  BY TransmitAssumption
<1>3. PacketsOf(n) = a \div PktSize /\ PacketsOf(ChunkSize) = b \div PktSize
  BY DEF PacketsOf
<1> HIDE DEF a, b
<1>4. a \div PktSize \in Nat /\ b \div PktSize \in Nat /\ a \div PktSize <= b \div PktSize
  BY <1>1, <1>2, DivMono
<1>5. a \div PktSize > 0
  BY <1>1, <1>2, DivPos
<1> QED
  BY <1>3, <1>4, <1>5

LEMMA RemainingRange ==
  ASSUME TypeOK, f_off < FileSize
  PROVE  Remaining \in 1 .. ChunkSize /\ f_off + Remaining <= FileSize
BY TransmitAssumption DEF TypeOK, Remaining

\* The two ways out of request_chunk_datafile and the head of the loop.
LEMMA RequestCases ==
  ASSUME TypeOK, NEW w \in Worker, Request(w)
  PROVE  /\ pc[w] = "request"
         /\ UNCHANGED <<t_count, tvars, hid, made, left, pvars, sent>>
         /\ \/ /\ UNCHANGED <<f_off, off>> /\ pc' = [pc EXCEPT ![w] = "exited"]
               /\ \/ got' = got
                  \/ got' = [got EXCEPT ![w] = 0] /\ f_off >= FileSize
            \/ /\ f_off < FileSize
               /\ off' = [off EXCEPT ![w] = f_off]
               /\ got' = [got EXCEPT ![w] = Remaining]
               /\ f_off' = f_off + Remaining
               /\ pc' = [pc EXCEPT ![w] = "count"]
<1> USE DEF Request, Goto
<1>1. pc[w] = "request" /\ UNCHANGED <<t_count, tvars, hid, made, left, pvars, sent>>
  OBVIOUS
<1>2. CASE run[w] /\ f_off < FileSize
  <2>1. ~(f_off >= FileSize)
    BY <1>2, TransmitAssumption DEF TypeOK
  <2>2. got' = [got EXCEPT ![w] = Remaining] /\ f_off' = f_off + got'[w]
    BY <1>2, <2>1
  <2>3. f_off' = f_off + Remaining
    BY <2>2 DEF TypeOK
  <2> QED
    BY <1>1, <1>2, <2>1, <2>2, <2>3
<1>3. CASE ~(run[w] /\ f_off < FileSize)
  <2>1. f_off >= FileSize <=> ~(f_off < FileSize)
    BY TransmitAssumption DEF TypeOK
  <2> QED
    BY <1>1, <1>3, <2>1
<1> QED
  BY <1>2, <1>3

\* What a worker between two chunks and one that makes packets have counted.
MadeInv ==
  \A w \in Worker :
    /\ Carries(w) => got[w] \in 1 .. ChunkSize
    /\ pc[w] = "evict" => made[w] = 0
    /\ pc[w] = "fill" => made[w] < PacketsOf(got[w])

LEMMA MadeStep == TypeOK /\ MadeInv /\ [Next]_vars => MadeInv'
<1> SUFFICES ASSUME TypeOK, MadeInv, [Next]_vars PROVE MadeInv'
  OBVIOUS
<1> USE DEF TypeOK, MadeInv, Carries, Goto, tvars, wvars, pvars
<1>1. ASSUME NEW w \in Worker, Request(w) PROVE MadeInv'
  <2>1. ASSUME pc' = [pc EXCEPT ![w] = "exited"], \A v \in Worker : v # w => got'[v] = got[v],
               made' = made
        PROVE  MadeInv'
    BY <2>1 DEF PacketsOf
  <2>2. ASSUME f_off < FileSize, pc' = [pc EXCEPT ![w] = "count"],
               got' = [got EXCEPT ![w] = Remaining], made' = made
        PROVE  MadeInv'
    BY <2>2, RemainingRange DEF PacketsOf
  <2> QED
    BY <1>1, <2>1, <2>2, RequestCases
<1>2. ASSUME NEW w \in Worker, GetTable(w) PROVE MadeInv'
  <2>1. got[w] \in 1 .. ChunkSize
    BY <1>2 DEF GetTable
  <2>2. PacketsOf(got[w]) \in Nat \ {0}
    BY <2>1, PacketsOfBounds
  <2>3. /\ made' = [made EXCEPT ![w] = 0] /\ got' = got
        /\ \E l \in {"fill", "evict"} : pc' = [pc EXCEPT ![w] = l]
    BY <1>2 DEF GetTable
  <2>4. \A v \in Worker : PacketsOf(got[v])' = PacketsOf(got[v])
    BY <2>3 DEF PacketsOf
  <2> HIDE DEF Carries
  <2>5. \A v \in Worker : Carries(v)' <=> IF v = w THEN TRUE ELSE Carries(v)
    BY <2>3 DEF Carries
  <2>6. Carries(w)
    BY <1>2 DEF GetTable, Carries
  <2> QED
    BY <2>2, <2>3, <2>4, <2>5, <2>6
<1>3. ASSUME NEW w \in Worker, Evicted(w) PROVE MadeInv'
  <2>1. PacketsOf(got[w]) \in Nat \ {0}
    BY <1>3, PacketsOfBounds DEF Evicted
  <2> QED
    BY <1>3, <2>1 DEF Evicted, PacketsOf
<1>4. ASSUME NEW w \in Worker, Fill(w) PROVE MadeInv'
  <2>1. CASE bank > 0
    BY <1>4, <2>1 DEF Fill, PacketsOf
  <2>2. CASE bank = 0
    BY <1>4, <2>2 DEF Fill, PacketsOf
  <2> QED
    BY <2>1, <2>2
<1>5. ASSUME NEW w \in Worker,
             Count(w) \/ Number(w) \/ Send(w) \/ Sent(w) \/ Flushed(w)
               \/ SendFails(w) \/ EmptyPush(w) \/ Signal(w)
      PROVE  MadeInv'
  BY <1>5 DEF Count, Number, Send, Sent, Flushed, SendFails, EmptyPush, Signal, PacketsOf
<1>6. CASE ParentStep \/ SignalParent \/ UNCHANGED vars
  BY <1>6 DEF ParentStep, Reap, Stop, Terminate, Destroy, SignalParent, vars, PacketsOf
<1> QED
  BY <1>1, <1>2, <1>3, <1>4, <1>5, <1>6 DEF Next, Step

-----------------------------------------------------------------------------

\* The multiples of the packet size are in order.
LEMMA TimesMono ==
  ASSUME NEW a \in Nat, NEW b \in Nat, NEW p \in Nat, a <= b
  PROVE  a * p \in Nat /\ b * p \in Nat /\ a * p <= b * p
<1>1. PICK d \in Nat : b = a + d
  <2>1. b - a \in Nat /\ b = a + (b - a)
    OBVIOUS
  <2> QED
    BY <2>1
<1>2. b * p = a * p + d * p
  BY <1>1
<1>3. a * p \in Nat /\ d * p \in Nat
  OBVIOUS
<1> QED
  BY <1>2, <1>3

\* packetize_item_group: no byte of a chunk is in two packets ...
LEMMA PayloadApart ==
  ASSUME TypeOK, NEW w \in Worker, NEW k \in Nat, NEW j \in Nat, k # j,
         NEW b \in Payload(w, k)
  PROVE  b \notin Payload(w, j)
<1>1. PICK x : x = Overhead + b - off[w]
  OBVIOUS
<1>2. x \in Int
  BY <1>1, TransmitAssumption DEF Payload, Chunk, Byte, TypeOK
<1>3. (k - 1) * PktSize <= x /\ x < k * PktSize
  BY <1>1 DEF Payload
<1>4. ASSUME b \in Payload(w, j) PROVE FALSE
  <2>1. (j - 1) * PktSize <= x /\ x < j * PktSize
    BY <1>1, <1>4 DEF Payload
  <2>2. PktSize \in Nat
    BY TransmitAssumption
  <2>3. CASE k < j
    <3>1. j - 1 \in Nat /\ k <= j - 1
      BY <2>3
    <3>2. k * PktSize \in Nat /\ (j - 1) * PktSize \in Nat /\ k * PktSize <= (j - 1) * PktSize
      BY <2>2, <3>1, TimesMono
    <3> QED
      BY <1>2, <1>3, <2>1, <3>2
  <2>4. CASE j < k
    <3>1. k - 1 \in Nat /\ j <= k - 1
      BY <2>4
    <3>2. j * PktSize \in Nat /\ (k - 1) * PktSize \in Nat /\ j * PktSize <= (k - 1) * PktSize
      BY <2>2, <3>1, TimesMono
    <3> QED
      BY <1>2, <1>3, <2>1, <3>2
  <2> QED
    BY <2>3, <2>4
<1> QED
  BY <1>4

LEMMA DivPlace ==
  ASSUME NEW a \in Nat, NEW p \in Nat \ {0}
  PROVE  /\ a \div p \in Nat
         /\ (a \div p) * p <= a /\ a < ((a \div p) + 1) * p
         /\ (a + p) \div p = (a \div p) + 1
OBVIOUS

\* ... and every byte is in one.
LEMMA PayloadCovers ==
  ASSUME TypeOK, NEW w \in Worker, NEW b \in Chunk(w)
  PROVE  \E k \in 1 .. PacketsOf(got[w]) : b \in Payload(w, k)
<1>1. PICK x : x = Overhead + b - off[w]
  OBVIOUS
<1>2. PICK g \in Nat : g = got[w]
  BY DEF TypeOK
<1>3. x \in Nat /\ x <= g + Overhead - 1
  <2>1. b \in Int /\ off[w] \in Nat /\ off[w] <= b /\ b < off[w] + g /\ Overhead \in Nat
    BY <1>2, TransmitAssumption DEF Chunk, Byte, TypeOK
  <2> QED
    BY <1>1, <2>1
<1>4. PktSize \in Nat \ {0}
  BY TransmitAssumption
<1>5. PICK q \in Nat : /\ q = x \div PktSize
                       /\ q * PktSize <= x /\ x < (q + 1) * PktSize
                       /\ (x + PktSize) \div PktSize = q + 1
  BY <1>3, <1>4, DivPlace
<1>6. q + 1 <= PacketsOf(g) /\ PacketsOf(g) \in Nat
  <2>1. PICK y : y = g + Overhead + PktSize - 1
    OBVIOUS
  <2>2. x + PktSize \in Nat /\ y \in Nat /\ x + PktSize <= y
    BY <1>3, <1>4, <2>1, TransmitAssumption
  <2>3. (x + PktSize) \div PktSize <= y \div PktSize /\ y \div PktSize \in Nat
    BY <1>4, <2>2, DivMono
  <2> QED
    BY <1>5, <2>1, <2>3 DEF PacketsOf
<1>7. q + 1 \in 1 .. PacketsOf(got[w])
  BY <1>2, <1>6
<1>8. ((q + 1) - 1) * PktSize <= x
  <2>1. (q + 1) - 1 = q
    OBVIOUS
  <2> QED
    BY <1>5, <2>1
<1>9. b \in Payload(w, q + 1)
  BY <1>1, <1>5, <1>8 DEF Payload
<1> QED
  BY <1>7, <1>9

-----------------------------------------------------------------------------

\* Only a worker that fills, sends or failed has packets to send; while it
\* sends they are in its table.
LeftInv ==
  \A w \in Worker :
    /\ left[w] # {} => pc[w] \in {"fill", "send", "exited"}
    /\ pc[w] = "send" => left[w] \subseteq t_os[ht(w)]

\* No two workers are inside the section of one table.
LEMMA OneInside ==
  ASSUME LocksMatchSections, TypeOK, NEW v \in Worker, NEW w \in Worker,
         Inside(v), Inside(w), ht(v) = ht(w)
  PROVE  v = w
<1>1. ht(v) \in Table
  BY TableRange DEF TypeOK, ht
<1>2. t_m[ht(v)] = v /\ t_m[ht(v)] = w
  BY <1>1 DEF LocksMatchSections
<1> QED
  BY <1>2

LEMMA LeftStep == TypeOK /\ LocksMatchSections /\ LeftInv /\ [Next]_vars => LeftInv'
<1> SUFFICES ASSUME TypeOK, LocksMatchSections, LeftInv, [Next]_vars PROVE LeftInv'
  OBVIOUS
<1> DEFINE Good(v) == /\ left[v] # {} => pc[v] \in {"fill", "send", "exited"}
                      /\ pc[v] = "send" => left[v] \subseteq t_os[ht(v)]
<1>0. \A v \in Worker : Good(v)
  BY DEF LeftInv
<1> SUFFICES ASSUME NEW v \in Worker PROVE Good(v)'
  BY DEF LeftInv
<1> USE DEF TypeOK, Goto, tvars, wvars, pvars
<1>1. ASSUME NEW w \in Worker PROVE ht(w) \in Table
  BY TableRange DEF ht
<1>2. ASSUME NEW w \in Worker, Request(w) PROVE Good(v)'
  BY <1>0, <1>2, RequestCases DEF ht, Backlog
<1>3. ASSUME NEW w \in Worker, Fill(w) PROVE Good(v)'
  <2>1. CASE v = w
    <3>1. left'[w] = t_os'[ht(w)] /\ ht(w)' = ht(w) /\ pc'[w] \in {"fill", "send"}
      BY <1>3 DEF Fill, ht, Backlog
    <3> QED
      BY <2>1, <3>1
  <2>2. CASE v # w
    <3>1. /\ left'[v] = left[v] /\ pc'[v] = pc[v] /\ ht(v)' = ht(v)
          /\ t_os[ht(v)] \subseteq t_os'[ht(v)]
      BY <1>1, <1>3, <2>2 DEF Fill, ht, Backlog
    <3> QED
      BY <1>0, <3>1
  <2> QED
    BY <2>1, <2>2
<1>4. ASSUME NEW w \in Worker, EmptyPush(w) PROVE Good(v)'
  <2>1. UNCHANGED <<left, pc>> /\ ht(v)' = ht(v)
    BY <1>4 DEF EmptyPush, ht, Backlog
  <2>2. ASSUME pc[v] = "send" PROVE t_os'[ht(v)] = t_os[ht(v)]
    <3>1. v # w /\ Inside(v) /\ Inside(w)
      BY <1>4, <2>2 DEF EmptyPush, Inside
    <3>2. ht(v) # ht(w)
      BY <3>1, OneInside
    <3> QED
      BY <1>1, <1>4, <3>2 DEF EmptyPush
  <2> QED
    BY <1>0, <2>1, <2>2
<1>5. ASSUME NEW w \in Worker, Send(w) PROVE Good(v)'
  BY <1>0, <1>5 DEF Send, ht, Backlog
<1>6. ASSUME NEW w \in Worker,
             Count(w) \/ Number(w) \/ GetTable(w) \/ Evicted(w) \/ Flushed(w) \/ Signal(w)
      PROVE  Good(v)'
  <2>1. UNCHANGED <<left, t_os>> /\ (v # w => pc'[v] = pc[v] /\ hid'[v] = hid[v])
    BY <1>6 DEF Count, Number, GetTable, Evicted, Flushed, Signal
  <2>2. left[w] = {} /\ pc'[w] # "send"
    BY <1>0, <1>6 DEF Count, Number, GetTable, Evicted, Flushed, Signal
  <2> QED
    BY <1>0, <2>1, <2>2 DEF ht, Backlog
<1>7. ASSUME NEW w \in Worker, Sent(w) \/ SendFails(w) PROVE Good(v)'
  <2>1. UNCHANGED <<left, t_os, hid>> /\ (v # w => pc'[v] = pc[v])
    BY <1>7 DEF Sent, SendFails
  <2>2. pc'[w] # "send" /\ (left[w] = {} \/ pc'[w] = "exited")
    BY <1>7 DEF Sent, SendFails
  <2> QED
    BY <1>0, <2>1, <2>2 DEF ht, Backlog
<1>8. CASE ParentStep \/ SignalParent \/ UNCHANGED vars
  <2>1. UNCHANGED <<left, t_os, hid, pc>>
    BY <1>8 DEF ParentStep, Reap, Stop, Terminate, Destroy, SignalParent, vars
  <2> QED
    BY <1>0, <2>1 DEF ht, Backlog
<1> QED
  BY <1>2, <1>3, <1>4, <1>5, <1>6, <1>7, <1>8 DEF Next, Step

\* A failing send, and nothing else, adds to the workers whose send failed.
LEMMA FailedStep ==
  ASSUME TypeOK, LeftInv, [Next]_vars
  PROVE  \/ FailedSends' = FailedSends
         \/ \E w \in Worker : /\ SendFails(w) /\ w \notin FailedSends
                              /\ FailedSends' = FailedSends \cup {w}
<1> USE DEF TypeOK, Goto, FailedSends, tvars, wvars, pvars
<1>1. ASSUME NEW w \in Worker, SendFails(w)
      PROVE  w \notin FailedSends /\ FailedSends' = FailedSends \cup {w}
  BY <1>1 DEF SendFails
<1>2. ASSUME NEW w \in Worker,
             Count(w) \/ Number(w) \/ GetTable(w) \/ EmptyPush(w) \/ Evicted(w) \/ Fill(w)
               \/ Send(w) \/ Sent(w) \/ Flushed(w) \/ Signal(w)
      PROVE  FailedSends' = FailedSends
  <2>1. pc[w] # "exited" /\ pc'[w] # "exited"
    BY <1>2 DEF Count, Number, GetTable, EmptyPush, Evicted, Fill, Send, Sent, Flushed, Signal
  <2>2. \A v \in Worker : v # w => pc'[v] = pc[v] /\ left'[v] = left[v]
    BY <1>2 DEF Count, Number, GetTable, EmptyPush, Evicted, Fill, Send, Sent, Flushed, Signal
  <2> QED
    BY <2>1, <2>2
<1>3. ASSUME NEW w \in Worker, Request(w) PROVE FailedSends' = FailedSends
  <2>1. pc[w] # "exited" /\ left'[w] = {}
    BY <1>3, RequestCases DEF LeftInv
  <2>2. \A v \in Worker : v # w => pc'[v] = pc[v] /\ left'[v] = left[v]
    BY <1>3, RequestCases
  <2> QED
    BY <2>1, <2>2
<1>4. ASSUME ParentStep \/ SignalParent \/ UNCHANGED vars PROVE FailedSends' = FailedSends
  BY <1>4 DEF ParentStep, Reap, Stop, Terminate, Destroy, SignalParent, vars
<1> HIDE DEF FailedSends
<1> QED
  BY <1>1, <1>2, <1>3, <1>4 DEF Next, Step

LEMMA FailedCount ==
  ASSUME NEW S \in SUBSET Worker
  PROVE  /\ IsFiniteSet(S) /\ Cardinality(S) \in Nat
         /\ \A w \in Worker : w \notin S => Cardinality(S \cup {w}) = Cardinality(S) + 1
<1>1. IsFiniteSet(S)
  BY FS_Subset, TransmitAssumption
<1> QED
  BY <1>1, FS_CardinalityType, FS_AddElement

-----------------------------------------------------------------------------

\* The worker has a chunk that is not out: it works on it, or its send failed.
Holds(w) == Carries(w) \/ w \in FailedSends

ChunksDisjoint ==
  \A v, w \in Worker : v # w /\ Holds(v) /\ Holds(w) =>
    off[v] + got[v] <= off[w] \/ off[w] + got[w] <= off[v]

ChunksHandedOut == \A w \in Worker : Holds(w) => off[w] + got[w] <= f_off

ChunkInv == ChunksDisjoint /\ ChunksHandedOut

\* The chunks are held from request_chunk_datafile on.
LEMMA HoldsStep ==
  ASSUME TypeOK, LeftInv, [Next]_vars, NEW v \in Worker, Holds(v)'
  PROVE  \/ Holds(v) /\ off'[v] = off[v] /\ got'[v] = got[v]
         \/ Request(v)
<1> USE DEF TypeOK, Goto, Holds, Carries, FailedSends, tvars, wvars, pvars
<1>1. ASSUME NEW w \in Worker, w # v, Step(w) \/ SendFails(w) \/ Signal(w)
      PROVE  /\ pc'[v] = pc[v] /\ left'[v] = left[v]
             /\ off'[v] = off[v] /\ got'[v] = got[v]
  <2>1. CASE Request(w)
    BY <1>1, <2>1, RequestCases
  <2>2. CASE ~Request(w)
    BY <1>1, <2>2 DEF Step, Count, Number, GetTable, EmptyPush, Evicted, Fill, Send,
                      Sent, Flushed, SendFails, Signal
  <2> QED
    BY <2>1, <2>2
<1>2. ASSUME Count(v) \/ Number(v) \/ GetTable(v) \/ EmptyPush(v) \/ Evicted(v) \/ Fill(v)
               \/ Send(v) \/ Sent(v) \/ Flushed(v) \/ SendFails(v) \/ Signal(v)
      PROVE  Holds(v) /\ off' = off /\ got' = got
  BY <1>2 DEF Count, Number, GetTable, EmptyPush, Evicted, Fill, Send, Sent, Flushed,
              SendFails, Signal
<1>3. CASE ParentStep \/ SignalParent \/ UNCHANGED vars
  BY <1>3 DEF ParentStep, Reap, Stop, Terminate, Destroy, SignalParent, vars
<1> QED
  BY <1>1, <1>2, <1>3 DEF Next, Step

\* A worker that asks for a chunk holds none; one that gets a chunk gets the
\* next bytes of the file, and the others keep what they have.
LEMMA RequestHolds ==
  ASSUME TypeOK, LeftInv, NEW w \in Worker, Request(w)
  PROVE  /\ ~Holds(w)
         /\ \A v \in Worker : v # w => /\ off'[v] = off[v] /\ got'[v] = got[v]
                                       /\ pc'[v] = pc[v]
         /\ UNCHANGED <<sent, left, made, t_os, hid>>
         /\ \/ ~Holds(w)' /\ f_off' = f_off
            \/ /\ off'[w] = f_off /\ got'[w] = Remaining /\ f_off' = f_off + Remaining
               /\ Remaining \in 1 .. ChunkSize /\ f_off' \in Nat /\ f_off < FileSize
               /\ pc'[w] = "count"
<1> USE DEF TypeOK, tvars, Holds, Carries, FailedSends
<1>1. left[w] = {} /\ pc[w] = "request"
  BY RequestCases DEF LeftInv
<1>2. UNCHANGED <<sent, left, made, t_os, hid>>
  BY RequestCases
<1>3. \A v \in Worker : v # w => off'[v] = off[v] /\ got'[v] = got[v] /\ pc'[v] = pc[v]
  BY RequestCases
<1>4. CASE f_off' = f_off /\ pc' = [pc EXCEPT ![w] = "exited"]
  BY <1>1, <1>2, <1>3, <1>4
<1>5. CASE /\ f_off < FileSize /\ off' = [off EXCEPT ![w] = f_off]
           /\ got' = [got EXCEPT ![w] = Remaining]
           /\ f_off' = f_off + Remaining /\ pc' = [pc EXCEPT ![w] = "count"]
  BY <1>1, <1>2, <1>3, <1>5, RemainingRange
<1> QED
  BY <1>4, <1>5, RequestCases

LEMMA ChunkStep == TypeOK /\ LeftInv /\ ChunkInv /\ [Next]_vars => ChunkInv'
<1> SUFFICES ASSUME TypeOK, LeftInv, ChunkInv, [Next]_vars PROVE ChunkInv'
  OBVIOUS
<1> USE DEF ChunkInv, ChunksDisjoint, ChunksHandedOut
<1>1. CASE \E w \in Worker : Request(w)
  <2>1. PICK w \in Worker : Request(w)
    BY <1>1
  <2>2. ASSUME NEW v \in Worker, v # w
        PROVE  /\ Holds(v)' => Holds(v)
               /\ off'[v] = off[v] /\ got'[v] = got[v]
               /\ off[v] \in Nat /\ got[v] \in Nat
    BY <2>1, <2>2, RequestHolds DEF Holds, Carries, FailedSends, TypeOK
  <2>3. f_off \in Nat
    BY DEF TypeOK
  <2>4. CASE ~Holds(w)' /\ f_off' = f_off
    BY <2>2, <2>4
  <2>5. CASE /\ off'[w] = f_off /\ got'[w] = Remaining /\ f_off' = f_off + Remaining
             /\ Remaining \in 1 .. ChunkSize
    <3>1. Remaining \in Nat
      BY <2>5, TransmitAssumption
    <3> QED
      BY <2>2, <2>3, <2>5, <3>1
  <2> QED
    BY <2>1, <2>4, <2>5, RequestHolds
<1>2. CASE ~\E w \in Worker : Request(w)
  <2>1. f_off' = f_off
    BY <1>2 DEF Next, Step, Count, Number, GetTable, EmptyPush, Evicted, Fill, Send, Sent,
                Flushed, SendFails, Signal, ParentStep, Reap, Stop, Terminate, Destroy,
                SignalParent, vars
  <2>2. \A v \in Worker : Holds(v)' => Holds(v) /\ off'[v] = off[v] /\ got'[v] = got[v]
    BY <1>2, HoldsStep
  <2> QED
    BY <2>1, <2>2
<1> QED
  BY <1>1, <1>2

\* A byte is in one chunk at most.
LEMMA ChunkApart ==
  ASSUME TypeOK, ChunkInv, NEW v \in Worker, NEW w \in Worker, v # w,
         Holds(v), Holds(w), NEW b \in Chunk(v)
  PROVE  b \notin Chunk(w) /\ b < f_off
<1>1. off[v] + got[v] <= off[w] \/ off[w] + got[w] <= off[v]
  BY DEF ChunkInv, ChunksDisjoint
<1>2. off[v] + got[v] <= f_off
  BY DEF ChunkInv, ChunksHandedOut
<1>3. b \in Int /\ off[v] <= b /\ b < off[v] + got[v]
  BY DEF Chunk, Byte
<1>4. off[v] \in Nat /\ got[v] \in Nat /\ off[w] \in Nat /\ got[w] \in Nat /\ f_off \in Nat
  BY DEF TypeOK
<1>5. ~(off[w] <= b /\ b < off[w] + got[w]) /\ b < f_off
  BY <1>1, <1>2, <1>3, <1>4
<1> QED
  BY <1>5 DEF Chunk

-----------------------------------------------------------------------------

ReapedHaveExited ==
  /\ \A w \in Worker \ w_tree : pc[w] = "exited"
  /\ parent = "end" => w_tree = {}

LEMMA ReapedStep == TypeOK /\ ReapedHaveExited /\ [Next]_vars => ReapedHaveExited'
<1> SUFFICES ASSUME TypeOK, ReapedHaveExited, [Next]_vars PROVE ReapedHaveExited'
  OBVIOUS
<1> USE DEF TypeOK, ReapedHaveExited, Goto, tvars, wvars, pvars
<1>1. ASSUME NEW w \in Worker, Step(w) \/ SendFails(w) \/ Signal(w)
      PROVE  ReapedHaveExited'
  <2>1. UNCHANGED <<w_tree, parent>> /\ pc[w] # "exited"
    BY <1>1 DEF Step, Request, Count, Number, GetTable, EmptyPush, Evicted, Fill, Send,
                Sent, Flushed, SendFails, Signal
  <2>2. \A v \in Worker \ {w} : pc'[v] = pc[v]
    BY <1>1 DEF Step, Request, Count, Number, GetTable, EmptyPush, Evicted, Fill, Send,
                Sent, Flushed, SendFails, Signal
  <2> QED
    BY <2>1, <2>2
<1>2. CASE ParentStep
  BY <1>2 DEF ParentStep, Reap, Stop, Terminate, Destroy, Zombie
<1>3. CASE SignalParent \/ UNCHANGED vars
  BY <1>3 DEF SignalParent, vars
<1> QED
  BY <1>1, <1>2, <1>3 DEF Next

\* destroy_speadtx frees nothing a worker still uses: the parent ends only
\* when every worker has exited, also after a signal or a failed terminator.
THEOREM ParentOutlives == Spec => []NoOrphans
<1>1. Init => ReapedHaveExited
  BY DEF Init, ReapedHaveExited
<1>2. TypeOK /\ ReapedHaveExited => NoOrphans
  BY DEF TypeOK, ReapedHaveExited, NoOrphans
<1> QED
  BY <1>1, <1>2, ReapedStep, TypeCorrect, PTL DEF Spec

------------------------------------------------------------------

-----------------------------------------------------------------------------

\* The worker may have packets in its table: those of the heap it works on, or
\* those a failed send left behind.
Owning(w) == pc[w] \in {"fill", "send", "flush"} \/ w \in FailedSends

Owned ==
  \A t \in Table : \A p \in t_os[t] :
    Owning(p[1]) /\ t = ht(p[1]) /\ p[2] \in 1 .. made[p[1]]

\* The packets of a heap in the making are chained.
MadeChained ==
  \A w \in Worker : pc[w] \in {"fill", "send"} =>
    \A k \in 1 .. made[w] : <<w, k>> \in t_os[ht(w)]

OwnInv == Owned /\ MadeChained

\* What becomes of the tables.
LEMMA TablesStep ==
  ASSUME TypeOK, [Next]_vars
  PROVE  \/ t_os' = t_os
         \/ \E w \in Worker : EmptyPush(w)
         \/ \E w \in Worker : /\ Fill(w) /\ bank > 0
                              /\ t_os' = [t_os EXCEPT ![ht(w)] = @ \cup {<<w, made[w] + 1>>}]
<1>1. ASSUME NEW w \in Worker, Fill(w)
      PROVE  t_os' = t_os \/ /\ bank > 0
                             /\ t_os' = [t_os EXCEPT ![ht(w)] = @ \cup {<<w, made[w] + 1>>}]
  BY <1>1 DEF Fill
<1>2. ASSUME NEW w \in Worker,
             Request(w) \/ Count(w) \/ Number(w) \/ GetTable(w) \/ Evicted(w)
               \/ Send(w) \/ Sent(w) \/ Flushed(w) \/ SendFails(w) \/ Signal(w)
      PROVE  t_os' = t_os
  BY <1>2 DEF Request, Count, Number, GetTable, Evicted, Send, Sent, Flushed, SendFails,
              Signal, tvars
<1>3. ASSUME ParentStep \/ SignalParent \/ UNCHANGED vars PROVE t_os' = t_os
  BY <1>3 DEF ParentStep, Reap, Stop, Terminate, Destroy, SignalParent, vars, tvars
<1> QED
  BY <1>1, <1>2, <1>3 DEF Next, Step

\* A worker that has packets in its table keeps its heap until the table is empty.
LEMMA OwningKept ==
  ASSUME TypeOK, LeftInv, [Next]_vars, NEW v \in Worker, Owning(v)
  PROVE  \/ /\ Owning(v)' /\ hid'[v] = hid[v] /\ off'[v] = off[v] /\ got'[v] = got[v]
            /\ made'[v] \in Nat /\ made[v] <= made'[v]
         \/ t_os[ht(v)] = {}
<1> USE DEF TypeOK, Owning, Goto, FailedSends, tvars, wvars, pvars
<1>1. ASSUME NEW w \in Worker, Step(w) \/ SendFails(w) \/ Signal(w), v # w
      PROVE  /\ pc'[v] = pc[v] /\ left'[v] = left[v] /\ hid'[v] = hid[v]
             /\ made'[v] = made[v] /\ off'[v] = off[v] /\ got'[v] = got[v]
  <2>1. CASE Request(w)
    BY <1>1, <2>1, RequestCases
  <2>2. CASE ~Request(w)
    BY <1>1, <2>2 DEF Step, Count, Number, GetTable, EmptyPush, Evicted, Fill, Send,
                      Sent, Flushed, SendFails, Signal
  <2> QED
    BY <2>1, <2>2
<1>2. ASSUME Request(v) \/ Count(v) \/ Number(v) \/ GetTable(v) \/ Evicted(v) \/ Signal(v)
      PROVE  FALSE
  BY <1>2 DEF Request, Count, Number, GetTable, Evicted, Signal
<1>3. ASSUME Fill(v)
      PROVE  /\ pc'[v] \in {"fill", "send"} /\ UNCHANGED <<hid, off, got>>
             /\ made'[v] \in {made[v], made[v] + 1}
  BY <1>3 DEF Fill
<1>4. ASSUME EmptyPush(v) \/ Send(v) \/ Sent(v)
      PROVE  pc'[v] \in {"fill", "send", "flush"} /\ UNCHANGED <<hid, off, got, made>>
  BY <1>4 DEF EmptyPush, Send, Sent
<1>5. ASSUME SendFails(v) PROVE Owning(v)' /\ UNCHANGED <<hid, off, got, made>>
  BY <1>5 DEF SendFails
<1>6. ASSUME Flushed(v) PROVE t_os[ht(v)] = {}
  BY <1>6 DEF Flushed
<1>7. ASSUME ParentStep \/ SignalParent \/ UNCHANGED vars
      PROVE  Owning(v)' /\ UNCHANGED <<hid, off, got, made>>
  BY <1>7 DEF ParentStep, Reap, Stop, Terminate, Destroy, SignalParent, vars
<1>8. made[v] \in Nat
  OBVIOUS
<1> QED
  BY <1>1, <1>2, <1>3, <1>4, <1>5, <1>6, <1>7, <1>8 DEF Next, Step

LEMMA PacketType ==
  ASSUME TypeOK, NEW t \in Table, NEW p \in t_os[t]
  PROVE  p[1] \in Worker /\ p[2] \in Nat /\ p = <<p[1], p[2]>>
BY DEF TypeOK

LEMMA OwnedStep ==
  ASSUME TypeOK, LeftInv, Owned, [Next]_vars
  PROVE  Owned'
<1> SUFFICES ASSUME NEW t \in Table, NEW p \in t_os'[t]
             PROVE  Owning(p[1])' /\ t = ht(p[1])' /\ p[2] \in 1 .. made'[p[1]]
  BY DEF Owned, Table, Backlog
<1>1. CASE p \in t_os[t]
  <2>1. PICK v \in Worker, k \in Nat : p = <<v, k>> /\ p[1] = v /\ p[2] = k
    BY <1>1, PacketType
  <2>2. Owning(v) /\ t = ht(v) /\ k \in 1 .. made[v]
    BY <1>1, <2>1 DEF Owned
  <2>3. /\ Owning(v)' /\ hid'[v] = hid[v] /\ made'[v] \in Nat /\ made[v] <= made'[v]
    BY <1>1, <2>2, OwningKept
  <2>4. ht(v)' = ht(v)
    BY <2>3 DEF ht, Backlog
  <2>5. k \in 1 .. made'[v]
    BY <2>2, <2>3 DEF TypeOK
  <2> QED
    BY <2>1, <2>2, <2>3, <2>4, <2>5
<1>2. CASE p \notin t_os[t]
  <2>1. ASSUME NEW w \in Worker, EmptyPush(w) PROVE p \in t_os[t]
    BY <2>1, TableRange DEF EmptyPush, TypeOK
  <2>2. PICK w \in Worker :
           /\ Fill(w) /\ bank > 0
           /\ t_os' = [t_os EXCEPT ![ht(w)] = @ \cup {<<w, made[w] + 1>>}]
    BY <1>2, <2>1, TablesStep
  <2>3. ht(w) \in Table
    BY TableRange DEF TypeOK, ht
  <2>4. t = ht(w) /\ p = <<w, made[w] + 1>>
    BY <1>2, <2>2, <2>3 DEF TypeOK
  <2>5. /\ pc'[w] \in {"fill", "send"} /\ made'[w] = made[w] + 1 /\ hid' = hid
        /\ made[w] \in Nat
    BY <2>2 DEF Fill, Goto, TypeOK
  <2>6. p[1] = w /\ p[2] = made'[w] /\ made'[w] \in 1 .. made'[w]
    BY <2>4, <2>5
  <2> QED
    BY <2>4, <2>5, <2>6 DEF Owning, ht, Backlog
<1> QED
  BY <1>1, <1>2

LEMMA MadeChainedStep ==
  ASSUME TypeOK, LocksMatchSections, MadeInv, MadeChained, [Next]_vars
  PROVE  MadeChained'
<1> SUFFICES ASSUME NEW v \in Worker, pc'[v] \in {"fill", "send"}, NEW k \in 1 .. made'[v]
             PROVE  <<v, k>> \in t_os'[ht(v)']
  BY DEF MadeChained
<1> USE DEF TypeOK, Goto, tvars, wvars, pvars
<1>1. ASSUME NEW w \in Worker PROVE ht(w) \in Table
  BY TableRange DEF ht
<1>2. ASSUME Fill(v) PROVE <<v, k>> \in t_os'[ht(v)']
  <2>1. ht(v)' = ht(v) /\ pc[v] = "fill"
    BY <1>2 DEF Fill, ht, Backlog
  <2>2. \A j \in 1 .. made[v] : <<v, j>> \in t_os[ht(v)]
    BY <2>1 DEF MadeChained
  <2>3. CASE bank > 0
    <3>1. t_os'[ht(v)] = t_os[ht(v)] \cup {<<v, made[v] + 1>>} /\ made'[v] = made[v] + 1
      BY <1>1, <1>2, <2>3 DEF Fill
    <3>2. made[v] \in Nat
      OBVIOUS
    <3>3. k \in 1 .. made[v] \/ k = made[v] + 1
      BY <3>1, <3>2
    <3> QED
      BY <2>1, <2>2, <3>1, <3>3
  <2>4. CASE ~(bank > 0)
    BY <1>2, <2>1, <2>2, <2>4 DEF Fill
  <2> QED
    BY <2>3, <2>4
<1>3. ASSUME GetTable(v) PROVE FALSE
  <2>1. made'[v] = 0
    BY <1>3 DEF GetTable
  <2> QED
    BY <2>1
<1>4. ASSUME Evicted(v) PROVE FALSE
  <2>1. made'[v] = 0
    BY <1>4 DEF Evicted, MadeInv
  <2> QED
    BY <2>1
<1>5. ASSUME Send(v)
      PROVE  UNCHANGED <<t_os, pc, hid, made>>
  BY <1>5 DEF Send
<1>6. ASSUME Request(v) \/ Count(v) \/ Number(v) \/ Sent(v) \/ Flushed(v) \/ SendFails(v)
               \/ Signal(v)
      PROVE  FALSE
  BY <1>6, RequestCases DEF Count, Number, Sent, Flushed, SendFails, Signal
<1>7. ASSUME EmptyPush(v) PROVE FALSE
  BY <1>7 DEF EmptyPush
<1>8. ASSUME NEW w \in Worker, w # v, Step(w) \/ SendFails(w) \/ Signal(w)
      PROVE  pc'[v] = pc[v] /\ hid'[v] = hid[v] /\ made'[v] = made[v]
  <2>1. CASE Request(w)
    BY <1>8, <2>1, RequestCases
  <2>2. CASE ~Request(w)
    BY <1>8, <2>2 DEF Step, Count, Number, GetTable, EmptyPush, Evicted, Fill, Send,
                      Sent, Flushed, SendFails, Signal
  <2> QED
    BY <2>1, <2>2
<1>9. ASSUME ParentStep \/ SignalParent \/ UNCHANGED vars
      PROVE  UNCHANGED <<t_os, pc, hid, made>>
  BY <1>9 DEF ParentStep, Reap, Stop, Terminate, Destroy, SignalParent, vars
<1>10. ASSUME pc'[v] = pc[v], hid'[v] = hid[v], made'[v] = made[v], ~Fill(v)
       PROVE  <<v, k>> \in t_os'[ht(v)']
  <2>1. ht(v)' = ht(v) /\ <<v, k>> \in t_os[ht(v)]
    BY <1>10 DEF ht, Backlog, MadeChained
  <2>2. ASSUME NEW w \in Worker, EmptyPush(w) PROVE t_os'[ht(v)] = t_os[ht(v)]
    <3>1. Inside(v) /\ Inside(w) /\ (v = w => FALSE)
      BY <1>7, <1>10, <2>2 DEF EmptyPush, Inside
    <3>2. ht(v) # ht(w)
      BY <3>1, OneInside
    <3> QED
      BY <1>1, <2>2, <3>2 DEF EmptyPush
  <2>3. ASSUME NEW w \in Worker,
               t_os' = [t_os EXCEPT ![ht(w)] = @ \cup {<<w, made[w] + 1>>}]
        PROVE  t_os[ht(v)] \subseteq t_os'[ht(v)]
    BY <1>1, <2>3
  <2> QED
    BY <2>1, <2>2, <2>3, TablesStep
<1> QED
  BY <1>2, <1>3, <1>4, <1>5, <1>6, <1>7, <1>8, <1>9, <1>10 DEF Next, Step

LEMMA OwnStep ==
  TypeOK /\ LocksMatchSections /\ MadeInv /\ LeftInv /\ OwnInv /\ [Next]_vars => OwnInv'
BY OwnedStep, MadeChainedStep DEF OwnInv

LEMMA CountsInit == Init => MadeInv /\ LeftInv /\ OwnInv
<1> SUFFICES ASSUME Init PROVE MadeInv /\ LeftInv /\ OwnInv
  OBVIOUS
<1>1. MadeInv /\ LeftInv /\ MadeChained
  BY DEF Init, MadeInv, LeftInv, MadeChained, Carries
<1>2. Owned
  BY DEF Init, Owned
<1> QED
  BY <1>1, <1>2 DEF OwnInv

-----------------------------------------------------------------------------

LEMMA InChained ==
  ASSUME NEW c
  PROVE  c \in Chained <=> \E t \in Table : \E p \in t_os[t] : c = <<t, p>>
BY DEF Chained

\* The counts are those of finite sets.
ObjectsInv == IsFiniteSet(Chained) /\ ObjectsConserved

\* empty_hash_table: a push takes an object off the chains.
LEMMA EmptyPushChained ==
  ASSUME TypeOK, NEW w \in Worker, EmptyPush(w)
  PROVE  \E x \in Chained : Chained' = Chained \ {x}
<1>1. PICK h : h = ht(w)
  OBVIOUS
<1>2. h \in Table
  BY <1>1, TableRange DEF TypeOK, ht
<1>3. PICK p \in t_os[h] : t_os' = [t_os EXCEPT ![h] = @ \ {p}]
  BY <1>1 DEF EmptyPush, Foremost
<1>4. <<h, p>> \in Chained
  BY <1>2, <1>3, InChained
<1>5. ASSUME NEW c PROVE c \in Chained' <=> c \in Chained \ {<<h, p>>}
  <2>1. c \in Chained' <=> \E t \in Table : \E q \in t_os'[t] : c = <<t, q>>
    BY DEF Chained, Table, Backlog
  <2>2. ASSUME NEW t \in Table, NEW q, c = <<t, q>>
        PROVE  q \in t_os'[t] <=> q \in t_os[t] /\ c # <<h, p>>
    <3>1. CASE t = h
      BY <1>2, <1>3, <2>2, <3>1 DEF TypeOK
    <3>2. CASE t # h
      BY <1>2, <1>3, <2>2, <3>2 DEF TypeOK
    <3> QED
      BY <3>1, <3>2
  <2>3. c \in Chained <=> \E t \in Table : \E q \in t_os[t] : c = <<t, q>>
    BY InChained
  <2> QED
    BY <2>1, <2>2, <2>3
<1> QED
  BY <1>4, <1>5

\* packetize_item_group: the object popped for a packet goes on the table's chain.
LEMMA FillChained ==
  ASSUME TypeOK, OwnInv, NEW w \in Worker, Fill(w), bank > 0
  PROVE  \E x : x \notin Chained /\ Chained' = Chained \cup {x}
<1>1. PICK h : h = ht(w)
  OBVIOUS
<1>2. h \in Table
  BY <1>1, TableRange DEF TypeOK, ht
<1>3. PICK p : p = <<w, made[w] + 1>>
  OBVIOUS
<1>4. t_os' = [t_os EXCEPT ![h] = @ \cup {p}]
  BY <1>1, <1>3 DEF Fill
<1>5. p \notin t_os[h]
  <2>1. ASSUME p \in t_os[h] PROVE FALSE
    <3>1. p[1] = w /\ p[2] = made[w] + 1 /\ made[w] \in Nat
      BY <1>3 DEF TypeOK
    <3>2. p[2] \in 1 .. made[w]
      BY <1>2, <2>1, <3>1 DEF OwnInv, Owned
    <3> QED
      BY <3>1, <3>2
  <2> QED
    BY <2>1
<1>6. <<h, p>> \notin Chained
  BY <1>5, InChained
<1>7. ASSUME NEW c PROVE c \in Chained' <=> c \in Chained \cup {<<h, p>>}
  <2>1. c \in Chained' <=> \E t \in Table : \E q \in t_os'[t] : c = <<t, q>>
    BY DEF Chained, Table, Backlog
  <2>2. ASSUME NEW t \in Table, NEW q, c = <<t, q>>
        PROVE  q \in t_os'[t] <=> q \in t_os[t] \/ c = <<h, p>>
    <3>1. CASE t = h
      BY <1>2, <1>4, <2>2, <3>1 DEF TypeOK
    <3>2. CASE t # h
      BY <1>2, <1>4, <2>2, <3>2 DEF TypeOK
    <3> QED
      BY <3>1, <3>2
  <2>3. c \in Chained <=> \E t \in Table : \E q \in t_os[t] : c = <<t, q>>
    BY InChained
  <2>4. p \in t_os'[h]
    BY <1>2, <1>4 DEF TypeOK
  <2> QED
    BY <1>2, <2>1, <2>2, <2>3, <2>4
<1> QED
  BY <1>6, <1>7

LEMMA BankKept ==
  ASSUME [Next]_vars
  PROVE  \/ \E w \in Worker : EmptyPush(w)
         \/ \E w \in Worker : Fill(w) /\ bank > 0
         \/ UNCHANGED <<bank, t_os>>
BY TransmitAssumption
   DEF Next, Step, Request, Count, Number, GetTable, EmptyPush, Evicted, Fill, Send,
       Sent, Flushed, SendFails, Signal, ParentStep, Reap, Stop, Terminate, Destroy,
       SignalParent, vars, tvars

LEMMA ObjectsStep == TypeOK /\ OwnInv /\ ObjectsInv /\ [Next]_vars => ObjectsInv'
<1> SUFFICES ASSUME TypeOK, OwnInv, ObjectsInv, [Next]_vars PROVE ObjectsInv'
  OBVIOUS
<1> USE DEF ObjectsInv, ObjectsConserved
<1>1. Cardinality(Chained) \in Nat /\ bank \in Nat
  BY FS_CardinalityType DEF TypeOK
<1>2. (Backlog * Packets)' = Backlog * Packets
  BY DEF Backlog, Packets
<1>3. ASSUME NEW w \in Worker, EmptyPush(w) PROVE ObjectsInv'
  <2>1. bank' = bank + 1
    BY <1>3 DEF EmptyPush
  <2>2. PICK x : x \in Chained /\ Chained' = Chained \ {x}
    BY <1>3, EmptyPushChained
  <2>3. IsFiniteSet(Chained') /\ Cardinality(Chained') = Cardinality(Chained) - 1
    BY <2>2, FS_RemoveElement
  <2> QED
    BY <1>1, <1>2, <2>1, <2>3
<1>4. ASSUME NEW w \in Worker, Fill(w), bank > 0 PROVE ObjectsInv'
  <2>1. bank' = bank - 1
    BY <1>4 DEF Fill
  <2>2. PICK x : x \notin Chained /\ Chained' = Chained \cup {x}
    BY <1>4, FillChained
  <2>3. IsFiniteSet(Chained') /\ Cardinality(Chained') = Cardinality(Chained) + 1
    BY <2>2, FS_AddElement
  <2> QED
    BY <1>1, <1>2, <2>1, <2>3
<1>5. CASE UNCHANGED <<bank, t_os>>
  BY <1>2, <1>5 DEF Chained, Table, Backlog
<1> QED
  BY <1>3, <1>4, <1>5, BankKept

LEMMA ObjectsInit == Init => ObjectsInv
<1> SUFFICES ASSUME Init PROVE ObjectsInv
  OBVIOUS
<1>1. Chained = {}
  BY InChained DEF Init
<1>2. Backlog * Packets \in Nat
  BY BacklogType, PacketsType
<1> QED
  BY <1>1, <1>2, FS_EmptySet DEF Init, ObjectsInv, ObjectsConserved

\* The most packets a heap can have.
Most == PacketsOf(ChunkSize)

LEMMA MostType == Most \in Nat \ {0}
<1>1. ChunkSize \in 1 .. ChunkSize
  BY TransmitAssumption
<1> QED
  BY <1>1, PacketsOfBounds DEF Most

\* A worker has made no more packets than the largest heap has.
MadeMost == \A w \in Worker : made[w] <= Most

LEMMA NextMade ==
  ASSUME TypeOK, MadeInv, NEW w \in Worker, pc[w] = "fill"
  PROVE  made[w] + 1 \in 1 .. Most
<1>1. got[w] \in 1 .. ChunkSize /\ made[w] < PacketsOf(got[w]) /\ made[w] \in Nat
  BY DEF MadeInv, Carries, TypeOK
<1>2. PacketsOf(got[w]) \in Nat /\ PacketsOf(got[w]) <= Most
  BY <1>1, PacketsOfBounds DEF Most
<1> QED
  BY <1>1, <1>2, MostType

LEMMA MostStep == TypeOK /\ MadeInv /\ MadeMost /\ [Next]_vars => MadeMost'
<1> SUFFICES ASSUME TypeOK, MadeInv, MadeMost, [Next]_vars, NEW v \in Worker
             PROVE  made'[v] <= Most'
  BY DEF MadeMost
<1>1. Most' = Most
  BY DEF Most, PacketsOf
<1>2. made[v] <= Most
  BY DEF MadeMost
<1>3. ASSUME NEW w \in Worker, Fill(w) PROVE made'[v] <= Most
  <2>1. pc[w] = "fill" /\ made'[v] \in {made[v], IF v = w THEN made[w] + 1 ELSE made[v]}
    BY <1>3 DEF Fill, TypeOK
  <2> QED
    BY <1>2, <2>1, NextMade
<1>4. ASSUME NEW w \in Worker, GetTable(w) PROVE made'[v] <= Most
  <2>1. made'[v] \in {made[v], 0}
    BY <1>4 DEF GetTable, TypeOK
  <2> QED
    BY <1>2, <2>1, MostType
<1>5. ASSUME NEW w \in Worker,
             Request(w) \/ Count(w) \/ Number(w) \/ EmptyPush(w) \/ Evicted(w)
               \/ Send(w) \/ Sent(w) \/ Flushed(w) \/ SendFails(w) \/ Signal(w)
      PROVE  made' = made
  BY <1>5 DEF Request, Count, Number, EmptyPush, Evicted, Send, Sent, Flushed, SendFails,
              Signal, wvars
<1>6. ASSUME ParentStep \/ SignalParent \/ UNCHANGED vars PROVE made' = made
  BY <1>6 DEF ParentStep, Reap, Stop, Terminate, Destroy, SignalParent, vars, wvars
<1> QED
  BY <1>1, <1>2, <1>3, <1>4, <1>5, <1>6 DEF Next, Step

\* The invariants about tables and packets.
PacketInv ==
  /\ TypeOK /\ LocksMatchSections
  /\ MadeInv /\ MadeMost /\ LeftInv /\ OwnInv /\ ObjectsInv

LEMMA PacketsCounted == Spec => []PacketInv
<1>1. Init => PacketInv
  <2>1. Init => MadeMost
    BY MostType DEF Init, MadeMost
  <2> QED
    BY <2>1, InitType, LocksInit, CountsInit, ObjectsInit DEF PacketInv
<1>2. PacketInv /\ [Next]_vars => PacketInv'
  BY TypeStep, LocksStep, MadeStep, MostStep, LeftStep, OwnStep, ObjectsStep DEF PacketInv
<1> QED
  BY <1>1, <1>2, PTL DEF Spec

\* No object of the shared store is lost or doubled, whatever the interleaving
\* of the workers that pop and push them and whichever sends fail.
THEOREM Conservation == Spec => []ObjectsConserved
<1>1. PacketInv => ObjectsConserved
  BY DEF PacketInv, ObjectsInv
<1> QED
  BY <1>1, PacketsCounted, PTL

-----------------------------------------------------------------------------

\* The register_speadtx store, against the packets of the largest heap.
LEMMA StoreBound ==
  ASSUME PacketInv, Most <= 2 * Packets, NEW w \in Worker, pc[w] = "fill"
  PROVE  bank > 0
<1> DEFINE Room == Worker \X (1 .. Most)
<1>1. PICK f : f = [c \in Chained |-> c[2]]
  OBVIOUS
<1>2. PICK y : y = <<w, made[w] + 1>>
  OBVIOUS
<1>3. y \in Room /\ y[1] = w /\ y[2] = made[w] + 1
  BY <1>2, NextMade DEF PacketInv
<1>4. ASSUME NEW c \in Chained
      PROVE  c[2] \in Room \ {y} /\ c = <<ht(c[2][1]), c[2]>>
  <2>0. PICK t \in Table : \E p \in t_os[t] : c = <<t, p>>
    BY <1>4, InChained
  <2>1. PICK p \in t_os[t] : c = <<t, p>> /\ c[2] = p
    BY <2>0
  <2>2. PICK v \in Worker, k \in Nat : p = <<v, k>> /\ p[1] = v /\ p[2] = k
    BY <2>1, PacketType DEF PacketInv
  <2>3. t = ht(v) /\ k \in 1 .. made[v]
    BY <2>1, <2>2 DEF PacketInv, OwnInv, Owned
  <2>4. made[v] <= Most /\ made[v] \in Nat
    BY DEF PacketInv, MadeMost, TypeOK
  <2>5. k \in 1 .. Most
    BY <2>3, <2>4, MostType
  <2>6. p # y
    BY <1>3, <2>2, <2>3, <2>4
  <2> QED
    BY <2>1, <2>2, <2>3, <2>5, <2>6
<1>5. f \in Injection(Chained, Room \ {y})
  <2>1. f \in [Chained -> Room \ {y}]
    BY <1>1, <1>4
  <2>2. ASSUME NEW c \in Chained, NEW d \in Chained, f[c] = f[d] PROVE c = d
    BY <1>1, <1>4, <2>2
  <2> QED
    BY <2>1, <2>2 DEF Injection, IsInjective
<1>6. IsFiniteSet(Room) /\ Cardinality(Room) = Cardinality(Worker) * Most
  <2>1. IsFiniteSet(1 .. Most) /\ Cardinality(1 .. Most) = Most
    BY MostType, FS_Interval
  <2> QED
    BY <2>1, FS_Product, TransmitAssumption
<1>7. /\ IsFiniteSet(Room \ {y})
      /\ Cardinality(Room \ {y}) = Cardinality(Worker) * Most - 1
  <2> HIDE DEF Room
  <2> QED
    BY <1>3, <1>6, FS_RemoveElement
<1>8. Cardinality(Chained) <= Cardinality(Worker) * Most - 1
  BY <1>5, <1>7, FS_Injection
<1>9. /\ bank + Cardinality(Chained) = (2 * Cardinality(Worker)) * Packets
      /\ Cardinality(Chained) \in Nat /\ bank \in Nat /\ Cardinality(Worker) \in Nat
  BY FS_CardinalityType, TransmitAssumption
     DEF PacketInv, ObjectsInv, ObjectsConserved, TypeOK, Backlog
<1>10. Cardinality(Worker) * Most <= (2 * Cardinality(Worker)) * Packets
  <2>1. (2 * Cardinality(Worker)) * Packets = (2 * Packets) * Cardinality(Worker)
    BY <1>9, PacketsType
  <2>2. Cardinality(Worker) * Most = Most * Cardinality(Worker)
    BY <1>9, MostType
  <2>3. Most \in Nat /\ 2 * Packets \in Nat
    BY MostType, PacketsType
  <2> QED
    BY <1>9, <2>1, <2>2, <2>3, TimesMono
<1>11. Cardinality(Worker) * Most \in Nat /\ (2 * Cardinality(Worker)) * Packets \in Nat
  BY <1>9, MostType, PacketsType
<1> QED
  BY <1>8, <1>9, <1>10, <1>11

\* The store is large enough for the heaps of a file whose items take up to
\* three packets besides the chunk.
LEMMA EnoughPackets == Overhead <= 3 * PktSize => Most <= 2 * Packets
<1> SUFFICES ASSUME Overhead <= 3 * PktSize PROVE Most <= 2 * Packets
  OBVIOUS
<1>1. ASSUME NEW c \in Nat \ {0}, NEW p \in Nat \ {0}, NEW o \in Nat, o <= 3 * p
      PROVE  (c + o + p - 1) \div p <= 2 * ((c \div p) + 2)
  BY <1>1
<1> QED
  BY <1>1, TransmitAssumption DEF Most, PacketsOf, Packets

\* The store of 2 * workers tables with chunk / packet + 2 objects each never
\* runs out while a heap is cut into packets, however many workers there are
\* and whatever the workers whose send failed have left in their tables, if
\* the items of a heap take no more than three packets besides the chunk.
THEOREM StoreSuffices ==
  ASSUME Overhead <= 3 * PktSize
  PROVE  Spec => []BankSuffices
<1>1. PacketInv => BankSuffices
  BY StoreBound, EnoughPackets DEF BankSuffices
<1> QED
  BY <1>1, PacketsCounted, PTL

-----------------------------------------------------------------------------

\* Nothing of the rest of the file has gone out.
Untouched == \A b \in Byte : b >= f_off => sent[b] = 0

\* The byte's packet has been sent by the worker that is sending its heap.
Out(w, b) ==
  /\ pc[w] = "send"
  /\ \E k \in 1 .. made[w] : b \in Payload(w, k) /\ <<w, k>> \notin left[w]

\* Of a chunk that somebody works on, the bytes in packets sent are out, once.
OwnSent ==
  \A w \in Worker : Carries(w) =>
    \A b \in Chunk(w) : sent[b] = IF Out(w, b) THEN 1 ELSE 0

\* What is out more than once is of a chunk whose send failed.
Repeats == \A b \in Byte : sent[b] <= 1 \/ \E v \in FailedSends : b \in Chunk(v)

Bounded == \A b \in Byte : sent[b] <= 1 + Cardinality(FailedSends)

\* The holder of the table has sent the packet, if it had to.
Passed(t, p) ==
  \E w \in Worker : ht(w) = t /\ pc[w] \in {"send", "flush"} /\ p \notin left[w]

\* What a failed send left in a table may go out with the next heap there, and
\* counts then one time more than now.
Leftovers ==
  \A t \in Table : \A p \in t_os[t] :
    p[1] \in FailedSends /\ ~Passed(t, p) =>
      \A b \in Payload(p[1], p[2]) : sent[b] <= Cardinality(FailedSends)

SentInv == Untouched /\ OwnSent /\ Repeats /\ Bounded /\ Leftovers

\* The worker sends packet k of a heap of v: its own, or one whose send failed.
SendsPacket(w, v, k) ==
  /\ k \in 1 .. made[v] /\ ht(v) = ht(w)
  /\ <<v, k>> \in left[w] /\ <<v, k>> \in t_os[ht(w)]
  /\ v = w \/ v \in FailedSends
  /\ left' = [left EXCEPT ![w] = @ \ {<<v, k>>}]
  /\ sent' = [b \in Byte |-> IF b \in Payload(v, k) THEN sent[b] + 1 ELSE sent[b]]

\* The packet a step of the traversal sends is the worker's own, or one a
\* failed send left in the table.
LEMMA SendPacket ==
  ASSUME PacketInv, NEW w \in Worker, Send(w)
  PROVE  \E v \in Worker, k \in Nat : SendsPacket(w, v, k)
<1>1. PICK p \in left[w] :
        /\ left' = [left EXCEPT ![w] = @ \ {p}]
        /\ sent' = [b \in Byte |->
                      IF b \in Payload(p[1], p[2]) THEN sent[b] + 1 ELSE sent[b]]
  BY DEF Send, Foremost
<1>2. pc[w] = "send" /\ Inside(w) /\ ht(w) \in Table
  BY TableRange DEF Send, Inside, PacketInv, TypeOK, ht
<1>3. p \in t_os[ht(w)]
  BY <1>1, <1>2 DEF PacketInv, LeftInv
<1>4. PICK v \in Worker, k \in Nat : p = <<v, k>> /\ p[1] = v /\ p[2] = k
  BY <1>2, <1>3, PacketType DEF PacketInv
<1>5. Owning(v) /\ ht(v) = ht(w) /\ k \in 1 .. made[v]
  BY <1>2, <1>3, <1>4 DEF PacketInv, OwnInv, Owned
<1>6. v = w \/ v \in FailedSends
  <2>1. CASE pc[v] \in {"fill", "send", "flush"}
    BY <1>2, <1>5, <2>1, OneInside DEF PacketInv, Inside
  <2>2. CASE v \in FailedSends
    BY <2>2
  <2> QED
    BY <1>5, <2>1, <2>2 DEF Owning
<1>7. SendsPacket(w, v, k)
  BY <1>1, <1>3, <1>4, <1>5, <1>6 DEF SendsPacket
<1> QED
  BY <1>7

LEMMA SendUnchanged ==
  ASSUME NEW w \in Worker, Send(w)
  PROVE  /\ pc[w] = "send"
         /\ UNCHANGED <<f_off, pc, off, got, hid, made, t_os, pvars>>
         /\ \A v \in Worker : ht(v)' = ht(v)
BY DEF Send, tvars, ht, Backlog

LEMMA SentKept ==
  ASSUME [Next]_vars
  PROVE  sent' = sent \/ \E w \in Worker : Send(w)
BY DEF Next, Step, Request, Count, Number, GetTable, EmptyPush, Evicted, Fill, Sent,
       Flushed, SendFails, Signal, ParentStep, Reap, Stop, Terminate, Destroy,
       SignalParent, vars

LEMMA ChunkBelow ==
  ASSUME TypeOK, ChunkInv, NEW v \in Worker, Holds(v), NEW b \in Chunk(v)
  PROVE  b \in Byte /\ b < f_off
<1>1. off[v] + got[v] <= f_off
  BY DEF ChunkInv, ChunksHandedOut
<1>2. b \in Int /\ b \in Byte /\ b < off[v] + got[v]
  BY DEF Chunk, Byte
<1>3. off[v] \in Nat /\ got[v] \in Nat /\ f_off \in Nat
  BY DEF TypeOK
<1> QED
  BY <1>1, <1>2, <1>3

LEMMA PayloadInChunk ==
  ASSUME NEW v \in Worker, NEW k, NEW b \in Payload(v, k)
  PROVE  b \in Chunk(v)
BY DEF Payload

\* The bytes of a packet that is still to be sent by its own worker.
LEMMA OwnFresh ==
  ASSUME PacketInv, OwnSent, NEW w \in Worker, pc[w] = "send",
         NEW k \in Nat, <<w, k>> \in left[w], NEW b \in Payload(w, k)
  PROVE  sent[b] = 0
<1>1. Carries(w) /\ b \in Chunk(w)
  BY PayloadInChunk DEF Carries
<1>2. ~Out(w, b)
  <2>1. ASSUME NEW j \in 1 .. made[w], b \in Payload(w, j), <<w, j>> \notin left[w]
        PROVE  FALSE
    <3>1. j \in Nat /\ j # k
      BY <2>1 DEF PacketInv, TypeOK
    <3> QED
      BY <2>1, <3>1, PayloadApart DEF PacketInv
  <2> QED
    BY <2>1 DEF Out
<1> QED
  BY <1>1, <1>2 DEF OwnSent

LEMMA UntouchedStep ==
  ASSUME PacketInv, ChunkInv, SentInv, [Next]_vars
  PROVE  Untouched'
<1> SUFFICES ASSUME NEW b \in Byte, b >= f_off' PROVE sent'[b] = 0
  BY DEF Untouched, Byte
<1>1. f_off \in Nat /\ b \in Int
  BY DEF PacketInv, TypeOK, Byte
<1>2. ASSUME NEW w \in Worker, Send(w) PROVE sent'[b] = 0
  <2>1. f_off' = f_off
    BY <1>2, SendUnchanged
  <2>0. PICK v \in Worker, k \in Nat : SendsPacket(w, v, k)
    BY <1>2, SendPacket
  <2>2. /\ v = w \/ v \in FailedSends
        /\ sent' = [c \in Byte |->
                      IF c \in Payload(v, k) THEN sent[c] + 1 ELSE sent[c]]
    BY <2>0 DEF SendsPacket
  <2>3. Holds(v)
    BY <1>2, <2>2, SendUnchanged DEF Holds, Carries
  <2>4. ASSUME b \in Payload(v, k) PROVE FALSE
    <3>1. b < f_off
      BY <2>3, <2>4, PayloadInChunk, ChunkBelow DEF PacketInv
    <3> QED
      BY <1>1, <2>1, <3>1
  <2>5. sent'[b] = sent[b]
    BY <2>2, <2>4
  <2> QED
    BY <2>1, <2>5 DEF SentInv, Untouched
<1>3. CASE ~\E w \in Worker : Send(w)
  <2>1. sent' = sent
    BY <1>3, SentKept
  <2>2. ASSUME NEW w \in Worker, Request(w) PROVE f_off' \in Nat /\ f_off <= f_off'
    <3>1. f_off' = f_off \/ (f_off' = f_off + Remaining /\ Remaining \in 1 .. ChunkSize)
      BY <2>2, RequestHolds DEF PacketInv
    <3> QED
      BY <1>1, <3>1, TransmitAssumption
  <2>3. CASE ~\E w \in Worker : Request(w)
    <3>1. f_off' = f_off
      BY <2>3 DEF Next, Step, Count, Number, GetTable, EmptyPush, Evicted, Fill, Send,
                  Sent, Flushed, SendFails, Signal, ParentStep, Reap, Stop, Terminate,
                  Destroy, SignalParent, vars
    <3> QED
      BY <2>1, <3>1 DEF SentInv, Untouched
  <2>4. CASE f_off' \in Nat /\ f_off <= f_off'
    <3>1. b >= f_off
      BY <1>1, <2>4
    <3> QED
      BY <2>1, <3>1 DEF SentInv, Untouched
  <2> QED
    BY <2>2, <2>3, <2>4
<1> QED
  BY <1>2, <1>3

\* The steps that neither send nor take a chunk leave a byte sent, or not sent.
LEMMA OutKept ==
  ASSUME PacketInv, MadeChained', [Next]_vars, NEW v \in Worker, Carries(v)', ~Request(v),
         ~Send(v), NEW b
  PROVE  Out(v, b)' = Out(v, b)
<1> USE DEF PacketInv, TypeOK, Goto, tvars, wvars, pvars
<1>1. ASSUME NEW w \in Worker, w # v, Step(w) \/ SendFails(w) \/ Signal(w)
      PROVE  /\ pc'[v] = pc[v] /\ left'[v] = left[v] /\ made'[v] = made[v]
             /\ off'[v] = off[v] /\ got'[v] = got[v]
  <2>1. CASE Request(w)
    BY <1>1, <2>1, RequestCases
  <2>2. CASE ~Request(w)
    BY <1>1, <2>2 DEF Step, Count, Number, GetTable, EmptyPush, Evicted, Fill, Send,
                      Sent, Flushed, SendFails, Signal
  <2> QED
    BY <2>1, <2>2
<1>2. ASSUME ParentStep \/ SignalParent \/ UNCHANGED vars
      PROVE  UNCHANGED <<pc, left, made, off, got>>
  BY <1>2 DEF ParentStep, Reap, Stop, Terminate, Destroy, SignalParent, vars
<1>3. ASSUME Count(v) \/ Number(v) \/ GetTable(v) \/ EmptyPush(v) \/ Evicted(v)
               \/ Sent(v) \/ Flushed(v) \/ SendFails(v) \/ Signal(v)
      PROVE  pc[v] # "send" /\ pc'[v] # "send"
  BY <1>3 DEF Carries, Count, Number, GetTable, EmptyPush, Evicted, Sent, Flushed,
              SendFails, Signal
<1>4. ASSUME Fill(v) PROVE Out(v, b)' = Out(v, b)
  <2>1. pc[v] = "fill" /\ pc'[v] \in {"fill", "send"} /\ left'[v] = t_os'[ht(v)]
        /\ ht(v)' = ht(v)
    BY <1>4 DEF Fill, ht, Backlog
  <2>2. \A k \in 1 .. made'[v] : <<v, k>> \in left'[v]
    BY <2>1 DEF MadeChained
  <2> QED
    BY <2>1, <2>2 DEF Out
<1>5. ASSUME pc'[v] = pc[v], left'[v] = left[v], made'[v] = made[v],
             off'[v] = off[v], got'[v] = got[v]
      PROVE  Out(v, b)' = Out(v, b)
  BY <1>5 DEF Out, Payload, Chunk, Byte
<1>6. ASSUME pc[v] # "send", pc'[v] # "send" PROVE Out(v, b)' = Out(v, b)
  BY <1>6 DEF Out
<1>7. ASSUME NEW w \in Worker, w # v, Step(w) \/ SendFails(w) \/ Signal(w)
      PROVE  Out(v, b)' = Out(v, b)
  BY <1>1, <1>5, <1>7
<1>8. ASSUME ParentStep \/ SignalParent \/ UNCHANGED vars PROVE Out(v, b)' = Out(v, b)
  BY <1>2, <1>5, <1>8
<1>9. ASSUME Count(v) \/ Number(v) \/ GetTable(v) \/ EmptyPush(v) \/ Evicted(v)
               \/ Sent(v) \/ Flushed(v) \/ SendFails(v) \/ Signal(v)
      PROVE  Out(v, b)' = Out(v, b)
  BY <1>3, <1>6, <1>9
<1> HIDE DEF PacketInv, TypeOK, Goto, tvars, wvars, pvars
<1> QED
  BY <1>4, <1>7, <1>8, <1>9 DEF Next, Step

LEMMA OwnSentStep ==
  ASSUME PacketInv, ChunkInv, SentInv, MadeChained', [Next]_vars
  PROVE  OwnSent'
<1> SUFFICES ASSUME NEW v \in Worker, Carries(v)', NEW b \in Chunk(v)'
             PROVE  sent'[b] = IF Out(v, b)' THEN 1 ELSE 0
  BY DEF OwnSent
<1>1. b \in Byte
  BY DEF Chunk, Byte
<1>2. CASE Request(v)
  <2>1. /\ off'[v] = f_off /\ pc'[v] = "count" /\ sent' = sent
    BY <1>2, RequestHolds DEF PacketInv, Holds
  <2>2. b >= f_off
    BY <2>1 DEF Chunk, Byte, PacketInv, TypeOK
  <2>3. sent'[b] = 0
    BY <1>1, <2>1, <2>2 DEF SentInv, Untouched
  <2>4. ~Out(v, b)'
    BY <2>1 DEF Out
  <2> QED
    BY <2>3, <2>4
<1>3. CASE \E w \in Worker : Send(w)
  <2>1. PICK w \in Worker : Send(w)
    BY <1>3
  <2>0. PICK u \in Worker, k \in Nat : SendsPacket(w, u, k)
    BY <2>1, SendPacket
  <2>2. /\ <<u, k>> \in left[w] /\ k \in 1 .. made[u]
        /\ u = w \/ u \in FailedSends
        /\ left' = [left EXCEPT ![w] = @ \ {<<u, k>>}]
        /\ sent' = [c \in Byte |->
                      IF c \in Payload(u, k) THEN sent[c] + 1 ELSE sent[c]]
    BY <2>0 DEF SendsPacket
  <2>3. /\ pc[w] = "send" /\ UNCHANGED <<pc, off, got, made>>
    BY <2>1, SendUnchanged
  <2>4. Carries(v) /\ b \in Chunk(v) /\ Holds(v) /\ v \notin FailedSends
    BY <2>3 DEF Carries, Chunk, Byte, Holds, FailedSends
  <2>5. \A j : Payload(v, j)' = Payload(v, j)
    BY <2>3 DEF Payload, Chunk, Byte
  <2>6. sent[b] = IF Out(v, b) THEN 1 ELSE 0
    BY <2>4 DEF SentInv, OwnSent
  <2>7. CASE u = v /\ b \in Payload(u, k)
    <3>1. v = w
      BY <2>2, <2>4, <2>7
    <3>2. sent[b] = 0
      BY <2>2, <2>3, <2>7, <3>1, OwnFresh DEF SentInv
    <3>3. <<v, k>> \notin left'[v]
      BY <2>2, <2>7, <3>1 DEF PacketInv, TypeOK
    <3>4. Out(v, b)'
      BY <2>2, <2>3, <2>5, <2>7, <3>1, <3>3 DEF Out
    <3> QED
      BY <1>1, <2>2, <2>7, <3>2, <3>4
  <2>8. CASE ~(u = v /\ b \in Payload(u, k))
    <3>1. b \notin Payload(u, k)
      <4>1. CASE u # v
        <5>1. Holds(u)
          BY <2>2, <2>3 DEF Holds, Carries
        <5>2. b \notin Chunk(u)
          BY <2>4, <4>1, <5>1, ChunkApart DEF PacketInv
        <5> QED
          BY <5>2, PayloadInChunk
      <4> QED
        BY <2>8, <4>1
    <3>2. sent'[b] = sent[b]
      BY <1>1, <2>2, <3>1
    <3>3. ASSUME NEW j, b \in Payload(v, j)
          PROVE  <<v, j>> \in left'[v] <=> <<v, j>> \in left[v]
      <4>1. <<v, j>> # <<u, k>>
        BY <3>1, <3>3
      <4> QED
        BY <2>2, <4>1 DEF PacketInv, TypeOK
    <3>4. Out(v, b)' = Out(v, b)
      BY <2>3, <2>5, <3>3 DEF Out
    <3> QED
      BY <2>6, <3>2, <3>4
  <2> QED
    BY <2>7, <2>8
<1>4. CASE ~Request(v) /\ ~\E w \in Worker : Send(w)
  <2>1. sent' = sent
    BY <1>4, SentKept
  <2>2. Out(v, b)' = Out(v, b)
    BY <1>4, OutKept
  <2>3. Holds(v)'
    BY DEF Holds
  <2>4. Holds(v) /\ off'[v] = off[v] /\ got'[v] = got[v]
    BY <1>4, <2>3, HoldsStep DEF PacketInv
  <2>5. b \in Chunk(v)
    BY <2>4 DEF Chunk, Byte
  <2>6. Carries(v)
    <3>1. CASE v \in FailedSends
      <4>1. v \in FailedSends' /\ pc'[v] = "exited"
        BY <3>1, FailedStep DEF PacketInv, FailedSends
      <4> QED
        BY <4>1 DEF Carries
    <3> QED
      BY <2>4, <3>1 DEF Holds
  <2> QED
    BY <2>1, <2>2, <2>5, <2>6 DEF SentInv, OwnSent
<1> QED
  BY <1>2, <1>3, <1>4

\* A worker whose send failed keeps its chunk.
LEMMA FailedKept ==
  ASSUME TypeOK, LeftInv, [Next]_vars, NEW v \in FailedSends
  PROVE  /\ v \in Worker /\ v \in FailedSends'
         /\ off'[v] = off[v] /\ got'[v] = got[v]
<1>1. v \in Worker /\ pc[v] = "exited" /\ v \in FailedSends'
  BY FailedStep DEF FailedSends
<1>2. Holds(v)' /\ ~Request(v)
  BY <1>1 DEF Holds, Request
<1> QED
  BY <1>1, <1>2, HoldsStep

LEMMA FailedGrows ==
  ASSUME TypeOK, LeftInv, [Next]_vars
  PROVE  /\ FailedSends \in SUBSET Worker
         /\ Cardinality(FailedSends) \in Nat /\ Cardinality(FailedSends') \in Nat
         /\ Cardinality(FailedSends) <= Cardinality(FailedSends')
         /\ (\E w \in Worker : SendFails(w)) =>
              Cardinality(FailedSends') = Cardinality(FailedSends) + 1
<1>1. FailedSends \in SUBSET Worker /\ FailedSends' \in SUBSET Worker
  BY DEF FailedSends
<1>2. Cardinality(FailedSends) \in Nat /\ Cardinality(FailedSends') \in Nat
  BY <1>1, FailedCount
<1>3. ASSUME NEW w \in Worker, SendFails(w)
      PROVE  Cardinality(FailedSends') = Cardinality(FailedSends) + 1
  <2>1. w \notin FailedSends /\ FailedSends' = FailedSends \cup {w}
    BY <1>3 DEF FailedSends, SendFails, Goto, TypeOK
  <2> QED
    BY <1>1, <2>1, FailedCount
<1> QED
  BY <1>1, <1>2, <1>3, FailedStep

LEMMA RepeatsStep ==
  ASSUME PacketInv, ChunkInv, SentInv, [Next]_vars
  PROVE  Repeats'
<1> SUFFICES ASSUME NEW b \in Byte
             PROVE  sent'[b] <= 1 \/ \E v \in FailedSends' : b \in Chunk(v)'
  BY DEF Repeats, Byte
<1>1. ASSUME NEW v \in FailedSends, b \in Chunk(v)
      PROVE  v \in FailedSends' /\ b \in Chunk(v)'
  BY <1>1, FailedKept DEF PacketInv, Chunk, Byte
<1>2. sent[b] <= 1 \/ \E v \in FailedSends : b \in Chunk(v)
  BY DEF SentInv, Repeats
<1>3. CASE sent' = sent
  BY <1>1, <1>2, <1>3
<1>4. ASSUME NEW w \in Worker, Send(w)
      PROVE  sent'[b] <= 1 \/ \E v \in FailedSends : b \in Chunk(v)
  <2>0. PICK v \in Worker, k \in Nat : SendsPacket(w, v, k)
    BY <1>4, SendPacket
  <2>1. /\ <<v, k>> \in left[w]
        /\ v = w \/ v \in FailedSends
        /\ sent' = [c \in Byte |->
                      IF c \in Payload(v, k) THEN sent[c] + 1 ELSE sent[c]]
    BY <2>0 DEF SendsPacket
  <2>2. CASE b \in Payload(v, k) /\ v = w
    <3>1. sent[b] = 0
      BY <1>4, <2>1, <2>2, OwnFresh, SendUnchanged DEF SentInv
    <3> QED
      BY <2>1, <2>2, <3>1
  <2>3. CASE b \in Payload(v, k) /\ v \in FailedSends
    BY <2>3, PayloadInChunk
  <2>4. CASE b \notin Payload(v, k)
    BY <1>2, <2>1, <2>4
  <2> QED
    BY <2>1, <2>2, <2>3, <2>4
<1> QED
  BY <1>1, <1>3, <1>4, SentKept

LEMMA BoundedStep ==
  ASSUME PacketInv, ChunkInv, SentInv, [Next]_vars
  PROVE  Bounded'
<1> SUFFICES ASSUME NEW b \in Byte
             PROVE  sent'[b] <= 1 + Cardinality(FailedSends')
  BY DEF Bounded, Byte
<1>1. /\ Cardinality(FailedSends) \in Nat /\ Cardinality(FailedSends') \in Nat
      /\ Cardinality(FailedSends) <= Cardinality(FailedSends')
  BY FailedGrows DEF PacketInv
<1>2. sent[b] <= 1 + Cardinality(FailedSends) /\ sent[b] \in Nat
  BY DEF SentInv, Bounded, PacketInv, TypeOK
<1>3. CASE sent' = sent
  BY <1>1, <1>2, <1>3
<1>4. ASSUME NEW w \in Worker, Send(w)
      PROVE  sent'[b] <= 1 + Cardinality(FailedSends) /\ sent'[b] \in Nat
  <2>0. PICK v \in Worker, k \in Nat : SendsPacket(w, v, k)
    BY <1>4, SendPacket
  <2>1. /\ <<v, k>> \in left[w] /\ <<v, k>> \in t_os[ht(w)]
        /\ v = w \/ v \in FailedSends
        /\ sent' = [c \in Byte |->
                      IF c \in Payload(v, k) THEN sent[c] + 1 ELSE sent[c]]
    BY <2>0 DEF SendsPacket
  <2>2. CASE b \in Payload(v, k) /\ v = w
    <3>1. sent[b] = 0
      BY <1>4, <2>1, <2>2, OwnFresh, SendUnchanged DEF SentInv
    <3> QED
      BY <1>1, <2>1, <2>2, <3>1
  <2>3. CASE b \in Payload(v, k) /\ v \in FailedSends
    <3>0. PICK p : p = <<v, k>>
      OBVIOUS
    <3>1. p = <<v, k>> /\ p[1] = v /\ p[2] = k
      BY <3>0
    <3>2. ht(w) \in Table /\ Inside(w)
      BY <1>4, SendUnchanged, TableRange DEF PacketInv, TypeOK, Inside, ht
    <3>3. ~Passed(ht(w), p)
      <4>1. ASSUME NEW x \in Worker, ht(x) = ht(w), pc[x] \in {"send", "flush"},
                   p \notin left[x]
            PROVE  FALSE
        <5>1. x = w
          BY <3>2, <4>1, OneInside DEF Inside, PacketInv
        <5> QED
          BY <2>1, <3>1, <4>1, <5>1
      <4> QED
        BY <4>1 DEF Passed
    <3>4. sent[b] <= Cardinality(FailedSends)
      BY <2>1, <2>3, <3>1, <3>2, <3>3 DEF SentInv, Leftovers
    <3> QED
      BY <1>1, <1>2, <2>1, <2>3, <3>4
  <2>4. CASE b \notin Payload(v, k)
    BY <1>2, <2>1, <2>4
  <2> QED
    BY <2>1, <2>2, <2>3, <2>4
<1> QED
  BY <1>1, <1>3, <1>4, SentKept

\* A packet passed by stays so while the holder has the table.
LEMMA PassedKept ==
  ASSUME PacketInv, [Next]_vars, \A w \in Worker : ~SendFails(w),
         NEW t \in Table, NEW p \in t_os[t], Passed(t, p)
  PROVE  Passed(t, p)'
<1> USE DEF Goto, tvars, wvars, pvars
<1>1. PICK x \in Worker : ht(x) = t /\ pc[x] \in {"send", "flush"} /\ p \notin left[x]
  BY DEF Passed
<1> SUFFICES /\ hid'[x] = hid[x] /\ pc'[x] \in {"send", "flush"} /\ p \notin left'[x]
  BY <1>1 DEF Passed, ht, Backlog
<1>2. ASSUME NEW w \in Worker, w # x, Step(w) \/ Signal(w)
      PROVE  pc'[x] = pc[x] /\ left'[x] = left[x] /\ hid'[x] = hid[x]
  <2>1. CASE Request(w)
    BY <1>2, <2>1, RequestCases DEF PacketInv, TypeOK
  <2>2. CASE ~Request(w)
    BY <1>2, <2>2 DEF Step, Count, Number, GetTable, EmptyPush, Evicted, Fill, Send,
                      Sent, Flushed, Signal, PacketInv, TypeOK
  <2> QED
    BY <2>1, <2>2
<1>3. ASSUME Send(x) PROVE UNCHANGED <<pc, hid>> /\ left'[x] \subseteq left[x]
  BY <1>3 DEF Send, PacketInv, TypeOK
<1>4. ASSUME Sent(x) PROVE UNCHANGED <<left, hid>> /\ pc'[x] = "flush"
  BY <1>4 DEF Sent, PacketInv, TypeOK
<1>5. ASSUME EmptyPush(x) PROVE UNCHANGED <<pc, left, hid>>
  BY <1>5 DEF EmptyPush
<1>6. ASSUME Flushed(x) PROVE FALSE
  BY <1>1, <1>6 DEF Flushed
<1>7. ASSUME Request(x) \/ Count(x) \/ Number(x) \/ GetTable(x) \/ Evicted(x) \/ Fill(x)
               \/ Signal(x)
      PROVE  FALSE
  BY <1>1, <1>7 DEF Request, Count, Number, GetTable, Evicted, Fill, Signal
<1>8. ASSUME ParentStep \/ SignalParent \/ UNCHANGED vars PROVE UNCHANGED <<pc, left, hid>>
  BY <1>8 DEF ParentStep, Reap, Stop, Terminate, Destroy, SignalParent, vars
<1> QED
  BY <1>1, <1>2, <1>3, <1>4, <1>5, <1>6, <1>7, <1>8 DEF Next, Step

LEMMA LeftoversStep ==
  ASSUME PacketInv, ChunkInv, SentInv, Bounded', [Next]_vars
  PROVE  Leftovers'
<1> SUFFICES ASSUME NEW t \in Table, NEW p \in t_os'[t], p[1] \in FailedSends',
                    ~Passed(t, p)', NEW b \in Payload(p[1], p[2])'
             PROVE  sent'[b] <= Cardinality(FailedSends')
  BY DEF Leftovers, Table, Backlog
<1>1. b \in Byte
  BY DEF Payload, Chunk, Byte
<1>2. CASE \E w \in Worker : SendFails(w)
  <2>1. PICK w \in Worker : SendFails(w)
    BY <1>2
  <2>2. sent' = sent
    BY <2>1 DEF SendFails
  <2>3. /\ Cardinality(FailedSends') = Cardinality(FailedSends) + 1
        /\ Cardinality(FailedSends) \in Nat
    BY <2>1, FailedGrows DEF PacketInv
  <2>4. sent[b] <= 1 + Cardinality(FailedSends)
    BY <1>1 DEF SentInv, Bounded
  <2>5. 1 + Cardinality(FailedSends) = Cardinality(FailedSends) + 1
    BY <2>3
  <2> QED
    BY <2>2, <2>3, <2>4, <2>5
<1>3. CASE ~\E w \in Worker : SendFails(w)
  <2>1. FailedSends' = FailedSends
    BY <1>3, FailedStep DEF PacketInv
  <2>2. p \in t_os[t]
    <3>1. ASSUME NEW w \in Worker, EmptyPush(w) PROVE p \in t_os[t]
      BY <3>1, TableRange DEF EmptyPush, PacketInv, TypeOK
    <3>2. ASSUME NEW w \in Worker, Fill(w), p \notin t_os[t],
                 t_os' = [t_os EXCEPT ![ht(w)] = @ \cup {<<w, made[w] + 1>>}]
          PROVE  FALSE
      <4>1. p = <<w, made[w] + 1>>
        BY <3>2, TableRange DEF PacketInv, TypeOK
      <4>2. p[1] = w /\ pc[w] = "fill"
        BY <3>2, <4>1 DEF Fill
      <4> QED
        BY <2>1, <4>2 DEF FailedSends
    <3> QED
      BY <3>1, <3>2, TablesStep DEF PacketInv
  <2>3. PICK u \in Worker, k \in Nat : p = <<u, k>> /\ p[1] = u /\ p[2] = k
    BY <2>2, PacketType DEF PacketInv
  <2>4. u \in FailedSends /\ off'[u] = off[u] /\ got'[u] = got[u]
    BY <2>1, <2>3, FailedKept DEF PacketInv
  <2>5. b \in Payload(u, k)
    BY <2>3, <2>4 DEF Payload, Chunk, Byte
  <2>6. ~Passed(t, p)
    BY <1>3, <2>2, PassedKept
  <2>7. sent[b] <= Cardinality(FailedSends)
    BY <2>2, <2>3, <2>4, <2>5, <2>6 DEF SentInv, Leftovers
  <2>8. CASE sent' = sent
    BY <2>1, <2>7, <2>8
  <2>9. ASSUME NEW w \in Worker, Send(w) PROVE sent'[b] = sent[b]
    <3>0. PICK v \in Worker, j \in Nat : SendsPacket(w, v, j)
      BY <2>9, SendPacket
    <3>1. /\ ht(v) = ht(w) /\ <<v, j>> \in left[w]
          /\ v = w \/ v \in FailedSends
          /\ left' = [left EXCEPT ![w] = @ \ {<<v, j>>}]
          /\ sent' = [c \in Byte |->
                        IF c \in Payload(v, j) THEN sent[c] + 1 ELSE sent[c]]
      BY <3>0 DEF SendsPacket
    <3>2. CASE b \in Payload(v, j) /\ v # u
      <4>1. Holds(v) /\ Holds(u)
        BY <2>4, <2>9, <3>1, SendUnchanged DEF Holds, Carries
      <4>2. b \in Chunk(v) /\ b \in Chunk(u)
        BY <2>5, <3>2, PayloadInChunk
      <4> QED
        BY <3>2, <4>1, <4>2, ChunkApart DEF PacketInv
    <3>3. CASE b \in Payload(v, j) /\ v = u /\ j # k
      BY <2>5, <3>3, PayloadApart DEF PacketInv
    <3>4. CASE v = u /\ j = k
      <4>1. pc'[w] = "send" /\ ht(w)' = ht(w)
        BY <2>9, SendUnchanged
      <4>2. p \notin left'[w]
        BY <2>3, <3>1, <3>4 DEF PacketInv, TypeOK
      <4>3. t = ht(w)
        BY <2>2, <2>3, <3>1, <3>4 DEF PacketInv, OwnInv, Owned
      <4> QED
        BY <4>1, <4>2, <4>3 DEF Passed
    <3>5. CASE b \notin Payload(v, j)
      BY <1>1, <3>1, <3>5
    <3> QED
      BY <3>2, <3>3, <3>4, <3>5
  <2> QED
    BY <2>1, <2>7, <2>8, <2>9, SentKept
<1> QED
  BY <1>2, <1>3

LEMMA SentStep ==
  PacketInv /\ PacketInv' /\ ChunkInv /\ SentInv /\ [Next]_vars => SentInv'
<1> SUFFICES ASSUME PacketInv, MadeChained', ChunkInv, SentInv, [Next]_vars
             PROVE  SentInv'
  BY DEF PacketInv, OwnInv
<1> QED
  BY UntouchedStep, OwnSentStep, RepeatsStep, BoundedStep, LeftoversStep DEF SentInv

LEMMA SentInit == Init => ChunkInv /\ SentInv
<1> SUFFICES ASSUME Init PROVE ChunkInv /\ SentInv
  OBVIOUS
<1>1. \A w \in Worker : ~Holds(w) /\ ~Carries(w)
  BY DEF Init, Holds, Carries, FailedSends
<1>2. FailedSends \in SUBSET Worker
  BY DEF FailedSends
<1>3. Cardinality(FailedSends) \in Nat
  BY <1>2, FailedCount
<1>4. ChunkInv
  BY <1>1 DEF ChunkInv, ChunksDisjoint, ChunksHandedOut
<1>5. Untouched /\ Repeats /\ Bounded
  BY <1>3 DEF Init, Untouched, Repeats, Bounded
<1>6. OwnSent /\ Leftovers
  BY <1>1 DEF Init, OwnSent, Leftovers
<1> QED
  BY <1>4, <1>5, <1>6 DEF SentInv

LEMMA SendsCounted == Spec => [](PacketInv /\ ChunkInv /\ SentInv)
<1>1. PacketInv /\ ChunkInv /\ [Next]_vars => ChunkInv'
  BY ChunkStep DEF PacketInv
<1> QED
  BY <1>1, PacketsCounted, SentInit, SentStep, PTL DEF Spec

\* No byte of the file goes out twice, whatever the interleaving of the workers
\* and the signals, unless it is of a chunk whose send failed; and those bytes
\* go out no more than once for each send that fails, and once more.
THEOREM RepeatsOnlyFailed == Spec => []TwiceOnlyAfterFailure
<1>1. PacketInv /\ SentInv => TwiceOnlyAfterFailure
  <2> SUFFICES ASSUME PacketInv, SentInv, NEW b \in Byte, sent[b] > 1
               PROVE  /\ \E w \in FailedSends : b \in Chunk(w)
                      /\ sent[b] <= 1 + Cardinality(FailedSends)
    BY DEF TwiceOnlyAfterFailure
  <2>1. ~(sent[b] <= 1)
    BY DEF PacketInv, TypeOK
  <2> QED
    BY <2>1 DEF SentInv, Repeats, Bounded
<1> QED
  BY <1>1, SendsCounted, PTL

-----------------------------------------------------------------------------

LEMMA ModStep ==
  ASSUME NEW a \in Nat, NEW p \in Nat \ {0}, a % p = 0
  PROVE  (a + p) % p = 0
<1>1. ASSUME NEW q \in Nat, NEW r \in 0 .. p - 1 PROVE (p * q + r) % p = r
  OBVIOUS
<1> DEFINE n == a \div p
<1>2. n \in Nat /\ a = p * n
  OBVIOUS
<1> HIDE DEF n
<1>3. n + 1 \in Nat /\ 0 \in 0 .. p - 1 /\ a + p = p * (n + 1) + 0
  BY <1>2
<1> QED
  BY <1>1, <1>3

LEMMA MultiplesApart ==
  ASSUME NEW a \in Nat, NEW b \in Nat, NEW p \in Nat \ {0}, a % p = 0, b % p = 0, a < b
  PROVE  a + p <= b
<1>1. PICK m \in Nat : a = p * m
  <2>1. a \div p \in Nat /\ a = p * (a \div p)
    OBVIOUS
  <2> QED
    BY <2>1
<1>2. PICK n \in Nat : b = p * n
  <2>1. b \div p \in Nat /\ b = p * (b \div p)
    OBVIOUS
  <2> QED
    BY <2>1
<1>3. m + 1 <= n
  <2>1. ASSUME n <= m PROVE FALSE
    <3>1. n * p <= m * p /\ n * p \in Nat /\ m * p \in Nat
      BY <2>1, TimesMono
    <3>2. n * p = b /\ m * p = a
      BY <1>1, <1>2
    <3> QED
      BY <3>1, <3>2
  <2> QED
    BY <2>1
<1>4. (m + 1) * p <= n * p
  BY <1>3, TimesMono
<1>5. (m + 1) * p = a + p /\ n * p = b
  BY <1>1, <1>2
<1> QED
  BY <1>4, <1>5

\* A chunk starts at a multiple of the chunk size and is whole unless the file
\* ends in it.
Aligned ==
  /\ f_off % ChunkSize = 0 \/ f_off = FileSize
  /\ \A w \in Worker : Holds(w) =>
       /\ off[w] < FileSize /\ off[w] % ChunkSize = 0
       /\ got[w] = IF FileSize > off[w] + ChunkSize THEN ChunkSize ELSE FileSize - off[w]

LEMMA AlignedStep == TypeOK /\ LeftInv /\ Aligned /\ [Next]_vars => Aligned'
<1> SUFFICES ASSUME TypeOK, LeftInv, Aligned, [Next]_vars PROVE Aligned'
  OBVIOUS
<1>1. ASSUME NEW w \in Worker, Request(w) PROVE Aligned'
  <2>1. ASSUME NEW v \in Worker, v # w
        PROVE  (Holds(v)' => Holds(v)) /\ off'[v] = off[v] /\ got'[v] = got[v]
    BY <1>1, <2>1, RequestHolds DEF Holds, Carries, FailedSends
  <2>2. CASE ~Holds(w)' /\ f_off' = f_off
    BY <2>1, <2>2 DEF Aligned
  <2>3. CASE /\ off'[w] = f_off /\ got'[w] = Remaining /\ f_off' = f_off + Remaining
             /\ f_off < FileSize
    <3>1. f_off % ChunkSize = 0 /\ f_off \in Nat
      BY <2>3, TransmitAssumption DEF Aligned, TypeOK
    <3>2. f_off' % ChunkSize = 0 \/ f_off' = FileSize
      BY <2>3, <3>1, ModStep, TransmitAssumption DEF Remaining
    <3> QED
      BY <2>1, <2>3, <3>1, <3>2 DEF Remaining, Aligned
  <2> QED
    BY <1>1, <2>2, <2>3, RequestHolds
<1>2. CASE ~\E w \in Worker : Request(w)
  <2>1. f_off' = f_off
    BY <1>2 DEF Next, Step, Count, Number, GetTable, EmptyPush, Evicted, Fill, Send, Sent,
                Flushed, SendFails, Signal, ParentStep, Reap, Stop, Terminate, Destroy,
                SignalParent, vars
  <2>2. \A v \in Worker : Holds(v)' => Holds(v) /\ off'[v] = off[v] /\ got'[v] = got[v]
    BY <1>2, HoldsStep
  <2> QED
    BY <2>1, <2>2 DEF Aligned
<1> QED
  BY <1>1, <1>2

\* A chunk somebody holds is one of FileSender's.
LEMMA HeldChunk ==
  ASSUME TypeOK, Aligned, NEW w \in Worker, Holds(w)
  PROVE  off[w] \in F!Offset /\ Chunk(w) = F!ChunkAt(off[w])
<1>1. PICK o \in Nat : o = off[w]
  BY DEF TypeOK
<1>2. /\ o < FileSize /\ o % ChunkSize = 0
      /\ got[w] = IF FileSize > o + ChunkSize THEN ChunkSize ELSE FileSize - o
  BY <1>1 DEF Aligned
<1>3. o \in F!Offset
  BY <1>2, TransmitAssumption DEF F!Offset, F!Byte
<1>4. \A b \in Byte : b < o + got[w] <=> b < o + ChunkSize
  BY <1>2, TransmitAssumption DEF Byte
<1> QED
  BY <1>1, <1>3, <1>4 DEF Chunk, F!ChunkAt, F!Byte, Byte

\* A heap that is being sent has all its packets; a worker that saw the end of
\* the file has exited.
HeapInv ==
  \A w \in Worker :
    /\ pc[w] = "send" => made[w] = PacketsOf(got[w])
    /\ got[w] = 0 /\ hid[w] # 0 => pc[w] = "exited" /\ f_off = FileSize

LEMMA HeapStep ==
  TypeOK /\ MadeInv /\ BankSuffices /\ HeapInv /\ [Next]_vars => HeapInv'
<1> SUFFICES ASSUME TypeOK, MadeInv, BankSuffices, HeapInv, [Next]_vars PROVE HeapInv'
  OBVIOUS
<1> USE DEF TypeOK, HeapInv, Goto, tvars, wvars, pvars
<1>1. ASSUME NEW w \in Worker, Request(w) PROVE HeapInv'
  <2>1. ASSUME UNCHANGED <<f_off, hid, made, left>>, pc' = [pc EXCEPT ![w] = "exited"],
               got' = got \/ (got' = [got EXCEPT ![w] = 0] /\ f_off >= FileSize),
               pc[w] = "request"
        PROVE  HeapInv'
    <3>1. f_off >= FileSize => f_off = FileSize
      BY TransmitAssumption
    <3> QED
      BY <2>1, <3>1 DEF PacketsOf
  <2>2. ASSUME f_off < FileSize, pc[w] = "request", UNCHANGED <<hid, made, left>>,
               got' = [got EXCEPT ![w] = Remaining],
               pc' = [pc EXCEPT ![w] = "count"]
        PROVE  HeapInv'
    <3>1. \A v \in Worker : ~(got[v] = 0 /\ hid[v] # 0)
      BY <2>2, TransmitAssumption
    <3>2. Remaining \in Nat \ {0}
      BY <2>2, RemainingRange
    <3>3. \A v \in Worker : got'[v] = IF v = w THEN Remaining ELSE got[v]
      BY <2>2
    <3> QED
      BY <2>2, <3>1, <3>2, <3>3 DEF PacketsOf
  <2> QED
    BY <1>1, <2>1, <2>2, RequestCases
<1>2. ASSUME NEW w \in Worker, Number(w) PROVE HeapInv'
  <2>1. got[w] # 0
    BY <1>2 DEF Number, MadeInv, Carries
  <2> QED
    BY <1>2, <2>1 DEF Number, PacketsOf
<1>3. ASSUME NEW w \in Worker, Fill(w) PROVE HeapInv'
  <2>1. bank > 0 /\ ~(bank = 0)
    BY <1>3 DEF Fill, BankSuffices
  <2>2. made[w] < PacketsOf(got[w]) /\ PacketsOf(got[w]) \in Nat
    BY <1>3, PacketsOfBounds DEF Fill, MadeInv, Carries
  <2>3. /\ made' = [made EXCEPT ![w] = @ + 1]
        /\ pc' = [pc EXCEPT ![w] = IF made'[w] < PacketsOf(got[w]) THEN "fill" ELSE "send"]
        /\ UNCHANGED <<f_off, got, hid>>
        /\ \A v \in Worker : v # w => left'[v] = left[v]
        /\ pc[w] = "fill"
    BY <1>3, <2>1 DEF Fill
  <2>4. made'[w] < PacketsOf(got[w]) \/ made'[w] = PacketsOf(got[w])
    BY <2>2, <2>3
  <2>5. pc'[w] \in {"fill", "send"} /\ (pc'[w] = "send" => made'[w] = PacketsOf(got[w]))
    BY <2>3, <2>4
  <2> QED
    BY <2>3, <2>5 DEF PacketsOf
<1>4. ASSUME NEW w \in Worker, GetTable(w) \/ Evicted(w) PROVE HeapInv'
  BY <1>4 DEF GetTable, Evicted, PacketsOf
<1>5. ASSUME NEW w \in Worker,
             Count(w) \/ Send(w) \/ Sent(w) \/ Flushed(w)
               \/ SendFails(w) \/ EmptyPush(w) \/ Signal(w)
      PROVE  HeapInv'
  <2>1. got[w] # 0 \/ Signal(w) \/ Flushed(w) \/ EmptyPush(w)
    BY <1>5 DEF Count, Send, Sent, SendFails, MadeInv, Carries
  <2> QED
    BY <1>5, <2>1
       DEF Count, Send, Sent, Flushed, SendFails, EmptyPush, Signal, PacketsOf
<1>6. CASE ParentStep \/ SignalParent \/ UNCHANGED vars
  BY <1>6 DEF ParentStep, Reap, Stop, Terminate, Destroy, SignalParent, vars, PacketsOf
<1> QED
  BY <1>1, <1>2, <1>3, <1>4, <1>5, <1>6 DEF Next, Step

\* The parent leaves its loop with workers unreaped only when it was told to;
\* the terminator goes out after the loop.
ParentInv ==
  /\ parent # "loop" /\ p_run => w_tree = {}
  /\ term => parent \in {"destroy", "end"}

LEMMA ParentStepInv == TypeOK /\ ParentInv /\ [Next]_vars => ParentInv'
<1> SUFFICES ASSUME TypeOK, ParentInv, [Next]_vars PROVE ParentInv'
  OBVIOUS
<1>1. ASSUME NEW w \in Worker, Step(w) \/ SendFails(w) \/ Signal(w)
      PROVE  UNCHANGED pvars
  BY <1>1 DEF Step, Request, Count, Number, GetTable, EmptyPush, Evicted, Fill, Send,
              Sent, Flushed, SendFails, Signal
<1>2. CASE ParentStep
  BY <1>2 DEF ParentStep, Reap, Stop, Terminate, Destroy, ParentInv, TypeOK
<1>3. CASE SignalParent \/ UNCHANGED pvars
  BY <1>3 DEF SignalParent, ParentInv, pvars
<1> QED
  BY <1>1, <1>2, <1>3 DEF Next, vars

-----------------------------------------------------------------------------

\* What the refinement needs, one part per hazard: chunks are disjoint, whole
\* and aligned, none is cut short, and the terminator comes last.
SendInv ==
  /\ PacketInv /\ ChunkInv /\ SentInv /\ BankSuffices
  /\ Aligned /\ HeapInv
  /\ ReapedHaveExited /\ ParentInv

LEMMA InitSends == Init => F!Init
<1> SUFFICES ASSUME Init PROVE F!Init
  OBVIOUS
<1>1. FailedSends = {}
  BY DEF Init, FailedSends
<1>2. Finished = {}
  BY DEF Init, Finished, Byte
<1> QED
  BY <1>1, <1>2 DEF Init, F!Init, F!Byte, Byte

\* A worker step with the terminator out and nothing stopped: there is none.
LEMMA NoneAfter ==
  ASSUME SendInv, NEW w \in Worker, pc[w] # "exited", UNCHANGED pvars
  PROVE  (term /\ Calm)' = (term /\ Calm)
<1>1. ~(term /\ p_run)
  BY DEF SendInv, ParentInv, ReapedHaveExited, PacketInv, TypeOK
<1>2. ~(term /\ Calm) /\ ~(term /\ Calm)'
  BY <1>1 DEF Calm, pvars
<1> QED
  BY <1>2

LEMMA FinishedHolds ==
  ASSUME NEW b
  PROVE  b \in Finished <=> /\ b \in Byte /\ b % ChunkSize = 0 /\ b < f_off
                            /\ \A w \in Worker : Holds(w) => off[w] # b
BY DEF Finished, Holds

\* Two workers hold different chunks.
LEMMA OffsetsDiffer ==
  ASSUME SendInv, NEW v \in Worker, NEW w \in Worker, v # w, Holds(v), Holds(w)
  PROVE  off[v] # off[w]
<1>1. off[v] + got[v] <= off[w] \/ off[w] + got[w] <= off[v]
  BY DEF SendInv, ChunkInv, ChunksDisjoint
<1>2. ASSUME NEW u \in Worker, Holds(u)
      PROVE  off[u] \in Nat /\ got[u] \in Nat \ {0}
  <2>1. /\ off[u] \in Nat /\ off[u] < FileSize
        /\ got[u] = IF FileSize > off[u] + ChunkSize THEN ChunkSize ELSE FileSize - off[u]
    BY <1>2 DEF SendInv, PacketInv, TypeOK, Aligned
  <2> QED
    BY <2>1, TransmitAssumption
<1> QED
  BY <1>1, <1>2

\* The chunk a worker holds is not done.
LEMMA HeldNotDone ==
  ASSUME NEW w \in Worker, Holds(w)
  PROVE  off[w] \notin Finished
BY FinishedHolds

\* The steps of a worker that neither take a chunk, nor send, nor end or fail
\* a traversal.
LEMMA QuietSends ==
  ASSUME SendInv, [Next]_vars, NEW w \in Worker,
         Count(w) \/ Number(w) \/ GetTable(w) \/ EmptyPush(w) \/ Evicted(w) \/ Fill(w)
           \/ Flushed(w) \/ Signal(w)
  PROVE  UNCHANGED F!vars
<1> USE DEF Goto, wvars, tvars
<1>1. UNCHANGED <<f_off, off, got, sent, pvars>> /\ pc[w] # "exited" /\ pc'[w] # "exited"
  BY DEF Count, Number, GetTable, EmptyPush, Evicted, Fill, Flushed, Signal, SendInv,
         PacketInv, TypeOK
<1>2. \A v \in Worker : v # w => pc'[v] = pc[v] /\ left'[v] = left[v]
  BY DEF Count, Number, GetTable, EmptyPush, Evicted, Fill, Flushed, Signal, SendInv,
         PacketInv, TypeOK
<1>3. FailedSends' = FailedSends
  BY <1>1, <1>2 DEF FailedSends
<1>4. Carries(w)' = Carries(w)
  BY DEF Count, Number, GetTable, EmptyPush, Evicted, Fill, Flushed, Signal, SendInv,
         PacketInv, TypeOK, Carries
<1>5. \A v \in Worker : Carries(v)' = Carries(v)
  BY <1>2, <1>4 DEF Carries
<1>6. Finished' = Finished
  BY <1>1, <1>3, <1>5 DEF Finished, Byte
<1>7. {off[v] : v \in FailedSends}' = {off[v] : v \in FailedSends}
  BY <1>1, <1>3
<1>8. (term /\ Calm)' = (term /\ Calm)
  BY <1>1, NoneAfter
<1> QED
  BY <1>1, <1>6, <1>7, <1>8 DEF F!vars

\* request_chunk_datafile: the chunk is now held, not done.
LEMMA RequestSends ==
  ASSUME SendInv, [Next]_vars, NEW w \in Worker, Request(w)
  PROVE  UNCHANGED F!vars
<1>1. /\ ~Holds(w) /\ sent' = sent /\ w \notin FailedSends
      /\ \A v \in Worker : v # w => off'[v] = off[v] /\ pc'[v] = pc[v] /\ left'[v] = left[v]
  BY RequestHolds DEF SendInv, PacketInv, Holds
<1>2. FailedSends' = FailedSends
  <2>1. ASSUME NEW v \in Worker, SendFails(v) PROVE v = w
    BY <1>1, <2>1 DEF SendFails, Goto, SendInv, PacketInv, TypeOK
  <2>2. ~SendFails(w)
    BY DEF SendFails, Request
  <2> QED
    BY <2>1, <2>2, FailedStep DEF SendInv, PacketInv
<1>3. {off[v] : v \in FailedSends}' = {off[v] : v \in FailedSends}
  BY <1>1, <1>2 DEF FailedSends
<1>4. \A v \in Worker : v # w => Holds(v)' = Holds(v)
  BY <1>1, <1>2 DEF Holds, Carries
<1>5. Finished' = Finished
  <2>1. ASSUME NEW b PROVE b \in Finished' <=> b \in Finished
    <3>1. b \in Finished' <=> /\ b \in Byte /\ b % ChunkSize = 0 /\ b < f_off'
                              /\ \A v \in Worker : Holds(v)' => off'[v] # b
      BY DEF Finished, Holds, Byte
    <3>2. b \in Finished <=> /\ b \in Byte /\ b % ChunkSize = 0 /\ b < f_off
                             /\ \A v \in Worker : v # w /\ Holds(v) => off[v] # b
      BY <1>1, FinishedHolds
    <3>3. CASE ~Holds(w)' /\ f_off' = f_off
      BY <1>1, <1>4, <3>1, <3>2, <3>3
    <3>4. CASE /\ off'[w] = f_off /\ f_off' = f_off + Remaining
               /\ Remaining \in 1 .. ChunkSize /\ f_off < FileSize /\ pc'[w] = "count"
      <4>1. Holds(w)'
        BY <3>4 DEF Holds, Carries
      <4>2. f_off \in Nat /\ f_off % ChunkSize = 0
        BY <3>4, TransmitAssumption DEF SendInv, Aligned, PacketInv, TypeOK
      <4>3. ASSUME b \in Byte, b % ChunkSize = 0
            PROVE  b < f_off' /\ f_off # b <=> b < f_off
        <5>1. b \in Nat
          BY <4>3, TransmitAssumption DEF Byte
        <5>2. ASSUME f_off < b PROVE f_off + ChunkSize <= b
          BY <4>2, <4>3, <5>1, <5>2, MultiplesApart, TransmitAssumption
        <5> QED
          BY <3>4, <4>2, <5>1, <5>2, TransmitAssumption
      <4> QED
        BY <1>1, <1>4, <3>1, <3>2, <3>4, <4>1, <4>3
    <3> QED
      BY <3>3, <3>4, RequestHolds DEF SendInv, PacketInv
  <2> QED
    BY <2>1
<1>6. (term /\ Calm)' = (term /\ Calm)
  <2>1. pc[w] # "exited" /\ UNCHANGED pvars
    BY DEF Request
  <2> QED
    BY <2>1, NoneAfter
<1> QED
  BY <1>1, <1>3, <1>5, <1>6 DEF F!vars

\* A packet that goes out is some bytes of its chunk: of the worker's own, none
\* of which is out, or of one that was given up.
LEMMA SendSends ==
  ASSUME SendInv, [Next]_vars, NEW w \in Worker, Send(w)
  PROVE  F!Next
<1>0. PICK v \in Worker, k \in Nat : SendsPacket(w, v, k)
  BY SendPacket DEF SendInv
<1>1. /\ <<v, k>> \in left[w] /\ k \in 1 .. made[v]
      /\ v = w \/ v \in FailedSends
      /\ left' = [left EXCEPT ![w] = @ \ {<<v, k>>}]
      /\ sent' = [b \in Byte |->
                    IF b \in Payload(v, k) THEN sent[b] + 1 ELSE sent[b]]
  BY <1>0 DEF SendsPacket
<1>2. pc[w] = "send" /\ UNCHANGED <<f_off, pc, off, got, pvars>>
  BY SendUnchanged
<1>3. Holds(v)
  BY <1>1, <1>2 DEF Holds, Carries
<1>4. off[v] \in F!Offset /\ Chunk(v) = F!ChunkAt(off[v])
  BY <1>3, HeldChunk DEF SendInv, PacketInv
<1>5. off[v] \notin Finished
  BY <1>3, HeldNotDone
<1>6. Payload(v, k) \in SUBSET F!ChunkAt(off[v])
  BY <1>4, PayloadInChunk
<1>7. off[v] \in {off[u] : u \in FailedSends} \/ \A b \in Payload(v, k) : sent[b] = 0
  <2>1. CASE v = w
    BY <1>1, <1>2, <2>1, OwnFresh DEF SendInv, SentInv
  <2>2. CASE v \in FailedSends
    BY <2>2
  <2> QED
    BY <1>1, <2>1, <2>2
<1>8. FailedSends' = FailedSends
  <2>1. \A u \in Worker : u # w => left'[u] = left[u]
    BY <1>1 DEF SendInv, PacketInv, TypeOK
  <2> QED
    BY <1>2, <2>1 DEF FailedSends
<1>9. Finished' = Finished
  BY <1>2, <1>8 DEF Finished, Carries, Byte
<1>10. {off[u] : u \in FailedSends}' = {off[u] : u \in FailedSends}
  BY <1>2, <1>8
<1>11. (term /\ Calm)' = (term /\ Calm)
  BY <1>2, NoneAfter
<1>12. sent' = [b \in F!Byte |-> IF b \in Payload(v, k) THEN sent[b] + 1 ELSE sent[b]]
  BY <1>1 DEF F!Byte, Byte
<1>13. F!Send(off[v])
  BY <1>5, <1>6, <1>7, <1>9, <1>10, <1>11, <1>12 DEF F!Send
<1> QED
  BY <1>4, <1>13 DEF F!Next

\* The end of the traversal: each byte of the chunk went out once.
LEMMA SentSends ==
  ASSUME SendInv, [Next]_vars, NEW w \in Worker, Sent(w)
  PROVE  F!Next
<1>1. /\ pc[w] = "send" /\ left[w] = {} /\ pc'[w] = "flush"
      /\ UNCHANGED <<f_off, off, got, left, sent, pvars>>
      /\ \A v \in Worker : v # w => pc'[v] = pc[v]
  BY DEF Sent, Goto, SendInv, PacketInv, TypeOK
<1>2. Holds(w) /\ Carries(w) /\ w \notin FailedSends
  BY <1>1 DEF Holds, Carries, FailedSends
<1>3. off[w] \in F!Offset /\ Chunk(w) = F!ChunkAt(off[w])
  BY <1>2, HeldChunk DEF SendInv, PacketInv
<1>4. FailedSends' = FailedSends
  BY <1>1 DEF FailedSends
<1>5. off[w] \notin Finished \cup {off[u] : u \in FailedSends}
  <2>1. \A u \in FailedSends : off[u] # off[w]
    BY <1>2, OffsetsDiffer DEF Holds, FailedSends
  <2> QED
    BY <1>2, <2>1, HeldNotDone
<1>6. \A b \in F!ChunkAt(off[w]) : sent[b] = 1
  <2> SUFFICES ASSUME NEW b \in Chunk(w) PROVE sent[b] = 1
    BY <1>3
  <2>1. made[w] = PacketsOf(got[w])
    BY <1>1 DEF SendInv, HeapInv
  <2>2. \E k \in 1 .. made[w] : b \in Payload(w, k)
    BY <2>1, PayloadCovers DEF SendInv, PacketInv
  <2>3. Out(w, b)
    BY <1>1, <2>2 DEF Out
  <2> QED
    BY <1>2, <2>3 DEF SendInv, SentInv, OwnSent
<1>7. Finished' = Finished \cup {off[w]}
  <2>1. ASSUME NEW b PROVE b \in Finished' <=> b \in Finished \/ b = off[w]
    <3>1. b \in Finished' <=> /\ b \in Byte /\ b % ChunkSize = 0 /\ b < f_off
                              /\ \A v \in Worker : v # w /\ Holds(v) => off[v] # b
      <4>1. \A v \in Worker : Holds(v)' <=> v # w /\ Holds(v)
        BY <1>1, <1>2, <1>4 DEF Holds, Carries
      <4> QED
        BY <1>1, <4>1 DEF Finished, Holds, Byte
    <3>2. off[w] \in Byte /\ off[w] % ChunkSize = 0 /\ off[w] < f_off
      <4>1. off[w] \in Byte /\ off[w] % ChunkSize = 0
        BY <1>3 DEF F!Offset, F!Byte, Byte
      <4>2. off[w] \in Chunk(w)
        BY <1>3, <4>1, TransmitAssumption DEF F!ChunkAt, F!Byte, Byte
      <4> QED
        BY <1>2, <4>1, <4>2, ChunkBelow DEF SendInv, PacketInv
    <3>3. \A v \in Worker : v # w /\ Holds(v) => off[v] # off[w]
      BY <1>2, OffsetsDiffer
    <3> QED
      BY <1>2, <3>1, <3>2, <3>3, FinishedHolds
  <2> QED
    BY <2>1
<1>8. {off[u] : u \in FailedSends}' = {off[u] : u \in FailedSends}
  BY <1>1, <1>4
<1>9. (term /\ Calm)' = (term /\ Calm)
  BY <1>1, NoneAfter
<1>10. F!Finish(off[w])
  BY <1>1, <1>5, <1>6, <1>7, <1>8, <1>9 DEF F!Finish
<1> QED
  BY <1>3, <1>10 DEF F!Next

LEMMA ImageAdds ==
  ASSUME NEW f, NEW S, NEW x
  PROVE  {f[u] : u \in S \cup {x}} = {f[u] : u \in S} \cup {f[x]}
<1>1. ASSUME NEW y
      PROVE  (\E u \in S \cup {x} : y = f[u]) <=> (\E u \in S : y = f[u]) \/ y = f[x]
  OBVIOUS
<1> QED
  BY <1>1

\* A failing send gives the chunk up.
LEMMA FailsSends ==
  ASSUME SendInv, [Next]_vars, NEW w \in Worker, SendFails(w)
  PROVE  F!Next
<1>1. /\ pc[w] = "send" /\ left[w] # {} /\ pc'[w] = "exited"
      /\ UNCHANGED <<f_off, off, got, left, sent, pvars>>
      /\ \A v \in Worker : v # w => pc'[v] = pc[v]
  BY DEF SendFails, Goto, SendInv, PacketInv, TypeOK
<1>2. Holds(w) /\ Carries(w) /\ w \notin FailedSends
  BY <1>1 DEF Holds, Carries, FailedSends
<1>3. off[w] \in F!Offset
  BY <1>2, HeldChunk DEF SendInv, PacketInv
<1>4. FailedSends' = FailedSends \cup {w}
  BY <1>1 DEF FailedSends
<1>5. off[w] \notin Finished \cup {off[u] : u \in FailedSends}
  <2>1. \A u \in FailedSends : off[u] # off[w]
    BY <1>2, OffsetsDiffer DEF Holds, FailedSends
  <2> QED
    BY <1>2, <2>1, HeldNotDone
<1>6. Finished' = Finished
  <2>1. \A v \in Worker : (Carries(v) \/ v \in FailedSends)'
                            <=> Carries(v) \/ v \in FailedSends
    BY <1>1, <1>2, <1>4 DEF Carries
  <2> QED
    BY <1>1, <2>1 DEF Finished, Byte
<1>7. {off[u] : u \in FailedSends}' = {off[u] : u \in FailedSends} \cup {off[w]}
  <2>1. {off[u] : u \in FailedSends}' = {off[u] : u \in FailedSends \cup {w}}
    BY <1>1, <1>4
  <2> QED
    BY <2>1, ImageAdds
<1>8. (term /\ Calm)' = (term /\ Calm)
  BY <1>1, NoneAfter
<1>9. PICK o \in F!Offset : o = off[w]
  BY <1>3
<1>10. F!GiveUp(o)
  BY <1>1, <1>5, <1>6, <1>7, <1>8, <1>9 DEF F!GiveUp
<1> QED
  BY <1>10 DEF F!Next

\* The terminator that nothing has brought forward finds the whole file out.
LEMMA TerminatorSends ==
  ASSUME SendInv, Terminate, (term /\ Calm)', ~term
  PROVE  F!Terminate
<1>1. /\ parent = "terminate" /\ p_run
      /\ UNCHANGED <<f_off, pc, off, got, hid, left, p_run, sent>>
  BY DEF Terminate, Calm, wvars
<1>2. \A w \in Worker : pc[w] = "exited"
  BY <1>1 DEF SendInv, ParentInv, ReapedHaveExited, PacketInv, TypeOK
<1>3. (\E w \in Worker : ~Told(w)) /\ FailedSends = {} /\ FailedSends' = FailedSends
  BY <1>1 DEF Calm, Told, FailedSends
<1>4. f_off = FileSize
  <2>1. PICK w \in Worker : ~Told(w)
    BY <1>3
  <2>2. got[w] = 0 /\ hid[w] # 0
    BY <1>2, <2>1 DEF Told, SendInv, PacketInv, TypeOK
  <2> QED
    BY <2>2 DEF SendInv, HeapInv
<1>5. Finished = F!Offset
  <2>1. \A w \in Worker : ~Holds(w)
    BY <1>2, <1>3 DEF Holds, Carries
  <2>2. ASSUME NEW b PROVE b \in Finished <=> b \in F!Offset
    <3>1. b \in Byte => b < f_off
      BY <1>4, TransmitAssumption DEF Byte
    <3> QED
      BY <2>1, <3>1, FinishedHolds DEF F!Offset, F!Byte, Byte
  <2> QED
    BY <2>2
<1>6. Finished' = Finished
  BY <1>1, <1>3 DEF Finished, Carries, Byte
<1>7. {off[u] : u \in FailedSends}' = {off[u] : u \in FailedSends}
  BY <1>1, <1>3
<1> QED
  BY <1>1, <1>5, <1>6, <1>7 DEF F!Terminate

LEMMA ParentSends ==
  ASSUME SendInv, ParentStep \/ SignalParent \/ UNCHANGED vars
  PROVE  [F!Next]_F!vars
<1>1. UNCHANGED <<f_off, pc, off, got, hid, left, sent>>
  BY DEF ParentStep, Reap, Stop, Terminate, Destroy, SignalParent, vars, wvars
<1>2. FailedSends' = FailedSends
  BY <1>1 DEF FailedSends
<1>3. Finished' = Finished
  BY <1>1, <1>2 DEF Finished, Carries, Byte
<1>4. {off[v] : v \in FailedSends}' = {off[v] : v \in FailedSends}
  BY <1>1, <1>2
<1>5. term => term'
  BY DEF ParentStep, Reap, Stop, Terminate, Destroy, SignalParent, vars, pvars
<1>6. CASE term
  <2>1. parent \in {"destroy", "end"} /\ term'
    BY <1>5, <1>6 DEF SendInv, ParentInv
  <2>2. p_run' = p_run
    BY <2>1 DEF ParentStep, Reap, Stop, Terminate, Destroy, SignalParent, vars, pvars
  <2>3. Calm' <=> Calm
    BY <1>1, <1>2, <1>6, <2>1, <2>2 DEF Calm, Told
  <2>4. (term /\ Calm)' = (term /\ Calm)
    BY <1>6, <2>1, <2>3
  <2> QED
    BY <1>1, <1>3, <1>4, <2>4 DEF F!vars
<1>7. CASE ~term /\ ~term'
  BY <1>1, <1>3, <1>4, <1>7 DEF F!vars
<1>8. CASE ~term /\ term'
  <2>1. Terminate
    BY <1>8 DEF ParentStep, Reap, Stop, Destroy, SignalParent, vars, pvars
  <2>2. CASE (term /\ Calm)'
    BY <1>8, <2>1, <2>2, TerminatorSends DEF F!Next
  <2>3. CASE ~(term /\ Calm)'
    BY <1>1, <1>3, <1>4, <1>8, <2>3 DEF F!vars
  <2> QED
    BY <2>2, <2>3
<1> QED
  BY <1>5, <1>6, <1>7, <1>8

LEMMA NextSends == SendInv /\ [Next]_vars => [F!Next]_F!vars
BY QuietSends, RequestSends, SendSends, SentSends, FailsSends, ParentSends
   DEF Next, Step

LEMMA SendInvInit == Init => Aligned /\ HeapInv /\ ReapedHaveExited /\ ParentInv
<1> SUFFICES ASSUME Init PROVE Aligned /\ HeapInv /\ ReapedHaveExited /\ ParentInv
  OBVIOUS
<1>1. \A w \in Worker : ~Holds(w)
  BY DEF Init, Holds, Carries, FailedSends
<1>2. Aligned
  BY <1>1, TransmitAssumption DEF Init, Aligned
<1>3. HeapInv /\ ReapedHaveExited /\ ParentInv
  BY DEF Init, HeapInv, ReapedHaveExited, ParentInv
<1> QED
  BY <1>2, <1>3

\* The transmitter implements FileSender: whichever workers fail or are told
\* to stop, and in whatever order they work, the packets that go out are those
\* of the file's chunks; a chunk is done when each of its bytes went out once
\* and is not sent again; bytes are repeated only of chunks given up; and the
\* terminator of a transmitter that no failure and no signal touched follows
\* when every chunk is done.
THEOREM SendsTheFile ==
  ASSUME Overhead <= 3 * PktSize
  PROVE  Spec => ImplementsSender
<1>1. PacketInv => TypeOK /\ LeftInv /\ MadeInv
  BY DEF PacketInv
<1>2. Spec => []SendInv
  BY <1>1, SendsCounted, StoreSuffices, SendInvInit, AlignedStep, HeapStep, ReapedStep,
     ParentStepInv, PTL
     DEF Spec, SendInv
<1> QED
  BY <1>2, InitSends, NextSends, PTL DEF Spec, ImplementsSender, F!Spec
=============================================================================
