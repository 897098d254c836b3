-------------------------- MODULE SharedMemProofs --------------------------
(***************************************************************************)
(* Proofs about the shared memory allocator, for any number of processes,  *)
(* regions and calls and any sizes that fit a region: the blocks tile the  *)
(* memory that has been cut.                                               *)
(*                                                                         *)
(* A block is in one place: with a process, in the queue of what a process *)
(* frees, on a free list, used by the tree, or lost.  The invariant says   *)
(* so by a function from the blocks to the places, which a step changes at *)
(* the blocks it moves.  Positions on a list or in a queue are counted     *)
(* from its end, so that what happens at the front moves nothing else.     *)
(***************************************************************************)
EXTENDS SharedMem, SequenceTheorems, TLAPS

Block == [region : Region, off : Nat, len : Size]
Entry == [block : Block, late : BOOLEAN]
Label == {"idle", "find", "pop", "bump", "reread", "blind", "free", "push", "store",
          "late", "crashed"}

\* Inside shared_malloc.
Mallocs == {"find", "pop", "bump", "reread", "blind"}

MemType ==
  /\ m_next_id \in 1 .. MaxRegion /\ m_current = m_next_id - 1
  /\ r_off \in [Region -> Nat] /\ mapped \in [MemUser -> SUBSET Region]
  /\ m_free \subseteq Size /\ s_top \in [Size -> Seq(Block)]
  /\ kept \subseteq Block /\ leaked \subseteq Block
  /\ owned \in [MemUser -> SUBSET Block]
  /\ m_pc \in [MemUser -> Label]
  /\ ask \in [MemUser -> Nat] /\ why \in [MemUser -> {"caller", "head", "node"}]
  /\ r \in [MemUser -> Region]
  /\ give \in [MemUser -> Seq(Entry)]
  /\ head \in [MemUser -> Block \cup {NoBlock}]

\* What a process has to free where it is.
Local(p) ==
  /\ m_pc[p] \in Mallocs => ask[p] \in Size
  /\ m_pc[p] = "idle" \/ (m_pc[p] \in Mallocs /\ why[p] = "caller") => give[p] = <<>>
  /\ m_pc[p] \in Mallocs /\ why[p] # "caller" => Len(give[p]) >= 1
  /\ m_pc[p] \in {"free", "push"} => Len(give[p]) >= 1
  /\ m_pc[p] = "store" => Len(give[p]) >= 2
  /\ m_pc[p] = "push" => give[p][1].block.len \in m_free

Locals == \A p \in MemUser : Local(p)

\* A region but the first is mapped by the process that made it, so that it
\* finds its new region empty, and no other process gets to cut from it.
Regions ==
  /\ \A p, q \in MemUser : \A i \in mapped[p] \cap mapped[q] : i = 0 \/ p = q
  /\ \A p \in MemUser : \A i \in mapped[p] : i < m_next_id
  /\ \A i \in Region : i >= m_next_id => r_off[i] = 0
  /\ \A p \in MemUser : m_pc[p] = "reread" /\ m_current \in mapped[p] =>
       m_current > 0 /\ r_off[m_current] = 0
  /\ \A p \in MemUser : m_pc[p] = "blind" /\ r[p] \in mapped[p] =>
       r[p] > 0 /\ r_off[r[p]] = 0
  /\ \A i \in Region : r_off[i] <= RegionSize

\* The process has got the block for a list head and not yet stored it.
HoldsHead(p) == (m_pc[p] \in Mallocs /\ why[p] = "node") \/ m_pc[p] = "store"

\* The first of give that is to be freed: a node that may be, before it.
First(p) == IF m_pc[p] = "store" THEN 2 ELSE 1

Place(kind, whose, pos) == <<kind, whose, pos>>

\* at says where each block is: those of the process p, and those of none.
OwnPlaced(at, p) ==
  /\ \A b \in owned[p] : at[b] = Place("owned", p, 0)
  /\ \A i \in First(p) .. Len(give[p]) :
       at[give[p][i].block] = Place("give", p, Len(give[p]) - i)
  /\ HoldsHead(p) => head[p] \in kept /\ at[head[p]] = Place("head", p, 0)
  /\ m_pc[p] = "store" =>
       give[p][1].block \in kept /\ at[give[p][1].block] = Place("node", p, 0)

SharedPlaced(at) ==
  /\ \A b \in leaked : at[b] = Place("leaked", 0, 0)
  /\ \A n \in Size : \A i \in 1 .. Len(s_top[n]) :
       at[s_top[n][i]] = Place("list", n, Len(s_top[n]) - i)
  /\ \A b \in kept : at[b][1] \in {"kept", "head", "node"}

Placed(at) ==
  /\ DOMAIN at = Block
  /\ SharedPlaced(at) /\ \A p \in MemUser : OwnPlaced(at, p)

OnePlace == \E at : Placed(at)

\* A list holds blocks of its size, and one that is not in the tree is empty.
Lists ==
  /\ \A n \in Size : \A i \in 1 .. Len(s_top[n]) : s_top[n][i].len = n
  /\ \A n \in Size \ m_free : s_top[n] = <<>>

Within == \A b \in Blocks : b.off + b.len <= r_off[b.region]
Apart ==
  \A b, d \in Blocks : b # d /\ b.region = d.region =>
    b.off + b.len <= d.off \/ d.off + d.len <= b.off
Covered ==
  \A i \in Region : \A k \in 0 .. r_off[i] - 1 :
    \E b \in Blocks : b.region = i /\ b.off <= k /\ k < b.off + b.len

Tiles == Within /\ Apart /\ Covered

Sound == MemType /\ Locals /\ Regions /\ OnePlace /\ Lists /\ Tiles

MemInv == ~broken => Sound

-----------------------------------------------------------------------------
\* Sequences of blocks and of entries.

\* The blocks of a queue.
Borne(g) == ToSet([i \in DOMAIN g |-> g[i].block])

LEMMA SizeType ==
  RegionSize \in Nat /\ NoBlock \notin Block /\ \A n \in Size : n \in Nat \ {0} /\ n <= RegionSize
<1>1. RegionSize \in Nat /\ \A n \in Size : n \in Nat \ {0} /\ n <= RegionSize
  BY MemAssumption DEF Size
<1>2. ASSUME NoBlock \in Block PROVE FALSE
  BY <1>1, <1>2 DEF NoBlock, Block
<1> QED
  BY <1>1, <1>2

LEMMA InBorne ==
  ASSUME NEW g \in Seq(Entry), NEW b
  PROVE  b \in Borne(g) <=> \E i \in 1 .. Len(g) : g[i].block = b
BY DEF Borne, ToSet

LEMMA InToSet ==
  ASSUME NEW s \in Seq(Block), NEW b
  PROVE  b \in ToSet(s) <=> \E i \in 1 .. Len(s) : s[i] = b
BY DEF ToSet

\* One put in front.
LEMMA PutFront ==
  ASSUME NEW S, NEW s \in Seq(S), NEW e \in S
  PROVE  /\ <<e>> \o s \in Seq(S) /\ Len(<<e>> \o s) = Len(s) + 1
         /\ (<<e>> \o s)[1] = e
         /\ \A i \in 1 .. Len(s) : (<<e>> \o s)[i + 1] = s[i]
         /\ \A i \in 2 .. Len(s) + 1 : (<<e>> \o s)[i] = s[i - 1]
OBVIOUS

\* The front taken.
LEMMA TakeFront ==
  ASSUME NEW S, NEW s \in Seq(S), s # <<>>
  PROVE  /\ Tail(s) \in Seq(S) /\ Len(Tail(s)) = Len(s) - 1 /\ Len(s) >= 1
         /\ Head(s) = s[1] /\ Head(s) \in S
         /\ \A i \in 1 .. Len(s) - 1 : Tail(s)[i] = s[i + 1]
OBVIOUS

\* Two taken.
LEMMA TakeTwo ==
  ASSUME NEW S, NEW s \in Seq(S), Len(s) >= 2
  PROVE  /\ SubSeq(s, 3, Len(s)) \in Seq(S) /\ Len(SubSeq(s, 3, Len(s))) = Len(s) - 2
         /\ \A i \in 1 .. Len(s) - 2 : SubSeq(s, 3, Len(s))[i] = s[i + 2]
         /\ s[1] \in S /\ s[2] \in S
<1>1. PICK n \in Int : n = Len(s) /\ n >= 2 /\ \A i \in 3 .. n : s[i] \in S
  BY LenProperties
<1> DEFINE t == SubSeq(s, 3, n)
<1>2. /\ t \in Seq(S) /\ Len(t) = IF 3 <= n THEN n - 3 + 1 ELSE 0
      /\ \A i \in 1 .. n - 3 + 1 : t[i] = s[3 + i - 1]
  BY <1>1, SubSeqProperties
<1> HIDE DEF t
<1>3. Len(t) = n - 2
  BY <1>1, <1>2
<1>4. ASSUME NEW i \in 1 .. n - 2 PROVE t[i] = s[i + 2]
  BY <1>1, <1>2
<1>5. t \in Seq(S) /\ s[1] \in S /\ s[2] \in S
  BY <1>1, <1>2
<1> QED
  BY <1>1, <1>3, <1>4, <1>5 DEF t

LEMMA ToSetPut ==
  ASSUME NEW s \in Seq(Block), NEW e \in Block
  PROVE  ToSet(<<e>> \o s) = {e} \cup ToSet(s)
<1> DEFINE t == <<e>> \o s
<1>1. /\ t \in Seq(Block) /\ Len(t) = Len(s) + 1 /\ t[1] = e
      /\ \A i \in 1 .. Len(s) : t[i + 1] = s[i]
      /\ \A i \in 2 .. Len(s) + 1 : t[i] = s[i - 1]
  BY PutFront
<1> HIDE DEF t
<1>2. ASSUME NEW d \in ToSet(t) PROVE d \in {e} \cup ToSet(s)
  <2>1. PICK i \in 1 .. Len(t) : t[i] = d
    BY <1>1, InToSet
  <2>2. CASE i = 1
    BY <1>1, <2>1, <2>2
  <2>3. CASE i # 1
    <3>1. i - 1 \in 1 .. Len(s) /\ s[i - 1] = d
      BY <1>1, <2>1, <2>3
    <3> QED
      BY <3>1, InToSet
  <2> QED
    BY <2>2, <2>3
<1>3. e \in ToSet(t)
  <2>1. 1 \in 1 .. Len(t) /\ t[1] = e
    BY <1>1
  <2> QED
    BY <1>1, <2>1, InToSet
<1>4. ASSUME NEW d \in ToSet(s) PROVE d \in ToSet(t)
  <2>1. PICK i \in 1 .. Len(s) : s[i] = d
    BY InToSet
  <2>2. i + 1 \in 1 .. Len(t) /\ t[i + 1] = d
    BY <1>1, <2>1
  <2> QED
    BY <1>1, <2>2, InToSet
<1>5. ToSet(t) = {e} \cup ToSet(s)
  BY <1>2, <1>3, <1>4
<1> QED
  BY <1>5 DEF t

LEMMA ToSetTake ==
  ASSUME NEW s \in Seq(Block), s # <<>>
  PROVE  ToSet(s) = {Head(s)} \cup ToSet(Tail(s))
<1>1. Tail(s) \in Seq(Block) /\ Head(s) \in Block /\ s = <<Head(s)>> \o Tail(s)
  OBVIOUS
<1> QED
  BY <1>1, ToSetPut

LEMMA BornePut ==
  ASSUME NEW s \in Seq(Entry), NEW e \in Entry
  PROVE  Borne(<<e>> \o s) = {e.block} \cup Borne(s)
<1> DEFINE t == <<e>> \o s
<1>1. /\ t \in Seq(Entry) /\ Len(t) = Len(s) + 1 /\ t[1] = e
      /\ \A i \in 1 .. Len(s) : t[i + 1] = s[i]
      /\ \A i \in 2 .. Len(s) + 1 : t[i] = s[i - 1]
  BY PutFront
<1> HIDE DEF t
<1>2. ASSUME NEW d \in Borne(t) PROVE d \in {e.block} \cup Borne(s)
  <2>1. PICK i \in 1 .. Len(t) : t[i].block = d
    BY <1>1, InBorne
  <2>2. CASE i = 1
    BY <1>1, <2>1, <2>2
  <2>3. CASE i # 1
    <3>1. i - 1 \in 1 .. Len(s) /\ s[i - 1].block = d
      BY <1>1, <2>1, <2>3
    <3> QED
      BY <3>1, InBorne
  <2> QED
    BY <2>2, <2>3
<1>3. e.block \in Borne(t)
  <2>1. 1 \in 1 .. Len(t) /\ t[1].block = e.block
    BY <1>1
  <2> QED
    BY <1>1, <2>1, InBorne
<1>4. ASSUME NEW d \in Borne(s) PROVE d \in Borne(t)
  <2>1. PICK i \in 1 .. Len(s) : s[i].block = d
    BY InBorne
  <2>2. i + 1 \in 1 .. Len(t) /\ t[i + 1].block = d
    BY <1>1, <2>1
  <2> QED
    BY <1>1, <2>2, InBorne
<1>5. Borne(t) = {e.block} \cup Borne(s)
  BY <1>2, <1>3, <1>4
<1> QED
  BY <1>5 DEF t

LEMMA BorneTake ==
  ASSUME NEW s \in Seq(Entry), s # <<>>
  PROVE  Borne(s) = {Head(s).block} \cup Borne(Tail(s))
<1>1. Tail(s) \in Seq(Entry) /\ Head(s) \in Entry /\ s = <<Head(s)>> \o Tail(s)
  OBVIOUS
<1> QED
  BY <1>1, BornePut

LEMMA BorneTwo ==
  ASSUME NEW s \in Seq(Entry), Len(s) >= 2
  PROVE  Borne(s) = {s[1].block, s[2].block} \cup Borne(SubSeq(s, 3, Len(s)))
<1>1. /\ Tail(s) \in Seq(Entry) /\ s # <<>> /\ Tail(s) # <<>>
      /\ Head(s) = s[1] /\ Head(Tail(s)) = s[2]
  <2>1. s # <<>> /\ Head(s) = s[1]
    OBVIOUS
  <2>2. Tail(s) \in Seq(Entry) /\ Len(Tail(s)) = Len(s) - 1
        /\ \A i \in 1 .. Len(Tail(s)) : Tail(s)[i] = s[i + 1]
    BY <2>1, HeadTailProperties
  <2>3. 1 \in 1 .. Len(Tail(s)) /\ 1 + 1 = 2
    BY <2>2
  <2>4. Tail(s) # <<>> /\ Head(Tail(s)) = Tail(s)[1]
    <3>1. \A t \in Seq(Entry) : 1 \in 1 .. Len(t) => t # <<>> /\ Head(t) = t[1]
      OBVIOUS
    <3> QED
      BY <2>2, <2>3, <3>1, Zenon
  <2> QED
    BY <2>1, <2>2, <2>3, <2>4
<1>2. Tail(Tail(s)) = SubSeq(s, 3, Len(s))
  OBVIOUS
<1>3. Borne(s) = {s[1].block} \cup Borne(Tail(s))
  BY <1>1, BorneTake
<1>4. Borne(Tail(s)) = {s[2].block} \cup Borne(Tail(Tail(s)))
  BY <1>1, BorneTake
<1> QED
  BY <1>2, <1>3, <1>4

-----------------------------------------------------------------------------
\* The tiles and the places.

LEMMA InBlocks ==
  ASSUME NEW b
  PROVE  b \in Blocks <=> \/ b \in kept \/ b \in leaked
                          \/ \E n \in Size : b \in ToSet(s_top[n])
                          \/ \E p \in MemUser : b \in owned[p] \/ b \in Borne(give[p])
BY DEF Blocks, Hands, Borne

LEMMA BlocksType == MemType => Blocks \subseteq Block
<1> SUFFICES ASSUME MemType, NEW b \in Blocks PROVE b \in Block
  OBVIOUS
<1>1. ASSUME NEW n \in Size, b \in ToSet(s_top[n]) PROVE b \in Block
  <2>1. s_top[n] \in Seq(Block)
    BY DEF MemType
  <2> QED
    BY <1>1, <2>1 DEF ToSet
<1>2. ASSUME NEW p \in MemUser, b \in Borne(give[p]) PROVE b \in Block
  <2>1. give[p] \in Seq(Entry)
    BY DEF MemType
  <2>2. PICK i \in 1 .. Len(give[p]) : give[p][i].block = b
    BY <1>2, <2>1, InBorne
  <2>3. give[p][i] \in Entry
    BY <2>1
  <2> QED
    BY <2>2, <2>3 DEF Entry
<1> QED
  BY <1>1, <1>2, InBlocks DEF MemType

LEMMA SameTiles ==
  ASSUME Tiles, r_off' = r_off, \A b : b \in Blocks' <=> b \in Blocks
  PROVE  Tiles'
BY DEF Tiles, Within, Apart, Covered

\* A block cut from the front of region i is new, and fits.
LEMMA CutTiles ==
  ASSUME MemType, Tiles, NEW i \in Region, NEW n \in Size, NEW b,
         b = [region |-> i, off |-> r_off[i], len |-> n],
         r_off' = [r_off EXCEPT ![i] = @ + n],
         \A d : d \in Blocks' <=> d = b \/ d \in Blocks
  PROVE  Tiles' /\ b \notin Blocks
<1>1. /\ n \in Nat \ {0} /\ r_off \in [Region -> Nat]
      /\ r_off' \in [Region -> Nat] /\ r_off'[i] = r_off[i] + n
      /\ \A j \in Region \ {i} : r_off'[j] = r_off[j]
  BY SizeType DEF MemType
<1>2. \A d \in Blocks : d.region \in Region /\ d.off \in Nat /\ d.len \in Nat \ {0}
  <2> SUFFICES ASSUME NEW d \in Blocks
               PROVE  d.region \in Region /\ d.off \in Nat /\ d.len \in Nat \ {0}
    OBVIOUS
  <2>1. d \in Block
    BY BlocksType
  <2>2. d.region \in Region /\ d.off \in Nat /\ d.len \in Size
    BY <2>1 DEF Block
  <2> QED
    BY <2>2, SizeType
<1>3. b.region = i /\ b.off = r_off[i] /\ b.len = n
  OBVIOUS
<1>4. \A d \in Blocks : d.off + d.len <= r_off[d.region]
  BY DEF Tiles, Within
<1>5. b \notin Blocks
  BY <1>1, <1>3, <1>4
<1>6. Within'
  <2> SUFFICES ASSUME NEW d \in Blocks' PROVE d.off + d.len <= r_off'[d.region]
    BY DEF Within
  <2> QED
    BY <1>1, <1>2, <1>3, <1>4
<1>7. Apart'
  <2> SUFFICES ASSUME NEW c \in Blocks', NEW d \in Blocks', c # d, c.region = d.region
               PROVE  c.off + c.len <= d.off \/ d.off + d.len <= c.off
    BY DEF Apart
  <2>1. CASE c \in Blocks /\ d \in Blocks
    BY <2>1 DEF Tiles, Apart
  <2>2. CASE c = b
    BY <1>3, <1>4, <2>2
  <2>3. CASE d = b
    BY <1>3, <1>4, <2>3
  <2> QED
    BY <2>1, <2>2, <2>3
<1>8. Covered'
  <2> SUFFICES ASSUME NEW j \in Region, NEW k \in 0 .. r_off'[j] - 1
               PROVE  \E d \in Blocks' : d.region = j /\ d.off <= k /\ k < d.off + d.len
    BY DEF Covered
  <2>1. CASE j = i /\ k >= r_off[i]
    <3>1. b \in Blocks' /\ b.region = j /\ b.off <= k /\ k < b.off + b.len
      BY <1>1, <1>3, <2>1
    <3> QED
      BY <3>1
  <2>2. CASE ~(j = i /\ k >= r_off[i])
    <3>1. k \in 0 .. r_off[j] - 1
      BY <1>1, <2>2
    <3> QED
      BY <3>1 DEF Tiles, Covered
  <2> QED
    BY <2>1, <2>2
<1> QED
  BY <1>5, <1>6, <1>7, <1>8 DEF Tiles

\* A step that moves no block, and after which no process that did not has
\* a list head in its hands.
LEMMA SamePlaces ==
  ASSUME OnePlace, Lists, UNCHANGED <<kept, leaked, s_top, owned, give, head, m_free>>,
         \A p \in MemUser : HoldsHead(p)' => HoldsHead(p),
         \A p \in MemUser : m_pc'[p] = "store" <=> m_pc[p] = "store"
  PROVE  OnePlace' /\ Lists'
<1>1. PICK at : Placed(at)
  BY DEF OnePlace
<1>2. \A p \in MemUser : First(p)' = First(p)
  BY DEF First
<1>3. Placed(at)'
  BY <1>1, <1>2 DEF Placed, SharedPlaced, OwnPlaced
<1> QED
  BY <1>3 DEF OnePlace, Lists

LEMMA SameBlocks ==
  ASSUME UNCHANGED <<kept, leaked, s_top, owned, give>>
  PROVE  \A b : b \in Blocks' <=> b \in Blocks
BY DEF Blocks, Hands

\* Two regions of a process that is not where it looks at a new one.
LEMMA SameRegions ==
  ASSUME Regions, UNCHANGED <<m_current, m_next_id, r_off, mapped>>,
         \A p \in MemUser : m_pc'[p] = "reread" => m_pc[p] = "reread",
         \A p \in MemUser : m_pc'[p] = "blind" => m_pc[p] = "blind" /\ r'[p] = r[p]
  PROVE  Regions'
BY DEF Regions

LEMMA SoundInit == MemInit => MemInv
<1> SUFFICES ASSUME MemInit PROVE Sound
  BY DEF MemInv
<1>1. 0 \in Region /\ MaxRegion \in Nat \ {0}
  BY MemAssumption DEF Region
<1>2. MemType
  BY <1>1 DEF MemInit, MemType, Label, Region
<1>3. Locals
  BY DEF MemInit, Locals, Local, Mallocs
<1>4. Regions
  BY MemAssumption DEF MemInit, Regions, Region
<1>5. Placed([b \in Block |-> Place("leaked", 0, 0)])
  <2>1. /\ leaked = {} /\ kept = {} /\ \A n \in Size : s_top[n] = <<>>
        /\ \A p \in MemUser : owned[p] = {} /\ give[p] = <<>> /\ m_pc[p] = "idle"
    BY DEF MemInit
  <2>2. \A p \in MemUser : First(p) = 1 /\ ~HoldsHead(p)
    BY <2>1 DEF First, HoldsHead, Mallocs
  <2> QED
    BY <2>1, <2>2 DEF Placed, SharedPlaced, OwnPlaced
<1>6. \A b : b \notin Blocks
  BY InBlocks DEF MemInit, Borne, ToSet
<1>7. Tiles
  BY <1>6 DEF MemInit, Tiles, Within, Apart, Covered
<1> QED
  BY <1>2, <1>3, <1>4, <1>5, <1>7 DEF MemInit, Sound, OnePlace, Lists

-----------------------------------------------------------------------------
\* The steps that move no block.

LEMMA QuietStep ==
  ASSUME Sound, MemType', Locals', Regions',
         UNCHANGED <<kept, leaked, s_top, owned, give, head, m_free, r_off>>,
         \A p \in MemUser : HoldsHead(p)' => HoldsHead(p),
         \A p \in MemUser : m_pc'[p] = "store" <=> m_pc[p] = "store"
  PROVE  Sound'
<1>1. OnePlace' /\ Lists'
  BY SamePlaces DEF Sound
<1>2. Tiles'
  BY SameBlocks, SameTiles DEF Sound
<1> QED
  BY <1>1, <1>2 DEF Sound

\* Where the counter of p has gone, and nobody else's.
LEMMA GotoType ==
  ASSUME MemType, NEW p \in MemUser, NEW l \in Label, MGoto(p, l)
  PROVE  /\ m_pc' \in [MemUser -> Label] /\ m_pc'[p] = l
         /\ \A q \in MemUser \ {p} : m_pc'[q] = m_pc[q]
BY DEF MemType, MGoto

LEMMA AskStep ==
  ASSUME Sound, NEW p \in MemUser, Ask(p)
  PROVE  Sound'
<1>1. PICK n \in BlockSize : Malloc(p, n, "caller")
  BY DEF Ask
<1>2. MGoto(p, "find") /\ n \in Size /\ n \in Nat /\ m_pc[p] = "idle"
  BY <1>1, SizeType DEF Malloc, Size, Ask, At
<1>3. /\ m_pc' \in [MemUser -> Label] /\ m_pc'[p] = "find"
      /\ \A q \in MemUser \ {p} : m_pc'[q] = m_pc[q]
  BY <1>2, GotoType DEF Sound, Label
<1>4. /\ ask' \in [MemUser -> Nat] /\ why' \in [MemUser -> {"caller", "head", "node"}]
      /\ ask'[p] = n /\ why'[p] = "caller"
      /\ \A q \in MemUser \ {p} : ask'[q] = ask[q] /\ why'[q] = why[q]
  BY <1>1, <1>2 DEF Malloc, Sound, MemType
<1>5. /\ UNCHANGED <<m_current, m_next_id, r_off, mapped, m_free, s_top, s_m>>
      /\ UNCHANGED <<kept, owned, r, give, head, leaked>>
  BY DEF Ask
<1>6. MemType'
  BY <1>3, <1>4, <1>5 DEF Sound, MemType
<1>7. Locals'
  BY <1>2, <1>3, <1>4, <1>5 DEF Sound, Locals, Local, Mallocs
<1>8. Regions'
  BY <1>3, <1>5, SameRegions DEF Sound
<1> QED
  BY <1>2, <1>3, <1>4, <1>5, <1>6, <1>7, <1>8, QuietStep DEF HoldsHead, Mallocs

LEMMA FindSizeStep ==
  ASSUME Sound, NEW p \in MemUser, FindSize(p)
  PROVE  Sound'
<1>1. PICK l \in {"pop", "bump"} : MGoto(p, l)
  BY DEF FindSize
<1>2. /\ m_pc' \in [MemUser -> Label] /\ m_pc'[p] = l /\ m_pc[p] = "find"
      /\ \A q \in MemUser \ {p} : m_pc'[q] = m_pc[q]
  BY <1>1, GotoType DEF Sound, Label, FindSize, At
<1>3. m_current \in Region
  BY MemAssumption DEF Sound, MemType, Region
<1>4. r' = [r EXCEPT ![p] = m_current]
  BY DEF FindSize
<1>5. r' \in [MemUser -> Region] /\ \A q \in MemUser \ {p} : r'[q] = r[q]
  BY <1>3, <1>4 DEF Sound, MemType
<1>6. /\ UNCHANGED <<m_current, m_next_id, r_off, mapped, m_free, s_top, s_m, kept, owned>>
      /\ UNCHANGED <<ask, why, give, head, leaked>>
  BY DEF FindSize
<1>7. MemType'
  BY <1>2, <1>5, <1>6 DEF Sound, MemType
<1>8. Locals'
  BY <1>2, <1>6 DEF Sound, Locals, Local, Mallocs
<1>9. Regions'
  BY <1>2, <1>5, <1>6, SameRegions DEF Sound
<1> QED
  BY <1>2, <1>6, <1>7, <1>8, <1>9, QuietStep DEF HoldsHead, Mallocs

LEMMA CrashOnRegionStep ==
  ASSUME Sound, NEW p \in MemUser, CrashOnRegion(p)
  PROVE  Sound'
<1>1. /\ m_pc' \in [MemUser -> Label] /\ m_pc'[p] = "crashed" /\ m_pc[p] \in {"bump", "blind"}
      /\ \A q \in MemUser \ {p} : m_pc'[q] = m_pc[q]
  BY GotoType DEF Sound, Label, CrashOnRegion, At
<1>2. /\ UNCHANGED <<m_current, m_next_id, r_off, mapped, m_free, s_top, s_m, kept, owned>>
      /\ UNCHANGED <<ask, why, r, give, head, leaked>>
  BY DEF CrashOnRegion
<1>3. MemType'
  BY <1>1, <1>2 DEF Sound, MemType
<1>4. Locals'
  BY <1>1, <1>2 DEF Sound, Locals, Local, Mallocs
<1>5. Regions'
  BY <1>1, <1>2, SameRegions DEF Sound
<1> QED
  BY <1>1, <1>2, <1>3, <1>4, <1>5, QuietStep DEF HoldsHead, Mallocs

LEMMA FindListStep ==
  ASSUME Sound, NEW p \in MemUser, FindList(p)
  PROVE  Sound'
<1>1. PICK found \in FoundBy(p, Given(p).len) :
        IF found THEN MGoto(p, "push") /\ UNCHANGED <<ask, why>>
        ELSE Malloc(p, HeaderSize, "head")
  BY DEF FindList
<1>2. /\ UNCHANGED <<m_current, m_next_id, r_off, mapped, m_free, s_top, s_m, kept, owned>>
      /\ UNCHANGED <<r, give, head, leaked>> /\ m_pc[p] = "free"
  BY DEF FindList, At
<1>3. give[p] \in Seq(Entry) /\ Len(give[p]) >= 1
  BY <1>2 DEF Sound, MemType, Locals, Local
<1>4. Given(p) = give[p][1].block
  BY <1>3 DEF Given
<1>5. CASE found
  <2>1. Given(p).len \in m_free
    BY <1>5 DEF FoundBy
  <2>2. /\ m_pc' \in [MemUser -> Label] /\ m_pc'[p] = "push"
        /\ \A q \in MemUser \ {p} : m_pc'[q] = m_pc[q]
    BY <1>1, <1>5, GotoType DEF Sound, Label
  <2>3. UNCHANGED <<ask, why>>
    BY <1>1, <1>5
  <2>4. MemType'
    BY <1>2, <2>2, <2>3 DEF Sound, MemType
  <2>5. Locals'
    BY <1>2, <1>3, <1>4, <2>1, <2>2, <2>3 DEF Sound, Locals, Local, Mallocs
  <2>6. Regions'
    BY <1>2, <2>2, SameRegions DEF Sound
  <2> QED
    BY <1>2, <2>2, <2>3, <2>4, <2>5, <2>6, QuietStep DEF HoldsHead, Mallocs
<1>6. CASE ~found
  <2>1. Malloc(p, HeaderSize, "head") /\ HeaderSize \in Size /\ HeaderSize \in Nat
    BY <1>1, <1>6, SizeType DEF Size
  <2>2. /\ m_pc' \in [MemUser -> Label] /\ m_pc'[p] = "find"
        /\ \A q \in MemUser \ {p} : m_pc'[q] = m_pc[q]
    BY <2>1, GotoType DEF Sound, Label, Malloc
  <2>3. /\ ask' \in [MemUser -> Nat] /\ why' \in [MemUser -> {"caller", "head", "node"}]
        /\ ask'[p] = HeaderSize /\ why'[p] = "head"
        /\ \A q \in MemUser \ {p} : ask'[q] = ask[q] /\ why'[q] = why[q]
    BY <2>1 DEF Malloc, Sound, MemType
  <2>4. MemType'
    BY <1>2, <2>2, <2>3 DEF Sound, MemType
  <2>5. Locals'
    BY <1>2, <1>3, <2>1, <2>2, <2>3 DEF Sound, Locals, Local, Mallocs
  <2>6. Regions'
    BY <1>2, <2>2, SameRegions DEF Sound
  <2> QED
    BY <1>2, <2>2, <2>3, <2>4, <2>5, <2>6, QuietStep DEF HoldsHead, Mallocs
<1> QED
  BY <1>5, <1>6

LEMMA RereadStep ==
  ASSUME Sound, NEW p \in MemUser, Reread(p)
  PROVE  Sound'
<1>1. /\ m_pc' \in [MemUser -> Label] /\ m_pc'[p] = "blind" /\ m_pc[p] = "reread"
      /\ \A q \in MemUser \ {p} : m_pc'[q] = m_pc[q]
  BY GotoType DEF Sound, Label, Reread, At
<1>2. /\ UNCHANGED <<m_current, m_next_id, r_off, mapped, m_free, s_top, s_m, kept, owned>>
      /\ UNCHANGED <<ask, why, give, head, leaked>> /\ r' = [r EXCEPT ![p] = m_current]
  BY DEF Reread
<1>3. m_current \in Region
  BY MemAssumption DEF Sound, MemType, Region
<1>4. /\ r' \in [MemUser -> Region] /\ r'[p] = m_current
      /\ \A q \in MemUser \ {p} : r'[q] = r[q]
  BY <1>2, <1>3 DEF Sound, MemType
<1>5. MemType'
  BY <1>1, <1>2, <1>4 DEF Sound, MemType
<1>6. Locals'
  BY <1>1, <1>2 DEF Sound, Locals, Local, Mallocs
<1>7. Regions'
  BY <1>1, <1>2, <1>4 DEF Sound, Regions
<1> QED
  BY <1>1, <1>2, <1>5, <1>6, <1>7, QuietStep DEF HoldsHead, Mallocs

\* A late unlock that damages nothing.
LEMMA LateUnlockStep ==
  ASSUME Sound, NEW p \in MemUser, LateUnlock(p)
  PROVE  Sound'
<1>1. PICK l \in {"idle", "free"} : MGoto(p, l) /\ (l = "idle" <=> give[p] = <<>>)
  BY DEF LateUnlock
<1>2. /\ m_pc' \in [MemUser -> Label] /\ m_pc'[p] = l /\ m_pc[p] = "late"
      /\ \A q \in MemUser \ {p} : m_pc'[q] = m_pc[q]
  BY <1>1, GotoType DEF Sound, Label, LateUnlock, At
<1>3. /\ UNCHANGED <<m_current, m_next_id, r_off, mapped, m_free, s_top, s_m, kept, owned>>
      /\ UNCHANGED <<ask, why, r, give, head, leaked>>
  BY DEF LateUnlock
<1>4. MemType'
  BY <1>2, <1>3 DEF Sound, MemType
<1>5. l = "free" => Len(give[p]) >= 1
  <2>1. give[p] \in Seq(Entry) /\ Len(give[p]) \in Nat
    BY LenProperties DEF Sound, MemType
  <2> QED
    BY <1>1, <2>1, EmptySeq
<1>6. Locals'
  BY <1>1, <1>2, <1>3, <1>5 DEF Sound, Locals, Local, Mallocs
<1>7. Regions'
  BY <1>1, <1>2, <1>3, SameRegions DEF Sound
<1> QED
  BY <1>1, <1>2, <1>3, <1>4, <1>6, <1>7, QuietStep DEF HoldsHead, Mallocs

LEMMA GrowStep ==
  ASSUME Sound, NEW p \in MemUser, Grow(p)
  PROVE  Sound'
<1>1. /\ m_pc' \in [MemUser -> Label] /\ m_pc'[p] = "reread" /\ m_pc[p] = "bump"
      /\ \A q \in MemUser \ {p} : m_pc'[q] = m_pc[q]
  BY GotoType DEF Sound, Label, Grow, At
<1>2. /\ UNCHANGED <<r_off, m_free, s_top, s_m, kept, owned, ask, why>>
      /\ UNCHANGED <<r, give, head, leaked>>
      /\ m_next_id < MaxRegion /\ m_current' = m_next_id /\ m_next_id' = m_next_id + 1
      /\ mapped' = [mapped EXCEPT ![p] = @ \cup {m_next_id}]
  BY DEF Grow
<1>3. /\ m_next_id \in Region /\ m_next_id > 0 /\ m_next_id' \in 1 .. MaxRegion
      /\ m_current' = m_next_id' - 1
  BY <1>2, MemAssumption DEF Sound, MemType, Region
<1>4. /\ mapped' \in [MemUser -> SUBSET Region] /\ mapped'[p] = mapped[p] \cup {m_next_id}
      /\ \A q \in MemUser \ {p} : mapped'[q] = mapped[q]
  BY <1>2, <1>3 DEF Sound, MemType
<1>5. MemType'
  BY <1>1, <1>2, <1>3, <1>4 DEF Sound, MemType
<1>6. Locals'
  BY <1>1, <1>2 DEF Sound, Locals, Local, Mallocs
<1>7. Regions'
  <2>0. \A q \in MemUser : m_next_id \notin mapped[q]
    BY <1>3 DEF Sound, Regions, Region
  <2>1. ASSUME NEW q \in MemUser, NEW s \in MemUser, NEW i \in mapped'[q] \cap mapped'[s]
        PROVE  i = 0 \/ q = s
    <3>1. CASE i = m_next_id
      <4>1. q = p /\ s = p
        BY <1>4, <2>0, <2>1, <3>1
      <4> QED
        BY <4>1
    <3>2. CASE i # m_next_id
      <4>1. i \in mapped[q] \cap mapped[s]
        BY <1>4, <2>1, <3>2
      <4> QED
        BY <4>1 DEF Sound, Regions
    <3> QED
      BY <3>1, <3>2
  <2>2. \A q \in MemUser : \A i \in mapped'[q] : i < m_next_id'
    <3> SUFFICES ASSUME NEW q \in MemUser, NEW i \in mapped'[q] PROVE i < m_next_id'
      OBVIOUS
    <3>1. i \in Region /\ (i \in mapped[q] \/ i = m_next_id)
      BY <1>4
    <3> QED
      BY <1>2, <1>3, <3>1 DEF Sound, Regions, MemType, Region
  <2>3. \A i \in Region : i >= m_next_id' => r_off'[i] = 0
    BY <1>2, <1>3 DEF Sound, Regions, MemType, Region
  <2>4. m_current' > 0 /\ r_off'[m_current'] = 0
    BY <1>2, <1>3 DEF Sound, Regions, MemType, Region
  <2>5. ASSUME NEW q \in MemUser, m_pc'[q] = "blind", r'[q] \in mapped'[q]
        PROVE  r'[q] > 0 /\ r_off'[r'[q]] = 0
    <3>1. q # p /\ m_pc[q] = "blind" /\ r[q] \in mapped[q]
      BY <1>1, <1>2, <1>4, <2>5
    <3> QED
      BY <1>2, <3>1 DEF Sound, Regions
  <2>6. \A i \in Region : r_off'[i] <= RegionSize
    BY <1>2 DEF Sound, Regions
  <2> QED
    BY <2>1, <2>2, <2>3, <2>4, <2>5, <2>6 DEF Regions
<1> QED
  BY <1>1, <1>2, <1>5, <1>6, <1>7, QuietStep DEF HoldsHead, Mallocs

-----------------------------------------------------------------------------
\* The steps that move blocks.  Each begins with where its block is.

LEMMA GiveType ==
  ASSUME MemType, NEW p \in MemUser, NEW i \in 1 .. Len(give[p])
  PROVE  give[p][i] \in Entry /\ give[p][i].block \in Block /\ Len(give[p]) \in Nat
<1>1. give[p] \in Seq(Entry)
  BY DEF MemType
<1>2. give[p][i] \in Entry /\ Len(give[p]) \in Nat
  BY <1>1
<1> QED
  BY <1>2 DEF Entry

LEMMA ListType ==
  ASSUME MemType, NEW n \in Size, NEW i \in 1 .. Len(s_top[n])
  PROVE  s_top[n][i] \in Block /\ Len(s_top[n]) \in Nat
<1>1. s_top[n] \in Seq(Block)
  BY DEF MemType
<1> QED
  BY <1>1

\* Block b is neither with process p nor on its way back through it.
NotHis(b, p) ==
  /\ b \notin owned[p]
  /\ \A i \in First(p) .. Len(give[p]) : give[p][i].block # b
  /\ HoldsHead(p) => head[p] # b
  /\ m_pc[p] = "store" => give[p][1].block # b

\* Block b is nowhere but, maybe, in the place Place(k, w, x).
OnlyAt(b, k, w, x) ==
  /\ k # "leaked" => b \notin leaked
  /\ \A n \in Size : \A i \in 1 .. Len(s_top[n]) :
       k # "list" \/ w # n \/ x # Len(s_top[n]) - i => s_top[n][i] # b
  /\ k \notin {"kept", "head", "node"} => b \notin kept
  /\ \A p \in MemUser : k \notin {"owned", "give", "head", "node"} \/ w # p => NotHis(b, p)
  /\ \A p \in MemUser : k # "owned" => b \notin owned[p]
  /\ \A p \in MemUser : \A i \in First(p) .. Len(give[p]) :
       k # "give" \/ x # Len(give[p]) - i => give[p][i].block # b

LEMMA PlaceIsOne ==
  ASSUME NEW at, Placed(at), NEW b \in Block, NEW k, NEW w, NEW x, at[b] = Place(k, w, x)
  PROVE  OnlyAt(b, k, w, x)
BY DEF Placed, SharedPlaced, OwnPlaced, Place, OnlyAt, NotHis

\* The blocks of B are moved, to where new says.
Moved(at, new, B) ==
  /\ DOMAIN new = Block /\ \A c \in Block \ B : new[c] = at[c]
  /\ \A b \in kept : b \in kept' \/ b \in B

Untouched(q) ==
  /\ m_pc'[q] = m_pc[q] /\ why'[q] = why[q]
  /\ owned'[q] = owned[q] /\ give'[q] = give[q] /\ head'[q] = head[q]

\* What stays with a process when the blocks of B move.
LEMMA OwnStays ==
  ASSUME MemType, NEW at, Placed(at), NEW B, NEW new, Moved(at, new, B),
         NEW q \in MemUser, \A b \in B : NotHis(b, q), Untouched(q)
  PROVE  OwnPlaced(new, q)'
<1> USE DEF Moved, Untouched
<1>1. First(q)' = First(q) /\ HoldsHead(q)' = HoldsHead(q)
  BY DEF First, HoldsHead
<1>2. OwnPlaced(at, q)
  BY DEF Placed
<1>3. \A c \in owned'[q] : new[c] = Place("owned", q, 0)
  <2> SUFFICES ASSUME NEW c \in owned'[q] PROVE new[c] = Place("owned", q, 0)
    OBVIOUS
  <2>1. c \in Block \ B
    BY DEF NotHis, MemType
  <2> QED
    BY <1>2, <2>1 DEF OwnPlaced
<1>4. \A i \in First(q)' .. Len(give'[q]) :
        new[give'[q][i].block] = Place("give", q, Len(give'[q]) - i)
  <2> SUFFICES ASSUME NEW i \in First(q) .. Len(give[q])
               PROVE  new[give[q][i].block] = Place("give", q, Len(give[q]) - i)
    BY <1>1
  <2>1. give[q][i].block \in Block \ B
    BY GiveType DEF NotHis, First
  <2> QED
    BY <1>2, <2>1 DEF OwnPlaced
<1>5. HoldsHead(q)' => head'[q] \in kept' /\ new[head'[q]] = Place("head", q, 0)
  BY <1>1, <1>2 DEF OwnPlaced, NotHis, MemType
<1>6. m_pc'[q] = "store" =>
        give'[q][1].block \in kept' /\ new[give'[q][1].block] = Place("node", q, 0)
  BY <1>2 DEF OwnPlaced, NotHis, MemType
<1> QED
  BY <1>3, <1>4, <1>5, <1>6 DEF OwnPlaced

\* The blocks after a step.
LEMMA InBlocksNext ==
  ASSUME NEW b
  PROVE  b \in Blocks' <=> \/ b \in kept' \/ b \in leaked'
                           \/ \E n \in Size : b \in ToSet(s_top'[n])
                           \/ \E p \in MemUser : b \in owned'[p] \/ b \in Borne(give'[p])
BY DEF Blocks, Hands, Borne

\* A process leaves alone what the others have to free.
LEMMA OthersLocal ==
  ASSUME Locals, m_free \subseteq m_free', NEW p \in MemUser, Local(p)',
         \A q \in MemUser \ {p} : m_pc'[q] = m_pc[q] /\ ask'[q] = ask[q],
         \A q \in MemUser \ {p} : why'[q] = why[q] /\ give'[q] = give[q]
  PROVE  Locals'
BY DEF Locals, Local

LEMMA OneBorne ==
  ASSUME NEW e \in Entry
  PROVE  <<e>> \in Seq(Entry) /\ Len(<<e>>) = 1 /\ <<e>>[1] = e /\ Borne(<<e>>) = {e.block}
BY DEF Borne, ToSet

LEMMA FreeStep ==
  ASSUME Sound, NEW p \in MemUser, Free(p)
  PROVE  Sound'
<1>1. PICK b \in owned[p] :
        /\ owned' = [owned EXCEPT ![p] = @ \ {b}]
        /\ give' = [give EXCEPT ![p] = <<[block |-> b, late |-> FALSE]>>]
  BY DEF Free
<1>2. /\ m_pc' \in [MemUser -> Label] /\ m_pc'[p] = "free" /\ m_pc[p] = "idle"
      /\ \A q \in MemUser \ {p} : m_pc'[q] = m_pc[q]
  BY GotoType DEF Sound, Label, Free, At
<1>3. /\ UNCHANGED <<m_current, m_next_id, r_off, mapped, m_free, s_top, s_m, kept>>
      /\ UNCHANGED <<ask, why, r, head, leaked>>
  BY DEF Free
<1>4. b \in Block /\ [block |-> b, late |-> FALSE] \in Entry
  BY DEF Sound, MemType, Entry
<1>5. give[p] = <<>>
  BY <1>2 DEF Sound, Locals, Local
<1>6. /\ owned' \in [MemUser -> SUBSET Block] /\ owned'[p] = owned[p] \ {b}
      /\ \A q \in MemUser \ {p} : owned'[q] = owned[q]
  BY <1>1 DEF Sound, MemType
<1>7. /\ give' \in [MemUser -> Seq(Entry)]
      /\ Len(give'[p]) = 1 /\ give'[p][1].block = b /\ Borne(give'[p]) = {b}
      /\ \A q \in MemUser \ {p} : give'[q] = give[q]
  <2> DEFINE e == [block |-> b, late |-> FALSE]
  <2>1. e \in Entry /\ e.block = b
    BY <1>4
  <2>2. give' = [give EXCEPT ![p] = <<e>>]
    BY <1>1
  <2> HIDE DEF e
  <2>3. <<e>> \in Seq(Entry) /\ Len(<<e>>) = 1 /\ <<e>>[1] = e /\ Borne(<<e>>) = {b}
    BY <2>1, OneBorne
  <2>4. give'[p] = <<e>>
    BY <2>2 DEF Sound, MemType
  <2>5. give' \in [MemUser -> Seq(Entry)] /\ \A q \in MemUser \ {p} : give'[q] = give[q]
    BY <2>2, <2>3 DEF Sound, MemType
  <2> QED
    BY <2>1, <2>3, <2>4, <2>5
<1>8. MemType'
  BY <1>2, <1>3, <1>6, <1>7 DEF Sound, MemType
<1>9. Locals'
  <2>1. Local(p)'
    BY <1>2, <1>7 DEF Local, Mallocs
  <2> QED
    BY <1>2, <1>3, <1>7, <2>1, OthersLocal DEF Sound
<1>10. Regions'
  BY <1>2, <1>3, SameRegions DEF Sound
<1>11. Lists'
  BY <1>3 DEF Sound, Lists
<1>12. \A c : c \in Blocks' <=> c \in Blocks
  <2>1. Borne(give[p]) = {}
    BY <1>5 DEF Borne, ToSet
  <2>2. \A c : \A q \in MemUser : c \in owned'[q] \/ c \in Borne(give'[q])
                                    <=> c \in owned[q] \/ c \in Borne(give[q])
    BY <1>1, <1>6, <1>7, <2>1
  <2> QED
    BY <1>3, <2>2, InBlocks, InBlocksNext
<1>13. Tiles'
  BY <1>3, <1>12, SameTiles DEF Sound
<1>14. PICK at : Placed(at)
  BY DEF Sound, OnePlace
<1> DEFINE new == [at EXCEPT ![b] = Place("give", p, 0)]
<1>15. /\ DOMAIN new = Block /\ new[b] = Place("give", p, 0)
       /\ \A c \in Block \ {b} : new[c] = at[c]
  BY <1>4, <1>14 DEF Placed
<1> HIDE DEF new
<1>16. OnlyAt(b, "owned", p, 0)
  <2>1. at[b] = Place("owned", p, 0)
    BY <1>14 DEF Placed, OwnPlaced
  <2> QED
    BY <1>4, <1>14, <2>1, PlaceIsOne
<1>17. Placed(new)'
  <2>1. ASSUME NEW q \in MemUser \ {p} PROVE OwnPlaced(new, q)'
    <3>1. \A c \in {b} : NotHis(c, q)
      BY <1>16 DEF OnlyAt
    <3>2. Moved(at, new, {b})
      BY <1>3, <1>15 DEF Moved
    <3>3. Untouched(q)
      BY <1>2, <1>3, <1>6, <1>7 DEF Untouched
    <3> QED
      BY <1>14, <3>1, <3>2, <3>3, OwnStays DEF Sound
  <2>2. OwnPlaced(new, p)'
    <3>1. First(p)' = 1 /\ ~HoldsHead(p)'
      BY <1>2 DEF First, HoldsHead, Mallocs
    <3>2. \A c \in owned'[p] : new[c] = Place("owned", p, 0)
      BY <1>6, <1>14, <1>15 DEF Placed, OwnPlaced, Sound, MemType
    <3>3. ASSUME NEW i \in 1 .. Len(give'[p])
          PROVE  new[give'[p][i].block] = Place("give", p, Len(give'[p]) - i)
      <4>1. i = 1
        BY <1>7
      <4> QED
        BY <1>7, <1>15, <4>1
    <3> QED
      BY <1>2, <3>1, <3>2, <3>3 DEF OwnPlaced
  <2>3. SharedPlaced(new)'
    BY <1>3, <1>14, <1>15, <1>16, ListType DEF Placed, SharedPlaced, OnlyAt, Sound, MemType
  <2> QED
    BY <1>15, <2>1, <2>2, <2>3 DEF Placed
<1>18. OnePlace'
  BY <1>17 DEF OnePlace
<1> QED
  BY <1>8, <1>9, <1>10, <1>11, <1>13, <1>18 DEF Sound

LEMMA PushFreeStep ==
  ASSUME Sound, NEW p \in MemUser, PushFree(p)
  PROVE  Sound'
<1>0. PICK g, b, n : g = give[p] /\ b = give[p][1].block /\ n = b.len
  OBVIOUS
<1>1. m_pc[p] = "push" /\ g \in Seq(Entry) /\ Len(g) >= 1 /\ Len(g) \in Nat /\ n \in m_free
  BY <1>0, LenProperties DEF PushFree, At, Sound, MemType, Locals, Local
<1>2. Given(p) = b /\ b \in Block /\ n \in Size
  <2>1. Given(p) = b
    BY <1>0, <1>1 DEF Given
  <2>2. b \in Block
    BY <1>0, <1>1, GiveType DEF Sound
  <2> QED
    BY <1>0, <2>1, <2>2 DEF Block
<1>3. /\ s_top' = [s_top EXCEPT ![n] = <<b>> \o @]
      /\ give' = [give EXCEPT ![p] = Tail(@)]
      /\ UNCHANGED <<m_current, m_next_id, r_off, mapped, m_free, s_m, kept, owned>>
      /\ UNCHANGED <<ask, why, r, leaked>>
  BY <1>0, <1>2 DEF PushFree
<1>4. PICK l \in {"idle", "free", "late"} :
        /\ MGoto(p, l) /\ (l = "idle" => Len(g) = 1) /\ (l = "free" => Len(g) # 1)
        /\ head' = head \/ head' = [head EXCEPT ![p] = b]
  BY <1>0, <1>2 DEF PushFree, Later
<1>4a. /\ head' \in [MemUser -> Block \cup {NoBlock}]
       /\ \A q \in MemUser \ {p} : head'[q] = head[q]
  BY <1>2, <1>4 DEF Sound, MemType
<1>5. /\ m_pc' \in [MemUser -> Label] /\ m_pc'[p] = l
      /\ \A q \in MemUser \ {p} : m_pc'[q] = m_pc[q]
  BY <1>4, GotoType DEF Sound, Label
<1>6. PICK t : t = Tail(g)
  OBVIOUS
<1>7. /\ t \in Seq(Entry) /\ Len(t) = Len(g) - 1 /\ \A i \in 1 .. Len(g) - 1 : t[i] = g[i + 1]
      /\ Borne(g) = {b} \cup Borne(t)
  <2>1. g # <<>> /\ Head(g) = g[1]
    BY <1>1
  <2> QED
    BY <1>0, <1>1, <1>6, <2>1, TakeFront, BorneTake
<1>8. /\ give' \in [MemUser -> Seq(Entry)] /\ give'[p] = t
      /\ \A q \in MemUser \ {p} : give'[q] = give[q]
  BY <1>0, <1>3, <1>6, <1>7 DEF Sound, MemType
<1>9. PICK s : s = <<b>> \o s_top[n]
  OBVIOUS
<1>10. s_top[n] \in Seq(Block) /\ Len(s_top[n]) \in Nat
  BY <1>2, LenProperties DEF Sound, MemType
<1>11. /\ s \in Seq(Block) /\ Len(s) = Len(s_top[n]) + 1 /\ s[1] = b
       /\ \A i \in 2 .. Len(s) : s[i] = s_top[n][i - 1]
       /\ ToSet(s) = {b} \cup ToSet(s_top[n])
  BY <1>2, <1>9, <1>10, PutFront, ToSetPut
<1>12. /\ s_top' \in [Size -> Seq(Block)] /\ s_top'[n] = s
       /\ \A m \in Size \ {n} : s_top'[m] = s_top[m]
  BY <1>2, <1>3, <1>9, <1>11 DEF Sound, MemType
<1>13. MemType'
  BY <1>3, <1>4a, <1>5, <1>8, <1>12 DEF Sound, MemType
<1>14. Locals'
  <2>1. Local(p)'
    <3>1. l = "idle" => t = <<>>
      BY <1>1, <1>4, <1>7, EmptySeq
    <3>2. l = "free" => Len(t) >= 1
      BY <1>1, <1>4, <1>7
    <3> QED
      BY <1>4, <1>5, <1>8, <3>1, <3>2 DEF Local, Mallocs
  <2> QED
    BY <1>3, <1>5, <1>8, <2>1, OthersLocal DEF Sound
<1>15. Regions'
  BY <1>3, <1>4, <1>5, SameRegions DEF Sound
<1>16. Lists'
  <2>1. ASSUME NEW m \in Size, NEW i \in 1 .. Len(s_top'[m]) PROVE s_top'[m][i].len = m
    <3>1. CASE m = n /\ i = 1
      BY <1>0, <1>11, <1>12, <3>1
    <3>2. CASE m = n /\ i # 1
      <4>1. i - 1 \in 1 .. Len(s_top[n]) /\ s_top'[m][i] = s_top[n][i - 1]
        BY <1>10, <1>11, <1>12, <3>2
      <4> QED
        BY <1>2, <3>2, <4>1 DEF Sound, Lists
    <3>3. CASE m # n
      BY <1>12, <3>3 DEF Sound, Lists
    <3> QED
      BY <3>1, <3>2, <3>3
  <2>2. \A m \in Size \ m_free' : s_top'[m] = <<>>
    BY <1>1, <1>3, <1>12 DEF Sound, Lists
  <2> QED
    BY <2>1, <2>2 DEF Lists
<1>17. \A c : c \in Blocks' <=> c \in Blocks
  <2>1. \A c : \A q \in MemUser \ {p} : c \in owned'[q] \/ c \in Borne(give'[q])
                                          <=> c \in owned[q] \/ c \in Borne(give[q])
    BY <1>3, <1>8
  <2>2. \A c : c \in Borne(give[p]) <=> c = b \/ c \in Borne(give'[p])
    BY <1>0, <1>7, <1>8
  <2>3. \A c : (\E m \in Size : c \in ToSet(s_top'[m]))
                 <=> c = b \/ \E m \in Size : c \in ToSet(s_top[m])
    BY <1>2, <1>11, <1>12
  <2> QED
    BY <1>3, <2>1, <2>2, <2>3, InBlocks, InBlocksNext
<1>18. Tiles'
  BY <1>3, <1>17, SameTiles DEF Sound
<1>19. PICK at : Placed(at)
  BY DEF Sound, OnePlace
<1>20. PICK new : new = [at EXCEPT ![b] = Place("list", n, Len(s_top[n]))]
  OBVIOUS
<1>21. /\ DOMAIN new = Block /\ new[b] = Place("list", n, Len(s_top[n]))
       /\ \A c \in Block \ {b} : new[c] = at[c]
  BY <1>2, <1>19, <1>20 DEF Placed
<1>22. OnlyAt(b, "give", p, Len(g) - 1)
  <2>1. First(p) = 1
    BY <1>1 DEF First
  <2>2. at[b] = Place("give", p, Len(g) - 1)
    BY <1>0, <1>1, <1>19, <2>1 DEF Placed, OwnPlaced
  <2> QED
    BY <1>2, <1>19, <2>2, PlaceIsOne
<1>23. ASSUME NEW q \in MemUser \ {p} PROVE OwnPlaced(new, q)'
  <2>1. \A c \in {b} : NotHis(c, q)
    BY <1>22 DEF OnlyAt
  <2>2. Moved(at, new, {b})
    BY <1>3, <1>21 DEF Moved
  <2>3. Untouched(q)
    BY <1>3, <1>4a, <1>5, <1>8 DEF Untouched
  <2> QED
    BY <1>19, <2>1, <2>2, <2>3, OwnStays DEF Sound
<1>24. OwnPlaced(new, p)'
  <2>1. First(p)' = 1 /\ ~HoldsHead(p)' /\ First(p) = 1
    BY <1>1, <1>4, <1>5 DEF First, HoldsHead, Mallocs
  <2>2. \A c \in owned'[p] : new[c] = Place("owned", p, 0)
    BY <1>3, <1>19, <1>21, <1>22 DEF Placed, OwnPlaced, Sound, MemType, OnlyAt
  <2>3. ASSUME NEW i \in 1 .. Len(give'[p])
        PROVE  new[give'[p][i].block] = Place("give", p, Len(give'[p]) - i)
    <3>1. i + 1 \in First(p) .. Len(g) /\ give'[p][i] = g[i + 1] /\ i + 1 \in 1 .. Len(g)
      BY <1>1, <1>7, <1>8, <2>1
    <3>2. Len(g) - (i + 1) = Len(give'[p]) - i /\ Len(g) - (i + 1) # Len(g) - 1
      BY <1>1, <1>7, <1>8
    <3>3. g[i + 1].block \in Block \ {b}
      BY <1>0, <1>22, <3>1, <3>2, GiveType DEF OnlyAt, Sound
    <3>4. at[g[i + 1].block] = Place("give", p, Len(g) - (i + 1))
      BY <1>0, <1>19, <3>1 DEF Placed, OwnPlaced
    <3> QED
      BY <1>21, <3>1, <3>2, <3>3, <3>4
  <2> QED
    BY <1>4, <1>5, <2>1, <2>2, <2>3 DEF OwnPlaced
<1>25. SharedPlaced(new)'
  <2>1. \A c \in leaked' : new[c] = Place("leaked", 0, 0)
    BY <1>3, <1>19, <1>21, <1>22 DEF Placed, SharedPlaced, OnlyAt, Sound, MemType
  <2>2. \A c \in kept' : new[c][1] \in {"kept", "head", "node"}
    BY <1>3, <1>19, <1>21, <1>22 DEF Placed, SharedPlaced, OnlyAt, Sound, MemType
  <2>3. ASSUME NEW m \in Size, NEW i \in 1 .. Len(s_top[m])
        PROVE  new[s_top[m][i]] = Place("list", m, Len(s_top[m]) - i)
    BY <1>19, <1>21, <1>22, <2>3, ListType DEF Placed, SharedPlaced, OnlyAt, Sound
  <2>4. ASSUME NEW m \in Size, NEW i \in 1 .. Len(s_top'[m])
        PROVE  new[s_top'[m][i]] = Place("list", m, Len(s_top'[m]) - i)
    <3>1. CASE m = n /\ i = 1
      BY <1>10, <1>11, <1>12, <1>21, <3>1
    <3>2. CASE m = n /\ i # 1
      <4>1. i - 1 \in 1 .. Len(s_top[n]) /\ s_top'[m][i] = s_top[n][i - 1]
            /\ Len(s_top[n]) - (i - 1) = Len(s_top'[m]) - i
        BY <1>10, <1>11, <1>12, <3>2, SMTT(30)
      <4> QED
        BY <1>2, <2>3, <3>2, <4>1
    <3>3. CASE m # n
      BY <1>12, <2>3, <3>3
    <3> QED
      BY <3>1, <3>2, <3>3
  <2> QED
    BY <2>1, <2>2, <2>4 DEF SharedPlaced
<1>26. Placed(new)'
  BY <1>21, <1>23, <1>24, <1>25 DEF Placed
<1>27. OnePlace'
  BY <1>26 DEF OnePlace
<1> QED
  BY <1>13, <1>14, <1>15, <1>16, <1>18, <1>27 DEF Sound

LEMMA StoreStep ==
  ASSUME Sound, NEW p \in MemUser, Store(p)
  PROVE  Sound'
<1>0. PICK g, b, n : g = give[p] /\ b = give[p][2].block /\ n = b.len
  OBVIOUS
<1>1. m_pc[p] = "store" /\ g \in Seq(Entry) /\ Len(g) >= 2 /\ Len(g) \in Nat /\ n \notin m_free
  BY <1>0, LenProperties DEF Store, At, Sound, MemType, Locals, Local
<1>2. b \in Block /\ n \in Size
  <2>1. 2 \in 1 .. Len(give[p])
    BY <1>0, <1>1
  <2>2. b \in Block
    BY <1>0, <2>1, GiveType DEF Sound
  <2> QED
    BY <1>0, <2>2 DEF Block
<1>3. /\ s_top' = [s_top EXCEPT ![n] = <<b>>] /\ m_free' = m_free \cup {n}
      /\ give' = [give EXCEPT ![p] = SubSeq(@, 3, Len(@))]
      /\ UNCHANGED <<m_current, m_next_id, r_off, mapped, s_m, kept, owned>>
      /\ UNCHANGED <<ask, why, r, leaked>>
  BY <1>0 DEF Store
<1>4. PICK l \in {"idle", "free", "late"} :
        /\ MGoto(p, l) /\ (l = "idle" => Len(g) = 2) /\ (l = "free" => Len(g) # 2)
        /\ head' = head \/ head' = [head EXCEPT ![p] = b]
  BY <1>0 DEF Store
<1>4a. /\ head' \in [MemUser -> Block \cup {NoBlock}]
       /\ \A q \in MemUser \ {p} : head'[q] = head[q]
  BY <1>2, <1>4 DEF Sound, MemType
<1>5. /\ m_pc' \in [MemUser -> Label] /\ m_pc'[p] = l
      /\ \A q \in MemUser \ {p} : m_pc'[q] = m_pc[q]
  BY <1>4, GotoType DEF Sound, Label
<1>6. PICK t : t = SubSeq(g, 3, Len(g))
  OBVIOUS
<1>7. /\ t \in Seq(Entry) /\ Len(t) = Len(g) - 2 /\ \A i \in 1 .. Len(g) - 2 : t[i] = g[i + 2]
      /\ Borne(g) = {g[1].block, b} \cup Borne(t)
  BY <1>0, <1>1, <1>6, TakeTwo, BorneTwo
<1>8. /\ give' \in [MemUser -> Seq(Entry)] /\ give'[p] = t
      /\ \A q \in MemUser \ {p} : give'[q] = give[q]
  BY <1>0, <1>3, <1>6, <1>7 DEF Sound, MemType
<1>9. s_top[n] = <<>>
  BY <1>1, <1>2 DEF Sound, Lists
<1>10. PICK s : s = <<b>>
  OBVIOUS
<1>11. /\ s \in Seq(Block) /\ Len(s) = 1 /\ s[1] = b /\ ToSet(s) = {b}
       /\ ToSet(s_top[n]) = {}
  BY <1>2, <1>9, <1>10 DEF ToSet
<1>12. /\ s_top' \in [Size -> Seq(Block)] /\ s_top'[n] = s
       /\ \A m \in Size \ {n} : s_top'[m] = s_top[m]
  BY <1>2, <1>3, <1>10, <1>11 DEF Sound, MemType
<1>13. MemType'
  BY <1>2, <1>3, <1>4a, <1>5, <1>8, <1>12 DEF Sound, MemType
<1>14. Locals'
  <2>1. Local(p)'
    <3>1. l = "idle" => t = <<>>
      <4>1. l = "idle" => Len(t) = 0
        BY <1>4, <1>7
      <4> QED
        BY <1>7, <4>1, EmptySeq
    <3>2. l = "free" => Len(t) >= 1
      BY <1>1, <1>4, <1>7
    <3> QED
      BY <1>4, <1>5, <1>8, <3>1, <3>2 DEF Local, Mallocs
  <2> QED
    BY <1>3, <1>5, <1>8, <2>1, OthersLocal DEF Sound
<1>15. Regions'
  BY <1>3, <1>4, <1>5, SameRegions DEF Sound
<1>16. Lists'
  <2>1. ASSUME NEW m \in Size, NEW i \in 1 .. Len(s_top'[m]) PROVE s_top'[m][i].len = m
    <3>1. CASE m = n
      BY <1>0, <1>11, <1>12, <3>1
    <3>2. CASE m # n
      BY <1>12, <3>2 DEF Sound, Lists
    <3> QED
      BY <3>1, <3>2
  <2>2. \A m \in Size \ m_free' : s_top'[m] = <<>>
    BY <1>3, <1>12 DEF Sound, Lists
  <2> QED
    BY <2>1, <2>2 DEF Lists
<1>17. PICK at : Placed(at)
  BY DEF Sound, OnePlace
<1>18. OwnPlaced(at, p) /\ First(p) = 2 /\ g[1].block \in kept
  BY <1>0, <1>1, <1>17 DEF Placed, OwnPlaced, First
<1>19. \A c : c \in Blocks' <=> c \in Blocks
  <2>1. \A c : \A q \in MemUser \ {p} : c \in owned'[q] \/ c \in Borne(give'[q])
                                          <=> c \in owned[q] \/ c \in Borne(give[q])
    BY <1>3, <1>8
  <2>2. \A c : c \in Borne(give[p]) <=> c = g[1].block \/ c = b \/ c \in Borne(give'[p])
    BY <1>0, <1>7, <1>8
  <2>3. \A c : (\E m \in Size : c \in ToSet(s_top'[m]))
                 <=> c = b \/ \E m \in Size : c \in ToSet(s_top[m])
    BY <1>2, <1>11, <1>12
  <2> QED
    BY <1>3, <1>18, <2>1, <2>2, <2>3, InBlocks, InBlocksNext
<1>20. Tiles'
  BY <1>3, <1>19, SameTiles DEF Sound
<1>21. PICK new : new = [at EXCEPT ![b] = Place("list", n, 0)]
  OBVIOUS
<1>22. /\ DOMAIN new = Block /\ new[b] = Place("list", n, 0)
       /\ \A c \in Block \ {b} : new[c] = at[c]
  BY <1>2, <1>17, <1>21 DEF Placed
<1>23. OnlyAt(b, "give", p, Len(g) - 2)
  <2>1. at[b] = Place("give", p, Len(g) - 2)
    BY <1>0, <1>1, <1>18 DEF OwnPlaced
  <2> QED
    BY <1>2, <1>17, <2>1, PlaceIsOne
<1>24. ASSUME NEW q \in MemUser \ {p} PROVE OwnPlaced(new, q)'
  <2>1. \A c \in {b} : NotHis(c, q)
    BY <1>23 DEF OnlyAt
  <2>2. Moved(at, new, {b})
    BY <1>3, <1>22 DEF Moved
  <2>3. Untouched(q)
    BY <1>3, <1>4a, <1>5, <1>8 DEF Untouched
  <2> QED
    BY <1>17, <2>1, <2>2, <2>3, OwnStays DEF Sound
<1>25. OwnPlaced(new, p)'
  <2>1. First(p)' = 1 /\ ~HoldsHead(p)'
    BY <1>4, <1>5 DEF First, HoldsHead, Mallocs
  <2>2. \A c \in owned'[p] : new[c] = Place("owned", p, 0)
    <3>1. owned'[p] = owned[p] /\ owned[p] \subseteq Block
      BY <1>3 DEF Sound, MemType
    <3>2. \A c \in owned[p] : c # b /\ at[c] = Place("owned", p, 0)
      BY <1>18, <1>23 DEF OwnPlaced, OnlyAt
    <3> QED
      BY <1>22, <3>1, <3>2
  <2>3. ASSUME NEW i \in 1 .. Len(give'[p])
        PROVE  new[give'[p][i].block] = Place("give", p, Len(give'[p]) - i)
    <3>1. i + 2 \in First(p) .. Len(g) /\ give'[p][i] = g[i + 2] /\ i + 2 \in 1 .. Len(g)
      BY <1>1, <1>7, <1>8, <1>18
    <3>2. Len(g) - (i + 2) = Len(give'[p]) - i /\ Len(g) - (i + 2) # Len(g) - 2
      BY <1>1, <1>7, <1>8
    <3>3. g[i + 2].block \in Block \ {b}
      BY <1>0, <1>23, <3>1, <3>2, GiveType DEF OnlyAt, Sound
    <3>4. at[g[i + 2].block] = Place("give", p, Len(g) - (i + 2))
      BY <1>0, <1>18, <3>1 DEF OwnPlaced
    <3> QED
      BY <1>22, <3>1, <3>2, <3>3, <3>4
  <2> QED
    BY <1>4, <1>5, <2>1, <2>2, <2>3 DEF OwnPlaced
<1>26. SharedPlaced(new)'
  <2>1. \A c \in leaked' : new[c] = Place("leaked", 0, 0)
    BY <1>3, <1>17, <1>22, <1>23 DEF Placed, SharedPlaced, OnlyAt, Sound, MemType
  <2>2. \A c \in kept' : new[c][1] \in {"kept", "head", "node"}
    BY <1>3, <1>17, <1>22, <1>23 DEF Placed, SharedPlaced, OnlyAt, Sound, MemType
  <2>3. ASSUME NEW m \in Size, NEW i \in 1 .. Len(s_top'[m])
        PROVE  new[s_top'[m][i]] = Place("list", m, Len(s_top'[m]) - i)
    <3>1. CASE m = n
      <4>0. s_top'[m] = s
        BY <1>12, <3>1
      <4>1. i \in 1 .. 1 /\ Len(s_top'[m]) = 1
        BY <1>11, <4>0
      <4>2. i = 1 /\ Len(s_top'[m]) - i = 0
        BY <4>1
      <4>3. s_top'[m][i] = b
        BY <1>11, <4>0, <4>2
      <4> QED
        BY <1>22, <3>1, <4>2, <4>3
    <3>2. CASE m # n
      BY <1>12, <1>17, <1>22, <1>23, <3>2, ListType DEF Placed, SharedPlaced, OnlyAt, Sound
    <3> QED
      BY <3>1, <3>2
  <2> QED
    BY <2>1, <2>2, <2>3 DEF SharedPlaced
<1>27. Placed(new)'
  BY <1>22, <1>24, <1>25, <1>26 DEF Placed
<1>28. OnePlace'
  BY <1>27 DEF OnePlace
<1> QED
  BY <1>13, <1>14, <1>15, <1>16, <1>20, <1>28 DEF Sound

\* No memory for the caller.
LEMMA NoneForCallerStep ==
  ASSUME Sound, NEW p \in MemUser, GrowFails(p), why[p] = "caller"
  PROVE  Sound'
<1>1. /\ MGoto(p, "idle") /\ m_pc[p] = "bump"
      /\ UNCHANGED <<m_current, m_next_id, r_off, mapped, m_free, s_top, s_m, kept, owned>>
      /\ UNCHANGED <<ask, why, r, give, head, leaked>>
  BY DEF GrowFails, At
<1>2. /\ m_pc' \in [MemUser -> Label] /\ m_pc'[p] = "idle"
      /\ \A q \in MemUser \ {p} : m_pc'[q] = m_pc[q]
  BY <1>1, GotoType DEF Sound, Label
<1>3. MemType'
  BY <1>1, <1>2 DEF Sound, MemType
<1>4. Locals'
  BY <1>1, <1>2 DEF Sound, Locals, Local, Mallocs
<1>5. Regions'
  BY <1>1, <1>2, SameRegions DEF Sound
<1> QED
  BY <1>1, <1>2, <1>3, <1>4, <1>5, QuietStep DEF HoldsHead, Mallocs

\* No list head: the block is lost.
LEMMA NoHeadStep ==
  ASSUME Sound, NEW p \in MemUser, GrowFails(p), why[p] = "head"
  PROVE  Sound'
<1>0. PICK g, b : g = give[p] /\ b = give[p][1].block
  OBVIOUS
<1>1. /\ m_pc[p] = "bump" /\ g \in Seq(Entry) /\ Len(g) >= 1 /\ Len(g) \in Nat
  BY <1>0, LenProperties DEF GrowFails, At, Sound, MemType, Locals, Local, Mallocs
<1>2. Given(p) = b /\ b \in Block
  <2>1. Given(p) = b
    BY <1>0, <1>1 DEF Given
  <2>2. b \in Block
    BY <1>0, <1>1, GiveType DEF Sound
  <2> QED
    BY <2>1, <2>2
<1>3. /\ leaked' = leaked \cup {b} /\ give' = [give EXCEPT ![p] = Tail(@)]
      /\ MGoto(p, Later(p))
      /\ UNCHANGED <<m_current, m_next_id, r_off, mapped, m_free, s_top, s_m, kept, owned>>
      /\ UNCHANGED <<ask, why, r, head>>
  BY <1>2 DEF GrowFails
<1>4. PICK l \in {"idle", "free"} : MGoto(p, l) /\ (l = "idle" <=> Len(g) = 1)
  BY <1>0, <1>3 DEF Later
<1>5. /\ m_pc' \in [MemUser -> Label] /\ m_pc'[p] = l
      /\ \A q \in MemUser \ {p} : m_pc'[q] = m_pc[q]
  BY <1>4, GotoType DEF Sound, Label
<1>6. PICK t : t = Tail(g)
  OBVIOUS
<1>7. /\ t \in Seq(Entry) /\ Len(t) = Len(g) - 1 /\ \A i \in 1 .. Len(g) - 1 : t[i] = g[i + 1]
      /\ Borne(g) = {b} \cup Borne(t)
  <2>1. g # <<>> /\ Head(g) = g[1]
    BY <1>1
  <2> QED
    BY <1>0, <1>1, <1>6, <2>1, TakeFront, BorneTake
<1>8. /\ give' \in [MemUser -> Seq(Entry)] /\ give'[p] = t
      /\ \A q \in MemUser \ {p} : give'[q] = give[q]
  BY <1>0, <1>3, <1>6, <1>7 DEF Sound, MemType
<1>9. MemType'
  BY <1>2, <1>3, <1>5, <1>8 DEF Sound, MemType
<1>10. Locals'
  <2>1. Local(p)'
    <3>1. l = "idle" => t = <<>>
      BY <1>1, <1>4, <1>7, EmptySeq
    <3>2. l = "free" => Len(t) >= 1
      BY <1>1, <1>4, <1>7
    <3> QED
      BY <1>4, <1>5, <1>8, <3>1, <3>2 DEF Local, Mallocs
  <2> QED
    BY <1>3, <1>5, <1>8, <2>1, OthersLocal DEF Sound
<1>11. Regions'
  BY <1>3, <1>4, <1>5, SameRegions DEF Sound
<1>12. Lists'
  BY <1>3 DEF Sound, Lists
<1>13. \A c : c \in Blocks' <=> c \in Blocks
  <2>1. \A c : \A q \in MemUser \ {p} : c \in owned'[q] \/ c \in Borne(give'[q])
                                          <=> c \in owned[q] \/ c \in Borne(give[q])
    BY <1>3, <1>8
  <2>2. \A c : c \in Borne(give[p]) <=> c = b \/ c \in Borne(give'[p])
    BY <1>0, <1>7, <1>8
  <2> QED
    BY <1>3, <2>1, <2>2, InBlocks, InBlocksNext
<1>14. Tiles'
  BY <1>3, <1>13, SameTiles DEF Sound
<1>15. PICK at : Placed(at)
  BY DEF Sound, OnePlace
<1>16. PICK new : new = [at EXCEPT ![b] = Place("leaked", 0, 0)]
  OBVIOUS
<1>17. /\ DOMAIN new = Block /\ new[b] = Place("leaked", 0, 0)
       /\ \A c \in Block \ {b} : new[c] = at[c]
  BY <1>2, <1>15, <1>16 DEF Placed
<1>18. OnlyAt(b, "give", p, Len(g) - 1)
  <2>1. First(p) = 1
    BY <1>1 DEF First
  <2>2. at[b] = Place("give", p, Len(g) - 1)
    BY <1>0, <1>1, <1>15, <2>1 DEF Placed, OwnPlaced
  <2> QED
    BY <1>2, <1>15, <2>2, PlaceIsOne
<1>19. ASSUME NEW q \in MemUser \ {p} PROVE OwnPlaced(new, q)'
  <2>1. \A c \in {b} : NotHis(c, q)
    BY <1>18 DEF OnlyAt
  <2>2. Moved(at, new, {b})
    BY <1>3, <1>17 DEF Moved
  <2>3. Untouched(q)
    BY <1>3, <1>5, <1>8 DEF Untouched
  <2> QED
    BY <1>15, <2>1, <2>2, <2>3, OwnStays DEF Sound
<1>20. OwnPlaced(new, p)'
  <2>1. First(p)' = 1 /\ ~HoldsHead(p)' /\ First(p) = 1
    BY <1>1, <1>4, <1>5 DEF First, HoldsHead, Mallocs
  <2>2. \A c \in owned'[p] : new[c] = Place("owned", p, 0)
    BY <1>3, <1>15, <1>17, <1>18 DEF Placed, OwnPlaced, Sound, MemType, OnlyAt
  <2>3. ASSUME NEW i \in 1 .. Len(give'[p])
        PROVE  new[give'[p][i].block] = Place("give", p, Len(give'[p]) - i)
    <3>1. i + 1 \in First(p) .. Len(g) /\ give'[p][i] = g[i + 1] /\ i + 1 \in 1 .. Len(g)
      BY <1>1, <1>7, <1>8, <2>1
    <3>2. Len(g) - (i + 1) = Len(give'[p]) - i /\ Len(g) - (i + 1) # Len(g) - 1
      BY <1>1, <1>7, <1>8
    <3>3. g[i + 1].block \in Block \ {b}
      BY <1>0, <1>18, <3>1, <3>2, GiveType DEF OnlyAt, Sound
    <3>4. at[g[i + 1].block] = Place("give", p, Len(g) - (i + 1))
      BY <1>0, <1>15, <3>1 DEF Placed, OwnPlaced
    <3> QED
      BY <1>17, <3>1, <3>2, <3>3, <3>4
  <2> QED
    BY <1>4, <1>5, <2>1, <2>2, <2>3 DEF OwnPlaced
<1>21. SharedPlaced(new)'
  <2>1. ASSUME NEW c \in leaked' PROVE new[c] = Place("leaked", 0, 0)
    <3>1. CASE c = b
      BY <1>17, <3>1
    <3>2. CASE c # b
      BY <1>3, <1>15, <1>17, <3>2 DEF Placed, SharedPlaced, Sound, MemType
    <3> QED
      BY <3>1, <3>2
  <2>2. \A c \in kept' : new[c][1] \in {"kept", "head", "node"}
    BY <1>3, <1>15, <1>17, <1>18 DEF Placed, SharedPlaced, OnlyAt, Sound, MemType
  <2>3. ASSUME NEW m \in Size, NEW i \in 1 .. Len(s_top'[m])
        PROVE  new[s_top'[m][i]] = Place("list", m, Len(s_top'[m]) - i)
    <3>1. s_top'[m] = s_top[m] /\ s_top[m][i] \in Block \ {b}
      BY <1>3, <1>18, ListType DEF OnlyAt, Sound
    <3> QED
      BY <1>3, <1>15, <1>17, <3>1 DEF Placed, SharedPlaced
  <2> QED
    BY <2>1, <2>2, <2>3 DEF SharedPlaced
<1>22. Placed(new)'
  BY <1>17, <1>19, <1>20, <1>21 DEF Placed
<1>23. OnePlace'
  BY <1>22 DEF OnePlace
<1> QED
  BY <1>9, <1>10, <1>11, <1>12, <1>14, <1>23 DEF Sound

\* No node: the block is lost and the list head is freed, in its stead.
LEMMA NoNodeStep ==
  ASSUME Sound, NEW p \in MemUser, GrowFails(p), why[p] = "node"
  PROVE  Sound'
<1>0. PICK g, b, h, f : /\ g = give[p] /\ b = give[p][1].block /\ h = head[p]
                        /\ f = [block |-> h, late |-> TRUE]
  OBVIOUS
<1>1. m_pc[p] = "bump" /\ g \in Seq(Entry) /\ Len(g) >= 1 /\ Len(g) \in Nat
  BY <1>0, LenProperties DEF GrowFails, At, Sound, MemType, Locals, Local, Mallocs
<1>2. PICK at : Placed(at)
  BY DEF Sound, OnePlace
<1>3. OwnPlaced(at, p) /\ First(p) = 1 /\ h \in kept /\ at[h] = Place("head", p, 0)
  BY <1>0, <1>1, <1>2 DEF Placed, OwnPlaced, First, HoldsHead, Mallocs
<1>4. b \in Block /\ h \in Block /\ f \in Entry /\ f.block = h
  <2>1. b \in Block
    BY <1>0, <1>1, GiveType DEF Sound
  <2>2. h \in Block
    BY <1>3 DEF Sound, MemType
  <2> QED
    BY <1>0, <2>1, <2>2 DEF Entry
<1>5. at[b] = Place("give", p, Len(g) - 1)
  BY <1>0, <1>1, <1>3 DEF OwnPlaced
<1>6. OnlyAt(h, "head", p, 0) /\ OnlyAt(b, "give", p, Len(g) - 1)
  BY <1>2, <1>3, <1>4, <1>5, PlaceIsOne
<1>7. b # h
  BY <1>3, <1>5 DEF Place
<1>8. Given(p) = b /\ LateHead(p) = f
  BY <1>0, <1>1 DEF Given, LateHead
<1>9. PICK s, t : s = Tail(g) /\ t = <<f>> \o s
  OBVIOUS
<1>10. /\ s \in Seq(Entry) /\ Len(s) = Len(g) - 1 /\ \A i \in 1 .. Len(g) - 1 : s[i] = g[i + 1]
       /\ Borne(g) = {b} \cup Borne(s)
  <2>1. g # <<>> /\ Head(g) = g[1]
    BY <1>1
  <2> QED
    BY <1>0, <1>1, <1>9, <2>1, TakeFront, BorneTake
<1>11. /\ t \in Seq(Entry) /\ Len(t) = Len(g) /\ t[1] = f /\ Borne(t) = {h} \cup Borne(s)
       /\ \A i \in 2 .. Len(g) : t[i] = g[i]
  <2>1. /\ t \in Seq(Entry) /\ Len(t) = Len(s) + 1 /\ t[1] = f
        /\ \A i \in 2 .. Len(s) + 1 : t[i] = s[i - 1]
    BY <1>4, <1>9, <1>10, PutFront
  <2>2. Borne(t) = {h} \cup Borne(s)
    BY <1>4, <1>9, <1>10, BornePut
  <2>3. Len(s) + 1 = Len(g)
    BY <1>1, <1>10
  <2>4. ASSUME NEW i \in 2 .. Len(g) PROVE t[i] = g[i]
    <3>1. i - 1 \in 1 .. Len(g) - 1 /\ (i - 1) + 1 = i
      BY <1>1
    <3> QED
      BY <1>10, <2>1, <2>3, <3>1
  <2> QED
    BY <2>1, <2>2, <2>3, <2>4
<1>12. /\ leaked' = leaked \cup {b} /\ kept' = kept \ {h}
       /\ give' = [give EXCEPT ![p] = <<f>> \o Tail(@)]
       /\ MGoto(p, "free")
       /\ UNCHANGED <<m_current, m_next_id, r_off, mapped, m_free, s_top, s_m, owned>>
       /\ UNCHANGED <<ask, why, r, head>>
  BY <1>0, <1>8 DEF GrowFails
<1>13. /\ give' \in [MemUser -> Seq(Entry)] /\ give'[p] = t
       /\ \A q \in MemUser \ {p} : give'[q] = give[q]
  BY <1>0, <1>9, <1>11, <1>12 DEF Sound, MemType
<1>14. /\ m_pc' \in [MemUser -> Label] /\ m_pc'[p] = "free"
       /\ \A q \in MemUser \ {p} : m_pc'[q] = m_pc[q]
  BY <1>12, GotoType DEF Sound, Label
<1>15. MemType'
  BY <1>4, <1>12, <1>13, <1>14 DEF Sound, MemType
<1>16. Locals'
  <2>1. Local(p)'
    BY <1>1, <1>11, <1>13, <1>14 DEF Local, Mallocs
  <2> QED
    BY <1>12, <1>13, <1>14, <2>1, OthersLocal DEF Sound
<1>17. Regions'
  BY <1>12, <1>14, SameRegions DEF Sound
<1>18. Lists'
  BY <1>12 DEF Sound, Lists
<1>19. \A c : c \in Blocks' <=> c \in Blocks
  <2>1. \A c : \A q \in MemUser \ {p} : c \in owned'[q] \/ c \in Borne(give'[q])
                                          <=> c \in owned[q] \/ c \in Borne(give[q])
    BY <1>12, <1>13
  <2>2. \A c : c \in Borne(give'[p]) \/ c \in kept' \/ c \in leaked'
                 <=> c \in Borne(give[p]) \/ c \in kept \/ c \in leaked
    BY <1>0, <1>3, <1>10, <1>11, <1>12, <1>13
  <2> QED
    BY <1>12, <2>1, <2>2, InBlocks, InBlocksNext
<1>20. Tiles'
  BY <1>12, <1>19, SameTiles DEF Sound
<1>21. PICK new : new = [at EXCEPT ![b] = Place("leaked", 0, 0),
                                   ![h] = Place("give", p, Len(g) - 1)]
  OBVIOUS
<1>22. /\ DOMAIN new = Block /\ new[b] = Place("leaked", 0, 0)
       /\ new[h] = Place("give", p, Len(g) - 1)
       /\ \A c \in Block \ {b, h} : new[c] = at[c]
  BY <1>2, <1>4, <1>7, <1>21 DEF Placed
<1>23. ASSUME NEW q \in MemUser \ {p} PROVE OwnPlaced(new, q)'
  <2>1. \A c \in {b, h} : NotHis(c, q)
    BY <1>6 DEF OnlyAt
  <2>2. Moved(at, new, {b, h})
    BY <1>12, <1>22 DEF Moved
  <2>3. Untouched(q)
    BY <1>12, <1>13, <1>14 DEF Untouched
  <2> QED
    BY <1>2, <2>1, <2>2, <2>3, OwnStays DEF Sound
<1>24. OwnPlaced(new, p)'
  <2>1. First(p)' = 1 /\ ~HoldsHead(p)'
    BY <1>14 DEF First, HoldsHead, Mallocs
  <2>2. \A c \in owned'[p] : new[c] = Place("owned", p, 0)
    <3>1. \A c \in owned'[p] : c \in Block \ {b, h}
      BY <1>6, <1>12 DEF OnlyAt, Sound, MemType
    <3> QED
      BY <1>3, <1>12, <1>22, <3>1 DEF OwnPlaced
  <2>3. ASSUME NEW i \in 1 .. Len(give'[p])
        PROVE  new[give'[p][i].block] = Place("give", p, Len(give'[p]) - i)
    <3>1. CASE i = 1
      BY <1>4, <1>11, <1>13, <1>22, <3>1
    <3>2. CASE i # 1
      <4>1. /\ i \in 2 .. Len(g) /\ i \in First(p) .. Len(g) /\ i \in 1 .. Len(g)
            /\ give'[p][i] = g[i] /\ Len(give'[p]) = Len(g) /\ Len(g) - i # Len(g) - 1
        BY <1>1, <1>3, <1>11, <1>13, <3>2, SMTT(30)
      <4>2. g[i].block \in Block \ {b, h}
        BY <1>0, <1>6, <4>1, GiveType DEF OnlyAt, Sound
      <4>3. at[g[i].block] = Place("give", p, Len(g) - i)
        BY <1>0, <1>3, <4>1 DEF OwnPlaced
      <4> QED
        BY <1>22, <4>1, <4>2, <4>3
    <3> QED
      BY <3>1, <3>2
  <2> QED
    BY <1>14, <2>1, <2>2, <2>3 DEF OwnPlaced
<1>25. SharedPlaced(new)'
  <2>1. ASSUME NEW c \in leaked' PROVE new[c] = Place("leaked", 0, 0)
    <3>1. CASE c = b
      BY <1>22, <3>1
    <3>2. CASE c # b
      <4>1. c \in leaked /\ c \in Block \ {b, h}
        BY <1>6, <1>12, <3>2 DEF OnlyAt, Sound, MemType
      <4> QED
        BY <1>2, <1>22, <4>1 DEF Placed, SharedPlaced
    <3> QED
      BY <3>1, <3>2
  <2>2. ASSUME NEW c \in kept' PROVE new[c][1] \in {"kept", "head", "node"}
    <3>1. c \in kept /\ c \in Block \ {b, h}
      BY <1>6, <1>12 DEF OnlyAt, Sound, MemType
    <3> QED
      BY <1>2, <1>22, <3>1 DEF Placed, SharedPlaced
  <2>3. ASSUME NEW n \in Size, NEW i \in 1 .. Len(s_top'[n])
        PROVE  new[s_top'[n][i]] = Place("list", n, Len(s_top'[n]) - i)
    <3>1. s_top'[n] = s_top[n] /\ s_top[n][i] \in Block \ {b, h}
      BY <1>6, <1>12, ListType DEF OnlyAt, Sound
    <3> QED
      BY <1>2, <1>12, <1>22, <3>1 DEF Placed, SharedPlaced
  <2> QED
    BY <2>1, <2>2, <2>3 DEF SharedPlaced
<1>26. Placed(new)'
  BY <1>22, <1>23, <1>24, <1>25 DEF Placed
<1>27. OnePlace'
  BY <1>26 DEF OnePlace
<1> QED
  BY <1>15, <1>16, <1>17, <1>18, <1>20, <1>27 DEF Sound

LEMMA GrowFailsStep ==
  ASSUME Sound, NEW p \in MemUser, GrowFails(p)
  PROVE  Sound'
<1>1. why[p] \in {"caller", "head", "node"}
  BY DEF Sound, MemType
<1> QED
  BY <1>1, NoneForCallerStep, NoHeadStep, NoNodeStep

LEMMA OnePair ==
  ASSUME NEW S, NEW e \in S, NEW f \in S
  PROVE  <<e>> \in Seq(S) /\ <<f>> \in Seq(S) /\ <<e, f>> = <<e>> \o <<f>>
<1>1. <<e>> \in Seq(S) /\ <<f>> \in Seq(S) /\ Len(<<e>>) = 1 /\ <<e>>[1] = e
  OBVIOUS
<1>2. <<e>> \o <<f>> = Append(<<e>>, f)
  BY <1>1, AppendIsConcat
<1>3. Append(<<e>>, f) = <<e, f>>
  <2>1. PICK t : t = Append(<<e>>, f)
    OBVIOUS
  <2>2. t \in Seq(S) /\ Len(t) = 2 /\ t[1] = e /\ t[2] = f
    BY <1>1, <2>1, AppendProperties
  <2>3. t = <<t[1], t[2]>>
    BY <2>2
  <2> QED
    BY <2>1, <2>2, <2>3
<1> QED
  BY <1>1, <1>2, <1>3

LEMMA StoreTwiceStep ==
  ASSUME Sound, NEW p \in MemUser, StoreTwice(p)
  PROVE  Sound'
<1>0. PICK g, a, b, h : g = give[p] /\ a = give[p][1].block /\ b = give[p][2].block /\ h = head[p]
  OBVIOUS
<1>1. m_pc[p] = "store" /\ g \in Seq(Entry) /\ Len(g) >= 2 /\ Len(g) \in Nat
  BY <1>0, LenProperties DEF StoreTwice, At, Sound, MemType, Locals, Local
<1>2. PICK at : Placed(at)
  BY DEF Sound, OnePlace
<1>3. /\ OwnPlaced(at, p) /\ First(p) = 2 /\ HoldsHead(p)
      /\ h \in kept /\ a \in kept /\ at[h] = Place("head", p, 0) /\ at[a] = Place("node", p, 0)
  BY <1>0, <1>1, <1>2 DEF Placed, OwnPlaced, First, HoldsHead
<1>4. a \in Block /\ b \in Block /\ h \in Block
  <2>1. 2 \in 1 .. Len(give[p])
    BY <1>0, <1>1
  <2> QED
    BY <1>0, <1>3, <2>1, GiveType DEF Sound, MemType
<1>5. at[b] = Place("give", p, Len(g) - 2)
  <2>1. 2 \in First(p) .. Len(give[p])
    BY <1>0, <1>1, <1>3
  <2> QED
    BY <1>0, <1>3, <2>1 DEF OwnPlaced
<1>6. /\ OnlyAt(a, "node", p, 0) /\ OnlyAt(h, "head", p, 0)
      /\ OnlyAt(b, "give", p, Len(g) - 2)
  BY <1>2, <1>3, <1>4, <1>5, PlaceIsOne
<1>7. a # b /\ a # h /\ b # h
  BY <1>3, <1>5 DEF Place
<1>8. PICK e, f, s : e = g[1] /\ f = [block |-> h, late |-> TRUE] /\ s = SubSeq(g, 3, Len(g))
  OBVIOUS
<1>9. e \in Entry /\ f \in Entry /\ e.block = a /\ f.block = h
  <2>1. 1 \in 1 .. Len(give[p])
    BY <1>0, <1>1
  <2> QED
    BY <1>0, <1>4, <1>8, <2>1, GiveType DEF Entry, Sound
<1>10. /\ s \in Seq(Entry) /\ Len(s) = Len(g) - 2 /\ \A i \in 1 .. Len(g) - 2 : s[i] = g[i + 2]
       /\ Borne(g) = {a, b} \cup Borne(s)
  BY <1>0, <1>1, <1>8, TakeTwo, BorneTwo
<1>11. PICK t : t = <<e, f>> \o s
  OBVIOUS
<1>12. /\ t \in Seq(Entry) /\ Len(t) = Len(g) /\ t[1] = e /\ t[2] = f
       /\ \A i \in 3 .. Len(g) : t[i] = g[i]
       /\ Borne(t) = {a, h} \cup Borne(s)
  <2>1. PICK u : u = <<f>> \o s
    OBVIOUS
  <2>2. /\ u \in Seq(Entry) /\ Len(u) = Len(g) - 1 /\ u[1] = f
        /\ \A i \in 2 .. Len(g) - 1 : u[i] = s[i - 1]
        /\ Borne(u) = {h} \cup Borne(s)
    <3>1. /\ u \in Seq(Entry) /\ Len(u) = Len(s) + 1 /\ u[1] = f
          /\ \A i \in 2 .. Len(s) + 1 : u[i] = s[i - 1]
      BY <1>9, <1>10, <2>1, PutFront
    <3>2. Borne(u) = {h} \cup Borne(s)
      BY <1>9, <1>10, <2>1, BornePut
    <3>3. Len(s) + 1 = Len(g) - 1
      BY <1>1, <1>10
    <3> QED
      BY <3>1, <3>2, <3>3
  <2>3. t = <<e>> \o u
    <3>1. <<e>> \in Seq(Entry) /\ <<f>> \in Seq(Entry) /\ <<e, f>> = <<e>> \o <<f>>
      BY <1>9, OnePair
    <3>2. (<<e>> \o <<f>>) \o s = <<e>> \o (<<f>> \o s)
      BY <1>10, <3>1, ConcatAssociative
    <3> QED
      BY <1>11, <2>1, <3>1, <3>2
  <2>4. /\ t \in Seq(Entry) /\ Len(t) = Len(u) + 1 /\ t[1] = e
        /\ \A i \in 2 .. Len(u) + 1 : t[i] = u[i - 1]
    BY <1>9, <2>2, <2>3, PutFront
  <2>5. Borne(t) = {a} \cup Borne(u)
    BY <1>9, <2>2, <2>3, BornePut
  <2>6. Len(t) = Len(g) /\ t[2] = f
    BY <1>1, <2>2, <2>4
  <2>7. ASSUME NEW i \in 3 .. Len(g) PROVE t[i] = g[i]
    <3>1. /\ i - 1 \in 2 .. Len(g) - 1 /\ i \in 2 .. Len(u) + 1
          /\ i - 2 \in 1 .. Len(g) - 2 /\ (i - 1) - 1 = i - 2 /\ (i - 2) + 2 = i
      BY <1>1, <2>2
    <3> QED
      BY <1>10, <2>2, <2>4, <3>1
  <2> QED
    BY <2>2, <2>4, <2>5, <2>6, <2>7
<1>13. /\ leaked' = leaked \cup {b} /\ kept' = kept \ {a, h}
       /\ give' = [give EXCEPT ![p] = <<@[1], [block |-> head[p], late |-> TRUE]>>
                                        \o SubSeq(@, 3, Len(@))]
       /\ MGoto(p, "free")
       /\ UNCHANGED <<m_current, m_next_id, r_off, mapped, m_free, s_top, s_m, owned>>
       /\ UNCHANGED <<ask, why, r, head>>
  BY <1>0 DEF StoreTwice, LateHead
<1>14. /\ give' \in [MemUser -> Seq(Entry)] /\ give'[p] = t
       /\ \A q \in MemUser \ {p} : give'[q] = give[q]
  BY <1>0, <1>8, <1>11, <1>12, <1>13 DEF Sound, MemType
<1>15. /\ m_pc' \in [MemUser -> Label] /\ m_pc'[p] = "free"
       /\ \A q \in MemUser \ {p} : m_pc'[q] = m_pc[q]
  BY <1>13, GotoType DEF Sound, Label
<1>16. MemType'
  BY <1>4, <1>13, <1>14, <1>15 DEF Sound, MemType
<1>17. Locals'
  <2>1. Local(p)'
    BY <1>1, <1>12, <1>14, <1>15 DEF Local, Mallocs
  <2> QED
    BY <1>13, <1>14, <1>15, <2>1, OthersLocal DEF Sound
<1>18. Regions'
  BY <1>13, <1>15, SameRegions DEF Sound
<1>19. Lists'
  BY <1>13 DEF Sound, Lists
<1>20. \A c : c \in Blocks' <=> c \in Blocks
  <2>1. \A c : \A q \in MemUser \ {p} : c \in owned'[q] \/ c \in Borne(give'[q])
                                          <=> c \in owned[q] \/ c \in Borne(give[q])
    BY <1>13, <1>14
  <2>2. \A c : c \in Borne(give'[p]) \/ c \in kept' \/ c \in leaked'
                 <=> c \in Borne(give[p]) \/ c \in kept \/ c \in leaked
    BY <1>0, <1>3, <1>10, <1>12, <1>13, <1>14
  <2> QED
    BY <1>13, <2>1, <2>2, InBlocks, InBlocksNext
<1>21. Tiles'
  BY <1>13, <1>20, SameTiles DEF Sound
<1>22. PICK new : new = [c \in Block |->
                           IF c = b THEN Place("leaked", 0, 0)
                           ELSE IF c = a THEN Place("give", p, Len(g) - 1)
                           ELSE IF c = h THEN Place("give", p, Len(g) - 2)
                           ELSE at[c]]
  OBVIOUS
<1>23. /\ DOMAIN new = Block /\ new[b] = Place("leaked", 0, 0)
       /\ new[a] = Place("give", p, Len(g) - 1) /\ new[h] = Place("give", p, Len(g) - 2)
       /\ \A c \in Block \ {a, b, h} : new[c] = at[c]
  BY <1>4, <1>7, <1>22
<1>24. ASSUME NEW q \in MemUser \ {p} PROVE OwnPlaced(new, q)'
  <2>1. \A c \in {a, b, h} : NotHis(c, q)
    BY <1>6 DEF OnlyAt
  <2>2. Moved(at, new, {a, b, h})
    BY <1>13, <1>23 DEF Moved
  <2>3. Untouched(q)
    BY <1>13, <1>14, <1>15 DEF Untouched
  <2> QED
    BY <1>2, <2>1, <2>2, <2>3, OwnStays DEF Sound
<1>25. OwnPlaced(new, p)'
  <2>1. First(p)' = 1 /\ ~HoldsHead(p)'
    BY <1>15 DEF First, HoldsHead, Mallocs
  <2>2. \A c \in owned'[p] : new[c] = Place("owned", p, 0)
    <3>1. \A c \in owned'[p] : c \in Block \ {a, b, h}
      BY <1>6, <1>13 DEF OnlyAt, Sound, MemType
    <3> QED
      BY <1>3, <1>13, <1>23, <3>1 DEF OwnPlaced
  <2>3. ASSUME NEW i \in 1 .. Len(give'[p])
        PROVE  new[give'[p][i].block] = Place("give", p, Len(give'[p]) - i)
    <3>1. CASE i = 1
      BY <1>9, <1>12, <1>14, <1>23, <3>1
    <3>2. CASE i = 2
      BY <1>9, <1>12, <1>14, <1>23, <3>2
    <3>3. CASE i # 1 /\ i # 2
      <4>1. /\ i \in 3 .. Len(g) /\ i \in First(p) .. Len(g) /\ i \in 1 .. Len(g)
            /\ give'[p][i] = g[i] /\ Len(give'[p]) = Len(g) /\ Len(g) - i # Len(g) - 2
        BY <1>1, <1>3, <1>12, <1>14, <3>3, SMTT(30)
      <4>2. g[i].block \in Block \ {a, b, h}
        BY <1>0, <1>6, <4>1, GiveType DEF OnlyAt, Sound
      <4>3. at[g[i].block] = Place("give", p, Len(g) - i)
        BY <1>0, <1>3, <4>1 DEF OwnPlaced
      <4> QED
        BY <1>23, <4>1, <4>2, <4>3
    <3> QED
      BY <3>1, <3>2, <3>3
  <2> QED
    BY <1>15, <2>1, <2>2, <2>3 DEF OwnPlaced
<1>26. SharedPlaced(new)'
  <2>1. ASSUME NEW c \in leaked' PROVE new[c] = Place("leaked", 0, 0)
    <3>1. CASE c = b
      BY <1>23, <3>1
    <3>2. CASE c # b
      <4>1. c \in leaked /\ c \in Block \ {a, b, h}
        BY <1>6, <1>13, <3>2 DEF OnlyAt, Sound, MemType
      <4> QED
        BY <1>2, <1>23, <4>1 DEF Placed, SharedPlaced
    <3> QED
      BY <3>1, <3>2
  <2>2. ASSUME NEW c \in kept' PROVE new[c][1] \in {"kept", "head", "node"}
    <3>1. c \in kept /\ c \in Block \ {a, b, h}
      BY <1>6, <1>13 DEF OnlyAt, Sound, MemType
    <3> QED
      BY <1>2, <1>23, <3>1 DEF Placed, SharedPlaced
  <2>3. ASSUME NEW n \in Size, NEW i \in 1 .. Len(s_top'[n])
        PROVE  new[s_top'[n][i]] = Place("list", n, Len(s_top'[n]) - i)
    <3>1. s_top'[n] = s_top[n] /\ s_top[n][i] \in Block \ {a, b, h}
      BY <1>6, <1>13, ListType DEF OnlyAt, Sound
    <3> QED
      BY <1>2, <1>13, <1>23, <3>1 DEF Placed, SharedPlaced
  <2> QED
    BY <2>1, <2>2, <2>3 DEF SharedPlaced
<1>27. Placed(new)'
  BY <1>23, <1>24, <1>25, <1>26 DEF Placed
<1>28. OnePlace'
  BY <1>27 DEF OnePlace
<1> QED
  BY <1>16, <1>17, <1>18, <1>19, <1>21, <1>28 DEF Sound

-----------------------------------------------------------------------------
\* The steps in which shared_malloc returns a block.

\* Everything that is not on a free list.
InUse(b) ==
  \/ b \in kept \/ b \in leaked
  \/ \E p \in MemUser : b \in owned[p] \/ b \in Borne(give[p])

\* A block nobody has, which is on no list after the step.
Loose(b, at) ==
  /\ b \in Block /\ b \notin leaked /\ b \notin kept /\ \A q \in MemUser : NotHis(b, q)
  /\ s_top' \in [Size -> Seq(Block)]
  /\ \A n \in Size : \A i \in 1 .. Len(s_top'[n]) :
       s_top'[n][i] \in Block \ {b} /\ at[s_top'[n][i]] = Place("list", n, Len(s_top'[n]) - i)

\* What Got does, apart from the free lists and the regions.
Received(p, b, new) ==
  /\ kept' \subseteq Block /\ owned' \in [MemUser -> SUBSET Block]
  /\ m_pc' \in [MemUser -> Label] /\ m_pc'[p] \in {"idle", "find", "store"}
  /\ ask' \in [MemUser -> Nat] /\ why' \in [MemUser -> {"caller", "head", "node"}]
  /\ give' \in [MemUser -> Seq(Entry)] /\ head' \in [MemUser -> Block \cup {NoBlock}]
  /\ \A q \in MemUser \ {p} : Untouched(q) /\ ask'[q] = ask[q]
  /\ Local(p)' /\ OwnPlaced(new, p)'
  /\ \A c \in kept : c \in kept'
  /\ \A c \in kept' : c \in kept \/ (c = b /\ new[b][1] \in {"head", "node"})
  /\ \A c : c \in kept' \/ c \in owned'[p] \/ c \in Borne(give'[p])
              <=> c = b \/ c \in kept \/ c \in owned[p] \/ c \in Borne(give[p])

\* A caller gets its block.
LEMMA CallerReceives ==
  ASSUME Sound, NEW p \in MemUser, NEW b \in Block, Got(p, b), m_pc[p] \in Mallocs,
         why[p] = "caller", NEW at, Placed(at), NEW new, Moved(at, new, {b}),
         new[b] = Place("owned", p, 0)
  PROVE  Received(p, b, new)
<1>1. /\ owned' = [owned EXCEPT ![p] = @ \cup {b}] /\ MGoto(p, "idle")
      /\ UNCHANGED <<kept, head, give, ask, why>>
  BY DEF Got
<1>2. /\ m_pc' \in [MemUser -> Label] /\ m_pc'[p] = "idle"
      /\ \A q \in MemUser \ {p} : m_pc'[q] = m_pc[q]
  BY <1>1, GotoType DEF Sound, Label
<1>3. /\ owned' \in [MemUser -> SUBSET Block] /\ owned'[p] = owned[p] \cup {b}
      /\ \A q \in MemUser \ {p} : owned'[q] = owned[q]
  BY <1>1 DEF Sound, MemType
<1>4. give[p] = <<>>
  BY DEF Sound, Locals, Local
<1>5. Local(p)'
  BY <1>1, <1>2, <1>4 DEF Local, Mallocs
<1>6. OwnPlaced(new, p)'
  <2>1. First(p)' = 1 /\ ~HoldsHead(p)'
    BY <1>2 DEF First, HoldsHead, Mallocs
  <2>2. \A c \in owned'[p] : new[c] = Place("owned", p, 0)
    BY <1>3 DEF Moved, Placed, OwnPlaced, Sound, MemType
  <2> QED
    BY <1>1, <1>2, <1>4, <2>1, <2>2 DEF OwnPlaced
<1>7. \A q \in MemUser \ {p} : Untouched(q) /\ ask'[q] = ask[q]
  BY <1>1, <1>2, <1>3 DEF Untouched
<1> QED
  BY <1>1, <1>2, <1>3, <1>5, <1>6, <1>7 DEF Received, Sound, MemType

\* shared_free gets the block for a list head and asks for a node.
LEMMA HeadReceived ==
  ASSUME Sound, NEW p \in MemUser, NEW b \in Block, Got(p, b), m_pc[p] \in Mallocs,
         why[p] = "head", NEW at, Placed(at), NEW new, Moved(at, new, {b}), NotHis(b, p),
         new[b] = Place("head", p, 0)
  PROVE  Received(p, b, new)
<1>1. /\ kept' = kept \cup {b} /\ head' = [head EXCEPT ![p] = b]
      /\ Malloc(p, NodeSize, "node") /\ UNCHANGED <<owned, give>>
  BY DEF Got
<1>2. NodeSize \in Size /\ NodeSize \in Nat
  BY SizeType DEF Size
<1>3. /\ m_pc' \in [MemUser -> Label] /\ m_pc'[p] = "find"
      /\ \A q \in MemUser \ {p} : m_pc'[q] = m_pc[q]
  BY <1>1, GotoType DEF Sound, Label, Malloc
<1>4. /\ ask' \in [MemUser -> Nat] /\ why' \in [MemUser -> {"caller", "head", "node"}]
      /\ ask'[p] = NodeSize /\ why'[p] = "node"
      /\ \A q \in MemUser \ {p} : ask'[q] = ask[q] /\ why'[q] = why[q]
  BY <1>1, <1>2 DEF Malloc, Sound, MemType
<1>5. /\ head' \in [MemUser -> Block \cup {NoBlock}] /\ head'[p] = b
      /\ \A q \in MemUser \ {p} : head'[q] = head[q]
  BY <1>1 DEF Sound, MemType
<1>6. Len(give[p]) >= 1
  BY DEF Sound, Locals, Local
<1>7. Local(p)'
  BY <1>1, <1>2, <1>3, <1>4, <1>6 DEF Local, Mallocs
<1>8. OwnPlaced(new, p)'
  <2>1. First(p)' = 1 /\ First(p) = 1
    BY <1>3 DEF First, Mallocs
  <2>2. \A c \in owned'[p] : new[c] = Place("owned", p, 0)
    BY <1>1 DEF Moved, Placed, OwnPlaced, NotHis, Sound, MemType
  <2>3. ASSUME NEW i \in 1 .. Len(give'[p])
        PROVE  new[give'[p][i].block] = Place("give", p, Len(give'[p]) - i)
    <3>1. give[p][i].block \in Block \ {b}
      BY <1>1, <2>1, GiveType DEF NotHis, Sound
    <3> QED
      BY <1>1, <2>1, <3>1 DEF Moved, Placed, OwnPlaced
  <2>4. head'[p] \in kept' /\ new[head'[p]] = Place("head", p, 0)
    BY <1>1, <1>5
  <2> QED
    BY <1>3, <2>1, <2>2, <2>3, <2>4 DEF OwnPlaced
<1>9. \A q \in MemUser \ {p} : Untouched(q) /\ ask'[q] = ask[q]
  BY <1>1, <1>3, <1>4, <1>5 DEF Untouched
<1>10. new[b][1] = "head"
  BY DEF Place
<1> QED
  BY <1>1, <1>3, <1>4, <1>5, <1>7, <1>8, <1>9, <1>10 DEF Received, Sound, MemType

\* It gets the block for the node, in front of what it has to free.
LEMMA NodeReceived ==
  ASSUME Sound, NEW p \in MemUser, NEW b \in Block, Got(p, b), m_pc[p] \in Mallocs,
         why[p] = "node", NEW at, Placed(at), NEW new, Moved(at, new, {b}), NotHis(b, p),
         new[b] = Place("node", p, 0)
  PROVE  Received(p, b, new)
<1>1. PICK e : e = [block |-> b, late |-> FALSE]
  OBVIOUS
<1>2. e \in Entry /\ e.block = b
  BY <1>1 DEF Entry
<1>3. /\ kept' = kept \cup {b} /\ give' = [give EXCEPT ![p] = <<e>> \o @]
      /\ MGoto(p, "store") /\ UNCHANGED <<owned, head, ask, why>>
  BY <1>1 DEF Got
<1>4. give[p] \in Seq(Entry) /\ Len(give[p]) >= 1 /\ Len(give[p]) \in Nat
  BY LenProperties DEF Sound, MemType, Locals, Local
<1>5. PICK g, t : g = give[p] /\ t = <<e>> \o give[p]
  OBVIOUS
<1>6. /\ t \in Seq(Entry) /\ Len(t) = Len(g) + 1 /\ t[1] = e
      /\ \A i \in 2 .. Len(g) + 1 : t[i] = g[i - 1]
      /\ Borne(t) = {b} \cup Borne(g)
  <2>1. /\ t \in Seq(Entry) /\ Len(t) = Len(g) + 1 /\ t[1] = e
        /\ \A i \in 2 .. Len(g) + 1 : t[i] = g[i - 1]
    BY <1>2, <1>4, <1>5, PutFront
  <2>2. Borne(t) = {b} \cup Borne(g)
    BY <1>2, <1>4, <1>5, BornePut
  <2> QED
    BY <2>1, <2>2
<1>7. /\ give' \in [MemUser -> Seq(Entry)] /\ give'[p] = t
      /\ \A q \in MemUser \ {p} : give'[q] = give[q]
  BY <1>3, <1>5, <1>6 DEF Sound, MemType
<1>8. /\ m_pc' \in [MemUser -> Label] /\ m_pc'[p] = "store"
      /\ \A q \in MemUser \ {p} : m_pc'[q] = m_pc[q]
  BY <1>3, GotoType DEF Sound, Label
<1>9. Local(p)'
  BY <1>4, <1>5, <1>6, <1>7, <1>8 DEF Local, Mallocs
<1>10. OwnPlaced(new, p)'
  <2>1. First(p)' = 2 /\ First(p) = 1 /\ HoldsHead(p)
    BY <1>8 DEF First, HoldsHead, Mallocs
  <2>2. \A c \in owned'[p] : new[c] = Place("owned", p, 0)
    BY <1>3 DEF Moved, Placed, OwnPlaced, NotHis, Sound, MemType
  <2>3. ASSUME NEW i \in 2 .. Len(give'[p])
        PROVE  new[give'[p][i].block] = Place("give", p, Len(give'[p]) - i)
    <3>1. /\ give'[p][i] = g[i - 1] /\ i - 1 \in 1 .. Len(g)
          /\ Len(give'[p]) - i = Len(g) - (i - 1)
      BY <1>4, <1>5, <1>6, <1>7
    <3>2. g[i - 1].block \in Block \ {b}
      BY <1>5, <2>1, <3>1, GiveType DEF NotHis, Sound
    <3>3. at[g[i - 1].block] = Place("give", p, Len(g) - (i - 1))
      BY <1>5, <2>1, <3>1 DEF Placed, OwnPlaced
    <3> QED
      BY <3>1, <3>2, <3>3 DEF Moved
  <2>4. head'[p] \in kept' /\ new[head'[p]] = Place("head", p, 0)
    BY <1>3, <2>1 DEF Moved, Placed, OwnPlaced, NotHis, Sound, MemType
  <2>5. give'[p][1].block \in kept' /\ new[give'[p][1].block] = Place("node", p, 0)
    BY <1>2, <1>3, <1>6, <1>7
  <2> QED
    BY <2>1, <2>2, <2>3, <2>4, <2>5 DEF OwnPlaced
<1>11. \A q \in MemUser \ {p} : Untouched(q) /\ ask'[q] = ask[q]
  BY <1>3, <1>7, <1>8 DEF Untouched
<1>12. new[b][1] = "node"
  BY DEF Place
<1>13. \A c : c \in kept' \/ c \in owned'[p] \/ c \in Borne(give'[p])
                <=> c = b \/ c \in kept \/ c \in owned[p] \/ c \in Borne(give[p])
  BY <1>3, <1>5, <1>6, <1>7
<1> QED
  BY <1>3, <1>7, <1>8, <1>9, <1>10, <1>11, <1>12, <1>13 DEF Received, Sound, MemType

LEMMA GotStep ==
  ASSUME Sound, NEW p \in MemUser, NEW b, Got(p, b), m_pc[p] \in Mallocs,
         NEW at, Placed(at), Loose(b, at), r_off' \in [Region -> Nat],
         UNCHANGED <<m_current, m_next_id, mapped, m_free, leaked, r>>
  PROVE  /\ MemType' /\ Locals' /\ OnePlace'
         /\ \A c : InUse(c)' <=> c = b \/ InUse(c)
         /\ m_pc'[p] \in {"idle", "find", "store"}
         /\ \A q \in MemUser \ {p} : m_pc'[q] = m_pc[q]
<1>1. PICK k \in {"owned", "head", "node"} :
        /\ why[p] = "caller" => k = "owned"
        /\ why[p] = "head" => k = "head"
        /\ why[p] = "node" => k = "node"
  OBVIOUS
<1>2. PICK new : new = [at EXCEPT ![b] = Place(k, p, 0)]
  OBVIOUS
<1>3. /\ DOMAIN new = Block /\ new[b] = Place(k, p, 0) /\ b \in Block /\ NotHis(b, p)
      /\ \A c \in Block \ {b} : new[c] = at[c]
  BY <1>2 DEF Placed, Loose
<1>4. kept \subseteq kept'
  BY DEF Got
<1>5. Moved(at, new, {b})
  BY <1>3, <1>4 DEF Moved
<1>6. Received(p, b, new)
  <2>1. why[p] \in {"caller", "head", "node"}
    BY DEF Sound, MemType
  <2>2. CASE why[p] = "caller"
    BY <1>1, <1>3, <1>5, <2>2, CallerReceives
  <2>3. CASE why[p] = "head"
    BY <1>1, <1>3, <1>5, <2>3, HeadReceived
  <2>4. CASE why[p] = "node"
    BY <1>1, <1>3, <1>5, <2>4, NodeReceived
  <2> QED
    BY <2>1, <2>2, <2>3, <2>4
<1>7. MemType'
  BY <1>6 DEF Received, Loose, Sound, MemType
<1>8. Locals'
  <2>1. Local(p)' /\ \A q \in MemUser \ {p} : Untouched(q) /\ ask'[q] = ask[q]
    BY <1>6 DEF Received
  <2> QED
    BY <2>1, OthersLocal DEF Sound, Untouched
<1>9. ASSUME NEW q \in MemUser \ {p} PROVE OwnPlaced(new, q)'
  <2>1. \A c \in {b} : NotHis(c, q)
    BY DEF Loose
  <2>2. Untouched(q)
    BY <1>6 DEF Received
  <2> QED
    BY <1>5, <2>1, <2>2, OwnStays DEF Sound
<1>10. SharedPlaced(new)'
  <2>1. \A c \in leaked' : new[c] = Place("leaked", 0, 0)
    BY <1>3 DEF Placed, SharedPlaced, Loose, Sound, MemType
  <2>2. \A c \in kept' : new[c][1] \in {"kept", "head", "node"}
    BY <1>3, <1>6 DEF Received, Placed, SharedPlaced, Loose, Sound, MemType
  <2>3. \A n \in Size : \A i \in 1 .. Len(s_top'[n]) :
          new[s_top'[n][i]] = Place("list", n, Len(s_top'[n]) - i)
    BY <1>3 DEF Loose
  <2> QED
    BY <2>1, <2>2, <2>3 DEF SharedPlaced
<1>11. Placed(new)'
  BY <1>3, <1>6, <1>9, <1>10 DEF Placed, Received
<1>12. OnePlace'
  BY <1>11 DEF OnePlace
<1>13. \A c : InUse(c)' <=> c = b \/ InUse(c)
  <2>1. \A c : \A q \in MemUser \ {p} : c \in owned'[q] \/ c \in Borne(give'[q])
                                          <=> c \in owned[q] \/ c \in Borne(give[q])
    BY <1>6 DEF Received, Untouched
  <2>2. \A c : c \in kept' \/ c \in owned'[p] \/ c \in Borne(give'[p])
                 <=> c = b \/ c \in kept \/ c \in owned[p] \/ c \in Borne(give[p])
    BY <1>6 DEF Received
  <2> QED
    BY <2>1, <2>2 DEF InUse
<1> QED
  BY <1>6, <1>7, <1>8, <1>12, <1>13 DEF Received, Untouched

LEMMA PopFreeStep ==
  ASSUME Sound, NEW p \in MemUser, PopFree(p)
  PROVE  Sound'
<1>0. PICK n : n = ask[p]
  OBVIOUS
<1>1. m_pc[p] = "pop" /\ n \in Size /\ s_top[n] \in Seq(Block)
  BY <1>0 DEF PopFree, At, Sound, Locals, Local, Mallocs, MemType
<1>2. /\ UNCHANGED <<m_current, m_next_id, r_off, mapped, m_free, asked, leaked, broken>>
      /\ m_current \in Region
  BY MemAssumption DEF PopFree, Sound, MemType, Region
<1>3. CASE s_top[n] = <<>>
  <2>1. /\ MGoto(p, "bump") /\ r' = [r EXCEPT ![p] = m_current]
        /\ UNCHANGED <<s_top, s_m, owned, kept, head, give, ask, why>>
    BY <1>0, <1>3 DEF PopFree
  <2>2. /\ m_pc' \in [MemUser -> Label] /\ m_pc'[p] = "bump"
        /\ \A q \in MemUser \ {p} : m_pc'[q] = m_pc[q]
    BY <2>1, GotoType DEF Sound, Label
  <2>3. r' \in [MemUser -> Region] /\ \A q \in MemUser \ {p} : r'[q] = r[q]
    BY <1>2, <2>1 DEF Sound, MemType
  <2>4. MemType'
    BY <1>2, <2>1, <2>2, <2>3 DEF Sound, MemType
  <2>5. Locals'
    BY <1>1, <1>2, <2>1, <2>2 DEF Sound, Locals, Local, Mallocs
  <2>6. Regions'
    BY <1>2, <2>2, <2>3, SameRegions DEF Sound
  <2> QED
    BY <1>1, <1>2, <2>1, <2>2, <2>4, <2>5, <2>6, QuietStep DEF HoldsHead, Mallocs
<1>4. CASE s_top[n] # <<>> /\ Head(s_top[n]).region \notin mapped[p]
  <2>1. /\ MGoto(p, "crashed") /\ UNCHANGED r
        /\ UNCHANGED <<s_top, owned, kept, head, give, ask, why>>
    BY <1>0, <1>4 DEF PopFree
  <2>2. /\ m_pc' \in [MemUser -> Label] /\ m_pc'[p] = "crashed"
        /\ \A q \in MemUser \ {p} : m_pc'[q] = m_pc[q]
    BY <2>1, GotoType DEF Sound, Label
  <2>3. MemType'
    BY <1>2, <2>1, <2>2 DEF Sound, MemType
  <2>4. Locals'
    BY <1>2, <2>1, <2>2 DEF Sound, Locals, Local, Mallocs
  <2>5. Regions'
    BY <1>2, <2>1, <2>2, SameRegions DEF Sound
  <2> QED
    BY <1>1, <1>2, <2>1, <2>2, <2>3, <2>4, <2>5, QuietStep DEF HoldsHead, Mallocs
<1>5. CASE s_top[n] # <<>> /\ Head(s_top[n]).region \in mapped[p]
  <2>0. PICK s, t, b : s = s_top[n] /\ t = Tail(s_top[n]) /\ b = Head(s_top[n])
    OBVIOUS
  <2>1. /\ s_top' = [s_top EXCEPT ![n] = t] /\ Got(p, b) /\ UNCHANGED r
    BY <1>0, <1>5, <2>0 DEF PopFree, Popped
  <2>2. /\ s \in Seq(Block) /\ t \in Seq(Block) /\ Len(t) = Len(s) - 1 /\ Len(s) >= 1
        /\ Len(s) \in Nat /\ b = s[1] /\ b \in Block
        /\ \A i \in 1 .. Len(s) - 1 : t[i] = s[i + 1]
        /\ ToSet(s) = {b} \cup ToSet(t)
    BY <1>1, <1>5, <2>0, TakeFront, ToSetTake, LenProperties
  <2>3. /\ s_top' \in [Size -> Seq(Block)] /\ s_top'[n] = t
        /\ \A m \in Size \ {n} : s_top'[m] = s_top[m]
    BY <1>1, <2>1, <2>2 DEF Sound, MemType
  <2>4. PICK at : Placed(at)
    BY DEF Sound, OnePlace
  <2>5. OnlyAt(b, "list", n, Len(s) - 1)
    <3>1. at[b] = Place("list", n, Len(s) - 1)
      BY <1>1, <2>0, <2>2, <2>4 DEF Placed, SharedPlaced
    <3> QED
      BY <2>2, <2>4, <3>1, PlaceIsOne
  <2>6. Loose(b, at)
    <3>1. ASSUME NEW m \in Size, NEW i \in 1 .. Len(s_top'[m])
          PROVE  /\ s_top'[m][i] \in Block \ {b}
                 /\ at[s_top'[m][i]] = Place("list", m, Len(s_top'[m]) - i)
      <4>1. CASE m = n
        <5>1. /\ i + 1 \in 1 .. Len(s) /\ s_top'[m][i] = s[i + 1]
              /\ Len(s_top'[m]) - i = Len(s) - (i + 1) /\ Len(s) - 1 # Len(s) - (i + 1)
          BY <2>2, <2>3, <4>1
        <5>2. s[i + 1] \in Block \ {b}
          BY <1>1, <2>0, <2>5, <5>1, ListType DEF OnlyAt, Sound
        <5>3. at[s[i + 1]] = Place("list", n, Len(s) - (i + 1))
          BY <1>1, <2>0, <2>4, <5>1 DEF Placed, SharedPlaced
        <5> QED
          BY <4>1, <5>1, <5>2, <5>3
      <4>2. CASE m # n
        <5>1. s_top'[m] = s_top[m]
          BY <2>3, <4>2
        <5>2. s_top[m][i] \in Block \ {b}
          BY <2>5, <4>2, <5>1, ListType DEF OnlyAt, Sound
        <5> QED
          BY <2>4, <5>1, <5>2 DEF Placed, SharedPlaced
      <4> QED
        BY <4>1, <4>2
    <3> QED
      BY <2>2, <2>3, <2>5, <3>1 DEF Loose, OnlyAt
  <2>7. /\ MemType' /\ Locals' /\ OnePlace'
        /\ \A c : InUse(c)' <=> c = b \/ InUse(c)
        /\ m_pc'[p] \in {"idle", "find", "store"}
        /\ \A q \in MemUser \ {p} : m_pc'[q] = m_pc[q]
    <3>1. m_pc[p] \in Mallocs /\ r_off' \in [Region -> Nat]
      BY <1>1, <1>2 DEF Mallocs, Sound, MemType
    <3> QED
      BY <1>2, <2>1, <2>4, <2>6, <3>1, GotStep
  <2>8. Regions'
    BY <1>2, <2>1, <2>7, SameRegions DEF Sound
  <2>9. Lists'
    <3>1. ASSUME NEW m \in Size, NEW i \in 1 .. Len(s_top'[m]) PROVE s_top'[m][i].len = m
      <4>1. CASE m = n
        <5>1. i + 1 \in 1 .. Len(s) /\ s_top'[m][i] = s[i + 1]
          BY <2>2, <2>3, <4>1
        <5> QED
          BY <1>1, <2>0, <4>1, <5>1 DEF Sound, Lists
      <4>2. CASE m # n
        BY <2>3, <4>2 DEF Sound, Lists
      <4> QED
        BY <4>1, <4>2
    <3>2. n \in m_free
      BY <1>1, <1>5 DEF Sound, Lists
    <3> QED
      BY <1>2, <2>3, <3>1, <3>2 DEF Sound, Lists
  <2>10. \A c : c \in Blocks' <=> c \in Blocks
    <3>1. \A c : c = b \/ (\E m \in Size : c \in ToSet(s_top'[m]))
                  <=> \E m \in Size : c \in ToSet(s_top[m])
      BY <1>1, <2>0, <2>2, <2>3
    <3>2. \A c : c \in Blocks' <=> InUse(c)' \/ \E m \in Size : c \in ToSet(s_top'[m])
      BY InBlocksNext DEF InUse
    <3>3. \A c : c \in Blocks <=> InUse(c) \/ \E m \in Size : c \in ToSet(s_top[m])
      BY InBlocks DEF InUse
    <3> QED
      BY <2>7, <3>1, <3>2, <3>3
  <2>11. Tiles'
    BY <1>2, <2>10, SameTiles DEF Sound
  <2> QED
    BY <2>7, <2>8, <2>9, <2>11 DEF Sound
<1> QED
  BY <1>3, <1>4, <1>5

\* The cut of a block that fits the region.
LEMMA CutStep ==
  ASSUME Sound, NEW p \in MemUser, Cut(p), m_pc[p] \in {"bump", "blind"}, r[p] \in mapped[p],
         ask[p] + r_off[r[p]] <= RegionSize,
         UNCHANGED <<m_current, m_next_id, mapped, m_free, s_top, leaked, r>>
  PROVE  Sound'
<1>1. PICK i, n, b : i = r[p] /\ n = ask[p] /\ b = [region |-> i, off |-> r_off[i], len |-> n]
  OBVIOUS
<1>2. /\ i \in Region /\ i \in mapped[p] /\ n \in Size /\ n \in Nat \ {0}
      /\ r_off \in [Region -> Nat] /\ b \in Block /\ n + r_off[i] <= RegionSize
  BY <1>1, SizeType DEF Sound, MemType, Locals, Local, Mallocs, Block
<1>3. /\ r_off' = [r_off EXCEPT ![i] = @ + n] /\ Got(p, b)
  BY <1>1 DEF Cut
<1>4. /\ r_off' \in [Region -> Nat] /\ r_off'[i] = r_off[i] + n
      /\ \A j \in Region \ {i} : r_off'[j] = r_off[j]
  BY <1>2, <1>3
<1>5. b \notin Blocks
  <2>1. b.region = i /\ b.off = r_off[i] /\ b.len = n
    BY <1>1
  <2>2. ~(r_off[i] + n <= r_off[i])
    BY <1>2
  <2> QED
    BY <2>1, <2>2 DEF Sound, Tiles, Within
<1>6. PICK at : Placed(at)
  BY DEF Sound, OnePlace
<1>7. Loose(b, at)
  <2>1. b \notin leaked /\ b \notin kept
    BY <1>5, InBlocks
  <2>2. ASSUME NEW q \in MemUser PROVE NotHis(b, q)
    <3>1. give[q] \in Seq(Entry)
      BY DEF Sound, MemType
    <3>2. b \notin owned[q] /\ b \notin Borne(give[q])
      BY <1>5, InBlocks
    <3>3. \A j \in First(q) .. Len(give[q]) : give[q][j].block # b
      BY <3>1, <3>2, InBorne DEF First
    <3>4. m_pc[q] = "store" => give[q][1].block # b
      BY <1>6, <2>1 DEF Placed, OwnPlaced
    <3>5. HoldsHead(q) => head[q] # b
      BY <1>6, <2>1 DEF Placed, OwnPlaced
    <3> QED
      BY <3>2, <3>3, <3>4, <3>5 DEF NotHis
  <2>3. ASSUME NEW m \in Size, NEW j \in 1 .. Len(s_top'[m])
        PROVE  /\ s_top'[m][j] \in Block \ {b}
               /\ at[s_top'[m][j]] = Place("list", m, Len(s_top'[m]) - j)
    <3>1. s_top'[m] = s_top[m] /\ s_top[m] \in Seq(Block)
      BY DEF Sound, MemType
    <3>2. b \notin ToSet(s_top[m])
      BY <1>5, InBlocks
    <3>3. s_top[m][j] \in Block \ {b}
      BY <3>1, <3>2, InToSet, ListType DEF Sound
    <3> QED
      BY <1>6, <3>1, <3>3 DEF Placed, SharedPlaced
  <2> QED
    BY <1>2, <2>1, <2>2, <2>3 DEF Loose, Sound, MemType
<1>8. /\ MemType' /\ Locals' /\ OnePlace'
      /\ \A c : InUse(c)' <=> c = b \/ InUse(c)
      /\ m_pc'[p] \in {"idle", "find", "store"}
      /\ \A q \in MemUser \ {p} : m_pc'[q] = m_pc[q]
  <2>1. m_pc[p] \in Mallocs
    BY DEF Mallocs
  <2> QED
    BY <1>3, <1>4, <1>6, <1>7, <2>1, GotStep
<1>9. Regions'
  <2>1. i < m_next_id
    BY <1>2 DEF Sound, Regions
  <2>2. \A j \in Region : j >= m_next_id' => r_off'[j] = 0
    BY <1>2, <1>4, <2>1 DEF Sound, Regions, Region, MemType
  <2>3. \A j \in Region : r_off'[j] <= RegionSize
    BY <1>2, <1>4 DEF Sound, Regions
  <2>4. ASSUME NEW q \in MemUser, m_pc'[q] = "reread", m_current' \in mapped'[q]
        PROVE  m_current' > 0 /\ r_off'[m_current'] = 0
    <3>1. q # p /\ m_pc[q] = "reread" /\ m_current \in mapped[q]
      BY <1>8, <2>4
    <3>2. m_current > 0 /\ r_off[m_current] = 0 /\ m_current \in Region
      BY <3>1 DEF Sound, Regions, MemType
    <3>3. m_current # i
      BY <1>2, <3>1, <3>2 DEF Sound, Regions
    <3> QED
      BY <1>4, <3>2, <3>3
  <2>5. ASSUME NEW q \in MemUser, m_pc'[q] = "blind", r'[q] \in mapped'[q]
        PROVE  r'[q] > 0 /\ r_off'[r'[q]] = 0
    <3>1. q # p /\ m_pc[q] = "blind" /\ r[q] \in mapped[q]
      BY <1>8, <2>5
    <3>2. r[q] > 0 /\ r_off[r[q]] = 0 /\ r[q] \in Region
      BY <3>1 DEF Sound, Regions, MemType
    <3>3. r[q] # i
      BY <1>2, <3>1, <3>2 DEF Sound, Regions
    <3> QED
      BY <1>4, <3>2, <3>3
  <2> QED
    BY <2>2, <2>3, <2>4, <2>5 DEF Sound, Regions
<1>10. Lists'
  BY DEF Sound, Lists
<1>11. \A c : c \in Blocks' <=> c = b \/ c \in Blocks
  <2>1. \A c : c \in Blocks' <=> InUse(c)' \/ \E m \in Size : c \in ToSet(s_top'[m])
    BY InBlocksNext DEF InUse
  <2>2. \A c : c \in Blocks <=> InUse(c) \/ \E m \in Size : c \in ToSet(s_top[m])
    BY InBlocks DEF InUse
  <2> QED
    BY <1>8, <2>1, <2>2
<1>12. Tiles'
  BY <1>1, <1>2, <1>3, <1>11, CutTiles DEF Sound
<1> QED
  BY <1>8, <1>9, <1>10, <1>12 DEF Sound

LEMMA BumpStep ==
  ASSUME Sound, NEW p \in MemUser, Bump(p)
  PROVE  Sound'
BY CutStep DEF Bump, At, Fits

\* The new region is empty: it has room for any size.
LEMMA BumpBlindStep ==
  ASSUME Sound, NEW p \in MemUser, BumpBlind(p)
  PROVE  Sound'
<1>1. m_pc[p] = "blind" /\ r[p] \in mapped[p] /\ Cut(p)
      /\ UNCHANGED <<m_current, m_next_id, mapped, m_free, s_top, leaked, r>>
  BY DEF BumpBlind, At
<1>2. r_off[r[p]] = 0 /\ ask[p] \in Size
  BY <1>1 DEF Sound, Regions, Locals, Local, Mallocs
<1>3. ask[p] + r_off[r[p]] <= RegionSize
  BY <1>2, SizeType
<1> QED
  BY <1>1, <1>3, CutStep

LEMMA MemStep == MemInv /\ [MemNext]_mvars => MemInv'
<1> SUFFICES ASSUME MemInv, [MemNext]_mvars, ~broken' PROVE Sound'
  BY DEF MemInv
<1>1. ASSUME NEW p \in MemUser,
             \/ Ask(p) \/ FindSize(p) \/ PopFree(p) \/ CrashOnRegion(p) \/ Bump(p) \/ Grow(p)
             \/ GrowFails(p) \/ Reread(p) \/ BumpBlind(p)
             \/ Free(p) \/ FindList(p) \/ PushFree(p) \/ Store(p) \/ StoreTwice(p)
             \/ LateUnlock(p)
      PROVE  Sound'
  <2>1. Sound
    BY <1>1 DEF MemInv, Ask, FindSize, PopFree, CrashOnRegion, Bump, Grow, GrowFails, Reread,
                BumpBlind, Free, FindList, PushFree, Store, StoreTwice, LateUnlock, At
  <2> QED
    BY <1>1, <2>1, AskStep, FindSizeStep, PopFreeStep, CrashOnRegionStep, BumpStep, GrowStep,
       GrowFailsStep, RereadStep, BumpBlindStep, FreeStep, FindListStep, PushFreeStep,
       StoreStep, StoreTwiceStep, LateUnlockStep
<1>2. CASE UNCHANGED mvars
  <2>1. Sound
    BY <1>2 DEF MemInv, mvars
  <2>2. MemType' /\ Locals' /\ Regions' /\ Lists'
    BY <1>2, <2>1 DEF mvars, mlocals, Sound, MemType, Locals, Local, Regions, Lists
  <2> QED
    BY <1>2, <2>1, <2>2, QuietStep DEF mvars, mlocals, HoldsHead
<1> QED
  BY <1>1, <1>2 DEF MemNext

\* However the processes' calls of shared_malloc and shared_free interleave,
\* with any allocation failing, a caller's or one of shared_free's own, lock
\* words cleared late and processes that crash: until two additions to the
\* tree overlap or a late write hits memory in use, the blocks tile what has
\* been cut, each is in one place, and nothing is cut past the end of a region.
THEOREM MemoryTiled == MemSpec => []BlocksTile
<1>1. MemInv => BlocksTile
  <2> SUFFICES ASSUME Sound PROVE BlocksTile
    BY DEF MemInv, BlocksTile
  <2>1. PICK at : Placed(at)
    BY DEF Sound, OnePlace
  <2>2. \A b \in Blocks : b.region \in Region /\ b.off \in Nat /\ b.len \in Nat
    <3>1. \A b \in Blocks : b \in Block
      BY BlocksType DEF Sound
    <3> QED
      BY <3>1, SizeType DEF Block
  <2>3. ASSUME NEW b \in Blocks, NEW d \in Blocks, b # d PROVE Cells(b) \cap Cells(d) = {}
    <3>1. ASSUME NEW c \in Cells(b), c \in Cells(d) PROVE FALSE
      <4>1. PICK i \in b.off .. b.off + b.len - 1 : c = <<b.region, i>>
        BY DEF Cells
      <4>2. PICK j \in d.off .. d.off + d.len - 1 : c = <<d.region, j>>
        BY <3>1 DEF Cells
      <4>3. i = j /\ b.region = d.region
        BY <4>1, <4>2
      <4> QED
        BY <2>2, <2>3, <4>1, <4>2, <4>3 DEF Sound, Tiles, Apart
    <3> QED
      BY <3>1
  <2>4. UNION {Cells(b) : b \in Blocks} =
          UNION {{<<i, k>> : k \in 0 .. r_off[i] - 1} : i \in Region}
    <3>1. ASSUME NEW b \in Blocks, NEW c \in Cells(b)
          PROVE  \E i \in Region : \E k \in 0 .. r_off[i] - 1 : c = <<i, k>>
      <4>1. PICK k \in b.off .. b.off + b.len - 1 : c = <<b.region, k>>
        BY DEF Cells
      <4>2. b.region \in Region /\ r_off[b.region] \in Nat /\ b.off + b.len <= r_off[b.region]
        BY <2>2 DEF Sound, Tiles, Within, MemType
      <4>3. k \in 0 .. r_off[b.region] - 1
        BY <2>2, <4>1, <4>2
      <4> QED
        BY <4>1, <4>2, <4>3
    <3>2. ASSUME NEW i \in Region, NEW k \in 0 .. r_off[i] - 1
          PROVE  \E b \in Blocks : <<i, k>> \in Cells(b)
      <4>1. PICK b \in Blocks : b.region = i /\ b.off <= k /\ k < b.off + b.len
        BY DEF Sound, Tiles, Covered
      <4>2. k \in b.off .. b.off + b.len - 1
        BY <2>2, <4>1 DEF Sound, MemType
      <4> QED
        BY <4>1, <4>2 DEF Cells
    <3> QED
      BY <3>1, <3>2
  <2>5. ASSUME NEW n \in Size PROVE IsInjective(s_top[n])
    <3>1. s_top[n] \in Seq(Block) /\ Len(s_top[n]) \in Nat
      BY LenProperties DEF Sound, MemType
    <3>2. ASSUME NEW i \in 1 .. Len(s_top[n]), NEW j \in 1 .. Len(s_top[n]),
                 s_top[n][i] = s_top[n][j]
          PROVE  i = j
      <4>1. Len(s_top[n]) - i = Len(s_top[n]) - j
        BY <2>1, <3>2 DEF Placed, SharedPlaced, Place
      <4> QED
        BY <3>1, <4>1
    <3> QED
      BY <3>1, <3>2 DEF IsInjective
  <2>6. ASSUME NEW p \in MemUser, NEW b \in Borne(give[p])
        PROVE  b \in kept \/ (b \in Block /\ at[b][1] = "give")
    <3>1. give[p] \in Seq(Entry)
      BY DEF Sound, MemType
    <3>2. PICK i \in 1 .. Len(give[p]) : give[p][i].block = b
      BY <3>1, InBorne
    <3>3. i \in First(p) .. Len(give[p]) \/ (m_pc[p] = "store" /\ i = 1)
      BY DEF First
    <3>4. b \in Block
      BY <3>2, GiveType DEF Sound
    <3> QED
      BY <2>1, <3>2, <3>3, <3>4 DEF Placed, OwnPlaced, Place
  <2>7. ASSUME NEW n \in Size, NEW b \in ToSet(s_top[n])
        PROVE  b \notin kept /\ b \notin leaked /\ \A p \in MemUser : b \notin Hands(p)
    <3>1. s_top[n] \in Seq(Block)
      BY DEF Sound, MemType
    <3>2. PICK i \in 1 .. Len(s_top[n]) : s_top[n][i] = b
      BY <3>1, InToSet
    <3>3. at[b][1] = "list"
      <4>1. at[b] = Place("list", n, Len(s_top[n]) - i)
        BY <2>1, <3>2 DEF Placed, SharedPlaced
      <4> QED
        BY <4>1 DEF Place
    <3>4. b \notin kept /\ b \notin leaked /\ \A p \in MemUser : b \notin owned[p]
      BY <2>1, <3>3 DEF Placed, SharedPlaced, OwnPlaced, Place
    <3> QED
      BY <2>6, <3>3, <3>4 DEF Hands, Borne
  <2>8. ASSUME NEW p \in MemUser, NEW q \in MemUser, p # q, NEW b \in owned[p]
        PROVE  b \notin Hands(q)
    <3>1. at[b] = Place("owned", p, 0)
      BY <2>1 DEF Placed, OwnPlaced
    <3>2. at[b][1] = "owned" /\ at[b][2] = p
      BY <3>1 DEF Place
    <3>3. b \notin kept
      BY <2>1, <3>2 DEF Placed, SharedPlaced
    <3>4. b \notin owned[q]
      BY <2>1, <2>8, <3>2 DEF Placed, OwnPlaced, Place
    <3>5. b \notin Borne(give[q])
      BY <2>6, <3>2, <3>3
    <3> QED
      BY <3>4, <3>5 DEF Hands, Borne
  <2>9. \A n \in Size : ToSet(s_top[n]) \cap
          (kept \cup leaked \cup (UNION {Hands(p) : p \in MemUser})) = {}
    BY <2>7
  <2>10. \A p, q \in MemUser : p # q => owned[p] \cap Hands(q) = {}
    BY <2>8
  <2>11. \A i \in Region : r_off[i] <= RegionSize
    BY DEF Sound, Regions
  <2> QED
    BY <2>3, <2>4, <2>5, <2>9, <2>10, <2>11 DEF BlocksTile
<1> QED
  BY <1>1, SoundInit, MemStep, PTL DEF MemSpec
=============================================================================
