--------------------------- MODULE ContainerProofs ---------------------------
(***************************************************************************)
(* The linked lists of src/src/hash.c are the abstract bank, for every     *)
(* number of processes, tables, buckets and objects.                       *)
(*                                                                         *)
(* The links say nothing until it is known that they end: PathOf(nx, o, s) *)
(* holds of the sequence s the links nx lead through from o, and HashInv   *)
(* gives the free list and each chain such a path, no object on two of     *)
(* them or in a hand besides.  What a link is changed to is then cutting   *)
(* the head off a path or hanging an object on its end.  The recursive     *)
(* functions of the model, ListFrom and LastOf, are tied to the paths by   *)
(* induction over the length, which takes the least number of a set that   *)
(* would be a counterexample.                                              *)
(*                                                                         *)
(* The priority queue of src/src/queue.c, at the end of the module, is a   *)
(* chain of another kind: a node's link is the exclusive or of its two     *)
(* neighbours, so that every link a queue of data has is known (QueueOf),  *)
(* and enqueue and dequeue each keep them so.                              *)
(***************************************************************************)
EXTENDS HashList, PriorityQueue, FiniteSetTheorems, SequenceTheorems, WellFoundedInduction, TLAPS

(***************************************************************************)
(* Induction, on a set of numbers.                                         *)
(***************************************************************************)
LEMMA LeastNumber ==
  ASSUME NEW T \in SUBSET Nat, T # {}
  PROVE  \E n \in T : \A m \in T : n <= m
<1>1. PICK n \in T : \A m \in T : ~ (<<m, n>> \in OpToRel(<, Nat))
  BY NatLessThanWellFounded, WFMin
<1>2. \A m \in T : ~ (m < n)
  BY <1>1 DEF OpToRel
<1> QED
  BY <1>2

LEMMA EveryNumber ==
  ASSUME NEW T \in SUBSET Nat, 0 \in T, \A n \in T : n + 1 \in T
  PROVE  T = Nat
<1>1. SUFFICES ASSUME T # Nat PROVE FALSE
  OBVIOUS
<1>2. PICK n \in Nat \ T : \A m \in Nat \ T : n <= m
  BY <1>1, LeastNumber
<1>3. n - 1 \in T
  BY <1>2
<1> QED
  BY <1>2, <1>3

(***************************************************************************)
(* Linked lists, for any links nx.                                         *)
(***************************************************************************)
Ends == HObject \cup {NoObject}

\* From o on, nx leads through s and ends.
PathOf(nx, o, s) ==
  /\ s \in Seq(HObject)
  /\ o = IF Len(s) = 0 THEN NoObject ELSE s[1]
  /\ \A i \in 1 .. Len(s) : nx[s[i]] = IF i = Len(s) THEN NoObject ELSE s[i + 1]

LEMMA OnePath ==
  ASSUME NEW nx, NEW o, NEW s, NEW u, PathOf(nx, o, s), PathOf(nx, o, u)
  PROVE  s = u
<1> USE HashAssumption DEF PathOf
<1> DEFINE Bad == {i \in Nat : i \in 1 .. Len(s) /\ i \in 1 .. Len(u) /\ s[i] # u[i]}
<1>1. Bad = {}
  <2>1. SUFFICES ASSUME Bad # {} PROVE FALSE
    OBVIOUS
  <2>2. PICK i \in Bad : \A j \in Bad : i <= j
    BY <2>1, LeastNumber
  <2>3. i # 1
    BY <2>2
  <2>4. s[i - 1] = u[i - 1] /\ i - 1 \in 1 .. Len(s) /\ i - 1 \in 1 .. Len(u)
        /\ i - 1 # Len(s) /\ i - 1 # Len(u)
    BY <2>2, <2>3
  <2> QED
    BY <2>2, <2>4
<1>2. \A i \in 1 .. Len(s) : i \in 1 .. Len(u) => s[i] = u[i]
  BY <1>1
<1> HIDE DEF Bad
<1>3. Len(s) = Len(u)
  <2>1. ASSUME NEW a, NEW b, PathOf(nx, o, a), PathOf(nx, o, b), Len(a) < Len(b),
               \A i \in 1 .. Len(a) : i \in 1 .. Len(b) => a[i] = b[i]
        PROVE  FALSE
    <3>1. CASE Len(a) = 0
      BY <2>1, <3>1
    <3>2. CASE Len(a) > 0
      <4>1. PICK n \in Nat : n = Len(a)
        BY <2>1
      <4>2. n \in 1 .. Len(a) /\ n \in 1 .. Len(b) /\ n + 1 \in 1 .. Len(b)
        BY <2>1, <3>2, <4>1
      <4>3. a[n] = b[n]
        BY <2>1, <4>2
      <4>4. nx[a[n]] = NoObject
        BY <2>1, <4>1, <4>2
      <4>5. nx[b[n]] = b[n + 1] /\ b[n + 1] \in HObject
        BY <2>1, <4>1, <4>2
      <4> QED
        BY <4>3, <4>4, <4>5
    <3> QED
      BY <2>1, <3>1, <3>2
  <2> QED
    BY <1>2, <2>1
<1> QED
  BY <1>2, <1>3

LEMMA EmptyPath ==
  \A nx : PathOf(nx, NoObject, <<>>) /\ \A s : PathOf(nx, NoObject, s) => s = <<>>
  BY HashAssumption DEF PathOf

LEMMA PathHead ==
  ASSUME NEW nx, NEW o \in HObject, NEW s, PathOf(nx, o, s)
  PROVE  s \in Seq(HObject) /\ Len(s) \in Nat \ {0} /\ o = s[1]
  BY HashAssumption DEF PathOf

LEMMA PathTail ==
  ASSUME NEW nx, NEW o \in HObject, NEW s, PathOf(nx, o, s)
  PROVE  PathOf(nx, nx[o], Tail(s)) /\ s = <<o>> \o Tail(s)
  BY PathHead DEF PathOf

LEMMA TailOf ==
  ASSUME NEW s \in Seq(HObject), Len(s) \in Nat \ {0}
  PROVE  /\ Tail(s) \in Seq(HObject) /\ Len(Tail(s)) = Len(s) - 1
         /\ Len(s) # 1 => Tail(s)[Len(Tail(s))] = s[Len(s)]
<1>1. PICK n \in Nat \ {0} : n = Len(s)
  OBVIOUS
<1>2. Tail(s) \in Seq(HObject) /\ Len(Tail(s)) = n - 1
  BY <1>1
<1>3. n # 1 => Tail(s)[n - 1] = s[n]
  BY <1>1
<1> QED
  BY <1>1, <1>2, <1>3

LEMMA PathEnd ==
  ASSUME NEW nx, NEW o \in HObject, NEW s, PathOf(nx, o, s)
  PROVE  IF nx[o] = NoObject THEN Len(s) = 1 ELSE Len(s) # 1 /\ nx[o] \in HObject
<1>1. s \in Seq(HObject) /\ o = s[1]
  BY PathHead
<1>2. PICK n \in Nat \ {0} : n = Len(s)
  BY PathHead
<1>3. nx[o] = IF 1 = n THEN NoObject ELSE s[2]
  <2>1. \A i \in 1 .. n : nx[s[i]] = IF i = n THEN NoObject ELSE s[i + 1]
    BY <1>2 DEF PathOf
  <2>2. 1 \in 1 .. n /\ 1 + 1 = 2
    OBVIOUS
  <2> QED
    BY <1>1, <2>1, <2>2
<1>4. 1 # n => 2 \in 1 .. n
  OBVIOUS
<1> QED
  BY <1>1, <1>2, <1>3, <1>4, HashAssumption

LEMMA PathCons ==
  ASSUME NEW nx, NEW o \in HObject, NEW s, PathOf(nx, nx[o], s)
  PROVE  PathOf(nx, o, <<o>> \o s)
  BY HashAssumption DEF PathOf

\* ListFrom and LastOf of any links.
Listing(nx) ==
  CHOOSE f : f = [o \in HObject \cup {NoObject} |->
                    IF o = NoObject THEN <<>> ELSE <<o>> \o f[nx[o]]]

Lasting(nx) ==
  CHOOSE f : f = [o \in HObject |-> IF nx[o] = NoObject THEN o ELSE f[nx[o]]]

\* Where every object has a path, ListFrom gives it.
LEMMA ListingIs ==
  ASSUME NEW nx \in [HObject -> Ends], \A o \in HObject : \E s : PathOf(nx, o, s),
         NEW o \in Ends, NEW s, PathOf(nx, o, s)
  PROVE  Listing(nx)[o] = s
<1> DEFINE F(f) == [x \in HObject \cup {NoObject} |->
                      IF x = NoObject THEN <<>> ELSE <<x>> \o f[nx[x]]]
           g == [x \in Ends |-> CHOOSE u : PathOf(nx, x, u)]
<1>1. \A x \in Ends : PathOf(nx, x, g[x])
  BY EmptyPath DEF Ends
<1>2. g = F(g)
  <2>1. ASSUME NEW x \in Ends PROVE g[x] = IF x = NoObject THEN <<>> ELSE <<x>> \o g[nx[x]]
    <3>1. CASE x = NoObject
      BY <1>1, <3>1, EmptyPath
    <3>2. CASE x # NoObject
      <4>1. x \in HObject /\ nx[x] \in Ends
        BY <3>2 DEF Ends
      <4>2. PathOf(nx, x, <<x>> \o g[nx[x]])
        BY <1>1, <4>1, PathCons
      <4>3. PathOf(nx, x, g[x])
        BY <1>1
      <4> HIDE DEF g
      <4>4. g[x] = <<x>> \o g[nx[x]]
        BY <4>2, <4>3, OnePath
      <4> QED
        BY <3>2, <4>4
    <3> QED
      BY <3>1, <3>2
  <2>2. g = [x \in Ends |-> g[x]]
    OBVIOUS
  <2> HIDE DEF g
  <2> QED
    BY <2>1, <2>2 DEF Ends
<1>3. PICK f : f = Listing(nx)
  OBVIOUS
<1>4. f = F(f)
  <2> HIDE DEF g
  <2> QED
    BY <1>2, <1>3 DEF Listing
<1>5. \A x \in Ends : f[x] = IF x = NoObject THEN <<>> ELSE <<x>> \o f[nx[x]]
  BY <1>4 DEF Ends
<1> HIDE DEF F, g
<1> DEFINE T == {n \in Nat : \A x \in Ends : \A u : PathOf(nx, x, u) /\ Len(u) = n => f[x] = u}
<1>6. 0 \in T
  <2>1. \A x, u : PathOf(nx, x, u) /\ Len(u) = 0 => x = NoObject /\ u = <<>>
    BY DEF PathOf
  <2> QED
    BY <1>5, <2>1
<1>7. ASSUME NEW n \in T PROVE n + 1 \in T
  <2>1. ASSUME NEW x \in Ends, NEW u, PathOf(nx, x, u), Len(u) = n + 1 PROVE f[x] = u
    <3>1. x \in HObject
      BY <2>1, HashAssumption DEF PathOf
    <3>2. PathOf(nx, nx[x], Tail(u)) /\ u = <<x>> \o Tail(u)
          /\ Len(Tail(u)) = Len(u) - 1
      BY <2>1, <3>1, PathHead, PathTail, TailOf
    <3>3. Len(Tail(u)) = n /\ nx[x] \in Ends
      BY <2>1, <3>1, <3>2
    <3>4. f[nx[x]] = Tail(u)
      BY <3>2, <3>3
    <3> HIDE DEF T
    <3> QED
      BY <1>5, <3>1, <3>2, <3>4, HashAssumption
  <2> QED
    BY <2>1
<1>8. T = Nat
  <2> HIDE DEF T
  <2>1. T \in SUBSET Nat
    BY DEF T
  <2> QED
    BY <1>6, <1>7, <2>1, EveryNumber
<1>9. Len(s) \in T
  BY <1>8 DEF PathOf
<1> QED
  BY <1>3, <1>9

LEMMA LastingIs ==
  ASSUME NEW nx \in [HObject -> Ends], \A o \in HObject : \E s : PathOf(nx, o, s),
         NEW o \in HObject, NEW s, PathOf(nx, o, s)
  PROVE  Lasting(nx)[o] = s[Len(s)]
<1> DEFINE F(f) == [x \in HObject |-> IF nx[x] = NoObject THEN x ELSE f[nx[x]]]
           P(x) == CHOOSE u : PathOf(nx, x, u)
           g == [x \in HObject |-> P(x)[Len(P(x))]]
\* How the last object of a path is found.
<1>1. ASSUME NEW x \in HObject, NEW u, PathOf(nx, x, u)
      PROVE  IF nx[x] = NoObject THEN u[Len(u)] = x
             ELSE /\ nx[x] \in HObject /\ PathOf(nx, nx[x], Tail(u))
                  /\ Len(u) \in Nat \ {0} /\ Len(Tail(u)) = Len(u) - 1
                  /\ Tail(u)[Len(Tail(u))] = u[Len(u)]
  <2> HIDE DEF F, P, g
  <2>1. u \in Seq(HObject) /\ Len(u) \in Nat \ {0} /\ x = u[1]
    BY <1>1, PathHead
  <2>2. IF nx[x] = NoObject THEN Len(u) = 1 ELSE Len(u) # 1 /\ nx[x] \in HObject
    BY <1>1, PathEnd
  <2>3. PathOf(nx, nx[x], Tail(u))
    BY <1>1, PathTail
  <2>4. CASE nx[x] = NoObject
    BY <2>1, <2>2, <2>4
  <2>5. CASE nx[x] # NoObject
    <3>1. Len(Tail(u)) = Len(u) - 1 /\ Tail(u)[Len(Tail(u))] = u[Len(u)]
      BY <2>1, <2>2, <2>5, TailOf
    <3> QED
      BY <2>1, <2>2, <2>3, <2>5, <3>1
  <2> QED
    BY <2>4, <2>5
<1>2. g = F(g)
  <2>1. \A x \in HObject : PathOf(nx, x, P(x))
    OBVIOUS
  <2> HIDE DEF P
  <2>2. ASSUME NEW x \in HObject
        PROVE  P(x)[Len(P(x))] = IF nx[x] = NoObject THEN x ELSE P(nx[x])[Len(P(nx[x]))]
    <3>1. PICK u : u = P(x)
      OBVIOUS
    <3>2. PathOf(nx, x, u)
      BY <2>1, <3>1
    <3>3. CASE nx[x] = NoObject
      BY <1>1, <3>1, <3>2, <3>3
    <3>4. CASE nx[x] # NoObject
      <4>1. nx[x] \in HObject /\ PathOf(nx, nx[x], Tail(u))
            /\ Tail(u)[Len(Tail(u))] = u[Len(u)]
        BY <1>1, <3>2, <3>4
      <4>2. P(nx[x]) = Tail(u)
        BY <2>1, <4>1, OnePath
      <4> QED
        BY <3>1, <3>4, <4>1, <4>2
    <3> QED
      BY <3>3, <3>4
  <2>3. ASSUME NEW x \in HObject
        PROVE  g[x] = IF nx[x] = NoObject THEN x ELSE g[nx[x]]
    <3>1. nx[x] # NoObject => nx[x] \in HObject
      BY DEF Ends
    <3> QED
      BY <2>2, <3>1
  <2>4. g = [x \in HObject |-> g[x]]
    OBVIOUS
  <2> HIDE DEF g
  <2> QED
    BY <2>3, <2>4
<1>3. PICK f : f = Lasting(nx)
  OBVIOUS
<1>4. f = F(f)
  <2> HIDE DEF g
  <2> QED
    BY <1>2, <1>3 DEF Lasting
<1>5. \A x \in HObject : f[x] = IF nx[x] = NoObject THEN x ELSE f[nx[x]]
  BY <1>4
<1> HIDE DEF F, P, g
<1> DEFINE T == {n \in Nat : \A x \in HObject : \A u :
                               PathOf(nx, x, u) /\ Len(u) = n + 1 => f[x] = u[Len(u)]}
<1>6. 0 \in T
  <2>1. ASSUME NEW x \in HObject, NEW u, PathOf(nx, x, u), Len(u) = 0 + 1
        PROVE  f[x] = u[Len(u)]
    <3>1. nx[x] = NoObject
      BY <2>1, PathEnd
    <3> QED
      BY <1>1, <1>5, <2>1, <3>1
  <2> QED
    BY <2>1
<1>7. ASSUME NEW n \in T PROVE n + 1 \in T
  <2>1. ASSUME NEW x \in HObject, NEW u, PathOf(nx, x, u), Len(u) = n + 1 + 1
        PROVE f[x] = u[Len(u)]
    <3>1. n \in Nat /\ n + 1 + 1 # 1 /\ n + 1 + 1 - 1 = n + 1
      OBVIOUS
    <3>2. nx[x] # NoObject
      <4> HIDE DEF T
      <4> QED
        BY <2>1, <3>1, PathEnd
    <3>3. /\ nx[x] \in HObject /\ PathOf(nx, nx[x], Tail(u)) /\ Len(Tail(u)) = n + 1
          /\ Tail(u)[Len(Tail(u))] = u[Len(u)]
      <4> HIDE DEF T
      <4> QED
        BY <1>1, <2>1, <3>1, <3>2
    <3>4. f[nx[x]] = Tail(u)[Len(Tail(u))]
      BY <3>3
    <3> HIDE DEF T
    <3> QED
      BY <1>5, <3>2, <3>3, <3>4
  <2> QED
    BY <2>1
<1>8. T = Nat
  <2> HIDE DEF T
  <2>1. T \in SUBSET Nat
    BY DEF T
  <2> QED
    BY <1>6, <1>7, <2>1, EveryNumber
<1>9. PICK n \in Nat : Len(s) = n + 1
  <2>1. Len(s) \in Nat \ {0}
    BY PathHead
  <2>2. Len(s) - 1 \in Nat /\ Len(s) = Len(s) - 1 + 1
    BY <2>1
  <2> QED
    BY <2>2
<1>10. n \in T
  BY <1>8
<1> QED
  BY <1>3, <1>9, <1>10

\* Links that change elsewhere leave a path alone.
LEMMA SamePath ==
  ASSUME NEW nx, NEW n2, NEW o, NEW s, PathOf(nx, o, s),
         \A i \in 1 .. Len(s) : n2[s[i]] = nx[s[i]]
  PROVE  PathOf(n2, o, s)
  BY DEF PathOf

LEMMA SuffixPath ==
  ASSUME NEW nx, NEW o, NEW s, PathOf(nx, o, s), NEW i \in 1 .. Len(s)
  PROVE  PathOf(nx, s[i], SubSeq(s, i, Len(s)))
<1>1. PICK n \in Nat : n = Len(s) /\ i \in 1 .. n /\ s \in Seq(HObject)
  BY DEF PathOf
<1>2. PICK u : u = SubSeq(s, i, n)
  OBVIOUS
<1>3. u \in Seq(HObject) /\ Len(u) = n - i + 1
      /\ \A k \in 1 .. n - i + 1 : u[k] = s[i + k - 1]
  BY <1>1, <1>2
<1>4. ASSUME NEW k \in 1 .. n - i + 1
      PROVE  nx[u[k]] = IF k = n - i + 1 THEN NoObject ELSE u[k + 1]
  <2>1. PICK m \in 1 .. n : m = i + k - 1
    BY <1>1
  <2>2. nx[s[m]] = IF m = n THEN NoObject ELSE s[m + 1]
    BY <1>1 DEF PathOf
  <2>3. m = n <=> k = n - i + 1
    BY <1>1, <2>1
  <2>4. u[k] = s[m]
    BY <1>3, <2>1
  <2>5. k # n - i + 1 => u[k + 1] = s[m + 1]
    <3>1. ASSUME k # n - i + 1 PROVE k + 1 \in 1 .. n - i + 1 /\ i + (k + 1) - 1 = m + 1
      BY <1>1, <2>1, <3>1
    <3> QED
      BY SMTT(30), <1>3, <3>1
  <2> QED
    BY <2>2, <2>3, <2>4, <2>5
<1>5. u[1] = s[i]
  BY <1>1, <1>3
<1>6. PICK m \in Nat \ {0} : m = n - i + 1
  BY <1>1
<1>7. PathOf(nx, s[i], u)
  BY <1>3, <1>4, <1>5, <1>6 DEF PathOf
<1> QED
  BY <1>1, <1>2, <1>7

(***************************************************************************)
(* The free list and the chains.                                           *)
(***************************************************************************)

\* No object is in two hands, on two lists or at two places of one.
Apart(held, F, C) ==
  /\ \A i, j \in 1 .. Len(F) : F[i] = F[j] => i = j
  /\ \A t, u \in HTable, b, c \in HBucket :
       \A i \in 1 .. Len(C[t][b]), j \in 1 .. Len(C[u][c]) :
         C[t][b][i] = C[u][c][j] => t = u /\ b = c /\ i = j
  /\ \A i \in 1 .. Len(F), t \in HTable, b \in HBucket :
       \A j \in 1 .. Len(C[t][b]) : F[i] # C[t][b][j]
  /\ \A p, q \in HUser : \A o \in held[p] :
       /\ o \in held[q] => p = q
       /\ \A i \in 1 .. Len(F) : F[i] # o
       /\ \A t \in HTable, b \in HBucket : \A j \in 1 .. Len(C[t][b]) : C[t][b][j] # o

\* Every object is somewhere.
Covered(held, F, C) ==
  \A o \in HObject :
    \/ \E i \in 1 .. Len(F) : F[i] = o
    \/ \E t \in HTable, b \in HBucket : \E j \in 1 .. Len(C[t][b]) : C[t][b][j] = o
    \/ \E p \in HUser : o \in held[p]

\* With links nx the free list from top is F, the chains from hd are C, and
\* what the processes hold hangs on nothing.
ListsOf(top, len, nx, hd, held, F, C) ==
  /\ nx \in [HObject -> Ends]
  /\ held \in [HUser -> SUBSET HObject]
  /\ F \in Seq(HObject)
  /\ C \in [HTable -> [HBucket -> Seq(HObject)]]
  /\ PathOf(nx, top, F) /\ len = Len(F)
  /\ \A t \in HTable, b \in HBucket : PathOf(nx, hd[t][b], C[t][b])
  /\ \A p \in HUser : \A o \in held[p] : nx[o] = NoObject
  /\ Apart(held, F, C)
  /\ Covered(held, F, C)

\* There every object has a path.
LEMMA AllOnPaths ==
  ASSUME NEW top, NEW len, NEW nx, NEW hd, NEW held, NEW F, NEW C,
         ListsOf(top, len, nx, hd, held, F, C), NEW o \in HObject
  PROVE  \E s : PathOf(nx, o, s)
<1>1. CASE \E i \in 1 .. Len(F) : F[i] = o
  BY <1>1, SuffixPath DEF ListsOf
<1>2. CASE \E t \in HTable, b \in HBucket : \E j \in 1 .. Len(C[t][b]) : C[t][b][j] = o
  BY <1>2, SuffixPath DEF ListsOf
<1>3. CASE \E p \in HUser : o \in held[p]
  <2>1. nx[o] = NoObject
    BY <1>3 DEF ListsOf
  <2>2. PathOf(nx, o, <<o>>)
    BY <2>1 DEF PathOf
  <2> QED
    BY <2>2
<1> QED
  BY <1>1, <1>2, <1>3 DEF ListsOf, Covered

LEMMA ListsListed ==
  ASSUME NEW top, NEW len, NEW nx, NEW hd, NEW held, NEW F, NEW C,
         ListsOf(top, len, nx, hd, held, F, C)
  PROVE  /\ Listing(nx)[top] = F
         /\ \A t \in HTable, b \in HBucket : Listing(nx)[hd[t][b]] = C[t][b]
<1>1. nx \in [HObject -> Ends]
  BY DEF ListsOf
<1>2. \A o \in HObject : \E s : PathOf(nx, o, s)
  BY AllOnPaths
<1>3. \A o, s : PathOf(nx, o, s) => o \in Ends
  BY DEF PathOf, Ends
<1>4. \A o, s : PathOf(nx, o, s) => Listing(nx)[o] = s
  BY <1>1, <1>2, <1>3, ListingIs
<1> QED
  BY <1>4 DEF ListsOf

\* The lists after each operation: an object o leaves or enters the free
\* list, hangs in bucket b of t, or goes back from it.
Popped(top, len, nx, hd, held, F, C, p) ==
  /\ top \in HObject /\ F # <<>> /\ ToSet(Tail(F)) = ToSet(F) \ {top} /\ top \in ToSet(F)
  /\ ListsOf(nx[top], len - 1, [nx EXCEPT ![top] = NoObject], hd,
             [held EXCEPT ![p] = {top}], Tail(F), C)

PushedBack(top, len, nx, hd, held, F, C, p, o) ==
  /\ ToSet(<<o>> \o F) = ToSet(F) \cup {o}
  /\ ListsOf(o, len + 1, [nx EXCEPT ![o] = top], hd, [held EXCEPT ![p] = {}], <<o>> \o F, C)

HangsAt(nx, hd, t, b, o, n2, hd2) ==
  IF hd[t][b] = NoObject
  THEN n2 = nx /\ hd2 = [hd EXCEPT ![t][b] = o]
  ELSE n2 = [nx EXCEPT ![Lasting(nx)[hd[t][b]]] = o] /\ hd2 = hd

Hung(top, len, n2, hd2, held, F, C, p, t, b, o) ==
  ListsOf(top, len, n2, hd2, [held EXCEPT ![p] = {}], F, [C EXCEPT ![t][b] = Append(@, o)])

Released(top, len, nx, hd2, held, F, C, t, b, o) ==
  /\ C[t][b] # <<>> /\ Head(C[t][b]) = o
  /\ ToSet(<<o>> \o F) = ToSet(F) \cup {o}
  /\ ListsOf(o, len + 1, [nx EXCEPT ![o] = top], hd2, held, <<o>> \o F,
             [C EXCEPT ![t][b] = Tail(@)])

LEMMA ListsPop ==
  ASSUME NEW top, NEW len, NEW nx, NEW hd, NEW held, NEW F, NEW C,
         ListsOf(top, len, nx, hd, held, F, C), top # NoObject,
         NEW p \in HUser, held[p] = {}
  PROVE  Popped(top, len, nx, hd, held, F, C, p)
<1> DEFINE n2 == [nx EXCEPT ![top] = NoObject]
           held2 == [held EXCEPT ![p] = {top}]
<1>1. top \in HObject
  BY DEF ListsOf, PathOf
<1>2. /\ nx \in [HObject -> Ends] /\ held \in [HUser -> SUBSET HObject]
      /\ F \in Seq(HObject) /\ C \in [HTable -> [HBucket -> Seq(HObject)]]
      /\ PathOf(nx, top, F) /\ len = Len(F)
  BY DEF ListsOf
<1>3. PICK n \in Nat \ {0} : n = Len(F) /\ top = F[1]
  BY <1>1, <1>2, PathHead
<1>4. PICK F2 : F2 = Tail(F)
  OBVIOUS
<1>5. /\ F2 \in Seq(HObject) /\ Len(F2) = n - 1
      /\ \A i \in 1 .. n - 1 : F2[i] = F[i + 1] /\ i + 1 \in 1 .. n
  BY <1>2, <1>3, <1>4
<1>6. \A i \in 1 .. n - 1 : F2[i] # top
  BY <1>2, <1>3, <1>5 DEF ListsOf, Apart
<1>7. PathOf(nx, nx[top], F2)
  BY <1>1, <1>2, <1>4, PathTail
<1>8. n2 \in [HObject -> Ends] /\ held2 \in [HUser -> SUBSET HObject]
  BY <1>1, <1>2 DEF Ends
<1>9. \A o \in HObject : o # top => n2[o] = nx[o]
  BY <1>2
<1>10. n2[top] = NoObject
  BY <1>1, <1>2
<1> HIDE DEF n2
<1>11. PathOf(n2, nx[top], F2)
  <2>1. \A i \in 1 .. Len(F2) : F2[i] \in HObject /\ F2[i] # top
    BY <1>5, <1>6
  <2> QED
    BY <1>7, <1>9, <2>1, SamePath
<1>12. \A t \in HTable, b \in HBucket : PathOf(n2, hd[t][b], C[t][b])
  <2> SUFFICES ASSUME NEW t \in HTable, NEW b \in HBucket PROVE PathOf(n2, hd[t][b], C[t][b])
    OBVIOUS
  <2>1. C[t][b] \in Seq(HObject) /\ PathOf(nx, hd[t][b], C[t][b])
    BY <1>2 DEF ListsOf
  <2>2. \A i \in 1 .. Len(C[t][b]) : C[t][b][i] \in HObject
    BY <2>1
  <2>3. \A i \in 1 .. Len(C[t][b]) : C[t][b][i] # top
    BY <1>3 DEF ListsOf, Apart
  <2> QED
    BY <1>9, <2>1, <2>2, <2>3, SamePath
<1>13. \A q \in HUser : \A o \in held2[q] : n2[o] = NoObject
  BY <1>2, <1>9, <1>10 DEF ListsOf
<1>14. Apart(held2, F2, C)
  <2>1. \A i, j \in 1 .. Len(F2) : F2[i] = F2[j] => i = j
    BY <1>2, <1>3, <1>5 DEF ListsOf, Apart
  <2>2. \A i \in 1 .. Len(F2), t \in HTable, b \in HBucket :
          \A j \in 1 .. Len(C[t][b]) : F2[i] # C[t][b][j]
    BY <1>3, <1>5 DEF ListsOf, Apart
  <2>3. ASSUME NEW q \in HUser, NEW r \in HUser, NEW o \in held2[q]
        PROVE  /\ o \in held2[r] => q = r
               /\ \A i \in 1 .. Len(F2) : F2[i] # o
               /\ \A t \in HTable, b \in HBucket : \A j \in 1 .. Len(C[t][b]) : C[t][b][j] # o
    <3>1. \A q2 \in HUser : \A x \in held[q2] : x # top
      BY <1>3 DEF ListsOf, Apart
    <3>2. \A t \in HTable, b \in HBucket : \A j \in 1 .. Len(C[t][b]) : C[t][b][j] # top
      BY <1>3 DEF ListsOf, Apart
    <3>3. CASE q = p
      BY <1>2, <1>5, <1>6, <2>3, <3>1, <3>2, <3>3
    <3>4. CASE q # p
      <4>1. o \in held[q] /\ o # top
        BY <1>2, <2>3, <3>1, <3>4
      <4>2. \A i \in 1 .. Len(F2) : F2[i] # o
        BY <1>3, <1>5, <4>1 DEF ListsOf, Apart
      <4> QED
        BY <1>2, <4>1, <4>2 DEF ListsOf, Apart
    <3> QED
      BY <3>3, <3>4
  <2> HIDE DEF held2
  <2> QED
    BY <2>1, <2>2, <2>3 DEF ListsOf, Apart
<1>15. Covered(held2, F2, C)
  <2> SUFFICES ASSUME NEW o \in HObject, \A i \in 1 .. Len(F2) : F2[i] # o,
                      \A q \in HUser : o \notin held2[q]
               PROVE  \E t \in HTable, b \in HBucket : \E j \in 1 .. Len(C[t][b]) : C[t][b][j] = o
    BY DEF Covered
  <2>1. o # top
    BY <1>2
  <2>2. \A q \in HUser : o \notin held[q]
    BY <1>2
  <2>3. \A i \in 1 .. Len(F) : F[i] # o
    <3> SUFFICES ASSUME NEW i \in 1 .. n, F[i] = o PROVE FALSE
      BY <1>3
    <3>1. i # 1
      BY <1>3, <2>1
    <3>2. i - 1 \in 1 .. n - 1 /\ i - 1 + 1 = i
      BY <3>1
    <3> QED
      BY <1>5, <3>2
  <2> QED
    BY <2>2, <2>3 DEF ListsOf, Covered
<1>16. ToSet(F2) = ToSet(F) \ {top} /\ top \in ToSet(F)
  <2>1. DOMAIN F = 1 .. n /\ DOMAIN F2 = 1 .. n - 1
    BY <1>2, <1>3, <1>5
  <2>2. \A i \in 1 .. n : i # 1 => i - 1 \in 1 .. n - 1 /\ F2[i - 1] = F[i]
    BY <1>5
  <2>3. 1 \in 1 .. n
    OBVIOUS
  <2>4. \A x : x \in ToSet(F) <=> \E i \in 1 .. n : x = F[i]
    BY <2>1 DEF ToSet
  <2>5. \A x : x \in ToSet(F2) <=> \E i \in 1 .. n - 1 : x = F2[i]
    BY <2>1 DEF ToSet
  <2>6. \A x : x \in ToSet(F2) => x \in ToSet(F) /\ x # top
    BY <1>5, <1>6, <2>4, <2>5
  <2>7. \A x : x \in ToSet(F) /\ x # top => x \in ToSet(F2)
    BY <1>3, <2>2, <2>4, <2>5
  <2>8. top \in ToSet(F)
    BY <1>3, <2>3, <2>4
  <2> QED
    BY <2>6, <2>7, <2>8
<1>17. len - 1 = Len(F2)
  BY <1>2, <1>3, <1>5
<1> HIDE DEF held2
<1>18. ListsOf(nx[top], len - 1, n2, hd, held2, F2, C)
  BY <1>2, <1>5, <1>8, <1>11, <1>12, <1>13, <1>14, <1>15, <1>17 DEF ListsOf
<1> QED
  BY <1>1, <1>3, <1>2, <1>4, <1>16, <1>18 DEF n2, held2, Popped

\* Pushing an object that a process holds.
LEMMA ListsPush ==
  ASSUME NEW top, NEW len, NEW nx, NEW hd, NEW held, NEW F, NEW C,
         ListsOf(top, len, nx, hd, held, F, C), NEW p \in HUser, NEW o, held[p] = {o}
  PROVE  PushedBack(top, len, nx, hd, held, F, C, p, o)
<1> DEFINE n2 == [nx EXCEPT ![o] = top]
           held2 == [held EXCEPT ![p] = {}]
<1>1. o \in HObject /\ o \in held[p]
  BY DEF ListsOf
<1>2. /\ nx \in [HObject -> Ends] /\ held \in [HUser -> SUBSET HObject]
      /\ F \in Seq(HObject) /\ C \in [HTable -> [HBucket -> Seq(HObject)]]
      /\ PathOf(nx, top, F) /\ len = Len(F)
  BY DEF ListsOf
<1>3. PICK n \in Nat : n = Len(F)
  BY <1>2
<1>4. PICK F2 : F2 = <<o>> \o F
  OBVIOUS
<1>5. /\ F2 \in Seq(HObject) /\ Len(F2) = n + 1 /\ F2[1] = o
      /\ \A i \in 1 .. n : F2[i + 1] = F[i]
  BY <1>1, <1>2, <1>3, <1>4
<1>6. \A i \in 2 .. n + 1 : i - 1 \in 1 .. n /\ F2[i] = F[i - 1]
  BY <1>5
<1>7. \A i \in 1 .. n : F[i] # o
  BY <1>1, <1>3 DEF ListsOf, Apart
<1>8. top \in Ends /\ n2 \in [HObject -> Ends] /\ held2 \in [HUser -> SUBSET HObject]
  BY <1>1, <1>2 DEF Ends, PathOf
<1>9. \A x \in HObject : x # o => n2[x] = nx[x]
  BY <1>2
<1>10. n2[o] = top
  BY <1>1, <1>2
<1> HIDE DEF n2
<1>11. PathOf(n2, o, F2)
  <2>1. \A i \in 1 .. Len(F) : F[i] \in HObject /\ F[i] # o
    BY <1>2, <1>3, <1>7
  <2>2. PathOf(n2, top, F)
    BY <1>2, <1>9, <2>1, SamePath
  <2> QED
    BY <1>1, <1>4, <1>10, <2>2, PathCons
<1>12. \A t \in HTable, b \in HBucket : PathOf(n2, hd[t][b], C[t][b])
  <2> SUFFICES ASSUME NEW t \in HTable, NEW b \in HBucket PROVE PathOf(n2, hd[t][b], C[t][b])
    OBVIOUS
  <2>1. C[t][b] \in Seq(HObject) /\ PathOf(nx, hd[t][b], C[t][b])
    BY <1>2 DEF ListsOf
  <2>2. \A i \in 1 .. Len(C[t][b]) : C[t][b][i] \in HObject
    BY <2>1
  <2>3. \A i \in 1 .. Len(C[t][b]) : C[t][b][i] # o
    <3>1. \A u \in HTable, c \in HBucket : \A j \in 1 .. Len(C[u][c]) : C[u][c][j] # o
      BY <1>1 DEF ListsOf, Apart
    <3> QED
      BY <3>1
  <2> QED
    BY <1>9, <2>1, <2>2, <2>3, SamePath
<1>13. \A q \in HUser : held2[q] = IF q = p THEN {} ELSE held[q]
  BY <1>2
<1>14. \A q \in HUser : \A x \in held2[q] : x \in held[q] /\ x # o /\ q # p
  BY <1>1, <1>13 DEF ListsOf, Apart
<1> HIDE DEF held2
<1>15. \A q \in HUser : \A x \in held2[q] : n2[x] = NoObject
  <2>1. \A q \in HUser : \A x \in held2[q] : x \in HObject /\ nx[x] = NoObject
    BY <1>2, <1>14 DEF ListsOf
  <2> QED
    BY <1>9, <1>14, <2>1
<1>16. Apart(held2, F2, C)
  <2>1. \A i, j \in 1 .. n + 1 : F2[i] = F2[j] => i = j
    <3> SUFFICES ASSUME NEW i \in 1 .. n + 1, NEW j \in 1 .. n + 1, F2[i] = F2[j] PROVE i = j
      OBVIOUS
    <3>1. \A k, m \in 1 .. n : F[k] = F[m] => k = m
      BY <1>3 DEF ListsOf, Apart
    <3>2. CASE i = 1 /\ j = 1
      BY <3>2
    <3>3. CASE i # 1 /\ j # 1
      <4>1. i \in 2 .. n + 1 /\ j \in 2 .. n + 1
        BY <3>3
      <4>2. i - 1 = j - 1
        BY <1>6, <3>1, <4>1
      <4> QED
        BY <4>1, <4>2
    <3>4. CASE (i = 1) # (j = 1)
      <4>1. \A k \in 1 .. n + 1 : k # 1 => k \in 2 .. n + 1
        OBVIOUS
      <4>2. \A k \in 1 .. n + 1 : k # 1 => F2[k] # o
        BY <1>6, <1>7, <4>1
      <4> QED
        BY <1>5, <3>4, <4>2
    <3> QED
      BY <3>2, <3>3, <3>4
  <2>2. \A i \in 1 .. n + 1 : F2[i] = o \/ \E k \in 1 .. n : F2[i] = F[k]
    <3>1. \A i \in 1 .. n + 1 : i = 1 \/ i \in 2 .. n + 1
      OBVIOUS
    <3> QED
      BY <1>5, <1>6, <3>1
  <2>3. \A i \in 1 .. n + 1, t \in HTable, b \in HBucket :
          \A j \in 1 .. Len(C[t][b]) : F2[i] # C[t][b][j]
    <3>1. \A t \in HTable, b \in HBucket : \A j \in 1 .. Len(C[t][b]) : C[t][b][j] # o
      BY <1>1 DEF ListsOf, Apart
    <3>2. \A k \in 1 .. n, t \in HTable, b \in HBucket :
            \A j \in 1 .. Len(C[t][b]) : F[k] # C[t][b][j]
      BY <1>3 DEF ListsOf, Apart
    <3> QED
      BY <2>2, <3>1, <3>2
  <2>4. ASSUME NEW q \in HUser, NEW r \in HUser, NEW x \in held2[q]
        PROVE  /\ x \in held2[r] => q = r
               /\ \A i \in 1 .. n + 1 : F2[i] # x
               /\ \A t \in HTable, b \in HBucket : \A j \in 1 .. Len(C[t][b]) : C[t][b][j] # x
    <3>1. x \in held[q] /\ x # o
      BY <1>14
    <3>2. \A k \in 1 .. n : F[k] # x
      BY <1>3, <3>1 DEF ListsOf, Apart
    <3>3. \A i \in 1 .. n + 1 : F2[i] # x
      BY <2>2, <3>1, <3>2
    <3>4. x \in held2[r] => q = r
      BY <1>14, <3>1 DEF ListsOf, Apart
    <3> QED
      BY <3>1, <3>3, <3>4 DEF ListsOf, Apart
  <2>5. \A t, u \in HTable, b, c \in HBucket :
          \A i \in 1 .. Len(C[t][b]), j \in 1 .. Len(C[u][c]) :
            C[t][b][i] = C[u][c][j] => t = u /\ b = c /\ i = j
    BY DEF ListsOf, Apart
  <2> QED
    BY <1>5, <2>1, <2>3, <2>4, <2>5 DEF Apart
<1>17. Covered(held2, F2, C)
  <2> SUFFICES ASSUME NEW x \in HObject, \A i \in 1 .. n + 1 : F2[i] # x,
                      \A q \in HUser : x \notin held2[q]
               PROVE  \E t \in HTable, b \in HBucket : \E j \in 1 .. Len(C[t][b]) : C[t][b][j] = x
    BY <1>5 DEF Covered
  <2>1. 1 \in 1 .. n + 1 /\ \A i \in 1 .. n : i + 1 \in 1 .. n + 1
    OBVIOUS
  <2>2. x # o /\ \A i \in 1 .. Len(F) : F[i] # x
    BY <1>3, <1>5, <2>1
  <2>3. \A q \in HUser : x \notin held[q]
    BY <1>13, <2>2
  <2> QED
    BY <2>2, <2>3 DEF ListsOf, Covered
<1>18. ToSet(F2) = ToSet(F) \cup {o}
  <2>1. DOMAIN F = 1 .. n /\ DOMAIN F2 = 1 .. n + 1
    BY <1>2, <1>3, <1>5
  <2>2. \A x : x \in ToSet(F) <=> \E i \in 1 .. n : x = F[i]
    BY <2>1 DEF ToSet
  <2>3. \A x : x \in ToSet(F2) <=> \E i \in 1 .. n + 1 : x = F2[i]
    BY <2>1 DEF ToSet
  <2>4. 1 \in 1 .. n + 1 /\ \A i \in 1 .. n : i + 1 \in 1 .. n + 1
    OBVIOUS
  <2>5. \A i \in 1 .. n + 1 : i = 1 \/ i \in 2 .. n + 1
    OBVIOUS
  <2>6. \A x : x \in ToSet(F2) => x \in ToSet(F) \/ x = o
    BY <1>5, <1>6, <2>2, <2>3, <2>5
  <2>7. \A x : x \in ToSet(F) \/ x = o => x \in ToSet(F2)
    BY SMTT(30), <1>5, <2>2, <2>3, <2>4
  <2> QED
    BY <2>6, <2>7
<1>19. len + 1 = Len(F2)
  BY <1>2, <1>3, <1>5
<1>20. ListsOf(o, len + 1, n2, hd, held2, F2, C)
  BY <1>2, <1>5, <1>8, <1>11, <1>12, <1>15, <1>16, <1>17, <1>19 DEF ListsOf
<1> QED
  BY <1>4, <1>18, <1>20 DEF n2, held2, PushedBack

\* Hanging an object that a process holds at the end of a chain.
LEMMA ListsHang ==
  ASSUME NEW top, NEW len, NEW nx, NEW hd, NEW held, NEW F, NEW C,
         ListsOf(top, len, nx, hd, held, F, C), NEW p \in HUser, NEW o, held[p] = {o},
         NEW t \in HTable, NEW b \in HBucket, hd \in [HTable -> [HBucket -> Ends]],
         NEW n2, NEW hd2, HangsAt(nx, hd, t, b, o, n2, hd2)
  PROVE  Hung(top, len, n2, hd2, held, F, C, p, t, b, o)
<1>0. IF hd[t][b] = NoObject
      THEN n2 = nx /\ hd2 = [hd EXCEPT ![t][b] = o]
      ELSE n2 = [nx EXCEPT ![Lasting(nx)[hd[t][b]]] = o] /\ hd2 = hd
  BY DEF HangsAt
<1>1. o \in HObject /\ o \in held[p] /\ nx[o] = NoObject
  BY DEF ListsOf
<1>2. /\ nx \in [HObject -> Ends] /\ held \in [HUser -> SUBSET HObject]
      /\ F \in Seq(HObject) /\ C \in [HTable -> [HBucket -> Seq(HObject)]]
      /\ PathOf(nx, top, F) /\ len = Len(F)
  BY DEF ListsOf
<1>3. PICK s \in Seq(HObject) : s = C[t][b]
  BY <1>2
<1>4. PathOf(nx, hd[t][b], s)
  BY <1>3 DEF ListsOf
<1>5. PICK n \in Nat : n = Len(s)
  BY <1>3
<1>6. PICK s2 : s2 = Append(s, o)
  OBVIOUS
<1>7. /\ s2 \in Seq(HObject) /\ Len(s2) = n + 1 /\ s2[n + 1] = o
      /\ \A i \in 1 .. n : s2[i] = s[i]
  BY <1>1, <1>3, <1>5, <1>6
<1>8. PICK C2 : C2 = [C EXCEPT ![t][b] = Append(@, o)]
  OBVIOUS
<1>9. /\ C2 \in [HTable -> [HBucket -> Seq(HObject)]]
      /\ \A u \in HTable, c \in HBucket :
           C2[u][c] = IF u = t /\ c = b THEN s2 ELSE C[u][c]
  BY <1>1, <1>2, <1>3, <1>6, <1>7, <1>8
<1>10. PICK held2 : held2 = [held EXCEPT ![p] = {}]
  OBVIOUS
<1>11. held2 \in [HUser -> SUBSET HObject]
       /\ \A q \in HUser : held2[q] = IF q = p THEN {} ELSE held[q]
  BY <1>2, <1>10
<1>12. \A q \in HUser : \A x \in held2[q] : x \in held[q] /\ x # o /\ q # p
  BY <1>1, <1>11 DEF ListsOf, Apart
<1>13. /\ \A i \in 1 .. Len(F) : F[i] # o
       /\ \A u \in HTable, c \in HBucket : \A j \in 1 .. Len(C[u][c]) : C[u][c][j] # o
  BY <1>1 DEF ListsOf, Apart
\* Only the last object of the chain, if there is one, gets another link.
<1>14. /\ n2 \in [HObject -> Ends]
       /\ n = 0 => n2 = nx
       /\ n # 0 => n2[s[n]] = o /\ \A x \in HObject : x # s[n] => n2[x] = nx[x]
  <2>1. CASE n = 0
    <3>1. hd[t][b] = NoObject
      BY <1>4, <1>5, <2>1 DEF PathOf
    <3> QED
      BY <1>0, <1>2, <2>1, <3>1
  <2>2. CASE n # 0
    <3>1. hd[t][b] # NoObject /\ hd[t][b] \in HObject
      BY <1>3, <1>4, <1>5, <2>2, HashAssumption DEF PathOf
    <3>2. \A x \in HObject : \E u : PathOf(nx, x, u)
      BY AllOnPaths
    <3>3. Lasting(nx)[hd[t][b]] = s[n]
      BY <1>2, <1>4, <1>5, <3>1, <3>2, LastingIs
    <3>4. s[n] \in HObject
      BY <1>3, <1>5, <2>2
    <3>5. n2 = [nx EXCEPT ![s[n]] = o]
      BY <1>0, <3>1, <3>3
    <3> QED
      BY <1>1, <1>2, <2>2, <3>4, <3>5 DEF Ends
  <2> QED
    BY <2>1, <2>2
<1>15. hd2 \in [HTable -> [HBucket -> Ends]]
       /\ \A u \in HTable, c \in HBucket :
            hd2[u][c] = IF u = t /\ c = b /\ hd[t][b] = NoObject THEN o ELSE hd[u][c]
  BY <1>0, <1>1 DEF Ends
<1>16. PathOf(n2, hd2[t][b], s2)
  <2>1. CASE n = 0
    <3>1. hd[t][b] = NoObject
      BY <1>4, <1>5, <2>1 DEF PathOf
    <3>2. hd2[t][b] = o /\ n2 = nx
      BY <1>14, <1>15, <2>1, <3>1
    <3>3. s2 \in Seq(HObject) /\ Len(s2) = 1 /\ s2[1] = o
      BY <1>7, <2>1
    <3> QED
      BY <1>1, <3>2, <3>3 DEF PathOf
  <2>2. CASE n # 0
    <3>1. hd2[t][b] = s2[1]
      <4>1. 1 \in 1 .. n /\ s[1] \in HObject /\ hd[t][b] = s[1]
        BY <1>3, <1>4, <1>5, <2>2 DEF PathOf
      <4> QED
        BY <1>7, <1>15, <4>1, HashAssumption
    <3>2. ASSUME NEW i \in 1 .. n PROVE n2[s2[i]] = s2[i + 1]
      <4>1. nx[s[i]] = IF i = n THEN NoObject ELSE s[i + 1]
        BY <1>4, <1>5 DEF PathOf
      <4>2. CASE i = n
        BY <1>7, <1>14, <2>2, <4>2
      <4>3. CASE i # n
        <5>1. i + 1 \in 1 .. n /\ n \in 1 .. n
          BY <4>3
        <5>2. s[i] # s[n]
          BY <1>3, <1>5, <4>3, <5>1 DEF ListsOf, Apart
        <5>3. s[i] \in HObject
          BY <1>3, <1>5
        <5> QED
          BY <1>7, <1>14, <2>2, <4>1, <4>3, <5>1, <5>2, <5>3
      <4> QED
        BY <4>2, <4>3
    <3>3. n2[s2[n + 1]] = NoObject
      <4>1. s[n] # o
        BY <1>3, <1>5, <1>13, <2>2
      <4> QED
        BY <1>1, <1>7, <1>14, <2>2, <4>1
    <3>4. \A i \in 1 .. n + 1 : n2[s2[i]] = IF i = n + 1 THEN NoObject ELSE s2[i + 1]
      <4>1. \A i \in 1 .. n + 1 : i = n + 1 \/ (i \in 1 .. n /\ i # n + 1)
        OBVIOUS
      <4> QED
        BY <3>2, <3>3, <4>1
    <3> QED
      BY <1>7, <3>1, <3>4 DEF PathOf
  <2> QED
    BY <2>1, <2>2
<1>17. PathOf(n2, top, F)
  <2>1. \A i \in 1 .. Len(F) : F[i] \in HObject /\ (n # 0 => F[i] # s[n])
    BY <1>2, <1>3, <1>5 DEF ListsOf, Apart
  <2>2. \A i \in 1 .. Len(F) : n2[F[i]] = nx[F[i]]
    BY <1>14, <2>1
  <2> QED
    BY <1>2, <2>2, SamePath
<1>18. ASSUME NEW u \in HTable, NEW c \in HBucket PROVE PathOf(n2, hd2[u][c], C2[u][c])
  <2>1. CASE u = t /\ c = b
    BY <1>9, <1>16, <2>1
  <2>2. CASE ~(u = t /\ c = b)
    <3>1. PathOf(nx, hd[u][c], C[u][c]) /\ C[u][c] \in Seq(HObject)
      BY <1>2 DEF ListsOf
    <3>2. \A i \in 1 .. Len(C[u][c]) : C[u][c][i] \in HObject
      BY <3>1
    <3>3. \A i \in 1 .. Len(C[u][c]) : n # 0 => C[u][c][i] # s[n]
      <4>1. n # 0 => n \in 1 .. Len(C[t][b])
        BY <1>3, <1>5
      <4> QED
        BY <1>3, <2>2, <4>1 DEF ListsOf, Apart
    <3>4. \A i \in 1 .. Len(C[u][c]) : n2[C[u][c][i]] = nx[C[u][c][i]]
      BY <1>14, <3>2, <3>3
    <3>5. PathOf(n2, hd[u][c], C[u][c])
      BY <3>1, <3>4, SamePath
    <3> QED
      BY <1>9, <1>15, <2>2, <3>5
  <2> QED
    BY <2>1, <2>2
<1>19. \A q \in HUser : \A x \in held2[q] : n2[x] = NoObject
  <2>1. \A q \in HUser : \A x \in held2[q] : x \in HObject /\ nx[x] = NoObject
    BY <1>2, <1>12 DEF ListsOf
  <2>2. \A q \in HUser : \A x \in held2[q] : n # 0 => x # s[n]
    <3>1. n # 0 => n \in 1 .. Len(C[t][b]) /\ C[t][b][n] = s[n]
      BY <1>3, <1>5
    <3>2. \A q \in HUser : \A x \in held[q] : \A j \in 1 .. Len(C[t][b]) : C[t][b][j] # x
      BY DEF ListsOf, Apart
    <3> QED
      BY <1>12, <3>1, <3>2
  <2> QED
    BY <1>14, <2>1, <2>2
\* An object of a chain is new at its end or where it was.
<1>20. \A u \in HTable, c \in HBucket : \A i \in 1 .. Len(C2[u][c]) :
         \/ u = t /\ c = b /\ i = n + 1 /\ C2[u][c][i] = o
         \/ i \in 1 .. Len(C[u][c]) /\ C2[u][c][i] = C[u][c][i] /\ C2[u][c][i] # o
  <2> SUFFICES ASSUME NEW u \in HTable, NEW c \in HBucket, NEW i \in 1 .. Len(C2[u][c])
               PROVE  \/ u = t /\ c = b /\ i = n + 1 /\ C2[u][c][i] = o
                      \/ /\ i \in 1 .. Len(C[u][c]) /\ C2[u][c][i] = C[u][c][i]
                         /\ C2[u][c][i] # o
    OBVIOUS
  <2>1. CASE u = t /\ c = b
    <3>1. i \in 1 .. n + 1 /\ C2[u][c] = s2
      BY <1>7, <1>9, <2>1
    <3>2. i = n + 1 \/ i \in 1 .. n
      BY <3>1
    <3> QED
      BY <1>3, <1>5, <1>7, <1>13, <2>1, <3>1, <3>2
  <2>2. CASE ~(u = t /\ c = b)
    BY <1>9, <1>13, <2>2
  <2> QED
    BY <2>1, <2>2
<1>21. Apart(held2, F, C2)
  <2>1. \A u, v \in HTable, c, d \in HBucket :
          \A i \in 1 .. Len(C2[u][c]), j \in 1 .. Len(C2[v][d]) :
            C2[u][c][i] = C2[v][d][j] => u = v /\ c = d /\ i = j
    <3> SUFFICES ASSUME NEW u \in HTable, NEW v \in HTable, NEW c \in HBucket, NEW d \in HBucket,
                        NEW i \in 1 .. Len(C2[u][c]), NEW j \in 1 .. Len(C2[v][d]),
                        C2[u][c][i] = C2[v][d][j]
                 PROVE  u = v /\ c = d /\ i = j
      OBVIOUS
    <3>1. \/ u = t /\ c = b /\ i = n + 1 /\ C2[u][c][i] = o
          \/ i \in 1 .. Len(C[u][c]) /\ C2[u][c][i] = C[u][c][i] /\ C2[u][c][i] # o
      BY <1>20
    <3>2. \/ v = t /\ d = b /\ j = n + 1 /\ C2[v][d][j] = o
          \/ j \in 1 .. Len(C[v][d]) /\ C2[v][d][j] = C[v][d][j] /\ C2[v][d][j] # o
      BY <1>20
    <3>3. CASE C2[u][c][i] = o
      <4>1. u = t /\ c = b /\ i = n + 1
        BY <3>1, <3>3
      <4>2. v = t /\ d = b /\ j = n + 1
        BY <3>2, <3>3
      <4> QED
        BY <4>1, <4>2
    <3>4. CASE C2[u][c][i] # o
      <4>1. \A v1, v2 \in HTable, c1, c2 \in HBucket :
              \A k \in 1 .. Len(C[v1][c1]), l \in 1 .. Len(C[v2][c2]) :
                C[v1][c1][k] = C[v2][c2][l] => v1 = v2 /\ c1 = c2 /\ k = l
        BY DEF ListsOf, Apart
      <4>2. i \in 1 .. Len(C[u][c]) /\ C2[u][c][i] = C[u][c][i]
        BY <3>1, <3>4
      <4>3. j \in 1 .. Len(C[v][d]) /\ C2[v][d][j] = C[v][d][j]
        BY <3>2, <3>4
      <4>4. C[u][c][i] = C[v][d][j]
        BY <4>2, <4>3
      <4> QED
        BY <4>1, <4>2, <4>3, <4>4
    <3> QED
      BY <3>3, <3>4
  <2>2. \A i \in 1 .. Len(F), u \in HTable, c \in HBucket :
          \A j \in 1 .. Len(C2[u][c]) : F[i] # C2[u][c][j]
    BY <1>13, <1>20 DEF ListsOf, Apart
  <2>3. ASSUME NEW q \in HUser, NEW r \in HUser, NEW x \in held2[q]
        PROVE  /\ x \in held2[r] => q = r
               /\ \A i \in 1 .. Len(F) : F[i] # x
               /\ \A u \in HTable, c \in HBucket : \A j \in 1 .. Len(C2[u][c]) : C2[u][c][j] # x
    <3>1. x \in held[q] /\ x # o
      BY <1>12
    <3>2. x \in held2[r] => x \in held[r]
      BY <1>12
    <3>3. /\ x \in held[r] => q = r
          /\ \A i \in 1 .. Len(F) : F[i] # x
          /\ \A u \in HTable, c \in HBucket : \A j \in 1 .. Len(C[u][c]) : C[u][c][j] # x
      BY <3>1 DEF ListsOf, Apart
    <3>4. ASSUME NEW u \in HTable, NEW c \in HBucket, NEW j \in 1 .. Len(C2[u][c])
          PROVE  C2[u][c][j] # x
      <4>1. \/ C2[u][c][j] = o
            \/ j \in 1 .. Len(C[u][c]) /\ C2[u][c][j] = C[u][c][j]
        BY <1>20
      <4> QED
        BY <3>1, <3>3, <4>1
    <3> QED
      BY <3>2, <3>3, <3>4
  <2>4. \A i, j \in 1 .. Len(F) : F[i] = F[j] => i = j
    BY DEF ListsOf, Apart
  <2> QED
    BY <2>1, <2>2, <2>3, <2>4 DEF Apart
<1>22. Covered(held2, F, C2)
  <2> SUFFICES ASSUME NEW x \in HObject, \A i \in 1 .. Len(F) : F[i] # x,
                      \A q \in HUser : x \notin held2[q]
               PROVE  \E u \in HTable, c \in HBucket : \E j \in 1 .. Len(C2[u][c]) : C2[u][c][j] = x
    BY DEF Covered
  <2>1. CASE x = o
    <3>1. n + 1 \in 1 .. Len(C2[t][b]) /\ C2[t][b][n + 1] = o
      BY <1>7, <1>9
    <3> QED
      BY <2>1, <3>1
  <2>2. CASE x # o
    <3>1. \A q \in HUser : x \notin held[q]
      BY <1>11, <2>2
    <3>2. PICK u \in HTable, c \in HBucket : \E j \in 1 .. Len(C[u][c]) : C[u][c][j] = x
      BY <3>1 DEF ListsOf, Covered
    <3>3. PICK j \in 1 .. Len(C[u][c]) : C[u][c][j] = x
      BY <3>2
    <3>4. j \in 1 .. Len(C2[u][c]) /\ C2[u][c][j] = x
      <4>1. CASE u = t /\ c = b
        <5>1. j \in 1 .. n /\ 1 .. n \subseteq 1 .. n + 1
          BY <1>3, <1>5, <4>1
        <5> QED
          BY <1>3, <1>7, <1>9, <3>3, <4>1, <5>1
      <4>2. CASE ~(u = t /\ c = b)
        BY <1>9, <3>3, <4>2
      <4> QED
        BY <4>1, <4>2
    <3> QED
      BY <3>4
  <2> QED
    BY <2>1, <2>2
<1>23. ListsOf(top, len, n2, hd2, held2, F, C2)
  BY <1>2, <1>9, <1>11, <1>14, <1>17, <1>18, <1>19, <1>21, <1>22 DEF ListsOf
<1> QED
  BY <1>8, <1>10, <1>23 DEF Hung

\* The first object of a chain goes back to the free list.
LEMMA ListsRelease ==
  ASSUME NEW top, NEW len, NEW nx, NEW hd, NEW held, NEW F, NEW C,
         ListsOf(top, len, nx, hd, held, F, C),
         NEW t \in HTable, NEW b \in HBucket, NEW o, o = hd[t][b], o # NoObject,
         NEW hd2 \in [HTable -> [HBucket -> Ends]],
         \A u \in HTable, c \in HBucket :
           hd2[u][c] = IF u = t /\ c = b THEN nx[o] ELSE hd[u][c]
  PROVE  Released(top, len, nx, hd2, held, F, C, t, b, o)
<1>1. /\ nx \in [HObject -> Ends] /\ held \in [HUser -> SUBSET HObject]
      /\ F \in Seq(HObject) /\ C \in [HTable -> [HBucket -> Seq(HObject)]]
      /\ PathOf(nx, top, F) /\ len = Len(F)
  BY DEF ListsOf
<1>2. PICK s \in Seq(HObject) : s = C[t][b]
  BY <1>1
<1>3. PathOf(nx, o, s)
  BY <1>2 DEF ListsOf
<1>4. o \in HObject
  BY <1>3 DEF PathOf
<1>5. PICK m \in Nat \ {0} : m = Len(s) /\ o = s[1]
  BY <1>3, <1>4, PathHead
<1>6. PICK s2 : s2 = Tail(s)
  OBVIOUS
<1>7. /\ s2 \in Seq(HObject) /\ Len(s2) = m - 1
      /\ \A i \in 1 .. m - 1 : s2[i] = s[i + 1] /\ i + 1 \in 1 .. m /\ i + 1 # 1
  BY <1>2, <1>5, <1>6
<1>8. PathOf(nx, nx[o], s2)
  BY <1>3, <1>4, <1>6, PathTail
<1>9. PICK C2 : C2 = [C EXCEPT ![t][b] = Tail(@)]
  OBVIOUS
<1>10. /\ C2 \in [HTable -> [HBucket -> Seq(HObject)]]
       /\ \A u \in HTable, c \in HBucket :
            C2[u][c] = IF u = t /\ c = b THEN s2 ELSE C[u][c]
  BY <1>1, <1>2, <1>6, <1>7, <1>9
<1>11. PICK n \in Nat : n = Len(F)
  BY <1>1
<1>12. PICK F2 : F2 = <<o>> \o F
  OBVIOUS
<1>13. /\ F2 \in Seq(HObject) /\ Len(F2) = n + 1 /\ F2[1] = o
       /\ \A i \in 1 .. n : F2[i + 1] = F[i]
  BY <1>1, <1>4, <1>11, <1>12
<1>14. \A i \in 1 .. n + 1 : i = 1 \/ (i - 1 \in 1 .. n /\ F2[i] = F[i - 1] /\ i = i - 1 + 1)
  <2> SUFFICES ASSUME NEW i \in 1 .. n + 1, i # 1
               PROVE  i - 1 \in 1 .. n /\ F2[i] = F[i - 1] /\ i = i - 1 + 1
    OBVIOUS
  <2>1. i - 1 \in 1 .. n /\ i = i - 1 + 1
    OBVIOUS
  <2>2. F2[i - 1 + 1] = F[i - 1]
    BY <1>13, <2>1
  <2> QED
    BY <2>1, <2>2
<1>15. 1 \in 1 .. m /\ o = C[t][b][1] /\ 1 \in 1 .. Len(C[t][b])
  BY <1>2, <1>5
<1>16. /\ \A i \in 1 .. n : F[i] # o
       /\ \A q \in HUser : \A x \in held[q] : x # o
       /\ \A u \in HTable, c \in HBucket : \A j \in 1 .. Len(C[u][c]) :
            C[u][c][j] = o => u = t /\ c = b /\ j = 1
  BY <1>11, <1>15 DEF ListsOf, Apart
\* An object of a chain was there before, and is not o.
<1>17. \A u \in HTable, c \in HBucket : \A i \in 1 .. Len(C2[u][c]) :
         \E k \in 1 .. Len(C[u][c]) :
           /\ C2[u][c][i] = C[u][c][k] /\ C2[u][c][i] # o
           /\ k = IF u = t /\ c = b THEN i + 1 ELSE i
  <2> SUFFICES ASSUME NEW u \in HTable, NEW c \in HBucket, NEW i \in 1 .. Len(C2[u][c])
               PROVE  \E k \in 1 .. Len(C[u][c]) :
                        /\ C2[u][c][i] = C[u][c][k] /\ C2[u][c][i] # o
                        /\ k = IF u = t /\ c = b THEN i + 1 ELSE i
    OBVIOUS
  <2>1. CASE u = t /\ c = b
    <3>1. i \in 1 .. m - 1 /\ C2[u][c] = s2
      BY <1>7, <1>10, <2>1
    <3>2. s2[i] = s[i + 1] /\ i + 1 \in 1 .. m /\ i + 1 # 1
      BY <1>7, <3>1
    <3>3. i + 1 \in 1 .. Len(C[u][c]) /\ C2[u][c][i] = C[u][c][i + 1]
      BY <1>2, <1>5, <2>1, <3>1, <3>2
    <3>4. C[u][c][i + 1] # o
      BY <1>16, <3>2, <3>3
    <3> QED
      BY <2>1, <3>3, <3>4
  <2>2. CASE ~(u = t /\ c = b)
    BY <1>10, <1>16, <2>2
  <2> QED
    BY <2>1, <2>2
<1>18. PICK n2 : n2 = [nx EXCEPT ![o] = top]
  OBVIOUS
<1>19. /\ n2 \in [HObject -> Ends] /\ n2[o] = top
       /\ \A x \in HObject : x # o => n2[x] = nx[x]
  BY <1>1, <1>4, <1>18 DEF Ends, PathOf
<1>20. PathOf(n2, o, F2)
  <2>1. \A i \in 1 .. Len(F) : F[i] \in HObject /\ F[i] # o
    BY <1>1, <1>11, <1>16
  <2>2. PathOf(n2, top, F)
    BY <1>1, <1>19, <2>1, SamePath
  <2> QED
    BY <1>4, <1>12, <1>19, <2>2, PathCons
<1>21. ASSUME NEW u \in HTable, NEW c \in HBucket PROVE PathOf(n2, hd2[u][c], C2[u][c])
  <2>1. PathOf(nx, hd2[u][c], C2[u][c])
    <3>1. CASE u = t /\ c = b
      BY <1>8, <1>10, <3>1
    <3>2. CASE ~(u = t /\ c = b)
      <4>1. PathOf(nx, hd[u][c], C[u][c])
        BY Zenon DEF ListsOf
      <4> QED
        BY <1>10, <3>2, <4>1
    <3> QED
      BY <3>1, <3>2
  <2>2. \A i \in 1 .. Len(C2[u][c]) : C2[u][c][i] \in HObject
    BY <1>10
  <2>3. \A i \in 1 .. Len(C2[u][c]) : C2[u][c][i] # o
    BY <1>17
  <2> QED
    BY <1>19, <2>1, <2>2, <2>3, SamePath
<1>22. \A q \in HUser : \A x \in held[q] : n2[x] = NoObject
  <2>1. \A q \in HUser : \A x \in held[q] : x \in HObject /\ nx[x] = NoObject
    BY <1>1 DEF ListsOf
  <2> QED
    BY <1>16, <1>19, <2>1
<1>23. Apart(held, F2, C2)
  <2>1. \A i, j \in 1 .. n + 1 : F2[i] = F2[j] => i = j
    <3>1. \A k, l \in 1 .. n : F[k] = F[l] => k = l
      BY <1>11 DEF ListsOf, Apart
    <3> SUFFICES ASSUME NEW i \in 1 .. n + 1, NEW j \in 1 .. n + 1, F2[i] = F2[j] PROVE i = j
      OBVIOUS
    <3>2. i = 1 \/ (i - 1 \in 1 .. n /\ F2[i] = F[i - 1] /\ i = i - 1 + 1)
      BY <1>14
    <3>3. j = 1 \/ (j - 1 \in 1 .. n /\ F2[j] = F[j - 1] /\ j = j - 1 + 1)
      BY <1>14
    <3>4. CASE i = 1
      BY <1>13, <1>16, <3>3, <3>4
    <3>5. CASE j = 1
      BY <1>13, <1>16, <3>2, <3>5
    <3>6. CASE i # 1 /\ j # 1
      BY <3>1, <3>2, <3>3, <3>6
    <3> QED
      BY <3>4, <3>5, <3>6
  <2>2. \A i \in 1 .. n + 1, u \in HTable, c \in HBucket :
          \A j \in 1 .. Len(C2[u][c]) : F2[i] # C2[u][c][j]
    <3>1. \A k \in 1 .. n, u \in HTable, c \in HBucket :
            \A j \in 1 .. Len(C[u][c]) : F[k] # C[u][c][j]
      BY <1>11 DEF ListsOf, Apart
    <3> SUFFICES ASSUME NEW i \in 1 .. n + 1, NEW u \in HTable, NEW c \in HBucket,
                        NEW j \in 1 .. Len(C2[u][c])
                 PROVE  F2[i] # C2[u][c][j]
      OBVIOUS
    <3>2. PICK k \in 1 .. Len(C[u][c]) : C2[u][c][j] = C[u][c][k] /\ C2[u][c][j] # o
      BY <1>17, SMTT(30)
    <3>3. CASE i = 1
      BY <1>13, <3>2, <3>3
    <3>4. CASE i # 1
      <4>1. i - 1 \in 1 .. n /\ F2[i] = F[i - 1]
        BY <1>14, <3>4
      <4>2. F[i - 1] # C[u][c][k]
        BY <3>1, <4>1
      <4> QED
        BY <3>2, <4>1, <4>2
    <3> QED
      BY <3>3, <3>4
  <2>3. \A u, v \in HTable, c, d \in HBucket :
          \A i \in 1 .. Len(C2[u][c]), j \in 1 .. Len(C2[v][d]) :
            C2[u][c][i] = C2[v][d][j] => u = v /\ c = d /\ i = j
    <3> SUFFICES ASSUME NEW u \in HTable, NEW v \in HTable, NEW c \in HBucket, NEW d \in HBucket,
                        NEW i \in 1 .. Len(C2[u][c]), NEW j \in 1 .. Len(C2[v][d]),
                        C2[u][c][i] = C2[v][d][j]
                 PROVE  u = v /\ c = d /\ i = j
      OBVIOUS
    <3>1. PICK k \in 1 .. Len(C[u][c]) :
            C2[u][c][i] = C[u][c][k] /\ k = IF u = t /\ c = b THEN i + 1 ELSE i
      BY <1>17
    <3>2. PICK l \in 1 .. Len(C[v][d]) :
            C2[v][d][j] = C[v][d][l] /\ l = IF v = t /\ d = b THEN j + 1 ELSE j
      BY <1>17
    <3>3. u = v /\ c = d /\ k = l
      <4>1. \A v1, v2 \in HTable, c1, c2 \in HBucket :
              \A k1 \in 1 .. Len(C[v1][c1]), k2 \in 1 .. Len(C[v2][c2]) :
                C[v1][c1][k1] = C[v2][c2][k2] => v1 = v2 /\ c1 = c2 /\ k1 = k2
        BY DEF ListsOf, Apart
      <4>2. C[u][c][k] = C[v][d][l]
        BY <3>1, <3>2
      <4> QED
        BY <4>1, <4>2
    <3>4. i \in Nat /\ j \in Nat
      BY <1>10
    <3> QED
      BY <3>1, <3>2, <3>3, <3>4
  <2>4. ASSUME NEW q \in HUser, NEW r \in HUser, NEW x \in held[q]
        PROVE  /\ x \in held[r] => q = r
               /\ \A i \in 1 .. n + 1 : F2[i] # x
               /\ \A u \in HTable, c \in HBucket : \A j \in 1 .. Len(C2[u][c]) : C2[u][c][j] # x
    <3>1. /\ x \in held[r] => q = r
          /\ \A i \in 1 .. n : F[i] # x
          /\ \A u \in HTable, c \in HBucket : \A j \in 1 .. Len(C[u][c]) : C[u][c][j] # x
      BY <1>11 DEF ListsOf, Apart
    <3>2. x # o
      BY <1>16
    <3>3. ASSUME NEW i \in 1 .. n + 1 PROVE F2[i] # x
      <4>1. CASE i = 1
        BY <1>13, <3>2, <4>1
      <4>2. CASE i # 1
        <5>1. i - 1 \in 1 .. n /\ F2[i] = F[i - 1]
          BY <1>14, <4>2
        <5> QED
          BY <3>1, <5>1
      <4> QED
        BY <4>1, <4>2
    <3>4. ASSUME NEW u \in HTable, NEW c \in HBucket, NEW j \in 1 .. Len(C2[u][c])
          PROVE  C2[u][c][j] # x
      <4>1. PICK k \in 1 .. Len(C[u][c]) : C2[u][c][j] = C[u][c][k]
        BY <1>17
      <4> QED
        BY <3>1, <4>1
    <3> QED
      BY <3>1, <3>3, <3>4
  <2>5. \A i, j \in 1 .. Len(F2) : F2[i] = F2[j] => i = j
    BY <1>13, <2>1
  <2>6. \A i \in 1 .. Len(F2), u \in HTable, c \in HBucket :
          \A j \in 1 .. Len(C2[u][c]) : F2[i] # C2[u][c][j]
    BY <1>13, <2>2
  <2>7. \A q, r \in HUser : \A x \in held[q] :
          /\ x \in held[r] => q = r
          /\ \A i \in 1 .. Len(F2) : F2[i] # x
          /\ \A u \in HTable, c \in HBucket : \A j \in 1 .. Len(C2[u][c]) : C2[u][c][j] # x
    BY <1>13, <2>4
  <2> QED
    BY <2>3, <2>5, <2>6, <2>7 DEF Apart
<1>24. Covered(held, F2, C2)
  <2> SUFFICES ASSUME NEW x \in HObject, \A i \in 1 .. n + 1 : F2[i] # x,
                      \A q \in HUser : x \notin held[q]
               PROVE  \E u \in HTable, c \in HBucket : \E j \in 1 .. Len(C2[u][c]) : C2[u][c][j] = x
    BY <1>13 DEF Covered
  <2>1. 1 \in 1 .. n + 1 /\ \A i \in 1 .. n : i + 1 \in 1 .. n + 1
    OBVIOUS
  <2>2. x # o /\ \A i \in 1 .. Len(F) : F[i] # x
    BY <1>11, <1>13, <2>1
  <2>3. PICK u \in HTable, c \in HBucket : \E j \in 1 .. Len(C[u][c]) : C[u][c][j] = x
    BY <2>2 DEF ListsOf, Covered
  <2>4. PICK j \in 1 .. Len(C[u][c]) : C[u][c][j] = x
    BY <2>3
  <2>5. CASE u = t /\ c = b
    <3>1. j \in 1 .. m /\ s[j] = x
      BY <1>2, <1>5, <2>4, <2>5
    <3>2. j # 1
      BY <1>5, <2>2, <3>1
    <3>3. j - 1 \in 1 .. m - 1 /\ j - 1 + 1 = j
      BY <3>1, <3>2
    <3>4. s2[j - 1] = x
      BY <1>7, <3>1, <3>3
    <3> QED
      BY <1>7, <1>10, <2>5, <3>3, <3>4
  <2>6. CASE ~(u = t /\ c = b)
    BY <1>10, <2>4, <2>6
  <2> QED
    BY <2>5, <2>6
<1>25. ToSet(F2) = ToSet(F) \cup {o}
  <2>1. DOMAIN F = 1 .. n /\ DOMAIN F2 = 1 .. n + 1
    BY <1>1, <1>11, <1>13
  <2>2. \A x : x \in ToSet(F) <=> \E i \in 1 .. n : x = F[i]
    BY <2>1 DEF ToSet
  <2>3. \A x : x \in ToSet(F2) <=> \E i \in 1 .. n + 1 : x = F2[i]
    BY <2>1 DEF ToSet
  <2>4. 1 \in 1 .. n + 1 /\ \A i \in 1 .. n : i + 1 \in 1 .. n + 1
    OBVIOUS
  <2>5. \A x : x \in ToSet(F2) => x \in ToSet(F) \/ x = o
    BY SMTT(30), <1>13, <1>14, <2>2, <2>3
  <2>6. \A x : x \in ToSet(F) \/ x = o => x \in ToSet(F2)
    BY <1>13, <2>2, <2>3, <2>4
  <2> QED
    BY <2>5, <2>6
<1>26. len + 1 = Len(F2)
  BY <1>1, <1>11, <1>13
<1>27. ListsOf(o, len + 1, n2, hd2, held, F2, C2)
  BY <1>1, <1>10, <1>13, <1>19, <1>20, <1>21, <1>22, <1>23, <1>24, <1>26 DEF ListsOf
<1>28. C[t][b] # <<>> /\ Head(C[t][b]) = o
  BY <1>2, <1>5
<1> QED
  BY <1>9, <1>12, <1>18, <1>25, <1>27, <1>28 DEF Released

(***************************************************************************)
(* The states of the program.                                              *)
(***************************************************************************)
Locker(p) == h_pc[p] \in {"add", "empty", "walk"}

HashTypeOK ==
  /\ t_os \in [HTable -> [HBucket -> Ends]]
  /\ h_m \in [HTable -> SUBSET HUser]
  /\ h_pc \in [HUser -> {"idle", "holds", "add", "empty", "walk"}]
  /\ h_o \in [HUser -> Ends]
  /\ h_t = [p \in HUser |-> h_t[p]]
  /\ h_i \in [HUser -> 0 .. HLen]
  /\ h_seen \in [HUser -> Seq(HObject)]

\* A table is locked by the process that works on it, and by no other.
TablesLocked ==
  /\ \A p \in HUser : Locker(p) => h_t[p] \in HTable /\ h_m[h_t[p]] = {p}
  /\ \A t \in HTable : \A p \in h_m[t] : Locker(p) /\ h_t[p] = t

\* What a process has in hand, or its cursor is at.
CursorsRight == \A p \in HUser :
  /\ h_pc[p] \in {"holds", "add"} => h_o[p] # NoObject
  /\ h_pc[p] = "idle" => h_o[p] = NoObject
  /\ h_pc[p] \in {"empty", "walk"} /\ h_o[p] # NoObject => h_i[p] < HLen
  /\ h_pc[p] # "walk" => h_seen[p] = <<>>

HashStates == HashTypeOK /\ TablesLocked /\ CursorsRight

\* What holds in every state of them (the first conjunct is ChainHead
\* without its CHOOSE).
HeadsAre == \A t \in HTable, b \in HBucket :
  /\ \A p \in HUser : h_pc[p] = "empty" /\ h_t[p] = t =>
       ChainHead(t, b) = IF b < h_i[p] THEN NoObject
                         ELSE IF b = h_i[p] /\ h_o[p] # NoObject THEN h_o[p] ELSE t_os[t][b]
  /\ (\A p \in HUser : h_pc[p] = "empty" => h_t[p] # t) => ChainHead(t, b) = t_os[t][b]

Heads == [t \in HTable |-> [b \in HBucket |-> ChainHead(t, b)]]

\* The bank is F and C.
BankIs(F, C) == ListsOf(l_top, l_len, o_next, Heads, Holding, F, C)

Lists == \E F, C : BankIs(F, C)

\* The first n chains of a table, one after the other.
FirstChains(c, n) == FlattenSeq([i \in 1 .. n |-> c[i - 1]])

\* What the walk of p has passed: the chains of the buckets before h_i[p] and
\* its chain up to the cursor.
WalkedSoFar(p, c) ==
  IF h_o[p] = NoObject
  THEN h_seen[p] = FirstChains(c, h_i[p])
  ELSE \E k \in 1 .. Len(c[h_i[p]]) :
         /\ c[h_i[p]][k] = h_o[p]
         /\ h_seen[p] = FirstChains(c, h_i[p]) \o SubSeq(c[h_i[p]], 1, k - 1)

WalksRight(C) == \A p \in HUser, t \in HTable :
  h_pc[p] = "walk" /\ h_t[p] = t => WalkedSoFar(p, C[t])

HashInv == HashStates /\ \E F, C : BankIs(F, C) /\ WalksRight(C)

LEMMA StatesHeads == HashStates => HeadsAre
<1> SUFFICES ASSUME HashStates, NEW t \in HTable, NEW b \in HBucket
             PROVE  /\ \A p \in HUser : h_pc[p] = "empty" /\ h_t[p] = t =>
                         ChainHead(t, b) = IF b < h_i[p] THEN NoObject
                                           ELSE IF b = h_i[p] /\ h_o[p] # NoObject THEN h_o[p]
                                                ELSE t_os[t][b]
                    /\ (\A p \in HUser : h_pc[p] = "empty" => h_t[p] # t) =>
                         ChainHead(t, b) = t_os[t][b]
  BY DEF HeadsAre
<1>1. ASSUME NEW p \in HUser, h_pc[p] = "empty", h_t[p] = t
      PROVE  ChainHead(t, b) = IF b < h_i[p] THEN NoObject
                               ELSE IF b = h_i[p] /\ h_o[p] # NoObject THEN h_o[p]
                                    ELSE t_os[t][b]
  <2>1. h_m[t] = {p}
    BY <1>1 DEF HashStates, TablesLocked, Locker
  <2>2. (CHOOSE q \in h_m[t] : TRUE) = p
    BY <2>1
  <2>3. h_i[p] \in Int /\ b \in Int
    BY HashAssumption DEF HashStates, HashTypeOK, HBucket
  <2> QED
    BY <1>1, <2>1, <2>2, <2>3 DEF ChainHead
<1>2. ASSUME \A p \in HUser : h_pc[p] = "empty" => h_t[p] # t
      PROVE  ChainHead(t, b) = t_os[t][b]
  <2>1. \A p \in h_m[t] : p \in HUser /\ h_t[p] = t
    BY DEF HashStates, HashTypeOK, TablesLocked
  <2> QED
    BY <1>2, <2>1 DEF ChainHead
<1> QED
  BY <1>1, <1>2

LEMMA StatesInit == HashInit => HashStates
<1> SUFFICES ASSUME HashInit PROVE HashStates
  OBVIOUS
<1>1. 0 \in 0 .. HLen /\ <<>> \in Seq(HObject)
  BY HashAssumption
<1>2. HashTypeOK
  BY <1>1 DEF HashInit, HashTypeOK, Ends
<1>3. TablesLocked /\ CursorsRight
  BY DEF HashInit, TablesLocked, CursorsRight, Locker
<1> QED
  BY <1>2, <1>3 DEF HashStates

\* What a list's head and an object's link are, where the lists are right.
LEMMA LinksTyped ==
  ASSUME HashStates, Lists
  PROVE  /\ l_top \in Ends /\ o_next \in [HObject -> Ends]
         /\ Heads \in [HTable -> [HBucket -> Ends]]
<1>1. \A nx, o, s : PathOf(nx, o, s) => o \in Ends
  BY DEF PathOf, Ends
<1>2. \A t \in HTable, b \in HBucket : Heads[t][b] \in Ends
  BY <1>1 DEF Lists, BankIs, ListsOf
<1>3. Heads \in [HTable -> [HBucket -> Ends]]
  BY <1>2 DEF Heads
<1> QED
  BY <1>1, <1>3 DEF Lists, BankIs, ListsOf

LEMMA UnlocksTable ==
  ASSUME HashTypeOK, TablesLocked, NEW p \in HUser, Locker(p),
         UnlockTable(p), HGoto(p, "idle"), h_t' = h_t
  PROVE  TablesLocked'
<1>1. PICK t \in HTable : t = h_t[p] /\ h_m[t] = {p}
  BY DEF TablesLocked
<1>2. h_m' = [h_m EXCEPT ![t] = {}]
  BY <1>1 DEF UnlockTable
<1>3. /\ \A u \in HTable : h_m'[u] = IF u = t THEN {} ELSE h_m[u]
      /\ \A q \in HUser : h_pc'[q] = IF q = p THEN "idle" ELSE h_pc[q]
  BY <1>2 DEF HashTypeOK, HGoto
<1>4. \A q \in HUser : Locker(q)' => Locker(q) /\ q # p
  BY <1>3 DEF Locker
<1>5. ASSUME NEW q \in HUser, Locker(q)' PROVE h_t'[q] \in HTable /\ h_m'[h_t'[q]] = {q}
  <2>1. h_t[q] \in HTable /\ h_m[h_t[q]] = {q} /\ q # p
    BY <1>4, <1>5 DEF TablesLocked
  <2>2. h_t[q] # t
    BY <1>1, <2>1
  <2> QED
    BY <1>3, <2>1, <2>2
<1>6. ASSUME NEW u \in HTable, NEW q \in h_m'[u] PROVE Locker(q)' /\ h_t'[q] = u
  <2>1. u # t /\ q \in h_m[u]
    BY <1>3, <1>6
  <2>2. Locker(q) /\ h_t[q] = u /\ q \in HUser
    BY <2>1 DEF TablesLocked, HashTypeOK
  <2>3. q # p
    BY <1>1, <2>1, <2>2
  <2> QED
    BY <1>3, <2>2, <2>3 DEF Locker
<1> QED
  BY <1>5, <1>6 DEF TablesLocked

LEMMA StatesNext ==
  ASSUME HashStates, Lists, [HashNext]_hvars
  PROVE  HashStates'
<1>1. CASE UNCHANGED hvars
  BY <1>1 DEF hvars, HashStates, HashTypeOK, TablesLocked, CursorsRight, Locker
<1>2. ASSUME NEW p \in HUser,
             \/ PopO(p) \/ PushO(p) \/ LockTable(p) \/ AddOHt(p) \/ NextBucket(p)
             \/ EmptyOne(p) \/ EmptyEnd(p) \/ WalkOne(p) \/ WalkEnd(p)
      PROVE  HashStates'
  <2> USE HashAssumption DEF HGoto
  <2>0. l_top \in Ends /\ o_next \in [HObject -> Ends]
    BY LinksTyped
  <2>a. HashTypeOK /\ TablesLocked /\ CursorsRight
    BY DEF HashStates
  <2>1. CASE PopO(p)
    <3>1. HashTypeOK'
      BY <2>1, <2>0, <2>a DEF PopO, HashTypeOK, Ends
    <3>2. TablesLocked'
      BY ZenonT(40), <2>1, <2>a DEF PopO, HashTypeOK, TablesLocked, Locker
    <3>3. CursorsRight'
      BY <2>1, <2>a DEF PopO, HashTypeOK, CursorsRight
    <3> QED
      BY <3>1, <3>2, <3>3 DEF HashStates
  <2>2. CASE PushO(p)
    <3>1. HashTypeOK'
      BY <2>2, <2>a DEF PushO, Pushed, HashTypeOK, Ends
    <3>2. TablesLocked'
      BY ZenonT(40), <2>2, <2>a DEF PushO, Pushed, HashTypeOK, TablesLocked, Locker
    <3>3. CursorsRight'
      BY <2>2, <2>a DEF PushO, Pushed, HashTypeOK, CursorsRight
    <3> QED
      BY <3>1, <3>2, <3>3 DEF HashStates
  <2>3. CASE LockTable(p)
    <3>0. PICK t \in HTable : /\ h_m[t] = {} /\ h_m' = [h_m EXCEPT ![t] = {p}]
                              /\ h_t' = [h_t EXCEPT ![p] = t]
      BY <2>3 DEF LockTable
    <3>4. /\ h_pc' \in [HUser -> {"idle", "holds", "add", "empty", "walk"}]
          /\ h_pc[p] \in {"idle", "holds"} /\ h_pc'[p] \in {"add", "empty", "walk"}
          /\ \A q \in HUser : q # p => h_pc'[q] = h_pc[q]
      <4>1. PICK l \in {"add", "empty", "walk"} :
              h_pc[p] \in {"idle", "holds"} /\ h_pc' = [h_pc EXCEPT ![p] = l]
        BY <2>3 DEF LockTable
      <4> QED
        BY <2>a, <4>1 DEF HashTypeOK
    <3>5. /\ h_m' \in [HTable -> SUBSET HUser]
          /\ \A u \in HTable : h_m'[u] = IF u = t THEN {p} ELSE h_m[u]
      BY <2>a, <3>0 DEF HashTypeOK
    <3>6. /\ h_t' = [q \in HUser |-> h_t'[q]]
          /\ \A q \in HUser : h_t'[q] = IF q = p THEN t ELSE h_t[q]
      <4>1. PICK f : f = h_t /\ f = [q \in HUser |-> f[q]]
        BY <2>a DEF HashTypeOK
      <4> QED
        BY <3>0, <4>1
    <3>7. h_i' \in [HUser -> 0 .. HLen] /\ UNCHANGED <<t_os, h_o, h_seen>>
      BY <2>3, <2>a DEF LockTable, HashTypeOK
    <3>1. HashTypeOK'
      BY <2>a, <3>4, <3>5, <3>6, <3>7 DEF HashTypeOK
    <3>2. TablesLocked'
      <4>1. ASSUME NEW q \in HUser, Locker(q)' PROVE h_t'[q] \in HTable /\ h_m'[h_t'[q]] = {q}
        <5>1. CASE q = p
          BY <3>5, <3>6, <5>1
        <5>2. CASE q # p
          <6>1. h_t[q] \in HTable /\ h_m[h_t[q]] = {q}
            BY <2>a, <3>4, <4>1, <5>2 DEF TablesLocked, Locker
          <6> QED
            BY <3>0, <3>5, <3>6, <5>2, <6>1
        <5> QED
          BY <5>1, <5>2
      <4>2. ASSUME NEW u \in HTable, NEW q \in h_m'[u] PROVE Locker(q)' /\ h_t'[q] = u
        <5>1. CASE u = t
          BY <3>4, <3>5, <3>6, <4>2, <5>1 DEF Locker
        <5>2. CASE u # t
          <6>1. q \in HUser /\ Locker(q) /\ h_t[q] = u
            BY <2>a, <3>5, <4>2, <5>2 DEF TablesLocked, HashTypeOK
          <6>2. q # p
            BY <3>4, <6>1 DEF Locker
          <6> QED
            BY <3>4, <3>6, <6>1, <6>2 DEF Locker
        <5> QED
          BY <5>1, <5>2
      <4> QED
        BY <4>1, <4>2 DEF TablesLocked
    <3>3. CursorsRight'
      BY <2>3, <2>a DEF LockTable, HashTypeOK, CursorsRight
    <3> QED
      BY <3>1, <3>2, <3>3 DEF HashStates
  <2>4. CASE AddOHt(p)
    <3>0. PICK b \in HBucket :
            LET head == t_os[h_t[p]][b]
            IN IF head = NoObject
               THEN t_os' = [t_os EXCEPT ![h_t[p]][b] = h_o[p]] /\ UNCHANGED o_next
               ELSE o_next' = [o_next EXCEPT ![LastOf[head]] = h_o[p]] /\ UNCHANGED t_os
      BY <2>4 DEF AddOHt
    <3>4. h_t[p] \in HTable /\ h_m[h_t[p]] = {p}
      BY <2>4, <2>a DEF AddOHt, TablesLocked, Locker
    <3>5. t_os' \in [HTable -> [HBucket -> Ends]]
      <4>1. PICK t \in HTable, o \in Ends : t = h_t[p] /\ o = h_o[p]
        BY <2>a, <3>4 DEF HashTypeOK
      <4>2. t_os \in [HTable -> [HBucket -> Ends]]
        BY <2>a DEF HashTypeOK
      <4>3. t_os' = t_os \/ t_os' = [t_os EXCEPT ![t][b] = o]
        BY <3>0, <4>1
      <4> QED
        BY <4>2, <4>3
    <3>1. HashTypeOK'
      BY <2>4, <2>a, <3>4, <3>5 DEF AddOHt, UnlockTable, HashTypeOK, Ends
    <3>2. TablesLocked'
      <4>1. UnlockTable(p) /\ HGoto(p, "idle") /\ h_t' = h_t /\ Locker(p)
        BY <2>4 DEF AddOHt, Locker
      <4> QED
        BY <2>a, <4>1, UnlocksTable
    <3>3. CursorsRight'
      BY <2>4, <2>a DEF AddOHt, HashTypeOK, CursorsRight
    <3> QED
      BY <3>1, <3>2, <3>3 DEF HashStates
  <2>5. CASE NextBucket(p)
    <3>0. /\ p \in HUser /\ h_i[p] \in Nat /\ h_i[p] < HLen /\ Locker(p)
          /\ h_pc[p] \in {"empty", "walk"}
      BY <2>5, <2>a DEF NextBucket, HashTypeOK, CursorsRight, Locker
    <3>4. PICK x \in Ends : x = t_os[h_t[p]][h_i[p]]
      <4>1. h_t[p] \in HTable /\ h_i[p] \in HBucket
        BY <2>a, <3>0 DEF TablesLocked, HBucket
      <4> QED
        BY <2>a, <4>1 DEF HashTypeOK
    <3>5. /\ h_i' = [h_i EXCEPT ![p] = IF x = NoObject THEN h_i[p] + 1 ELSE h_i[p]]
          /\ h_o' = [h_o EXCEPT ![p] = x]
      BY <2>5, <3>4 DEF NextBucket, CursorTo
    <3>6. (IF x = NoObject THEN h_i[p] + 1 ELSE h_i[p]) \in 0 .. HLen
      BY <3>0
    <3>7. h_pc' = h_pc /\ h_m' = h_m /\ h_t' = h_t /\ t_os' = t_os
      BY <2>5 DEF NextBucket
    <3>8. h_seen' = h_seen
      BY <2>5 DEF NextBucket
    <3>1. HashTypeOK'
      BY <2>a, <3>5, <3>6, <3>7, <3>8 DEF HashTypeOK
    <3>2. TablesLocked'
      BY <2>a, <3>7 DEF TablesLocked, Locker
    <3>3. CursorsRight'
      BY <2>a, <3>0, <3>5, <3>6, <3>7, <3>8 DEF HashTypeOK, CursorsRight
    <3> QED
      BY <3>1, <3>2, <3>3 DEF HashStates
  <2>6. CASE EmptyOne(p)
    <3>0. /\ p \in HUser /\ h_i[p] \in Nat /\ h_i[p] < HLen /\ Locker(p)
          /\ h_pc[p] \in {"empty", "walk"}
      BY <2>6, <2>a DEF EmptyOne, HashTypeOK, CursorsRight, Locker
    <3>4. PICK x \in Ends : x = o_next[h_o[p]]
      BY <2>6, <2>0, <2>a DEF EmptyOne, HashTypeOK, Ends
    <3>5. /\ h_i' = [h_i EXCEPT ![p] = IF x = NoObject THEN h_i[p] + 1 ELSE h_i[p]]
          /\ h_o' = [h_o EXCEPT ![p] = x]
      BY <2>6, <3>4 DEF EmptyOne, CursorTo
    <3>6. (IF x = NoObject THEN h_i[p] + 1 ELSE h_i[p]) \in 0 .. HLen
      BY <3>0
    <3>7. h_pc' = h_pc /\ h_m' = h_m /\ h_t' = h_t /\ t_os' = t_os
      BY <2>6 DEF EmptyOne
    <3>8. h_seen' = h_seen
      BY <2>6 DEF EmptyOne
    <3>1. HashTypeOK'
      BY <2>a, <3>5, <3>6, <3>7, <3>8 DEF HashTypeOK
    <3>2. TablesLocked'
      BY <2>a, <3>7 DEF TablesLocked, Locker
    <3>3. CursorsRight'
      BY <2>a, <3>0, <3>5, <3>6, <3>7, <3>8 DEF HashTypeOK, CursorsRight
    <3> QED
      BY <3>1, <3>2, <3>3 DEF HashStates
  <2>7. CASE EmptyEnd(p)
    <3>4. h_t[p] \in HTable /\ h_m[h_t[p]] = {p}
      BY <2>7, <2>a DEF EmptyEnd, TablesLocked, Locker
    <3>5. t_os' \in [HTable -> [HBucket -> Ends]]
      BY <2>7, <2>a, <3>4 DEF EmptyEnd, HashTypeOK, Ends
    <3>1. HashTypeOK'
      BY <2>7, <2>a, <3>4, <3>5 DEF EmptyEnd, UnlockTable, HashTypeOK, Ends
    <3>2. TablesLocked'
      <4>1. UnlockTable(p) /\ HGoto(p, "idle") /\ h_t' = h_t /\ Locker(p)
        BY <2>7 DEF EmptyEnd, Locker
      <4> QED
        BY <2>a, <4>1, UnlocksTable
    <3>3. CursorsRight'
      BY <2>7, <2>a DEF EmptyEnd, UnlockTable, HashTypeOK, CursorsRight
    <3> QED
      BY <3>1, <3>2, <3>3 DEF HashStates
  <2>8. CASE WalkOne(p)
    <3>0. /\ p \in HUser /\ h_i[p] \in Nat /\ h_i[p] < HLen /\ Locker(p)
          /\ h_pc[p] \in {"empty", "walk"}
      BY <2>8, <2>a DEF WalkOne, HashTypeOK, CursorsRight, Locker
    <3>4. PICK x \in Ends : x = o_next[h_o[p]]
      BY <2>8, <2>0, <2>a DEF WalkOne, HashTypeOK, Ends
    <3>5. /\ h_i' = [h_i EXCEPT ![p] = IF x = NoObject THEN h_i[p] + 1 ELSE h_i[p]]
          /\ h_o' = [h_o EXCEPT ![p] = x]
      BY <2>8, <3>4 DEF WalkOne, CursorTo
    <3>6. (IF x = NoObject THEN h_i[p] + 1 ELSE h_i[p]) \in 0 .. HLen
      BY <3>0
    <3>7. h_pc' = h_pc /\ h_m' = h_m /\ h_t' = h_t /\ t_os' = t_os
      BY <2>8 DEF WalkOne
    <3>8. h_pc[p] = "walk" /\ h_seen' = [h_seen EXCEPT ![p] = Append(@, h_o[p])]
          /\ h_o[p] \in HObject
      BY <2>8, <2>a DEF WalkOne, HashTypeOK, Ends
    <3>1. HashTypeOK'
      BY <2>a, <3>5, <3>6, <3>7, <3>8 DEF HashTypeOK
    <3>2. TablesLocked'
      BY <2>a, <3>7 DEF TablesLocked, Locker
    <3>3. CursorsRight'
      BY <2>a, <3>0, <3>5, <3>6, <3>7, <3>8 DEF HashTypeOK, CursorsRight
    <3> QED
      BY <3>1, <3>2, <3>3 DEF HashStates
  <2>9. CASE WalkEnd(p)
    <3>4. h_t[p] \in HTable /\ h_m[h_t[p]] = {p}
      BY <2>9, <2>a DEF WalkEnd, TablesLocked, Locker
    <3>1. HashTypeOK'
      BY <2>9, <2>a, <3>4 DEF WalkEnd, UnlockTable, HashTypeOK, Ends
    <3>2. TablesLocked'
      <4>1. UnlockTable(p) /\ HGoto(p, "idle") /\ h_t' = h_t /\ Locker(p)
        BY <2>9 DEF WalkEnd, Locker
      <4> QED
        BY <2>a, <4>1, UnlocksTable
    <3>3. CursorsRight'
      BY <2>9, <2>a DEF WalkEnd, UnlockTable, HashTypeOK, CursorsRight
    <3> QED
      BY <3>1, <3>2, <3>3 DEF HashStates
  <2> QED
    BY <1>2, <2>1, <2>2, <2>3, <2>4, <2>5, <2>6, <2>7, <2>8, <2>9
<1> QED
  BY <1>1, <1>2 DEF HashNext

(***************************************************************************)
(* Each step of the lists is a step of the bank.                           *)
(***************************************************************************)

\* What the lists are is what the refinement mapping reads.
LEMMA Seen == \A F, C : BankIs(F, C) => ListFrom[l_top] = F /\ Chains = C
<1> SUFFICES ASSUME NEW F, NEW C, BankIs(F, C) PROVE ListFrom[l_top] = F /\ Chains = C
  OBVIOUS
<1>1. ListFrom = Listing(o_next)
  BY DEF ListFrom, Listing
<1>2. /\ Listing(o_next)[l_top] = F
      /\ \A t \in HTable, b \in HBucket : Listing(o_next)[Heads[t][b]] = C[t][b]
  BY ListsListed DEF BankIs
<1>3. C \in [HTable -> [HBucket -> Seq(HObject)]]
  BY DEF BankIs, ListsOf
<1>4. \A t \in HTable, b \in HBucket : Chained(t, b) = C[t][b]
  BY <1>1, <1>2 DEF Chained, Heads
<1> QED
  BY <1>1, <1>2, <1>3, <1>4 DEF Chains

LEMMA SeenNext == \A F, C : BankIs(F, C)' => (ListFrom[l_top])' = F /\ Chains' = C
<1>1. (\A F, C : BankIs(F, C) => ListFrom[l_top] = F /\ Chains = C)'
  BY Seen, PTL
<1> QED
  BY <1>1

LEMMA StatesHeadsNext == HashStates' => HeadsAre'
<1>1. HashStates => HeadsAre
  BY StatesHeads
<1> QED
  BY <1>1, PTL

\* Only p moves.
OthersStill(p) == \A q \in HUser : q # p =>
  /\ h_pc'[q] = h_pc[q] /\ h_t'[q] = h_t[q]
  /\ h_i'[q] = h_i[q] /\ h_o'[q] = h_o[q]

\* p does not empty t and the rest of the processes stand still: the chains of
\* t start where they did.
LEMMA OtherHeads ==
  ASSUME HeadsAre, HeadsAre', NEW p \in HUser, NEW t \in HTable, NEW b \in HBucket,
         OthersStill(p),
         h_pc[p] = "empty" => h_t[p] # t, h_pc'[p] = "empty" => h_t'[p] # t,
         t_os'[t][b] = t_os[t][b]
  PROVE  ChainHead(t, b)' = ChainHead(t, b)
<1> USE DEF OthersStill
<1>1. CASE \E q \in HUser : h_pc[q] = "empty" /\ h_t[q] = t
  <2>1. PICK q \in HUser : h_pc[q] = "empty" /\ h_t[q] = t /\ q # p
    BY <1>1
  <2>2. h_pc'[q] = "empty" /\ h_t'[q] = t /\ h_i'[q] = h_i[q] /\ h_o'[q] = h_o[q]
    BY <2>1
  <2>3. ChainHead(t, b) = IF b < h_i[q] THEN NoObject
                          ELSE IF b = h_i[q] /\ h_o[q] # NoObject THEN h_o[q] ELSE t_os[t][b]
    BY <2>1 DEF HeadsAre
  <2>4. ChainHead(t, b)' = IF b < h_i'[q] THEN NoObject
                           ELSE IF b = h_i'[q] /\ h_o'[q] # NoObject THEN h_o'[q]
                                ELSE t_os'[t][b]
    BY <2>2 DEF HeadsAre
  <2> QED
    BY <2>2, <2>3, <2>4
<1>2. CASE \A q \in HUser : h_pc[q] = "empty" => h_t[q] # t
  <2>1. \A q \in HUser : h_pc'[q] = "empty" => h_t'[q] # t
    BY <1>2
  <2>2. ChainHead(t, b) = t_os[t][b]
    BY <1>2 DEF HeadsAre
  <2>3. ChainHead(t, b)' = t_os'[t][b]
    BY <2>1 DEF HeadsAre
  <2> QED
    BY <2>2, <2>3
<1> QED
  BY <1>1, <1>2

\* p empties nothing: no chain starts elsewhere.
LEMMA SameHeads ==
  ASSUME HeadsAre, HeadsAre', NEW p \in HUser,
         OthersStill(p),
         h_pc[p] # "empty", h_pc'[p] # "empty", t_os' = t_os
  PROVE  Heads' = Heads
<1>1. ASSUME NEW t \in HTable, NEW b \in HBucket PROVE ChainHead(t, b)' = ChainHead(t, b)
  BY OtherHeads
<1> QED
  BY <1>1 DEF Heads

LEMMA Hands ==
  ASSUME NEW p \in HUser, OthersStill(p)
  PROVE  /\ Holding[p] = IF h_pc[p] \in {"holds", "add"} THEN {h_o[p]} ELSE {}
         /\ Holding' = [Holding EXCEPT ![p] = IF h_pc'[p] \in {"holds", "add"}
                                              THEN {h_o'[p]} ELSE {}]
  BY DEF Holding, OthersStill

\* A step of p: F and C become F2 and C2, as a step of the bank, and only
\* the chains of the table that p has locked change.
StepTo(p, F, C, F2, C2) ==
  /\ BankIs(F2, C2)'
  /\ [Bank!BankNext]_(Bank!bvars)
  /\ \A t \in HTable : (Locker(p) /\ h_t[p] = t) \/ C2[t] = C[t]

LEMMA PopStep ==
  ASSUME HashStates, HashStates', NEW F, NEW C, BankIs(F, C), NEW p \in HUser, PopO(p)
  PROVE  \E F2, C2 : StepTo(p, F, C, F2, C2)
<1>1. HeadsAre /\ HeadsAre'
  BY StatesHeads, StatesHeadsNext
<1>2. OthersStill(p) /\ h_pc[p] = "idle" /\ h_pc'[p] = "holds" /\ h_o'[p] = l_top
  BY DEF HashStates, HashTypeOK, PopO, HGoto, OthersStill
<1>3. Heads' = Heads
  BY <1>1, <1>2, SameHeads DEF PopO
<1>4. Holding[p] = {} /\ Holding' = [Holding EXCEPT ![p] = {l_top}]
  BY <1>2, Hands
<1>5. PICK F2 : F2 = Tail(F)
  OBVIOUS
<1>6. /\ ToSet(F2) = ToSet(F) \ {l_top} /\ l_top \in ToSet(F)
      /\ ListsOf(o_next[l_top], l_len - 1, [o_next EXCEPT ![l_top] = NoObject], Heads,
                 [Holding EXCEPT ![p] = {l_top}], F2, C)
  <2>1. ListsOf(l_top, l_len, o_next, Heads, Holding, F, C) /\ l_top # NoObject
        /\ Holding[p] = {}
    BY <1>4 DEF BankIs, PopO
  <2>2. Popped(l_top, l_len, o_next, Heads, Holding, F, C, p)
    BY <2>1, ListsPop
  <2> QED
    BY <1>5, <2>2 DEF Popped
<1>7. BankIs(F2, C)'
  BY <1>3, <1>4, <1>6 DEF BankIs, PopO
<1>8. ListFrom[l_top] = F /\ Chains = C /\ (ListFrom[l_top])' = F2 /\ Chains' = C
  BY <1>7, Seen, SeenNext
<1>9. Bank!Take(p)
  BY <1>4, <1>6, <1>8 DEF Bank!Take
<1> QED
  BY <1>7, <1>9 DEF StepTo, Bank!BankNext

LEMMA PushStep ==
  ASSUME HashStates, HashStates', NEW F, NEW C, BankIs(F, C), NEW p \in HUser, PushO(p)
  PROVE  \E F2, C2 : StepTo(p, F, C, F2, C2)
<1>1. HeadsAre /\ HeadsAre'
  BY StatesHeads, StatesHeadsNext
<1>2. OthersStill(p) /\ h_pc[p] = "holds" /\ h_pc'[p] = "idle"
  BY DEF HashStates, HashTypeOK, PushO, HGoto, OthersStill
<1>3. Heads' = Heads
  BY <1>1, <1>2, SameHeads DEF PushO
<1>4. PICK o : o = h_o[p]
  OBVIOUS
<1>5. Holding[p] = {o} /\ Holding' = [Holding EXCEPT ![p] = {}]
  BY <1>2, <1>4, Hands
<1>6. PICK F2 : F2 = <<o>> \o F
  OBVIOUS
<1>7. /\ ToSet(F2) = ToSet(F) \cup {o}
      /\ ListsOf(o, l_len + 1, [o_next EXCEPT ![o] = l_top], Heads,
                 [Holding EXCEPT ![p] = {}], F2, C)
  <2>1. ListsOf(l_top, l_len, o_next, Heads, Holding, F, C) /\ Holding[p] = {o}
    BY <1>5 DEF BankIs
  <2>2. PushedBack(l_top, l_len, o_next, Heads, Holding, F, C, p, o)
    BY <2>1, ListsPush
  <2> QED
    BY <1>6, <2>2 DEF PushedBack
<1>8. l_top' = o /\ l_len' = l_len + 1 /\ o_next' = [o_next EXCEPT ![o] = l_top]
  BY <1>4 DEF PushO, Pushed
<1>9. BankIs(F2, C)'
  BY <1>3, <1>5, <1>7, <1>8 DEF BankIs
<1>10. ListFrom[l_top] = F /\ Chains = C /\ (ListFrom[l_top])' = F2 /\ Chains' = C
  BY <1>9, Seen, SeenNext
<1>11. Bank!Return(p)
  <2>1. Holding' = [Holding EXCEPT ![p] = Holding[p] \ {o}]
    BY <1>5
  <2> QED
    BY <1>5, <1>7, <1>10, <2>1 DEF Bank!Return
<1> QED
  BY <1>9, <1>11 DEF StepTo, Bank!BankNext

\* A step that leaves the lists alone.
LEMMA StutterStep ==
  ASSUME NEW F, NEW C, BankIs(F, C), NEW p \in HUser,
         UNCHANGED <<l_top, l_len, o_next>>, Heads' = Heads, Holding' = Holding
  PROVE  StepTo(p, F, C, F, C)
<1>1. BankIs(F, C)'
  BY DEF BankIs
<1>2. ListFrom[l_top] = F /\ Chains = C /\ (ListFrom[l_top])' = F /\ Chains' = C
  BY <1>1, Seen, SeenNext
<1>3. UNCHANGED Bank!bvars
  BY <1>2 DEF Bank!bvars
<1> QED
  BY <1>1, <1>3 DEF StepTo

LEMMA HangStep ==
  ASSUME HashStates, HashStates', NEW F, NEW C, BankIs(F, C), NEW p \in HUser, AddOHt(p)
  PROVE  \E F2, C2 : StepTo(p, F, C, F2, C2)
<1>1. HeadsAre /\ HeadsAre'
  BY StatesHeads, StatesHeadsNext
<1>2. OthersStill(p) /\ h_pc[p] = "add" /\ h_pc'[p] = "idle"
  BY DEF HashStates, HashTypeOK, AddOHt, HGoto, OthersStill
<1>3. PICK o : o = h_o[p]
  OBVIOUS
<1>4. Holding[p] = {o} /\ Holding' = [Holding EXCEPT ![p] = {}]
  BY <1>2, <1>3, Hands
<1>5. PICK t \in HTable : t = h_t[p] /\ h_m[t] = {p}
  BY <1>2 DEF HashStates, TablesLocked, Locker
<1>6. PICK b \in HBucket :
        IF t_os[t][b] = NoObject
        THEN t_os' = [t_os EXCEPT ![t][b] = o] /\ o_next' = o_next
        ELSE o_next' = [o_next EXCEPT ![LastOf[t_os[t][b]]] = o] /\ t_os' = t_os
  BY <1>3, <1>5 DEF AddOHt
<1>7. Heads \in [HTable -> [HBucket -> Ends]]
  BY LinksTyped DEF Lists
\* Nobody empties t: its chains start where its heads are.
<1>8. \A q \in HUser : /\ h_pc[q] = "empty" => h_t[q] # t
                       /\ h_pc'[q] = "empty" => h_t'[q] # t
  <2>1. ASSUME NEW q \in HUser, h_pc[q] = "empty", h_t[q] = t PROVE FALSE
    BY <1>2, <1>5, <2>1 DEF HashStates, TablesLocked, Locker
  <2> QED
    BY <1>2, <2>1 DEF OthersStill
<1>9. Heads[t][b] = t_os[t][b] /\ ChainHead(t, b)' = t_os'[t][b]
  <2>1. ChainHead(t, b) = t_os[t][b]
    BY <1>1, <1>8 DEF HeadsAre
  <2>2. ChainHead(t, b)' = t_os'[t][b]
    BY <1>1, <1>8 DEF HeadsAre
  <2> QED
    BY <2>1, <2>2 DEF Heads
<1>10. IF Heads[t][b] = NoObject
       THEN o_next' = o_next /\ Heads' = [Heads EXCEPT ![t][b] = o]
       ELSE o_next' = [o_next EXCEPT ![Lasting(o_next)[Heads[t][b]]] = o] /\ Heads' = Heads
  <2>1. CASE t_os[t][b] = NoObject
    <3>1. PICK os : os = t_os /\ os \in [HTable -> [HBucket -> Ends]]
      BY DEF HashStates, HashTypeOK
    <3>2. t_os' = [os EXCEPT ![t][b] = o]
      BY <1>6, <2>1, <3>1
    <3>3. /\ t_os'[t][b] = o
          /\ \A u \in HTable, c \in HBucket : ~(u = t /\ c = b) => t_os'[u][c] = t_os[u][c]
      BY <3>1, <3>2
    <3>4. ASSUME NEW u \in HTable, NEW c \in HBucket
          PROVE  ChainHead(u, c)' = IF u = t /\ c = b THEN o ELSE Heads[u][c]
      <4>1. CASE u = t /\ c = b
        BY <1>9, <3>3, <4>1
      <4>2. CASE ~(u = t /\ c = b)
        <5>1. ChainHead(u, c)' = ChainHead(u, c)
          BY <1>1, <1>2, <3>3, <4>2, OtherHeads
        <5> QED
          BY <4>2, <5>1 DEF Heads
      <4> QED
        BY <4>1, <4>2
    <3>5. Heads' = [u \in HTable |-> [c \in HBucket |->
                     IF u = t /\ c = b THEN o ELSE Heads[u][c]]]
      BY <3>4 DEF Heads
    <3>6. Heads' = [Heads EXCEPT ![t][b] = o]
      <4>1. PICK H : H = Heads
        OBVIOUS
      <4> QED
        BY <1>7, <3>5, <4>1
    <3> QED
      BY <1>6, <1>9, <2>1, <3>6
  <2>2. CASE t_os[t][b] # NoObject
    <3>1. Heads' = Heads
      BY <1>1, <1>2, <1>6, <2>2, SameHeads
    <3>2. LastOf = Lasting(o_next)
      BY DEF LastOf, Lasting
    <3> QED
      BY <1>6, <1>9, <2>2, <3>1, <3>2
  <2> QED
    BY <2>1, <2>2
<1>11. PICK C2 : C2 = [C EXCEPT ![t][b] = Append(@, o)]
  OBVIOUS
<1>12. ListsOf(l_top, l_len, o_next', Heads', [Holding EXCEPT ![p] = {}], F, C2)
  <2>1. PICK n2, H2 : n2 = o_next' /\ H2 = Heads'
    OBVIOUS
  <2>2. HangsAt(o_next, Heads, t, b, o, n2, H2)
    BY <1>10, <2>1 DEF HangsAt
  <2>3. ListsOf(l_top, l_len, o_next, Heads, Holding, F, C)
    BY DEF BankIs
  <2>4. Hung(l_top, l_len, n2, H2, Holding, F, C, p, t, b, o)
    BY <1>4, <1>7, <2>2, <2>3, ListsHang
  <2> QED
    BY <1>11, <2>1, <2>4 DEF Hung
<1>13. BankIs(F, C2)'
  <2>1. l_top' = l_top /\ l_len' = l_len
    BY DEF AddOHt
  <2> QED
    BY <1>4, <1>12, <2>1 DEF BankIs
<1>14. ListFrom[l_top] = F /\ Chains = C /\ (ListFrom[l_top])' = F /\ Chains' = C2
  BY <1>13, Seen, SeenNext
<1>15. Bank!Hang(p)
  <2>1. Holding' = [Holding EXCEPT ![p] = Holding[p] \ {o}]
    BY <1>4
  <2> QED
    BY <1>4, <1>11, <1>14, <2>1 DEF Bank!Hang
<1>16. \A u \in HTable : (Locker(p) /\ h_t[p] = u) \/ C2[u] = C[u]
  <2>1. C \in [HTable -> [HBucket -> Seq(HObject)]]
    BY DEF BankIs, ListsOf
  <2> QED
    BY <1>2, <1>5, <1>11, <2>1 DEF Locker
<1> QED
  BY <1>13, <1>15, <1>16 DEF StepTo, Bank!BankNext

LEMMA LockStep ==
  ASSUME HashStates, HashStates', NEW F, NEW C, BankIs(F, C), NEW p \in HUser, LockTable(p)
  PROVE  StepTo(p, F, C, F, C) /\ OthersStill(p)
<1>1. HeadsAre /\ HeadsAre'
  BY StatesHeads, StatesHeadsNext
<1>2. PICK t \in HTable : /\ h_m[t] = {} /\ h_m' = [h_m EXCEPT ![t] = {p}]
                         /\ h_t' = [h_t EXCEPT ![p] = t]
  BY DEF LockTable
<1>3. PICK l \in {"add", "empty", "walk"} :
        /\ h_pc' = [h_pc EXCEPT ![p] = l]
        /\ \/ h_pc[p] = "holds" /\ l = "add"
           \/ h_pc[p] = "idle" /\ l \in {"empty", "walk"}
  BY DEF LockTable, HGoto
<1>4. h_pc'[p] = l /\ h_t'[p] = t /\ h_i'[p] = 0 /\ h_o' = h_o /\ t_os' = t_os
  BY <1>2, <1>3 DEF HashStates, HashTypeOK, LockTable
<1>5. OthersStill(p)
  BY <1>2, <1>3, <1>4 DEF HashStates, HashTypeOK, LockTable, OthersStill
<1>6. Holding' = Holding
  <2>1. Holding[p] = IF h_pc'[p] \in {"holds", "add"} THEN {h_o'[p]} ELSE {}
    BY <1>3, <1>4, <1>5, Hands
  <2> QED
    BY <1>5, <2>1, Hands DEF Holding
<1>7. ASSUME NEW u \in HTable, NEW b \in HBucket PROVE ChainHead(u, b)' = ChainHead(u, b)
  <2>1. CASE u = t /\ l = "empty"
    <3>1. \A q \in HUser : h_pc[q] = "empty" => h_t[q] # t
      BY <1>2 DEF HashStates, TablesLocked, Locker
    <3>2. ChainHead(t, b) = t_os[t][b]
      BY <1>1, <3>1 DEF HeadsAre
    <3>3. h_pc'[p] = "empty" /\ h_t'[p] = t
      BY <1>4, <2>1
    <3>4. ChainHead(t, b)' = IF b < h_i'[p] THEN NoObject
                             ELSE IF b = h_i'[p] /\ h_o'[p] # NoObject THEN h_o'[p]
                                  ELSE t_os'[t][b]
      BY <1>1, <3>3 DEF HeadsAre
    <3>5. h_o[p] = NoObject
      BY <1>3, <2>1 DEF HashStates, CursorsRight
    <3>6. ~(b < 0)
      BY HashAssumption DEF HBucket
    <3> QED
      BY <1>4, <2>1, <3>2, <3>4, <3>5, <3>6
  <2>2. CASE ~(u = t /\ l = "empty")
    <3>1. (h_pc'[p] = "empty" => h_t'[p] # u) /\ h_pc[p] # "empty"
      BY <1>3, <1>4, <2>2
    <3>2. t_os'[u][b] = t_os[u][b]
      BY <1>4
    <3> QED
      BY <1>1, <1>5, <3>1, <3>2, OtherHeads
  <2> QED
    BY <2>1, <2>2
<1>8. Heads' = Heads
  BY <1>7 DEF Heads
<1>9. UNCHANGED <<l_top, l_len, o_next>>
  BY DEF LockTable
<1> QED
  BY <1>5, <1>6, <1>8, <1>9, StutterStep

\* A step of the loops: only the cursor moves.
LEMMA CursorStep ==
  ASSUME HashStates, NEW p \in HUser, NextBucket(p) \/ EmptyOne(p) \/ WalkOne(p)
  PROVE  OthersStill(p) /\ Holding' = Holding /\ h_pc' = h_pc /\ h_t' = h_t
<1>1. /\ h_pc[p] \in {"empty", "walk"} /\ h_pc' = h_pc /\ h_t' = h_t
      /\ \E i, o : CursorTo(p, i, o)
  BY DEF NextBucket, EmptyOne, WalkOne
<1>2. OthersStill(p)
  BY <1>1 DEF CursorTo, HashStates, HashTypeOK, OthersStill
<1>3. Holding' = Holding
  BY <1>1, <1>2 DEF Holding, OthersStill
<1> QED
  BY <1>1, <1>2, <1>3

LEMMA BucketStep ==
  ASSUME HashStates, HashStates', NEW F, NEW C, BankIs(F, C), NEW p \in HUser, NextBucket(p)
  PROVE  StepTo(p, F, C, F, C)
<1>1. HeadsAre /\ HeadsAre'
  BY StatesHeads, StatesHeadsNext
<1>2. OthersStill(p) /\ Holding' = Holding /\ h_pc' = h_pc /\ h_t' = h_t
  BY CursorStep
<1>3. /\ h_pc[p] \in {"empty", "walk"} /\ h_o[p] = NoObject /\ h_i[p] < HLen
      /\ UNCHANGED <<l_top, l_len, o_next>> /\ t_os' = t_os
  BY DEF NextBucket
<1>4. PICK t \in HTable : t = h_t[p]
  BY <1>3 DEF HashStates, TablesLocked, Locker
<1>5. PICK n \in HBucket : n = h_i[p]
  BY <1>3, HashAssumption DEF HashStates, HashTypeOK, HBucket
<1>6. /\ h_i'[p] = IF t_os[t][n] = NoObject THEN n + 1 ELSE n
      /\ h_o'[p] = t_os[t][n]
  BY <1>4, <1>5 DEF HashStates, HashTypeOK, NextBucket, CursorTo
<1>7. ASSUME NEW u \in HTable, NEW b \in HBucket PROVE ChainHead(u, b)' = ChainHead(u, b)
  <2>1. CASE u = t /\ h_pc[p] = "empty"
    <3>1. ChainHead(t, b) = IF b < n THEN NoObject
                            ELSE IF b = n /\ h_o[p] # NoObject THEN h_o[p] ELSE t_os[t][b]
      BY <1>1, <1>4, <1>5, <2>1 DEF HeadsAre
    <3>2. h_pc'[p] = "empty" /\ h_t'[p] = t
      BY <1>2, <1>4, <2>1
    <3>3. ChainHead(t, b)' = IF b < h_i'[p] THEN NoObject
                             ELSE IF b = h_i'[p] /\ h_o'[p] # NoObject THEN h_o'[p]
                                  ELSE t_os'[t][b]
      BY <1>1, <3>2 DEF HeadsAre
    <3>4. b \in Int /\ n \in Int
      BY HashAssumption DEF HBucket
    <3> QED
      BY <1>3, <1>6, <2>1, <3>1, <3>3, <3>4
  <2>2. CASE ~(u = t /\ h_pc[p] = "empty")
    <3>1. (h_pc'[p] = "empty" => h_t'[p] # u) /\ (h_pc[p] = "empty" => h_t[p] # u)
      BY <1>2, <1>4, <2>2
    <3>2. t_os'[u][b] = t_os[u][b]
      BY <1>3
    <3> QED
      BY <1>1, <1>2, <3>1, <3>2, OtherHeads
  <2> QED
    BY <2>1, <2>2
<1>8. Heads' = Heads
  BY <1>7 DEF Heads
<1> QED
  BY <1>2, <1>3, <1>8, StutterStep

LEMMA WalkStep ==
  ASSUME HashStates, HashStates', NEW F, NEW C, BankIs(F, C), NEW p \in HUser, WalkOne(p)
  PROVE  StepTo(p, F, C, F, C)
<1>1. HeadsAre /\ HeadsAre'
  BY StatesHeads, StatesHeadsNext
<1>2. OthersStill(p) /\ Holding' = Holding /\ h_pc' = h_pc
  BY CursorStep
<1>3. h_pc[p] = "walk" /\ t_os' = t_os /\ UNCHANGED <<l_top, l_len, o_next>>
  BY DEF WalkOne
<1>4. Heads' = Heads
  BY <1>1, <1>2, <1>3, SameHeads
<1> QED
  BY <1>2, <1>3, <1>4, StutterStep

\* An unlock after a loop.
LEMMA EndStep ==
  ASSUME HashStates, HashStates', NEW F, NEW C, BankIs(F, C), NEW p \in HUser,
         EmptyEnd(p) \/ WalkEnd(p)
  PROVE  StepTo(p, F, C, F, C) /\ OthersStill(p)
<1>1. HeadsAre /\ HeadsAre'
  BY StatesHeads, StatesHeadsNext
<1>2. /\ h_pc[p] \in {"empty", "walk"} /\ h_pc' = [h_pc EXCEPT ![p] = "idle"]
      /\ h_t' = h_t /\ h_i' = h_i /\ h_o' = h_o /\ h_i[p] = HLen
      /\ UNCHANGED <<l_top, l_len, o_next>>
  BY DEF EmptyEnd, WalkEnd, HGoto
<1>3. OthersStill(p) /\ h_pc'[p] = "idle"
  BY <1>2 DEF HashStates, HashTypeOK, OthersStill
<1>4. Holding' = Holding
  BY <1>2, <1>3 DEF Holding, OthersStill
<1>5. Heads' = Heads
  <2>1. CASE WalkEnd(p)
    BY <1>1, <1>3, <2>1, SameHeads DEF WalkEnd
  <2>2. CASE EmptyEnd(p)
    <3>1. PICK t \in HTable : t = h_t[p] /\ h_m[t] = {p}
      BY <1>2 DEF HashStates, TablesLocked, Locker
    <3>2. /\ \A b \in HBucket : t_os'[t][b] = NoObject
          /\ \A u \in HTable : u # t => t_os'[u] = t_os[u]
      <4>1. PICK os : os = t_os /\ os \in [HTable -> [HBucket -> Ends]]
        BY DEF HashStates, HashTypeOK
      <4>2. t_os' = [os EXCEPT ![t] = [b \in HBucket |-> NoObject]]
        BY <2>2, <3>1, <4>1 DEF EmptyEnd
      <4> QED
        BY <4>1, <4>2
    <3>3. ASSUME NEW u \in HTable, NEW b \in HBucket PROVE ChainHead(u, b)' = ChainHead(u, b)
      <4>1. CASE u = t
        <5>1. h_pc[p] = "empty" /\ b < h_i[p]
          BY <1>2, <2>2, HashAssumption DEF EmptyEnd, HBucket
        <5>2. ChainHead(t, b) = NoObject
          BY <1>1, <3>1, <5>1 DEF HeadsAre
        <5>3. \A q \in HUser : h_pc'[q] = "empty" => h_t'[q] # t
          <6>1. ASSUME NEW q \in HUser, q # p, h_pc[q] = "empty" PROVE h_t[q] # t
            BY <3>1, <6>1 DEF HashStates, TablesLocked, Locker
          <6> QED
            BY <1>3, <6>1 DEF OthersStill
        <5>4. ChainHead(t, b)' = t_os'[t][b]
          BY <1>1, <5>3 DEF HeadsAre
        <5> QED
          BY <3>2, <4>1, <5>2, <5>4
      <4>2. CASE u # t
        <5>1. (h_pc'[p] = "empty" => h_t'[p] # u) /\ (h_pc[p] = "empty" => h_t[p] # u)
          BY <1>2, <3>1, <4>2
        <5>2. t_os'[u][b] = t_os[u][b]
          BY <3>2, <4>2
        <5> QED
          BY <1>1, <1>3, <5>1, <5>2, OtherHeads
      <4> QED
        BY <4>1, <4>2
    <3> QED
      BY <3>3 DEF Heads
  <2> QED
    BY <2>1, <2>2
<1> QED
  BY <1>2, <1>3, <1>4, <1>5, StutterStep

LEMMA ReleaseStep ==
  ASSUME HashStates, HashStates', NEW F, NEW C, BankIs(F, C), NEW p \in HUser, EmptyOne(p)
  PROVE  \E F2, C2 : StepTo(p, F, C, F2, C2)
<1>1. HeadsAre /\ HeadsAre'
  BY StatesHeads, StatesHeadsNext
<1>2. OthersStill(p) /\ Holding' = Holding /\ h_pc' = h_pc /\ h_t' = h_t
  BY CursorStep
<1>3. PICK o : o = h_o[p]
  OBVIOUS
<1>4. /\ h_pc[p] = "empty" /\ o # NoObject /\ h_i[p] < HLen /\ t_os' = t_os
      /\ l_top' = o /\ l_len' = l_len + 1 /\ o_next' = [o_next EXCEPT ![o] = l_top]
  BY <1>3 DEF EmptyOne, Pushed, HashStates, CursorsRight
<1>5. PICK t \in HTable : t = h_t[p]
  BY <1>4 DEF HashStates, TablesLocked, Locker
<1>6. PICK n \in HBucket : n = h_i[p]
  BY <1>4, HashAssumption DEF HashStates, HashTypeOK, HBucket
<1>7. /\ h_i'[p] = IF o_next[o] = NoObject THEN n + 1 ELSE n
      /\ h_o'[p] = o_next[o]
  BY <1>3, <1>6 DEF HashStates, HashTypeOK, EmptyOne, CursorTo
<1>8. \A b \in HBucket : b \in Int
  BY HashAssumption DEF HBucket
<1>9. o = Heads[t][n]
  <2>1. ChainHead(t, n) = IF n < h_i[p] THEN NoObject
                          ELSE IF n = h_i[p] /\ h_o[p] # NoObject THEN h_o[p] ELSE t_os[t][n]
    BY <1>1, <1>4, <1>5 DEF HeadsAre
  <2>2. ChainHead(t, n) = o
    BY <1>3, <1>4, <1>6, <1>8, <2>1
  <2> QED
    BY <2>2 DEF Heads
<1>10. ASSUME NEW u \in HTable, NEW b \in HBucket
       PROVE  ChainHead(u, b)' = IF u = t /\ b = n THEN o_next[o] ELSE Heads[u][b]
  <2>1. CASE u = t
    <3>1. ChainHead(t, b) = IF b < n THEN NoObject
                            ELSE IF b = n /\ h_o[p] # NoObject THEN h_o[p] ELSE t_os[t][b]
      BY <1>1, <1>4, <1>5, <1>6 DEF HeadsAre
    <3>2. h_pc'[p] = "empty" /\ h_t'[p] = t
      BY <1>2, <1>4, <1>5
    <3>3. ChainHead(t, b)' = IF b < h_i'[p] THEN NoObject
                             ELSE IF b = h_i'[p] /\ h_o'[p] # NoObject THEN h_o'[p]
                                  ELSE t_os'[t][b]
      BY <1>1, <3>2 DEF HeadsAre
    <3>4. b \in Int /\ n \in Int /\ Heads[t][b] = ChainHead(t, b)
      BY <1>8 DEF Heads
    <3> QED
      BY <1>4, <1>7, <2>1, <3>1, <3>3, <3>4
  <2>2. CASE u # t
    <3>1. (h_pc'[p] = "empty" => h_t'[p] # u) /\ (h_pc[p] = "empty" => h_t[p] # u)
      BY <1>2, <1>5, <2>2
    <3>2. t_os'[u][b] = t_os[u][b]
      BY <1>4
    <3>3. ChainHead(u, b)' = ChainHead(u, b)
      BY <1>1, <1>2, <3>1, <3>2, OtherHeads
    <3> QED
      BY <2>2, <3>3 DEF Heads
  <2> QED
    BY <2>1, <2>2
<1>11. PICK H2 : H2 = Heads'
  OBVIOUS
<1>12. /\ H2 \in [HTable -> [HBucket -> Ends]]
       /\ \A u \in HTable, b \in HBucket :
            H2[u][b] = IF u = t /\ b = n THEN o_next[o] ELSE Heads[u][b]
  <2>1. /\ o_next \in [HObject -> Ends] /\ Heads \in [HTable -> [HBucket -> Ends]]
    BY LinksTyped DEF Lists
  <2>2. o \in HObject
    BY <1>4, <1>9, <2>1 DEF Ends
  <2>3. H2 = [u \in HTable |-> [b \in HBucket |->
                IF u = t /\ b = n THEN o_next[o] ELSE Heads[u][b]]]
    BY <1>10, <1>11 DEF Heads
  <2>4. \A u \in HTable, b \in HBucket :
          (IF u = t /\ b = n THEN o_next[o] ELSE Heads[u][b]) \in Ends
    BY <2>1, <2>2
  <2> QED
    BY <2>3, <2>4
<1>13. PICK F2, C2 : F2 = <<o>> \o F /\ C2 = [C EXCEPT ![t][n] = Tail(@)]
  OBVIOUS
<1>14. Released(l_top, l_len, o_next, H2, Holding, F, C, t, n, o)
  <2>1. ListsOf(l_top, l_len, o_next, Heads, Holding, F, C)
    BY DEF BankIs
  <2> QED
    BY <1>4, <1>9, <1>12, <2>1, ListsRelease
<1>15. BankIs(F2, C2)'
  <2>1. ListsOf(o, l_len + 1, [o_next EXCEPT ![o] = l_top], H2, Holding, F2, C2)
    BY <1>13, <1>14 DEF Released
  <2> QED
    BY <1>2, <1>4, <1>11, <2>1 DEF BankIs
<1>16. ListFrom[l_top] = F /\ Chains = C /\ (ListFrom[l_top])' = F2 /\ Chains' = C2
  BY <1>15, Seen, SeenNext
<1>17. Bank!Release
  BY <1>2, <1>13, <1>14, <1>16 DEF Bank!Release, Released
<1>18. \A u \in HTable : (Locker(p) /\ h_t[p] = u) \/ C2[u] = C[u]
  <2>1. C \in [HTable -> [HBucket -> Seq(HObject)]]
    BY DEF BankIs, ListsOf
  <2> QED
    BY <1>4, <1>5, <1>13, <2>1 DEF Locker
<1> QED
  BY <1>15, <1>17, <1>18 DEF StepTo, Bank!BankNext

(***************************************************************************)
(* The first state.                                                        *)
(***************************************************************************)
LEMMA RowRight ==
  /\ Row \in Seq(HObject)
  /\ \A i, j \in 1 .. Len(Row) : Row[i] = Row[j] => i = j
  /\ \A o \in HObject : \E i \in 1 .. Len(Row) : Row[i] = o
<1>1. PICK n \in Nat : n = Cardinality(HObject)
  BY HashAssumption, FS_CardinalityType
<1>2. Bijection(1 .. n, HObject) # {}
  BY <1>1, HashAssumption, FS_CardinalityType DEF ExistsBijection
<1>3. \E f \in [1 .. n -> HObject] : IsInjective(f)
  BY <1>2 DEF Bijection, Injection
<1>4. Row \in [1 .. n -> HObject] /\ IsInjective(Row)
  <2>1. Row = CHOOSE f \in [1 .. n -> HObject] : IsInjective(f)
    BY <1>1 DEF Row, SetToSeq
  <2> QED
    BY <1>3, <2>1
<1>5. Row \in Seq(HObject) /\ Len(Row) = n
  BY <1>4
<1>6. Row \in Injection(1 .. n, HObject)
  BY <1>4 DEF Injection
<1>7. Cardinality(1 .. n) = n
  BY FS_Interval
<1>8. Row \in Surjection(1 .. n, HObject)
  BY <1>1, <1>6, <1>7, HashAssumption, FS_Injection
<1> QED
  BY <1>4, <1>5, <1>8 DEF Surjection, IsInjective

LEMMA ListsInit ==
  ASSUME HashInit
  PROVE  \E C : BankIs(Row, C) /\ C = [t \in HTable |-> [b \in HBucket |-> <<>>]]
<1>1. PICK C : C = [t \in HTable |-> [b \in HBucket |-> <<>>]]
  OBVIOUS
<1>2. /\ C \in [HTable -> [HBucket -> Seq(HObject)]]
      /\ \A t \in HTable, b \in HBucket : C[t][b] = <<>> /\ Len(C[t][b]) = 0
  BY <1>1
<1>3. Holding = [p \in HUser |-> {}] /\ \A p \in HUser : Holding[p] = {}
  BY DEF Holding, HashInit
<1>4. \A t \in HTable, b \in HBucket : Heads[t][b] = NoObject
  <2>1. \A t \in HTable, b \in HBucket : ChainHead(t, b) = NoObject
    BY StatesInit, StatesHeads DEF HeadsAre, HashInit
  <2> QED
    BY <2>1 DEF Heads
<1>5. PICK n \in Nat : n = Len(Row)
  BY RowRight
<1>6. \A i \in 1 .. n : /\ Row[i] \in HObject
                       /\ o_next[Row[i]] = IF i = n THEN NoObject ELSE Row[i + 1]
  <2>1. ASSUME NEW i \in 1 .. n
        PROVE  /\ Row[i] \in HObject
               /\ o_next[Row[i]] = IF i = n THEN NoObject ELSE Row[i + 1]
    <3>1. DOMAIN Row = 1 .. n /\ Row[i] \in HObject
      BY <1>5, RowRight
    <3>2. RowPlace(Row[i]) = i
      BY <1>5, <3>1, RowRight DEF RowPlace
    <3>3. RowAfter(Row[i]) = IF i = n THEN NoObject ELSE Row[i + 1]
      BY <1>5, <3>2 DEF RowAfter
    <3> QED
      BY <3>1, <3>3 DEF HashInit
  <2> QED
    BY <2>1
<1>7. o_next \in [HObject -> Ends]
  <2>1. ASSUME NEW o \in HObject PROVE o_next[o] \in Ends
    <3>1. PICK i \in 1 .. n : Row[i] = o
      BY <1>5, RowRight
    <3>2. i # n => i + 1 \in 1 .. n
      OBVIOUS
    <3> QED
      BY <1>6, <3>1, <3>2 DEF Ends
  <2>2. o_next = [o \in HObject |-> o_next[o]]
    BY DEF HashInit
  <2> QED
    BY <2>1, <2>2
<1>8. PathOf(o_next, l_top, Row) /\ l_len = Len(Row)
  <2>1. l_top = IF n = 0 THEN NoObject ELSE Row[1]
    BY <1>5, RowRight DEF HashInit
  <2> QED
    BY <1>5, <1>6, <2>1, RowRight DEF PathOf, HashInit
<1>9. \A t \in HTable, b \in HBucket : PathOf(o_next, Heads[t][b], C[t][b])
  BY <1>2, <1>4, EmptyPath
<1>10. Apart(Holding, Row, C)
  BY <1>2, <1>3, RowRight DEF Apart
<1>11. Covered(Holding, Row, C)
  BY RowRight DEF Covered
<1>12. BankIs(Row, C)
  BY <1>2, <1>3, <1>7, <1>8, <1>9, <1>10, <1>11, RowRight DEF BankIs, ListsOf
<1> QED
  BY <1>1, <1>12

LEMMA BankStarts ==
  ASSUME HashInit
  PROVE  Bank!BankInit
<1>1. PICK C : BankIs(Row, C) /\ C = [t \in HTable |-> [b \in HBucket |-> <<>>]]
  BY ListsInit
<1>2. ListFrom[l_top] = Row /\ Chains = C
  BY <1>1, Seen
<1>3. ToSet(Row) = HObject
  <2>1. DOMAIN Row = 1 .. Len(Row) /\ \A i \in 1 .. Len(Row) : Row[i] \in HObject
    BY RowRight
  <2> QED
    BY <2>1, RowRight DEF ToSet
<1>4. Holding = [p \in HUser |-> {}]
  BY DEF Holding, HashInit
<1> QED
  BY <1>1, <1>2, <1>3, <1>4 DEF Bank!BankInit

(***************************************************************************)
(* The walk.                                                               *)
(***************************************************************************)
\* The function in FlattenSeq.
Flattening(s, n) ==
  CHOOSE f : f = [i \in 1 .. n |-> IF i = 1 THEN s[i] ELSE f[i - 1] \o s[i]]

LEMMA FlatteningIs ==
  ASSUME NEW s, NEW n \in Nat
  PROVE  \A i \in 1 .. n : Flattening(s, n)[i] =
           IF i = 1 THEN s[i] ELSE Flattening(s, n)[i - 1] \o s[i]
<1> DEFINE Rec(f, m) == [i \in 1 .. m |-> IF i = 1 THEN s[i] ELSE f[i - 1] \o s[i]]
           T == {m \in Nat : \E f : f = Rec(f, m)}
<1>1. 0 \in T
  <2>1. PICK f : f = [i \in 1 .. 0 |-> <<>>]
    OBVIOUS
  <2>2. f = Rec(f, 0)
    BY <2>1
  <2> QED
    BY <2>2
<1>2. ASSUME NEW m \in T PROVE m + 1 \in T
  <2>1. PICK f : f = Rec(f, m)
    BY <1>2
  <2>2. PICK last : last = IF m = 0 THEN s[1] ELSE f[m] \o s[m + 1]
    OBVIOUS
  <2>3. PICK g : g = [i \in 1 .. m + 1 |-> IF i = m + 1 THEN last ELSE f[i]]
    OBVIOUS
  <2>4. \A i \in 1 .. m : f[i] = IF i = 1 THEN s[i] ELSE f[i - 1] \o s[i]
    BY <2>1
  <2> HIDE DEF Rec
  <2>5. ASSUME NEW i \in 1 .. m + 1
        PROVE  g[i] = IF i = 1 THEN s[i] ELSE g[i - 1] \o s[i]
    <3>1. CASE i = m + 1
      <4>1. i # 1 => i - 1 \in 1 .. m /\ i - 1 = m /\ g[i - 1] = f[m]
        BY <2>3, <3>1
      <4> QED
        BY <2>2, <2>3, <3>1, <4>1
    <3>2. CASE i # m + 1
      <4>1. i \in 1 .. m /\ g[i] = f[i]
        BY <2>3, <3>2
      <4>2. i # 1 => i - 1 \in 1 .. m + 1 /\ i - 1 # m + 1 /\ g[i - 1] = f[i - 1]
        BY <2>3, <3>2
      <4> QED
        BY <2>4, <4>1, <4>2
    <3> QED
      BY <3>1, <3>2
  <2>6. g = [i \in 1 .. m + 1 |-> g[i]]
    BY <2>3
  <2>7. g = Rec(g, m + 1)
    BY <2>5, <2>6 DEF Rec
  <2> QED
    BY <2>7
<1>3. T = Nat
  <2> HIDE DEF T
  <2>1. T \in SUBSET Nat
    BY DEF T
  <2> QED
    BY <1>1, <1>2, <2>1, EveryNumber
<1>4. PICK g : g = Flattening(s, n)
  OBVIOUS
<1>5. \E f : f = Rec(f, n)
  BY <1>3
<1>6. g = Rec(g, n)
  BY <1>4, <1>5 DEF Flattening
<1> QED
  BY <1>4, <1>6

\* A longer sequence begins with what a shorter one flattens to.
LEMMA FlatteningSame ==
  ASSUME NEW s, NEW u, NEW n \in Nat, NEW m \in Nat, n <= m,
         \A i \in 1 .. n : s[i] = u[i]
  PROVE  \A i \in 1 .. n : Flattening(s, n)[i] = Flattening(u, m)[i]
<1> DEFINE T == {i \in Nat : i \in 1 .. n => Flattening(s, n)[i] = Flattening(u, m)[i]}
<1>1. 0 \in T
  OBVIOUS
<1>2. ASSUME NEW i \in T PROVE i + 1 \in T
  <2>1. SUFFICES ASSUME i + 1 \in 1 .. n
                 PROVE  Flattening(s, n)[i + 1] = Flattening(u, m)[i + 1]
    OBVIOUS
  <2>2. i + 1 \in 1 .. m /\ i + 1 - 1 = i /\ s[i + 1] = u[i + 1]
    BY <2>1
  <2>3. Flattening(s, n)[i + 1] = IF i + 1 = 1 THEN s[i + 1]
                                  ELSE Flattening(s, n)[i] \o s[i + 1]
    BY <2>1, <2>2, FlatteningIs
  <2>4. Flattening(u, m)[i + 1] = IF i + 1 = 1 THEN u[i + 1]
                                  ELSE Flattening(u, m)[i] \o u[i + 1]
    BY <2>2, FlatteningIs
  <2>5. i + 1 # 1 => Flattening(s, n)[i] = Flattening(u, m)[i]
    BY <1>2, <2>1
  <2> QED
    BY <2>2, <2>3, <2>4, <2>5
<1>3. T = Nat
  <2> HIDE DEF T
  <2>1. T \in SUBSET Nat
    BY DEF T
  <2> QED
    BY <1>1, <1>2, <2>1, EveryNumber
<1> QED
  BY <1>3

LEMMA FlattenIs ==
  ASSUME NEW s, Len(s) # 0
  PROVE  FlattenSeq(s) = Flattening(s, Len(s))[Len(s)]
  BY Zenon DEF FlattenSeq, Flattening

LEMMA FirstChainsIs ==
  ASSUME NEW c \in [HBucket -> Seq(HObject)]
  PROVE  /\ FirstChains(c, 0) = <<>>
         /\ \A n \in HBucket : /\ FirstChains(c, n) \in Seq(HObject)
                               /\ FirstChains(c, n + 1) = FirstChains(c, n) \o c[n]
<1> DEFINE s(n) == [i \in 1 .. n |-> c[i - 1]]
<1>1. FirstChains(c, 0) = <<>>
  <2>1. s(0) = <<>>
    OBVIOUS
  <2> QED
    BY <2>1 DEF FirstChains, FlattenSeq
<1>2. ASSUME NEW n \in Nat, n + 1 <= HLen
      PROVE  FirstChains(c, n + 1) = FirstChains(c, n) \o c[n] /\ c[n] \in Seq(HObject)
  <2>0. n \in HBucket
    BY <1>2, HashAssumption DEF HBucket
  <2>1. ASSUME NEW m \in Nat PROVE Len(s(m)) = m
    <3>1. PICK v : v = s(m)
      OBVIOUS
    <3>2. PICK S : S = {c[i - 1] : i \in 1 .. m}
      OBVIOUS
    <3>3. v \in [1 .. m -> S]
      BY <3>1, <3>2
    <3>4. v \in Seq(S) /\ Len(v) = m
      BY <3>3
    <3> QED
      BY <3>1, <3>4
  <2>2. PICK s1, s2 : s1 = s(n) /\ s2 = s(n + 1)
    OBVIOUS
  <2>3. /\ Len(s1) = n /\ Len(s2) = n + 1 /\ s2[n + 1] = c[n]
        /\ \A i \in 1 .. n : s1[i] = s2[i]
    <3>1. Len(s1) = n /\ Len(s2) = n + 1
      BY <2>1, <2>2
    <3>2. \A i \in 1 .. n + 1 : s2[i] = c[i - 1]
      BY <2>2
    <3>3. \A i \in 1 .. n : s1[i] = c[i - 1] /\ i \in 1 .. n + 1
      BY <2>2
    <3>4. n + 1 \in 1 .. n + 1 /\ n + 1 - 1 = n
      OBVIOUS
    <3> QED
      BY <3>1, <3>2, <3>3, <3>4
  <2>4. FirstChains(c, n + 1) = Flattening(s2, n + 1)[n + 1]
    BY <2>2, <2>3, FlattenIs DEF FirstChains
  <2>5. CASE n = 0
    <3>1. Flattening(s2, n + 1)[n + 1] = s2[n + 1]
      BY <2>5, FlatteningIs
    <3>2. <<>> \o c[n] = c[n] /\ c[n] \in Seq(HObject)
      BY <2>0
    <3> QED
      BY <1>1, <2>3, <2>4, <2>5, <3>1, <3>2
  <2>6. CASE n # 0
    <3>1. FirstChains(c, n) = Flattening(s1, n)[n]
      BY <2>2, <2>3, <2>6, FlattenIs DEF FirstChains
    <3>2. n \in 1 .. n /\ n <= n + 1 /\ n + 1 \in 1 .. n + 1 /\ n + 1 # 1 /\ n + 1 - 1 = n
      BY <2>6
    <3>3. Flattening(s1, n)[n] = Flattening(s2, n + 1)[n]
      BY <2>3, <3>2, FlatteningSame
    <3>4. Flattening(s2, n + 1)[n + 1] = Flattening(s2, n + 1)[n] \o s2[n + 1]
      <4>1. PICK m \in Nat : m = n + 1
        OBVIOUS
      <4>2. \A i \in 1 .. m : Flattening(s2, m)[i] =
              IF i = 1 THEN s2[i] ELSE Flattening(s2, m)[i - 1] \o s2[i]
        BY FlatteningIs
      <4>3. m \in 1 .. m /\ m # 1 /\ m - 1 = n
        BY <3>2, <4>1
      <4>4. Flattening(s2, m)[m] = Flattening(s2, m)[n] \o s2[m]
        BY <4>2, <4>3
      <4> QED
        BY <4>1, <4>4
    <3> QED
      BY <2>0, <2>3, <2>4, <3>1, <3>3, <3>4
  <2> QED
    BY <2>5, <2>6
<1> HIDE DEF s
<1> DEFINE T == {n \in Nat : n <= HLen => FirstChains(c, n) \in Seq(HObject)}
<1>3. 0 \in T
  <2>1. <<>> \in Seq(HObject)
    OBVIOUS
  <2> QED
    BY <1>1, <2>1
<1>4. ASSUME NEW n \in T PROVE n + 1 \in T
  <2>1. SUFFICES ASSUME n + 1 <= HLen PROVE FirstChains(c, n + 1) \in Seq(HObject)
    OBVIOUS
  <2>2. n <= HLen
    BY <2>1, HashAssumption
  <2>3. FirstChains(c, n) \in Seq(HObject)
    BY <2>2
  <2>4. FirstChains(c, n + 1) = FirstChains(c, n) \o c[n] /\ c[n] \in Seq(HObject)
    BY <1>2, <2>1
  <2>5. \A x, y \in Seq(HObject) : x \o y \in Seq(HObject)
    OBVIOUS
  <2>6. FirstChains(c, n + 1) \in Seq(HObject)
    BY <2>3, <2>4, <2>5
  <2> QED
    BY <2>6
<1>5. T = Nat
  <2> HIDE DEF T
  <2>1. T \in SUBSET Nat
    BY DEF T
  <2> QED
    BY <1>3, <1>4, <2>1, EveryNumber
<1>6. \A n \in HBucket : n \in Nat /\ n + 1 <= HLen /\ n <= HLen
  BY HashAssumption DEF HBucket
<1> QED
  BY <1>1, <1>2, <1>5, <1>6

LEMMA OneMore ==
  ASSUME NEW a \in Seq(HObject), NEW s \in Seq(HObject), NEW k \in 1 .. Len(s)
  PROVE  /\ Append(a \o SubSeq(s, 1, k - 1), s[k]) = a \o SubSeq(s, 1, k)
         /\ SubSeq(s, 1, Len(s)) = s /\ SubSeq(s, 1, 0) = <<>> /\ a \o <<>> = a
<1>1. SubSeq(s, 1, Len(s)) = s /\ SubSeq(s, 1, 0) = <<>> /\ a \o <<>> = a
  OBVIOUS
<1>2. PICK b, d : b = SubSeq(s, 1, k - 1) /\ d = SubSeq(s, 1, k)
  OBVIOUS
<1>3. PICK x \in HObject : x = s[k]
  BY ElementOfSeq
<1>4. 1 \in 1 .. Len(s) /\ k \in 1 .. Len(s) /\ k \in Nat
  BY LenProperties
<1>5. d = b \o <<x>>
  BY <1>2, <1>3, <1>4, SubSeqRecursiveSecond
<1>6. b \in Seq(HObject)
  <2>1. \A i \in 1 .. k - 1 : s[i] \in HObject
    BY <1>4, LenProperties, ElementOfSeq
  <2> QED
    BY <1>2, <1>4, <2>1, SubSeqProperties
<1>7. \A u \in Seq(HObject) : Append(u, x) = u \o <<x>>
  BY <1>3
<1>8. Append(a \o b, x) = (a \o b) \o <<x>>
  <2>1. a \o b \in Seq(HObject)
    BY <1>6, ConcatProperties
  <2> QED
    BY <1>7, <2>1
<1>9. (a \o b) \o <<x>> = a \o (b \o <<x>>)
  <2>1. <<x>> \in Seq(HObject)
    BY <1>3
  <2>2. \A u, v, w \in Seq(HObject) : (u \o v) \o w = u \o (v \o w)
    BY SMTT(30)
  <2>3. PICK w \in Seq(HObject) : w = <<x>>
    BY <2>1
  <2>4. (a \o b) \o w = a \o (b \o w)
    BY ZenonT(40), <1>6, <2>2
  <2> QED
    BY <2>3, <2>4, Zenon
<1> QED
  BY <1>1, <1>2, <1>3, <1>5, <1>8, <1>9

\* The steps of the others leave a walk where it is.
LEMMA OtherWalks ==
  ASSUME HashStates, NEW p \in HUser, NEW F, NEW C, NEW F2, NEW C2,
         StepTo(p, F, C, F2, C2), OthersStill(p), WalksRight(C),
         \A q \in HUser : q # p => h_seen'[q] = h_seen[q],
         \A t \in HTable : h_pc'[p] = "walk" /\ h_t'[p] = t => WalkedSoFar(p, C2[t])'
  PROVE  WalksRight(C2)'
<1> SUFFICES ASSUME NEW q \in HUser, NEW t \in HTable, h_pc'[q] = "walk", h_t'[q] = t
             PROVE  WalkedSoFar(q, C2[t])'
  BY DEF WalksRight
<1>1. CASE q = p
  BY <1>1
<1>2. CASE q # p
  <2>1. /\ h_pc[q] = "walk" /\ h_t'[q] = h_t[q] /\ h_i'[q] = h_i[q] /\ h_o'[q] = h_o[q]
        /\ h_seen'[q] = h_seen[q]
    BY <1>2 DEF OthersStill
  <2>2. h_t[q] = t /\ ~(Locker(p) /\ h_t[p] = t)
    BY <1>2, <2>1 DEF HashStates, TablesLocked, Locker
  <2>3. C2[t] = C[t]
    BY <2>2 DEF StepTo
  <2>4. WalkedSoFar(q, C[t])
    BY <2>1, <2>2 DEF WalksRight
  <2> QED
    BY <2>1, <2>3, <2>4 DEF WalkedSoFar
<1> QED
  BY <1>1, <1>2

\* The chains of a table that is walked start at its heads.
LEMMA WalkedHeads ==
  ASSUME HashStates, NEW p \in HUser, h_pc[p] = "walk", NEW F, NEW C, BankIs(F, C)
  PROVE  /\ h_t[p] \in HTable /\ C[h_t[p]] \in [HBucket -> Seq(HObject)]
         /\ \A b \in HBucket : PathOf(o_next, t_os[h_t[p]][b], C[h_t[p]][b])
<1>1. PICK t \in HTable : t = h_t[p] /\ h_m[t] = {p}
  BY DEF HashStates, TablesLocked, Locker
<1>2. C[t] \in [HBucket -> Seq(HObject)]
  BY DEF BankIs, ListsOf
<1>3. \A q \in HUser : h_pc[q] = "empty" => h_t[q] # t
  BY <1>1 DEF HashStates, TablesLocked, Locker
<1>4. \A b \in HBucket : Heads[t][b] = t_os[t][b]
  BY <1>3, StatesHeads DEF HeadsAre, Heads
<1>5. \A b \in HBucket : PathOf(o_next, Heads[t][b], C[t][b])
  BY DEF BankIs, ListsOf
<1> QED
  BY <1>1, <1>2, <1>4, <1>5

LEMMA WalkBucket ==
  ASSUME HashStates, NEW p \in HUser, h_pc[p] = "walk", NEW F, NEW C, BankIs(F, C),
         NextBucket(p), WalkedSoFar(p, C[h_t[p]])
  PROVE  \A t \in HTable : h_t'[p] = t => WalkedSoFar(p, C[t])'
<1>1. PICK t \in HTable : t = h_t[p] /\ h_t'[p] = t
  BY WalkedHeads DEF NextBucket
<1>2. PICK c \in [HBucket -> Seq(HObject)] : c = C[t]
  BY <1>1, WalkedHeads
<1>3. PICK n \in HBucket : n = h_i[p]
  BY HashAssumption DEF HashStates, HashTypeOK, HBucket, NextBucket
<1>4. PICK x : x = t_os[t][n]
  OBVIOUS
<1>5. /\ h_i'[p] = IF x = NoObject THEN n + 1 ELSE n
      /\ h_o'[p] = x /\ h_seen'[p] = h_seen[p]
  BY <1>1, <1>3, <1>4 DEF HashStates, HashTypeOK, NextBucket, CursorTo
<1>6. PathOf(o_next, x, c[n])
  BY <1>1, <1>2, <1>4, WalkedHeads
<1>7. h_seen[p] = FirstChains(c, n) /\ FirstChains(c, n) \in Seq(HObject)
  BY <1>1, <1>2, <1>3, FirstChainsIs DEF WalkedSoFar, NextBucket
<1>8. FirstChains(c, n) \o <<>> = FirstChains(c, n)
  BY <1>7
<1>9. WalkedSoFar(p, c)'
  <2>1. CASE x = NoObject
    <3>1. c[n] = <<>>
      BY <1>6, <2>1, EmptyPath
    <3>2. FirstChains(c, n + 1) = FirstChains(c, n)
      BY <1>8, <3>1, FirstChainsIs
    <3>3. h_seen'[p] = FirstChains(c, h_i'[p]) /\ h_o'[p] = NoObject
      BY <1>5, <1>7, <2>1, <3>2
    <3> QED
      BY <3>3 DEF WalkedSoFar
  <2>2. CASE x # NoObject
    <3>1. 1 \in 1 .. Len(c[n]) /\ c[n][1] = x
      BY <1>6, <2>2 DEF PathOf
    <3>2. SubSeq(c[n], 1, 1 - 1) = <<>>
      BY <3>1, OneMore, <1>7
    <3>3. h_seen'[p] = FirstChains(c, n) \o SubSeq(c[n], 1, 1 - 1)
      BY <1>5, <1>7, <1>8, <3>2
    <3> QED
      BY <1>5, <2>2, <3>1, <3>3 DEF WalkedSoFar
  <2> QED
    BY <2>1, <2>2
<1> QED
  BY <1>1, <1>2, <1>9

LEMMA WalkAlong ==
  ASSUME HashStates, NEW p \in HUser, NEW F, NEW C, BankIs(F, C),
         WalkOne(p), WalkedSoFar(p, C[h_t[p]])
  PROVE  \A t \in HTable : h_t'[p] = t => WalkedSoFar(p, C[t])'
<1>0. h_pc[p] = "walk" /\ h_o[p] # NoObject
  BY DEF WalkOne
<1>1. PICK t \in HTable : t = h_t[p] /\ h_t'[p] = t
  BY <1>0, WalkedHeads DEF WalkOne
<1>2. PICK c \in [HBucket -> Seq(HObject)] : c = C[t]
  BY <1>0, <1>1, WalkedHeads
<1>3. PICK n \in HBucket : n = h_i[p]
  BY <1>0, HashAssumption DEF HashStates, HashTypeOK, CursorsRight, HBucket
<1>4. PICK x, y : x = h_o[p] /\ y = o_next[x]
  OBVIOUS
<1>5. /\ h_i'[p] = IF y = NoObject THEN n + 1 ELSE n
      /\ h_o'[p] = y /\ h_seen'[p] = Append(h_seen[p], x)
  BY <1>3, <1>4 DEF HashStates, HashTypeOK, WalkOne, CursorTo
<1>6. PICK k \in 1 .. Len(c[n]) :
        c[n][k] = x /\ h_seen[p] = FirstChains(c, n) \o SubSeq(c[n], 1, k - 1)
  BY <1>0, <1>1, <1>2, <1>3, <1>4 DEF WalkedSoFar
<1>7. PICK s \in Seq(HObject), a \in Seq(HObject) : s = c[n] /\ a = FirstChains(c, n)
  BY FirstChainsIs
<1>8. h_seen'[p] = a \o SubSeq(s, 1, k)
  <2>1. k \in 1 .. Len(s) /\ s[k] = x
    BY <1>6, <1>7
  <2>2. h_seen'[p] = Append(a \o SubSeq(s, 1, k - 1), s[k])
    BY <1>5, <1>6, <1>7, <2>1
  <2> QED
    BY <2>1, <2>2, OneMore
<1>9. y = IF k = Len(s) THEN NoObject ELSE s[k + 1]
  <2>1. PathOf(o_next, t_os[t][n], s)
    BY <1>0, <1>1, <1>2, <1>7, WalkedHeads
  <2> QED
    BY <1>4, <1>6, <1>7, <2>1 DEF PathOf
<1>10. WalkedSoFar(p, c)'
  <2>1. CASE k = Len(s)
    <3>1. h_seen'[p] = a \o s
      BY <1>7, <1>8, <2>1, OneMore
    <3>2. h_seen'[p] = FirstChains(c, n + 1)
      BY <1>7, <3>1, FirstChainsIs
    <3> QED
      BY <1>5, <1>9, <2>1, <3>2 DEF WalkedSoFar
  <2>2. CASE k # Len(s)
    <3>1. k + 1 \in 1 .. Len(s) /\ k + 1 - 1 = k /\ s[k + 1] \in HObject
      BY <1>6, <1>7, <2>2
    <3>2. y # NoObject /\ y = s[k + 1]
      BY <1>9, <2>2, <3>1, HashAssumption
    <3>3. PICK m \in 1 .. Len(c[n]) : m = k + 1 /\ m - 1 = k
      BY <1>7, <3>1
    <3>4. c[n][m] = y /\ h_seen'[p] = FirstChains(c, n) \o SubSeq(c[n], 1, m - 1)
      BY <1>7, <1>8, <3>2, <3>3
    <3> QED
      BY <1>5, <3>2, <3>4 DEF WalkedSoFar
  <2> QED
    BY <2>1, <2>2
<1> QED
  BY <1>1, <1>2, <1>10

LEMMA HashInvInit == HashInit => HashInv
<1> SUFFICES ASSUME HashInit PROVE HashInv
  OBVIOUS
<1>1. PICK C : BankIs(Row, C)
  BY ListsInit
<1>2. WalksRight(C)
  BY DEF WalksRight, HashInit
<1> QED
  BY <1>1, <1>2, StatesInit DEF HashInv

LEMMA HashInvNext ==
  ASSUME HashInv, [HashNext]_hvars
  PROVE  HashInv' /\ [Bank!BankNext]_(Bank!bvars)
<1>1. HashStates /\ HashStates'
  BY StatesNext DEF HashInv, Lists
<1>2. PICK F, C : BankIs(F, C) /\ WalksRight(C)
  BY DEF HashInv
<1>3. ASSUME NEW p \in HUser, NEW F2, NEW C2, StepTo(p, F, C, F2, C2), OthersStill(p),
             \A q \in HUser : q # p => h_seen'[q] = h_seen[q],
             \A t \in HTable : h_pc'[p] = "walk" /\ h_t'[p] = t => WalkedSoFar(p, C2[t])'
      PROVE  HashInv' /\ [Bank!BankNext]_(Bank!bvars)
  <2>1. WalksRight(C2)'
    BY <1>1, <1>2, <1>3, OtherWalks
  <2> QED
    BY <1>1, <1>3, <2>1 DEF StepTo, HashInv
<1>4. CASE UNCHANGED hvars
  <2>1. Heads' = Heads /\ Holding' = Holding
    BY <1>4 DEF hvars, Heads, ChainHead, Holding
  <2>2. BankIs(F, C)' /\ WalksRight(C)'
    BY <1>2, <1>4, <2>1 DEF hvars, BankIs, WalksRight, WalkedSoFar
  <2>3. ListFrom[l_top] = F /\ Chains = C /\ (ListFrom[l_top])' = F /\ Chains' = C
    BY <1>2, <2>2, Seen, SeenNext
  <2> QED
    BY <1>1, <2>1, <2>2, <2>3 DEF HashInv, Bank!bvars
<1>5. ASSUME NEW p \in HUser,
             \/ PopO(p) \/ PushO(p) \/ LockTable(p) \/ AddOHt(p) \/ NextBucket(p)
             \/ EmptyOne(p) \/ EmptyEnd(p) \/ WalkOne(p) \/ WalkEnd(p)
      PROVE  HashInv' /\ [Bank!BankNext]_(Bank!bvars)
  <2>1. CASE PopO(p)
    <3>1. PICK F2, C2 : StepTo(p, F, C, F2, C2)
      BY <1>1, <1>2, <2>1, PopStep
    <3>2. OthersStill(p) /\ h_pc'[p] # "walk" /\ h_seen' = h_seen
      BY <1>1, <2>1 DEF HashStates, HashTypeOK, PopO, HGoto, OthersStill
    <3> QED
      BY <1>3, <3>1, <3>2
  <2>2. CASE PushO(p)
    <3>1. PICK F2, C2 : StepTo(p, F, C, F2, C2)
      BY <1>1, <1>2, <2>2, PushStep
    <3>2. OthersStill(p) /\ h_pc'[p] # "walk" /\ h_seen' = h_seen
      BY <1>1, <2>2 DEF HashStates, HashTypeOK, PushO, HGoto, OthersStill
    <3> QED
      BY <1>3, <3>1, <3>2
  <2>3. CASE LockTable(p)
    <3>1. StepTo(p, F, C, F, C) /\ OthersStill(p)
      BY <1>1, <1>2, <2>3, LockStep
    <3>2. h_seen' = h_seen /\ h_i'[p] = 0 /\ h_o' = h_o
      BY <1>1, <2>3 DEF HashStates, HashTypeOK, LockTable
    <3>3. ASSUME NEW t \in HTable, h_pc'[p] = "walk" PROVE WalkedSoFar(p, C[t])'
      <4>1. h_pc[p] = "idle"
        BY <1>1, <2>3, <3>3 DEF HashStates, HashTypeOK, LockTable, HGoto
      <4>2. h_o'[p] = NoObject /\ h_seen'[p] = <<>>
        BY <1>1, <3>2, <4>1 DEF HashStates, CursorsRight
      <4>3. FirstChains(C[t], 0) = <<>>
        <5>1. C[t] \in [HBucket -> Seq(HObject)]
          BY <1>2 DEF BankIs, ListsOf
        <5> QED
          BY <5>1, FirstChainsIs
      <4> QED
        BY <3>2, <4>2, <4>3 DEF WalkedSoFar
    <3> QED
      BY <1>3, <3>1, <3>2, <3>3
  <2>4. CASE AddOHt(p)
    <3>1. PICK F2, C2 : StepTo(p, F, C, F2, C2)
      BY <1>1, <1>2, <2>4, HangStep
    <3>2. OthersStill(p) /\ h_pc'[p] # "walk" /\ h_seen' = h_seen
      BY <1>1, <2>4 DEF HashStates, HashTypeOK, AddOHt, HGoto, OthersStill
    <3> QED
      BY <1>3, <3>1, <3>2
  <2>5. CASE NextBucket(p)
    <3>1. StepTo(p, F, C, F, C)
      BY <1>1, <1>2, <2>5, BucketStep
    <3>2. OthersStill(p) /\ h_pc' = h_pc /\ h_t' = h_t
      BY <1>1, <2>5, CursorStep
    <3>3. h_seen' = h_seen
      BY <2>5 DEF NextBucket
    <3>4. ASSUME NEW t \in HTable, h_pc'[p] = "walk", h_t'[p] = t PROVE WalkedSoFar(p, C[t])'
      <4>1. h_pc[p] = "walk" /\ h_t[p] = t
        BY <3>2, <3>4
      <4>2. WalkedSoFar(p, C[h_t[p]])
        BY <1>2, <4>1 DEF WalksRight
      <4> QED
        BY <1>1, <1>2, <2>5, <3>4, <4>1, <4>2, WalkBucket
    <3> QED
      BY <1>3, <3>1, <3>2, <3>3, <3>4
  <2>6. CASE EmptyOne(p)
    <3>1. PICK F2, C2 : StepTo(p, F, C, F2, C2)
      BY <1>1, <1>2, <2>6, ReleaseStep
    <3>2. OthersStill(p) /\ h_pc' = h_pc
      BY <1>1, <2>6, CursorStep
    <3>3. h_pc'[p] # "walk" /\ h_seen' = h_seen
      BY <2>6, <3>2 DEF EmptyOne
    <3> QED
      BY <1>3, <3>1, <3>2, <3>3
  <2>7. CASE EmptyEnd(p)
    <3>1. StepTo(p, F, C, F, C) /\ OthersStill(p)
      BY <1>1, <1>2, <2>7, EndStep
    <3>2. h_pc'[p] # "walk" /\ h_seen' = h_seen
      BY <1>1, <2>7 DEF HashStates, HashTypeOK, EmptyEnd, HGoto
    <3> QED
      BY <1>3, <3>1, <3>2
  <2>8. CASE WalkOne(p)
    <3>1. StepTo(p, F, C, F, C)
      BY <1>1, <1>2, <2>8, WalkStep
    <3>2. OthersStill(p) /\ h_pc' = h_pc /\ h_t' = h_t
      BY <1>1, <2>8, CursorStep
    <3>3. \A q \in HUser : q # p => h_seen'[q] = h_seen[q]
      BY <1>1, <2>8 DEF HashStates, HashTypeOK, WalkOne
    <3>4. ASSUME NEW t \in HTable, h_t'[p] = t PROVE WalkedSoFar(p, C[t])'
      <4>1. h_pc[p] = "walk" /\ h_t[p] = t
        BY <2>8, <3>2, <3>4 DEF WalkOne
      <4>2. WalkedSoFar(p, C[h_t[p]])
        BY <1>2, <4>1 DEF WalksRight
      <4> QED
        BY <1>1, <1>2, <2>8, <3>4, <4>1, <4>2, WalkAlong
    <3> QED
      BY <1>3, <3>1, <3>2, <3>3, <3>4
  <2>9. CASE WalkEnd(p)
    <3>1. StepTo(p, F, C, F, C) /\ OthersStill(p)
      BY <1>1, <1>2, <2>9, EndStep
    <3>2. h_pc'[p] # "walk" /\ \A q \in HUser : q # p => h_seen'[q] = h_seen[q]
      BY <1>1, <2>9 DEF HashStates, HashTypeOK, WalkEnd, HGoto
    <3> QED
      BY <1>3, <3>1, <3>2
  <2> QED
    BY <1>5, <2>1, <2>2, <2>3, <2>4, <2>5, <2>6, <2>7, <2>8, <2>9
<1> QED
  BY <1>4, <1>5 DEF HashNext

THEOREM HashSafe == HashSpec => []HashInv
<1>1. HashInit => HashInv
  BY HashInvInit
<1>2. HashInv /\ [HashNext]_hvars => HashInv'
  BY HashInvNext
<1> QED
  BY <1>1, <1>2, PTL DEF HashSpec

\* The lists are a bank: the free list and the chains, which share the field
\* o_next of the objects, keep them apart and in order, whatever the number
\* of processes, tables, buckets and objects and however the steps of pop,
\* push, add and empty interleave.
THEOREM ListsAreBank == HashSpec => ImplementsBank
<1>1. HashInit => Bank!BankInit
  BY BankStarts
<1>2. HashInv /\ [HashNext]_hvars => [Bank!BankNext]_(Bank!bvars)
  BY HashInvNext
<1> QED
  BY <1>1, <1>2, HashSafe, PTL DEF HashSpec, ImplementsBank, Bank!BankSpec

\* The length the bank counts is that of its list, and a finished walk of a
\* table has passed all its chains, in order.
THEOREM WalksPassAll == HashSpec => []WalksWhole
<1>1. HashInv => WalksWhole
  <2> SUFFICES ASSUME HashInv PROVE WalksWhole
    OBVIOUS
  <2>1. PICK F, C : BankIs(F, C) /\ WalksRight(C)
    BY DEF HashInv
  <2>2. ListFrom[l_top] = F /\ l_len = Len(F)
    BY <2>1, Seen DEF BankIs, ListsOf
  <2>3. ASSUME NEW p \in HUser, h_pc[p] = "walk", h_i[p] = HLen
        PROVE  h_seen[p] = FlattenSeq([i \in 1 .. HLen |-> ListFrom[t_os[h_t[p]][i - 1]]])
    <3>1. PICK t \in HTable : t = h_t[p]
      BY <2>1, <2>3, WalkedHeads DEF HashInv
    <3>2. h_o[p] = NoObject
      BY <2>3, HashAssumption DEF HashInv, HashStates, CursorsRight
    <3>3. h_seen[p] = FirstChains(C[t], HLen)
      BY <2>1, <2>3, <3>1, <3>2 DEF WalksRight, WalkedSoFar
    <3>4. \A i \in 1 .. HLen : C[t][i - 1] = ListFrom[t_os[t][i - 1]]
      <4>1. \A b \in HBucket : Heads[t][b] = t_os[t][b]
        <5>1. \A q \in HUser : h_pc[q] = "empty" => h_t[q] # t
          BY <2>3, <3>1 DEF HashInv, HashStates, TablesLocked, Locker
        <5> QED
          BY <5>1, StatesHeads DEF HashInv, HeadsAre, Heads
      <4>2. \A b \in HBucket : Chains[t][b] = ListFrom[Heads[t][b]]
        BY DEF Chains, Chained, Heads
      <4>3. Chains = C
        BY <2>1, Seen
      <4>4. \A i \in 1 .. HLen : i - 1 \in HBucket
        BY HashAssumption DEF HBucket
      <4> QED
        BY <4>1, <4>2, <4>3, <4>4
    <3>5. [i \in 1 .. HLen |-> C[t][i - 1]] = [i \in 1 .. HLen |-> ListFrom[t_os[t][i - 1]]]
      BY <3>4
    <3> QED
      BY <3>1, <3>3, <3>5 DEF FirstChains
  <2> QED
    BY <2>2, <2>3 DEF WalksWhole
<1> QED
  BY <1>1, HashSafe, PTL

(***************************************************************************)
(* The priority queue.                                                     *)
(***************************************************************************)
\* The node at place k of a queue, or NULL.
NodeAt(s, k) == IF k \in 1 .. Len(s) THEN {s[k]} ELSE Null

\* The queue with the ends f and b and the links x holds s.
QueueOf(s, f, b, x) ==
  /\ f = NodeAt(s, 1) /\ b = NodeAt(s, Len(s))
  /\ \A k \in 1 .. Len(s) : x[s[k]] = Xor(NodeAt(s, k - 1), NodeAt(s, k + 1))
  /\ \A k, l \in 1 .. Len(s) : s[k] = s[l] => k = l

\* The links of a node on no other queue do not matter.
LEMMA OtherLinks ==
  ASSUME NEW s, NEW f, NEW b, NEW x, NEW y, QueueOf(s, f, b, x),
         \A k \in 1 .. Len(s) : y[s[k]] = x[s[k]]
  PROVE  QueueOf(s, f, b, y)
BY DEF QueueOf

\* The only member of a set.
LEMMA TheNode == \A d : The({d}) = d
BY DEF The

\* The links once d is enqueued.
Linked2(f, b, x, d) ==
  LET prev == IF f = Null \/ b = Null THEN Null ELSE x[The(b)]
      cur == IF f = Null \/ b = Null THEN Null ELSE b
  IN [o \in Datum |-> IF o = d THEN cur ELSE IF o \in cur THEN Xor(prev, {d}) ELSE x[o]]

\* enqueue links a new node to the end of a queue.
LEMMA Enqueued ==
  ASSUME NEW s \in Seq(Datum), NEW f, NEW b, NEW x, NEW d \in Datum, QueueOf(s, f, b, x),
         \A k \in 1 .. Len(s) : s[k] # d
  PROVE  QueueOf(Append(s, d), IF f = Null THEN {d} ELSE f, {d}, Linked2(f, b, x, d))
<1>1. PICK n \in Nat : n = Len(s) /\ DOMAIN s = 1 .. n
  OBVIOUS
<1>2. PICK t : t = Append(s, d)
  OBVIOUS
<1>3. /\ Len(t) = n + 1 /\ t[n + 1] = d
      /\ \A k \in 1 .. n : t[k] = s[k] /\ s[k] \in Datum /\ s[k] # d
  BY <1>1, <1>2
<1>4. /\ \A k \in 1 .. n : NodeAt(s, k) = {s[k]} /\ NodeAt(t, k) = {s[k]}
      /\ NodeAt(t, n + 1) = {d} /\ NodeAt(t, 0) = Null /\ NodeAt(t, n + 2) = Null
      /\ NodeAt(s, 0) = Null /\ NodeAt(s, n + 1) = Null
  BY <1>1, <1>3 DEF NodeAt
<1>5. \A k, l \in 1 .. n + 1 : t[k] = t[l] => k = l
  <2>1. SUFFICES ASSUME NEW k \in 1 .. n + 1, NEW l \in 1 .. n + 1, t[k] = t[l] PROVE k = l
    OBVIOUS
  <2>2. CASE k \in 1 .. n /\ l \in 1 .. n
    BY <1>1, <1>3, <2>1, <2>2 DEF QueueOf
  <2>3. CASE k = n + 1 /\ l \in 1 .. n
    BY <1>3, <2>1, <2>3
  <2>4. CASE l = n + 1 /\ k \in 1 .. n
    BY <1>3, <2>1, <2>4
  <2> QED
    BY <2>2, <2>3, <2>4
<1>6. PICK y : y = Linked2(f, b, x, d)
  OBVIOUS
<1>7. CASE n = 0
  <2>1. f = Null
    BY <1>1, <1>7 DEF QueueOf, NodeAt
  <2>2. y[d] = Null
    BY <1>6, <2>1 DEF Linked2
  <2>3. Xor(Null, Null) = Null
    BY DEF Xor, Null
  <2> QED
    BY <1>2, <1>3, <1>4, <1>5, <1>6, <1>7, <2>1, <2>2, <2>3 DEF QueueOf
<1>8. CASE n > 0
  <2>1. f = {s[1]} /\ b = {s[n]} /\ f # Null /\ b # Null /\ The(b) = s[n]
    <3>1. 1 \in 1 .. n /\ n \in 1 .. n
      BY <1>8
    <3> QED
      BY ZenonT(40), <1>1, <1>4, <3>1, TheNode DEF QueueOf, Null
  <2>2. y = [o \in Datum |-> IF o = d THEN b ELSE IF o \in b THEN Xor(x[s[n]], {d}) ELSE x[o]]
    BY <1>6, <2>1 DEF Linked2
  <2>3. ASSUME NEW k \in 1 .. n PROVE y[s[k]] = Xor(NodeAt(t, k - 1), NodeAt(t, k + 1))
    <3>1. x[s[k]] = Xor(NodeAt(s, k - 1), NodeAt(s, k + 1))
      BY <1>1 DEF QueueOf
    <3>2. NodeAt(t, k - 1) = NodeAt(s, k - 1)
      <4>1. CASE k = 1
        BY <1>4, <4>1
      <4>2. CASE k # 1
        <5>1. k - 1 \in 1 .. n
          BY <4>2
        <5> QED
          BY <1>4, <5>1
      <4> QED
        BY <4>1, <4>2
    <3>3. CASE k = n
      <4>1. y[s[k]] = Xor(x[s[n]], {d})
        BY <1>3, <2>1, <2>2, <3>3
      <4>2. NodeAt(s, k + 1) = Null /\ NodeAt(t, k + 1) = {d}
        BY <1>4, <3>3
      <4>3. Xor(Xor(NodeAt(s, k - 1), Null), {d}) = Xor(NodeAt(s, k - 1), {d})
        BY DEF Xor, Null
      <4> QED
        BY <3>1, <3>2, <3>3, <4>1, <4>2, <4>3
    <3>4. CASE k # n
      <4>1. s[k] \notin b
        BY <1>1, <1>8, <2>1, <3>4 DEF QueueOf
      <4>2. y[s[k]] = x[s[k]]
        BY <1>3, <2>2, <4>1
      <4>3. NodeAt(t, k + 1) = NodeAt(s, k + 1)
        <5>1. k + 1 \in 1 .. n
          BY <3>4
        <5> QED
          BY <1>4, <5>1
      <4> QED
        BY <3>1, <3>2, <4>2, <4>3
    <3> QED
      BY <3>3, <3>4
  <2>4. y[d] = Xor(NodeAt(t, n), NodeAt(t, n + 2))
    <3>1. n \in 1 .. n
      BY <1>8
    <3>2. y[d] = {s[n]} /\ NodeAt(t, n) = {s[n]}
      BY <1>4, <2>1, <2>2, <3>1
    <3>3. Xor({s[n]}, Null) = {s[n]}
      BY DEF Xor, Null
    <3> QED
      BY <1>4, <3>2, <3>3
  <2>5. \A k \in 1 .. n + 1 : y[t[k]] = Xor(NodeAt(t, k - 1), NodeAt(t, k + 1))
    <3>1. SUFFICES ASSUME NEW k \in 1 .. n + 1
                   PROVE  y[t[k]] = Xor(NodeAt(t, k - 1), NodeAt(t, k + 1))
      OBVIOUS
    <3>2. CASE k \in 1 .. n
      BY <1>3, <2>3, <3>2
    <3>3. CASE k = n + 1
      <4>1. k - 1 = n /\ k + 1 = n + 2
        BY <3>3
      <4> QED
        BY <1>3, <2>4, <3>3, <4>1
    <3> QED
      BY <3>2, <3>3
  <2>6. f = NodeAt(t, 1) /\ {d} = NodeAt(t, n + 1)
    <3>1. 1 \in 1 .. n
      BY <1>8
    <3> QED
      BY <1>4, <2>1, <3>1
  <2> QED
    BY <1>2, <1>3, <1>5, <1>6, <2>1, <2>5, <2>6 DEF QueueOf
<1> QED
  BY <1>7, <1>8

\* The links once the first node is dequeued.
Unlinked2(f, x) ==
  [o \in Datum |-> IF o \in x[The(f)] THEN Xor(x[o], f) ELSE x[o]]

\* dequeue cuts the first node off a queue.
LEMMA Dequeued ==
  ASSUME NEW s \in Seq(Datum), s # <<>>, NEW f, NEW b, NEW x, QueueOf(s, f, b, x)
  PROVE  /\ f = {s[1]} /\ \A o : o \in x[The(f)] => \E k \in 1 .. Len(s) : s[k] = o
         /\ QueueOf(Tail(s), x[The(f)], IF x[The(f)] = Null THEN Null ELSE b, Unlinked2(f, x))
<1>1. PICK n \in Nat \ {0} : n = Len(s) /\ DOMAIN s = 1 .. n
  OBVIOUS
<1>2. PICK t : t = Tail(s)
  OBVIOUS
<1>3. /\ Len(t) = n - 1 /\ \A k \in 1 .. n - 1 : t[k] = s[k + 1]
      /\ \A k \in 1 .. n : s[k] \in Datum
  BY <1>1, <1>2
<1>4. /\ \A k \in 1 .. n : NodeAt(s, k) = {s[k]}
      /\ NodeAt(s, 0) = Null /\ NodeAt(s, n + 1) = Null
      /\ NodeAt(t, 0) = Null
  BY <1>1, <1>3 DEF NodeAt
<1>5. \A k \in 1 .. n : NodeAt(t, k) = NodeAt(s, k + 1)
  <2>1. SUFFICES ASSUME NEW k \in 1 .. n PROVE NodeAt(t, k) = NodeAt(s, k + 1)
    OBVIOUS
  <2>2. CASE k = n
    BY <1>1, <1>3, <2>2 DEF NodeAt
  <2>3. CASE k # n
    <3>1. k \in 1 .. n - 1 /\ k + 1 \in 1 .. n
      BY <2>3
    <3> QED
      BY <1>1, <1>3, <3>1 DEF NodeAt
  <2> QED
    BY <2>2, <2>3
<1>6. 1 \in 1 .. n /\ n \in 1 .. n
  OBVIOUS
<1>7. f = {s[1]} /\ The(f) = s[1] /\ b = {s[n]}
  BY <1>1, <1>4, <1>6, TheNode DEF QueueOf
<1>8. PICK c : c = x[The(f)]
  OBVIOUS
<1>9. c = NodeAt(s, 2) /\ c = NodeAt(t, 1)
  <2>1. x[s[1]] = Xor(NodeAt(s, 1 - 1), NodeAt(s, 1 + 1))
    BY <1>1, <1>6 DEF QueueOf
  <2>2. Xor(Null, NodeAt(s, 2)) = NodeAt(s, 2)
    BY DEF Xor, Null
  <2>3. c = NodeAt(s, 2)
    BY <1>4, <1>7, <1>8, <2>1, <2>2
  <2> QED
    BY <1>5, <1>6, <2>3
<1>10. \A o : o \in c => \E k \in 1 .. Len(s) : s[k] = o
  BY <1>1, <1>9 DEF NodeAt, Null
<1>11. PICK y : y = Unlinked2(f, x)
  OBVIOUS
<1>12. y = [o \in Datum |-> IF o \in c THEN Xor(x[o], f) ELSE x[o]]
  BY <1>8, <1>11 DEF Unlinked2
<1>13. \A k, l \in 1 .. n - 1 : t[k] = t[l] => k = l
  BY <1>1, <1>3 DEF QueueOf
<1>14. (IF c = Null THEN Null ELSE b) = NodeAt(t, n - 1)
  <2>1. CASE n = 1
    <3>1. c = Null /\ NodeAt(t, n - 1) = Null
      BY <1>4, <1>9, <2>1
    <3> QED
      BY <3>1
  <2>2. CASE n # 1
    <3>1. n - 1 \in 1 .. n /\ 2 \in 1 .. n /\ n - 1 + 1 = n
      BY <2>2
    <3>2. c # Null
      BY <1>4, <1>9, <3>1 DEF Null
    <3>3. NodeAt(t, n - 1) = {s[n]}
      BY <1>4, <1>5, <1>6, <3>1
    <3> QED
      BY <1>7, <3>2, <3>3
  <2> QED
    BY <2>1, <2>2
<1>15. ASSUME NEW k \in 1 .. n - 1 PROVE y[t[k]] = Xor(NodeAt(t, k - 1), NodeAt(t, k + 1))
  <2>1. PICK j \in 1 .. n : j = k + 1 /\ k \in 1 .. n /\ k + 1 \in 1 .. n
    OBVIOUS
  <2>2. t[k] = s[j] /\ s[j] \in Datum
    BY <1>3, <2>1
  <2>3. x[s[j]] = Xor(NodeAt(s, j - 1), NodeAt(s, j + 1))
    BY <1>1 DEF QueueOf
  <2>4. NodeAt(t, k + 1) = NodeAt(s, j + 1)
    BY <1>5, <2>1
  <2>5. NodeAt(s, j - 1) = {s[k]}
    BY <1>4, <2>1
  <2>6. CASE k = 1
    <3>1. s[j] \in c
      <4>1. NodeAt(s, 2) = {s[2]}
        BY <1>4, <2>1, <2>6
      <4> QED
        BY <1>9, <2>1, <2>6, <4>1
    <3>2. y[s[j]] = Xor(Xor({s[1]}, NodeAt(s, j + 1)), {s[1]})
      BY <1>7, <1>12, <2>2, <2>3, <2>5, <2>6, <3>1
    <3>3. s[1] \notin NodeAt(s, j + 1)
      BY <1>1, <1>6, <2>1 DEF NodeAt, QueueOf, Null
    <3>4. Xor(Xor({s[1]}, NodeAt(s, j + 1)), {s[1]}) = Xor(Null, NodeAt(s, j + 1))
      BY <3>3 DEF Xor, Null
    <3>5. NodeAt(t, k - 1) = Null
      BY <1>4, <2>6
    <3> QED
      BY <2>2, <2>4, <3>2, <3>4, <3>5
  <2>7. CASE k # 1
    <3>1. s[j] \notin c
      BY <1>1, <1>9, <2>1, <2>7 DEF NodeAt, QueueOf, Null
    <3>2. y[s[j]] = x[s[j]]
      BY <1>12, <2>2, <3>1
    <3>3. NodeAt(t, k - 1) = {s[k]}
      <4>1. k - 1 \in 1 .. n /\ k - 1 + 1 = k
        BY <2>7
      <4> QED
        BY <1>4, <1>5, <2>1, <4>1
    <3> QED
      BY <2>2, <2>3, <2>4, <2>5, <3>2, <3>3
  <2> QED
    BY <2>6, <2>7
<1>16. QueueOf(t, c, IF c = Null THEN Null ELSE b, y)
  BY <1>3, <1>9, <1>13, <1>14, <1>15 DEF QueueOf
<1> QED
  BY <1>2, <1>7, <1>8, <1>10, <1>11, <1>16

\* A finite set of numbers has a greatest.
LEMMA GreatestNumber ==
  ASSUME NEW S \in SUBSET Int, IsFiniteSet(S), S # {}
  PROVE  MaxOf(S) \in S /\ \A j \in S : j <= MaxOf(S)
<1> DEFINE T == {n \in Nat : \A U \in SUBSET Int :
                   IsFiniteSet(U) /\ Cardinality(U) = n + 1 => \E m \in U : \A j \in U : j <= m}
<1>1. 0 \in T
  <2>1. SUFFICES ASSUME NEW U \in SUBSET Int, IsFiniteSet(U), Cardinality(U) = 1
                 PROVE  \E m \in U : \A j \in U : j <= m
    OBVIOUS
  <2>2. PICK m \in U : TRUE
    <3>1. Cardinality(U) # 0
      BY <2>1
    <3>2. U # {}
      BY <3>1, FS_EmptySet, Zenon
    <3> QED
      BY <3>2
  <2>3. Cardinality(U \ {m}) = 0 /\ IsFiniteSet(U \ {m})
    <3>1. IsFiniteSet(U \ {m}) /\ Cardinality(U \ {m}) = Cardinality(U) - 1
      BY <2>1, <2>2, FS_RemoveElement, Zenon
    <3> QED
      BY <2>1, <3>1
  <2>4. U \ {m} = {}
    BY <2>3, FS_EmptySet
  <2>5. \A j \in U : j = m
    BY <2>4
  <2> QED
    BY <2>2, <2>5
<1>2. ASSUME NEW n \in T PROVE n + 1 \in T
  <2>0. n \in Nat
    OBVIOUS
  <2>1. SUFFICES ASSUME NEW U \in SUBSET Int, IsFiniteSet(U), Cardinality(U) = n + 1 + 1
                 PROVE  \E m \in U : \A j \in U : j <= m
    BY <2>0
  <2>2. PICK u \in U : TRUE
    <3>1. Cardinality(U) # 0
      BY <2>0, <2>1
    <3>2. U # {}
      BY <3>1, FS_EmptySet, Zenon
    <3> QED
      BY <3>2
  <2>3. Cardinality(U \ {u}) = n + 1 /\ IsFiniteSet(U \ {u}) /\ U \ {u} \in SUBSET Int
    <3>1. IsFiniteSet(U) /\ u \in U
      BY <2>1, <2>2
    <3>2. IsFiniteSet(U \ {u}) /\ Cardinality(U \ {u}) = Cardinality(U) - 1
      BY <3>1, FS_RemoveElement, Zenon
    <3>3. Cardinality(U) - 1 = n + 1
      BY <2>0, <2>1
    <3> QED
      BY <3>2, <3>3
  <2>4. PICK m \in U \ {u} : \A j \in U \ {u} : j <= m
    BY <2>3
  <2>5. CASE u <= m
    <3>1. \A j \in U : j <= m
      <4>1. ASSUME NEW j \in U PROVE j <= m
        <5>1. CASE j = u
          BY <2>5, <5>1
        <5>2. CASE j # u
          BY <2>4, <5>2
        <5> QED
          BY <5>1, <5>2
      <4> QED
        BY <4>1
    <3>2. m \in U
      BY <2>4
    <3> QED
      BY <3>1, <3>2, Zenon
  <2>6. CASE ~(u <= m)
    <3>1. \A j \in U : j <= u
      BY <2>1, <2>4, <2>6
    <3> QED
      BY <2>2, <3>1
  <2> QED
    BY <2>5, <2>6
<1>3. T = Nat
  <2>1. T \in SUBSET Nat
    OBVIOUS
  <2> HIDE DEF T
  <2> QED
    BY <1>1, <1>2, <2>1, EveryNumber
<1>4. PICK c \in Nat : Cardinality(S) = c + 1
  <2>1. Cardinality(S) \in Nat /\ Cardinality(S) # 0
    BY FS_CardinalityType, FS_EmptySet
  <2>2. Cardinality(S) - 1 \in Nat /\ Cardinality(S) = Cardinality(S) - 1 + 1
    BY <2>1
  <2> QED
    BY <2>2
<1>5. \E m \in S : \A j \in S : j <= m
  <2>1. c \in T
    BY <1>3
  <2> QED
    BY <1>4, <2>1
<1> QED
  BY <1>5 DEF MaxOf

\* It is the only one.
LEMMA GreatestIs ==
  ASSUME NEW S \in SUBSET Int, NEW m \in S, \A j \in S : j <= m
  PROVE  MaxOf(S) = m
<1>1. PICK x : x = MaxOf(S)
  OBVIOUS
<1>2. x \in S /\ \A j \in S : j <= x
  BY <1>1 DEF MaxOf
<1> QED
  BY <1>1, <1>2

\* Nothing of a queue is elsewhere, and what is held is in the tree.
QueuesHold ==
  /\ \A i \in Priority : QueueOf(accepted[i], q_front[i], q_back[i], o_xor)
  /\ \A i \in Priority : \A k \in 1 .. Len(accepted[i]) : accepted[i][k] \in inserted
  /\ \A i, j \in Priority : \A k \in 1 .. Len(accepted[i]), l \in 1 .. Len(accepted[j]) :
       accepted[i][k] = accepted[j][l] => i = j
  /\ \A i \in Priority : accepted[i] # <<>> => i \in pq_tree

QueueTypes ==
  /\ pq_tree \in SUBSET (Priority \ {0}) /\ IsFiniteSet(pq_tree)
  /\ accepted \in [Priority -> Seq(Datum)]
  /\ DOMAIN q_front = Priority /\ DOMAIN q_back = Priority
  /\ inserted \subseteq Datum /\ pq_highest \in Priority \cup {0}

\* While every call has taken back what it could not finish, the queues are
\* in order and pq_highest is at the highest.
QueueInv ==
  /\ QueueTypes
  /\ ~q_lost => QueuesHold /\ pq_highest = MaxOf(pq_tree) /\ ~pq_freed

\* A new priority queue is in order.
LEMMA QueueInvInit == QueueInit => QueueInv
<1> SUFFICES ASSUME QueueInit PROVE QueueInv
  OBVIOUS
<1>1. IsFiniteSet({}) /\ MaxOf({}) = 0
  BY FS_EmptySet DEF MaxOf
<1>2. \A i \in Priority : accepted[i] = <<>> /\ q_front[i] = Null /\ q_back[i] = Null
  BY DEF QueueInit
<1>3. /\ Len(<<>>) = 0 /\ 1 .. 0 = {} /\ <<>> \in Seq(Datum)
      /\ NodeAt(<<>>, 1) = Null /\ NodeAt(<<>>, 0) = Null
  BY DEF NodeAt
<1>4. QueueOf(<<>>, Null, Null, o_xor)
  BY <1>3 DEF QueueOf
<1>5. QueuesHold
  BY <1>2, <1>3, <1>4 DEF QueuesHold
<1>6. QueueTypes
  BY <1>1, <1>3 DEF QueueInit, QueueTypes
<1> QED
  BY <1>1, <1>5, <1>6 DEF QueueInit, QueueInv

\* The pointer to the highest queue is right.
LEMMA HighestIs ==
  ASSUME QueueInv, ~q_lost
  PROVE  /\ pq_highest = 0 <=> pq_tree = {}
         /\ pq_tree # {} => pq_highest \in pq_tree
         /\ \A j \in pq_tree : j <= pq_highest
         /\ pq_tree \in SUBSET Int
<1>1. pq_tree \in SUBSET Int /\ 0 \notin pq_tree /\ IsFiniteSet(pq_tree)
  BY QueueAssumption DEF QueueInv, QueueTypes
<1>2. CASE pq_tree = {}
  BY <1>1, <1>2 DEF QueueInv, MaxOf
<1>3. CASE pq_tree # {}
  BY <1>1, <1>3, GreatestNumber DEF QueueInv
<1> QED
  BY <1>1, <1>2, <1>3

\* A queue that is not in the tree has no nodes.
LEMMA FrontIs ==
  ASSUME QueueTypes, QueuesHold, NEW i \in Priority
  PROVE  FrontOf(i) = q_front[i] /\ BackOf(i) = q_back[i]
<1>1. CASE i \in pq_tree
  BY <1>1 DEF FrontOf, BackOf
<1>2. CASE i \notin pq_tree
  <2>1. accepted[i] = <<>> /\ Len(<<>>) = 0
    BY <1>2 DEF QueuesHold
  <2>2. NodeAt(<<>>, 1) = Null /\ NodeAt(<<>>, 0) = Null
    BY <2>1 DEF NodeAt
  <2>3. q_front[i] = Null /\ q_back[i] = Null
    BY <2>1, <2>2 DEF QueuesHold, QueueOf
  <2> QED
    BY <1>2, <2>3 DEF FrontOf, BackOf
<1> QED
  BY <1>1, <1>2

\* A datum goes to the end of its queue, and the others stay as they are.
LEMMA EnqueueHolds ==
  ASSUME QueueTypes, QueuesHold, NEW i \in Priority, NEW d \in Datum, d \notin inserted,
         Enqueue(i, d), pq_tree' = pq_tree \cup {i}, inserted' = inserted \cup {d}
  PROVE  QueuesHold'
<1>1. PICK s \in Seq(Datum) : s = accepted[i]
  BY DEF QueueTypes
<1>2. \A k \in 1 .. Len(s) : s[k] # d
  BY <1>1 DEF QueuesHold
<1>3. o_xor' = Linked2(q_front[i], q_back[i], o_xor, d)
  BY FrontIs DEF Enqueue, NewNode, Linked2
<1>4. /\ accepted' = [accepted EXCEPT ![i] = Append(s, d)]
      /\ q_front' = [q_front EXCEPT ![i] = IF q_front[i] = Null THEN {d} ELSE q_front[i]]
      /\ q_back' = [q_back EXCEPT ![i] = {d}]
  BY <1>1, FrontIs DEF Enqueue, QueueTypes
<1>5. /\ accepted'[i] = Append(s, d)
      /\ q_front'[i] = (IF q_front[i] = Null THEN {d} ELSE q_front[i]) /\ q_back'[i] = {d}
      /\ \A j \in Priority \ {i} : /\ accepted'[j] = accepted[j]
                                   /\ q_front'[j] = q_front[j] /\ q_back'[j] = q_back[j]
  BY <1>4 DEF QueueTypes
<1>6. QueueOf(accepted'[i], q_front'[i], q_back'[i], o_xor')
  <2>1. QueueOf(s, q_front[i], q_back[i], o_xor)
    BY <1>1 DEF QueuesHold
  <2>2. QueueOf(Append(s, d), IF q_front[i] = Null THEN {d} ELSE q_front[i], {d},
                Linked2(q_front[i], q_back[i], o_xor, d))
    BY <1>2, <2>1, Enqueued
  <2> QED
    BY <1>3, <1>5, <2>2
<1>7. PICK n \in Nat : n = Len(s)
  OBVIOUS
<1>8. /\ Len(Append(s, d)) = n + 1 /\ Append(s, d)[n + 1] = d
      /\ \A k \in 1 .. n : Append(s, d)[k] = s[k]
  BY <1>7
<1>9. \A o : o \in q_back[i] => \E k \in 1 .. n : s[k] = o
  <2>1. q_back[i] = NodeAt(s, n)
    BY <1>1, <1>7 DEF QueuesHold, QueueOf
  <2> QED
    BY <1>7, <2>1 DEF NodeAt, Null
<1>10. ASSUME NEW j \in Priority, j # i PROVE QueueOf(accepted'[j], q_front'[j], q_back'[j], o_xor')
  <2>1. PICK t \in Seq(Datum) : t = accepted[j]
    BY DEF QueueTypes
  <2>2. QueueOf(t, q_front[j], q_back[j], o_xor)
    BY <2>1 DEF QueuesHold
  <2>3. ASSUME NEW k \in 1 .. Len(t) PROVE o_xor'[t[k]] = o_xor[t[k]]
    <3>1. t[k] \in Datum /\ t[k] # d
      BY <2>1 DEF QueuesHold
    <3>2. t[k] \notin q_back[i]
      <4>1. \A l \in 1 .. n : s[l] # t[k]
        BY <1>1, <1>7, <1>10, <2>1 DEF QueuesHold
      <4> QED
        BY <1>9, <4>1
    <3> QED
      BY <1>3, <3>1, <3>2 DEF Linked2, Null
  <2>4. QueueOf(t, q_front[j], q_back[j], o_xor')
    BY <2>2, <2>3, OtherLinks
  <2> QED
    BY <1>5, <1>10, <2>1, <2>4
<1>11. \A j \in Priority : \A k \in 1 .. Len(accepted'[j]) : accepted'[j][k] \in inserted'
  <2>1. SUFFICES ASSUME NEW j \in Priority, NEW k \in 1 .. Len(accepted'[j])
                 PROVE  accepted'[j][k] \in inserted'
    OBVIOUS
  <2>2. CASE j # i
    BY <1>5, <2>2 DEF QueuesHold
  <2>3. CASE j = i
    <3>1. k \in 1 .. n \/ k = n + 1
      BY <1>5, <1>8, <2>3
    <3> QED
      BY <1>1, <1>5, <1>7, <1>8, <2>3, <3>1 DEF QueuesHold
  <2> QED
    BY <2>2, <2>3
<1>12. ASSUME NEW j \in Priority, NEW m \in Priority, j # m,
              NEW k \in 1 .. Len(accepted'[j]), NEW l \in 1 .. Len(accepted'[m])
       PROVE  accepted'[j][k] # accepted'[m][l]
  <2>1. ASSUME NEW h \in Priority, h # i, NEW p \in 1 .. n + 1, NEW q \in 1 .. Len(accepted[h])
        PROVE  Append(s, d)[p] # accepted[h][q]
    <3>1. p \in 1 .. n \/ p = n + 1
      OBVIOUS
    <3>2. accepted[h][q] # d
      BY DEF QueuesHold
    <3> QED
      BY <1>1, <1>7, <1>8, <2>1, <3>1, <3>2 DEF QueuesHold
  <2>2. CASE j = i
    <3>1. k \in 1 .. n + 1 /\ l \in 1 .. Len(accepted[m]) /\ m # i
      BY <1>5, <1>8, <1>12, <2>2
    <3> QED
      BY SMTT(30), <1>5, <2>1, <2>2, <3>1
  <2>3. CASE m = i
    <3>1. l \in 1 .. n + 1 /\ k \in 1 .. Len(accepted[j]) /\ j # i
      BY <1>5, <1>8, <1>12, <2>3
    <3> QED
      BY SMTT(30), <1>5, <2>1, <2>3, <3>1
  <2>4. CASE j # i /\ m # i
    BY <1>5, <1>12, <2>4 DEF QueuesHold
  <2> QED
    BY <2>2, <2>3, <2>4
<1>13. \A j \in Priority : accepted'[j] # <<>> => j \in pq_tree'
  BY <1>5 DEF QueuesHold
<1>14. \A j \in Priority : QueueOf(accepted'[j], q_front'[j], q_back'[j], o_xor')
  BY <1>6, <1>10
<1>15. \A j, m \in Priority : \A k \in 1 .. Len(accepted'[j]), l \in 1 .. Len(accepted'[m]) :
         accepted'[j][k] = accepted'[m][l] => j = m
  BY <1>12
<1> QED
  BY <1>11, <1>13, <1>14, <1>15, Zenon DEF QueuesHold

\* The oldest datum leaves its queue, and the others stay as they are.
LEMMA DequeueHolds ==
  ASSUME QueueTypes, QueuesHold, NEW i \in Priority, q_front[i] # Null, Dequeue(i),
         inserted' = inserted, NEW h, pq_tree' = pq_tree \ h,
         \A j \in Priority : j \in h => accepted[j] = <<>>
  PROVE  /\ accepted[i] # <<>> /\ q_front[i] = {Head(accepted[i])}
         /\ QueuesHold'
<1>1. PICK s \in Seq(Datum) : s = accepted[i]
  BY DEF QueueTypes
<1>2. PICK n \in Nat : n = Len(s)
  OBVIOUS
<1>3. QueueOf(s, q_front[i], q_back[i], o_xor)
  BY <1>1 DEF QueuesHold
<1>4. s # <<>>
  BY <1>3 DEF QueueOf, NodeAt
<1>5. PICK c : c = o_xor[The(q_front[i])]
  OBVIOUS
<1>6. o_xor' = Unlinked2(q_front[i], o_xor)
  BY DEF Dequeue, Second, Unlinked2
<1>7. /\ accepted' = [accepted EXCEPT ![i] = Tail(s)]
      /\ q_front' = [q_front EXCEPT ![i] = c]
      /\ q_back' = [q_back EXCEPT ![i] = IF c = Null THEN Null ELSE q_back[i]]
  BY <1>1, <1>4, <1>5 DEF Dequeue, Second, QueueTypes
<1>8. /\ accepted'[i] = Tail(s)
      /\ q_front'[i] = c /\ q_back'[i] = IF c = Null THEN Null ELSE q_back[i]
      /\ \A j \in Priority \ {i} : /\ accepted'[j] = accepted[j]
                                   /\ q_front'[j] = q_front[j] /\ q_back'[j] = q_back[j]
  BY <1>7 DEF QueueTypes
<1>9. /\ q_front[i] = {s[1]} /\ \A o : o \in c => \E k \in 1 .. n : s[k] = o
      /\ QueueOf(Tail(s), c, IF c = Null THEN Null ELSE q_back[i], o_xor')
  BY <1>2, <1>3, <1>4, <1>5, <1>6, Dequeued
<1>10. /\ n > 0 /\ Len(Tail(s)) = n - 1 /\ \A k \in 1 .. n - 1 : Tail(s)[k] = s[k + 1]
       /\ Head(s) = s[1]
  BY <1>2, <1>4
<1>11. ASSUME NEW j \in Priority, j # i PROVE QueueOf(accepted'[j], q_front'[j], q_back'[j], o_xor')
  <2>1. PICK t \in Seq(Datum) : t = accepted[j]
    BY DEF QueueTypes
  <2>2. QueueOf(t, q_front[j], q_back[j], o_xor)
    BY <2>1 DEF QueuesHold
  <2>3. ASSUME NEW k \in 1 .. Len(t) PROVE o_xor'[t[k]] = o_xor[t[k]]
    <3>1. t[k] \in Datum
      BY <2>1
    <3>2. t[k] \notin c
      <4>1. \A l \in 1 .. n : s[l] # t[k]
        BY <1>1, <1>2, <1>11, <2>1 DEF QueuesHold
      <4> QED
        BY <1>9, <4>1
    <3> QED
      BY <1>5, <1>6, <3>1, <3>2 DEF Unlinked2
  <2>4. QueueOf(t, q_front[j], q_back[j], o_xor')
    BY <2>2, <2>3, OtherLinks
  <2> QED
    BY <1>8, <1>11, <2>1, <2>4
<1>12. ASSUME NEW j \in Priority
       PROVE  \A k \in 1 .. Len(accepted'[j]) : \E l \in 1 .. Len(accepted[j]) :
                accepted'[j][k] = accepted[j][l]
  <2>1. CASE j # i
    BY <1>8, <2>1
  <2>2. CASE j = i
    <3>1. ASSUME NEW k \in 1 .. n - 1 PROVE \E l \in 1 .. n : Tail(s)[k] = s[l]
      <4>1. k + 1 \in 1 .. n
        OBVIOUS
      <4> QED
        BY <1>10, <4>1
    <3>2. /\ accepted'[j] = Tail(s) /\ accepted[j] = s
          /\ Len(accepted'[j]) = n - 1 /\ Len(accepted[j]) = n
      BY <1>1, <1>2, <1>8, <1>10, <2>2
    <3>3. ASSUME NEW k \in 1 .. Len(accepted'[j])
          PROVE  \E l \in 1 .. Len(accepted[j]) : accepted'[j][k] = accepted[j][l]
      <4>1. k \in 1 .. n - 1
        BY <3>2
      <4>2. PICK l \in 1 .. n : Tail(s)[k] = s[l]
        BY <3>1, <4>1
      <4> QED
        BY <3>2, <4>2
    <3> QED
      BY <3>3
  <2> QED
    BY <2>1, <2>2
<1>13. \A j \in Priority : \A k \in 1 .. Len(accepted'[j]) : accepted'[j][k] \in inserted'
  <2>1. SUFFICES ASSUME NEW j \in Priority, NEW k \in 1 .. Len(accepted'[j])
                 PROVE  accepted'[j][k] \in inserted'
    OBVIOUS
  <2>2. PICK l \in 1 .. Len(accepted[j]) : accepted'[j][k] = accepted[j][l]
    BY <1>12
  <2>3. accepted[j][l] \in inserted
    BY DEF QueuesHold
  <2> QED
    BY <2>2, <2>3
<1>14. \A j, m \in Priority : \A k \in 1 .. Len(accepted'[j]), l \in 1 .. Len(accepted'[m]) :
         accepted'[j][k] = accepted'[m][l] => j = m
  <2>1. SUFFICES ASSUME NEW j \in Priority, NEW m \in Priority,
                        NEW k \in 1 .. Len(accepted'[j]), NEW l \in 1 .. Len(accepted'[m]),
                        accepted'[j][k] = accepted'[m][l]
                 PROVE  j = m
    OBVIOUS
  <2>2. PICK p \in 1 .. Len(accepted[j]) : accepted'[j][k] = accepted[j][p]
    BY <1>12
  <2>3. PICK q \in 1 .. Len(accepted[m]) : accepted'[m][l] = accepted[m][q]
    BY <1>12
  <2>4. accepted[j][p] = accepted[m][q]
    BY <2>1, <2>2, <2>3
  <2> QED
    BY <2>4 DEF QueuesHold
<1>15. \A j \in Priority : accepted'[j] # <<>> => j \in pq_tree'
  <2>1. \A j \in Priority : accepted[j] # <<>> => j \in pq_tree /\ j \notin h
    BY DEF QueuesHold
  <2> QED
    BY <1>1, <1>4, <1>8, <2>1
<1>16. \A j \in Priority : QueueOf(accepted'[j], q_front'[j], q_back'[j], o_xor')
  BY <1>8, <1>9, <1>11
<1>17. QueuesHold'
  BY <1>13, <1>14, <1>15, <1>16, Zenon DEF QueuesHold
<1> QED
  BY <1>1, <1>4, <1>9, <1>10, <1>17

\* A queue without a first node is empty.
LEMMA EmptyFront ==
  ASSUME QueueTypes, QueuesHold, NEW i \in Priority, q_front[i] = Null
  PROVE  accepted[i] = <<>>
<1>1. PICK s \in Seq(Datum) : s = accepted[i]
  BY DEF QueueTypes
<1>2. NodeAt(s, 1) = Null
  BY <1>1 DEF QueuesHold, QueueOf
<1>3. ~(1 \in 1 .. Len(s))
  BY <1>2 DEF NodeAt, Null
<1>4. Len(s) = 0
  BY <1>3
<1> QED
  BY <1>1, <1>4

\* The next highest queue.
LEMMA NextIn ==
  ASSUME QueueTypes, Next2 # 0
  PROVE  Next2 \in pq_tree /\ \A j \in pq_tree \ {pq_highest} : j <= Next2
<1>1. PICK S : S = pq_tree \ {pq_highest}
  OBVIOUS
<1>2. S \in SUBSET Int /\ IsFiniteSet(S)
  BY <1>1, QueueAssumption, FS_RemoveElement DEF QueueTypes
<1>3. S # {}
  BY <1>1 DEF Next2, MaxOf
<1> QED
  BY <1>1, <1>2, <1>3, GreatestNumber DEF Next2

\* The history of one priority is replaced by another.
LEMMA OneQueueChanged ==
  ASSUME NEW f \in [Priority -> Seq(Datum)], NEW i \in Priority, NEW s \in Seq(Datum)
  PROVE  [f EXCEPT ![i] = s] \in [Priority -> Seq(Datum)]
OBVIOUS

\* Every call keeps the queues in order.
LEMMA QueueInvStep == QueueInv /\ [QueueNext]_qvars => QueueInv'
<1> SUFFICES ASSUME QueueInv, [QueueNext]_qvars PROVE QueueInv'
  OBVIOUS
<1>0. QueueTypes /\ (~q_lost => QueuesHold /\ pq_highest = MaxOf(pq_tree) /\ ~pq_freed)
  BY DEF QueueInv
<1>1. ASSUME NEW i \in Priority, NEW d \in Datum, Insert(i, d) PROVE QueueInv'
  <2>0. d \notin inserted /\ inserted' = inserted \cup {d}
    BY <1>1 DEF Insert
  <2>1. CASE Refuse(i)
    <3>1. UNCHANGED <<pq_tree, pq_highest, pq_freed, q_front, q_back, o_xor, accepted, q_lost>>
      BY <2>1 DEF Refuse
    <3>2. QueueTypes'
      BY <1>0, <2>0, <3>1 DEF QueueTypes
    <3>3. QueuesHold => QueuesHold'
      BY <2>0, <3>1 DEF QueuesHold
    <3> QED
      BY <1>0, <3>1, <3>2, <3>3 DEF QueueInv
  <2>2. CASE InsertFreed(i)
    <3>1. UNCHANGED <<pq_tree, q_front, q_back, o_xor, accepted>> /\ i # 0
      BY <2>2 DEF InsertFreed
    <3>2. PICK moves \in Moves(i) :
            /\ pq_highest' = (IF moves THEN i ELSE pq_highest)
            /\ pq_freed' = (pq_freed \/ moves)
            /\ q_lost' = (q_lost \/ moves)
      BY <2>2 DEF InsertFreed
    <3>3. pq_highest' = i \/ pq_highest' = pq_highest
      BY <3>2
    <3>4. QueueTypes'
      BY <1>0, <2>0, <3>1, <3>3 DEF QueueTypes
    <3>5. ~q_lost' => ~q_lost /\ pq_highest' = pq_highest /\ (~pq_freed => ~pq_freed')
      BY <3>2
    <3>6. QueuesHold => QueuesHold'
      BY <2>0, <3>1 DEF QueuesHold
    <3> QED
      BY <1>0, <3>1, <3>4, <3>5, <3>6 DEF QueueInv
  <2>3. CASE InsertInto(i, d) \/ InsertNew(i, d)
    <3>1. /\ i # 0 /\ pq_tree' = pq_tree \cup {i}
          /\ Enqueue(i, d) \/ EnqueueLost(i)
          /\ pq_highest' = i \/ pq_highest' = pq_highest
          /\ ~pq_freed => ~pq_freed'
          /\ ~pq_freed => pq_highest' = IF i \notin pq_tree /\ (pq_highest = 0 \/ i > pq_highest)
                                       THEN i ELSE pq_highest
      <4>1. CASE InsertInto(i, d)
        <5>1. i \in pq_tree /\ (Enqueue(i, d) \/ EnqueueLost(i))
              /\ UNCHANGED <<pq_tree, pq_highest, pq_freed>>
          BY <4>1 DEF InsertInto
        <5>2. i # 0 /\ pq_tree' = pq_tree \cup {i}
          BY <1>0, <5>1 DEF QueueTypes
        <5> QED
          BY <5>1, <5>2
      <4>2. CASE InsertNew(i, d)
        <5>1. i \notin pq_tree /\ i # 0 /\ (Enqueue(i, d) \/ EnqueueLost(i))
              /\ pq_tree' = pq_tree \cup {i}
          BY <4>2 DEF InsertNew
        <5>2. PICK moves \in Moves(i) :
                /\ pq_highest' = (IF moves THEN i ELSE pq_highest)
                /\ pq_freed' = (pq_freed /\ ~moves)
          BY <4>2 DEF InsertNew
        <5>3. pq_highest' = i \/ pq_highest' = pq_highest
          BY <5>2
        <5>4. ~pq_freed => moves = (pq_highest = 0 \/ i > pq_highest)
          BY <5>2 DEF Moves
        <5> QED
          BY <5>1, <5>2, <5>3, <5>4
      <4> QED
        BY <2>3, <4>1, <4>2
    <3>2. QueueTypes'
      <4>1. pq_tree' \in SUBSET (Priority \ {0}) /\ IsFiniteSet(pq_tree')
        BY <1>0, <3>1, FS_AddElement DEF QueueTypes
      <4>2. accepted' \in [Priority -> Seq(Datum)]
        <5>1. accepted[i] \in Seq(Datum) /\ Append(accepted[i], d) \in Seq(Datum)
          BY <1>0 DEF QueueTypes
        <5>2. \/ accepted' = accepted
              \/ accepted' = [accepted EXCEPT ![i] = Append(accepted[i], d)]
          BY <3>1 DEF Enqueue, EnqueueLost
        <5>3. accepted \in [Priority -> Seq(Datum)]
          BY <1>0 DEF QueueTypes
        <5>4. [accepted EXCEPT ![i] = Append(accepted[i], d)] \in [Priority -> Seq(Datum)]
          BY <5>1, <5>3, OneQueueChanged, Zenon
        <5> QED
          BY <5>2, <5>3, <5>4, Zenon
      <4>3. DOMAIN q_front' = Priority /\ DOMAIN q_back' = Priority
        BY <1>0, <3>1 DEF QueueTypes, Enqueue, EnqueueLost
      <4>4. inserted' \subseteq Datum /\ pq_highest' \in Priority \cup {0}
        BY <1>0, <2>0, <3>1 DEF QueueTypes
      <4> QED
        BY <4>1, <4>2, <4>3, <4>4 DEF QueueTypes
    <3>3. ASSUME ~q_lost PROVE pq_highest' = MaxOf(pq_tree')
      <4>0. pq_highest' = IF i \notin pq_tree /\ (pq_highest = 0 \/ i > pq_highest)
                          THEN i ELSE pq_highest
        BY <1>0, <3>1, <3>3
      <4>1. /\ pq_highest = 0 <=> pq_tree = {}
            /\ pq_tree # {} => pq_highest \in pq_tree
            /\ \A j \in pq_tree : j <= pq_highest
            /\ pq_tree \in SUBSET Int
        BY <3>3, HighestIs
      <4>2. i \in Int
        BY QueueAssumption
      <4>3. PICK m : m = pq_highest'
        OBVIOUS
      <4>4. pq_tree' \in SUBSET Int /\ m \in pq_tree' /\ \A j \in pq_tree' : j <= m
        <5>1. CASE i \notin pq_tree /\ (pq_highest = 0 \/ i > pq_highest)
          <6>1. m = i /\ m \in pq_tree'
            BY <3>1, <4>0, <4>3, <5>1
          <6>2. \A j \in pq_tree : j <= i
            <7>1. CASE pq_highest = 0
              BY <4>1, <7>1
            <7>2. CASE pq_highest # 0
              <8>1. pq_highest \in Int /\ i > pq_highest
                BY <4>1, <5>1, <7>2
              <8>2. \A j \in pq_tree : j \in Int /\ j <= pq_highest
                BY <4>1
              <8> QED
                BY <4>2, <8>1, <8>2
            <7> QED
              BY <7>1, <7>2
          <6> QED
            BY <3>1, <4>1, <4>2, <6>1, <6>2
        <5>2. CASE i \in pq_tree
          <6>1. m = pq_highest /\ pq_tree' = pq_tree
            BY <3>1, <4>0, <4>3, <5>2
          <6> QED
            BY <4>1, <5>2, <6>1
        <5>3. CASE i \notin pq_tree /\ ~(pq_highest = 0 \/ i > pq_highest)
          <6>1. m = pq_highest
            BY <4>0, <4>3, <5>3
          <6>2. pq_highest \in pq_tree /\ i <= pq_highest
            <7>1. pq_highest # 0 /\ ~(i > pq_highest)
              BY <5>3
            <7>2. pq_highest \in pq_tree /\ pq_highest \in Int
              BY <4>1, <7>1
            <7> QED
              BY <4>2, <7>1, <7>2
          <6> QED
            BY <3>1, <4>1, <4>2, <6>1, <6>2
        <5> QED
          BY <5>1, <5>2, <5>3
      <4> QED
        BY <4>3, <4>4, GreatestIs
    <3>4. ~q_lost' => QueuesHold' /\ ~q_lost
      <4>1. CASE Enqueue(i, d)
        <5>1. q_lost' = q_lost
          BY <4>1 DEF Enqueue
        <5> QED
          BY <1>0, <2>0, <3>1, <4>1, <5>1, EnqueueHolds
      <4>2. CASE EnqueueLost(i)
        BY <4>2 DEF EnqueueLost
      <4> QED
        BY <3>1, <4>1, <4>2
    <3> QED
      BY <1>0, <3>1, <3>2, <3>3, <3>4 DEF QueueInv
  <2> QED
    BY <1>1, <2>1, <2>2, <2>3 DEF Insert
<1>2. ASSUME NEW i \in Priority, Dequeue(i), inserted' = inserted, NEW h, pq_tree' = pq_tree \ h,
             h = {} \/ h = {pq_highest}, pq_highest' = pq_highest \/ pq_highest' = i
      PROVE  QueueTypes'
  <2>1. pq_tree' \in SUBSET (Priority \ {0}) /\ IsFiniteSet(pq_tree')
    <3>1. CASE h = {}
      <4>1. pq_tree' = pq_tree
        BY <1>2, <3>1
      <4> QED
        BY <1>0, <4>1 DEF QueueTypes
    <3>2. CASE h = {pq_highest}
      BY <1>0, <1>2, <3>2, FS_RemoveElement DEF QueueTypes
    <3> QED
      BY <1>2, <3>1, <3>2
  <2>2. accepted' \in [Priority -> Seq(Datum)]
    <3>1. accepted[i] \in Seq(Datum) /\ accepted \in [Priority -> Seq(Datum)]
      BY <1>0 DEF QueueTypes
    <3>2. PICK s \in Seq(Datum) : s = IF accepted[i] = <<>> THEN accepted[i] ELSE Tail(accepted[i])
      <4>1. accepted[i] # <<>> => Tail(accepted[i]) \in Seq(Datum)
        BY <3>1
      <4> QED
        BY <3>1, <4>1
    <3>3. accepted' = [accepted EXCEPT ![i] = s]
      BY <1>2, <3>1, <3>2 DEF Dequeue
    <3> QED
      BY <3>1, <3>3, OneQueueChanged, Zenon
  <2>3. DOMAIN q_front' = Priority /\ DOMAIN q_back' = Priority
    BY <1>0, <1>2 DEF QueueTypes, Dequeue
  <2> QED
    BY <1>0, <1>2, <2>1, <2>2, <2>3 DEF QueueTypes
<1>3. CASE PullHighest
  <2>1. pq_highest \in Priority
    BY <1>0, <1>3 DEF PullHighest, QueueTypes
  <2>2. Dequeue(pq_highest) /\ UNCHANGED <<pq_tree, pq_highest, pq_freed, inserted, q_lost>>
    BY <1>3 DEF PullHighest
  <2>3. pq_tree' = pq_tree \ {}
    BY <2>2
  <2>4. QueueTypes'
    BY <1>2, <2>1, <2>2, <2>3
  <2>5. QueuesHold => QueuesHold'
    <3>1. PICK h : h = {}
      OBVIOUS
    <3>2. \A j \in Priority : j \in h => accepted[j] = <<>>
      BY <3>1
    <3>3. q_front[pq_highest] # Null /\ inserted' = inserted /\ pq_tree' = pq_tree \ h
      BY <1>3, <2>3, <3>1 DEF PullHighest
    <3> HIDE DEF QueuesHold, QueueTypes, Dequeue
    <3> QED
      BY <1>0, <2>1, <2>2, <3>2, <3>3, DequeueHolds, Zenon
  <2> QED
    BY <1>0, <2>2, <2>4, <2>5 DEF QueueInv
<1>4. CASE PullNext
  <2>1. /\ pq_highest # 0 /\ (~pq_freed => q_front[pq_highest] = Null)
        /\ pq_tree' = pq_tree \ {pq_highest} /\ pq_highest' = Next2 /\ pq_freed' = FALSE
        /\ UNCHANGED <<inserted, q_lost>>
    BY <1>0, <1>4 DEF PullNext, Emptied, QueueTypes
  <2>2. pq_highest' = MaxOf(pq_tree')
    BY <2>1 DEF Next2
  <2>3. pq_highest \in Priority
    BY <1>0, <2>1 DEF QueueTypes
  <2>4. ~q_lost => accepted[pq_highest] = <<>>
    BY <1>0, <2>1, <2>3, EmptyFront
  <2>5. CASE Next2 # 0 /\ q_front[Next2] # Null
    <3>1. Next2 \in Priority
      BY <1>0, <2>5, NextIn DEF QueueTypes
    <3>2. Dequeue(Next2)
      BY <1>4, <2>5 DEF PullNext
    <3>3. QueueTypes'
      BY <1>2, <2>1, <3>1, <3>2
    <3>4. ~q_lost => QueuesHold'
      <4>1. PICK h : h = {pq_highest}
        OBVIOUS
      <4>2. SUFFICES ASSUME ~q_lost PROVE QueuesHold'
        OBVIOUS
      <4>3. \A j \in Priority : j \in h => accepted[j] = <<>>
        BY <2>4, <4>1, <4>2
      <4>4. q_front[Next2] # Null /\ inserted' = inserted /\ pq_tree' = pq_tree \ h
        BY <2>1, <2>5, <4>1
      <4> HIDE DEF QueuesHold, QueueTypes, Dequeue
      <4> QED
        BY <1>0, <3>1, <3>2, <4>2, <4>3, <4>4, DequeueHolds, Zenon
    <3> QED
      BY <1>0, <2>1, <2>2, <3>3, <3>4 DEF QueueInv
  <2>6. CASE ~(Next2 # 0 /\ q_front[Next2] # Null)
    <3>1. UNCHANGED <<q_front, q_back, o_xor, accepted>>
      BY <1>4, <2>6 DEF PullNext
    <3>2. QueueTypes'
      <4>1. Next2 \in Priority \cup {0}
        BY <1>0, NextIn DEF QueueTypes
      <4> QED
        BY <1>0, <2>1, <3>1, <4>1, FS_RemoveElement DEF QueueTypes
    <3>3. ~q_lost => QueuesHold'
      BY <1>0, <2>1, <2>4, <3>1 DEF QueuesHold
    <3> QED
      BY <1>0, <2>1, <2>2, <3>2, <3>3 DEF QueueInv
  <2> QED
    BY <2>5, <2>6
<1>5. CASE UNCHANGED qvars
  <2>1. QueueTypes'
    BY <1>0, <1>5 DEF QueueTypes, qvars
  <2>2. QueuesHold => QueuesHold'
    BY <1>5 DEF QueuesHold, qvars
  <2> QED
    BY <1>0, <1>5, <2>1, <2>2 DEF QueueInv, qvars
<1> QED
  BY <1>1, <1>3, <1>4, <1>5 DEF QueueNext, Pull

\* What a step that takes the head off a queue of data is.
LEMMA PullsOldest ==
  ASSUME QueueInv, [QueueNext]_qvars, NEW i \in Held, ~q_lost, accepted'[i] = Tail(accepted[i])
  PROVE  i = MaxOf(Held) /\ q_front[i] = {Head(accepted[i])}
<1>0. QueueTypes /\ QueuesHold /\ ~pq_freed /\ i \in Priority /\ accepted[i] # <<>>
  BY DEF QueueInv, Held
<1>1. PICK s \in Seq(Datum) : s = accepted[i]
  BY <1>0 DEF QueueTypes
<1>2. Len(Tail(s)) = Len(s) - 1 /\ Len(s) \in Nat /\ Tail(s) # s
  <2>1. s # <<>>
    BY <1>0, <1>1
  <2>2. Len(Tail(s)) = Len(s) - 1 /\ Len(s) \in Nat
    BY <2>1
  <2>3. Len(s) # Len(s) - 1
    BY <2>2
  <2> QED
    BY <2>2, <2>3
<1>3. Held \in SUBSET Int /\ Held \subseteq pq_tree
  BY <1>0, QueueAssumption DEF Held, QueuesHold
<1>4. ASSUME NEW j \in Priority, Dequeue(j), j # i PROVE FALSE
  BY <1>0, <1>1, <1>2, <1>4 DEF Dequeue, QueueTypes
<1>5. CASE PullHighest
  <2>1. /\ pq_highest \in Priority /\ \A j \in pq_tree : j <= pq_highest
    BY <1>0, <1>5, HighestIs DEF PullHighest, QueueTypes
  <2>2. pq_highest = i /\ q_front[i] # Null /\ Dequeue(i)
    BY <1>4, <1>5, <2>1 DEF PullHighest
  <2>3. pq_tree' = pq_tree \ {} /\ inserted' = inserted
    BY <1>5 DEF PullHighest
  <2>4. q_front[i] = {Head(accepted[i])}
    <3>1. PICK h : h = {}
      OBVIOUS
    <3>2. \A j \in Priority : j \in h => accepted[j] = <<>>
      BY <3>1
    <3>3. pq_tree' = pq_tree \ h
      BY <2>3, <3>1
    <3> HIDE DEF QueuesHold, QueueTypes, Dequeue
    <3> QED
      BY <1>0, <2>2, <2>3, <3>2, <3>3, DequeueHolds, Zenon
  <2>5. MaxOf(Held) = i
    BY <1>3, <2>1, <2>2, GreatestIs
  <2> QED
    BY <2>4, <2>5
<1>6. CASE PullNext
  <2>1. /\ pq_highest # 0 /\ q_front[pq_highest] = Null
        /\ pq_tree' = pq_tree \ {pq_highest} /\ inserted' = inserted
    BY <1>0, <1>6 DEF PullNext, Emptied
  <2>2. pq_highest \in Priority
    BY <1>0, <2>1 DEF QueueTypes
  <2>3. accepted[pq_highest] = <<>>
    BY <1>0, <2>1, <2>2, EmptyFront
  <2>4. Next2 # 0 /\ q_front[Next2] # Null /\ Dequeue(Next2)
    <3>1. accepted' # accepted
      BY <1>1, <1>2
    <3> QED
      BY <1>6, <3>1 DEF PullNext
  <2>5. Next2 \in Priority /\ Next2 \in pq_tree
        /\ \A j \in pq_tree \ {pq_highest} : j <= Next2
    BY <1>0, <2>4, NextIn DEF QueueTypes
  <2>6. Next2 = i
    BY <1>4, <2>4, <2>5
  <2>7. q_front[i] = {Head(accepted[i])}
    <3>1. PICK h : h = {pq_highest}
      OBVIOUS
    <3>2. \A j \in Priority : j \in h => accepted[j] = <<>>
      BY <2>3, <3>1
    <3>3. pq_tree' = pq_tree \ h /\ Dequeue(i) /\ q_front[i] # Null
      BY <2>1, <2>4, <2>6, <3>1
    <3> HIDE DEF QueuesHold, QueueTypes, Dequeue
    <3> QED
      BY <1>0, <2>1, <3>2, <3>3, DequeueHolds, Zenon
  <2>8. \A j \in Held : j <= i
    BY <1>3, <2>3, <2>5, <2>6 DEF Held
  <2>9. MaxOf(Held) = i
    BY <1>3, <2>8, GreatestIs
  <2> QED
    BY <2>7, <2>9
<1>7. ASSUME NEW j \in Priority, NEW d \in Datum, Insert(j, d) PROVE FALSE
  <2>1. accepted' = accepted \/ accepted' = [accepted EXCEPT ![j] = Append(accepted[j], d)]
    BY <1>7 DEF Insert, Refuse, InsertInto, InsertNew, InsertFreed, Enqueue, EnqueueLost
  <2>2. accepted'[i] = s \/ accepted'[i] = Append(s, d)
    BY <1>0, <1>1, <2>1 DEF QueueTypes
  <2>3. Len(Append(s, d)) = Len(s) + 1
    BY <1>1
  <2>4. PICK n \in Nat : n = Len(s)
    BY <1>2
  <2>5. Len(accepted'[i]) = n - 1
    BY <1>1, <1>2, <2>4
  <2>6. Len(accepted'[i]) = n \/ Len(accepted'[i]) = n + 1
    BY <2>2, <2>3, <2>4
  <2> QED
    BY <2>5, <2>6
<1>8. CASE UNCHANGED qvars
  BY <1>1, <1>2, <1>8 DEF qvars
<1> QED
  BY <1>5, <1>6, <1>7, <1>8 DEF QueueNext, Pull

\* pull_highest_priority returns the oldest datum of the highest priority held,
\* whatever the priorities and the data, and however long nodes have been
\* linked to each other by the exclusive or of their neighbours, and queues
\* emptied, deleted, created, and refused or taken back for want of memory;
\* until memory runs out for a node of a list, or for the place in the tree of
\* a queue that pq_highest is at already.
THEOREM OldestFirst == QueueSpec => OldestOfHighest
<1>1. QueueSpec => []QueueInv
  BY QueueInvInit, QueueInvStep, PTL DEF QueueSpec
<1>2. QueueInv /\ [QueueNext]_qvars =>
        [\A i \in Held : ~q_lost /\ accepted'[i] = Tail(accepted[i])
           => i = MaxOf(Held) /\ q_front[i] = {Head(accepted[i])}]_qvars
  BY PullsOldest
<1> QED
  BY <1>1, <1>2, PTL DEF QueueSpec, OldestOfHighest
=============================================================================
