----------------------------- MODULE ObjectBank -----------------------------
(***************************************************************************)
(* What the object bank and the hash tables promise the workers: an object *)
(* is free, or in the hands of one process, or at one place of one chain,  *)
(* and a chain keeps the order in which it was filled.                     *)
(***************************************************************************)
EXTENDS Sequences

CONSTANTS HUser, HTable, HBucket, HObject

VARIABLES free,      \* a set of objects
          holding,   \* of each process: a set of objects
          chain      \* of each table and bucket: a sequence of objects

bvars == <<free, holding, chain>>

BankInit ==
  /\ free = HObject
  /\ holding = [p \in HUser |-> {}]
  /\ chain = [t \in HTable |-> [b \in HBucket |-> <<>>]]

Take(p) == \E o \in free :
  /\ free' = free \ {o}
  /\ holding' = [holding EXCEPT ![p] = @ \cup {o}]
  /\ UNCHANGED chain

Return(p) == \E o \in holding[p] :
  /\ free' = free \cup {o}
  /\ holding' = [holding EXCEPT ![p] = @ \ {o}]
  /\ UNCHANGED chain

Hang(p) == \E o \in holding[p], t \in HTable, b \in HBucket :
  /\ holding' = [holding EXCEPT ![p] = @ \ {o}]
  /\ chain' = [chain EXCEPT ![t][b] = Append(@, o)]
  /\ UNCHANGED free

\* The first object of a chain goes back.
Release == \E t \in HTable, b \in HBucket :
  /\ chain[t][b] # <<>>
  /\ free' = free \cup {Head(chain[t][b])}
  /\ chain' = [chain EXCEPT ![t][b] = Tail(@)]
  /\ UNCHANGED holding

BankNext == (\E p \in HUser : Take(p) \/ Return(p) \/ Hang(p)) \/ Release

BankSpec == BankInit /\ [][BankNext]_bvars
=============================================================================
