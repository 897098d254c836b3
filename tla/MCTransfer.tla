----------------------------- MODULE MCTransfer -----------------------------
(***************************************************************************)
(* Item groups of up to three items: every way to give them lengths, from  *)
(* empty to longer than a packet, of up to seven bytes altogether.         *)
(***************************************************************************)
EXTENDS Transfer

MCGroups ==
  {g \in BoundedSeq(0 .. 4, 3) : g # <<>> /\ FoldLeft(+, 0, g) <= 7}

=============================================================================
