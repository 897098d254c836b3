----------------------------- MODULE MCReceiver -----------------------------
(* Traffic for the receive path's runs. *)
EXTENDS Receiver, TLC

CONSTANTS w1, w2, x1, x2, x3

Packet(h, hl, po, n) ==
  [kind |-> "spead", heap |-> h, hlen |-> hl, off |-> po, len |-> n,
   items |-> 1, term |-> FALSE, desc |-> FALSE]

\* A heap of two packets of different lengths, a heap of descriptors, the
\* stream terminator, which carries no data items, a datagram that is not
\* SPEAD, and a packet whose heap shares the first one's table and whose
\* offset beyond its heap the hash function maps outside the table.
Junk == [Blank EXCEPT !.kind = "junk"]
Outside == [Packet(4, 1, 4, 1) EXCEPT !.items = 0]
Terminator == [Blank EXCEPT !.kind = "spead", !.heap = 2, !.term = TRUE]
Descriptor == [Packet(1, 1, 0, 1) EXCEPT !.desc = TRUE]
MixedTraffic == {Packet(0, 3, 0, 2), Packet(0, 3, 2, 1), Descriptor, Terminator,
                 Junk, Outside}

\* Two heaps in different tables, and an empty datagram.
Empty == [Blank EXCEPT !.kind = "empty"]
CleanTraffic == {Packet(0, 3, 0, 2), Packet(0, 3, 2, 1), Packet(1, 1, 0, 1), Empty}

\* Two heaps of two packets, which share one of two tables or have their own
\* of three.
TwoHeaps == {Packet(0, 2, 0, 1), Packet(0, 2, 1, 1),
             Packet(2, 2, 0, 1), Packet(2, 2, 1, 1)}

\* The runs that expect whole heaps bring orderly traffic.
ASSUME TrafficAssumption == Datagram \in {MixedTraffic, CleanTraffic} => Orderly

Symmetry == Permutations(Worker) \cup Permutations(Object)
=============================================================================
