------------------------------ MODULE Sockets ------------------------------
(***************************************************************************)
(* The UDP sockets of src/src/net.c.  An operation is the set of outcomes  *)
(* [ok, x] it may have on socket x: the kernel may refuse each call when   *)
(* its argument fails is TRUE.  Buffer sizes and the address list, of      *)
(* which the first IPv6 entry or else the first is taken, are left out.    *)
(***************************************************************************)
EXTENDS Naturals

NoSocket == [open |-> FALSE, mode |-> "none", broadcast |-> FALSE, iface |-> FALSE,
             group |-> "none"]

Outcome(ok, x) == [ok |-> ok, x |-> x]
Refused(fails, x) == IF fails THEN {Outcome(FALSE, x)} ELSE {}

\* unset_multicast_receive_opts_spead_socket succeeds for a member only: the
\* memory of a group that could not be joined stays allocated.
Destroy(x) == [NoSocket EXCEPT !.group = IF x.group = "allocated" THEN "lost" ELSE "none"]

\* No memory, getaddrinfo or socket: what there is gets destroyed.
CreateUdp(fails) == {Outcome(TRUE, [NoSocket EXCEPT !.open = TRUE])} \cup Refused(fails, NoSocket)

NextMode(x, mode) == IF x.mode = "none" THEN mode ELSE "both"

Bind(x, fails) == {Outcome(TRUE, [x EXCEPT !.mode = NextMode(x, "bound")])} \cup Refused(fails, x)

\* The kernel refuses a broadcast address unless SO_BROADCAST is set.
Connect(x, toAll, fails) ==
  IF toAll /\ ~x.broadcast THEN Refused(TRUE, x)
  ELSE {Outcome(TRUE, [x EXCEPT !.mode = NextMode(x, "connected")])} \cup Refused(fails, x)

SetBroadcast(x, fails) == {Outcome(TRUE, [x EXCEPT !.broadcast = TRUE])} \cup Refused(fails, x)

\* IP_MULTICAST_LOOP off, and the interface to send from.
SendMulticast(x, fails) == {Outcome(TRUE, [x EXCEPT !.iface = TRUE])} \cup Refused(fails, x)

JoinGroup(x, fails) ==
  {Outcome(TRUE, [x EXCEPT !.group = "member"])}
  \cup Refused(fails, x) \cup Refused(fails, [x EXCEPT !.group = "allocated"])

\* The outcomes of A, each followed by B when it is a success.
Then(A, B(_)) == UNION {IF o.ok THEN B(o.x) ELSE {o} : o \in A}

\* The outcomes of A, whose failure the caller ignores, followed by B.
Always(A, B(_)) == UNION {B(o.x) : o \in A}

(***************************************************************************)
(* How the two programs set their sockets up.                              *)
(***************************************************************************)

\* startup_server_us.  -m takes effect with an interface only.
Listening(broadcast, multicast, fails) ==
  LET Member(x) == IF multicast THEN JoinGroup(x, fails) ELSE {Outcome(TRUE, x)}
      Bound(x) == Then(Bind(x, fails), Member)
      Option(x) == Always(IF broadcast THEN SetBroadcast(x, fails) ELSE {Outcome(TRUE, x)}, Bound)
  IN Then(CreateUdp(fails), Option)

\* create_speadtx.  With -m the destination is the group and is not
\* connected to; the host is the interface.
Sending(multicast, broadcast, toAll, fails) ==
  LET Join(x) == Connect(x, toAll, fails)
      Option(x) == Always(IF broadcast THEN SetBroadcast(x, fails) ELSE {Outcome(TRUE, x)}, Join)
      Multi(x) == SendMulticast(x, fails)
  IN IF multicast THEN Then(CreateUdp(fails), Multi) ELSE Then(CreateUdp(fails), Option)
=============================================================================
