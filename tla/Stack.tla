------------------------------- MODULE Stack -------------------------------
(***************************************************************************)
(* The stack of src/src/stack.c: a linked list of cells, the top first,    *)
(* used by one process at a time.  A stack is the sequence of its data; it *)
(* exists as long as somebody has it, and its cells come from              *)
(* shared_malloc (module SharedMem).                                       *)
(***************************************************************************)
EXTENDS Sequences

CreateStack == <<>>

\* empty_stack and destroy_stack
DestroyStack(s) == CreateStack

\* push_stack
PushStack(s, o) == <<o>> \o s

\* pop_stack: what it takes and what it leaves; of an empty stack it fails.
CanPopStack(s) == s # CreateStack
TopStack(s) == Head(s)
PopStack(s) == Tail(s)

\* The order in which traverse_stack calls back.
TraverseStack(s) == s

\* funnel_stack, one turn: the top of src is handed to the callback; pushed
\* onto dst the data end up in the opposite order.
FunnelTurn(src, dst) == [src |-> PopStack(src), dst |-> PushStack(dst, TopStack(src))]
=============================================================================
