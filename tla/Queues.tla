------------------------------- MODULE Queues -------------------------------
(***************************************************************************)
(* Operators on the queues of klib/queue.c and on stacks of nested calls,  *)
(* both sequences.  They are defined here and not taken from SequencesExt  *)
(* because what that module brings along makes every proof slow.           *)
(***************************************************************************)
EXTENDS Naturals, Sequences, Functions

\* list_del of the node at place i of a queue
ListDel(q, i) == SubSeq(q, 1, i - 1) \o SubSeq(q, i + 1, Len(q))

\* The innermost of nested calls, and what is left when it returns
Innermost(s) == s[Len(s)]
Outer(s) == SubSeq(s, 1, Len(s) - 1)
=============================================================================
