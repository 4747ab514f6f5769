------------------------------ MODULE MCEvent ------------------------------
(***************************************************************************)
(* The events of a process (part "queues") and the way of a user thread    *)
(* into an event handler and back (part "users") in one run.  Event leaves *)
(* out the contexts, Traps the masks and the memory of events.             *)
(***************************************************************************)
EXTENDS Event, Traps, TLC

VARIABLE part

\* The nodes are interchangeable, and so are the threads of Traps.
MCSymmetry == Permutations(Node) \cup Permutations(UThread)

MCInit == part \in {"queues", "users"} /\ Init /\ TrapInit

QueuesPart == part = "queues" /\ Next /\ UNCHANGED <<trapVars, part>>
UsersPart == part = "users" /\ TrapNext /\ UNCHANGED <<vars, part>>

MCSpec == MCInit /\ [][QueuesPart \/ UsersPart]_<<vars, trapVars, part>>
=============================================================================
