------------------------------ MODULE MCMutex ------------------------------
EXTENDS Mutex, TLC

CONSTANTS t1, t2, t3

\* Two round-robin threads and one of a higher priority.
MixedPrio == (t1 :> 0) @@ (t2 :> 0) @@ (t3 :> 1)

\* Round-robin threads only.
RoundRobin == (t1 :> 0) @@ (t2 :> 0) @@ (t3 :> 0)
=============================================================================
