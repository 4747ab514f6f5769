----------------------------- MODULE MCThreads -----------------------------
(***************************************************************************)
(* The life of threads (part "life") and the bitmap of identifiers (part   *)
(* "ids") in one run; neither changes the variables of the other.          *)
(***************************************************************************)
EXTENDS ThreadLife, IdBitmap

CONSTANTS c1, c2, c3

\* One caller that calls everything, and callers that share a bitmap of four
\* identifiers, which cannot grow: its growth is not safe for two callers.
MCUses ==
  {[callers |-> {c1}, ops |-> Op, start |-> 0, max |-> 8],
   [callers |-> {c1, c2}, ops |-> {"get", "specified", "put", "destroy"}, start |-> 4, max |-> 4],
   [callers |-> {c1, c2, c3}, ops |-> {"get", "put"}, start |-> 4, max |-> 4]}

\* The uses are those that IdsAlwaysAccounted of AllocProofs is about.
ASSUME MCUsedSafely == UsedSafely

VARIABLE part

MCInit ==
  \/ part = "life" /\ Init /\ IdInit /\ use = [callers |-> {c1}, ops |-> Op, start |-> 0, max |-> 8]
  \/ part = "ids" /\ Init /\ IdInit

LifePart == part = "life" /\ Next /\ UNCHANGED <<idVars, use, part>>
IdsPart == part = "ids" /\ IdNext /\ UNCHANGED <<vars, use, part>>

MCSpec ==
  /\ MCInit /\ [][LifePart \/ IdsPart]_<<vars, idVars, use, part>>
  /\ Fairness
=============================================================================
