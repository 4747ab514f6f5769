------------------------------ MODULE MCMemory ------------------------------
(***************************************************************************)
(* Memory in one run: the page allocator with map counts (part "pages"),   *)
(* the slab allocator on top of it (part "caches") and the address spaces  *)
(* of processes (part "spaces").                                           *)
(***************************************************************************)
EXTENDS Slab, UserSpace

VARIABLE part

MCKmallocSizes == <<8, 56>>
MCCreateArgs == {<<8, 0>>, <<2, 0>>}

Seg(vaddr, filesz, memsz, prot) == [vaddr |-> vaddr, filesz |-> filesz, memsz |-> memsz, prot |-> prot]

\* A program; one whose text ends with its page; one without data; two
\* whose segments overlap.
MCImage ==
  {<<Seg(2, 3, 3, {"R", "X"}), Seg(6, 1, 3, {"R", "W"})>>,
   <<Seg(2, 4, 4, {"R", "X"}), Seg(6, 1, 1, {"R", "W"})>>,
   <<Seg(2, 3, 3, {"R", "X"})>>,
   <<Seg(2, 3, 3, {"R", "X"}), Seg(4, 1, 3, {"R", "W"})>>,
   <<Seg(4, 1, 1, {"R", "X"}), Seg(2, 1, 6, {"R", "W"})>>}
MCInc == {-2, -1, 3, 34}
MCCopyAt == {<<3, 1>>, <<7, 4>>, <<13, 2>>, <<39, 1>>, <<36, 3>>}
MCFaultAt == {7, 11, 13, 35}
MCSpan == <<64, 64, 64, 8>>

memVars == <<slabVars, unmapped>>

MCInit ==
  /\ part \in {"pages", "caches", "spaces"}
  /\ IF part = "caches" THEN SlabInit
     ELSE /\ BuddyInit /\ kc = << >> /\ slabs = << >> /\ pslab = [p \in Page |-> NoSlab]
          /\ live = {} /\ stopped = FALSE
  /\ SpaceInit

PagesPart == part = "pages" /\ BuddyNext /\ UNCHANGED <<kc, slabs, pslab, live, stopped, spaceVars, part>>
CachesPart == part = "caches" /\ SlabNext /\ UNCHANGED <<spaceVars, part>>
SpacesPart == part = "spaces" /\ SpaceNext /\ UNCHANGED <<memVars, part>>

MCSpec == MCInit /\ [][PagesPart \/ CachesPart \/ SpacesPart]_<<memVars, spaceVars, part>>
=============================================================================
