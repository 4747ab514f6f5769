------------------------------- MODULE Areas -------------------------------
(***************************************************************************)
(* The virtual memory areas of processes (vm/vm.c), how one is found and   *)
(* how one is added, as operators on the record w of the memory that       *)
(* module PageTable describes.  A process has at most one area of each     *)
(* kind; area[k] is None or the area, tree the kinds whose area is in      *)
(* vma_head.                                                               *)
(***************************************************************************)
EXTENDS Integers

CONSTANTS
  Proc,
  PageSize,
  UserLimit,    \* USER_VADDR_LIMIT: the end of user addresses
  KernBase,     \* KERN_VMA_BASE: where the addresses of the kernel begin
  None

Kind == {"text", "data", "heap", "stack"}

ASSUME AreasAssumption ==
  /\ PageSize \in Nat \ {0} /\ UserLimit \in Nat /\ KernBase \in Nat
  /\ UserLimit <= KernBase /\ None \notin Kind

PageStart(a) == (a \div PageSize) * PageSize
PageNext(a) == PageStart(a) + PageSize
Aligned(a) == a % PageSize = 0
RoundUp(a) == IF Aligned(a) THEN a ELSE PageNext(a)

\* An error is returned, or a kassert fails.
Stop(w, why) == [w EXCEPT !.stop = why]
Stopped(w) == w.stop # "no"

Area(w, p, k) == w.as[p].area[k]

\* RB_FOREACH visits the areas in the order of vma_cmp: the first one of S
FirstArea(w, p, S) ==
  IF S = {} THEN None
  ELSE CHOOSE k \in S : \A j \in S : Area(w, p, k).start <= Area(w, p, j).start

\* The condition of _vm_find_vma_nolock
Covers(a, addr) == (a.start <= addr /\ addr < a.end) \/ (a.start = a.end /\ addr = a.start)

\* _vm_find_vma_nolock
FindVma(w, p, addr) ==
  FirstArea(w, p, {k \in w.as[p].tree : Covers(Area(w, p, k), addr)})

\* No two areas of p overlap.
DisjointAreas(w, p) ==
  \A j, k \in w.as[p].tree :
    LET a == Area(w, p, j)  b == Area(w, p, k) IN
    j # k => a.end <= b.start \/ b.end <= a.start

\* Mutant: only the ends of the new area are looked up.
OverlapsAtEnds(w, p, start, end) ==
  \/ RoundUp(end) >= KernBase
  \/ FindVma(w, p, start) # None \/ FindVma(w, p, end) # None

\* check_vma_overlap_nolock; an area that ends where another begins is
\* refused, one that begins where another ends is not.
Overlaps(w, p, start, end) ==
  LET s == PageStart(start)  e == RoundUp(end) IN
  \/ e >= KernBase
  \/ \E k \in w.as[p].tree :
       LET v == Area(w, p, k) IN
       \/ v.start <= s /\ s < v.end
       \/ v.start <= e /\ e <= v.end
       \/ s <= v.start /\ v.start < e
       \/ s < v.end /\ v.end <= e

\* vm_create_vma; the result has stop "busy" where the code returns -EBUSY.
CreateVma(w, p, k, start, size, prot) ==
  IF Overlaps(w, p, start, start + size) THEN Stop(w, "busy")
  ELSE [w EXCEPT !.as[p].area[k] = [start |-> start, end |-> start + size, prot |-> prot],
                 !.as[p].tree = @ \cup {k}]
=============================================================================
