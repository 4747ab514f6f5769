----------------------------- MODULE UserSpace -----------------------------
(***************************************************************************)
(* Address spaces of user processes over their life: creation from an ELF  *)
(* image (proc/proc.c, kern/elfldr.c), heap (kern/vm-server.c), stack and  *)
(* page faults (hal/x86-64/exc/common-traps.c), copies between kernel and  *)
(* user (vm/vm-copy-inout.c), destruction.  Creation is three steps, as    *)
(* other processes take memory in between; the others hold the mutex of    *)
(* the address space from beginning to end.                                *)
(*                                                                         *)
(* A segment of an image has an address, the size in the file and in       *)
(* memory, and rights.                                                     *)
(***************************************************************************)
EXTENDS Vm

CONSTANTS
  Image,        \* the images in use, sequences of PT_LOAD segments
  StackBottom,  \* USER_STACK_BOTTOM
  ArgSize,      \* sizes of the argument area, rounded up; 0 for no command line
  Inc,          \* arguments of sbrk
  FaultAt,      \* addresses of page faults and of event frames
  CopyAt        \* pairs of address and length of copies

VARIABLES
  as, ffree, mcnt,   \* as, free and cnt of the record
  halt,              \* "no", or why the kernel has stopped
  pst,               \* how far each process is
  exact              \* history: an image had a segment that ends with a page

spaceVars == <<as, ffree, mcnt, halt, pst, exact>>

W == [as |-> as, free |-> ffree, cnt |-> mcnt, stop |-> "no"]

\* Results of functions; anything else stops the kernel.
Rc == {"no", "busy", "nomem", "inval", "fault", "noent", "perm"}

Become(w) ==
  /\ as' = w.as /\ ffree' = w.free /\ mcnt' = w.cnt
  /\ halt' = IF w.stop \in Rc THEN "no" ELSE w.stop

Bare == [area |-> [k \in Kind |-> None], tree |-> {}, pt |-> << >>, tbl |-> << >>]

SpaceTypeOK ==
  /\ \A p \in Proc : /\ as[p].tree \subseteq Kind
                     /\ \A v \in DOMAIN as[p].pt : as[p].pt[v].f \in Frame
  /\ ffree \subseteq Frame
  /\ mcnt \in [Frame -> 0 .. 1]
  /\ exact \in BOOLEAN
  /\ pst \in [Proc -> {"none", "loaded", "stacked", "dormant", "live", "copy"}]

\* _proc_common_init
SpaceInit ==
  /\ as = [p \in Proc |-> Bare] /\ ffree = Frame /\ mcnt = [f \in Frame |-> 0]
  /\ halt = "no" /\ pst = [p \in Proc |-> "none"] /\ exact = FALSE
-----------------------------------------------------------------------------
\* One page of a segment; without memory the load fails.
LoadPage(w, p, a, prot) ==
  IF Stopped(w) THEN w ELSE IF w.free = {} THEN Stop(w, "nomem") ELSE MapNew(w, p, a, prot)

\* The body of the loop over the program headers: pages with contents of the
\* file, up to the page after its last byte, then the others.
LoadSegment(w, p, k, seg) ==
  LET size == IF Aligned(seg.vaddr + seg.memsz) THEN seg.memsz ELSE PageNext(seg.memsz)
      n == CreateVma(w, p, k, seg.vaddr, size, seg.prot)
      bss == PageNext(seg.vaddr + seg.filesz)
  IN  IF Stopped(n) THEN n
      ELSE FoldLeft(LAMBDA v, a : LoadPage(v, p, a, seg.prot), n,
                    Steps(seg.vaddr, bss) \o Steps(bss, Area(n, p, k).end))

\* unmap_pages_out of the loader
Unload(w, p) ==
  FoldLeft(LAMBDA v, k : IF v.as[p].area[k] = None THEN v
                         ELSE FoldLeft(LAMBDA u, a : VmUnmapAddr(u, p, a, TRUE), v,
                                       Steps(Area(v, p, k).start, Area(v, p, k).end)),
           [w EXCEPT !.stop = "no"], <<"data", "text">>)

\* _proc_load_ELF_from_memory: the first segment is the text, the second the
\* data, the others are not loaded.
LoadElf(w, p, image) ==
  LET n1 == IF image = << >> THEN w ELSE LoadSegment(w, p, "text", image[1])
      n2 == IF Stopped(n1) \/ Len(image) < 2 THEN n1 ELSE LoadSegment(n1, p, "data", image[2])
  IN  IF n2.stop \in Rc \ {"no"} THEN Stop(Unload(n2, p), n2.stop) ELSE n2

\* proc_create up to the heap.  If it fails the structure is freed, and the
\* page table with what is still mapped is lost.
ProcCreate(p, image) ==
  LET w == LoadElf(AllocTable(W, p), p, image) IN
  /\ halt = "no" /\ pst[p] = "none"
  /\ IF w.stop = "no"
     THEN Become(w) /\ pst' = [pst EXCEPT ![p] = "loaded"]
     ELSE Become([w EXCEPT !.as[p] = Bare]) /\ UNCHANGED pst
  /\ exact' = (exact \/ \E i \in DOMAIN image : Aligned(image[i].vaddr + image[i].filesz))

\* The error exits of proc_create behind the loader: the pages are unmapped
\* without the mutex.
Unwind(w, p) ==
  FoldLeft(LAMBDA v, a : VmUnmapAddr(v, p, a, FALSE), w,
           Steps(Area(w, p, "data").start, Area(w, p, "data").end))

\* setup_heap_area; without data segment p->data is NULL.
SetupHeap(w, p) ==
  IF Area(w, p, "data") = None THEN Stop(w, "null")
  ELSE CreateVma(w, p, "heap", PageNext(Area(w, p, "data").end), 0, {"R", "W"})

\* alloc_process_stack: one page is mapped, whatever the size.
AllocProcessStack(w, p, size) ==
  LET n == CreateVma(w, p, "stack", StackBottom - PageSize, size, {"R", "W", "X"}) IN
  IF Stopped(n) THEN n ELSE IF n.free = {} THEN Stop(n, "nomem")
  ELSE MapNew(n, p, StackBottom - PageSize, {"R", "W", "X"})

\* setup_process_stack: memset writes to the whole of the stack, in kernel mode.
SetupProcessStack(w, p, size) ==
  LET n == AllocProcessStack(w, p, size) IN
  IF size = 0 THEN Unwind(w, p)
  ELSE IF Stopped(n) THEN Stop(n, "stack")
  ELSE IF \E a \in Range(Steps(StackBottom - PageSize, StackBottom - PageSize + size)) : ~Translates(n, p, a)
       THEN Stop(n, "bigargs")
  ELSE n

\* proc_create: heap and stack
ProcCreateStack(p, size) ==
  LET heap == SetupHeap(W, p)
      w == IF heap.stop = "busy" THEN Unwind(W, p)
           ELSE IF Stopped(heap) THEN heap ELSE SetupProcessStack(heap, p, size)
  IN
  /\ halt = "no" /\ pst[p] = "loaded"
  /\ Become(w)
  /\ pst' = [pst EXCEPT ![p] = "stacked"] /\ UNCHANGED exact

\* proc_create: the thread.  Without one it has to undo.
ProcCreateThread(p, ok) ==
  /\ halt = "no" /\ pst[p] = "stacked"
  /\ Become(IF ok THEN W ELSE Unwind(W, p))
  /\ pst' = [pst EXCEPT ![p] = "dormant"] /\ UNCHANGED exact

\* proc_start
ProcStart(p) ==
  /\ halt = "no" /\ pst[p] = "dormant"
  /\ pst' = [pst EXCEPT ![p] = "live"]
  /\ UNCHANGED <<as, ffree, mcnt, halt, exact>>
-----------------------------------------------------------------------------
Live(p) == halt = "no" /\ pst[p] = "live"

\* proc_expand_heap to a new end
ExpandHeap(w, p, new) == VmResizeArea(w, p, w.as[p].area["heap"].start, new)

\* handle_sbrk of the vm server
Sbrk(p, inc) ==
  LET heap == as[p].area["heap"]
      new == RoundUp(heap.end + inc)
  IN
  /\ Live(p) /\ inc # 0
  /\ new >= heap.start
  /\ Become(ExpandHeap(W, p, new))
  /\ UNCHANGED <<pst, exact>>

\* proc_expand_stack
ExpandStack(w, p, a) ==
  IF FindVma(w, p, a) # None THEN w ELSE VmResizeArea(w, p, w.as[p].area["stack"].start, a)

\* The condition of page_fault_exception for a fault below the stack
BelowStack(p, a) == as[p].area["heap"].end < a /\ a < as[p].area["stack"].start

\* Room for an event frame below the stack pointer, which is in an area or
\* below the stack (hal/x86-64/exc/x86_64-handle-event.c); the thread exits
\* if there is none.
EventFrame(p, a) ==
  /\ Live(p)
  /\ FindVma(W, p, a) # None \/ BelowStack(p, a)
  /\ Become(ExpandStack(W, p, a))
  /\ UNCHANGED <<pst, exact>>

\* page_fault_exception from user mode, where it does not end the thread.
\* For an address of an area it calls vm_map_newpage without the mutex, and
\* if that succeeded it would go on to end the thread.
PageFault(p, a) ==
  /\ Live(p)
  /\ \/ FindVma(W, p, a) # None /\ Become(VmMapNewpage(W, p, a, FALSE))
     \/ FindVma(W, p, a) = None /\ BelowStack(p, a) /\ Become(ExpandStack(W, p, a))
  /\ UNCHANGED <<pst, exact>>

\* user_area_can_access_nolock
CanAccess(w, p, a, n, right) ==
  LET k == FindVma(w, p, PageStart(a)) IN
  /\ k # None
  /\ Area(w, p, k).end >= RoundUp(a + n)
  /\ right \in Area(w, p, k).prot

\* The bytes [a, a + n) are touched in kernel mode.
Touch(w, p, a, n) ==
  IF \A x \in a .. a + n - 1 : Translates(w, p, x) THEN w ELSE Stop(w, "copyfault")

\* vm_copy_in from the running process to the kernel
VmCopyIn(p, a, n) ==
  /\ Live(p)
  /\ a < UserLimit /\ CanAccess(W, p, a, n, "R")
  /\ Become(Touch(W, p, a, n))
  /\ UNCHANGED <<pst, exact>>

\* vm_copy_out from the kernel to the running process
VmCopyOut(p, a, n) ==
  /\ Live(p)
  /\ a < UserLimit /\ CanAccess(W, p, a, n, "W")
  /\ Become(Touch(W, p, a, n))
  /\ UNCHANGED <<pst, exact>>

\* inter_user_copy of one page between the running process d and s: only the
\* mutex of the other one is held, while hal_translate_user_page asserts it
\* for both.  A page that is missing is mapped.
InterUserCopy(d, s, a) ==
  LET Source == IF Translates(W, s, a) THEN W
                ELSE IF FindVma(W, s, a) = None THEN Stop(W, "noent")
                ELSE IF ffree = {} THEN Stop(W, "nomem")
                ELSE MapNew(W, s, a, Area(W, s, FindVma(W, s, a)).prot)
  IN
  /\ Live(d) /\ Live(s)
  /\ Become(IF Stopped(Source) \/ d = s THEN Source ELSE Stop(Source, "copylock"))
  /\ UNCHANGED <<pst, exact>>

\* vm_duplicate into a new address space
Duplicate(d, s) ==
  /\ Live(s) /\ pst[d] = "none"
  /\ Become(VmDuplicate(AllocTable(W, d), d, s))
  /\ pst' = [pst EXCEPT ![d] = "copy"] /\ UNCHANGED exact

\* proc_destroy, once the threads are gone
ProcDestroy(p) ==
  /\ halt = "no" /\ pst[p] \in {"dormant", "live", "copy"}
  /\ LET w == VmDestroy(W, p) IN
     Become(IF Stopped(w) THEN w ELSE [w EXCEPT !.as[p].area = Bare.area])
  /\ pst' = [pst EXCEPT ![p] = "none"] /\ UNCHANGED exact

SpaceNext ==
  \E p \in Proc :
    \/ \E i \in Image : ProcCreate(p, i)
    \/ \E n \in ArgSize : ProcCreateStack(p, n)
    \/ \E ok \in BOOLEAN : ProcCreateThread(p, ok)
    \/ \E n \in Inc : Sbrk(p, n)
    \/ \E a \in FaultAt : PageFault(p, a) \/ EventFrame(p, a)
    \/ \E c \in CopyAt : VmCopyIn(p, c[1], c[2]) \/ VmCopyOut(p, c[1], c[2])
    \/ \E s \in Proc, a \in FaultAt : InterUserCopy(p, s, a)
    \/ \E s \in Proc : Duplicate(p, s)
    \/ ProcStart(p) \/ ProcDestroy(p)
-----------------------------------------------------------------------------
\* The areas of a process never overlap, although only creation compares them
\* with all others and growth looks at one address.
AreasDisjoint == \A p \in Proc : DisjointAreas(W, p)

\* Every page of every area is mapped once the process runs, as
\* vm_destroy_vma_nolock asserts (vm/vm.c:328) and copies rely on.
AreasBacked ==
  halt = "no" =>
    \A p \in Proc : pst[p] = "live" =>
      \A k \in as[p].tree : \A a \in as[p].area[k].start .. as[p].area[k].end - 1 : Translates(W, p, a)

\* A frame is in one place: free, in one translation or one table, and it is
\* counted as mapped exactly if it is in a translation.
FramesOwnedOnce ==
  LET uses(f) == {<<p, v>> \in Proc \X (0 .. UserLimit) :
                    v \in DOMAIN as[p].pt /\ as[p].pt[v].f = f}
      tabs(f) == {<<p, t>> \in Proc \X UNION {DOMAIN as[q].tbl : q \in Proc} :
                    t \in DOMAIN as[p].tbl /\ as[p].tbl[t] = f}
  IN  \A f \in Frame : Cardinality(uses(f)) + Cardinality(tabs(f)) + (IF f \in ffree THEN 1 ELSE 0) <= 1

\* Unless some segment ended with a page, every frame that is counted as
\* mapped is in a translation, so the frames of a process that is gone are not
\* counted any more.
MappedFramesReachable ==
  (halt = "no" /\ ~exact)
    => \A f \in Frame : mcnt[f] = 1 =>
         \E p \in Proc : \E v \in DOMAIN as[p].pt : as[p].pt[v].f = f

\* A page allows the process to read and write what its area allows.
PagesGrantRights ==
  \A p \in Proc : \A k \in as[p].tree : \A v \in DOMAIN as[p].pt :
    (as[p].area[k].start <= v * PageSize /\ v * PageSize < as[p].area[k].end)
      => (as[p].area[k].prot \cap {"R", "W"}) = (as[p].pt[v].prot \cap {"R", "W"})

\* A copy between kernel and user that has passed the check of the area never
\* faults in kernel mode.
CopiesNeverFault == halt # "copyfault"

\* Growing the heap or the stack is all or nothing: if the area does not
\* change, no translation does.
ResizeAllOrNothing ==
  [][\A p \in Proc :
       (pst[p] = "live" /\ pst'[p] = "live" /\ halt' = "no" /\ as'[p].area = as[p].area)
         => as'[p].pt = as[p].pt]_spaceVars

\* The areas of a process are disjoint, all their pages are mapped with their
\* rights while it runs, and so a copy that has passed the check of an area
\* never faults, whatever grew, failed or was copied before (vm_resize_area,
\* _proc_load_ELF_from_memory, user_area_can_access_nolock).
AreasSound == AreasDisjoint /\ AreasBacked /\ PagesGrantRights /\ CopiesNeverFault

\* Every frame has one owner, and what is counted as mapped is mapped: error
\* paths and destruction give back each page and table once
\* (hal_unmap_user_page, hal_free_user_page_table).
FramesAccounted == SpaceTypeOK /\ FramesOwnedOnce /\ MappedFramesReachable
=============================================================================
