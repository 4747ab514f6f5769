--------------------------------- MODULE Vm ---------------------------------
(***************************************************************************)
(* Mapping, growth, copy and destruction of virtual memory areas (vm/vm.c) *)
(* as operators on the record of PageTable.  All of it runs with the mutex *)
(* of the address space held.                                              *)
(***************************************************************************)
EXTENDS PageTable

\* vm_map_newpage; held says whether the caller has the mutex, which it has to.
VmMapNewpage(w, p, a, held) ==
  LET k == FindVma(w, p, a) IN
  IF ~held THEN Stop(w, "unlocked")
  ELSE IF a >= UserLimit THEN Stop(w, "fault")
  ELSE IF k = None THEN Stop(w, "noent")
  ELSE IF w.free = {} THEN Stop(w, "nomem")
  ELSE MapNew(w, p, a, Area(w, p, k).prot)

\* vm_unmap_addr
VmUnmapAddr(w, p, a, held) ==
  IF ~held THEN Stop(w, "unlocked")
  ELSE IF a >= UserLimit \/ FindVma(w, p, a) = None THEN w
  ELSE UnmapUserPage(w, p, a)

\* unmap_range
UnmapRange(w, p, a, b) == FoldLeft(LAMBDA v, x : UnmapUserPage(v, p, x), w, Steps(a, b))

\* Mutant: the pages that were mapped before the failure stay.
MapNewpageRangeKeeps(w, p, a, b, prot) ==
  LET One(v, x) == IF Stopped(v) THEN v ELSE IF v.free = {} THEN Stop(v, "nomem")
                   ELSE MapNew(v, p, x, prot)
  IN  FoldLeft(One, w, Steps(a, b))

\* map_newpage_range; without memory what was mapped is unmapped again and
\* the result has stop "nomem" (-ENOMEM).
MapNewpageRange(w, p, a, b, prot) ==
  LET One(v, x) ==
        IF Stopped(v) THEN v
        ELSE IF v.free = {} THEN Stop(UnmapRange(v, p, a, x), "nomem")
        ELSE MapNew(v, p, x, prot)
  IN  FoldLeft(One, w, Steps(a, b))

\* resize_vma of the area k to [start, end): the second range is treated
\* whatever became of the first, and its result is the one that counts.
ResizeVma(w, p, k, start, end) ==
  LET a == Area(w, p, k)
      s == PageStart(start)  e == RoundUp(end)
      lower == IF s < a.start THEN MapNewpageRange(w, p, s, a.start, a.prot)
               ELSE UnmapRange(w, p, a.start, s)
      upper == IF a.end = e THEN lower
               ELSE LET l == [lower EXCEPT !.stop = IF @ = "nomem" THEN "no" ELSE @] IN
                    IF a.end < e THEN MapNewpageRange(l, p, a.end, e, a.prot)
                    ELSE UnmapRange(l, p, e, a.end)
  IN  IF e < s THEN Stop(w, "inval")
      ELSE IF Stopped(upper) THEN upper
      ELSE [upper EXCEPT !.as[p].area[k].start = s, !.as[p].area[k].end = e]

\* vm_resize_area: the lookup that checks the new end also decides which area
\* is resized, if it finds one.
VmResizeArea(w, p, at, new) ==
  LET k == FindVma(w, p, at)
      a == Area(w, p, k)
      to == IF k = "heap" THEN RoundUp(new) ELSE PageStart(new)
      other == FindVma(w, p, to)
      target == IF other = None THEN k ELSE other
  IN
  IF at >= UserLimit \/ new >= UserLimit THEN Stop(w, "fault")
  ELSE IF k = None THEN Stop(w, "noent")
  ELSE IF k = "heap" THEN
    IF a.end < to /\ other # None THEN Stop(w, "busy") ELSE ResizeVma(w, p, target, a.start, to)
  ELSE IF k = "stack" THEN
    IF a.start > to /\ other # None THEN Stop(w, "busy") ELSE ResizeVma(w, p, target, to, a.end)
  ELSE Stop(w, "perm")

\* vm_destroy_vma_nolock: each page has to be mapped
DestroyVma(w, p, k) ==
  LET One(v, x) == IF Stopped(v) THEN v
                   ELSE IF Translates(v, p, x) THEN UnmapUserPage(v, p, x) ELSE Stop(v, "destroy")
      n == FoldLeft(One, w, Steps(Area(w, p, k).start, Area(w, p, k).end))
  IN  [n EXCEPT !.as[p].area[k] = None, !.as[p].tree = @ \ {k}]

\* vm_destroy
VmDestroy(w, p) ==
  LET n == FoldLeft(LAMBDA v, k : IF k \in w.as[p].tree THEN DestroyVma(v, p, k) ELSE v, w,
                    <<"text", "data", "heap", "stack">>)
  IN  FreeUserPageTable(n, p)

\* vm_copy_vma: pages are copied as far as both areas go.
VmCopyVma(w, d, s, k) ==
  LET One(v, x) == IF Stopped(v) \/ ~Translates(v, s, x) THEN v
                   ELSE IF v.free = {} THEN Stop(v, "nomem")
                   ELSE MapNew(v, d, x, Area(v, s, k).prot)
      a == Area(w, s, k)
  IN  IF a.start < a.end THEN FoldLeft(One, w, Steps(a.start, a.end)) ELSE Stop(w, "empty")

\* vm_duplicate: the first error ends it, unreported.
VmDuplicate(w, d, s) ==
  LET One(v, k) == IF Stopped(v) \/ k \notin v.as[s].tree THEN v
                   ELSE LET a == Area(v, s, k)
                            n == CreateVma(v, d, k, a.start, a.end - a.start, a.prot)
                        IN  IF Stopped(n) THEN n ELSE VmCopyVma(n, d, s, k)
  IN  FoldLeft(One, w, <<"text", "data", "heap", "stack">>)
=============================================================================
