----------------------------- MODULE PageTable -----------------------------
(***************************************************************************)
(* User page tables (hal/x86-64/mm/pgtbl.c) over the page allocator, as    *)
(* operators on a record w of the memory: w.free, the page frames that     *)
(* get_free_page can give; w.cnt, the map count of each frame; w.as, the   *)
(* address space of each process; w.stop, the error that a function        *)
(* returns, or the reason why the kernel stops in it.                      *)
(*                                                                         *)
(* An address space has tables, named by level and position (level 0 is    *)
(* the PML4 table, 3 the tables of pages), and translations from the       *)
(* number of a page to a frame and the rights in its entry.  A frame whose *)
(* map count drops to zero is not free again (page/page.c,                 *)
(* dec_page_map_count).                                                    *)
(***************************************************************************)
EXTENDS Areas, FiniteSets, SequencesExt

CONSTANTS
  Frame,      \* page frames, numbers
  Span        \* pages covered by one table of level 0, 1, 2, 3

\* for ( vaddr = a; vaddr < b; vaddr += PAGE_SIZE )
Steps(a, b) == [i \in 1 .. (IF a < b THEN (b - a - 1) \div PageSize + 1 ELSE 0) |-> a + (i - 1) * PageSize]

PutAt(f, x, v) == [y \in DOMAIN f \cup {x} |-> IF y = x THEN v ELSE f[y]]
DropAt(f, x) == [y \in DOMAIN f \ {x} |-> f[y]]

\* get_free_page: -ENOMEM is an empty w.free; else the first frame is taken.
First(w) == CHOOSE f \in w.free : \A g \in w.free : f <= g
Take(w) == [w EXCEPT !.free = @ \ {First(w)}]

\* hal_alloc_user_page_table; vm_init does not look at its result.
AllocTable(w, p) ==
  IF w.free = {} THEN w ELSE [Take(w) EXCEPT !.as[p].tbl = <<0, 0>> :> First(w)]

\* alloc_pdp_tbl, alloc_pdir_tbl, alloc_pte_tbl, and the kassert that follows
\* each of them in hal_map_user_page
AllocTbl(w, p, level, a) ==
  LET key == <<level, (a \div PageSize) \div Span[level + 1]>> IN
  IF Stopped(w) \/ key \in DOMAIN w.as[p].tbl THEN w
  ELSE IF w.free = {} THEN Stop(w, "table")
  ELSE [Take(w) EXCEPT !.as[p].tbl = PutAt(@, key, First(w))]

\* vma_prot_to_page_flags, then the bits that hal_map_user_page keeps: the
\* one that forbids execution is lost.  The result is what
\* page_flags_to_vma_prot makes of the entry.
VmaProtToPageFlags(prot) == IF prot = {} THEN {} ELSE {"R", "X"} \cup (prot \cap {"W"})

\* hal_map_user_page; an entry that was present is overwritten.
MapUserPage(w, p, a, f, prot) ==
  LET n == FoldLeft(LAMBDA v, level : AllocTbl(v, p, level, a), w, <<1, 2, 3>>) IN
  IF VmaProtToPageFlags(prot) = {} THEN w
  ELSE IF w.as[p].tbl = << >> THEN Stop(w, "nopgtbl")
  ELSE IF Stopped(n) THEN n
  ELSE [n EXCEPT !.as[p].pt = PutAt(@, a \div PageSize, [f |-> f, prot |-> VmaProtToPageFlags(prot)]),
                 !.cnt[f] = @ + 1]

\* A new page for an address: get_free_page and hal_map_user_page.  The caller
\* has seen that there is one.
MapNew(w, p, a, prot) == MapUserPage(Take(w), p, a, First(w), prot)

\* hal_translate_user_page succeeds
Translates(w, p, a) == a \div PageSize \in DOMAIN w.as[p].pt

\* hal_unmap_user_page; -ENOENT if there is no translation
UnmapUserPage(w, p, a) ==
  LET v == a \div PageSize IN
  IF ~Translates(w, p, a) THEN w
  ELSE [w EXCEPT !.cnt[w.as[p].pt[v].f] = @ - 1, !.as[p].pt = DropAt(@, v)]

\* free_user_pte_tbl on every table: the pages that are still mapped
FreePtes(w, p) ==
  LET pt == w.as[p].pt IN
  [w EXCEPT !.as[p].pt = << >>,
            !.cnt = [f \in Frame |-> w.cnt[f] - Cardinality({v \in DOMAIN pt : pt[v].f = f})]]

\* Mutant: the address space still refers to its tables.
FreeTablesDangling(w, p) ==
  [w EXCEPT !.free = @ \cup {w.as[p].tbl[k] : k \in DOMAIN w.as[p].tbl}]

\* free_user_pdir_tbl, free_user_pdp_tbl and the end of
\* hal_free_user_page_table: the tables themselves
FreeTables(w, p) ==
  [w EXCEPT !.as[p].tbl = << >>,
            !.free = @ \cup {w.as[p].tbl[k] : k \in DOMAIN w.as[p].tbl}]

\* hal_free_user_page_table
FreeUserPageTable(w, p) == FreeTables(FreePtes(w, p), p)
=============================================================================
