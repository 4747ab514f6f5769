-------------------------------- MODULE Slab --------------------------------
(***************************************************************************)
(* kmem caches (page/page-kmcache.c) and kmalloc (page/page-kmalloc.c) on  *)
(* top of the buddy allocator.  Every function is a critical section with  *)
(* interrupts disabled.  kmalloc and kfree are three of them, but the      *)
(* reference they take is of a predefined cache, which is never destroyed. *)
(* A slab is named by its first page, an object by its slab and index.     *)
(* Constructors and destructors are left out.                              *)
(***************************************************************************)
EXTENDS Buddy, SlabParam

CONSTANTS
  KmallocSizes,  \* the sizes of the predefined caches, ascending
  CacheStruct,   \* sizeof(kmem_cache)
  UserCache,     \* caches that kmem_cache_create may make, all of one name
  UserSize,      \* the size of their objects
  CreateArgs,    \* pairs of arguments align and limits of kmem_cache_create
  DefaultLimit,  \* KM_DEFAULT_LIMIT
  EarlyPages,    \* pages that were taken before the caches are initialised
  MaxRefs,       \* bound on the references to a cache
  NoSlab

Cache == (1 .. Len(KmallocSizes)) \cup UserCache

VARIABLES
  kc,      \* the caches that exist
  slabs,   \* the slabs that exist
  pslab,   \* slabp of each page frame
  live,    \* history: objects that were allocated and not yet freed
  stopped  \* a kassert has failed

slabVars == <<pages, lists, freenr, held, kc, slabs, pslab, live, stopped>>

SlabTypeOK ==
  /\ DOMAIN kc \subseteq Cache
  /\ \A c \in DOMAIN kc :
       /\ kc[c].usage \in 0 .. MaxRefs /\ kc[c].count \in 0 .. NrPages
       /\ kc[c].color \in 0 .. kc[c].colors
  /\ DOMAIN slabs \subseteq Page
  /\ pslab \in [Page -> Page \cup {NoSlab}]
  /\ live \subseteq Page \X Nat
  /\ stopped \in BOOLEAN

Mem == [pages |-> pages, lists |-> lists, freenr |-> freenr, held |-> held,
      kc |-> kc, slabs |-> slabs, pslab |-> pslab, live |-> live, stop |-> stopped]

SetMem(w) ==
  /\ pages' = w.pages /\ lists' = w.lists /\ freenr' = w.freenr /\ held' = w.held
  /\ kc' = w.kc /\ slabs' = w.slabs /\ pslab' = w.pslab /\ live' = w.live
  /\ stopped' = w.stop
  /\ UNCHANGED unmapped

Unlink(s, x) == SelectSeq(s, LAMBDA y : y # x)
Drop(f, x) == [y \in DOMAIN f \ {x} |-> f[y]]
Put(f, x, v) == [y \in DOMAIN f \cup {x} |-> IF y = x THEN v ELSE f[y]]
InDb(w) == {c \in DOMAIN w.kc : w.kc[c].indb}
PagesOf(w, c, p) == p .. p + w.kc[c].size \div FrameSize - 1

\* kmem_cache_init without the registration: struct is the object that holds
\* the cache itself.
NewCache(size, align, predef, limit, struct) ==
  [obj |-> size, align |-> align,
   size |-> SlabSize(size, align), per |-> ObjsPerSlab(size, align),
   colors |-> ColorNum(size, align), color |-> 0,
   partial |-> << >>, full |-> << >>, free |-> << >>,
   count |-> 0, usage |-> 0, delay |-> FALSE, indb |-> TRUE,
   predef |-> predef, limit |-> limit, struct |-> struct]
-----------------------------------------------------------------------------
\* kmem_cache_grow_nolock, if the buddy allocator has a block.  The checks of
\* the cache fail if it is not registered any more.
GrowNolock(w, c) ==
  LET r == Dequeue(w, CalcPageOrder(w.kc[c].size))
      p == r[2]
  IN IF ~w.kc[c].indb THEN [w EXCEPT !.stop = TRUE]
     ELSE [r[1] EXCEPT
            !.held = @ \cup {<<p, CalcPageOrder(w.kc[c].size)>>},
            !.kc[c].color = NextColor(@, w.kc[c].colors),
            !.kc[c].free = Append(@, p),
            !.kc[c].count = @ + 1,
            !.slabs = Put(@, p, [cache |-> c, objs |-> [i \in 1 .. w.kc[c].per |-> i], count |-> 0]),
            !.pslab = [q \in Page |-> IF q \in PagesOf(w, c, p) THEN p ELSE @[q]]]

CanGrow(w, c) == Serves(w, CalcPageOrder(w.kc[c].size)) # {}

\* kmem_cache_alloc, once a slab is chosen that is among the partial ones
TakeObject(w, c, p) ==
  LET filled == w.slabs[p].count + 1 = w.kc[c].per IN
    [w EXCEPT !.slabs[p].objs = Tail(@), !.slabs[p].count = @ + 1,
              !.live = @ \cup {<<p, Head(w.slabs[p].objs)>>},
              !.kc[c].partial = IF filled THEN Unlink(@, p) ELSE @,
              !.kc[c].full = IF filled THEN Append(@, p) ELSE @]

\* kmem_cache_alloc; it changes nothing if it returns NULL.
Alloc(w, c) ==
  IF w.kc[c].partial # << >> THEN TakeObject(w, c, Head(w.kc[c].partial))
  ELSE LET g == IF w.kc[c].free = << >> /\ CanGrow(w, c) THEN GrowNolock(w, c) ELSE w
           p == Head(g.kc[c].free)
       IN IF g.stop \/ g.kc[c].free = << >> THEN g
          ELSE TakeObject([g EXCEPT !.kc[c].free = Tail(@), !.kc[c].partial = <<p>>], c, p)

\* kmem_cache_free: the slab goes from the full to the partial ones with its
\* first object, and to the free ones with its last.
FreeObj(w, obj) ==
  LET p == w.pslab[obj[1]]
      c == w.slabs[p].cache
      n == w.slabs[p].count
      part == IF n = w.kc[c].per THEN Append(w.kc[c].partial, p) ELSE w.kc[c].partial
  IN [w EXCEPT !.slabs[p].objs = Append(@, obj[2]), !.slabs[p].count = @ - 1,
               !.live = @ \ {obj},
               !.kc[c].full = IF n = w.kc[c].per THEN Unlink(@, p) ELSE @,
               !.kc[c].partial = IF n = 1 THEN Unlink(part, p) ELSE part,
               !.kc[c].free = IF n = 1 THEN Append(@, p) ELSE @]

\* Mutant: a slab with objects in use is freed.
ReapSlabPartial(w, c) ==
  LET p == IF w.kc[c].partial # << >> THEN Head(w.kc[c].partial) ELSE Head(w.kc[c].free) IN
    [Enqueue(w, p) EXCEPT
       !.held = {b \in @ : b[1] # p},
       !.slabs = Drop(@, p),
       !.pslab = [q \in Page |-> IF q \in PagesOf(w, c, p) THEN NoSlab ELSE @[q]],
       !.kc[c].partial = Unlink(@, p),
       !.kc[c].free = Unlink(@, p),
       !.kc[c].count = @ - 1]

\* One round of the loop of kmem_cache_reap
ReapSlab(w, c) ==
  LET p == Head(w.kc[c].free) IN
    [Enqueue(w, p) EXCEPT
       !.held = {b \in @ : b[1] # p},
       !.slabs = Drop(@, p),
       !.pslab = [q \in Page |-> IF q \in PagesOf(w, c, p) THEN NoSlab ELSE @[q]],
       !.kc[c].free = Tail(@),
       !.kc[c].count = @ - 1]

RECURSIVE Reap(_, _, _)
\* kmem_cache_reap: free slabs go back, down to the limit or all of them.
Reap(w, c, force) ==
  IF w.kc[c].free = << >> \/ (~force /\ w.kc[c].count < w.kc[c].limit) THEN w
  ELSE Reap(ReapSlab(w, c), c, force)

RECURSIVE InitCaches(_, _)
\* kmalloc_cache_init: caches with small objects get their first slab.
InitCaches(w, i) ==
  IF i > Len(KmallocSizes) THEN w
  ELSE LET n == [w EXCEPT !.kc = Put(@, i, NewCache(KmallocSizes[i], Word, TRUE, DefaultLimit, NoSlab))]
       IN InitCaches(IF IsOffSlab(KmallocSizes[i]) THEN n ELSE GrowNolock(n, i), i + 1)

SlabInit ==
  LET b == EnqueueAll(
        [pages |-> [i \in Page |-> [state |-> IF i \in Reserved \cup EarlyPages THEN {"reserved"} ELSE {"used"},
                                    order |-> 0, mapcnt |-> 0]],
         lists |-> [o \in Order |-> << >>], freenr |-> [o \in Order |-> 0],
         held |-> {}, kc |-> << >>, slabs |-> << >>, pslab |-> [p \in Page |-> NoSlab],
         live |-> {}, stop |-> FALSE], 0)
      w == InitCaches(b, 1)
  IN /\ pages = w.pages /\ lists = w.lists /\ freenr = w.freenr /\ held = w.held
     /\ kc = w.kc /\ slabs = w.slabs /\ pslab = w.pslab /\ live = w.live
     /\ stopped = FALSE /\ unmapped = {}

\* free_kmem_cache: slabs that are left refer to nothing.
FreeKmemCache(w, c) ==
  FreeObj([w EXCEPT !.kc = Drop(@, c),
                    !.slabs = [p \in DOMAIN @ |-> IF @[p].cache = c THEN [@[p] EXCEPT !.cache = NoSlab] ELSE @[p]]],
          w.kc[c].struct)

\* find_kmalloc_ent, for a size that some cache serves
FindKmallocEnt(size) ==
  CHOOSE i \in 1 .. Len(KmallocSizes) :
    size <= KmallocSizes[i] /\ \A k \in 1 .. i - 1 : size > KmallocSizes[k]
-----------------------------------------------------------------------------
\* kmalloc
Kmalloc(size) == ~stopped /\ SetMem(Alloc(Mem, FindKmallocEnt(size)))

\* kfree of an object that no cache lives in
Kfree(obj) ==
  /\ ~stopped /\ obj \in live /\ slabs[obj[1]].cache \in DOMAIN kc \ UserCache
  /\ \A c \in DOMAIN kc : kc[c].struct # obj
  /\ SetMem(FreeObj(Mem, obj))

\* kmem_cache_create, with the arguments of kmem_cache_init in the order in
\* which they are given: align becomes the flags, limits the alignment.  The
\* name may be taken; the structure is then freed unless it is predefined.
KmemCacheCreate(c, align, limits) ==
  LET w == Alloc(Mem, FindKmallocEnt(CacheStruct))
      obj == CHOOSE o \in w.live \ live : TRUE
      predef == (align \div 2) % 2 = 1
  IN /\ ~stopped /\ c \notin DOMAIN kc
     /\ w.live # live
     /\ IF InDb(Mem) \cap UserCache = {}
        THEN SetMem([w EXCEPT !.kc = Put(@, c, NewCache(UserSize, IF limits = 0 THEN Word ELSE limits,
                                                        predef, DefaultLimit, obj))])
        ELSE SetMem(IF predef THEN w ELSE FreeObj(w, obj))

\* get_kmem_cache finds a cache by its name.
GetKmemCache(c) ==
  /\ ~stopped /\ c \in InDb(Mem) \cap UserCache /\ kc[c].usage < MaxRefs
  /\ SetMem([Mem EXCEPT !.kc[c].usage = @ + 1])

\* put_kmem_cache frees the structure with the last reference if destruction
\* was delayed.  The slabs stay.
PutKmemCache(c) ==
  /\ ~stopped /\ c \in DOMAIN kc /\ kc[c].usage > 0
  /\ LET w == [Mem EXCEPT !.kc[c].usage = @ - 1] IN
       SetMem(IF ~kc[c].predef /\ kc[c].usage = 1 /\ kc[c].delay
              THEN FreeKmemCache(w, c)
              ELSE w)

\* kmem_cache_alloc by someone who has a reference
KmemCacheAlloc(c) ==
  /\ ~stopped /\ c \in DOMAIN kc /\ kc[c].usage > 0
  /\ SetMem(Alloc(Mem, c))

\* kmem_cache_free by someone who has a reference
KmemCacheFree(obj) ==
  /\ ~stopped /\ obj \in live /\ slabs[obj[1]].cache \in UserCache \cap DOMAIN kc
  /\ kc[slabs[obj[1]].cache].usage > 0
  /\ SetMem(FreeObj(Mem, obj))

\* kmem_cache_reap
KmemCacheReap(c, force) ==
  /\ ~stopped /\ c \in DOMAIN kc /\ kc[c].free # << >>
  /\ SetMem(Reap(Mem, c, force))

\* The first conditions of kmem_cache_destroy
Destroyable(c) == ~kc[c].predef /\ kc[c].partial = << >> /\ kc[c].full = << >>

\* kmem_cache_destroy, called once; it stops if there is no slab to free.
KmemCacheDestroy(c) ==
  /\ ~stopped /\ c \in InDb(Mem) \cap UserCache
  /\ Destroyable(c)
  /\ LET w == [Mem EXCEPT !.kc[c].indb = FALSE] IN
       SetMem(IF kc[c].usage > 0 THEN [w EXCEPT !.kc[c].delay = TRUE]
              ELSE IF kc[c].free = << >> THEN [w EXCEPT !.stop = TRUE]
              ELSE FreeKmemCache(Reap(w, c, TRUE), c))

SlabNext ==
  \/ \E i \in 1 .. Len(KmallocSizes) : Kmalloc(KmallocSizes[i])
  \/ \E obj \in live : Kfree(obj) \/ KmemCacheFree(obj)
  \/ \E c \in UserCache :
       \/ \E a \in CreateArgs : KmemCacheCreate(c, a[1], a[2])
       \/ GetKmemCache(c) \/ PutKmemCache(c) \/ KmemCacheAlloc(c) \/ KmemCacheDestroy(c)
  \/ \E c \in Cache, force \in BOOLEAN : KmemCacheReap(c, force)

SlabSpec == SlabInit /\ [][SlabNext]_<<slabVars, unmapped>>
-----------------------------------------------------------------------------
\* The queue a slab is in says how many of its objects are in use, and the
\* objects in use are those that are not in the queue of their slab
\* (kmem_cache_alloc, kmem_cache_free).
QueueOfSlabMatches ==
  \A c \in DOMAIN kc : \A p \in DOMAIN slabs : slabs[p].cache = c =>
    LET n == slabs[p].count IN
      /\ n = Cardinality({o \in live : o[1] = p})
      /\ Len(slabs[p].objs) = kc[c].per - n
      /\ (p \in Range(kc[c].free)) = (n = 0)
      /\ (p \in Range(kc[c].full)) = (n = kc[c].per)
      /\ (p \in Range(kc[c].partial)) = (n \in 1 .. kc[c].per - 1)

\* Pages under a live object are not given back: they belong to a slab and
\* the buddy allocator counts them as allocated (kmem_cache_reap).
LiveObjectsKeepPages ==
  \A o \in live :
    /\ o[1] \in DOMAIN slabs /\ pslab[o[1]] = o[1]
    /\ \E b \in held : b[1] = o[1]

\* An object is handed out to one caller at a time and never while its index
\* is in the queue of free objects (kmem_cache_alloc).
ObjectsUnique ==
  \A p \in DOMAIN slabs : IsInjective(slabs[p].objs)
    /\ \A i \in Range(slabs[p].objs) : <<p, i>> \notin live

\* The objects of the slab that a cache grows by next lie behind one another
\* and inside the pages of the slab, at every colour that the cache comes to
\* (setup_color_param, update_color_offset, refer_object_head).
ObjectsInsideSlab ==
  \A c \in DOMAIN kc : LET k == kc[c] IN ObjectsFit(k.obj, k.align, k.color, k.per, k.size)

\* slab_count, which the limit of kmem_cache_reap is compared with, is the
\* number of the slabs of a cache.
SlabCountExact ==
  \A c \in DOMAIN kc : kc[c].count = Cardinality({p \in DOMAIN slabs : slabs[p].cache = c})

\* The queues, counters and free lists of a cache describe its slabs, objects
\* are handed out once, and memory under live objects is kept, whatever is
\* allocated, freed, reaped or destroyed (kmem_cache_alloc, kmem_cache_free,
\* kmem_cache_reap).
SlabsConsistent ==
  SlabTypeOK /\ QueueOfSlabMatches /\ SlabCountExact /\ ObjectsUnique /\ LiveObjectsKeepPages
=============================================================================
