------------------------------- MODULE Buddy -------------------------------
(***************************************************************************)
(* The page frames of one memory region: the buddy allocator               *)
(* (page/page-buddy.c), allocation, release and map counts (page/page.c),  *)
(* and the reservations made at boot (hal/x86-64/mm/page-pool.c).          *)
(*                                                                         *)
(* All of it runs with the lock of the buddy held and interrupts disabled, *)
(* so that a call is one step.  Pages are numbered from the start of the   *)
(* array; a block is its first page and its order.                         *)
(***************************************************************************)
EXTENDS Integers, Sequences, FiniteSets, Functions

CONSTANTS
  NrPages,    \* pages in the array
  MinPfn,     \* number of the first page
  MaxOrder,   \* PAGE_POOL_MAX_ORDER
  Reserved,   \* pages reserved for good: devices, the kernel, the array itself
  BootPages,  \* pages reserved until the end of the boot
  CntMod      \* 2 to the width of obj_cnt_type

Page == 0 .. NrPages - 1
Order == 0 .. MaxOrder - 1

\* x86_64_alloc_page_info puts the array at the end of its region.
ASSUME BuddyAssumption ==
  /\ NrPages \in Nat \ {0} /\ MinPfn \in Nat /\ MaxOrder \in Nat \ {0}
  /\ Reserved \subseteq Page /\ BootPages \subseteq Page \ Reserved
  /\ NrPages - 1 \in Reserved

VARIABLES
  pages,     \* [state, order, mapcnt] of each page
  lists,     \* page_list of each order
  freenr,    \* free_nr of each order
  held,      \* history: blocks that were allocated and not yet freed
  unmapped   \* history: pages whose last mapping is gone and that nobody freed

buddyVars == <<pages, lists, freenr, held, unmapped>>

Block(i, o) == i .. i + 2^o - 1

BuddyTypeOK ==
  /\ pages \in [Page -> [state : SUBSET {"used", "reserved"}, order : Order, mapcnt : 0 .. 2]]
  /\ lists \in [Order -> Seq(Page)]
  /\ freenr \in [Order -> 0 .. CntMod - 1]
  /\ held \subseteq Page \X Order
  /\ unmapped \subseteq Page

\* page_buddy_init is given the number of the last page as the number of pages.
BuddyNrPages == MinPfn + NrPages

\* The page opposite to block i of order o
BuddyOf(i, o) == IF (i \div 2^o) % 2 = 0 THEN i + 2^o ELSE i - 2^o

\* Mutant: two buddies are joined even if one has been split.
CannotJoinByState(s, b, o) ==
  o >= MaxOrder - 1 \/ b >= BuddyNrPages \/ s.pages[b].state # {}

\* The four reasons why a block is not joined with its buddy
CannotJoin(s, b, o) ==
  \/ o >= MaxOrder - 1
  \/ b >= BuddyNrPages
  \/ s.pages[b].order # o
  \/ s.pages[b].state # {}

RECURSIVE Coalesce(_, _, _)
\* The loop of page_buddy_enqueue: join block i with its buddy as long as
\* that is free, then put it into the list of its order.
Coalesce(s, i, o) ==
  LET b == BuddyOf(i, o)
      t == [s EXCEPT !.pages[i].order = o]
  IN IF CannotJoin(t, b, o)
     THEN [t EXCEPT !.lists[o] = Append(@, i), !.freenr[o] = (@ + 1) % CntMod]
     ELSE Coalesce([t EXCEPT !.lists[o] = SelectSeq(@, LAMBDA p : p # b),
                             !.freenr[o] = (@ - 1) % CntMod],
                   IF b < i THEN b ELSE i, o + 1)

\* page_buddy_enqueue
Enqueue(s, i) ==
  Coalesce([s EXCEPT !.pages[i].state = @ \ {"used"}], i, s.pages[i].order)

RECURSIVE EnqueueAll(_, _)
\* The last loop of kcom_add_page_info
EnqueueAll(s, i) ==
  IF i = NrPages THEN s
  ELSE EnqueueAll(IF "reserved" \in s.pages[i].state THEN s ELSE Enqueue(s, i), i + 1)

\* kcom_add_page_info
BuddyInit ==
  LET s == EnqueueAll(
        [pages |-> [i \in Page |-> [state |-> IF i \in Reserved \cup BootPages THEN {"reserved"} ELSE {"used"},
                                    order |-> 0, mapcnt |-> 0]],
         lists |-> [o \in Order |-> << >>],
         freenr |-> [o \in Order |-> 0]], 0)
  IN /\ pages = s.pages /\ lists = s.lists /\ freenr = s.freenr
     /\ held = {} /\ unmapped = {}

Set(s) == pages' = s.pages /\ lists' = s.lists /\ freenr' = s.freenr

State == [pages |-> pages, lists |-> lists, freenr |-> freenr]

FreePages(ls) == {p \in Page : \E o \in Order : \E i \in Range(ls[o]) : p \in Block(i, o)}
-----------------------------------------------------------------------------
\* page_release_reservation, at the end of the boot
ReleaseReservation(i) ==
  /\ i \in BootPages /\ "reserved" \in pages[i].state
  /\ Set(Enqueue([State EXCEPT !.pages[i].state = @ \ {"reserved"}], i))
  /\ unmapped' = unmapped \ FreePages(lists')
  /\ UNCHANGED held

RECURSIVE Split(_, _, _, _)
\* remove_page_from_page_queue: the first half goes into the list of the
\* next lower order, the second one is split further.
Split(s, i, o, req) ==
  IF o = req THEN <<[s EXCEPT !.pages[i].order = o], i>>
  ELSE Split([s EXCEPT !.pages[i].order = o - 1,
                       !.lists[o - 1] = Append(@, i),
                       !.freenr[o - 1] = (@ + 1) % CntMod],
             i + 2^(o - 1), o - 1, req)

\* The page that page_buddy_dequeue returns is in use.
Taken(s, i) == [s EXCEPT !.pages[i].state = @ \cup {"used"}]

\* The lowest order that has a free block of at least order req
Serves(s, req) ==
  {o \in req .. MaxOrder - 1 : s.lists[o] # << >> /\ \A k \in req .. o - 1 : s.lists[k] = << >>}

\* page_buddy_dequeue if there is such a block: the new state and the page
Dequeue(s, req) ==
  LET o == CHOOSE k \in Serves(s, req) : TRUE
      r == Split([s EXCEPT !.lists[o] = Tail(@), !.freenr[o] = (@ - 1) % CntMod],
                 Head(s.lists[o]), o, req)
  IN <<Taken(r[1], r[2]), r[2]>>

\* alloc_buddy_pages; it changes nothing if there is no memory.
AllocBuddyPages(req) ==
  /\ Serves(State, req) # {}
  /\ LET r == Dequeue(State, req) IN
       /\ Set(r[1])
       /\ held' = held \cup {<<r[2], req>>}
  /\ UNCHANGED unmapped

\* free_page and free_buddy_pages: the order is that of the page.
FreePage(b) ==
  /\ b \in held /\ pages[b[1]].mapcnt = 0
  /\ held' = held \ {b}
  /\ Set(Enqueue(State, b[1]))
  /\ unmapped' = unmapped \ FreePages(lists')

\* inc_page_map_count, for a page that was allocated to be mapped
IncPageMapCount(i) ==
  /\ <<i, 0>> \in held /\ pages[i].mapcnt < 2
  /\ pages' = [pages EXCEPT ![i].mapcnt = @ + 1]
  /\ UNCHANGED <<lists, freenr, held, unmapped>>

\* dec_page_map_count: the last mapping gives the page up; it is marked free,
\* but it is not put into a list.
DecPageMapCount(i) ==
  /\ pages[i].mapcnt > 0
  /\ LET last == pages[i].mapcnt = 1 IN
       /\ pages' = [pages EXCEPT ![i].mapcnt = @ - 1,
                                 ![i].state = IF last THEN @ \ {"used"} ELSE @]
       /\ held' = IF last THEN held \ {<<i, 0>>} ELSE held
       /\ unmapped' = IF last THEN unmapped \cup {i} ELSE unmapped
  /\ UNCHANGED <<lists, freenr>>

BuddyNext ==
  \/ \E o \in Order : AllocBuddyPages(o)
  \/ \E b \in held : FreePage(b)
  \/ \E i \in Page : ReleaseReservation(i) \/ IncPageMapCount(i) \/ DecPageMapCount(i)

BuddySpec == BuddyInit /\ [][BuddyNext]_buddyVars
-----------------------------------------------------------------------------
\* No page belongs to two blocks, free or allocated, and no block contains a
\* reserved page: nobody is given memory that is in use (page_buddy_dequeue).
BlocksDisjoint ==
  LET free == {<<i, o>> \in Page \X Order : i \in Range(lists[o])} IN
    /\ free \cap held = {}
    /\ \A o \in Order : IsInjective(lists[o])
    /\ \A b \in free \cup held :
         /\ \A p \in Block(b[1], b[2]) : p \in Page /\ "reserved" \notin pages[p].state
         /\ \A c \in free \cup held : b = c \/ Block(b[1], b[2]) \cap Block(c[1], c[2]) = {}

\* Free buddies are joined: never are both halves of a block in the lists.
FullyCoalesced ==
  \A o \in 0 .. MaxOrder - 2 : \A i \in Range(lists[o]) : BuddyOf(i, o) \notin Range(lists[o])

\* No page is lost: what is not reserved is free, allocated, or was given up
\* by its last mapping.
PagesAccounted ==
  \A p \in Page :
    \/ "reserved" \in pages[p].state
    \/ p \in FreePages(lists)
    \/ p \in unmapped
    \/ \E b \in held : p \in Block(b[1], b[2])

\* Every page is in exactly one place, a free block, an allocated block or a
\* reservation, and free memory is in blocks that are as large as possible,
\* after any sequence of allocations, releases and map counts (page_buddy_enqueue,
\* page_buddy_dequeue).
BuddyConsistent == BuddyTypeOK /\ BlocksDisjoint /\ PagesAccounted /\ FullyCoalesced
=============================================================================
