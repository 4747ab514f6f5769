------------------------------ MODULE IdBitmap ------------------------------
(***************************************************************************)
(* The identifier bitmap (kern/id-bitmap.c) that hands out thread ids, and *)
(* its reference count (kern/refcount.c).                                  *)
(*                                                                         *)
(* Every function takes the lock of the bitmap for its parts, never for    *)
(* the whole, and is called by kernel threads that can be preempted.  So   *)
(* one step is one section under the lock, or one look at the bitmap       *)
(* without it, and the steps of several callers interleave.                *)
(***************************************************************************)
EXTENDS Naturals, FiniteSets, FiniteSetsExt

CONSTANTS
  Caller,       \* threads that use the bitmap
  IdsPerEnt,    \* ID_BITMAP_IDS_PER_ENT, ids in a word of the bitmap
  MapSize,      \* ID_BITMAP_DEFAULT_MAP_SIZE, ids added when it grows
  ReservedIds,  \* idmap->reserved_ids
  Uses,         \* the uses of a bitmap: who calls, which functions, its size
                \* before that and, as a bound, how large memory lets it grow
  Specified,    \* ids asked for with idbmap_get_specified_id
  SameWords     \* whether idbmap_resize is also called with a size that takes
                \* as many words as the bitmap has

Op == {"get", "specified", "put", "resize", "free", "destroy"}

ASSUME IdBitmapAssumption ==
  /\ IsFiniteSet(Caller)
  /\ \A u \in Uses : /\ u.callers \subseteq Caller /\ u.ops \subseteq Op
                    /\ u.start \in Nat /\ u.max \in Nat /\ u.start <= u.max
  /\ IdsPerEnt \in Nat \ {0}
  /\ MapSize \in Nat \ {0}
  /\ ReservedIds \in Nat \ {0}
  /\ Specified \subseteq Nat
  /\ SameWords \in BOOLEAN

VARIABLES
  use,      \* which of Uses this bitmap is put to, once for all
  nr,       \* idmap->nr_ids
  words,    \* idmap->max_array_idx; 0 when idmap->map is NULL
  bits,     \* the ids whose bit in idmap->map is set
  refs,     \* ref_count.counter
  deleted,  \* ref_count.deleted
  freed,    \* the id_bitmap itself has been freed
  ipc,       \* where a caller is
  op,       \* the function it called
  system,   \* whether it asked for a system id
  id,       \* the id it asked for, or 0
  size,     \* new_ids of the resize_bitmap it called, or its max_id
  owned,    \* ids handed out to it that it has not returned
  idHalted    \* a kassert has stopped the kernel

idVars == <<nr, words, bits, refs, deleted, freed, ipc, op, system, id, size,
          owned, idHalted>>
callVars == <<op, system, id, size>>
mapVars == <<nr, words, bits>>
refVars == <<refs, deleted, freed>>

\* "find", "scan" are the two parts of find_free_id, "take" the end of
\* idbmap_get_specified_id, "grow" the call of resize_bitmap from either,
\* "resize" resize_bitmap, "free" free_map_in_idmap, "drop" put_idbmap_ref.
Pc == {"idle", "find", "scan", "take", "grow", "resize", "free", "drop"}

IdTypeOK ==
  /\ nr \in 0..use.max
  /\ words \in Nat
  /\ bits \subseteq 0..(words * IdsPerEnt - 1)
  /\ refs \in Nat
  /\ deleted \in BOOLEAN
  /\ freed \in BOOLEAN
  /\ ipc \in [Caller -> Pc]
  /\ op \in [Caller -> Op]
  /\ system \in [Caller -> BOOLEAN]
  /\ id \in [Caller -> Specified \cup {0}]
  /\ size \in [Caller -> Nat]
  /\ owned \in [Caller -> SUBSET Nat]
  /\ idHalted \in BOOLEAN

\* Number of words that hold n ids.
WordsFor(n) == (n + (IdsPerEnt - 1)) \div IdsPerEnt

\* init_idbmap_common and, when use.start is not 0, the growth at boot time.
IdInit ==
  /\ use \in Uses /\ nr = use.start
  /\ words = WordsFor(use.start)
  /\ bits = IF use.start = 0 THEN {} ELSE {0}
  /\ refs = 1
  /\ deleted = FALSE
  /\ freed = FALSE
  /\ ipc = [c \in Caller |-> "idle"]
  /\ op = [c \in Caller |-> "get"]
  /\ system = [c \in Caller |-> FALSE]
  /\ id = [c \in Caller |-> 0]
  /\ size = [c \in Caller |-> 0]
  /\ owned = [c \in Caller |-> {}]
  /\ idHalted = FALSE

Go(c, l) == ipc' = [ipc EXCEPT ![c] = l]
\* A call returns and its local variables are gone.
Return(c) ==
  /\ Go(c, "idle")
  /\ op' = [op EXCEPT ![c] = "get"]
  /\ system' = [system EXCEPT ![c] = FALSE]
  /\ id' = [id EXCEPT ![c] = 0]
  /\ size' = [size EXCEPT ![c] = 0]
At(c, l) == ipc[c] = l /\ ~idHalted
-----------------------------------------------------------------------------
(* Entering a function: get_idbmap_ref, which fails once deleted is set *)

Enter(c, f, l) ==
  /\ c \in use.callers /\ f \in use.ops /\ At(c, "idle")
  /\ ~deleted
  /\ refs' = refs + 1
  /\ op' = [op EXCEPT ![c] = f]
  /\ Go(c, l)

\* idbmap_get_id.
GetId(c, sys) ==
  /\ Enter(c, "get", "find")
  /\ system' = [system EXCEPT ![c] = sys]
  /\ UNCHANGED <<mapVars, deleted, freed, id, size, owned, idHalted>>

\* idbmap_get_specified_id, which looks at max_array_idx without the lock.
GetSpecifiedId(c, i, sys) ==
  /\ sys => i < ReservedIds
  /\ Enter(c, "specified", IF i \div IdsPerEnt >= words THEN "grow" ELSE "take")
  /\ system' = [system EXCEPT ![c] = sys]
  /\ id' = [id EXCEPT ![c] = i]
  /\ UNCHANGED <<mapVars, deleted, freed, size, owned, idHalted>>

\* idbmap_resize.
Resize(c, n) ==
  /\ SameWords \/ WordsFor(n) # words
  /\ Enter(c, "resize", "resize")
  /\ size' = [size EXCEPT ![c] = n]
  /\ UNCHANGED <<mapVars, deleted, freed, system, id, owned, idHalted>>

\* idbmap_free.
Free(c) ==
  /\ Enter(c, "free", "free")
  /\ UNCHANGED <<mapVars, deleted, freed, system, id, size, owned, idHalted>>
-----------------------------------------------------------------------------
(* The sections *)

\* find_free_id before it takes the lock: the range to search.
FindRange(c) ==
  LET max == IF system[c] THEN ReservedIds ELSE nr IN
  /\ At(c, "find")
  /\ IF max > nr
     THEN Go(c, "grow") /\ UNCHANGED size
     ELSE Go(c, "scan") /\ size' = [size EXCEPT ![c] = max]
  /\ UNCHANGED <<mapVars, refVars, op, system, id, owned, idHalted>>

\* The values that the bit of i can be read as: beyond the end of the map,
\* whatever the memory holds.
InMap(i) == i < words * IdsPerEnt
Reads(i) == IF InMap(i) THEN {i \in bits} ELSE BOOLEAN

\* The ids that find_free_id can stop at, 0 when it finds none: the first
\* free one of the map, or failing that any one beyond the end of the map.
FirstId(c) == IF system[c] THEN 1 ELSE ReservedIds
Found(c) ==
  LET range == FirstId(c)..(size[c] - 1)
      inside == {i \in range : InMap(i) /\ i \notin bits}
  IN IF inside # {} THEN {Min(inside)}
     ELSE {0} \cup {i \in range : ~InMap(i)}

\* The bit is set and the reference is kept for the id.
Take(c, i) ==
  /\ bits' = IF InMap(i) THEN bits \cup {i} ELSE bits
  /\ owned' = [owned EXCEPT ![c] = @ \cup {i}]
  /\ Return(c)

\* find_free_id under the lock.
Scan(c) ==
  /\ At(c, "scan")
  /\ \E i \in Found(c) :
       IF i = 0 THEN Go(c, "grow") /\ UNCHANGED <<bits, owned, callVars>>
       ELSE Take(c, i)
  /\ UNCHANGED <<nr, words, refVars, idHalted>>

\* The end of idbmap_get_specified_id.
TakeSpecified(c) ==
  /\ At(c, "take")
  /\ \E busy \in Reads(id[c]) :
       IF busy THEN Go(c, "drop") /\ UNCHANGED <<bits, owned, callVars>>
       ELSE Take(c, id[c])
  /\ UNCHANGED <<nr, words, refVars, idHalted>>

\* The argument nr_ids + ID_BITMAP_DEFAULT_MAP_SIZE is computed outside of
\* the lock that resize_bitmap takes.
Grow(c) ==
  /\ At(c, "grow")
  /\ size' = [size EXCEPT ![c] = nr + MapSize]
  /\ Go(c, "resize")
  /\ UNCHANGED <<mapVars, refVars, op, system, id, owned, idHalted>>

\* What resize_bitmap copies to a map of w words: the old map when it is
\* shorter, the part that fits when it is longer, and nothing in between.
Copied(w) == IF w = words THEN {} ELSE {i \in bits : i < w * IdsPerEnt}

\* resize_bitmap, then the next step of its caller.
ResizeBitmap(c) ==
  LET n == size[c]
      w == WordsFor(n)
  IN
  /\ At(c, "resize")
  /\ IF n > ReservedIds /\ n <= use.max /\ (\A i \in bits : i < w * IdsPerEnt)
     THEN /\ nr' = n
          /\ words' = w
          /\ bits' = Copied(w) \cup {0}
          /\ Go(c, IF op[c] = "get" THEN "find"
                   ELSE IF op[c] = "specified" THEN "take" ELSE "drop")
     ELSE /\ UNCHANGED mapVars
          /\ Go(c, "drop")
  /\ UNCHANGED <<refVars, callVars, owned, idHalted>>

\* free_map_in_idmap called from idbmap_free.
FreeMap(c) ==
  /\ At(c, "free")
  /\ IF bits \subseteq {0}
     THEN nr' = 0 /\ words' = 0 /\ bits' = {}
     ELSE UNCHANGED mapVars
  /\ Go(c, "drop")
  /\ UNCHANGED <<refVars, callVars, owned, idHalted>>

\* idbmap_put_id up to put_idbmap_ref.
PutId(c, i) ==
  /\ c \in use.callers /\ "put" \in use.ops /\ At(c, "idle")
  /\ i \in owned[c]
  /\ \E set \in Reads(i) : idHalted' = ~set
  /\ bits' = bits \ {i}
  /\ owned' = [owned EXCEPT ![c] = @ \ {i}]
  /\ op' = [op EXCEPT ![c] = "put"]
  /\ Go(c, "drop")
  /\ UNCHANGED <<nr, words, refVars, system, id, size>>

\* idbmap_destroy up to put_idbmap_ref.
Destroy(c) ==
  /\ c \in use.callers /\ "destroy" \in use.ops /\ At(c, "idle")
  /\ ~deleted
  /\ deleted' = TRUE
  /\ op' = [op EXCEPT ![c] = "destroy"]
  /\ Go(c, "drop")
  /\ UNCHANGED <<mapVars, refs, freed, system, id, size, owned, idHalted>>

\* Mutant: the count is compared after it was decremented.
LastAfterDecrement == refs - 1 = 1 /\ deleted

\* refcnt_put returns 0.
LastReference == refs = 1 /\ deleted

\* put_idbmap_ref, with free_map_in_idmap for the last reference.
DropRef(c) ==
  /\ At(c, "drop")
  /\ refs' = refs - 1
  /\ idHalted' = (LastReference /\ ~(bits \subseteq {0}))
  /\ IF LastReference /\ bits \subseteq {0}
     THEN nr' = 0 /\ words' = 0 /\ bits' = {} /\ freed' = TRUE
     ELSE UNCHANGED <<mapVars, freed>>
  /\ Return(c)
  /\ UNCHANGED <<deleted, owned>>

IdNext ==
  \E c \in Caller :
    \/ \E sys \in BOOLEAN : GetId(c, sys)
    \/ \E sys \in BOOLEAN, i \in Specified : GetSpecifiedId(c, i, sys)
    \/ \E n \in 0..use.max : Resize(c, n)
    \/ Free(c) \/ Destroy(c)
    \/ \E i \in owned[c] : PutId(c, i)
    \/ FindRange(c) \/ Scan(c) \/ TakeSpecified(c) \/ Grow(c)
    \/ ResizeBitmap(c) \/ FreeMap(c) \/ DropRef(c)

IdSpec == IdInit /\ [][IdNext /\ UNCHANGED use]_<<idVars, use>>

\* What the functions need from the uses of a bitmap.  One caller may use all
\* of them, several only a bitmap that keeps its size: resize_bitmap replaces
\* the map between two sections of another caller.  A resize to as many words
\* as before would lose the map, and growth for a specified id adds one
\* MapSize, however large the id is.
Alone(u) == \E c \in Caller : u.callers \subseteq {c}
Fixed(u) == u.start = u.max /\ u.ops \cap {"resize", "free"} = {}
UsedSafely ==
  /\ ~SameWords /\ IdsPerEnt <= MapSize
  /\ \A i \in Specified : i < MapSize
  /\ \A u \in Uses : Alone(u) \/ Fixed(u)
-----------------------------------------------------------------------------
(* Properties *)

\* An id is in use by one caller at a time and is never the invalid id 0; as
\* long as it is in use its bit is set, so that no one else gets it and the
\* kassert of idbmap_put_id holds.
IdsUnique ==
  /\ \A c \in Caller : owned[c] \subseteq bits \ {0}
  /\ \A c, d \in Caller : c # d => owned[c] \cap owned[d] = {}

\* The ids in use with their owners, and the callers inside a function
Handed == UNION {{c} \X owned[c] : c \in Caller}
Busy == {c \in Caller : ipc[c] # "idle"}

\* The reference count is the initial reference, one for each id in use and
\* one for each call under way: idbmap_get_id keeps the reference it takes
\* exactly when it returns an id, on every error path gives it back, and
\* idbmap_put_id gives back the one of the id.  When the bitmap is freed,
\* none is left.
RefsCounted ==
  refs = (IF deleted THEN 0 ELSE 1) + Cardinality(Handed) + Cardinality(Busy)

\* A bitmap that idbmap_destroy has been called for is freed with the last
\* reference, neither earlier nor later.
FreedWithLast == freed <=> (refs = 0)

\* An id in use has one owner and its bit is set, every id and every call that
\* is under way has its reference, and the bitmap is freed with the last one
\* (find_free_id, put_idbmap_ref, idbmap_destroy).
IdsAccounted == IdTypeOK /\ IdsUnique /\ RefsCounted /\ FreedWithLast
=============================================================================
