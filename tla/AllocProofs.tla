----------------------------- MODULE AllocProofs -----------------------------
(***************************************************************************)
(* Proofs about the allocators: the identifier bitmap (IdBitmap) for any   *)
(* number of callers, ids and words, the geometry of slabs (SlabParam) for *)
(* objects of any size and alignment, and the creation and growth of       *)
(* memory areas (Areas) at any address.                                    *)
(***************************************************************************)
EXTENDS IdBitmap, SlabParam, Areas, FiniteSetTheorems, WellFoundedInduction, TLAPS

-----------------------------------------------------------------------------
(* Least elements *)

\* Every non-empty set of numbers has a least element.
LEMMA Least == ASSUME NEW B \in SUBSET Nat, B # {} PROVE \E m \in B : \A k \in B : m <= k
<1> DEFINE T == {0 .. k : k \in B}
           R == StrictSubsetOrdering(Nat)
           F == FiniteSubsetsOf(Nat)
<1>1. T # {}
  BY Zenon
<1>2. T \subseteq F
  <2> SUFFICES ASSUME NEW k \in B PROVE 0 .. k \in F
    OBVIOUS
  <2>1. k \in Int /\ 0 \in Int /\ 0 .. k \in SUBSET Nat
    OBVIOUS
  <2>2. IsFiniteSet(0 .. k)
    BY <2>1, FS_Interval
  <2> QED BY <2>1, <2>2 DEF FiniteSubsetsOf
<1>3. IsWellFoundedOn(R, F)
  BY FS_StrictSubsetOrderingWellFounded
<1>4. PICK x \in T : \A y \in T : ~ (<<y, x>> \in R)
  <2> HIDE DEF R, F, T
  <2> QED BY <1>1, <1>2, <1>3, WFMin
<1>5. PICK m \in B : x = 0 .. m
  OBVIOUS
<1>6. ASSUME NEW k \in B, k < m PROVE FALSE
  <2>1. 0 .. k \in T
    OBVIOUS
  <2>2. 0 .. k \subseteq 0 .. m /\ 0 .. k # 0 .. m /\ 0..k \in SUBSET Nat /\ 0..m \in SUBSET Nat
    BY <1>6
  <2>3. <<0 .. k, x>> \in R
    BY <2>2, <1>5 DEF StrictSubsetOrdering
  <2> QED BY <2>1, <2>3, <1>4, Zenon
<1> QED BY <1>6

-----------------------------------------------------------------------------
(* Memory areas *)

\* Areas, of any position and length
Bounds == {v \in [start : Nat, end : Nat, prot : SUBSET {"R", "W", "X"}] : v.start <= v.end}

\* Rounding down and up to pages
LEMMA PageRounding ==
  ASSUME NEW a \in Nat
  PROVE  /\ PageStart(a) \in Nat /\ PageStart(a) <= a
         /\ RoundUp(a) \in Nat /\ a <= RoundUp(a)
<1> DEFINE q == a \div PageSize  r == a % PageSize
<1>1. q \in Nat /\ r \in Nat /\ r < PageSize /\ a = PageSize * q + r
  BY AreasAssumption
<1>2. q * PageSize = PageSize * q /\ q * PageSize \in Nat
  BY <1>1, AreasAssumption
<1> HIDE DEF q, r
<1>3. PageStart(a) = q * PageSize
  BY Zenon DEF PageStart, q
<1>4. PageNext(a) = q * PageSize + PageSize
  BY <1>3, Zenon DEF PageNext
<1>5. RoundUp(a) = a \/ RoundUp(a) = PageNext(a)
  BY Zenon DEF RoundUp
<1> QED BY <1>1, <1>2, <1>3, <1>4, <1>5, AreasAssumption

\* Arithmetic of the four comparisons of check_vma_overlap_nolock: the first
\* and the third are enough.
LEMMA Apart ==
  ASSUME NEW s \in Nat, NEW from \in Nat, NEW end \in Nat, NEW e \in Nat,
         NEW b \in Nat, NEW c \in Nat, s <= from, end <= e,
         ~ (b <= s /\ s < c), ~ (s <= b /\ b < e)
  PROVE  c <= from \/ end <= b
OBVIOUS

\* A record of PageTable whose page tables, frames, counts and results are of any type
Spaces(P, T, F, C, R) ==
  [as : [Proc -> [area : [Kind -> Bounds \cup {None}], tree : SUBSET Kind, pt : P, tbl : T]],
   free : F, cnt : C, stop : R]

\* The areas in the tree are areas.
TreesNamed(w) == \A x \in Proc : \A j \in w.as[x].tree : Area(w, x, j) \in Bounds

\* vm_create_vma keeps the areas of every process apart, for every page size,
\* address and size, aligned or not; an area that it adds is the one asked
\* for and ends below the addresses of the kernel.
THEOREM CreationKeepsAreasApart ==
  ASSUME NEW P, NEW T, NEW F, NEW C, NEW R, "busy" \in R,
         NEW w \in Spaces(P, T, F, C, R), TreesNamed(w),
         NEW p \in Proc, NEW k \in Kind, NEW from \in Nat, NEW len \in Nat,
         NEW prot \in SUBSET {"R", "W", "X"},
         \A q \in Proc : DisjointAreas(w, q)
  PROVE  LET n == CreateVma(w, p, k, from, len, prot) IN
         /\ n \in Spaces(P, T, F, C, R) /\ TreesNamed(n)
         /\ \A q \in Proc : DisjointAreas(n, q)
         /\ n.stop # "busy" => /\ k \in n.as[p].tree /\ Area(n, p, k).start = from
                               /\ Area(n, p, k).end = from + len /\ from + len < KernBase
<1> DEFINE n == CreateVma(w, p, k, from, len, prot)
           v == [start |-> from, end |-> from + len, prot |-> prot]
           s == PageStart(from)
           e == RoundUp(from + len)
<1>1. v \in Bounds
  BY DEF Bounds
<1>2. s \in Nat /\ s <= from /\ e \in Nat /\ from + len <= e
  <2>1. from + len \in Nat
    OBVIOUS
  <2> QED BY <2>1, PageRounding, Zenon
<1>3. CASE Overlaps(w, p, from, from + len)
  <2>1. n = [w EXCEPT !.stop = "busy"]
    BY <1>3, Zenon DEF CreateVma, Stop
  <2> DEFINE A == [Proc -> [area : [Kind -> Bounds \cup {None}], tree : SUBSET Kind, pt : P, tbl : T]]
  <2> HIDE DEF n
  <2>2. n \in Spaces(P, T, F, C, R) /\ n.as = w.as /\ n.stop = "busy"
    <3>1. Spaces(P, T, F, C, R) = [as : A, free : F, cnt : C, stop : R]
      BY Zenon DEF Spaces
    <3> HIDE DEF A
    <3> QED BY <2>1, <3>1
  <2>3. TreesNamed(n) /\ \A q \in Proc : DisjointAreas(n, q)
    BY <2>2, Zenon DEF TreesNamed, DisjointAreas, Area
  <2> QED BY <2>2, <2>3, Zenon DEF n
<1>4. CASE ~ Overlaps(w, p, from, from + len)
  <2> DEFINE r == w.as[p]
             t == [r EXCEPT !.area[k] = v, !.tree = @ \cup {k}]
  <2>1. n = [w EXCEPT !.as[p].area[k] = v, !.as[p].tree = @ \cup {k}]
    BY <1>4, Zenon DEF CreateVma
  <2>2. w.as \in [Proc -> [area : [Kind -> Bounds \cup {None}], tree : SUBSET Kind, pt : P, tbl : T]]
    BY Zenon DEF Spaces
  <2>3. /\ t \in [area : [Kind -> Bounds \cup {None}], tree : SUBSET Kind, pt : P, tbl : T]
        /\ t.tree = r.tree \cup {k} /\ t.area[k] = v
        /\ \A j \in Kind \ {k} : t.area[j] = r.area[j]
    BY <1>1, <2>2, Zenon
  <2> HIDE DEF v, s, e
  <2>4. n = [w EXCEPT !.as = [w.as EXCEPT ![p] = t]]
    BY <2>1, <2>2, Zenon DEF Spaces
  <2> HIDE DEF n, t
  <2>5. /\ n \in Spaces(P, T, F, C, R) /\ n.as[p] = t
        /\ \A q \in Proc \ {p} : n.as[q] = w.as[q]
    BY <2>2, <2>3, <2>4, Zenon DEF Spaces
  <2>6. r.tree \in SUBSET Kind /\ \A j \in r.tree : r.area[j] \in Bounds
    BY <2>2, Zenon DEF TreesNamed, Area
  <2>7. TreesNamed(n)
    <3> SUFFICES ASSUME NEW q \in Proc, NEW j \in n.as[q].tree PROVE n.as[q].area[j] \in Bounds
      BY Zenon DEF TreesNamed, Area
    <3>1. CASE q = p
      BY <3>1, <1>1, <2>3, <2>5, <2>6, Zenon
    <3>2. CASE q # p
      BY <3>2, <2>5, Zenon DEF TreesNamed, Area
    <3> QED BY <3>1, <3>2, Zenon
  <2>8. ASSUME NEW j \in r.tree
        PROVE  r.area[j].end <= from \/ from + len <= r.area[j].start
    <3>1. r.area[j].start \in Nat /\ r.area[j].end \in Nat
      BY <2>6, Zenon DEF Bounds
    <3>2. /\ ~ (r.area[j].start <= s /\ s < r.area[j].end)
          /\ ~ (s <= r.area[j].start /\ r.area[j].start < e)
      BY <1>4, Zenon DEF Overlaps, Area, s, e
    <3> QED BY <1>2, <3>1, <3>2, Apart
  <2>9. v.start = from /\ v.end = from + len
    BY Zenon DEF v
  <2>10. ASSUME NEW q \in Proc PROVE DisjointAreas(n, q)
    <3>1. CASE q # p
      BY <3>1, <2>5, Zenon DEF DisjointAreas, Area
    <3>2. CASE q = p
      <4> SUFFICES ASSUME NEW i \in t.tree, NEW j \in t.tree, i # j
                   PROVE  t.area[i].end <= t.area[j].start \/ t.area[j].end <= t.area[i].start
        BY <3>2, <2>5, Zenon DEF DisjointAreas, Area
      <4>1. CASE i = k
        BY <4>1, <2>3, <2>6, <2>8, <2>9, Zenon
      <4>2. CASE j = k
        BY <4>2, <2>3, <2>6, <2>8, <2>9, Zenon
      <4>3. CASE i # k /\ j # k
        BY <4>3, <2>3, <2>6, Zenon DEF DisjointAreas, Area
      <4> QED BY <4>1, <4>2, <4>3, Zenon
    <3> QED BY <3>1, <3>2, Zenon
  <2>11. from + len < KernBase
    <3>1. ~ (e >= KernBase)
      BY <1>4, Zenon DEF Overlaps, e
    <3> QED BY <1>2, <3>1, AreasAssumption
  <2>12. k \in n.as[p].tree /\ Area(n, p, k).start = from /\ Area(n, p, k).end = from + len
    BY <2>3, <2>5, <2>9, Zenon DEF Area
  <2> QED BY <2>5, <2>7, <2>10, <2>11, <2>12, Zenon DEF n
<1> QED BY <1>3, <1>4, Zenon

\* _vm_find_vma_nolock finds nothing only if no area holds the address.
LEMMA FindNone ==
  ASSUME NEW w, TreesNamed(w), NEW p \in Proc, w.as[p].tree \in SUBSET Kind,
         NEW x \in Nat, FindVma(w, p, x) = None
  PROVE  \A j \in w.as[p].tree : ~ Covers(Area(w, p, j), x)
<1> DEFINE S == {j \in w.as[p].tree : Covers(Area(w, p, j), x)}
           B == {Area(w, p, j).start : j \in S}
<1> SUFFICES ASSUME S # {} PROVE FALSE
  BY Zenon
<1>1. \A j \in S : Area(w, p, j).start \in Nat
  BY Zenon DEF TreesNamed, Bounds
<1>2. B \in SUBSET Nat /\ B # {}
  BY <1>1, Zenon
<1>3. PICK m \in B : \A b \in B : m <= b
  <2> HIDE DEF B
  <2> QED BY <1>2, Least, Zenon
<1>4. \E k \in S : \A j \in S : Area(w, p, k).start <= Area(w, p, j).start
  BY <1>3, Zenon
<1>5. S \in SUBSET Kind /\ FirstArea(w, p, S) = None
  BY Zenon DEF FindVma
<1> HIDE DEF S
<1>6. FirstArea(w, p, S) \in S
  BY <1>4, Zenon DEF FirstArea
<1> QED BY <1>5, <1>6, AreasAssumption, Zenon

\* Arithmetic of growth: the area from c to d becomes the one from l to h; the
\* other one, from a to b, does not hold the end that moves and is not inside.
LEMMA ApartGrown ==
  ASSUME NEW a \in Nat, NEW b \in Nat, NEW c \in Nat, NEW d \in Nat, NEW l \in Nat, NEW h \in Nat,
         a <= b, c <= d, b <= c \/ d <= a, ~ (l <= a /\ b <= h),
         \/ l = c /\ d <= h /\ ~ (a <= h /\ h < b)
         \/ l <= c /\ d = h /\ ~ (a <= l /\ l < b)
  PROVE  b <= l \/ h <= a
OBVIOUS

\* What resize_vma writes when vm_resize_area grows the heap up to an address
\* or the stack down to one keeps the areas apart, although the code looks
\* for another area at that address alone: it is enough if no area lies
\* inside the grown one, that is, if growth does not leap over an area.
THEOREM GrowthKeepsAreasApart ==
  ASSUME NEW P, NEW T, NEW F, NEW C, NEW R,
         NEW w \in Spaces(P, T, F, C, R), TreesNamed(w),
         \A q \in Proc : DisjointAreas(w, q),
         NEW p \in Proc, NEW k \in w.as[p].tree, NEW low \in Nat, NEW high \in Nat,
         \/ low = Area(w, p, k).start /\ Area(w, p, k).end <= high /\ FindVma(w, p, high) = None
         \/ low <= Area(w, p, k).start /\ Area(w, p, k).end = high /\ FindVma(w, p, low) = None,
         \A j \in w.as[p].tree \ {k} : ~ (low <= Area(w, p, j).start /\ Area(w, p, j).end <= high)
  PROVE  LET n == [w EXCEPT !.as[p].area[k].start = low, !.as[p].area[k].end = high] IN
         \A q \in Proc : DisjointAreas(n, q)
<1> DEFINE n == [w EXCEPT !.as[p].area[k].start = low, !.as[p].area[k].end = high]
           r == w.as[p]
           t == [r EXCEPT !.area[k].start = low, !.area[k].end = high]
<1>1. w.as \in [Proc -> [area : [Kind -> Bounds \cup {None}], tree : SUBSET Kind, pt : P, tbl : T]]
  BY Zenon DEF Spaces
<1>2. r.tree \in SUBSET Kind /\ \A j \in r.tree : r.area[j] \in Bounds
  BY <1>1, Zenon DEF TreesNamed, Area
<1>3. /\ t.tree = r.tree /\ t.area[k].start = low /\ t.area[k].end = high
      /\ \A j \in Kind \ {k} : t.area[j] = r.area[j]
  BY <1>1, <1>2 DEF Bounds
<1>4. n.as[p] = t /\ \A q \in Proc \ {p} : n.as[q] = w.as[q]
  BY <1>1, <1>2, Zenon DEF Spaces, Bounds
<1> HIDE DEF n, t
<1>5. ASSUME NEW j \in r.tree \ {k}
      PROVE  r.area[j].end <= low \/ high <= r.area[j].start
  <2>1. /\ r.area[j].start \in Nat /\ r.area[j].end \in Nat /\ r.area[j].start <= r.area[j].end
        /\ r.area[k].start \in Nat /\ r.area[k].end \in Nat /\ r.area[k].start <= r.area[k].end
    BY <1>2, Zenon DEF Bounds
  <2>2. r.area[j].end <= r.area[k].start \/ r.area[k].end <= r.area[j].start
    BY Zenon DEF DisjointAreas, Area
  <2>3. ~ (low <= r.area[j].start /\ r.area[j].end <= high)
    BY Zenon DEF Area
  <2>4. ASSUME NEW x \in Nat, FindVma(w, p, x) = None
        PROVE  ~ (r.area[j].start <= x /\ x < r.area[j].end)
    BY <1>2, <2>4, FindNone, Zenon DEF Covers, Area
  <2>5. \/ low = r.area[k].start /\ r.area[k].end <= high /\ FindVma(w, p, high) = None
        \/ low <= r.area[k].start /\ r.area[k].end = high /\ FindVma(w, p, low) = None
    BY Zenon DEF Area
  <2>6. \/ /\ low = r.area[k].start /\ r.area[k].end <= high
           /\ ~ (r.area[j].start <= high /\ high < r.area[j].end)
        \/ /\ low <= r.area[k].start /\ r.area[k].end = high
           /\ ~ (r.area[j].start <= low /\ low < r.area[j].end)
    BY <2>4, <2>5, Zenon
  <2> DEFINE a == r.area[j].start  b == r.area[j].end  c == r.area[k].start  d == r.area[k].end
  <2>7. a \in Nat /\ b \in Nat /\ c \in Nat /\ d \in Nat /\ a <= b /\ c <= d
    BY <2>1, Zenon
  <2>8. /\ b <= c \/ d <= a
        /\ ~ (low <= a /\ b <= high)
        /\ \/ low = c /\ d <= high /\ ~ (a <= high /\ high < b)
           \/ low <= c /\ d = high /\ ~ (a <= low /\ low < b)
    BY <2>2, <2>3, <2>6, Zenon
  <2> HIDE DEF a, b, c, d
  <2>9. b <= low \/ high <= a
    BY <2>7, <2>8, ApartGrown
  <2> QED BY <2>9, Zenon DEF a, b
<1>6. ASSUME NEW q \in Proc PROVE DisjointAreas(n, q)
  <2>1. CASE q # p
    BY <2>1, <1>4, Zenon DEF DisjointAreas, Area
  <2>2. CASE q = p
    <3> SUFFICES ASSUME NEW i \in t.tree, NEW j \in t.tree, i # j
                 PROVE  t.area[i].end <= t.area[j].start \/ t.area[j].end <= t.area[i].start
      BY <2>2, <1>4, Zenon DEF DisjointAreas, Area
    <3>1. CASE i = k
      BY <3>1, <1>2, <1>3, <1>5, Zenon
    <3>2. CASE j = k
      BY <3>2, <1>2, <1>3, <1>5, Zenon
    <3>3. CASE i # k /\ j # k
      BY <3>3, <1>2, <1>3, Zenon DEF DisjointAreas, Area
    <3> QED BY <3>1, <3>2, <3>3, Zenon
  <2> QED BY <2>1, <2>2, Zenon
<1> QED BY <1>6, Zenon DEF n

-----------------------------------------------------------------------------
(* Counting *)

Pairs(f) == UNION {{c} \X f[c] : c \in Caller}
Inside(pc) == {c \in Caller : pc[c] # "idle"}

\* The ids in use with their owners
LEMMA PairsMember ==
  ASSUME NEW f PROVE \A x : x \in Pairs(f) <=> \E c \in Caller : \E i \in f[c] : x = <<c, i>>
BY DEF Pairs

\* Handing out an id adds one pair.
LEMMA PairsAdd ==
  ASSUME NEW f \in [Caller -> SUBSET Nat], NEW g \in [Caller -> SUBSET Nat],
         NEW c \in Caller, NEW i \in Nat, i \notin f[c], IsFiniteSet(Pairs(f)),
         \A d \in Caller : g[d] = IF d = c THEN f[d] \cup {i} ELSE f[d]
  PROVE  IsFiniteSet(Pairs(g)) /\ Cardinality(Pairs(g)) = Cardinality(Pairs(f)) + 1
<1>2. <<c, i>> \notin Pairs(f)
  BY PairsMember
<1>3. Pairs(g) = Pairs(f) \cup {<<c, i>>}
  <2>1. ASSUME NEW x \in Pairs(g) PROVE x \in Pairs(f) \cup {<<c, i>>}
    <3>1. PICK d \in Caller : \E k \in g[d] : x = <<d, k>>
      BY PairsMember
    <3>2. PICK k \in g[d] : x = <<d, k>>
      BY <3>1, Zenon
    <3>3. k \in f[d] => x \in Pairs(f)
      BY <3>2, PairsMember, Zenon
    <3>4. k \notin f[d] => d = c /\ k = i
      BY Zenon
    <3> QED BY <3>2, <3>3, <3>4, Zenon
  <2>2. ASSUME NEW x \in Pairs(f) PROVE x \in Pairs(g)
    <3>1. PICK d \in Caller : \E k \in f[d] : x = <<d, k>>
      BY PairsMember
    <3>2. PICK k \in f[d] : x = <<d, k>>
      BY <3>1
    <3>3. k \in g[d]
      OBVIOUS
    <3> QED BY <3>2, <3>3, PairsMember, Zenon
  <2>3. <<c, i>> \in Pairs(g)
    <3>1. i \in g[c]
      OBVIOUS
    <3> QED BY <3>1, PairsMember
  <2> QED BY <2>1, <2>2, <2>3
<1>4. /\ IsFiniteSet(Pairs(f) \cup {<<c, i>>})
      /\ Cardinality(Pairs(f) \cup {<<c, i>>}) = Cardinality(Pairs(f)) + 1
  BY <1>2, FS_AddElement
<1> QED BY <1>3, <1>4

\* Returning an id removes one.
LEMMA PairsRemove ==
  ASSUME NEW f \in [Caller -> SUBSET Nat], NEW g \in [Caller -> SUBSET Nat],
         NEW c \in Caller, NEW i \in f[c], IsFiniteSet(Pairs(f)),
         \A d \in Caller : g[d] = IF d = c THEN f[d] \ {i} ELSE f[d]
  PROVE  IsFiniteSet(Pairs(g)) /\ Cardinality(Pairs(g)) = Cardinality(Pairs(f)) - 1
<1>1. i \in Nat /\ i \notin g[c]
  BY Zenon
<1>2. \A d \in Caller : f[d] = IF d = c THEN g[d] \cup {i} ELSE g[d]
  OBVIOUS
<1>3. IsFiniteSet(Pairs(g))
  <2>1. Pairs(g) \subseteq Pairs(f)
    <3> SUFFICES ASSUME NEW x \in Pairs(g) PROVE x \in Pairs(f)
      BY Zenon
    <3>1. PICK d \in Caller : \E k \in g[d] : x = <<d, k>>
      BY PairsMember
    <3>2. PICK k \in g[d] : x = <<d, k>>
      BY <3>1
    <3>3. k \in f[d]
      OBVIOUS
    <3> QED BY <3>2, <3>3, PairsMember, Zenon
  <2> QED BY <2>1, FS_Subset
<1>4. Cardinality(Pairs(f)) = Cardinality(Pairs(g)) + 1
  BY <1>1, <1>2, <1>3, PairsAdd, Zenon
<1>5. Cardinality(Pairs(g)) \in Nat
  BY <1>3, FS_CardinalityType, Zenon
<1> QED BY <1>3, <1>4, <1>5

\* A caller that enters a function, moves on in it and leaves it
LEMMA InsideEnter ==
  ASSUME NEW f \in [Caller -> Pc], NEW g, NEW c \in Caller, NEW l, f[c] = "idle", l # "idle",
         g = [f EXCEPT ![c] = l], IsFiniteSet(Caller)
  PROVE  Cardinality(Inside(g)) = Cardinality(Inside(f)) + 1
<1>1. Inside(g) = Inside(f) \cup {c} /\ c \notin Inside(f)
  BY DEF Inside
<1>2. IsFiniteSet(Inside(f))
  BY FS_Subset DEF Inside
<1> QED BY <1>1, <1>2, FS_AddElement, Zenon

\* A call that goes on stays under way, and one that returns is one less.
LEMMA InsideMove ==
  ASSUME NEW f \in [Caller -> Pc], NEW g, NEW c \in Caller, NEW l, f[c] # "idle", l # "idle",
         g = [f EXCEPT ![c] = l]
  PROVE  Inside(g) = Inside(f)
BY DEF Inside

LEMMA InsideLeave ==
  ASSUME NEW f \in [Caller -> Pc], NEW g, NEW c \in Caller, f[c] # "idle",
         g = [f EXCEPT ![c] = "idle"], IsFiniteSet(Caller)
  PROVE  Cardinality(Inside(g)) = Cardinality(Inside(f)) - 1
<1>1. Inside(g) = Inside(f) \ {c} /\ c \in Inside(f)
  BY DEF Inside
<1>2. IsFiniteSet(Inside(f))
  BY FS_Subset DEF Inside
<1> QED BY <1>1, <1>2, FS_RemoveElement, Zenon
-----------------------------------------------------------------------------
(* The invariant of the identifier bitmap *)

\* What holds between the sections of a call.  Where the bitmap keeps its size
\* a resize can only fail; otherwise the caller is the only one, so that the
\* map is as the last section left it.
CallOK(c) ==
  ipc[c] # "idle" =>
    /\ c \in use.callers
    /\ ipc[c] = "scan" => size[c] <= nr
    /\ ipc[c] = "take" => InMap(id[c])
    /\ ipc[c] = "free" => ~Fixed(use)
    /\ ipc[c] = "resize" =>
         /\ WordsFor(size[c]) # words
         /\ op[c] = "specified" => MapSize <= size[c]
         /\ Fixed(use) => use.max < size[c]

\* Only ids in use, and the invalid id 0, have their bits set.
BitsOwned ==
  /\ \A i \in bits : i # 0 => \E c \in Caller : i \in owned[c]
  /\ words # 0 => 0 \in bits

\* The size of the map
SizeOK ==
  /\ words = WordsFor(nr)
  /\ (Fixed(use) /\ ~freed) => nr = use.max

CountOK == IsFiniteSet(Pairs(owned)) /\ RefsCounted /\ FreedWithLast

IdInv ==
  /\ use \in Uses /\ IdTypeOK /\ ~idHalted
  /\ IdsUnique /\ BitsOwned /\ SizeOK /\ CountOK
  /\ \A c \in Caller : CallOK(c)

\* The array of a map has room for all of its ids.
LEMMA WordsForFacts ==
  ASSUME NEW n \in Nat
  PROVE  /\ WordsFor(n) \in Nat
         /\ n <= WordsFor(n) * IdsPerEnt
         /\ n # 0 => WordsFor(n) # 0
<1>1. IdsPerEnt \in Nat \ {0}
  BY IdBitmapAssumption
<1>2. WordsFor(n) \in Nat
  BY <1>1 DEF WordsFor
<1>3. n <= WordsFor(n) * IdsPerEnt
  BY <1>1 DEF WordsFor
<1> QED BY <1>1, <1>2, <1>3

\* No map, no words
LEMMA WordsForNone == WordsFor(0) = 0
BY IdBitmapAssumption DEF WordsFor

\* Growth by MapSize always takes more words.
LEMMA WordsForGrows ==
  ASSUME UsedSafely, NEW n \in Nat
  PROVE  WordsFor(n + MapSize) # WordsFor(n)
<1>1. IdsPerEnt \in Nat \ {0} /\ MapSize \in Nat /\ IdsPerEnt <= MapSize
  BY IdBitmapAssumption DEF UsedSafely
<1> DEFINE w == WordsFor(n)
<1>2. w \in Nat /\ w * IdsPerEnt <= n + (IdsPerEnt - 1)
  BY <1>1 DEF WordsFor
<1>3. n + MapSize <= WordsFor(n + MapSize) * IdsPerEnt
  BY <1>1, WordsForFacts
<1>4. w * IdsPerEnt < n + MapSize
  BY <1>1, <1>2
<1>5. w * IdsPerEnt < WordsFor(n + MapSize) * IdsPerEnt
  <2> DEFINE a == w * IdsPerEnt  b == WordsFor(n + MapSize) * IdsPerEnt
  <2>1. a \in Int /\ b \in Int /\ n + MapSize \in Int
    BY <1>1, <1>2, WordsForFacts
  <2> HIDE DEF a, b
  <2>2. a < b
    BY <1>3, <1>4, <2>1 DEF a, b
  <2> QED BY <2>2 DEF a, b
<1> QED BY <1>1, <1>2, <1>5

\* If a caller is inside, the bitmap has not been freed, and whoever drops the
\* last reference is alone.
LEMMA BusyFacts ==
  ASSUME IdInv, NEW c \in Caller, ipc[c] # "idle"
  PROVE  /\ ~freed /\ refs \in Nat \ {0}
         /\ (refs = 1 => deleted /\ Pairs(owned) = {} /\ \A d \in Caller : ipc[d] # "idle" => d = c)
<1>1. IsFiniteSet(Inside(ipc)) /\ c \in Inside(ipc)
  BY FS_Subset, IdBitmapAssumption, Zenon DEF Inside
<1>2. Cardinality(Inside(ipc)) \in Nat /\ Cardinality(Inside(ipc)) # 0
  BY <1>1, FS_CardinalityType, FS_EmptySet, Zenon
<1>3. Cardinality(Pairs(owned)) \in Nat
  BY FS_CardinalityType DEF IdInv, CountOK
<1>4. refs = (IF deleted THEN 0 ELSE 1) + Cardinality(Pairs(owned)) + Cardinality(Inside(ipc))
  BY DEF IdInv, CountOK, RefsCounted, Handed, Busy, Pairs, Inside
<1>5. refs \in Nat \ {0}
  BY <1>2, <1>3, <1>4
<1>6. ~freed
  BY <1>5 DEF IdInv, CountOK, FreedWithLast
<1>7. ASSUME refs = 1
      PROVE  deleted /\ Pairs(owned) = {} /\ \A d \in Caller : ipc[d] # "idle" => d = c
  <2>1. deleted /\ Cardinality(Pairs(owned)) = 0 /\ Cardinality(Inside(ipc)) = 1
    BY <1>2, <1>3, <1>4, <1>7
  <2>2. Pairs(owned) = {}
    BY <2>1, FS_EmptySet, Zenon DEF IdInv, CountOK
  <2>3. \E x : Inside(ipc) = {x}
    BY <1>1, <2>1, FS_Singleton, Zenon
  <2>4. \A d \in Caller : ipc[d] # "idle" => d = c
    BY <1>1, <2>3 DEF Inside
  <2> QED BY <2>1, <2>2, <2>4, Zenon
<1> QED BY <1>5, <1>6, <1>7, Zenon

\* The reference count in terms of Pairs and Inside, in a state and in the next
LEMMA CountDef ==
  CountOK <=> /\ IsFiniteSet(Pairs(owned))
              /\ refs = (IF deleted THEN 0 ELSE 1) + Cardinality(Pairs(owned)) + Cardinality(Inside(ipc))
              /\ freed <=> (refs = 0)
BY DEF CountOK, RefsCounted, FreedWithLast, Handed, Busy, Pairs, Inside

LEMMA CountNext ==
  CountOK' <=> /\ IsFiniteSet(Pairs(owned'))
               /\ refs' = (IF deleted' THEN 0 ELSE 1) + Cardinality(Pairs(owned')) + Cardinality(Inside(ipc'))
               /\ freed' <=> (refs' = 0)
BY DEF CountOK, RefsCounted, FreedWithLast, Handed, Busy, Pairs, Inside

\* Both counts are natural numbers.
LEMMA CountTypes ==
  ASSUME IdInv
  PROVE  /\ IsFiniteSet(Caller) /\ ipc \in [Caller -> Pc] /\ owned \in [Caller -> SUBSET Nat]
         /\ refs \in Nat /\ deleted \in BOOLEAN /\ freed \in BOOLEAN
         /\ Cardinality(Pairs(owned)) \in Nat /\ Cardinality(Inside(ipc)) \in Nat
<1>1. IsFiniteSet(Caller) /\ Inside(ipc) \subseteq Caller
  BY IdBitmapAssumption DEF Inside
<1>2. IsFiniteSet(Pairs(owned))
  BY DEF IdInv, CountOK
<1> QED BY <1>1, <1>2, FS_Subset, FS_CardinalityType, Zenon DEF IdInv, IdTypeOK

\* A step inside a function
LEMMA CountMove ==
  ASSUME IdInv, NEW c \in Caller, NEW l, ipc[c] # "idle", l # "idle", Go(c, l),
         UNCHANGED refVars, owned' = owned
  PROVE  CountOK'
<1>1. Inside(ipc') = Inside(ipc)
  BY CountTypes, InsideMove, Zenon DEF Go
<1>2. CountOK
  BY DEF IdInv
<1> QED BY <1>1, <1>2, CountDef, CountNext, Zenon DEF refVars

\* Entering a function takes a reference.
LEMMA CountEnter ==
  ASSUME IdInv, NEW c \in Caller, NEW f, NEW l, l # "idle", Enter(c, f, l),
         deleted' = deleted, freed' = freed, owned' = owned
  PROVE  CountOK'
<1>1. Cardinality(Inside(ipc')) = Cardinality(Inside(ipc)) + 1
  BY CountTypes, InsideEnter, Zenon DEF Enter, At, Go
<1>2. CountOK
  BY DEF IdInv
<1>3. refs' = refs + 1 /\ ~deleted
  BY Zenon DEF Enter
<1>4. ~freed
  BY <1>2, <1>3, CountDef, CountTypes
<1>5. /\ IsFiniteSet(Pairs(owned))
      /\ refs = (IF deleted THEN 0 ELSE 1) + Cardinality(Pairs(owned)) + Cardinality(Inside(ipc))
  BY <1>2, CountDef, Zenon
<1>6. refs' = (IF deleted' THEN 0 ELSE 1) + Cardinality(Pairs(owned')) + Cardinality(Inside(ipc'))
  BY <1>1, <1>3, <1>5, CountTypes
<1>7. freed' <=> (refs' = 0)
  BY <1>3, <1>4, CountTypes
<1> QED BY <1>5, <1>6, <1>7, CountNext, Zenon

\* Returning an id keeps its reference for the rest of the call.
LEMMA CountPut ==
  ASSUME IdInv, NEW c \in Caller, NEW i \in owned[c], ipc[c] = "idle", Go(c, "drop"),
         UNCHANGED refVars, owned' = [owned EXCEPT ![c] = @ \ {i}]
  PROVE  CountOK'
<1>1. Cardinality(Inside(ipc')) = Cardinality(Inside(ipc)) + 1
  BY CountTypes, InsideEnter, Zenon DEF Go
<1>2. CountOK
  BY DEF IdInv
<1>3. /\ owned' \in [Caller -> SUBSET Nat]
      /\ \A d \in Caller : owned'[d] = IF d = c THEN owned[d] \ {i} ELSE owned[d]
  BY CountTypes, Zenon
<1>4. /\ IsFiniteSet(Pairs(owned))
      /\ refs = (IF deleted THEN 0 ELSE 1) + Cardinality(Pairs(owned)) + Cardinality(Inside(ipc))
      /\ freed <=> (refs = 0)
  BY <1>2, CountDef, Zenon
<1>5. IsFiniteSet(Pairs(owned')) /\ Cardinality(Pairs(owned')) = Cardinality(Pairs(owned)) - 1
  BY <1>3, <1>4, CountTypes, PairsRemove, Zenon
<1>6. refs' = (IF deleted' THEN 0 ELSE 1) + Cardinality(Pairs(owned')) + Cardinality(Inside(ipc'))
  BY <1>1, <1>4, <1>5, CountTypes DEF refVars
<1>7. freed' <=> (refs' = 0)
  BY <1>4, Zenon DEF refVars
<1> QED BY <1>5, <1>6, <1>7, CountNext, Zenon

\* Handing out an id keeps the reference of the call for it.
LEMMA CountTake ==
  ASSUME IdInv, NEW c \in Caller, NEW i \in Nat, i \notin owned[c], ipc[c] # "idle",
         Go(c, "idle"), UNCHANGED refVars, owned' = [owned EXCEPT ![c] = @ \cup {i}]
  PROVE  CountOK'
<1>1. Cardinality(Inside(ipc')) = Cardinality(Inside(ipc)) - 1
  BY CountTypes, InsideLeave, Zenon DEF Go
<1>2. CountOK
  BY DEF IdInv
<1>3. /\ owned' \in [Caller -> SUBSET Nat]
      /\ \A d \in Caller : owned'[d] = IF d = c THEN owned[d] \cup {i} ELSE owned[d]
  BY CountTypes, Zenon
<1>4. /\ IsFiniteSet(Pairs(owned))
      /\ refs = (IF deleted THEN 0 ELSE 1) + Cardinality(Pairs(owned)) + Cardinality(Inside(ipc))
      /\ freed <=> (refs = 0)
  BY <1>2, CountDef
<1>5. IsFiniteSet(Pairs(owned')) /\ Cardinality(Pairs(owned')) = Cardinality(Pairs(owned)) + 1
  BY <1>3, <1>4, CountTypes, PairsAdd, Zenon
<1>6. refs' = (IF deleted' THEN 0 ELSE 1) + Cardinality(Pairs(owned')) + Cardinality(Inside(ipc'))
  BY <1>1, <1>4, <1>5, CountTypes DEF refVars
<1>7. freed' <=> (refs' = 0)
  BY <1>4 DEF refVars
<1> QED BY <1>5, <1>6, <1>7, CountNext, Zenon

-----------------------------------------------------------------------------
(* Steps *)

\* The caller d is where it was.
Waits(d) == ipc'[d] = ipc[d] /\ op'[d] = op[d] /\ id'[d] = id[d] /\ size'[d] = size[d]

\* What a call relies on stands while the map does, and a caller outside relies on nothing.
LEMMA WaitsOK ==
  ASSUME NEW d, CallOK(d), Waits(d), use' = use, nr' = nr, words' = words
  PROVE  CallOK(d)'
BY Zenon DEF CallOK, Waits, InMap, WordsFor, Fixed

LEMMA IdleOK == ASSUME NEW d, ipc'[d] = "idle" PROVE CallOK(d)'
BY Zenon DEF CallOK

\* A step that leaves the map and the ids in use alone
LEMMA QuietStep ==
  ASSUME IdInv, NEW c \in Caller, UNCHANGED <<use, mapVars, owned, idHalted, freed>>,
         IdTypeOK', CountOK', CallOK(c)', \A d \in Caller \ {c} : Waits(d)
  PROVE  IdInv'
<1>1. IdsUnique' /\ BitsOwned' /\ SizeOK'
  BY Zenon DEF IdInv, IdsUnique, BitsOwned, SizeOK, mapVars, WordsFor, Fixed
<1>2. ASSUME NEW d \in Caller PROVE CallOK(d)'
  <2>1. CASE d = c
    BY <2>1
  <2>2. CASE d # c
    BY <2>2, WaitsOK, Zenon DEF IdInv, mapVars
  <2> QED BY <2>1, <2>2, Zenon
<1>3. (use \in Uses)' /\ ~idHalted'
  BY Zenon DEF IdInv
<1> QED BY <1>1, <1>2, <1>3, Zenon DEF IdInv

\* What the uses of the bitmap guarantee
LEMMA UseFacts ==
  ASSUME IdInv, UsedSafely
  PROVE  /\ use.callers \subseteq Caller /\ use.start \in Nat /\ use.max \in Nat
         /\ Alone(use) \/ Fixed(use)
         /\ ~SameWords
         /\ MapSize \in Nat \ {0} /\ IdsPerEnt \in Nat \ {0} /\ ReservedIds \in Nat \ {0}
         /\ Specified \subseteq Nat /\ \A i \in Specified \cup {0} : i < MapSize
BY IdBitmapAssumption DEF IdInv, UsedSafely

\* The types of the variables
LEMMA LocalTypes ==
  ASSUME IdInv
  PROVE  /\ ipc \in [Caller -> Pc] /\ op \in [Caller -> Op] /\ system \in [Caller -> BOOLEAN]
         /\ id \in [Caller -> Specified \cup {0}] /\ size \in [Caller -> Nat]
         /\ owned \in [Caller -> SUBSET Nat]
         /\ nr \in 0 .. use.max /\ words \in Nat /\ bits \subseteq 0..(words * IdsPerEnt - 1)
         /\ refs \in Nat /\ deleted \in BOOLEAN /\ freed \in BOOLEAN /\ idHalted = FALSE
BY DEF IdInv, IdTypeOK

\* idbmap_get_id takes its reference and enters find_free_id.
LEMMA GetIdStep ==
  ASSUME IdInv, UsedSafely, NEW c \in Caller, NEW sys \in BOOLEAN, GetId(c, sys), use' = use
  PROVE  IdInv'
<1>1. CountOK'
  BY CountEnter, Zenon DEF GetId
<1>2. IdTypeOK'
  BY LocalTypes DEF GetId, Enter, Go, mapVars, IdTypeOK, Pc, Op
<1>3. CallOK(c)'
  BY LocalTypes, Zenon DEF GetId, Enter, Go, CallOK
<1>4. \A d \in Caller \ {c} : Waits(d)
  BY LocalTypes, Zenon DEF GetId, Enter, Go, Waits
<1> QED BY <1>1, <1>2, <1>3, <1>4, QuietStep, Zenon DEF GetId

\* idbmap_get_specified_id takes its reference; an id beyond the map makes it grow.
LEMMA GetSpecifiedIdStep ==
  ASSUME IdInv, UsedSafely, NEW c \in Caller, NEW i \in Specified, NEW sys \in BOOLEAN,
         GetSpecifiedId(c, i, sys), use' = use
  PROVE  IdInv'
<1> DEFINE l == IF i \div IdsPerEnt >= words THEN "grow" ELSE "take"
<1>1. CountOK'
  <2>1. l # "idle" /\ Enter(c, "specified", l)
    BY Zenon DEF GetSpecifiedId
  <2> HIDE DEF l
  <2> QED BY <2>1, CountEnter, Zenon DEF GetSpecifiedId
<1>2. IdTypeOK'
  BY LocalTypes DEF GetSpecifiedId, Enter, Go, mapVars, IdTypeOK, Pc, Op
<1>3. CallOK(c)'
  <2>1. i \in Nat /\ words \in Nat /\ IdsPerEnt \in Nat \ {0}
    BY LocalTypes, UseFacts, Zenon
  <2>2. i \div IdsPerEnt < words => i < words * IdsPerEnt
    BY <2>1
  <2>3. ipc'[c] = l /\ id'[c] = i /\ words' = words /\ c \in use.callers
    BY LocalTypes, Zenon DEF GetSpecifiedId, Enter, Go, mapVars
  <2>4. l \in {"grow", "take"} /\ (l = "take" => i \div IdsPerEnt < words)
    BY <2>1
  <2> HIDE DEF l
  <2> QED BY <2>2, <2>3, <2>4, Zenon DEF CallOK, InMap
<1>4. \A d \in Caller \ {c} : Waits(d)
  BY LocalTypes, Zenon DEF GetSpecifiedId, Enter, Go, Waits
<1> QED BY <1>1, <1>2, <1>3, <1>4, QuietStep, Zenon DEF GetSpecifiedId

\* idbmap_resize takes its reference.
LEMMA ResizeStep ==
  ASSUME IdInv, UsedSafely, NEW c \in Caller, NEW n \in 0 .. use.max, Resize(c, n), use' = use
  PROVE  IdInv'
<1>1. CountOK'
  BY CountEnter, Zenon DEF Resize
<1>2. n \in Nat
  BY UseFacts
<1>3. IdTypeOK'
  BY <1>2, LocalTypes DEF Resize, Enter, Go, mapVars, IdTypeOK, Pc, Op
<1>4. CallOK(c)'
  <2>1. /\ ipc'[c] = "resize" /\ op'[c] = "resize" /\ size'[c] = n /\ words' = words
        /\ c \in use.callers /\ "resize" \in use.ops
    BY LocalTypes, Zenon DEF Resize, Enter, Go, mapVars
  <2>2. WordsFor(n) # words
    BY UseFacts, Zenon DEF Resize
  <2>3. ~Fixed(use)
    BY <2>1, Zenon DEF Fixed
  <2>4. WordsFor(size'[c]) # words'
    BY <2>1, <2>2, Zenon
  <2> QED BY <2>1, <2>3, <2>4, Zenon DEF CallOK, WordsFor
<1>5. \A d \in Caller \ {c} : Waits(d)
  BY LocalTypes, Zenon DEF Resize, Enter, Go, Waits
<1> QED BY <1>1, <1>3, <1>4, <1>5, QuietStep, Zenon DEF Resize

\* idbmap_free takes its reference.
LEMMA FreeStep ==
  ASSUME IdInv, UsedSafely, NEW c \in Caller, Free(c), use' = use
  PROVE  IdInv'
<1>1. CountOK'
  BY CountEnter, Zenon DEF Free
<1>2. IdTypeOK'
  BY LocalTypes DEF Free, Enter, Go, mapVars, IdTypeOK, Pc, Op
<1>3. CallOK(c)'
  <2>1. ipc'[c] = "free" /\ c \in use.callers /\ "free" \in use.ops
    BY LocalTypes, Zenon DEF Free, Enter, Go
  <2>2. ~Fixed(use)
    BY <2>1, Zenon DEF Fixed
  <2> QED BY <2>1, <2>2, Zenon DEF CallOK
<1>4. \A d \in Caller \ {c} : Waits(d)
  BY LocalTypes, Zenon DEF Free, Enter, Go, Waits
<1> QED BY <1>1, <1>2, <1>3, <1>4, QuietStep, Zenon DEF Free

\* find_free_id reads the end of its range, which is inside the map.
LEMMA FindRangeStep ==
  ASSUME IdInv, UsedSafely, NEW c \in Caller, FindRange(c), use' = use
  PROVE  IdInv'
<1> DEFINE max == IF system[c] THEN ReservedIds ELSE nr
<1>1. max \in Nat /\ nr \in Nat
  BY LocalTypes, UseFacts
<1>2. /\ ipc[c] = "find" /\ UNCHANGED <<mapVars, refVars, op, system, id, owned, idHalted>>
      /\ \/ max > nr /\ Go(c, "grow") /\ size' = size
         \/ max <= nr /\ Go(c, "scan") /\ size' = [size EXCEPT ![c] = max]
  BY <1>1 DEF FindRange, At
<1> HIDE DEF max
<1>3. CountOK'
  BY <1>2, CountMove, Zenon
<1>4. IdTypeOK'
  BY <1>1, <1>2, LocalTypes DEF Go, mapVars, refVars, IdTypeOK, Pc
<1>5. CallOK(c)'
  <2>1. c \in use.callers
    BY <1>2, Zenon DEF IdInv, CallOK
  <2>2. ipc'[c] = "grow" \/ (ipc'[c] = "scan" /\ size'[c] <= nr')
    BY <1>2, LocalTypes, Zenon DEF Go, mapVars
  <2> QED BY <2>1, <2>2, Zenon DEF CallOK
<1>6. \A d \in Caller \ {c} : Waits(d)
  BY <1>2, LocalTypes, Zenon DEF Go, Waits
<1> QED BY <1>2, <1>3, <1>4, <1>5, <1>6, QuietStep, Zenon DEF refVars

\* The size that a full map grows to takes more words.
LEMMA GrowStep ==
  ASSUME IdInv, UsedSafely, NEW c \in Caller, Grow(c), use' = use
  PROVE  IdInv'
<1>1. /\ ipc[c] = "grow" /\ Go(c, "resize") /\ size' = [size EXCEPT ![c] = nr + MapSize]
      /\ UNCHANGED <<mapVars, refVars, op, system, id, owned, idHalted>>
  BY Zenon DEF Grow, At
<1>2. nr \in Nat /\ MapSize \in Nat \ {0} /\ nr + MapSize \in Nat
  BY LocalTypes, UseFacts
<1>3. CountOK'
  BY <1>1, CountMove, Zenon
<1>4. IdTypeOK'
  BY <1>1, <1>2, LocalTypes, Zenon DEF Go, mapVars, refVars, IdTypeOK, Pc
<1>5. CallOK(c)'
  <2>1. /\ c \in use.callers /\ ipc'[c] = "resize" /\ size'[c] = nr + MapSize /\ words' = words
    BY <1>1, LocalTypes, Zenon DEF IdInv, CallOK, Go, mapVars
  <2>2. WordsFor(nr + MapSize) # words
    BY <1>2, WordsForGrows, Zenon DEF IdInv, SizeOK
  <2>3. Fixed(use) => use.max < nr + MapSize
    <3>1. ~freed
      BY <1>1, BusyFacts, Zenon
    <3> QED BY <1>2, <3>1, UseFacts DEF IdInv, SizeOK
  <2>4. MapSize <= nr + MapSize
    BY <1>2
  <2>5. WordsFor(size'[c]) # words' /\ MapSize <= size'[c] /\ (Fixed(use) => use.max < size'[c])
    BY <2>1, <2>2, <2>3, <2>4, Zenon
  <2> QED BY <2>1, <2>5, Zenon DEF CallOK, WordsFor, Fixed
<1>6. \A d \in Caller \ {c} : Waits(d)
  BY <1>1, LocalTypes, Zenon DEF Go, Waits
<1> QED BY <1>1, <1>3, <1>4, <1>5, <1>6, QuietStep, Zenon DEF refVars

\* A failed call on its way out
LEMMA FailStep ==
  ASSUME IdInv, NEW c \in Caller, NEW l \in {"grow", "drop"}, ipc[c] # "idle", Go(c, l),
         UNCHANGED <<use, mapVars, refVars, callVars, owned, idHalted>>
  PROVE  IdInv'
<1>1. CountOK'
  BY CountMove, Zenon
<1>2. IdTypeOK'
  BY LocalTypes, Zenon DEF Go, mapVars, refVars, callVars, IdTypeOK, Pc
<1>3. CallOK(c)'
  <2>1. c \in use.callers /\ ipc'[c] = l
    BY LocalTypes, Zenon DEF IdInv, CallOK, Go
  <2> QED BY <2>1, Zenon DEF CallOK
<1>4. \A d \in Caller \ {c} : Waits(d)
  BY LocalTypes, Zenon DEF Go, Waits, callVars
<1> QED BY <1>1, <1>2, <1>3, <1>4, QuietStep, Zenon DEF refVars

\* A free id of the map is taken.
LEMMA TakeStep ==
  ASSUME IdInv, UsedSafely, NEW c \in Caller, NEW i \in Nat \ {0}, InMap(i), i \notin bits,
         ipc[c] # "idle", Take(c, i), UNCHANGED <<use, nr, words, refVars, idHalted>>
  PROVE  IdInv'
<1>1. /\ bits' = bits \cup {i} /\ owned' = [owned EXCEPT ![c] = @ \cup {i}] /\ Return(c)
      /\ \A d \in Caller : owned'[d] = IF d = c THEN owned[d] \cup {i} ELSE owned[d]
  BY LocalTypes, Zenon DEF Take
<1>2. \A d \in Caller : i \notin owned[d]
  BY DEF IdInv, IdsUnique
<1>3. CountOK'
  BY <1>1, <1>2, CountTake, Zenon DEF Return
<1>4. bits' \subseteq 0..(words' * IdsPerEnt - 1)
  <2>1. i < words * IdsPerEnt /\ words * IdsPerEnt \in Int
    BY UseFacts, LocalTypes DEF InMap
  <2> QED BY <1>1, <2>1, LocalTypes
<1>5. IdTypeOK'
  BY <1>1, <1>4, LocalTypes, Zenon DEF Return, Go, refVars, IdTypeOK, Pc, Op
<1>6. IdsUnique'
  <2>1. ASSUME NEW d \in Caller PROVE owned'[d] \subseteq bits' \ {0}
    <3>1. owned[d] \subseteq bits \ {0} /\ i # 0
      BY Zenon DEF IdInv, IdsUnique
    <3>2. (owned'[d] = owned[d] \cup {i} \/ owned'[d] = owned[d]) /\ bits' = bits \cup {i}
      BY <1>1, Zenon
    <3> QED BY <3>1, <3>2
  <2>2. \A d, e \in Caller : d # e => owned'[d] \cap owned'[e] = {}
    BY <1>1, <1>2 DEF IdInv, IdsUnique
  <2> QED BY <2>1, <2>2, Zenon DEF IdsUnique
<1>7. BitsOwned'
  <2>1. ASSUME NEW k \in bits', k # 0 PROVE \E d \in Caller : k \in owned'[d]
    <3>1. CASE k = i
      BY <1>1, <3>1
    <3>2. CASE k \in bits
      <4>1. PICK d \in Caller : k \in owned[d]
        BY <2>1, <3>2, Zenon DEF IdInv, BitsOwned
      <4> QED BY <1>1, <4>1
    <3> QED BY <1>1, <3>1, <3>2, Zenon
  <2>2. words' # 0 => 0 \in bits'
    BY <1>1, Zenon DEF IdInv, BitsOwned
  <2> QED BY <2>1, <2>2, Zenon DEF BitsOwned
<1>8. SizeOK'
  BY Zenon DEF IdInv, SizeOK, WordsFor, Fixed, refVars
<1>9. ASSUME NEW d \in Caller PROVE CallOK(d)'
  <2>1. CASE d = c
    BY <1>1, <2>1, LocalTypes, IdleOK, Zenon DEF Return, Go
  <2>2. CASE d # c
    <3>1. Waits(d)
      BY <1>1, <2>2, LocalTypes, Zenon DEF Return, Go, Waits
    <3> QED BY <3>1, WaitsOK, Zenon DEF IdInv
  <2> QED BY <2>1, <2>2, Zenon
<1> QED BY <1>3, <1>5, <1>6, <1>7, <1>8, <1>9, Zenon DEF IdInv

\* An id below the size of the map has its bit in the array.
LEMMA IdsInMap ==
  ASSUME IdInv, UsedSafely, NEW i \in Nat, i < nr
  PROVE  InMap(i)
<1>1. nr \in Nat /\ nr <= words * IdsPerEnt /\ words * IdsPerEnt \in Int
  <2>1. nr \in Nat /\ words = WordsFor(nr)
    <3>1. nr \in 0 .. use.max /\ use.max \in Nat
      BY LocalTypes, UseFacts, Zenon
    <3>2. words = WordsFor(nr)
      BY Zenon DEF IdInv, SizeOK
    <3> QED BY <3>1, <3>2
  <2>2. words \in Nat /\ nr <= words * IdsPerEnt /\ IdsPerEnt \in Nat
    BY <2>1, WordsForFacts, UseFacts, Zenon
  <2> QED BY <2>1, <2>2
<1> QED BY <1>1 DEF InMap

\* What find_free_id stops at is free and in the map.
LEMMA FoundIsFree ==
  ASSUME IdInv, UsedSafely, NEW c \in Caller, ipc[c] = "scan", NEW i \in Found(c), i # 0
  PROVE  i \in Nat /\ InMap(i) /\ i \notin bits
<1> DEFINE range == FirstId(c)..(size[c] - 1)
           inside == {k \in range : InMap(k) /\ k \notin bits}
<1>1. FirstId(c) \in Nat /\ size[c] \in Nat /\ nr \in Nat /\ size[c] <= nr
  <2>1. nr \in 0 .. use.max /\ use.max \in Nat
    BY LocalTypes, UseFacts, Zenon
  <2>2. FirstId(c) \in Nat /\ size[c] \in Nat
    BY LocalTypes, UseFacts, Zenon DEF FirstId
  <2>3. size[c] <= nr
    BY Zenon DEF IdInv, CallOK
  <2> QED BY <2>1, <2>2, <2>3
<1>2. \A k \in range : k \in Nat /\ k < nr
  BY <1>1
<1>3. \A k \in range : InMap(k)
  BY <1>2, IdsInMap, Zenon
<1>4. Found(c) = IF inside # {} THEN {Min(inside)} ELSE {0} \cup {k \in range : ~InMap(k)}
  BY Zenon DEF Found
<1>5. inside \subseteq Nat
  BY <1>2, Zenon
<1>6. \A k \in inside : InMap(k) /\ k \notin bits
  BY Zenon
<1> HIDE DEF inside
<1>7. {k \in range : ~InMap(k)} = {}
  BY <1>3, Zenon
<1> HIDE DEF range
<1>8. inside # {} /\ i = Min(inside)
  BY <1>4, <1>7, Zenon
<1>9. Min(inside) \in inside
  <2>1. \E m \in inside : \A k \in inside : m <= k
    BY <1>5, <1>8, Least, Zenon
  <2> QED BY <2>1, Zenon DEF Min
<1> QED BY <1>5, <1>6, <1>8, <1>9, Zenon

\* find_free_id takes the first free id of its range, or none.
LEMMA ScanStep ==
  ASSUME IdInv, UsedSafely, NEW c \in Caller, Scan(c), use' = use
  PROVE  IdInv'
<1>1. PICK i \in Found(c) : IF i = 0 THEN Go(c, "grow") /\ UNCHANGED <<bits, owned, callVars>>
                            ELSE Take(c, i)
  BY Zenon DEF Scan
<1>2. ipc[c] = "scan" /\ UNCHANGED <<nr, words, refVars, idHalted>>
  BY Zenon DEF Scan, At
<1>3. CASE i = 0
  BY <1>1, <1>2, <1>3, FailStep, Zenon DEF mapVars
<1>4. CASE i # 0
  BY <1>1, <1>2, <1>4, FoundIsFree, TakeStep, Zenon
<1> QED BY <1>3, <1>4, Zenon

\* idbmap_get_specified_id takes its id unless it is in use.
LEMMA TakeSpecifiedStep ==
  ASSUME IdInv, UsedSafely, NEW c \in Caller, TakeSpecified(c), use' = use
  PROVE  IdInv'
<1> DEFINE i == id[c]
<1>1. ipc[c] = "take" /\ UNCHANGED <<nr, words, refVars, idHalted>>
  BY Zenon DEF TakeSpecified, At
<1>2. i \in Nat /\ InMap(i)
  <2>1. i \in Nat
    BY LocalTypes, UseFacts
  <2>2. InMap(i)
    BY <1>1, Zenon DEF IdInv, CallOK
  <2> QED BY <2>1, <2>2, Zenon
<1>3. Reads(i) = {i \in bits}
  BY <1>2, Zenon DEF Reads
<1>4. IF i \in bits THEN Go(c, "drop") /\ UNCHANGED <<bits, owned, callVars>> ELSE Take(c, i)
  BY <1>3, Zenon DEF TakeSpecified
<1>5. 0 \in bits
  <2>1. words # 0
    BY <1>2, UseFacts, LocalTypes DEF InMap
  <2> QED BY <2>1, Zenon DEF IdInv, BitsOwned
<1> HIDE DEF i
<1>6. CASE i \in bits
  BY <1>1, <1>4, <1>6, FailStep, Zenon DEF mapVars
<1>7. CASE i \notin bits
  BY <1>1, <1>2, <1>4, <1>5, <1>7, TakeStep, Zenon
<1> QED BY <1>6, <1>7, Zenon

\* If the bitmap does not keep its size its caller is alone.
LEMMA OthersIdle ==
  ASSUME IdInv, UsedSafely, NEW c \in Caller, ipc[c] # "idle", ~Fixed(use)
  PROVE  \A d \in Caller \ {c} : ipc[d] = "idle"
<1>1. PICK e \in Caller : use.callers \subseteq {e}
  BY UseFacts, Zenon DEF Alone
<1>2. \A d \in Caller : ipc[d] # "idle" => d = e
  BY <1>1, Zenon DEF IdInv, CallOK
<1> QED BY <1>2, Zenon

\* A map without ids in use is given back.
LEMMA Dropped ==
  ASSUME IdInv, bits \subseteq {0}, nr' = 0, words' = 0, bits' = {}, owned' = owned
  PROVE  IdsUnique' /\ BitsOwned' /\ words' = WordsFor(nr')
<1>1. \A d \in Caller : owned[d] = {}
  BY Zenon DEF IdInv, IdsUnique
<1>2. IdsUnique'
  BY <1>1, Zenon DEF IdsUnique
<1>3. BitsOwned'
  BY Zenon DEF BitsOwned
<1> QED BY <1>2, <1>3, WordsForNone, Zenon

\* idbmap_free empties the map if no id is in use.
LEMMA FreeMapStep ==
  ASSUME IdInv, UsedSafely, NEW c \in Caller, FreeMap(c), use' = use
  PROVE  IdInv'
<1>1. ipc[c] = "free" /\ Go(c, "drop") /\ UNCHANGED <<refVars, callVars, owned, idHalted>>
  BY Zenon DEF FreeMap, At
<1>2. CASE ~(bits \subseteq {0})
  BY <1>1, <1>2, FailStep, Zenon DEF FreeMap
<1>3. CASE bits \subseteq {0}
  <2>1. nr' = 0 /\ words' = 0 /\ bits' = {}
    BY <1>3, Zenon DEF FreeMap
  <2>2. ~Fixed(use) /\ c \in use.callers
    BY <1>1, Zenon DEF IdInv, CallOK
  <2>3. CountOK'
    BY <1>1, CountMove, Zenon
  <2>4. IdTypeOK'
    BY <1>1, <2>1, LocalTypes, UseFacts DEF Go, refVars, callVars, IdTypeOK, Pc
  <2>5. IdsUnique' /\ BitsOwned' /\ SizeOK'
    <3>1. IdsUnique' /\ BitsOwned' /\ words' = WordsFor(nr')
      BY <1>1, <1>3, <2>1, Dropped, Zenon
    <3> QED BY <2>2, <3>1, Zenon DEF SizeOK, WordsFor, Fixed
  <2>6. ASSUME NEW d \in Caller PROVE CallOK(d)'
    <3>1. CASE d = c
      <4>1. ipc'[c] = "drop"
        BY <1>1, LocalTypes, Zenon DEF Go
      <4> QED BY <2>2, <3>1, <4>1, Zenon DEF CallOK
    <3>2. CASE d # c
      <4>1. ipc'[d] = "idle"
        BY <1>1, <2>2, <3>2, OthersIdle, LocalTypes, Zenon DEF Go
      <4> QED BY <4>1, IdleOK, Zenon
    <3> QED BY <3>1, <3>2, Zenon
  <2> QED BY <1>1, <2>3, <2>4, <2>5, <2>6, Zenon DEF IdInv
<1> QED BY <1>2, <1>3, Zenon

\* resize_bitmap keeps every id in use, or fails.
LEMMA ResizeBitmapStep ==
  ASSUME IdInv, UsedSafely, NEW c \in Caller, ResizeBitmap(c), use' = use
  PROVE  IdInv'
<1> DEFINE n == size[c]
           w == WordsFor(n)
           ok == n > ReservedIds /\ n <= use.max /\ \A i \in bits : i < w * IdsPerEnt
           l == IF op[c] = "get" THEN "find" ELSE IF op[c] = "specified" THEN "take" ELSE "drop"
<1>1. ipc[c] = "resize" /\ UNCHANGED <<refVars, callVars, owned, idHalted>>
  BY Zenon DEF ResizeBitmap, At
<1>2. CASE ~ok
  <2>1. UNCHANGED mapVars /\ Go(c, "drop")
    BY <1>2, Zenon DEF ResizeBitmap
  <2> QED BY <1>1, <2>1, FailStep, Zenon
<1>3. CASE ok
  <2>1. nr' = n /\ words' = w /\ bits' = Copied(w) \cup {0} /\ Go(c, l)
    BY <1>3, Zenon DEF ResizeBitmap
  <2>2. n \in Nat /\ use.max \in Nat /\ ReservedIds \in Nat \ {0} /\ IdsPerEnt \in Nat \ {0}
    BY LocalTypes, UseFacts, Zenon
  <2>3. w # words /\ ~Fixed(use) /\ c \in use.callers
    <3>1. CallOK(c) /\ ipc[c] # "idle"
      BY <1>1, Zenon DEF IdInv
    <3>2. w # words /\ c \in use.callers /\ (Fixed(use) => use.max < n)
      BY <1>1, <3>1, Zenon DEF CallOK
    <3>3. ~ (use.max < n)
      <4> HIDE DEF n
      <4> QED BY <1>3, <2>2
    <3> QED BY <3>2, <3>3, Zenon
  <2>4. bits' = bits \cup {0}
    BY <1>3, <2>1, <2>3, Zenon DEF Copied
  <2>5. w \in Nat /\ n <= w * IdsPerEnt /\ w # 0 /\ w * IdsPerEnt \in Nat
    <3>1. n # 0
      BY <1>3, <2>2
    <3> QED BY <2>2, <3>1, WordsForFacts
  <2>6. l \in {"find", "take", "drop"} /\ (l = "take" => op[c] = "specified")
    BY Zenon
  <2>7. bits' \subseteq 0..(words' * IdsPerEnt - 1)
    <3>1. \A i \in bits : i \in Nat /\ i < w * IdsPerEnt
      BY <1>3, LocalTypes
    <3>2. 0 < w * IdsPerEnt
      BY <1>3, <2>2, <2>5
    <3> HIDE DEF w
    <3> QED BY <2>1, <2>4, <2>5, <3>1, <3>2
  <2>8. nr' \in 0 .. use.max /\ words' \in Nat
    BY <1>3, <2>1, <2>2, <2>5
  <2>9. InMap(id[c])' \/ l # "take"
    <3>1. ASSUME l = "take" PROVE id[c] < w * IdsPerEnt
      <4>1. op[c] = "specified"
        BY <2>6, <3>1, Zenon
      <4>2. MapSize <= n
        BY <1>1, <4>1, Zenon DEF IdInv, CallOK
      <4>3. id[c] \in Nat /\ id[c] < MapSize /\ MapSize \in Nat
        BY LocalTypes, UseFacts
      <4> HIDE DEF w, n
      <4> QED BY <2>2, <2>5, <4>2, <4>3
    <3> QED BY <1>1, <2>1, <3>1, Zenon DEF InMap, callVars
  <2> HIDE DEF n, w, ok, l
  <2>10. CountOK'
    BY <1>1, <2>1, <2>6, CountMove, Zenon
  <2>11. IdTypeOK'
    BY <1>1, <2>1, <2>6, <2>7, <2>8, LocalTypes, Zenon DEF Go, refVars, callVars, IdTypeOK, Pc
  <2>12. IdsUnique' /\ BitsOwned'
    <3>1. \A d \in Caller : owned'[d] \subseteq bits' \ {0}
      BY <1>1, <2>4, Zenon DEF IdInv, IdsUnique
    <3>2. IdsUnique'
      BY <1>1, <3>1, Zenon DEF IdInv, IdsUnique
    <3> QED BY <1>1, <2>4, <3>2, Zenon DEF IdInv, BitsOwned
  <2>13. SizeOK'
    BY <2>1, <2>3, Zenon DEF SizeOK, w, WordsFor, Fixed
  <2>14. ASSUME NEW d \in Caller PROVE CallOK(d)'
    <3>1. CASE d = c
      <4>1. ipc'[c] = l /\ id'[c] = id[c]
        BY <1>1, <2>1, LocalTypes, Zenon DEF Go, callVars
      <4> QED BY <2>3, <2>6, <2>9, <3>1, <4>1, Zenon DEF CallOK
    <3>2. CASE d # c
      <4>1. ipc'[d] = "idle"
        BY <1>1, <2>1, <2>3, <3>2, OthersIdle, LocalTypes, Zenon DEF Go
      <4> QED BY <4>1, IdleOK, Zenon
    <3> QED BY <3>1, <3>2, Zenon
  <2> QED BY <1>1, <2>10, <2>11, <2>12, <2>13, <2>14, Zenon DEF IdInv
<1> QED BY <1>2, <1>3, Zenon

\* idbmap_put_id clears the bit of an id in use and drops its reference.
LEMMA PutIdStep ==
  ASSUME IdInv, UsedSafely, NEW c \in Caller, NEW i \in owned[c], PutId(c, i), use' = use
  PROVE  IdInv'
<1>1. /\ c \in use.callers /\ ipc[c] = "idle" /\ Go(c, "drop")
      /\ bits' = bits \ {i} /\ owned' = [owned EXCEPT ![c] = @ \ {i}]
      /\ op' = [op EXCEPT ![c] = "put"]
      /\ UNCHANGED <<nr, words, refVars, system, id, size>>
  BY DEF PutId, At
<1>2. i \in bits /\ i # 0 /\ i \in Nat
  BY LocalTypes, Zenon DEF IdInv, IdsUnique
<1>3. ~idHalted' /\ idHalted' \in BOOLEAN
  <2>1. InMap(i)
    BY <1>2, LocalTypes, UseFacts DEF InMap
  <2>2. Reads(i) = {i \in bits}
    BY <2>1, Zenon DEF Reads
  <2>3. idHalted' = ~(i \in bits)
    BY <2>2, Zenon DEF PutId
  <2> QED BY <1>2, <2>3, Zenon
<1>4. CountOK'
  BY <1>1, CountPut, Zenon
<1>5. IdTypeOK'
  BY <1>1, <1>3, LocalTypes, Zenon DEF Go, refVars, IdTypeOK, Pc, Op
<1>6. \A d \in Caller : owned'[d] = IF d = c THEN owned[d] \ {i} ELSE owned[d]
  BY <1>1, LocalTypes, Zenon
<1>7. IdsUnique'
  <2>1. \A d \in Caller : d # c => i \notin owned[d]
    BY Zenon DEF IdInv, IdsUnique
  <2>2. \A d \in Caller : owned'[d] \subseteq bits' \ {0}
    BY <1>1, <1>6, <2>1 DEF IdInv, IdsUnique
  <2>3. \A d, e \in Caller : d # e => owned'[d] \cap owned'[e] = {}
    BY <1>6, Zenon DEF IdInv, IdsUnique
  <2> QED BY <2>2, <2>3, Zenon DEF IdsUnique
<1>8. BitsOwned'
  <2>1. ASSUME NEW k \in bits', k # 0 PROVE \E d \in Caller : k \in owned'[d]
    <3>1. k \in bits /\ k # i
      BY <1>1, Zenon
    <3>2. PICK d \in Caller : k \in owned[d]
      BY <2>1, <3>1, Zenon DEF IdInv, BitsOwned
    <3> QED BY <1>6, <3>1, <3>2, Zenon
  <2>2. words' # 0 => 0 \in bits'
    BY <1>1, <1>2, Zenon DEF IdInv, BitsOwned
  <2> QED BY <2>1, <2>2, Zenon DEF BitsOwned
<1>9. SizeOK'
  BY <1>1, Zenon DEF IdInv, SizeOK, WordsFor, Fixed, refVars
<1>10. ASSUME NEW d \in Caller PROVE CallOK(d)'
  <2>1. CASE d = c
    <3>1. ipc'[c] = "drop"
      BY <1>1, LocalTypes, Zenon DEF Go
    <3> QED BY <1>1, <2>1, <3>1, Zenon DEF CallOK
  <2>2. CASE d # c
    <3>1. Waits(d)
      BY <1>1, <2>2, LocalTypes, Zenon DEF Go, Waits
    <3> QED BY <1>1, <3>1, WaitsOK, Zenon DEF IdInv
  <2> QED BY <2>1, <2>2, Zenon
<1> QED BY <1>3, <1>4, <1>5, <1>7, <1>8, <1>9, <1>10, Zenon DEF IdInv

\* idbmap_destroy drops the initial reference.
LEMMA DestroyStep ==
  ASSUME IdInv, UsedSafely, NEW c \in Caller, Destroy(c), use' = use
  PROVE  IdInv'
<1>1. /\ c \in use.callers /\ ipc[c] = "idle" /\ Go(c, "drop") /\ ~deleted /\ deleted' = TRUE
      /\ op' = [op EXCEPT ![c] = "destroy"]
      /\ UNCHANGED <<mapVars, refs, freed, system, id, size, owned, idHalted>>
  BY Zenon DEF Destroy, At
<1>2. CountOK'
  <2>1. Cardinality(Inside(ipc')) = Cardinality(Inside(ipc)) + 1
    BY <1>1, CountTypes, InsideEnter, Zenon DEF Go
  <2>2. /\ IsFiniteSet(Pairs(owned))
        /\ refs = (IF deleted THEN 0 ELSE 1) + Cardinality(Pairs(owned)) + Cardinality(Inside(ipc))
        /\ freed <=> (refs = 0)
    BY CountDef, Zenon DEF IdInv
  <2>3. refs' = (IF deleted' THEN 0 ELSE 1) + Cardinality(Pairs(owned')) + Cardinality(Inside(ipc'))
    BY <1>1, <2>1, <2>2, CountTypes
  <2> QED BY <1>1, <2>2, <2>3, CountNext, Zenon
<1>3. IdTypeOK'
  BY <1>1, LocalTypes, Zenon DEF Go, mapVars, IdTypeOK, Pc, Op
<1>4. CallOK(c)'
  <2>1. ipc'[c] = "drop"
    BY <1>1, LocalTypes, Zenon DEF Go
  <2> QED BY <1>1, <2>1, Zenon DEF CallOK
<1>5. \A d \in Caller \ {c} : Waits(d)
  BY <1>1, LocalTypes, Zenon DEF Go, Waits
<1> QED BY <1>1, <1>2, <1>3, <1>4, <1>5, QuietStep, Zenon

\* put_idbmap_ref at the end of a call frees the map with the last reference.
LEMMA DropRefStep ==
  ASSUME IdInv, UsedSafely, NEW c \in Caller, DropRef(c), use' = use
  PROVE  IdInv'
<1>1. /\ ipc[c] = "drop" /\ refs' = refs - 1 /\ Return(c) /\ UNCHANGED <<deleted, owned>>
      /\ idHalted' = (LastReference /\ ~(bits \subseteq {0}))
      /\ IF LastReference /\ bits \subseteq {0}
         THEN nr' = 0 /\ words' = 0 /\ bits' = {} /\ freed' = TRUE
         ELSE UNCHANGED <<mapVars, freed>>
  BY Zenon DEF DropRef, At
<1>2. /\ ~freed /\ refs \in Nat \ {0}
      /\ refs = 1 => deleted /\ Pairs(owned) = {} /\ \A d \in Caller : ipc[d] # "idle" => d = c
  BY <1>1, BusyFacts, Zenon
<1>3. refs = 1 => bits \subseteq {0}
  <2>1. ASSUME refs = 1, NEW i \in bits, i # 0 PROVE FALSE
    <3>1. PICK d \in Caller : i \in owned[d]
      BY <2>1, Zenon DEF IdInv, BitsOwned
    <3>2. <<d, i>> \in Pairs(owned)
      BY <3>1, PairsMember, Zenon
    <3> QED BY <1>2, <2>1, <3>2, Zenon
  <2> QED BY <2>1, Zenon
<1>4. LastReference <=> refs = 1
  BY <1>2 DEF LastReference
<1>5. ~idHalted'
  BY <1>1, <1>3, <1>4, Zenon
<1>6. CountOK'
  <2>1. Cardinality(Inside(ipc')) = Cardinality(Inside(ipc)) - 1
    BY <1>1, CountTypes, InsideLeave, Zenon DEF Return, Go
  <2>2. /\ IsFiniteSet(Pairs(owned))
        /\ refs = (IF deleted THEN 0 ELSE 1) + Cardinality(Pairs(owned)) + Cardinality(Inside(ipc))
    BY CountDef, Zenon DEF IdInv
  <2>3. refs' = (IF deleted' THEN 0 ELSE 1) + Cardinality(Pairs(owned')) + Cardinality(Inside(ipc'))
    BY <1>1, <2>1, <2>2, CountTypes
  <2>4. freed' <=> (refs' = 0)
    BY <1>1, <1>2, <1>3, <1>4
  <2> QED BY <1>1, <2>2, <2>3, <2>4, CountNext, Zenon
<1>7. \A d \in Caller : IF d = c THEN ipc'[d] = "idle" ELSE Waits(d)
  BY <1>1, LocalTypes, Zenon DEF Return, Go, Waits
<1>8. CASE refs = 1
  <2>1. bits \subseteq {0} /\ nr' = 0 /\ words' = 0 /\ bits' = {} /\ freed' = TRUE
    BY <1>1, <1>3, <1>4, <1>8, Zenon
  <2>2. IdTypeOK'
    BY <1>1, <1>5, <1>8, <2>1, LocalTypes, UseFacts DEF Return, Go, IdTypeOK, Pc, Op
  <2>3. IdsUnique' /\ BitsOwned' /\ SizeOK'
    BY <1>1, <2>1, Dropped, Zenon DEF SizeOK, WordsFor
  <2>4. ASSUME NEW d \in Caller PROVE CallOK(d)'
    <3>1. ipc'[d] = "idle"
      BY <1>2, <1>7, <1>8, Zenon DEF Waits
    <3> QED BY <3>1, IdleOK, Zenon
  <2> QED BY <1>5, <1>6, <2>2, <2>3, <2>4, Zenon DEF IdInv
<1>9. CASE refs # 1
  <2>1. UNCHANGED <<mapVars, freed>> /\ refs' \in Nat
    BY <1>1, <1>2, <1>4, <1>9
  <2>2. IdTypeOK'
    BY <1>1, <1>5, <2>1, LocalTypes, Zenon DEF Return, Go, mapVars, IdTypeOK, Pc, Op
  <2>3. CallOK(c)'
    BY <1>7, IdleOK, Zenon
  <2>4. idHalted' = idHalted
    BY <1>1, <1>4, <1>9, LocalTypes, Zenon
  <2> QED BY <1>1, <1>6, <1>7, <2>1, <2>2, <2>3, <2>4, QuietStep, Zenon
<1> QED BY <1>8, <1>9, Zenon

\* The invariant holds at the start, is kept by every step of every caller, and by stuttering.
LEMMA IdInitInv ==
  ASSUME IdInit, UsedSafely
  PROVE  IdInv
<1>1. /\ use \in Uses /\ nr = use.start /\ words = WordsFor(use.start)
      /\ bits = (IF use.start = 0 THEN {} ELSE {0}) /\ refs = 1 /\ deleted = FALSE /\ freed = FALSE
      /\ ipc = [c \in Caller |-> "idle"] /\ owned = [c \in Caller |-> {}] /\ idHalted = FALSE
  BY Zenon DEF IdInit
<1>2. use.start \in Nat /\ use.max \in Nat /\ use.start <= use.max /\ IdsPerEnt \in Nat \ {0}
  BY <1>1, IdBitmapAssumption, Zenon
<1>3. words \in Nat /\ (use.start # 0 => words # 0)
  BY <1>1, <1>2, WordsForFacts, Zenon
<1>4. bits \subseteq 0..(words * IdsPerEnt - 1)
  <2>1. words # 0 => 0 < words * IdsPerEnt /\ words * IdsPerEnt \in Nat
    BY <1>2, <1>3
  <2> QED BY <1>1, <1>3, <2>1
<1>5. IdTypeOK
  <2>1. nr \in 0 .. use.max
    BY <1>1, <1>2
  <2>2. ipc \in [Caller -> Pc] /\ op \in [Caller -> Op]
    BY Zenon DEF IdInit, Pc, Op
  <2>3. id \in [Caller -> Specified \cup {0}] /\ size \in [Caller -> Nat]
    BY Zenon DEF IdInit
  <2>4. system \in [Caller -> BOOLEAN] /\ owned \in [Caller -> SUBSET Nat]
    BY Zenon DEF IdInit
  <2> QED BY <1>1, <1>3, <1>4, <2>1, <2>2, <2>3, <2>4, Zenon DEF IdTypeOK
<1>6. \A c \in Caller : owned[c] = {} /\ ipc[c] = "idle"
  BY <1>1, Zenon
<1>7. IdsUnique /\ BitsOwned
  <2>1. IdsUnique
    BY <1>6, Zenon DEF IdsUnique
  <2>2. use.start = 0 => words = 0
    BY <1>1, WordsForNone, Zenon
  <2> QED BY <1>1, <2>1, <2>2, Zenon DEF BitsOwned
<1>8. SizeOK
  BY <1>1, Zenon DEF SizeOK, Fixed
<1>9. CountOK
  <2>1. Pairs(owned) = {}
    BY <1>6, PairsMember, Zenon
  <2>2. Inside(ipc) = {}
    BY <1>6, Zenon DEF Inside
  <2> QED BY <1>1, <2>1, <2>2, FS_EmptySet, CountDef
<1>10. \A c \in Caller : CallOK(c)
  BY <1>6, Zenon DEF CallOK
<1> QED BY <1>1, <1>5, <1>7, <1>8, <1>9, <1>10, Zenon DEF IdInv

LEMMA IdNextInv ==
  ASSUME IdInv, UsedSafely, IdNext, use' = use
  PROVE  IdInv'
<1>1. PICK c \in Caller :
        \/ \E sys \in BOOLEAN : GetId(c, sys)
        \/ \E sys \in BOOLEAN, i \in Specified : GetSpecifiedId(c, i, sys)
        \/ \E n \in 0..use.max : Resize(c, n)
        \/ Free(c) \/ Destroy(c)
        \/ \E i \in owned[c] : PutId(c, i)
        \/ FindRange(c) \/ Scan(c) \/ TakeSpecified(c) \/ Grow(c)
        \/ ResizeBitmap(c) \/ FreeMap(c) \/ DropRef(c)
  BY Zenon DEF IdNext
<1>2. CASE \E sys \in BOOLEAN : GetId(c, sys)
  BY <1>2, GetIdStep, Zenon
<1>3. CASE \E sys \in BOOLEAN, i \in Specified : GetSpecifiedId(c, i, sys)
  BY <1>3, GetSpecifiedIdStep, Zenon
<1>4. CASE \E n \in 0..use.max : Resize(c, n)
  BY <1>4, ResizeStep, Zenon
<1>5. CASE \E i \in owned[c] : PutId(c, i)
  BY <1>5, PutIdStep, Zenon
<1>6. CASE Free(c) \/ Destroy(c) \/ FindRange(c) \/ Scan(c) \/ TakeSpecified(c)
  BY <1>6, FreeStep, DestroyStep, FindRangeStep, ScanStep, TakeSpecifiedStep, Zenon
<1>7. CASE Grow(c) \/ ResizeBitmap(c) \/ FreeMap(c) \/ DropRef(c)
  BY <1>7, GrowStep, ResizeBitmapStep, FreeMapStep, DropRefStep, Zenon
<1> QED BY <1>1, <1>2, <1>3, <1>4, <1>5, <1>6, <1>7, Zenon

LEMMA IdStutterInv ==
  ASSUME IdInv, UNCHANGED <<idVars, use>>
  PROVE  IdInv'
<1>1. IdTypeOK' /\ IdsUnique' /\ BitsOwned' /\ SizeOK'
  BY DEF IdInv, idVars, IdTypeOK, IdsUnique, BitsOwned, SizeOK, WordsFor, Fixed
<1>2. CountOK'
  BY DEF IdInv, idVars, CountOK, RefsCounted, FreedWithLast, Pairs, Handed, Busy
<1>3. \A c \in Caller : CallOK(c)'
  BY DEF IdInv, idVars, CallOK, InMap, WordsFor, Fixed
<1> QED
  BY <1>1, <1>2, <1>3 DEF IdInv, idVars

\* However many callers take and return identifiers of whatever bitmap, the
\* sections of find_free_id, resize_bitmap, idbmap_put_id and put_idbmap_ref
\* never hand an id to two callers or lose its bit, every id and every call
\* has exactly one reference, and the bitmap is freed with the last one; as
\* long as it is used as UsedSafely says.
THEOREM IdsAlwaysAccounted == UsedSafely => (IdSpec => []IdsAccounted)
<1> SUFFICES ASSUME UsedSafely PROVE IdSpec => []IdsAccounted
  OBVIOUS
<1>1. IdInit => IdInv
  BY IdInitInv, Zenon
<1>2. IdInv /\ [IdNext /\ UNCHANGED use]_<<idVars, use>> => IdInv'
  BY IdNextInv, IdStutterInv, Zenon
<1>3. IdInv => IdsAccounted
  BY Zenon DEF IdInv, CountOK, IdsAccounted
<1> QED BY <1>1, <1>2, <1>3, PTL DEF IdSpec

-----------------------------------------------------------------------------
(* The geometry of slabs *)

\* The next colour of a cache, after any number of calls of update_color_offset
Colours(osize, align) == {n \in Nat : n = 0 \/ n < ColorNum(osize, align)}

\* Padding and length of an object with its header
LEMMA AlignOffsetNat ==
  ASSUME NEW osize \in Nat, NEW align \in Nat \ {0}
  PROVE  AlignOffset(osize, align) \in Nat
BY DEF AlignOffset

LEMMA DataSizePositive ==
  ASSUME NEW osize \in Nat \ {0}, NEW align \in Nat \ {0}
  PROVE  DataSize(osize, align) \in Nat \ {0}
BY AlignOffsetNat, SlabParamAssumption DEF DataSize

\* The bit that calc_page_order finds is an order.
LEMMA PageOrderNat ==
  ASSUME NEW osize
  PROVE  CalcPageOrder(osize) \in 0 .. Orders - 1
<1> DEFINE bitset == {o \in 0 .. Orders - 1 : (PagesFor(osize) \div 2^o) % 2 = 1}
<1>1. Orders \in Nat \ {0}
  BY SlabParamAssumption, Zenon
<1>2. bitset \subseteq 0 .. Orders - 1
  BY Zenon
<1>3. CalcPageOrder(osize) = IF bitset = {} THEN 0 ELSE CHOOSE o \in bitset : \A k \in bitset : k <= o
  BY Zenon DEF CalcPageOrder
<1> HIDE DEF bitset
<1>4. ASSUME bitset # {} PROVE \E o \in bitset : \A k \in bitset : k <= o
  <2> DEFINE below == {Orders - 1 - o : o \in bitset}
  <2>1. below \in SUBSET Nat /\ below # {}
    <3>1. ASSUME NEW o \in bitset PROVE Orders - 1 - o \in Nat
      BY <1>1, <1>2
    <3>2. below \in SUBSET Nat
      BY <3>1
    <3>3. below # {}
      BY <1>4, Zenon
    <3> QED BY <3>2, <3>3, Zenon
  <2>2. PICK m \in below : \A k \in below : m <= k
    <3> HIDE DEF below
    <3> QED BY <2>1, Least, Zenon
  <2>3. PICK o \in bitset : m = Orders - 1 - o
    BY Zenon
  <2>4. ASSUME NEW k \in bitset PROVE k <= o
    <3>1. m <= Orders - 1 - k
      BY <2>2, Zenon
    <3> QED BY <1>1, <1>2, <2>3, <3>1
  <2> QED BY <2>4, Zenon
<1>5. CASE bitset = {}
  BY <1>1, <1>3, <1>5
<1>6. CASE bitset # {}
  BY <1>2, <1>3, <1>4, <1>6, Zenon
<1> QED BY <1>5, <1>6, Zenon

\* calc_off_slab_size has an order to choose.
LEMMA SlabSizeInt ==
  ASSUME NEW osize \in Nat \ {0}, NEW align \in Nat \ {0}
  PROVE  SlabSize(osize, align) \in Int
<1> DEFINE min == CalcPageOrder(SlabHdr + DataSize(osize, align))
           range == min .. Orders - 1
           R(o) == Remains(o, osize, align)
           Best(o) == (\A k \in range : R(o) <= R(k)) /\ (\A k \in min .. o - 1 : R(o) < R(k))
<1>1. Orders \in Nat \ {0} /\ FrameSize \in Nat /\ SlabHdr \in Nat
  BY SlabParamAssumption, Zenon
<1>2. min \in 0 .. Orders - 1
  BY PageOrderNat, Zenon
<1> HIDE DEF min
<1>3. \A o \in range : o \in Nat /\ R(o) \in Nat
  <2> SUFFICES ASSUME NEW o \in range PROVE o \in Nat /\ R(o) \in Nat
    BY Zenon
  <2>1. o \in Nat
    BY <1>1, <1>2
  <2>2. 2^o \in Int
    BY <2>1
  <2>3. FrameSize * 2^o - SlabHdr \in Int
    BY <1>1, <2>2
  <2>4. R(o) \in Nat
    BY <2>3, DataSizePositive DEF Remains
  <2> QED BY <2>1, <2>4, Zenon
<1>4. min \in range
  BY <1>1, <1>2
<1> HIDE DEF R
<1>5. \E o \in range : Best(o)
  <2> DEFINE rs == {R(o) : o \in range}
  <2>1. rs \in SUBSET Nat /\ rs # {}
    BY <1>3, <1>4, Zenon
  <2>2. PICK r \in rs : \A k \in rs : r <= k
    <3> HIDE DEF rs
    <3> QED BY <2>1, Least, Zenon
  <2> DEFINE os == {o \in range : R(o) = r}
  <2>3. os \in SUBSET Nat /\ os # {}
    BY <1>3, Zenon
  <2>4. PICK o \in os : \A k \in os : o <= k
    <3> HIDE DEF os
    <3> QED BY <2>3, Least, Zenon
  <2>5. \A k \in range : R(o) <= R(k)
    BY <2>2, Zenon
  <2>6. ASSUME NEW k \in min .. o - 1 PROVE R(o) < R(k)
    <3>1. k \in range /\ k < o /\ k \in Nat /\ o \in Nat
      BY <1>1, <1>2, <1>3
    <3>2. k \notin os
      BY <2>4, <3>1
    <3>3. R(k) # r /\ r = R(o) /\ R(o) <= R(k) /\ R(o) \in Nat /\ R(k) \in Nat
      BY <1>3, <2>5, <3>1, <3>2, Zenon
    <3> QED BY <3>3
  <2> QED BY <2>5, <2>6, Zenon
<1>6. (CHOOSE o \in range : Best(o)) \in range
  <2> HIDE DEF range, Best
  <2> QED BY <1>5, Zenon
<1>7. CalcOffSlabSize(osize, align) = FrameSize * 2^(CHOOSE o \in range : Best(o))
  BY DEF CalcOffSlabSize, R, min
<1> HIDE DEF Best
<1>8. PICK o \in range : CalcOffSlabSize(osize, align) = FrameSize * 2^o
  BY <1>6, <1>7, Zenon
<1>9. 2^o \in Int
  BY <1>3
<1> QED BY <1>1, <1>8, <1>9 DEF SlabSize

\* Header, objects and the area for colours make up the slab.
LEMMA ObjsPerSlabFacts ==
  ASSUME NEW osize \in Nat \ {0}, NEW align \in Nat \ {0}
  PROVE  /\ ObjsPerSlab(osize, align) \in Int
         /\ ColorArea(osize, align) \in Nat
         /\ SlabHdr + ObjsPerSlab(osize, align) * DataSize(osize, align) + ColorArea(osize, align)
              = SlabSize(osize, align)
<1> DEFINE S == SlabSize(osize, align)  D == DataSize(osize, align)  P == ObjsPerSlab(osize, align)
<1>1. S \in Int /\ D \in Nat \ {0} /\ SlabHdr \in Nat
  BY SlabSizeInt, DataSizePositive, SlabParamAssumption, Zenon
<1>2. P = (S - SlabHdr) \div D /\ ColorArea(osize, align) = S - SlabHdr - P * D
  BY Zenon DEF ObjsPerSlab, ColorArea
<1> HIDE DEF S, D, P
<1>3. P \in Int /\ P * D \in Int /\ P * D <= S - SlabHdr
  BY <1>1, <1>2
<1>4. ColorArea(osize, align) \in Nat /\ SlabHdr + P * D + ColorArea(osize, align) = S
  BY <1>1, <1>2, <1>3
<1> QED BY <1>3, <1>4, Zenon DEF S, D, P

\* The colours that setup_color_param counts fit into the bytes left over.
LEMMA ColourFits ==
  ASSUME NEW osize \in Nat \ {0}, NEW align \in Nat \ {0}, NEW next \in Colours(osize, align)
  PROVE  ColorOffset(next) \in Nat /\ ColorOffset(next) <= ColorArea(osize, align)
<1> DEFINE A == ColorArea(osize, align)
<1>1. A \in Nat /\ CacheLine \in Nat \ {0} /\ next \in Nat
  BY ObjsPerSlabFacts, SlabParamAssumption, Zenon DEF Colours
<1>2. ColorNum(osize, align) = IF A < CacheLine THEN 0 ELSE A \div CacheLine + 1
  BY DEF ColorNum
<1>3. next = 0 \/ next < ColorNum(osize, align)
  BY Zenon DEF Colours
<1> HIDE DEF A
<1>4. next <= A \div CacheLine /\ A \div CacheLine \in Nat
  BY <1>1, <1>2, <1>3
<1>5. next * CacheLine <= (A \div CacheLine) * CacheLine
  BY <1>1, <1>4
<1>6. (A \div CacheLine) * CacheLine <= A
  BY <1>1
<1>7. next * CacheLine \in Nat /\ (A \div CacheLine) * CacheLine \in Nat
  BY <1>1, <1>4
<1> QED BY <1>1, <1>5, <1>6, <1>7 DEF ColorOffset, A

\* For objects of any size and alignment and at every colour that a cache comes
\* to (update_color_offset), the objects of a slab with the parameters that
\* calc_slab_param and setup_color_param compute lie behind one another, with
\* their headers, and inside of the slab.
THEOREM ObjectsAlwaysFit ==
  ASSUME NEW osize \in Nat \ {0}, NEW align \in Nat \ {0}, NEW next \in Colours(osize, align)
  PROVE  /\ ObjectsFit(osize, align, next, ObjsPerSlab(osize, align), SlabSize(osize, align))
         /\ NextColor(next, ColorNum(osize, align)) \in Colours(osize, align)
<1> DEFINE S == SlabSize(osize, align)  D == DataSize(osize, align)  P == ObjsPerSlab(osize, align)
           O == AlignOffset(osize, align)  A == ColorArea(osize, align)  C == ColorOffset(next)
           Start(i) == ObjectOffset(osize, align, C, i)
<1>1. /\ S \in Int /\ D \in Nat \ {0} /\ P \in Int /\ O \in Nat /\ A \in Nat /\ C \in Nat
      /\ SlabHdr \in Nat /\ ObjHdr \in Nat /\ C <= A /\ SlabHdr + P * D + A = S
  BY SlabSizeInt, DataSizePositive, AlignOffsetNat, ObjsPerSlabFacts, ColourFits, SlabParamAssumption, Zenon
<1>2. D = ObjHdr + O + osize
  BY Zenon DEF DataSize
<1>3. \A i : Start(i) = C + SlabHdr + i * D + ObjHdr + O
  BY Zenon DEF ObjectOffset
<1> HIDE DEF S, D, P, O, A, C, Start
<1>4. ASSUME NEW i \in 1 .. P
      PROVE  Start(i - 1) + osize <= IF i = P THEN S ELSE Start(i) - ObjHdr
  <2>1. i \in Int /\ i * D \in Int /\ P * D \in Int /\ (i - 1) * D = i * D - D
    BY <1>1
  <2>2. Start(i - 1) + osize = C + SlabHdr + i * D
    BY <1>1, <1>2, <1>3, <2>1
  <2>3. Start(i) - ObjHdr = C + SlabHdr + i * D + O
    BY <1>1, <1>3, <2>1
  <2>4. CASE i = P
    BY <1>1, <2>1, <2>2, <2>4
  <2>5. CASE i # P
    BY <1>1, <2>1, <2>2, <2>3, <2>5
  <2> QED BY <2>4, <2>5, Zenon
<1>5. ObjectsFit(osize, align, next, P, S)
  BY <1>4, Zenon DEF ObjectsFit, Start, C
<1>6. NextColor(next, ColorNum(osize, align)) \in Colours(osize, align)
  <2>1. ColorNum(osize, align) \in Nat
    BY <1>1, SlabParamAssumption DEF ColorNum, A
  <2> QED BY <2>1 DEF NextColor, Colours
<1> QED BY <1>5, <1>6, Zenon DEF P, S
=============================================================================
