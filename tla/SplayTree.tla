------------------------------ MODULE SplayTree ------------------------------
(***************************************************************************)
(* The splay trees of include/kern/splay.h, which hold the slab caches.    *)
(* Elements are 1 .. SpMax, each its own key, 0 is NULL and SpMax + 1 the  *)
(* node on the stack of SPLAY.  As in RbTree the side is a parameter.      *)
(***************************************************************************)
EXTENDS Integers, SequencesExt

CONSTANT SpMax   \* the number of elements

VARIABLES
  sp,       \* the tree: root and children
  spKeys,   \* what it should contain
  spOp      \* the last operation and its result

spVars == <<sp, spKeys, spOp>>

SpElem == 1 .. SpMax
SpNode == SpMax + 1
Mirror(d) == IF d = "L" THEN "R" ELSE "L"
NoKids == [L |-> 0, R |-> 0]

SpEmpty == [root |-> 0, kid |-> [e \in 1 .. SpNode |-> NoKids]]

\* SPLAY_ROTATE_RIGHT, SPLAY_ROTATE_LEFT: the child on side d becomes the root.
SpRotate(t, d) ==
  LET tmp == t.kid[t.root][d] IN
  [t EXCEPT !.kid[t.root][d] = t.kid[tmp][Mirror(d)], !.kid[tmp][Mirror(d)] = t.root, !.root = tmp]

\* SPLAY_LINKLEFT, SPLAY_LINKRIGHT: the root is hung below the end of the tree
\* of the greater (lesser) elements; ends are the ends of the two trees.
SpLink(t, ends, d) ==
  [tree |-> [t EXCEPT !.kid[ends[Mirror(d)]][d] = t.root, !.root = t.kid[t.root][d]],
   ends |-> [ends EXCEPT ![Mirror(d)] = t.root]]

\* Mutant: the subtrees of the root are lost.
SpAssembleDrops(t, ends) ==
  [t EXCEPT !.kid[t.root] = [L |-> t.kid[SpNode]["R"], R |-> t.kid[SpNode]["L"]], !.kid[SpNode] = NoKids]

\* SPLAY_ASSEMBLE
SpAssemble(t, ends) ==
  LET u == [t EXCEPT !.kid[ends["L"]]["R"] = t.kid[t.root]["L"]]
      v == [u EXCEPT !.kid[ends["R"]]["L"] = u.kid[u.root]["R"]]
  IN [v EXCEPT !.kid[v.root] = [L |-> v.kid[SpNode]["R"], R |-> v.kid[SpNode]["L"]], !.kid[SpNode] = NoKids]

\* The loop of name##_SPLAY and name##_SPLAY_MINMAX: way[e] is the side of e on
\* which the wanted element is, or "here".
RECURSIVE SpLoop(_, _, _)
SpLoop(t, ends, way) ==
  LET d == way[t.root] IN
  IF d = "here" THEN SpAssemble(t, ends)
  ELSE IF t.kid[t.root][d] = 0 THEN SpAssemble(t, ends)
  ELSE LET u == IF way[t.kid[t.root][d]] = d THEN SpRotate(t, d) ELSE t IN
       IF u.kid[u.root][d] = 0 THEN SpAssemble(u, ends)
       ELSE LET l == SpLink(u, ends, d) IN SpLoop(l.tree, l.ends, way)

Splay(t, k) ==
  LET way == [e \in SpElem |-> IF k < e THEN "L" ELSE IF k > e THEN "R" ELSE "here"] IN
  SpLoop(t, [L |-> SpNode, R |-> SpNode], way)

SplayMinMax(t, d) ==
  LET way == [e \in SpElem |-> d] IN SpLoop(t, [L |-> SpNode, R |-> SpNode], way)

\* name##_SPLAY_INSERT
SplayInsert(t, e) ==
  LET u == Splay(t, e)
      d == IF e < u.root THEN "L" ELSE "R"
  IN IF t.root = 0 THEN [tree |-> [t EXCEPT !.kid[e] = NoKids, !.root = e], res |-> 0]
     ELSE IF u.root = e THEN [tree |-> u, res |-> u.root]
     ELSE [tree |-> [u EXCEPT !.kid[e][d] = u.kid[u.root][d], !.kid[e][Mirror(d)] = u.root,
                              !.kid[u.root][d] = 0, !.root = e],
           res |-> 0]

\* name##_SPLAY_REMOVE; the links of an element that is not in a tree are not
\* looked at.
SplayRemove(t, k) ==
  LET u == Splay(t, k)
      left == u.kid[u.root]["L"]
      v == Splay([u EXCEPT !.root = left], k)
      w == IF left = 0 THEN [u EXCEPT !.root = u.kid[u.root]["R"]]
           ELSE [v EXCEPT !.kid[v.root]["R"] = u.kid[u.root]["R"]]
  IN IF t.root = 0 THEN [tree |-> t, res |-> 0]
     ELSE IF u.root # k THEN [tree |-> u, res |-> 0]
     ELSE [tree |-> [w EXCEPT !.kid[k] = NoKids], res |-> k]

\* name##_SPLAY_FIND
SplayFind(t, k) ==
  IF t.root = 0 THEN [tree |-> t, res |-> 0]
  ELSE LET u == Splay(t, k) IN [tree |-> u, res |-> IF u.root = k THEN k ELSE 0]

RECURSIVE SpFar(_, _, _)
SpFar(t, e, d) == IF t.kid[e][d] = 0 THEN e ELSE SpFar(t, t.kid[e][d], d)

\* name##_SPLAY_NEXT, of an element in the tree
SplayNext(t, e) ==
  LET u == Splay(t, e) IN
  [tree |-> u, res |-> IF u.kid[e]["R"] = 0 THEN 0 ELSE SpFar(u, u.kid[e]["R"], "L")]

\* SPLAY_MIN, SPLAY_MAX
SplayMin(t, d) ==
  IF t.root = 0 THEN [tree |-> t, res |-> 0]
  ELSE LET u == SplayMinMax(t, d) IN [tree |-> u, res |-> u.root]
-----------------------------------------------------------------------------
SpInit == sp = SpEmpty /\ spKeys = {} /\ spOp = [want |-> 0, res |-> 0]

Becomes(r, want) == sp' = r.tree /\ spOp' = [want |-> want, res |-> r.res]

\* The least ("L") or greatest ("R") element of S, or NULL
Extreme(S, d) ==
  IF S = {} THEN 0 ELSE CHOOSE x \in S : \A y \in S : IF d = "L" THEN x <= y ELSE y <= x

InTree(k) == IF k \in spKeys THEN k ELSE 0

SpInsert(e) == Becomes(SplayInsert(sp, e), InTree(e)) /\ spKeys' = spKeys \cup {e}
SpRemove(k) == Becomes(SplayRemove(sp, k), InTree(k)) /\ spKeys' = spKeys \ {k}
SpFind(k) == Becomes(SplayFind(sp, k), InTree(k)) /\ UNCHANGED spKeys
SpNext(e) ==
  /\ e \in spKeys
  /\ Becomes(SplayNext(sp, e), Extreme({x \in spKeys : x > e}, "L"))
  /\ UNCHANGED spKeys
SpMinMax(d) == Becomes(SplayMin(sp, d), Extreme(spKeys, d)) /\ UNCHANGED spKeys

SplayTreeNext ==
  \/ \E e \in SpElem : SpInsert(e) \/ SpRemove(e) \/ SpFind(e) \/ SpNext(e)
  \/ \E d \in {"L", "R"} : SpMinMax(d)

SpSpec == SpInit /\ [][SplayTreeNext]_spVars
-----------------------------------------------------------------------------
RECURSIVE InOrder(_, _, _)
InOrder(t, e, depth) ==
  IF e = 0 THEN << >>
  ELSE IF depth = 0 THEN <<0>>
  ELSE InOrder(t, t.kid[e]["L"], depth - 1) \o <<e>> \o InOrder(t, t.kid[e]["R"], depth - 1)

\* The tree contains, in order, what was inserted and not removed: every
\* operation, a search too, takes the tree apart and assembles it again, and
\* never loses or repeats an element.
SpKeepsElements == InOrder(sp, sp.root, SpMax) = SetToSortSeq(spKeys, <)

\* SPLAY_INSERT, SPLAY_REMOVE and SPLAY_FIND return the element that has the
\* key if there is one, SPLAY_NEXT the next greater element, SPLAY_MIN and
\* SPLAY_MAX the least and the greatest.
SpAnswersCorrect == spOp.res = spOp.want

\* The tree keeps its elements in order through every operation, and every
\* operation returns what it should (SPLAY, SPLAY_INSERT, SPLAY_REMOVE).
SpSound == SpKeepsElements /\ SpAnswersCorrect
=============================================================================
