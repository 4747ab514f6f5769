------------------------------- MODULE RbTree -------------------------------
(***************************************************************************)
(* The red-black trees of include/kern/rbtree.h, which hold the threads,   *)
(* the processes, the call-outs, the areas of an address space and the     *)
(* registered services.  The elements are 1 .. RbMax and an element is its *)
(* own key; 0 is NULL.  The macros come in pairs that are mirror images:   *)
(* here a side, "L" or "R", is a parameter.  A tree is a record: root, the *)
(* children, parent and colour of each element.                            *)
(***************************************************************************)
EXTENDS Integers, SequencesExt

CONSTANT RbMax   \* the number of elements

VARIABLES
  rb,       \* the tree
  rbKeys,   \* what it should contain: inserted and not removed
  rbOp      \* the last operation and its result

rbVars == <<rb, rbKeys, rbOp>>

Nil == 0
RbElem == 1 .. RbMax
Opp(d) == IF d = "L" THEN "R" ELSE "L"

RbEmpty == [root |-> Nil,
          kid |-> [e \in RbElem |-> [L |-> Nil, R |-> Nil]],
          par |-> [e \in RbElem |-> Nil],
          red |-> [e \in RbElem |-> FALSE]]

Red(t, e) == e # Nil /\ t.red[e]
Side(t, p, e) == IF t.kid[p]["L"] = e THEN "L" ELSE "R"
SetRed(t, e, r) == IF e = Nil THEN t ELSE [t EXCEPT !.red[e] = r]
SetPar(t, e, p) == IF e = Nil THEN t ELSE [t EXCEPT !.par[e] = p]

\* Below p, or at the root, new stands where old stood.
RbReplace(t, p, old, new) ==
  IF p = Nil THEN [t EXCEPT !.root = new] ELSE [t EXCEPT !.kid[p][Side(t, p, old)] = new]

\* RB_ROTATE_LEFT, RB_ROTATE_RIGHT: e goes down on side d.
RbRotate(t, e, d) ==
  LET o == Opp(d)
      tmp == t.kid[e][o]
      in == t.kid[tmp][d]
      u == RbReplace(SetPar([t EXCEPT !.kid[e][o] = in, !.par[tmp] = t.par[e]], in, e), t.par[e], e, tmp)
  IN [u EXCEPT !.kid[tmp][d] = e, !.par[e] = tmp]

\* Mutant: the colour of the element that goes down stays.
SetBlackOnly(t, black, red) == SetRed(t, black, FALSE)

\* RB_SET_BLACKRED
SetBlackRed(t, black, red) == SetRed(SetRed(t, black, FALSE), red, TRUE)

\* name##_RB_INSERT_COLOR
RECURSIVE InsertColor(_, _)
InsertColor(t, e) ==
  LET p == t.par[e] IN
  IF ~Red(t, p) THEN SetRed(t, t.root, FALSE)
  ELSE LET g == t.par[p]
           d == Side(t, g, p)
           uncle == t.kid[g][Opp(d)]
       IN IF Red(t, uncle)
          THEN InsertColor(SetBlackRed(SetRed(t, uncle, FALSE), p, g), g)
          ELSE LET inner == t.kid[p][Opp(d)] = e
                   u == IF inner THEN RbRotate(t, p, d) ELSE t
                   top == IF inner THEN e ELSE p
                   low == IF inner THEN p ELSE e
               IN InsertColor(RbRotate(SetBlackRed(u, top, g), g, Opp(d)), low)

\* The place of key k: the last element on the way down.
RECURSIVE RbDescend(_, _, _, _)
RbDescend(t, e, p, k) ==
  IF e = Nil THEN [at |-> Nil, par |-> p]
  ELSE IF k < e THEN RbDescend(t, t.kid[e]["L"], e, k)
  ELSE IF k > e THEN RbDescend(t, t.kid[e]["R"], e, k)
  ELSE [at |-> e, par |-> p]

\* name##_RB_INSERT; the result is the element that has the key already, or NULL.
RbTreeInsert(t, e) ==
  LET w == RbDescend(t, t.root, Nil, e)
      u == [t EXCEPT !.par[e] = w.par, !.kid[e] = [L |-> Nil, R |-> Nil], !.red[e] = TRUE]
      v == IF w.par = Nil THEN [u EXCEPT !.root = e]
           ELSE [u EXCEPT !.kid[w.par][IF e < w.par THEN "L" ELSE "R"] = e]
  IN IF w.at # Nil THEN [tree |-> t, res |-> w.at] ELSE [tree |-> InsertColor(v, e), res |-> Nil]

\* name##_RB_REMOVE_COLOR: below p on the side of e a black element is missing.
RECURSIVE RemoveColor(_, _, _)
RemoveColor(t, p, e) ==
  IF Red(t, e) \/ e = t.root THEN SetRed(t, e, FALSE)
  ELSE LET d == Side(t, p, e)
           o == Opp(d)
           u == IF Red(t, t.kid[p][o]) THEN RbRotate(SetBlackRed(t, t.kid[p][o], p), p, d) ELSE t
           s == u.kid[p][o]
       IN IF ~Red(u, u.kid[s]["L"]) /\ ~Red(u, u.kid[s]["R"])
          THEN RemoveColor(SetRed(u, s, TRUE), u.par[p], p)
          ELSE LET v == IF Red(u, u.kid[s][o]) THEN u
                        ELSE RbRotate(SetRed(SetRed(u, u.kid[s][d], FALSE), s, TRUE), s, o)
                   r == v.kid[p][o]
                   w == SetRed(SetRed(SetRed(v, r, v.red[p]), p, FALSE), v.kid[r][o], FALSE)
                   x == RbRotate(w, p, d)
               IN SetRed(x, x.root, FALSE)

RECURSIVE RbFar(_, _, _)
RbFar(t, e, d) == IF t.kid[e][d] = Nil THEN e ELSE RbFar(t, t.kid[e][d], d)

\* The parent of the gap that the successor leaves
GapParent(t, e, succ) == IF t.par[succ] = e THEN succ ELSE t.par[succ]

\* An element that is not in a tree: its links are not looked at.
Unlinked(t, e) ==
  [t EXCEPT !.kid[e] = [L |-> Nil, R |-> Nil], !.par[e] = Nil, !.red[e] = FALSE]

\* name##_RB_REMOVE.  An element with two children is replaced by its successor,
\* which takes over its links and its colour.
RbTreeRemove(t, e) ==
  LET two == t.kid[e]["L"] # Nil /\ t.kid[e]["R"] # Nil
      succ == RbFar(t, t.kid[e]["R"], "L")
      out == IF two THEN succ ELSE e
      child == IF t.kid[out]["L"] = Nil THEN t.kid[out]["R"] ELSE t.kid[out]["L"]
      cut == RbReplace(SetPar(t, child, t.par[out]), t.par[out], out, child)
      moved == RbReplace([cut EXCEPT !.kid[succ] = cut.kid[e], !.par[succ] = cut.par[e], !.red[succ] = cut.red[e]],
                       cut.par[e], e, succ)
      put == SetPar(SetPar(moved, cut.kid[e]["L"], succ), cut.kid[e]["R"], succ)
      u == IF two THEN put ELSE cut
      p == IF two THEN GapParent(t, e, succ) ELSE t.par[out]
  IN Unlinked(IF t.red[out] THEN u ELSE RemoveColor(u, p, child), e)

\* name##_RB_FIND
RbFind(t, k) == RbDescend(t, t.root, Nil, k).at

\* name##_RB_NFIND: the first element that is not less than the key
RECURSIVE NFindFrom(_, _, _, _)
NFindFrom(t, e, k, best) ==
  IF e = Nil THEN best
  ELSE IF k < e THEN NFindFrom(t, t.kid[e]["L"], k, e)
  ELSE IF k > e THEN NFindFrom(t, t.kid[e]["R"], k, best)
  ELSE e

RbNFind(t, k) == NFindFrom(t, t.root, k, Nil)

\* Up from e as long as it is on side d of its parent, and once more.
RECURSIVE RbClimb(_, _, _)
RbClimb(t, e, d) ==
  IF t.par[e] # Nil /\ t.kid[t.par[e]][d] = e THEN RbClimb(t, t.par[e], d) ELSE t.par[e]

\* name##_RB_NEXT, name##_RB_PREV
RbStep(t, e, d) == IF t.kid[e][d] # Nil THEN RbFar(t, t.kid[e][d], Opp(d)) ELSE RbClimb(t, e, d)

\* name##_RB_MINMAX
RbMinMax(t, d) == IF t.root = Nil THEN Nil ELSE RbFar(t, t.root, d)

\* RB_FOREACH, RB_FOREACH_REVERSE: the elements in the order of the visit.  An
\* element that is visited twice ends it here.
RECURSIVE RbVisit(_, _, _, _)
RbVisit(t, e, d, seen) ==
  IF e = Nil THEN seen
  ELSE IF \E i \in DOMAIN seen : seen[i] = e THEN Append(seen, e)
  ELSE RbVisit(t, RbStep(t, e, d), d, Append(seen, e))
-----------------------------------------------------------------------------
RbInit == rb = RbEmpty /\ rbKeys = {} /\ rbOp = [op |-> "init", key |-> Nil, res |-> Nil]

RbInsert(e) ==
  LET r == RbTreeInsert(rb, e) IN
  /\ rb' = r.tree
  /\ rbKeys' = rbKeys \cup {e}
  /\ rbOp' = [op |-> "insert", key |-> IF e \in rbKeys THEN e ELSE Nil, res |-> r.res]

\* The callers remove only what is in the tree.
RbRemove(e) ==
  /\ e \in rbKeys
  /\ rb' = RbTreeRemove(rb, e)
  /\ rbKeys' = rbKeys \ {e}
  /\ rbOp' = [op |-> "remove", key |-> Nil, res |-> Nil]

RbNext == \E e \in RbElem : RbInsert(e) \/ RbRemove(e)

RbSpec == RbInit /\ [][RbNext]_rbVars
-----------------------------------------------------------------------------
\* RB_FOREACH visits every element of the tree once, in ascending order, and
\* RB_FOREACH_REVERSE in descending order, after any sequence of insertions and
\* removals; both follow parent links, which every rotation rewrites.
RbVisitsInOrder ==
  LET up == RbVisit(rb, RbMinMax(rb, "L"), "R", << >>)
      down == RbVisit(rb, RbMinMax(rb, "R"), "L", << >>)
  IN /\ up = SetToSortSeq(rbKeys, <)
     /\ down = Reverse(up)

\* RB_FIND finds exactly what was inserted and not removed, RB_NFIND the least
\* such element that is not less than the key, and RB_INSERT reports a key that
\* is there already.
RbSearchCorrect ==
  /\ \A k \in RbElem : RbFind(rb, k) = IF k \in rbKeys THEN k ELSE Nil
  /\ \A k \in RbElem : LET above == {x \in rbKeys : x >= k} IN
       RbNFind(rb, k) = IF above = {} THEN Nil ELSE CHOOSE x \in above : \A y \in above : x <= y
  /\ rbOp.res = rbOp.key

RECURSIVE BlackHeight(_, _)
BlackHeight(t, e) ==
  IF e = Nil THEN 0
  ELSE LET l == BlackHeight(t, t.kid[e]["L"])
           r == BlackHeight(t, t.kid[e]["R"])
       IN IF l < 0 \/ l # r \/ (t.red[e] /\ \E d \in {"L", "R"} : Red(t, t.kid[e][d])) THEN -1
          ELSE l + (IF t.red[e] THEN 0 ELSE 1)

\* The conditions that bound the depth: "every search path from the root to a
\* leaf consists of the same number of black nodes, each red node has a black
\* parent" (include/kern/splay.h); RB_REMOVE_COLOR also relies on them when it
\* follows the links of a sibling without looking for NULL.
RbBalanced == ~Red(rb, rb.root) /\ BlackHeight(rb, rb.root) >= 0

\* After any insertions and removals the tree is a balanced search tree of
\* exactly the elements that are in it, forwards, backwards and by search
\* (RB_INSERT_COLOR, RB_REMOVE_COLOR, RB_NFIND).
RbSound == RbVisitsInOrder /\ RbSearchCorrect /\ RbBalanced
=============================================================================
