-------------------------------- MODULE KExpr --------------------------------
(***************************************************************************)
(* Dependency expressions of the configuration tool (tools/kconfig/expr.c):*)
(* their simplification.  An expression is a record: a symbol, a negation, *)
(* a comparison of a symbol with y, m or n, a conjunction or disjunction.  *)
(* The C functions rewrite trees in place; here they return the new tree.  *)
(* "a" is a tristate symbol, "b" a boolean one.  Values are 0 (n), 1 (m),  *)
(* 2 (y).                                                                  *)
(***************************************************************************)
EXTENDS Integers, Sequences

CONSTANT
  KVocabularies   \* sets of operands, each for a set of expressions

VARIABLES
  kexpr,    \* the expression
  korig     \* the expression it was at the beginning

kexprVars == <<kexpr, korig>>

Const == {"y", "m", "n"}
KSym(s) == [t |-> "SYM", s |-> s]
KNot(e) == [t |-> "NOT", l |-> e]
KCmp(t, s, v) == [t |-> t, s |-> s, v |-> v]
KOp(t, e1, e2) == [t |-> t, l |-> e1, r |-> e2]
NoExpr == [t |-> "NONE"]
IsOp(e) == e.t \in {"AND", "OR"}
IsCmp(e) == e.t \in {"EQ", "NE"}
IsConst(e, c) == e.t = "SYM" /\ e.s = c
Dual(t) == CASE t = "AND" -> "OR" [] t = "OR" -> "AND" [] t = "EQ" -> "NE" [] t = "NE" -> "EQ"

\* The operand that does not change the value of an operation
Unit(t) == IF t = "AND" THEN KSym("y") ELSE KSym("n")

\* expr_eliminate_yn
RECURSIVE EliminateYn(_)
EliminateYn(e) ==
  IF ~IsOp(e) THEN e
  ELSE LET l == EliminateYn(e.l)
           r == EliminateYn(e.r)
           zero == Unit(Dual(e.t))
           unit == Unit(e.t)
       IN IF l = zero THEN zero
          ELSE IF l = unit THEN r
          ELSE IF r = zero THEN zero
          ELSE IF r = unit THEN l
          ELSE KOp(e.t, l, r)

\* __expr_eliminate_eq: operands that both have are replaced by the unit.
\* expr_eq: equality up to the order of operands.  expr_eliminate_eq.
RECURSIVE ElimEq(_, _, _), ExprEq(_, _), EliminateEq(_, _)
ElimEqRight(t, e, a) == LET b == ElimEq(t, e.r, a[2]) IN <<KOp(t, a[1], b[1]), b[2]>>
ElimEqLeft(t, e, a) == LET b == ElimEq(t, a[1], e.r) IN <<b[1], KOp(t, a[2], b[2])>>
ElimEq(t, e1, e2) ==
  IF e1.t = t THEN ElimEqRight(t, e1, ElimEq(t, e1.l, e2))
  ELSE IF e2.t = t THEN ElimEqLeft(t, e2, ElimEq(t, e1, e2.l))
  ELSE IF (e1 = e2 /\ (IsConst(e1, "y") \/ IsConst(e1, "n"))) \/ ~ExprEq(e1, e2)
  THEN <<e1, e2>>
  ELSE <<Unit(t), Unit(t)>>
ExprEq(e1, e2) ==
  IF e1.t # e2.t THEN FALSE
  ELSE IF e1.t = "NOT" THEN ExprEq(e1.l, e2.l)
  ELSE IF IsOp(e1) THEN LET p == EliminateEq(e1, e2) IN p[1].t = "SYM" /\ p[1] = p[2]
  ELSE e1 = e2
ElimEqSecond(p) == IF p[1].t # p[2].t /\ IsOp(p[2]) THEN ElimEq(p[2].t, p[1], p[2]) ELSE p
BothYn(p) == <<EliminateYn(p[1]), EliminateYn(p[2])>>
EliminateEq(e1, e2) == BothYn(ElimEqSecond(IF IsOp(e1) THEN ElimEq(e1.t, e1, e2) ELSE <<e1, e2>>))

IsTri(s) == s = "a"
IsBool(s) == s = "b"

\* Two operands about the same symbol: the second one of a negation is only
\* looked into if it is a plain symbol.
SameSymbol(e1, e2) ==
  /\ \A e \in {e1, e2} : e.t \in {"EQ", "NE", "SYM", "NOT"}
  /\ e1.t = "NOT" => e1.l.t \in {"EQ", "NE", "SYM"}
  /\ e2.t = "NOT" => e2.l.t = "SYM"
  /\ LET s1 == IF e1.t = "NOT" THEN e1.l.s ELSE e1.s
         s2 == IF e2.t = "NOT" THEN e2.l.s ELSE e2.s
     IN s1 = s2 /\ (IsTri(s1) \/ IsBool(s1))

SymbolOf(e) == IF e.t = "NOT" THEN e.l.s ELSE e.s
Other3(v, w) == CHOOSE c \in Const : c # v /\ c # w

\* expr_join_or
JoinOr(e1, e2) ==
  IF ExprEq(e1, e2) THEN e1
  ELSE IF ~SameSymbol(e1, e2) THEN NoExpr
  ELSE LET s == SymbolOf(e1) IN
       IF IsTri(s) /\ e1.t = "EQ" /\ e2.t = "EQ" /\ e1.v # e2.v THEN KCmp("NE", s, Other3(e1.v, e2.v))
       ELSE IF IsBool(s) /\ (e1 = KNot(e2) \/ e2 = KNot(e1)) /\ "SYM" \in {e1.t, e2.t} THEN KSym("y")
       ELSE NoExpr

\* s && c, where c compares s
JoinSymCmp(s, c) ==
  CASE c.t = "EQ" /\ c.v = "y" -> KCmp("EQ", s, "y")
    [] c.t = "NE" /\ c.v = "n" -> KSym(s)
    [] c.t = "NE" /\ c.v = "m" -> KCmp("EQ", s, "y")
    [] OTHER -> NoExpr

\* expr_join_and
JoinAnd(e1, e2) ==
  IF ExprEq(e1, e2) THEN e1
  ELSE IF ~SameSymbol(e1, e2) THEN NoExpr
  ELSE LET s == SymbolOf(e1) IN
       IF e1.t = "SYM" /\ IsCmp(e2) THEN JoinSymCmp(s, e2)
       ELSE IF e2.t = "SYM" /\ IsCmp(e1) THEN JoinSymCmp(s, e1)
       ELSE IF ~IsTri(s) \/ ~IsCmp(e1) \/ ~IsCmp(e2) THEN NoExpr
       ELSE IF e1.t # e2.t
       THEN LET eq == IF e1.t = "EQ" THEN e1 ELSE e2 IN
            IF e1.v = e2.v THEN KSym("n") ELSE eq
       ELSE IF e1.t = "NE" /\ e1.v # e2.v THEN KCmp("EQ", s, Other3(e1.v, e2.v))
       ELSE NoExpr

Join(t, e1, e2) == IF t = "OR" THEN JoinOr(e1, e2) ELSE JoinAnd(e1, e2)

\* expr_transform: comparisons of booleans become symbols, negations go inward.
RECURSIVE Transform(_)
Transform(e) ==
  CASE e.t = "SYM" -> e
    [] IsCmp(e) ->
         IF ~IsBool(e.s) THEN e
         ELSE LET eq == CASE e.v = "y" -> KSym(e.s) [] e.v = "n" -> KNot(KSym(e.s)) [] OTHER -> KSym("n")
                  ne == CASE e.v = "n" -> KSym(e.s) [] e.v = "y" -> KNot(KSym(e.s)) [] OTHER -> KSym("y")
              IN IF e.t = "EQ" THEN eq ELSE ne
    [] IsOp(e) -> KOp(e.t, Transform(e.l), Transform(e.r))
    [] e.t = "NOT" ->
         LET f == Transform(e.l) IN
         CASE f.t = "NOT" -> Transform(f.l)
           [] IsCmp(f) -> KCmp(Dual(f.t), f.s, f.v)
           [] IsOp(f) -> Transform(KOp(Dual(f.t), KNot(f.l), KNot(f.r)))
           [] IsConst(f, "y") -> KSym("n")
           [] IsConst(f, "n") -> KSym("y")
           [] IsConst(f, "m") -> KSym("m")
           [] OTHER -> KNot(f)

\* expr_extract_eq: common operands are moved to x.
RECURSIVE Extract(_, _, _, _)
Extracted(t, x, e) == IF x = NoExpr THEN e ELSE KOp(t, x, e)
ExtractRight(t, e, a) == LET b == Extract(t, a[1], e.r, a[3]) IN <<b[1], KOp(t, a[2], b[2]), b[3]>>
ExtractLeft(t, e, a) == LET b == Extract(t, a[1], a[2], e.r) IN <<b[1], b[2], KOp(t, a[3], b[3])>>
Extract(t, x, e1, e2) ==
  IF e1.t = t THEN ExtractRight(t, e1, Extract(t, x, e1.l, e2))
  ELSE IF e2.t = t THEN ExtractLeft(t, e2, Extract(t, x, e1, e2.l))
  ELSE IF ExprEq(e1, e2)
  THEN <<Extracted(t, x, e1), Unit(t), Unit(t)>>
  ELSE <<x, e1, e2>>

\* expr_extract_eq_and, expr_extract_eq_or
ExtractYn(x) == IF x[1] = NoExpr THEN x ELSE <<x[1], EliminateYn(x[2]), EliminateYn(x[3])>>
ExtractEq(t, e1, e2) == ExtractYn(Extract(t, NoExpr, e1, e2))

-----------------------------------------------------------------------------
(***************************************************************************)
(* expr_eliminate_dups compares the operands of a tree of one operation    *)
(* with one another; both arguments of its helpers point into that tree.   *)
(* The operands are the sequence L; a result has L and whether anything    *)
(* has changed (trans_count).                                              *)
(***************************************************************************)
RECURSIVE Operands(_, _), Rebuild(_, _, _, _)
Operands(t, e) == IF e.t = t THEN Operands(t, e.l) \o Operands(t, e.r) ELSE <<e>>

\* The tree of the shape of e with the operands L from position i on
Rebuild(t, e, i, L) ==
  IF e.t # t THEN L[i]
  ELSE KOp(t, Rebuild(t, e.l, i, L), Rebuild(t, e.r, i + Len(Operands(t, e.l)), L))

\* expr_eliminate_dups1( type, &e, &e )
RECURSIVE Dups1(_, _), Dups1Pairs(_, _, _, _)
Dups1Replace(t, d, i, j, in, x) ==
  IF x = NoExpr THEN [L |-> [d.L EXCEPT ![i] = in.e], ch |-> d.ch \/ in.ch]
  ELSE [L |-> [d.L EXCEPT ![i] = Unit(t), ![j] = x], ch |-> TRUE]
Dups1Join(t, d, i, j, in) == Dups1Replace(t, d, i, j, in, Join(t, in.e, d.L[j]))
Dups1Pairs(t, d, i, j) ==
  IF i > Len(d.L) THEN d
  ELSE IF j > Len(d.L) THEN Dups1Pairs(t, d, i + 1, 1)
  ELSE IF i = j THEN Dups1Pairs(t, d, i, j + 1)
  ELSE Dups1Pairs(t,
         Dups1Join(t, d, i, j, IF IsOp(d.L[i]) THEN Dups1(d.L[i].t, d.L[i]) ELSE [e |-> d.L[i], ch |-> FALSE]),
         i, j + 1)
Dups1(t, e) ==
  LET d == Dups1Pairs(t, [L |-> Operands(t, e), ch |-> FALSE], 1, 1) IN [e |-> Rebuild(t, e, 1, d.L), ch |-> d.ch]

\* expr_eliminate_dups2( type, &e, &e ): an operand of the other operation is
\* decided if what would contradict it is in the tree, or in a subtree, of the
\* other operands.
RECURSIVE Dups2(_, _), Dups2Tree(_, _, _, _, _), Dups2All(_, _, _, _)
\* Mutant: one operand in common is enough.
Dups2DecideSome(t, d, i, e2, in) ==
  IF ExtractEq(t, Transform(KNot(in.e)), e2)[1] # NoExpr
  THEN [L |-> [d.L EXCEPT ![i] = Unit(Dual(t))], ch |-> TRUE]
  ELSE [L |-> [d.L EXCEPT ![i] = in.e], ch |-> d.ch \/ in.ch]
Dups2Decide(t, d, i, e2, in) ==
  LET x == ExtractEq(t, Transform(KNot(in.e)), e2) IN
  IF x[2] = Unit(t) THEN [L |-> [d.L EXCEPT ![i] = Unit(Dual(t))], ch |-> TRUE]
  ELSE [L |-> [d.L EXCEPT ![i] = in.e], ch |-> d.ch \/ in.ch]
Dups2Operand(t, d, i, e2) ==
  IF IsOp(d.L[i]) THEN Dups2Decide(t, d, i, e2, Dups2(d.L[i].t, d.L[i])) ELSE d
Dups2Node(t, e, at, d, i) == Dups2Operand(t, d, i, Rebuild(t, e, at, d.L))
Dups2Tree(t, e, at, d, i) ==
  IF e.t = t
  THEN Dups2Node(t, e, at, Dups2Tree(t, e.r, at + Len(Operands(t, e.l)), Dups2Tree(t, e.l, at, d, i), i), i)
  ELSE IF at = i THEN d ELSE Dups2Operand(t, d, i, d.L[at])
Dups2All(t, e, i, d) == IF i > Len(d.L) THEN d ELSE Dups2All(t, e, i + 1, Dups2Tree(t, e, 1, d, i))
Dups2(t, e) ==
  LET d == Dups2All(t, e, 1, [L |-> Operands(t, e), ch |-> FALSE]) IN [e |-> Rebuild(t, e, 1, d.L), ch |-> d.ch]

\* expr_eliminate_dups
RECURSIVE EliminateDups(_)
DupsBoth(e, d1) == LET d2 == Dups2(e.t, d1.e) IN [e |-> d2.e, ch |-> d1.ch \/ d2.ch]
DupsAgain(d) == IF d.ch THEN EliminateDups(EliminateYn(d.e)) ELSE d.e
EliminateDups(e) == IF IsOp(e) THEN DupsAgain(DupsBoth(e, Dups1(e.t, e))) ELSE e
-----------------------------------------------------------------------------
\* e1 && e2 is n if e1 or e2 is n.
CompareOp(t, v) == IF v = "y" THEN t ELSE Dual(t)

\* expr_trans_compare: the expression that says whether e has the value v.
RECURSIVE TransCompare(_, _, _)
TransCompare(e, t, v) ==
  LET neg(x) == IF t = "NE" THEN KNot(x) ELSE x IN
  CASE IsOp(e) ->
         LET l == TransCompare(e.l, "EQ", v)
             r == TransCompare(e.r, "EQ", v)
         IN neg(IF v = "m" THEN e ELSE KOp(CompareOp(e.t, v), l, r))
    [] e.t = "NOT" -> TransCompare(e.l, Dual(t), v)
    [] IsCmp(e) ->
         IF v = "m" THEN IF t = "EQ" THEN KSym("n") ELSE KSym("y")
         ELSE IF (t = "EQ") = (v = "y") THEN e ELSE KNot(e)
    [] e.t = "SYM" -> KCmp(t, e.s, v)

\* expr_contains_symbol
RECURSIVE ContainsSymbol(_, _)
ContainsSymbol(e, s) ==
  CASE IsOp(e) -> ContainsSymbol(e.l, s) \/ ContainsSymbol(e.r, s)
    [] e.t = "NOT" -> ContainsSymbol(e.l, s)
    [] e.t = "SYM" -> e.s = s
    [] IsCmp(e) -> s \in {e.s, e.v}

\* expr_depends_symbol
RECURSIVE DependsSymbol(_, _)
DependsSymbol(e, s) ==
  CASE e.t = "AND" -> DependsSymbol(e.l, s) \/ DependsSymbol(e.r, s)
    [] e.t = "SYM" -> e.s = s
    [] e.t = "EQ" -> e.s = s /\ e.v \in {"y", "m"}
    [] e.t = "NE" -> e.s = s /\ e.v = "n"
    [] OTHER -> FALSE

\* expr_calc_value, where val gives the values of the symbols
RECURSIVE CalcValue(_, _)
CalcValue(e, val) ==
  CASE e.t = "SYM" -> val[e.s]
    [] e.t = "NOT" -> 2 - CalcValue(e.l, val)
    [] e.t = "EQ" -> IF val[e.s] = val[e.v] THEN 2 ELSE 0
    [] e.t = "NE" -> IF val[e.s] = val[e.v] THEN 0 ELSE 2
    [] IsOp(e) -> LET x == CalcValue(e.l, val)
                      y == CalcValue(e.r, val)
                  IN IF (e.t = "AND") = (x < y) THEN x ELSE y
-----------------------------------------------------------------------------
Values == {[y |-> 2, m |-> 1, n |-> 0, a |-> va, b |-> vb] : va \in 0 .. 2, vb \in {0, 2}}
BoolValues == {val \in Values : val["a"] # 1}

Inner(V) == V \cup {KOp(t, x, y) : t \in {"AND", "OR"}, x \in V, y \in V}

KExprInit ==
  /\ \E V \in KVocabularies : \E t \in {"AND", "OR"}, x, y \in Inner(V) :
       kexpr \in {KOp(t, x, y), KNot(KOp(t, x, y))}
  /\ korig = kexpr

Rewrite(e) == kexpr' = e /\ kexpr' # kexpr /\ UNCHANGED korig

KTransform == Rewrite(Transform(kexpr))
KEliminateYn == Rewrite(EliminateYn(kexpr))
KEliminateDups == Rewrite(EliminateDups(kexpr))

KExprNext == KTransform \/ KEliminateYn \/ KEliminateDups
KExprSpec == KExprInit /\ [][KExprNext]_kexprVars
-----------------------------------------------------------------------------
\* Whatever simplifications menu_finalize applies, in whatever order, the
\* expression keeps its value for all values of the symbols, as long as no
\* tristate symbol is m: operands are compared, joined and removed pairwise in
\* a tree that changes meanwhile.
KMeaningKept == \A val \in BoolValues : CalcValue(kexpr, val) = CalcValue(korig, val)

\* Without the rule "(FOO || BAR) && (!FOO && !BAR) -> n" of
\* expr_eliminate_dups2 and its dual the value is kept for m too.
KRewritesExact ==
  \A val \in Values :
    /\ CalcValue(Transform(kexpr), val) = CalcValue(kexpr, val)
    /\ CalcValue(EliminateYn(kexpr), val) = CalcValue(kexpr, val)
    /\ IsOp(kexpr) => CalcValue(Dups1(kexpr.t, kexpr).e, val) = CalcValue(kexpr, val)

\* Expressions that expr_eq calls equal have the same value, and the operands
\* that expr_extract_eq takes out of two expressions are a factor of both.
KEqualitySound ==
  IsOp(kexpr) =>
    /\ ExprEq(kexpr.l, kexpr.r) => \A val \in Values : CalcValue(kexpr.l, val) = CalcValue(kexpr.r, val)
    /\ LET x == ExtractEq(kexpr.t, kexpr.l, kexpr.r) IN
       x[1] # NoExpr =>
         \A val \in Values :
           /\ CalcValue(KOp(kexpr.t, x[1], x[2]), val) = CalcValue(kexpr.l, val)
           /\ CalcValue(KOp(kexpr.t, x[1], x[3]), val) = CalcValue(kexpr.r, val)

\* The test that decides which entries of a menu belong below which: if an
\* expression depends on a symbol, as expr_depends_symbol says, it is n
\* whenever the symbol is n; if it does not contain it, it does not matter.
KDependsSound ==
  \A s \in {"a", "b"} :
    /\ DependsSymbol(kexpr, s) => \A val \in Values : val[s] = 0 => CalcValue(kexpr, val) = 0
    /\ ~ContainsSymbol(kexpr, s) =>
         \A v1, v2 \in Values : (\A u \in {"a", "b"} \ {s} : v1[u] = v2[u]) =>
           CalcValue(kexpr, v1) = CalcValue(kexpr, v2)

\* expr_trans_compare says when an expression is not n, as menu_finalize uses
\* it, and when it is y, if no tristate symbol is m.
KCompareRight ==
  \A val \in BoolValues : \A v \in {"y", "n"} :
    CalcValue(TransCompare(kexpr, "NE", v), val) = IF CalcValue(kexpr, val) # val[v] THEN 2 ELSE 0

\* The functions on expressions that the menu is built with are right: rewriting
\* keeps the value, and equality, dependence and comparison say what is true of
\* it (expr_transform, expr_eliminate_dups, expr_eq, expr_depends_symbol,
\* expr_trans_compare).
KExprSound == KMeaningKept /\ KRewritesExact /\ KEqualitySound /\ KDependsSound /\ KCompareRight
=============================================================================
