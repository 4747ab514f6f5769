----------------------------- MODULE MCLibrary -----------------------------
(***************************************************************************)
(* The trees of the kernel library (parts "rb" and "splay"), the event     *)
(* masks (part "masks") and the configuration tool (parts "expr" and       *)
(* "config") in one run.                                                   *)
(***************************************************************************)
EXTENDS RbTree, SplayTree, EvMask, KConfig

VARIABLE part

MCVocabularies ==
  LET a == KSym("a")
      b == KSym("b")
  IN {{a, KNot(a), b, KNot(b)},
      {a, KCmp("EQ", "a", "y"), KCmp("EQ", "a", "m"), KCmp("NE", "a", "n")},
      {a, KCmp("NE", "a", "m"), KCmp("NE", "a", "y"), KCmp("EQ", "a", "n")},
      {a, KCmp("NE", "b", "m"), KCmp("EQ", "b", "n"), KCmp("NE", "b", "n")}}

\* M enables modules.  L and B depend on T, B is y by default if T is y and selects L.
\* The choice C has X and Y, Y depends on B.  N depends on B and needs
\* modules disabled, with a default
\* that depends on T and a range while L is set.
MCSymbols == <<"M", "T", "L", "B", "C", "X", "Y", "N">>
MCType ==
  [M |-> "bool", T |-> "tri", L |-> "tri", B |-> "bool", C |-> "bool", X |-> "bool", Y |-> "bool", N |-> "int"]
Always == KSym("y")
MCPrompt ==
  [M |-> Always, T |-> Always, L |-> KSym("T"), B |-> KSym("T"), C |-> Always,
   X |-> KSym("C"), Y |-> KOp("AND", KSym("C"), KSym("B")), N |-> KOp("AND", KSym("B"), KNot(KSym("M")))]
MCDefault ==
  [M |-> << >>, T |-> << >>, L |-> << >>, B |-> <<[value |-> Always, cond |-> KCmp("EQ", "T", "y")]>>,
   C |-> << >>, X |-> << >>, Y |-> << >>,
   N |-> <<[value |-> 3, cond |-> KCmp("EQ", "T", "y")], [value |-> 1, cond |-> Always]>>]
MCRev ==
  [M |-> NoExpr, T |-> NoExpr, L |-> KSym("B"), B |-> NoExpr, C |-> KOp("AND", Always, KSym("m")),
   X |-> NoExpr, Y |-> NoExpr, N |-> NoExpr]
MCMembers == <<"X", "Y">>
MCRange == [low |-> 1, high |-> 2, cond |-> KSym("L")]

KExprIdle == kexpr = Always /\ korig = kexpr

libVars == <<rbVars, spVars, maskVars, kexprVars, kvars, part>>

MCInit ==
  /\ part \in {"rb", "splay", "masks", "expr", "config"}
  /\ RbInit /\ SpInit /\ MaskInit /\ KInit
  /\ IF part = "expr" THEN KExprInit ELSE KExprIdle

MCNext ==
  \/ part = "rb" /\ RbNext /\ UNCHANGED <<spVars, maskVars, kexprVars, kvars, part>>
  \/ part = "splay" /\ SplayTreeNext /\ UNCHANGED <<rbVars, maskVars, kexprVars, kvars, part>>
  \/ part = "masks" /\ MaskNext /\ UNCHANGED <<rbVars, spVars, kexprVars, kvars, part>>
  \/ part = "expr" /\ KExprNext /\ UNCHANGED <<rbVars, spVars, maskVars, kvars, part>>
  \/ part = "config" /\ KNext /\ UNCHANGED <<rbVars, spVars, maskVars, kexprVars, part>>

MCSpec == MCInit /\ [][MCNext]_libVars
=============================================================================
