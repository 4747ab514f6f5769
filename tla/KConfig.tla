------------------------------- MODULE KConfig -------------------------------
(***************************************************************************)
(* The configuration tool (tools/kconfig/symbol.c, confdata.c): values of  *)
(* the configuration symbols, computed on demand and cached, as the menu   *)
(* program (mconf.c) changes, saves, loads and exports them, and the       *)
(* program that sets all of them (conf.c -n, -m, -y).                      *)
(*                                                                         *)
(* k is the state of the symbols: curr and sel (curr of a choice), udef    *)
(* and usel (the user's values), the sets of symbols with SYMBOL_VALID,    *)
(* SYMBOL_DEF_USER and SYMBOL_WRITE, visibility, the value of rev_dep,     *)
(* modules_val and whether something was changed.  Values are 0 (n), 1 (m) *)
(* and 2 (y); that of a number is the number.  SYMBOL_CHANGED, which only  *)
(* the displays use, is left out.                                          *)
(***************************************************************************)
EXTENDS KExpr, FiniteSets

CONSTANTS
  KSymbols,   \* sequence of the symbols, in the order of menu and hash table
  KType,      \* "bool", "tri" or "int"
  KPrompt,    \* condition of the prompt, NoExpr if there is none
  KDefault,   \* values and conditions of the defaults, in order
  KRev,       \* who selects the symbol: rev_dep
  KMembers,   \* members of the choice "C", in order
  KChosen,    \* the member that is the default of the choice
  KRange,     \* range of the numbers, and its condition
  KEdits,     \* bound: number of changes the user makes
  KModes      \* what the program without menus sets all symbols to

VARIABLES
  k,          \* symbols of the running program
  kstage,     \* "start", "edit" or "exit"
  kedits,     \* number of changes
  kwant,      \* history: the symbol changed last and the value it was given
  kfile,      \* .config: value of each symbol in it, Absent if it is not there
  kfileVals,  \* history: the values all symbols had when it was written
  kauto,      \* auto.conf
  kbuilt,     \* history: the values all symbols had when that was written
  ktouched    \* symbols whose header was touched last

kvars == <<k, kstage, kedits, kwant, kfile, kfileVals, kauto, kbuilt, ktouched>>

SymSet == {KSymbols[i] : i \in 1 .. Len(KSymbols)}
MemberSet == {KMembers[i] : i \in 1 .. Len(KMembers)}
Absent == -1
NoMember == "none"

Lower(x, y) == IF x < y THEN x ELSE y
Higher(x, y) == IF x < y THEN y ELSE x

\* sym_get_type
GetType(s, st) ==
  IF KType[s] = "tri" /\ ((s \in MemberSet /\ st.vis[s] = 2) \/ st.mods = 0) THEN "bool" ELSE KType[s]

\* m becomes y where m is not possible.
NoM(v, type) == IF v = 1 /\ type = "bool" THEN 2 ELSE v

RECURSIVE CalcSym(_, _), CalcExpr(_, _)

\* expr_calc_value: the value v and the state st, since values are computed on
\* the way
Both(t, l, r) == [v |-> IF t = "AND" THEN Lower(l.v, r.v) ELSE Higher(l.v, r.v), st |-> r.st]
Then(e, l) == Both(e.t, l, CalcExpr(e.r, l.st))
OfSym(s, st) == [v |-> st.curr[s], st |-> st]
Negated(x) == [x EXCEPT !.v = 2 - @]
Compared(e, x) == [x EXCEPT !.v = IF (@ = (CASE e.v = "y" -> 2 [] e.v = "m" -> 1 [] e.v = "n" -> 0)) = (e.t = "EQ") THEN 2 ELSE 0]
CalcExpr(e, st) ==
  CASE e.t = "SYM" /\ e.s \in Const -> [v |-> CASE e.s = "y" -> 2 [] e.s = "m" -> 1 [] e.s = "n" -> 0, st |-> st]
    [] e.t = "SYM" /\ e.s \notin Const -> OfSym(e.s, CalcSym(e.s, st))
    [] e.t = "NONE" -> [v |-> 0, st |-> st]
    [] e.t = "NOT" -> Negated(CalcExpr(e.l, st))
    [] IsCmp(e) -> Compared(e, OfSym(e.s, CalcSym(e.s, st)))
    [] IsOp(e) -> Then(e, CalcExpr(e.l, st))

\* sym_calc_visibility
SetVisible(s, x) ==
  [x.st EXCEPT !.vis[s] = IF x.v = 1 /\ (KType[s] # "tri" \/ x.st.mods = 0) THEN 2 ELSE x.v]
SetRev(s, x) == [x.st EXCEPT !.rev[s] = NoM(x.v, GetType(s, x.st))]
CalcRev(s, st) == IF s \in MemberSet THEN st ELSE SetRev(s, CalcExpr(KRev[s], st))
CalcVisibility(s, st) == CalcRev(s, SetVisible(s, CalcExpr(KPrompt[s], st)))

\* sym_calc_choice: the user's member if it is visible, otherwise the default,
\* otherwise the first visible one
RECURSIVE FirstVisible(_, _)
FirstVisible(cands, st) ==
  IF cands = <<>> THEN [st EXCEPT !.curr["C"] = 0, !.sel = NoMember]
  ELSE LET v == CalcVisibility(Head(cands), st) IN
       IF v.vis[Head(cands)] # 0 THEN [v EXCEPT !.sel = Head(cands)] ELSE FirstVisible(Tail(cands), v)
CalcChoice(st) ==
  FirstVisible((IF st.usel = NoMember THEN <<>> ELSE <<st.usel>>) \o <<KChosen>> \o KMembers, st)

\* The first default whose condition holds: sym_get_default_prop
DefaultValue(s, c, x) == [x.st EXCEPT !.curr[s] = Lower(x.v, c), !.write = @ \cup {s}]
RECURSIVE FirstDefault(_, _, _)
DefaultIf(s, ds, c) ==
  IF c.v = 0 THEN FirstDefault(s, Tail(ds), c.st)
  ELSE IF KType[s] = "int" THEN [c.st EXCEPT !.curr[s] = Head(ds).value, !.write = @ \cup {s}]
  ELSE DefaultValue(s, c.v, CalcExpr(Head(ds).value, c.st))
FirstDefault(s, ds, st) == IF ds = <<>> THEN st ELSE DefaultIf(s, ds, CalcExpr(Head(ds).cond, st))
UseDefault(s, st) == FirstDefault(s, KDefault[s], st)

\* The user's value of a symbol that is visible, otherwise the default
UserOrDefault(s, st) ==
  LET w == [st EXCEPT !.write = IF st.vis[s] # 0 THEN @ \cup {s} ELSE @] IN
  IF st.vis[s] # 0 /\ s \in st.has
  THEN [w EXCEPT !.curr[s] = IF KType[s] = "int" THEN st.udef[s] ELSE Lower(st.udef[s], st.vis[s])]
  ELSE UseDefault(s, [w EXCEPT !.write = IF st.rev[s] # 0 THEN @ \cup {s} ELSE @])

\* sym_validate_range
ClampTo(s, c) ==
  IF c.v = 0 THEN c.st
  ELSE [c.st EXCEPT !.curr[s] = IF @ < KRange.low THEN KRange.low ELSE IF @ > KRange.high THEN KRange.high ELSE @]

\* The rest of sym_calc_value once visibility is known
SelectedBy(s, st) == [st EXCEPT !.curr[s] = NoM(Higher(@, st.rev[s]), GetType(s, st))]
NewValue(s, st) ==
  CASE KType[s] = "int" -> LET u == UserOrDefault(s, st) IN ClampTo(s, CalcExpr(KRange.cond, u))
    [] s \in MemberSet /\ st.vis[s] = 2 -> [st EXCEPT !.curr[s] = IF st.sel = s THEN 2 ELSE 0]
    [] OTHER -> SelectedBy(s, UserOrDefault(s, st))
WithChoice(s, st) ==
  IF s # "C" THEN st ELSE IF st.curr[s] = 2 THEN CalcChoice(st) ELSE [st EXCEPT !.sel = NoMember]

\* A new value of the modules symbol is kept in modules_val; the members of a
\* choice are written if the choice would be.
Propagate(s, st) ==
  IF s = "M" THEN [st EXCEPT !.mods = st.curr[s]]
  ELSE IF s = "C" /\ s \in st.write THEN [st EXCEPT !.write = @ \cup MemberSet]
  ELSE st

\* sym_calc_value
CalcSym(s, st) ==
  IF s \in st.valid THEN st
  ELSE LET begun == [st EXCEPT !.valid = @ \cup {s}, !.write = IF s \in MemberSet THEN @ ELSE @ \ {s}]
           seen == [CalcVisibility(s, begun) EXCEPT !.curr[s] = 0]
       IN Propagate(s, WithChoice(s, NewValue(s, seen)))

RECURSIVE CalcFrom(_, _)
CalcFrom(i, st) == IF i > Len(KSymbols) THEN st ELSE CalcFrom(i + 1, CalcSym(KSymbols[i], st))

\* Every entry of the menu is looked at when it is drawn: build_conf
Redraw(st) == CalcFrom(1, st)

\* Mutant: nothing is invalidated.
ClearAllValidNone(st) == [st EXCEPT !.dirty = TRUE]

\* sym_clear_all_valid
ClearAllValid(st) == CalcSym("M", [st EXCEPT !.valid = {}, !.dirty = TRUE])

\* What the symbols' values are if nothing is cached
Fresh(st) == Redraw(CalcSym("M", [st EXCEPT !.valid = {}]))
-----------------------------------------------------------------------------
\* sym_tristate_within_range
TristateWithinRange(s, v, st) ==
  /\ st.vis[s] # 0 /\ ~(v = 1 /\ GetType(s, st) = "bool") /\ st.vis[s] > st.rev[s]
  /\ IF s \in MemberSet /\ st.vis[s] = 2 THEN v = 2 ELSE v >= st.rev[s] /\ v <= st.vis[s]

\* sym_set_tristate_value, where it does not return false
CanSetTristate(s, v, st) == v = st.curr[s] \/ TristateWithinRange(s, v, st)

SetTristate(s, v, st) ==
  LET chosen == [st EXCEPT !.has = @ \cup {"C"} \cup {x \in MemberSet : st.vis[x] # 0}, !.usel = s]
      base == IF s \in MemberSet /\ v = 2 THEN chosen ELSE st
      set == [base EXCEPT !.has = @ \cup {s}, !.udef[s] = v]
  IN IF v # st.curr[s] THEN ClearAllValid(set) ELSE set

\* sym_toggle_tristate_value: the next value that is possible
RECURSIVE Toggled(_, _, _)
Toggled(s, v, st) == LET n == (v + 1) % 3 IN IF CanSetTristate(s, n, st) THEN n ELSE Toggled(s, n, st)

\* sym_string_within_range, sym_set_string_value of a number
NumberWithinRange(v, st) == LET c == CalcExpr(KRange.cond, st) IN c.v = 0 \/ (v >= KRange.low /\ v <= KRange.high)
SetNumber(s, v, st) ==
  LET set == [st EXCEPT !.has = @ \cup {s}, !.udef[s] = v] IN
  IF st.udef[s] = v THEN set ELSE ClearAllValid(set)
-----------------------------------------------------------------------------
NoUser == [s \in SymSet |-> IF KType[s] = "int" THEN Absent ELSE 0]
Blank ==
  [curr |-> [s \in SymSet |-> 0], sel |-> NoMember, valid |-> {}, udef |-> NoUser, usel |-> NoMember,
   has |-> {}, vis |-> [s \in SymSet |-> 0], rev |-> [s \in SymSet |-> 0], write |-> {}, mods |-> 0, dirty |-> FALSE]

\* A line about a member of the choice also sets the choice.
ReadMember(s, st) ==
  [st EXCEPT !.udef["C"] = Higher(@, st.udef[s]), !.usel = IF st.udef[s] = 2 THEN s ELSE @,
             !.has = IF st.udef[s] = 1 /\ st.udef["C"] = 2 THEN @ \ {"C"} ELSE @]

\* One line of the file: conf_set_sym_val
ReadLine(s, v, st) ==
  IF v = Absent THEN st
  ELSE LET set == [st EXCEPT !.udef[s] = v, !.has = @ \cup {s}] IN
       IF s \in MemberSet THEN ReadMember(s, set) ELSE set
RECURSIVE ReadLines(_, _, _)
ReadLines(i, file, st) ==
  IF i > Len(KSymbols) THEN st ELSE ReadLines(i + 1, file, ReadLine(KSymbols[i], file[KSymbols[i]], st))

\* conf_read_simple for the user's values
ReadSimple(file, st) ==
  CalcSym("M", ReadLines(1, file,
    [st EXCEPT !.valid = {}, !.has = {"C"}, !.udef = NoUser, !.usel = NoMember]))

\* conf_read, first loop: every symbol is computed and compared with the value
\* in the file (bad if it differs); a choice is new if a visible member is.
IsUnsaved(s, st) ==
  IF s \in st.has /\ s \in st.write THEN st.curr[s] # st.udef[s] ELSE s \in st.has \cup st.write
RECURSIVE CheckFrom(_, _, _)
CheckOne(i, s, bad, st) ==
  CheckFrom(i + 1, IF s # "C" /\ IsUnsaved(s, st) THEN bad \cup {s} ELSE bad,
    IF s = "C" /\ \E x \in MemberSet : st.vis[x] # 0 /\ x \notin st.has THEN [st EXCEPT !.has = @ \ {"C"}] ELSE st)
CheckFrom(i, bad, st) ==
  IF i > Len(KSymbols) THEN [bad |-> bad, st |-> st]
  ELSE CheckOne(i, KSymbols[i], bad, CalcSym(KSymbols[i], st))

\* Second loop: values that are not visible, and numbers out of range, are
\* forgotten.  (The number comes last.)
AfterRead(c) ==
  LET out == {s \in c.st.has : KType[s] = "int" /\ ~NumberWithinRange(c.st.udef[s], c.st)}
      gone == {s \in c.st.has \ MemberSet : c.st.vis[s] = 0 /\ c.bad = {}}
  IN [c.st EXCEPT !.has = @ \ (out \cup gone), !.valid = @ \ out, !.dirty = c.bad \cup out # {}]
Read(file, st) == AfterRead(CheckFrom(1, {}, ReadSimple(file, [st EXCEPT !.dirty = FALSE])))

\* conf_write: the values that are written, and the state afterwards
NoFile == [s \in SymSet |-> Absent]
Saving(st) == Redraw(IF st.dirty THEN st ELSE ClearAllValid(st))
Written(st) == [s \in SymSet |-> IF s # "C" /\ s \in st.write THEN st.curr[s] ELSE Absent]
Saved(st) == [st EXCEPT !.write = @ \cap {"C"}, !.dirty = FALSE]

\* Mutant: symbols that are no longer written are not compared.
TouchedWritten(st, old) ==
  {s \in st.write \ {"C"} :
    IF old[s] # Absent THEN st.curr[s] # old[s] ELSE KType[s] = "int" \/ st.curr[s] # 0}

\* conf_split_config: which headers are touched.  The old value is the one in
\* auto.conf.
Touched(st, old) ==
  {s \in SymSet \ {"C"} :
    IF s \in st.write
    THEN IF old[s] # Absent THEN st.curr[s] # old[s] ELSE KType[s] = "int" \/ st.curr[s] # 0
    ELSE old[s] # Absent}

\* conf_write_autoconf: n is not written; m is written under another name.
AutoConf(st) ==
  [s \in SymSet |->
    IF s # "C" /\ s \in st.write /\ (KType[s] = "int" \/ st.curr[s] = 2) THEN st.curr[s] ELSE Absent]
-----------------------------------------------------------------------------
\* conf_set_all_new_symbols
SetAllNew(v, st) ==
  LET new == {s \in SymSet \ st.has : KType[s] # "int"} IN
  CalcSym("M", [st EXCEPT !.udef = [s \in SymSet |-> IF s \in new THEN v ELSE @[s]], !.has = @ \cup new])

NoWant == [sym |-> "C", val |-> Absent]

KInit ==
  /\ k = Blank /\ kstage = "start" /\ kedits = 0 /\ kwant = NoWant
  /\ kfile = NoFile /\ kfileVals = Redraw(Blank).curr /\ kauto = NoFile
  /\ kbuilt = [s \in SymSet |-> Absent] /\ ktouched = {}

\* The menu program starts: conf_read of .config, which may not exist
KStart ==
  /\ kstage = "start" /\ kstage' = "edit"
  /\ k' = Redraw(IF kfile = NoFile THEN [k EXCEPT !.dirty = TRUE] ELSE Read(kfile, k))
  /\ kwant' = NoWant /\ UNCHANGED <<kedits, kfile, kfileVals, kauto, kbuilt, ktouched>>

\* The user changes a symbol that is shown; then the menu is drawn again.
Edit(s, v, st) ==
  /\ kstage = "edit" /\ kedits < KEdits
  /\ kedits' = kedits + 1 /\ k' = Redraw(st) /\ kwant' = [sym |-> s, val |-> v]
  /\ UNCHANGED <<kstage, kfile, kfileVals, kauto, kbuilt, ktouched>>

KSet(s, v) ==
  /\ KType[s] # "int" /\ k.vis[s] # 0 /\ (s \in MemberSet => v = 2) /\ CanSetTristate(s, v, k)
  /\ Edit(s, v, SetTristate(s, v, k))

KToggle(s) ==
  /\ KType[s] # "int" /\ s \notin MemberSet /\ k.vis[s] # 0
  /\ LET v == Toggled(s, k.curr[s], k) IN Edit(s, v, SetTristate(s, v, k))

KSetNumber(s, v) ==
  /\ KType[s] = "int" /\ k.vis[s] # 0 /\ NumberWithinRange(v, k)
  /\ Edit(s, IF k.udef[s] = v THEN k.curr[s] ELSE v, SetNumber(s, v, k))

\* conf_write
WriteFile(st) == kfile' = Written(st) /\ kfileVals' = st.curr

\* Save, and load what is saved: conf_save, conf_load
KSave ==
  /\ kstage = "edit" /\ WriteFile(Saving(k)) /\ k' = Redraw(Saved(Saving(k)))
  /\ kwant' = NoWant /\ UNCHANGED <<kstage, kedits, kauto, kbuilt, ktouched>>

KLoad ==
  /\ kstage = "edit" /\ kfile # NoFile /\ k' = Redraw([Read(kfile, k) EXCEPT !.dirty = TRUE])
  /\ kwant' = NoWant /\ UNCHANGED <<kstage, kedits, kfile, kfileVals, kauto, kbuilt, ktouched>>

\* conf_write_autoconf, with which the menu program ends
Export(st) ==
  LET f == Fresh(st) IN
  /\ ktouched' = Touched(f, kauto) /\ kauto' = AutoConf(f) /\ kbuilt' = f.curr

\* The user leaves the program and saves changes or does not; the next program
\* starts with nothing but the files.
KExit(save) ==
  /\ kstage = "edit" /\ (save => k.dirty)
  /\ IF save THEN WriteFile(Saving(k)) ELSE UNCHANGED <<kfile, kfileVals>>
  /\ Export(IF save THEN Saved(Saving(k)) ELSE k)
  /\ k' = Blank /\ kstage' = "start" /\ kwant' = NoWant /\ UNCHANGED kedits

\* conf -n, -m, -y, without a file of values: it sets and writes.
KAllNew(v) ==
  /\ kstage = "start" /\ kedits = 0
  /\ WriteFile(Saving(SetAllNew(v, k)))
  /\ UNCHANGED <<k, kstage, kedits, kwant, kauto, kbuilt, ktouched>>

KNext ==
  \/ KStart \/ KSave \/ KLoad
  \/ \E s \in SymSet : KToggle(s) \/ \E v \in 0 .. 3 : (v < 3 /\ KSet(s, v)) \/ KSetNumber(s, v)
  \/ \E save \in BOOLEAN : KExit(save)
  \/ \E v \in KModes : KAllNew(v)

KSpec == KInit /\ [][KNext]_kvars
-----------------------------------------------------------------------------
KTypeOK ==
  /\ k.valid \subseteq SymSet /\ k.has \subseteq SymSet /\ k.write \subseteq SymSet
  /\ \A s \in SymSet : k.curr[s] \in 0 .. 3 /\ k.vis[s] \in 0 .. 2 /\ k.rev[s] \in 0 .. 2
  /\ k.sel \in MemberSet \cup {NoMember} /\ kstage \in {"start", "edit"} /\ kedits \in 0 .. KEdits

\* A value that is cached (SYMBOL_VALID) is the value that would be computed
\* now: whatever was changed, every symbol that depends on it was invalidated.
\* (Not so for a number that is entered again after conf_read has forgotten it:
\* sym_set_string_value compares with the old string and invalidates nothing.)
KCacheFresh ==
  LET f == Fresh(k) IN
  /\ \A s \in k.valid : KType[s] # "int" => k.curr[s] = f.curr[s]
  /\ "C" \in k.valid => k.sel = f.sel

\* While the choice is y exactly one of its members is, if one is visible, and
\* no symbol has the value m unless modules are enabled.
KConsistent ==
  kstage = "edit" =>
    /\ k.curr["C"] = 2 => Cardinality({x \in MemberSet : k.curr[x] = 2}) = 1
    /\ \A s \in SymSet : KType[s] # "int" /\ k.curr[s] = 1 => KType[s] = "tri" /\ k.curr["M"] = 2

\* The value that the user gives a symbol, and that is accepted, is the value
\* the symbol then has; a number, if it is not the string entered last.
KSetTakes == kwant # NoWant => k.curr[kwant.sym] = kwant.val

\* conf_read of the file that conf_write wrote gives every symbol the value it
\* had: the next session starts with the configuration that was saved.
KFileRestores ==
  kfile # NoFile => Redraw(Read(kfile, Blank)).curr = kfileVals

\* Every symbol whose value differs from the one at the previous export has its
\* header touched, so that what depends on it is compiled again (for symbols
\* that are not m, which auto.conf has under another name).
KTouchComplete ==
  [][kbuilt' # kbuilt => \A s \in SymSet \ {"C"} : kbuilt'[s] # kbuilt[s] /\ kbuilt[s] \notin {Absent, 1} => s \in ktouched']_kvars

\* The values that are shown, saved and loaded again are the ones the user's
\* choices give: the cache is fresh, the values fit together, a value that was
\* set is there, and a file restores what was saved (sym_calc_value,
\* sym_set_tristate_value, conf_write, conf_read).
KValuesRight == KTypeOK /\ KCacheFresh /\ KConsistent /\ KSetTakes /\ KFileRestores
=============================================================================
