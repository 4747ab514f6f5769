-------------------------------- MODULE Irq --------------------------------
(***************************************************************************)
(* Interrupt lines: handlers and masks (irq/irq.c), the two cascaded       *)
(* interrupt controllers (hal/x86-64/pic/i8259.c) and nested interrupts.   *)
(*                                                                         *)
(* Handlers are registered and removed by threads, never by handlers.  The *)
(* controllers are hardware: a line that a device raises stays in irr      *)
(* until the CPU takes it.  kcom_handle_irqs sends the end of interrupt    *)
(* before interrupts can be enabled again, so the in-service register is   *)
(* empty between steps.                                                    *)
(***************************************************************************)
EXTENDS Integers, Queues

CONSTANTS
  Line,        \* the lines in use, numbers below 16
  Handler,
  Exclusive,   \* handlers with IRQHDL_FLAG_EXCLUSIVE
  Drives(_),   \* the handlers the drivers register for a line
  Threshold    \* SPURIOUS_INTR_THRESHOLD

Cascade == 2   \* I8259_PIC1_ICW3_CODE

ASSUME IrqAssumption ==
  /\ Line \subseteq (0 .. 15) \ {Cascade} /\ 0 \in Line
  /\ Exclusive \subseteq Handler /\ \A l \in Line : Drives(l) \subseteq Handler
  /\ Threshold \in Nat \ {0}

VARIABLES
  hdlrs,    \* hdlr_que of each line
  iexcl,    \* lines with IRQHDL_FLAG_EXCLUSIVE in ent->iflags
  spurious, \* spurious_cnt of each line
  imask,    \* irq_db.mask
  smask,    \* irq_db.spurious_mask
  imr,      \* the mask registers of the controllers
  irr,      \* lines that wait for the CPU
  frames    \* the interrupts being handled, the innermost last: line and
            \* number of the handler that runs

irqVars == <<hdlrs, iexcl, spurious, imask, smask, imr, irr, frames>>

\* The line between the controllers is never masked.
IrqTypeOK ==
  /\ hdlrs \in [Line -> Seq(Handler)] /\ iexcl \subseteq Line
  /\ spurious \in [Line -> 0 .. Threshold]
  /\ imask \subseteq Line \cup {Cascade} /\ smask \subseteq Line
  /\ imr \subseteq Line /\ irr \subseteq Line
  /\ frames \in Seq([line : Line, no : Nat])

\* i8259_update_irq_mask: the line between the two controllers stays open.
UpdateIrqMask(mask) == mask \ {Cascade}

\* irq_init_subsys, init_i8259_pic
IrqInit ==
  /\ hdlrs = [l \in Line |-> << >>] /\ iexcl = {}
  /\ spurious = [l \in Line |-> 0]
  /\ imask = Line \cup {Cascade} /\ smask = {}
  /\ imr = Line
  /\ irr = {} /\ frames = << >>
-----------------------------------------------------------------------------
\* irq_unset_mask
IrqUnsetMask(l) == imask' = imask \ {l} /\ imr' = UpdateIrqMask((imask \ {l}) \cup smask)

\* irq_set_mask
IrqSetMask(l) == imask' = imask \cup {l} /\ imr' = UpdateIrqMask(imask \cup {l} \cup smask)

\* The conditions of irq_register_irq_handler: -EBUSY, -EPERM
Installed(l, h) == h \in Range(hdlrs[l])
Refused(l, h) == h \notin Exclusive /\ l \in iexcl

\* irq_register_irq_handler, if there is memory and it does not fail
IrqRegister(l, h) ==
  /\ frames = << >>
  /\ ~Installed(l, h) /\ ~Refused(l, h)
  /\ hdlrs' = [hdlrs EXCEPT ![l] = Append(@, h)]
  /\ iexcl' = IF h \in Exclusive THEN iexcl \cup {l} ELSE iexcl
  /\ IrqUnsetMask(l)
  /\ UNCHANGED <<spurious, smask, irr, frames>>

\* Mutant: the line stays open when its last handler goes.
IrqUnregisterLeavesOpen(l, h) ==
  /\ frames = << >>
  /\ \E i \in DOMAIN hdlrs[l] : hdlrs[l][i] = h /\ hdlrs' = [hdlrs EXCEPT ![l] = ListDel(@, i)]
  /\ UNCHANGED <<iexcl, spurious, imask, imr, smask, irr, frames>>

\* irq_unregister_irq_handler; the attributes of the line stay.
IrqUnregister(l, h) ==
  /\ frames = << >>
  /\ \E i \in DOMAIN hdlrs[l] : hdlrs[l][i] = h /\ hdlrs' = [hdlrs EXCEPT ![l] = ListDel(@, i)]
  /\ IF hdlrs'[l] = << >> THEN IrqSetMask(l) ELSE UNCHANGED <<imask, imr>>
  /\ UNCHANGED <<iexcl, spurious, smask, irr, frames>>

\* A device raises a line (hardware).
IrqRaise(l) ==
  /\ l \notin irr
  /\ irr' = irr \cup {l}
  /\ UNCHANGED <<hdlrs, iexcl, spurious, imask, smask, imr, frames>>

\* Interrupts reach the CPU outside of handlers, and in handlers of a line
\* that no exclusive handler has claimed.
IntrEnabled == \A i \in DOMAIN frames : i = Len(frames) => frames[i].line \notin iexcl

\* What the controllers let through; the second one has the place of the
\* cascade in the order of the first (hardware).
Deliverable == {l \in irr : l \notin imr /\ (l >= 8 => Cascade \notin imr)}
Before(k, l) == IF k >= 8 THEN IF l >= 8 THEN k < l ELSE l > Cascade
                ELSE IF l >= 8 THEN k < Cascade ELSE k < l

\* Mutant: the line that is handled is not masked.
TakenMaskStays(l) == imr

\* disable, then send_eoi of kcom_handle_irqs
TakenMask(l) == imr \cup {l}

\* The end of kcom_handle_irqs if no handler has taken the interrupt: after
\* too many of them the line is masked for good.
CountSpurious(l, mask) ==
  /\ spurious' = [spurious EXCEPT ![l] = @ + 1]
  /\ IF spurious[l] + 1 = Threshold
     THEN imr' = mask \cup {l} /\ smask' = smask \cup {l}
     ELSE imr' = mask \ {l} /\ UNCHANGED smask

\* kcom_handle_irqs up to the call of the first handler
HandleIrq(l) ==
  /\ IntrEnabled /\ l \in Deliverable /\ \A k \in Deliverable : k # l => Before(l, k)
  /\ irr' = irr \ {l}
  /\ IF hdlrs[l] = << >>
     THEN CountSpurious(l, TakenMask(l)) /\ UNCHANGED frames
     ELSE /\ imr' = TakenMask(l)
          /\ frames' = Append(frames, [line |-> l, no |-> 1])
          /\ UNCHANGED <<spurious, smask>>
  /\ UNCHANGED <<hdlrs, iexcl, imask>>

\* A handler returns IRQHDL_RES_HANDLED.
Handled ==
  /\ frames # << >>
  /\ imr' = imr \ {Innermost(frames).line}
  /\ frames' = Outer(frames)
  /\ UNCHANGED <<hdlrs, iexcl, spurious, imask, smask, irr>>

\* A handler returns IRQHDL_RES_NEXT.
NotMine ==
  /\ frames # << >>
  /\ LET f == Innermost(frames) IN
       IF f.no < Len(hdlrs[f.line])
       THEN /\ frames' = [frames EXCEPT ![Len(frames)].no = @ + 1]
            /\ UNCHANGED <<spurious, smask, imr>>
       ELSE /\ frames' = Outer(frames)
            /\ CountSpurious(f.line, imr)
  /\ UNCHANGED <<hdlrs, iexcl, imask, irr>>

IrqNext ==
  \/ Handled \/ NotMine
  \/ \E l \in Line :
       \/ IrqRaise(l) \/ HandleIrq(l)
       \/ \E h \in Drives(l) : IrqRegister(l, h) \/ IrqUnregister(l, h)

IrqSpec == IrqInit /\ [][IrqNext]_irqVars
-----------------------------------------------------------------------------
\* A line never interrupts its own handlers, whose lock the CPU holds
\* ("同一割込み要因での多重割込みを抑止するため", irq/irq.c:226).
NoSameLineNesting ==
  \A i, j \in DOMAIN frames : i # j => frames[i].line # frames[j].line

\* Nothing interrupts the handlers of a line with an exclusive one.
ExclusiveNotInterrupted ==
  \A i \in 1 .. Len(frames) - 1 : frames[i].line \notin iexcl

\* Between interrupts the controllers mask exactly the lines without handler
\* and the lines that were given up as spurious.
MasksAgree ==
  /\ imask \ {Cascade} = {l \in Line : hdlrs[l] = << >>}
  /\ frames = << >> => imr = (imask \cup smask) \ {Cascade}

\* A line is given up exactly when it has had too many interrupts nobody
\* took, and it stays so even if a handler is registered later.
SpuriousStaysOff ==
  /\ \A l \in Line : l \in smask <=> spurious[l] = Threshold
  /\ \A l \in smask : l \in imr

\* Nested interrupts never enter a line that is being handled or interrupt an
\* exclusive handler, although masks change meanwhile (kcom_handle_irqs).
NestingSafe == NoSameLineNesting /\ ExclusiveNotInterrupted

\* The masks of the controllers follow handlers and spurious lines: a line is
\* open exactly if it has a handler and was not given up, also after nested
\* interrupts have changed masks (irq_set_mask, irq_unset_mask,
\* i8259_update_irq_mask).
MasksFollowHandlers == IrqTypeOK /\ MasksAgree /\ SpuriousStaysOff
=============================================================================
