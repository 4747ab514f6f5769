---------------------------- MODULE MCInterrupts ----------------------------
(***************************************************************************)
(* Interrupt lines (part "irq") and waiting for time (part "timer") in one *)
(* run; neither changes the variables of the other.                        *)
(***************************************************************************)
EXTENDS Timer, Irq

CONSTANTS h1, h2

\* The timer on line 0, two devices that share line 4, one of which claims it
\* for itself, and one device on the second controller.
MCDrives(l) == CASE l = 0 -> {h2} [] l = 4 -> {h1, h2} [] l = 10 -> {h1}

VARIABLE part

MCInit == part \in {"irq", "timer"} /\ Init /\ IrqInit

IrqPart == part = "irq" /\ IrqNext /\ UNCHANGED <<vars, part>>
TimerPart == part = "timer" /\ Next /\ UNCHANGED <<irqVars, part>>

MCSpec ==
  /\ MCInit /\ [][IrqPart \/ TimerPart]_<<vars, irqVars, part>>
  /\ part = "timer" => TimerFairness
=============================================================================
