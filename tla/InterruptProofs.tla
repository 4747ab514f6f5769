-------------------------- MODULE InterruptProofs --------------------------
(***************************************************************************)
(* Proofs about module Traps, for any threads, any number of events and    *)
(* any exceptions: the registers and the FPU registers survive switches    *)
(* and event handlers, and a fault is handled before its code goes on.     *)
(* Proofs about module Timer, for any threads and any time limits: the     *)
(* call-out queue and the sync blocks match the waits, and a wait reports  *)
(* what happened.                                                          *)
(***************************************************************************)
EXTENDS Traps, Timer, QueueLemmas

(* Traps and the return to user mode *)

Depth == 0 .. UEvents
Value == {Zero} \cup UThread \X Depth
Context ==
  [depth : Depth, stage : {"run", "enter", "return"}, ev : UNumbers \cup {0}, regs : Value]
Registers == [regs : Value, fpu : Value]
EventFrame == [ctx : Context, fpu : Value]
Pending == [no : UNumbers, at : 0 .. UEvents + 1]

CpuTypes ==
  /\ ucur \in UThread
  /\ umode \in [UThread -> {"user", "kernel", "gone"}]
  /\ uctx \in [UThread -> Context]
  /\ ustack \in [UThread -> Seq(EventFrame)]
  /\ uwant \in [UThread -> [Depth -> Registers]]

FpuTypes ==
  /\ fregs \in Value /\ fts \in BOOLEAN /\ fpctx \in [UThread -> Value]
  /\ fused = IF fts THEN {} ELSE {ucur}

QueueTypes ==
  /\ upend \in [UThread -> Seq(Pending)] /\ ppend \in Seq(Pending)
  /\ uraised \in Depth
  /\ ufault \in [UThread -> SUBSET Depth]

\* How many events wait in a queue
Waiting(q) == Len(q)

\* The frames on the stack are those of the code that was interrupted, from
\* the main program on; every handler stands for an event that was raised and
\* is not queued any more.
FramesOK(t) ==
  /\ uctx[t].depth = Len(ustack[t])
  /\ \A k \in 1 .. Len(ustack[t]) : ustack[t][k].ctx.depth = k - 1
  /\ uctx[t].depth + Waiting(upend[t]) + Waiting(ppend) <= uraised

\* What the interrupted code left in the registers is in its frame, what the
\* code at the current depth left is in the context and the FPU, or in the
\* place where the FPU registers were saved.
KeptOK(t) ==
  /\ uwant[t][uctx[t].depth].regs = uctx[t].regs
  /\ uwant[t][uctx[t].depth].fpu = FrameFpu(t)
  /\ \A k \in 1 .. Len(ustack[t]) :
       /\ uwant[t][k - 1].regs = ustack[t][k].ctx.regs
       /\ uwant[t][k - 1].fpu = ustack[t][k].fpu

\* A fault that no handler was called for is queued, and the code that raised
\* it does not run.
FaultOK(t) ==
  /\ \A d \in ufault[t] :
       /\ d <= uctx[t].depth
       /\ \E k \in DOMAIN upend[t] : upend[t][k].at = d
  /\ umode[t] = "user" => uctx[t].depth \notin ufault[t]

\* The inductive invariant
TrapsIInv ==
  /\ CpuTypes /\ FpuTypes /\ QueueTypes
  /\ \A t \in UThread : FramesOK(t) /\ FaultOK(t)
  /\ \A t \in UThread : umode[t] # "gone" => KeptOK(t)
  /\ RegistersKept /\ FaultsComeFirst

-----------------------------------------------------------------------------
LEMMA ZeroTypes == Zero \in Value /\ FreshCtx \in Context /\ NoWant \in [Depth -> Registers]
  BY TrapsAssumption DEF FreshCtx, NoWant, Value, Context, Registers, Depth

LEMMA ValueType == ASSUME TrapsIInv, NEW t \in UThread PROVE ValueOf(t) \in Value
<1>1. uctx[t].depth \in Depth
  BY DEF TrapsIInv, CpuTypes, Context
<1> QED
  BY <1>1 DEF ValueOf, Value

LEMMA WaitingType == ASSUME NEW q \in Seq(Pending) PROVE Waiting(q) \in Nat
  BY DEF Waiting

LEMMA Sizes ==
  ASSUME TrapsIInv
  PROVE  /\ UEvents \in Nat /\ uraised \in Nat /\ uraised <= UEvents /\ Waiting(ppend) \in Nat
         /\ \A u \in UThread : Waiting(upend[u]) \in Nat /\ uctx[u].depth \in Depth /\ uctx[u].depth \in Nat
<1>1. /\ uraised \in Depth /\ ppend \in Seq(Pending)
      /\ \A u \in UThread : upend[u] \in Seq(Pending) /\ uctx[u].depth \in Depth
  BY DEF TrapsIInv, CpuTypes, QueueTypes, Context
<1>2. Waiting(ppend) \in Nat /\ \A u \in UThread : Waiting(upend[u]) \in Nat
  BY <1>1, WaitingType, Zenon
<1>3. UEvents \in Nat /\ \A d \in Depth : d \in Nat /\ d <= UEvents
  BY TrapsAssumption DEF Depth
<1> QED
  BY <1>1, <1>2, <1>3, Zenon

LEMMA TrapsInitIInv == TrapInit => TrapsIInv
<1> SUFFICES ASSUME TrapInit PROVE TrapsIInv
  OBVIOUS
<1>1. CpuTypes /\ FpuTypes /\ QueueTypes
  BY TrapsAssumption, ZeroTypes DEF TrapInit, CpuTypes, FpuTypes, QueueTypes, Depth
<1>2. ASSUME NEW t \in UThread PROVE FramesOK(t) /\ FaultOK(t) /\ KeptOK(t)
  <2>1. /\ uctx[t] = FreshCtx /\ uwant[t] = NoWant /\ Len(ustack[t]) = 0 /\ Waiting(upend[t]) = 0 /\ Waiting(ppend) = 0
        /\ ufault[t] = {} /\ uraised = 0 /\ fused = {} /\ fpctx[t] = Zero
    BY DEF TrapInit, Waiting
  <2>2. FramesOK(t) /\ FaultOK(t)
    BY <2>1 DEF FramesOK, FaultOK, FreshCtx
  <2>3. NoWant[0].regs = Zero /\ NoWant[0].fpu = Zero
    BY TrapsAssumption DEF NoWant
  <2>4. uctx[t].depth = 0 /\ uctx[t].regs = Zero /\ FrameFpu(t) = Zero
    BY <2>1 DEF FrameFpu, FreshCtx
  <2>5. KeptOK(t)
    BY <2>1, <2>3, <2>4 DEF KeptOK
  <2> QED
    BY <2>2, <2>5
<1>3. RegistersKept /\ FaultsComeFirst
  BY DEF TrapInit, RegistersKept, FaultsComeFirst
<1> QED
  BY <1>1, <1>2, <1>3 DEF TrapsIInv

\* Nothing happens to thread u, or it enters the kernel.
Steady(u) ==
  /\ uctx'[u] = uctx[u] /\ ustack'[u] = ustack[u] /\ uwant'[u] = uwant[u]
  /\ upend'[u] = upend[u] /\ ufault'[u] = ufault[u]
  /\ umode'[u] = umode[u] \/ (umode[u] = "user" /\ umode'[u] = "kernel")

ThreadOK(u) == FramesOK(u) /\ FaultOK(u) /\ (umode[u] # "gone" => KeptOK(u))

LEMMA SteadyOK ==
  ASSUME TrapsIInv, NEW u \in UThread, Steady(u), FrameFpu(u)' = FrameFpu(u),
         uraised' \in Nat, ppend' \in Seq(Pending), Waiting(ppend') - Waiting(ppend) <= uraised' - uraised
  PROVE  ThreadOK(u)'
<1>1. FramesOK(u) /\ FaultOK(u) /\ (umode[u] # "gone" => KeptOK(u))
  BY DEF TrapsIInv
<1>2. /\ Waiting(ppend) \in Nat /\ Waiting(ppend') \in Nat /\ uraised \in Nat /\ Waiting(upend[u]) \in Nat
      /\ uctx[u].depth \in Nat
  BY Sizes, WaitingType
<1>3. FramesOK(u)'
  <2>1. uctx[u].depth + Waiting(upend[u]) + Waiting(ppend) <= uraised
    BY <1>1 DEF FramesOK
  <2>2. uctx[u].depth + Waiting(upend[u]) + Waiting(ppend') <= uraised'
    BY <1>2, <2>1
  <2> QED
    BY <1>1, <2>2, Zenon DEF FramesOK, Steady
<1>4. FaultOK(u)'
  BY <1>1, Zenon DEF FaultOK, Steady
<1>5. umode'[u] # "gone" => KeptOK(u)'
  BY <1>1, Zenon DEF KeptOK, Steady
<1> QED
  BY <1>3, <1>4, <1>5 DEF ThreadOK

\* A step of thread t: nothing happens to the others.
LEMMA OneThreadIInv ==
  ASSUME TrapsIInv, NEW t \in UThread, CpuTypes', FpuTypes', QueueTypes', ThreadOK(t)',
         \A u \in UThread \ {t} : Steady(u) /\ FrameFpu(u)' = FrameFpu(u),
         Waiting(ppend') - Waiting(ppend) <= uraised' - uraised,
         useen' = useen \/ (RegistersKept' /\ FaultsComeFirst')
  PROVE  TrapsIInv'
<1>1. uraised' \in Nat /\ ppend' \in Seq(Pending)
  BY TrapsAssumption DEF QueueTypes, Depth
<1>2. \A u \in UThread \ {t} : ThreadOK(u)'
  BY <1>1, SteadyOK
<1>3. RegistersKept' /\ FaultsComeFirst'
  BY DEF TrapsIInv, RegistersKept, FaultsComeFirst
<1> QED
  BY <1>2, <1>3, Zenon DEF TrapsIInv, ThreadOK

\* The FPU registers of a thread are where they were, or have been moved.
LEMMA FpuMovesIInv ==
  ASSUME TrapsIInv, FpuTypes', ucur' \in UThread,
         \A u \in UThread : Steady(u) /\ FrameFpu(u)' = FrameFpu(u),
         umode' \in [UThread -> {"user", "kernel", "gone"}],
         UNCHANGED <<uctx, ustack, uwant, upend, ppend, uraised, ufault, useen>>
  PROVE  TrapsIInv'
<1>1. CpuTypes' /\ QueueTypes'
  BY DEF TrapsIInv, CpuTypes, QueueTypes
<1>2. uraised' \in Nat /\ ppend' \in Seq(Pending) /\ Waiting(ppend') - Waiting(ppend) <= uraised' - uraised
  <2>1. uraised' = uraised /\ ppend' = ppend /\ ppend \in Seq(Pending)
    BY DEF TrapsIInv, QueueTypes
  <2>2. uraised \in Nat /\ Waiting(ppend) \in Nat
    BY Sizes, Zenon
  <2> QED
    BY <2>1, <2>2
<1>3. \A u \in UThread : ThreadOK(u)'
  BY <1>2, SteadyOK
<1>4. RegistersKept' /\ FaultsComeFirst'
  BY DEF TrapsIInv, RegistersKept, FaultsComeFirst
<1> QED
  BY <1>1, <1>3, <1>4 DEF TrapsIInv, ThreadOK

\* Steps that nothing of this is changed by, but for the mode of a thread
LEMMA SteadyIInv ==
  ASSUME TrapsIInv, \A u \in UThread : Steady(u), umode' \in [UThread -> {"user", "kernel", "gone"}],
         UNCHANGED <<ucur, uctx, ustack, uwant, fregs, fts, fused, fpctx, upend, ppend, uraised, ufault, useen>>
  PROVE  TrapsIInv'
<1>1. FpuTypes' /\ ucur' \in UThread
  BY DEF TrapsIInv, CpuTypes, FpuTypes
<1>2. \A u \in UThread : FrameFpu(u)' = FrameFpu(u)
  BY DEF FrameFpu
<1> QED
  BY <1>1, <1>2, FpuMovesIInv, Zenon

-----------------------------------------------------------------------------
(* User mode *)

\* An instruction of thread t that finds and leaves values in its registers,
\* also one that enters the kernel
LEMMA RegsIInv ==
  ASSUME TrapsIInv, NEW t \in UThread, InHandler(t, "run"),
         uctx' = [uctx EXCEPT ![t].regs = ValueOf(t)],
         Instruction(t, "regs", uctx[t].regs, ValueOf(t)),
         umode' = umode \/ ToKernel(t),
         UNCHANGED <<ucur, ustack, fregs, fts, fused, fpctx, upend, ppend, uraised>>
  PROVE  TrapsIInv'
<1> DEFINE d == uctx[t].depth
           v == ValueOf(t)
<1>1. v \in Value /\ d \in Depth /\ umode[t] = "user" /\ KeptOK(t) /\ FaultOK(t) /\ FramesOK(t)
  BY ValueType DEF TrapsIInv, InHandler, Runs, CpuTypes, Context
<1>2. /\ uwant' = [uwant EXCEPT ![t][d].regs = v]
      /\ useen' = [kept |-> uctx[t].regs = uwant[t][d].regs, fault |-> d \in ufault[t]]
      /\ ufault' = ufault /\ uctx' = [uctx EXCEPT ![t].regs = v]
  BY Zenon DEF Instruction
<1> HIDE DEF v
<1>3. CpuTypes'
  <2>1. uctx' \in [UThread -> Context]
    <3>1. uctx[t] \in Context /\ uctx \in [UThread -> Context]
      BY DEF TrapsIInv, CpuTypes
    <3>2. [uctx[t] EXCEPT !.regs = v] \in Context
      BY <1>1, <3>1 DEF Context
    <3> QED
      BY <1>2, <3>1, <3>2
  <2>2. uwant' \in [UThread -> [Depth -> Registers]]
    <3>1. uwant[t] \in [Depth -> Registers] /\ uwant[t][d] \in Registers
      BY <1>1, Zenon DEF TrapsIInv, CpuTypes
    <3>2. [uwant[t][d] EXCEPT !.regs = v] \in Registers
      BY <1>1, <3>1 DEF Registers
    <3> QED
      BY <1>2, <3>1, <3>2, Zenon DEF TrapsIInv, CpuTypes
  <2>3. umode' \in [UThread -> {"user", "kernel", "gone"}]
    BY Zenon DEF TrapsIInv, CpuTypes, ToKernel
  <2> QED
    BY <2>1, <2>2, <2>3, Zenon DEF TrapsIInv, CpuTypes
<1>4. FpuTypes' /\ QueueTypes'
  BY <1>2, Zenon DEF TrapsIInv, FpuTypes, QueueTypes
<1>5. \A u \in UThread \ {t} : Steady(u) /\ FrameFpu(u)' = FrameFpu(u)
  BY <1>2 DEF TrapsIInv, CpuTypes, Steady, ToKernel, FrameFpu
<1>6. ThreadOK(t)'
  <2>1. uctx'[t].depth = d /\ uctx'[t].regs = v /\ umode'[t] \in {"user", "kernel"}
    <3>1. umode'[t] \in {"user", "kernel"}
      BY <1>1, Zenon DEF TrapsIInv, CpuTypes, ToKernel
    <3> QED
      BY <1>2, <3>1 DEF TrapsIInv, CpuTypes, Context
  <2>2. /\ uwant'[t][d].regs = v /\ uwant'[t][d].fpu = uwant[t][d].fpu
        /\ \A e \in Depth : e # d => uwant'[t][e] = uwant[t][e]
    BY <1>1, <1>2 DEF TrapsIInv, CpuTypes, Registers
  <2>3. FramesOK(t)' /\ FaultOK(t)'
    BY <1>1, <1>2, <2>1, Zenon DEF FramesOK, FaultOK
  <2>4. KeptOK(t)'
    <3>1. FrameFpu(t)' = FrameFpu(t)
      BY DEF FrameFpu
    <3>2. d = Len(ustack[t]) /\ \A k \in 1 .. Len(ustack[t]) : k - 1 \in Depth /\ k - 1 # d
      BY <1>1, TrapsAssumption DEF FramesOK, Depth
    <3> QED
      BY <1>1, <2>1, <2>2, <3>1, <3>2, Zenon DEF KeptOK
  <2> QED
    BY <2>3, <2>4, Zenon DEF ThreadOK
<1>7. RegistersKept' /\ FaultsComeFirst'
  BY <1>1, <1>2, Zenon DEF RegistersKept, FaultsComeFirst, KeptOK, FaultOK
<1>8. Waiting(ppend') - Waiting(ppend) <= uraised' - uraised
  BY Sizes
<1> QED
  BY <1>3, <1>4, <1>5, <1>6, <1>7, <1>8, OneThreadIInv, Zenon

\* An FPU instruction: the FPU registers are those of the thread.
LEMMA FpuWorkIInv ==
  ASSUME TrapsIInv, NEW t \in UThread, FpuWork(t)
  PROVE  TrapsIInv'
<1> DEFINE d == uctx[t].depth
           v == ValueOf(t)
<1>1. v \in Value /\ d \in Depth /\ umode[t] = "user" /\ KeptOK(t) /\ FaultOK(t) /\ FramesOK(t)
  BY ValueType DEF TrapsIInv, FpuWork, InHandler, Runs, CpuTypes, Context
<1>2. /\ uwant' = [uwant EXCEPT ![t][d].fpu = v]
      /\ useen' = [kept |-> fregs = uwant[t][d].fpu, fault |-> d \in ufault[t]]
      /\ ufault' = ufault /\ fregs' = v /\ ~fts /\ ucur = t
      /\ UNCHANGED <<ucur, umode, uctx, ustack, fts, fused, fpctx, upend, ppend, uraised>>
  BY Zenon DEF FpuWork, Instruction, InHandler, Runs
<1> HIDE DEF v
<1>3. CpuTypes'
  <2>1. uwant[t] \in [Depth -> Registers] /\ uwant[t][d] \in Registers
    BY <1>1, Zenon DEF TrapsIInv, CpuTypes
  <2>2. [uwant[t][d] EXCEPT !.fpu = v] \in Registers
    BY <1>1, <2>1 DEF Registers
  <2>3. uwant' \in [UThread -> [Depth -> Registers]]
    BY <1>2, <2>1, <2>2, Zenon DEF TrapsIInv, CpuTypes
  <2> QED
    BY <1>2, <2>3, Zenon DEF TrapsIInv, CpuTypes
<1>4. FpuTypes' /\ QueueTypes' /\ fused = {t}
  BY <1>1, <1>2, Zenon DEF TrapsIInv, FpuTypes, QueueTypes
<1>5. \A u \in UThread \ {t} : Steady(u) /\ FrameFpu(u)' = FrameFpu(u)
  BY <1>2, <1>4, Zenon DEF TrapsIInv, CpuTypes, Steady, FrameFpu
<1>6. ThreadOK(t)'
  <2>1. /\ uwant'[t][d].fpu = v /\ uwant'[t][d].regs = uwant[t][d].regs
        /\ \A e \in Depth : e # d => uwant'[t][e] = uwant[t][e]
    BY <1>1, <1>2 DEF TrapsIInv, CpuTypes, Registers
  <2>2. FramesOK(t)' /\ FaultOK(t)'
    BY <1>1, <1>2, Zenon DEF FramesOK, FaultOK
  <2>3. KeptOK(t)'
    <3>1. FrameFpu(t)' = v
      BY <1>2, <1>4, Zenon DEF FrameFpu
    <3>2. d = Len(ustack[t]) /\ \A k \in 1 .. Len(ustack[t]) : k - 1 \in Depth /\ k - 1 # d
      BY <1>1, TrapsAssumption, SMTT(20) DEF FramesOK, Depth
    <3> QED
      BY <1>1, <1>2, <2>1, <3>1, <3>2 DEF KeptOK
  <2> QED
    BY <2>2, <2>3, Zenon DEF ThreadOK
<1>7. RegistersKept' /\ FaultsComeFirst'
  BY <1>1, <1>2, <1>4, Zenon DEF RegistersKept, FaultsComeFirst, KeptOK, FaultOK, FrameFpu
<1>8. Waiting(ppend') - Waiting(ppend) <= uraised' - uraised
  BY <1>2, Sizes
<1> QED
  BY <1>3, <1>4, <1>5, <1>6, <1>7, <1>8, OneThreadIInv, Zenon

\* Arithmetic of the count of raised events: a thread that leaves its handlers
\* and loses events still fits in the count that it fitted in before.
LEMMA LessWaiting ==
  ASSUME NEW d \in Nat, NEW a \in Nat, NEW b \in Nat, NEW a1 \in Nat, NEW b1 \in Nat, NEW r \in Nat,
         d + a + b <= r, a1 <= a, b1 <= b
  PROVE  0 + a1 + b1 <= r
  OBVIOUS

\* The end of a thread, with whatever events are left for it
LEMMA EndsIInv ==
  ASSUME TrapsIInv, NEW t \in UThread, Ends(t),
         upend' \in [UThread -> Seq(Pending)], Waiting(upend'[t]) <= Waiting(upend[t]),
         \A u \in UThread \ {t} : upend'[u] = upend[u],
         ppend' \in Seq(Pending), Waiting(ppend') <= Waiting(ppend),
         UNCHANGED <<ucur, fregs, fts, fused, fpctx, uraised, useen>>
  PROVE  TrapsIInv'
<1>1. /\ umode'[t] = "gone" /\ uctx'[t] = FreshCtx /\ ustack'[t] = << >> /\ ufault'[t] = {}
      /\ \A u \in UThread \ {t} : Steady(u)
  BY Zenon DEF Ends, TrapsIInv, CpuTypes, QueueTypes, Steady
<1>2. CpuTypes'
  BY ZeroTypes, SMTT(20) DEF Ends, TrapsIInv, CpuTypes
<1>3. FpuTypes' /\ QueueTypes'
  BY Zenon DEF Ends, TrapsIInv, FpuTypes, QueueTypes
<1>4. /\ uraised' \in Nat /\ Waiting(ppend') \in Nat /\ Waiting(ppend) \in Nat /\ Waiting(upend[t]) \in Nat /\ Waiting(upend'[t]) \in Nat
      /\ Waiting(ppend') - Waiting(ppend) <= uraised' - uraised
  <2>1. Waiting(ppend') \in Nat /\ Waiting(upend'[t]) \in Nat
    BY WaitingType
  <2> QED
    BY <2>1, Sizes, SMTT(20)
<1>5. \A u \in UThread : FrameFpu(u)' = FrameFpu(u)
  BY Zenon DEF FrameFpu
<1>6. ThreadOK(t)'
  <2>1. uctx[t].depth + Waiting(upend[t]) + Waiting(ppend) <= uraised /\ uctx[t].depth \in Nat
    BY Sizes, Zenon DEF TrapsIInv, FramesOK
  <2>2. 0 + Waiting(upend'[t]) + Waiting(ppend') <= uraised'
    <3>1. uraised' \in Nat /\ uctx[t].depth + Waiting(upend[t]) + Waiting(ppend) <= uraised'
      BY <1>4, <2>1, Zenon
    <3> QED
      BY <1>4, <2>1, <3>1, LessWaiting, SMTT(20)
  <2>3. uctx'[t].depth = 0 /\ Len(ustack'[t]) = 0
    BY <1>1, SMTT(20) DEF FreshCtx
  <2>4. FramesOK(t)'
    <3>1. uctx'[t].depth + Waiting(upend'[t]) + Waiting(ppend') <= uraised'
      BY <2>2, <2>3, Zenon
    <3>2. uctx'[t].depth = Len(ustack'[t])
      BY <2>3, Zenon
    <3>3. \A k \in 1 .. Len(ustack'[t]) : ustack'[t][k].ctx.depth = k - 1
      BY <2>3, SMTT(20)
    <3> QED
      BY <3>1, <3>2, <3>3, Zenon DEF FramesOK
  <2>5. FaultOK(t)'
    BY <1>1 DEF FaultOK
  <2> QED
    BY <1>1, <2>4, <2>5, Zenon DEF ThreadOK
<1> QED
  BY <1>1, <1>2, <1>3, <1>4, <1>5, <1>6, OneThreadIInv, Zenon

LEMMA InvokeHandlerIInv ==
  ASSUME TrapsIInv, NEW t \in UThread, InvokeHandler(t)
  PROVE  TrapsIInv'
<1>1. CASE Ends(t)
  <2>1. UNCHANGED <<ucur, fregs, fts, fused, fpctx, uraised, useen, upend, ppend>>
    BY DEF InvokeHandler, FpuSame
  <2>2. upend \in [UThread -> Seq(Pending)] /\ ppend \in Seq(Pending)
    BY Zenon DEF TrapsIInv, QueueTypes
  <2>3. Waiting(upend[t]) \in Nat /\ Waiting(ppend) \in Nat
    BY Sizes, Zenon
  <2> QED
    BY <1>1, <2>1, <2>2, <2>3, EndsIInv
<1>2. CASE ~Ends(t)
  <2>1. PICK s \in {"run", "return"} : uctx' = [uctx EXCEPT ![t].stage = s]
    BY <1>2 DEF InvokeHandler
  <2>2. UNCHANGED <<ucur, umode, ustack, uwant, fregs, fts, fused, fpctx, upend, ppend, uraised, ufault, useen>>
    BY <1>2 DEF InvokeHandler, FpuSame
  <2>3. uctx \in [UThread -> Context] /\ [uctx[t] EXCEPT !.stage = s] \in Context
    BY Zenon DEF TrapsIInv, CpuTypes, Context
  <2>4. /\ uctx' \in [UThread -> Context]
        /\ \A u \in UThread : uctx'[u].depth = uctx[u].depth /\ uctx'[u].regs = uctx[u].regs
    <3>1. \A u \in UThread : u # t => uctx'[u] = uctx[u]
      BY <2>1, <2>3, Zenon
    <3>2. uctx'[t].depth = uctx[t].depth /\ uctx'[t].regs = uctx[t].regs
      BY <2>1, <2>3, Zenon DEF Context
    <3> QED
      BY <2>1, <2>3, <3>1, <3>2
  <2>5. CpuTypes' /\ FpuTypes' /\ QueueTypes'
    BY <2>2, <2>4, Zenon DEF TrapsIInv, CpuTypes, FpuTypes, QueueTypes
  <2>6. \A u \in UThread : FramesOK(u)' /\ FaultOK(u)'
    <3>1. \A u \in UThread : FramesOK(u) => FramesOK(u)'
      BY <2>2, <2>4, Zenon DEF FramesOK
    <3>2. \A u \in UThread : FaultOK(u) => FaultOK(u)'
      BY <2>2, <2>4, Zenon DEF FaultOK
    <3> QED
      BY <3>1, <3>2, Zenon DEF TrapsIInv
  <2>7. \A u \in UThread : umode'[u] # "gone" => KeptOK(u)'
    BY <2>2, <2>4, SMTT(20) DEF TrapsIInv, KeptOK, FrameFpu
  <2>8. RegistersKept' /\ FaultsComeFirst'
    BY <2>2, Zenon DEF TrapsIInv, RegistersKept, FaultsComeFirst
  <2> QED
    BY <2>5, <2>6, <2>7, <2>8, Zenon DEF TrapsIInv
<1> QED
  BY <1>1, <1>2, Zenon
-----------------------------------------------------------------------------
(* Switches, and the FPU *)

\* The registers are loaded at the first FPU instruction.
LEMMA DeviceNotAvailableIInv ==
  ASSUME TrapsIInv, NEW t \in UThread, DeviceNotAvailable(t)
  PROVE  TrapsIInv'
<1>1. /\ fts /\ fused = {} /\ fused' = {t} /\ ~fts' /\ fregs' = fpctx[t] /\ fpctx' = fpctx /\ ucur = t /\ umode[t] = "user"
      /\ umode' = [umode EXCEPT ![t] = "kernel"]
      /\ UNCHANGED <<ucur, uctx, ustack, uwant, upend, ppend, uraised, ufault, useen>>
  BY DEF TrapsIInv, FpuTypes, DeviceNotAvailable, InHandler, Runs, ToKernel, HistorySame
<1>2. FpuTypes' /\ ucur' \in UThread
  BY <1>1, Zenon DEF TrapsIInv, FpuTypes, DeviceNotAvailable
<1>3. \A u \in UThread : Steady(u) /\ FrameFpu(u)' = FrameFpu(u)
  BY <1>1, Zenon DEF TrapsIInv, CpuTypes, Steady, FrameFpu
<1>4. umode' \in [UThread -> {"user", "kernel", "gone"}]
  BY <1>1, Zenon DEF TrapsIInv, CpuTypes
<1> QED
  BY <1>1, <1>2, <1>3, <1>4, FpuMovesIInv, Zenon

\* They are saved at a switch from a thread that has used them.
LEMMA SwitchThreadsIInv ==
  ASSUME TrapsIInv, NEW t \in UThread, NEW w \in UThread, SwitchThreads(t, w)
  PROVE  TrapsIInv'
<1>1. /\ ucur = t /\ ucur' = w /\ fts' = TRUE /\ fregs' = fregs
      /\ UNCHANGED <<umode, uctx, ustack, uwant, upend, ppend, uraised, ufault, useen>>
  BY Zenon DEF SwitchThreads, HistorySame
<1>2. \A u \in UThread : Steady(u)
  BY <1>1, Zenon DEF Steady
<1>3. FpuTypes' /\ \A u \in UThread : FrameFpu(u)' = FrameFpu(u)
  <2>1. CASE t \in fused
    <3>1. fpctx' = [fpctx EXCEPT ![t] = fregs] /\ fused = {t} /\ fused' = {}
      BY <1>1, <2>1, Zenon DEF TrapsIInv, FpuTypes, SwitchThreads
    <3> QED
      BY <1>1, <3>1, Zenon DEF TrapsIInv, FpuTypes, FrameFpu
  <2>2. CASE t \notin fused
    <3>1. fpctx' = fpctx /\ fused = {} /\ fused' = {}
      BY <1>1, <2>2, Zenon DEF TrapsIInv, FpuTypes, SwitchThreads
    <3> QED
      BY <1>1, <3>1, Zenon DEF TrapsIInv, FpuTypes, FrameFpu
  <2> QED
    BY <2>1, <2>2, Zenon
<1>4. ucur' \in UThread /\ umode' \in [UThread -> {"user", "kernel", "gone"}]
  BY <1>1, Zenon DEF TrapsIInv, CpuTypes
<1> QED
  BY <1>1, <1>2, <1>3, <1>4, FpuMovesIInv, Zenon
-----------------------------------------------------------------------------
(* Traps: event frames, exceptions and returns *)


\* Sequences one longer; the new element is at the end.
LEMMA AppendPending ==
  ASSUME NEW q \in Seq(Pending), NEW e \in Pending
  PROVE  /\ Append(q, e) \in Seq(Pending) /\ Waiting(q) \in Nat /\ Waiting(Append(q, e)) = Waiting(q) + 1
         /\ \E k \in DOMAIN Append(q, e) : Append(q, e)[k] = e
         /\ \A k \in DOMAIN q : k \in DOMAIN Append(q, e) /\ Append(q, e)[k] = q[k]
  BY DEF Waiting

\* An event is raised for thread t, by others or by a fault of its own, which
\* then enters the kernel.
LEMMA RaisedIInv ==
  ASSUME TrapsIInv, NEW t \in UThread, NEW e \in Pending, RaiseEvent,
         upend' = [upend EXCEPT ![t] = Append(@, e)],
         \/ UNCHANGED <<umode, ufault>>
         \/ /\ umode[t] = "user" /\ umode' = [umode EXCEPT ![t] = "kernel"] /\ e.at = uctx[t].depth
            /\ ufault' = [ufault EXCEPT ![t] = @ \cup {e.at}],
         UNCHANGED <<ucur, uctx, ustack, uwant, fregs, fts, fused, fpctx, ppend, useen>>
  PROVE  TrapsIInv'
<1>1. uraised \in Nat /\ uraised' = uraised + 1 /\ uraised' \in Depth
  BY Sizes DEF RaiseEvent, Depth
<1>2. /\ upend[t] \in Seq(Pending) /\ upend'[t] = Append(upend[t], e)
      /\ \A u \in UThread \ {t} : upend'[u] = upend[u]
  BY DEF TrapsIInv, QueueTypes
<1>3. upend' \in [UThread -> Seq(Pending)] /\ ppend \in Seq(Pending)
  BY <1>2, AppendPending, Zenon DEF TrapsIInv, QueueTypes
<1>4. CpuTypes' /\ FpuTypes'
  BY Zenon DEF TrapsIInv, CpuTypes, FpuTypes
<1>5. uctx[t].depth \in Depth /\ ufault' \in [UThread -> SUBSET Depth]
  <2>1. uctx[t].depth \in Depth
    BY Zenon DEF TrapsIInv, CpuTypes, Context
  <2>2. ufault \in [UThread -> SUBSET Depth]
    BY Zenon DEF TrapsIInv, QueueTypes
  <2>3. CASE UNCHANGED <<umode, ufault>>
    BY <2>1, <2>2, <2>3, Zenon
  <2>4. CASE e.at = uctx[t].depth /\ ufault' = [ufault EXCEPT ![t] = @ \cup {e.at}]
    <3>1. ufault[t] \cup {e.at} \in SUBSET Depth
      BY <2>1, <2>2, <2>4, Zenon
    <3> QED
      BY <2>1, <2>2, <2>4, <3>1, Zenon
  <2> QED
    BY <2>3, <2>4, Zenon
<1>6. QueueTypes'
  BY <1>1, <1>3, <1>5, Zenon DEF QueueTypes
<1>7. \A u \in UThread : FrameFpu(u)' = FrameFpu(u)
  BY Zenon DEF FrameFpu
<1>8. \A u \in UThread \ {t} : Steady(u)
  BY <1>2, Zenon DEF TrapsIInv, CpuTypes, QueueTypes, Steady
<1>9. ThreadOK(t)'
  <2>1. FramesOK(t) /\ FaultOK(t) /\ (umode[t] # "gone" => KeptOK(t))
    BY DEF TrapsIInv
  <2>2. FramesOK(t)'
    <3>1. Waiting(upend'[t]) = Waiting(upend[t]) + 1 /\ Waiting(upend[t]) \in Nat /\ Waiting(ppend) \in Nat /\ uctx[t].depth \in Nat
      BY <1>2, Sizes, AppendPending, Zenon
    <3>2. uctx[t].depth + Waiting(upend[t]) + Waiting(ppend) <= uraised
      BY <2>1, Zenon DEF FramesOK
    <3>3. uctx[t].depth + Waiting(upend'[t]) + Waiting(ppend) <= uraised'
      BY <1>1, <3>1, <3>2
    <3> QED
      BY <2>1, <3>3, Zenon DEF FramesOK
  <2>3. FaultOK(t)'
    <3>1. ASSUME NEW d \in ufault[t] PROVE d <= uctx[t].depth /\ \E k \in DOMAIN upend'[t] : upend'[t][k].at = d
      <4>1. d <= uctx[t].depth /\ \E k \in DOMAIN upend[t] : upend[t][k].at = d
        BY <2>1, <3>1, Zenon DEF FaultOK
      <4> QED
        BY <1>2, <4>1, AppendPending
    <3>2. \E k \in DOMAIN upend'[t] : upend'[t][k].at = e.at
      BY <1>2, AppendPending
    <3>3. CASE UNCHANGED <<umode, ufault>>
      BY <2>1, <3>1, <3>3, Zenon DEF FaultOK
    <3>4. CASE umode'[t] = "kernel" /\ e.at = uctx[t].depth /\ ufault'[t] = ufault[t] \cup {e.at}
      <4>1. e.at <= uctx[t].depth
        BY <1>5, <3>4 DEF Depth
      <4> QED
        BY <3>1, <3>2, <3>4, <4>1, Zenon DEF FaultOK
    <3> QED
      BY <3>3, <3>4, Zenon DEF TrapsIInv, CpuTypes, QueueTypes
  <2>4. umode'[t] # "gone" => KeptOK(t)'
    BY <1>7, <2>1, Zenon DEF KeptOK
  <2> QED
    BY <2>2, <2>3, <2>4, Zenon DEF ThreadOK
<1>10. Waiting(ppend') - Waiting(ppend) <= uraised' - uraised
  BY <1>1, Sizes
<1> QED
  BY <1>4, <1>6, <1>7, <1>8, <1>9, <1>10, OneThreadIInv, Zenon

LEMMA CpuExceptionIInv ==
  ASSUME TrapsIInv, NEW t \in UThread, NEW n \in UTraps, CpuException(t, n)
  PROVE  TrapsIInv'
<1>1. /\ umode[t] = "user" /\ uctx[t].depth \in Depth
      /\ UNCHANGED <<ucur, fregs, fts, fused, fpctx, ppend, useen>>
  BY Zenon DEF TrapsIInv, CpuTypes, Context, CpuException, InHandler, Runs, FpuSame
<1>2. /\ upend \in [UThread -> Seq(Pending)] /\ ppend \in Seq(Pending)
      /\ \A u \in UThread : Waiting(upend[u]) \in Nat
      /\ Waiting(ppend) \in Nat /\ umode \in [UThread -> {"user", "kernel", "gone"}]
  BY Sizes, Zenon DEF TrapsIInv, CpuTypes, QueueTypes
<1>3. CASE /\ n \in EventTraps /\ RaiseEvent /\ ToKernel(t)
           /\ upend' = [upend EXCEPT ![t] = Append(@, [no |-> TrapEvent(n), at |-> uctx[t].depth])]
           /\ ufault' = [ufault EXCEPT ![t] = @ \cup {uctx[t].depth}]
           /\ UNCHANGED <<uctx, ustack, uwant, uhalt>>
  <2> DEFINE e == [no |-> TrapEvent(n), at |-> uctx[t].depth]
  <2>1. TrapEvent(n) \in UNumbers
    BY <1>3, Zenon DEF EventTraps, TrapEvent, UNumbers
  <2>2. e \in Pending /\ e.at = uctx[t].depth
    <3>1. uctx[t].depth \in 0 .. UEvents + 1
      BY <1>1, TrapsAssumption DEF Depth
    <3> QED
      BY <2>1, <3>1, Zenon DEF Pending
  <2>3. upend' = [upend EXCEPT ![t] = Append(@, e)]
    BY <1>3, Zenon
  <2> HIDE DEF e
  <2> QED
    BY <1>1, <1>3, <2>2, <2>3, RaisedIInv, Zenon DEF ToKernel
<1>4. CASE Ends(t) /\ UNCHANGED <<upend, uhalt, uraised>>
  <2>1. upend' = upend /\ ppend' = ppend
    BY <1>1, <1>4, Zenon
  <2>2. Waiting(upend'[t]) <= Waiting(upend[t]) /\ Waiting(ppend') <= Waiting(ppend)
    <3>1. \A n1 \in Nat : n1 <= n1
      OBVIOUS
    <3> QED
      BY <1>2, <2>1, <3>1, Zenon
  <2>3. upend' \in [UThread -> Seq(Pending)] /\ ppend' \in Seq(Pending)
    BY <1>2, <2>1, Zenon
  <2> QED
    BY <1>1, <1>4, <2>1, <2>2, <2>3, EndsIInv, Zenon
<1>5. CASE UNCHANGED <<uctx, ustack, uwant, ufault, upend, uraised>> /\ (umode' = umode \/ ToKernel(t))
  <2>1. \A u \in UThread : Steady(u)
    BY <1>1, <1>2, <1>5, Zenon DEF Steady, ToKernel
  <2>2. umode' \in [UThread -> {"user", "kernel", "gone"}]
    BY <1>2, <1>5, Zenon DEF ToKernel
  <2> QED
    BY <1>1, <1>5, <2>1, <2>2, SteadyIInv, Zenon
<1> QED
  BY <1>3, <1>4, <1>5, Zenon DEF CpuException

LEMMA USendIInv ==
  ASSUME TrapsIInv, NEW t \in UThread, NEW i \in USent, USend(t, i)
  PROVE  TrapsIInv'
<1> DEFINE e == [no |-> i, at |-> UEvents + 1]
<1>1. e \in Pending
  BY TrapsAssumption DEF Pending, UNumbers
<1>2. RaiseEvent /\ UNCHANGED <<ucur, umode, uctx, ustack, uwant, fregs, fts, fused, fpctx, ufault, useen>>
  BY Zenon DEF USend, FpuSame, HistorySame
<1>3. \/ upend' = [upend EXCEPT ![t] = Append(@, e)] /\ ppend' = ppend
      \/ ppend' = Append(ppend, e) /\ upend' = upend
  BY DEF USend
<1> HIDE DEF e
<1>4. CASE upend' = [upend EXCEPT ![t] = Append(@, e)] /\ ppend' = ppend
  BY <1>1, <1>2, <1>4, RaisedIInv, Zenon
<1>5. CASE ppend' = Append(ppend, e) /\ upend' = upend
  <2>1. uraised \in Nat /\ uraised' = uraised + 1 /\ uraised' \in Depth
    BY <1>2, Sizes DEF RaiseEvent, Depth
  <2>2. ppend' \in Seq(Pending) /\ Waiting(ppend) \in Nat /\ Waiting(ppend') = Waiting(ppend) + 1
    BY <1>1, <1>5, AppendPending, Zenon DEF TrapsIInv, QueueTypes
  <2>3. CpuTypes' /\ FpuTypes' /\ QueueTypes'
    BY <1>2, <1>5, <2>1, <2>2, Zenon DEF TrapsIInv, CpuTypes, FpuTypes, QueueTypes
  <2>4. ASSUME NEW u \in UThread PROVE ThreadOK(u)'
    <3>1. Steady(u) /\ FrameFpu(u)' = FrameFpu(u)
      BY <1>2, <1>5, Zenon DEF Steady, FrameFpu
    <3>2. uraised' \in Nat /\ Waiting(ppend') - Waiting(ppend) <= uraised' - uraised
      BY <2>1, <2>2
    <3> QED
      BY <2>2, <3>1, <3>2, SteadyOK, Zenon
  <2>5. RegistersKept' /\ FaultsComeFirst'
    BY <1>2, Zenon DEF TrapsIInv, RegistersKept, FaultsComeFirst
  <2> QED
    BY <2>3, <2>4, <2>5, Zenon DEF TrapsIInv, ThreadOK
<1> QED
  BY <1>3, <1>4, <1>5, Zenon

\* An event that has left its queue makes room for its handler.
LEMMA RoomForHandler ==
  ASSUME NEW n \in Nat, NEW a \in Nat, NEW b \in Nat, NEW a1 \in Nat, NEW b1 \in Nat, NEW r \in Nat, NEW m \in Nat,
         n + a + b <= r, r <= m, a1 + b1 + 1 = a + b
  PROVE  n + 1 <= m /\ (n + 1) + a1 + b1 <= r
  OBVIOUS

\* The events of thread t that are not of the same place as e stay queued.
OthersQueued(t, e) ==
  \A k \in DOMAIN upend[t] :
    upend[t][k].at # e.at => \E j \in DOMAIN upend'[t] : upend'[t][j].at = upend[t][k].at

\* A handler is called for an event that has left its queue: the frame holds
\* what the interrupted code left in the registers.
LEMMA EnterHandlerIInv ==
  ASSUME TrapsIInv, NEW t \in UThread, umode[t] = "kernel", NEW e \in Pending, EnterHandler(t, e),
         upend' \in [UThread -> Seq(Pending)], ppend' \in Seq(Pending),
         Waiting(upend'[t]) + Waiting(ppend') + 1 = Waiting(upend[t]) + Waiting(ppend), Waiting(ppend') <= Waiting(ppend),
         \A u \in UThread \ {t} : upend'[u] = upend[u],
         OthersQueued(t, e),
         UNCHANGED <<ucur, fregs, fts, fused, fpctx, uraised, useen>>
  PROVE  TrapsIInv'
<1> DEFINE d == uctx[t].depth
           f == [ctx |-> uctx[t], fpu |-> FrameFpu(t)]
<1>1. FramesOK(t) /\ FaultOK(t) /\ KeptOK(t)
  BY Zenon DEF TrapsIInv
<1>2. /\ d \in Nat /\ uraised \in Nat /\ uraised <= UEvents /\ UEvents \in Nat
      /\ Waiting(upend[t]) \in Nat /\ Waiting(upend'[t]) \in Nat /\ Waiting(ppend) \in Nat /\ Waiting(ppend') \in Nat
  BY Sizes, WaitingType, Zenon
<1>3. d + Waiting(upend[t]) + Waiting(ppend) <= uraised /\ d = Len(ustack[t])
  BY <1>1, Zenon DEF FramesOK
<1>4. d \in Depth /\ d + 1 \in Depth /\ (d + 1) + Waiting(upend'[t]) + Waiting(ppend') <= uraised /\ d + 1 # d /\ (d + 1) - 1 = d
  <2> DEFINE a == Waiting(upend[t])
             b == Waiting(ppend)
             a1 == Waiting(upend'[t])
             b1 == Waiting(ppend')
  <2>1. /\ a \in Nat /\ b \in Nat /\ a1 \in Nat /\ b1 \in Nat /\ d \in Nat /\ uraised \in Nat /\ UEvents \in Nat
        /\ d + a + b <= uraised /\ uraised <= UEvents /\ a1 + b1 + 1 = a + b
    BY <1>2, <1>3, Zenon
  <2> HIDE DEF a, b, a1, b1, d
  <2>2. d + 1 <= UEvents /\ (d + 1) + a1 + b1 <= uraised
    BY <2>1, RoomForHandler
  <2>3. d \in Depth /\ d + 1 \in Depth /\ d + 1 # d /\ (d + 1) - 1 = d
    BY <2>1, <2>2 DEF Depth
  <2> QED
    BY <2>2, <2>3, Zenon DEF a1, b1
<1>5. uctx[t] \in Context /\ FrameFpu(t) \in Value /\ f \in EventFrame /\ ustack[t] \in Seq(EventFrame)
  BY Zenon DEF TrapsIInv, CpuTypes, FpuTypes, FrameFpu, EventFrame
<1>6. /\ ustack' = [ustack EXCEPT ![t] = Append(@, f)]
      /\ uctx' = [uctx EXCEPT ![t].depth = d + 1, ![t].stage = "enter", ![t].ev = e.no]
      /\ umode' = [umode EXCEPT ![t] = "user"]
      /\ uwant' = [uwant EXCEPT ![t][d + 1] = uwant[t][d]]
      /\ ufault' = [ufault EXCEPT ![t] = @ \ {e.at}]
  BY <1>4, Zenon DEF EnterHandler
<1>7. /\ uctx' \in [UThread -> Context] /\ uctx'[t].depth = d + 1 /\ uctx'[t].regs = uctx[t].regs
      /\ \A u \in UThread \ {t} : uctx'[u] = uctx[u]
  <2>1. e.no \in UNumbers
    BY DEF Pending
  <2>2. [uctx[t] EXCEPT !.depth = d + 1, !.stage = "enter", !.ev = e.no] \in Context
    BY <1>4, <1>5, <2>1, Zenon DEF Context
  <2>3. uctx'[t] = [uctx[t] EXCEPT !.depth = d + 1, !.stage = "enter", !.ev = e.no]
    BY <1>6, Zenon DEF TrapsIInv, CpuTypes
  <2> QED
    BY <1>5, <1>6, <2>2, <2>3 DEF TrapsIInv, CpuTypes, Context
<1>num. d \in Nat /\ d + 1 <= UEvents /\ UEvents \in Nat /\ (d + 1) - 1 = d
  <2>1. d \in Nat /\ UEvents \in Nat
    BY Sizes, Zenon
  <2> HIDE DEF d
  <2> QED
    BY <1>4, <2>1 DEF Depth
<1> HIDE DEF d
<1>old. \A k \in 1 .. d :
          /\ ustack[t][k].ctx.depth = k - 1
          /\ uwant[t][k - 1].regs = ustack[t][k].ctx.regs /\ uwant[t][k - 1].fpu = ustack[t][k].fpu
  BY <1>1, <1>3, Zenon DEF FramesOK, KeptOK
<1>8. /\ ustack' \in [UThread -> Seq(EventFrame)] /\ Len(ustack'[t]) = d + 1
      /\ ustack'[t][d + 1] = f /\ \A k \in 1 .. d : ustack'[t][k] = ustack[t][k]
      /\ \A u \in UThread \ {t} : ustack'[u] = ustack[u]
  <2> HIDE DEF f
  <2>1. Append(ustack[t], f) \in Seq(EventFrame)
    BY <1>5, AppendPlaces, Zenon
  <2>2. ustack'[t] = Append(ustack[t], f) /\ ustack' \in [UThread -> Seq(EventFrame)]
    BY <1>6, <2>1 DEF TrapsIInv, CpuTypes
  <2>3. Len(ustack'[t]) = d + 1 /\ ustack'[t][d + 1] = f /\ \A k \in 1 .. d : ustack'[t][k] = ustack[t][k]
    <3>1. /\ Len(Append(ustack[t], f)) = Len(ustack[t]) + 1 /\ Append(ustack[t], f)[Len(ustack[t]) + 1] = f
          /\ \A k \in 1 .. Len(ustack[t]) : Append(ustack[t], f)[k] = ustack[t][k]
      BY <1>5, AppendPlaces
    <3> QED
      BY <1>3, <2>2, <3>1, Zenon
  <2> QED
    BY <1>6, <2>2, <2>3, Zenon DEF TrapsIInv, CpuTypes
<1>top. /\ ustack'[t][d + 1].ctx.depth = d
        /\ ustack'[t][d + 1].ctx.regs = uctx[t].regs /\ ustack'[t][d + 1].fpu = FrameFpu(t)
  <2>1. f.ctx = uctx[t] /\ f.fpu = FrameFpu(t)
    BY Zenon
  <2> QED
    BY <1>8, <2>1, Zenon DEF d
<1>9. /\ uwant' \in [UThread -> [Depth -> Registers]] /\ uwant'[t][d + 1] = uwant[t][d]
      /\ \A k \in Depth : k # d + 1 => uwant'[t][k] = uwant[t][k]
      /\ \A u \in UThread \ {t} : uwant'[u] = uwant[u]
  <2>1. uwant[t] \in [Depth -> Registers] /\ uwant[t][d] \in Registers
    BY <1>4, Zenon DEF TrapsIInv, CpuTypes
  <2> QED
    BY <1>4, <1>6, <2>1, Zenon DEF TrapsIInv, CpuTypes
<1>10. CpuTypes' /\ FpuTypes'
  BY <1>6, <1>7, <1>8, <1>9, Zenon DEF TrapsIInv, CpuTypes, FpuTypes
<1>11. QueueTypes' /\ ufault'[t] = ufault[t] \ {e.at} /\ \A u \in UThread \ {t} : ufault'[u] = ufault[u]
  BY <1>6, Zenon DEF TrapsIInv, QueueTypes
<1>12. \A u \in UThread : FrameFpu(u)' = FrameFpu(u)
  BY Zenon DEF FrameFpu
<1>13. \A u \in UThread \ {t} : Steady(u)
  BY <1>6, <1>7, <1>8, <1>9, <1>11 DEF TrapsIInv, CpuTypes, Steady
<1>14. FramesOK(t)'
  <2>1. ASSUME NEW k \in 1 .. d + 1 PROVE ustack'[t][k].ctx.depth = k - 1
    <3>1. CASE k \in 1 .. d
      <4>1. ustack'[t][k] = ustack[t][k]
        BY <1>8, <3>1, Zenon
      <4> QED
        BY <1>old, <3>1, <4>1, Zenon
    <3>2. CASE k = d + 1
      BY <1>num, <1>top, <3>2, Zenon
    <3> QED
      BY <1>num, <3>1, <3>2
  <2> QED
    BY <1>4, <1>7, <1>8, <2>1, Zenon DEF FramesOK
<1>15. FaultOK(t)'
  <2>1. ASSUME NEW x \in ufault'[t] PROVE x <= d /\ \E k \in DOMAIN upend'[t] : upend'[t][k].at = x
    <3>1. x # e.at /\ x \in ufault[t]
      BY <1>11, <2>1, Zenon
    <3>2. PICK k \in DOMAIN upend[t] : upend[t][k].at = x
      BY <1>1, <3>1, Zenon DEF FaultOK
    <3>3. x <= d
      BY <1>1, <3>1, Zenon DEF FaultOK, d
    <3> QED
      BY <3>1, <3>2, <3>3, Zenon DEF OthersQueued
  <2>2. \A x \in ufault'[t] : x \in Nat
    <3>1. ufault'[t] \subseteq Depth
      BY <1>11, Zenon DEF QueueTypes
    <3> QED
      BY <3>1 DEF Depth
  <2>3. \A x \in ufault'[t] : x <= d + 1 /\ x # d + 1
    BY <1>num, <2>1, <2>2
  <2> QED
    BY <1>7, <2>1, <2>3, Zenon DEF FaultOK
<1>16. KeptOK(t)'
  <2>1. uwant[t][d].regs = uctx[t].regs /\ uwant[t][d].fpu = FrameFpu(t)
    BY <1>1, Zenon DEF KeptOK, d
  <2>2. ASSUME NEW k \in 1 .. d + 1
        PROVE  uwant'[t][k - 1].regs = ustack'[t][k].ctx.regs /\ uwant'[t][k - 1].fpu = ustack'[t][k].fpu
    <3>1. k - 1 \in Depth /\ k - 1 # d + 1
      BY <1>num DEF Depth
    <3>2. CASE k \in 1 .. d
      <4>1. ustack'[t][k] = ustack[t][k]
        BY <1>8, <3>2, Zenon
      <4>2. uwant'[t][k - 1] = uwant[t][k - 1]
        BY <1>9, <3>1, Zenon
      <4> QED
        BY <1>old, <3>2, <4>1, <4>2, Zenon
    <3>3. CASE k = d + 1
      <4>1. k - 1 = d /\ uwant'[t][k - 1] = uwant[t][d]
        BY <1>num, <1>9, <3>1, <3>3, Zenon
      <4> QED
        BY <1>top, <2>1, <3>3, <4>1, Zenon
    <3>4. k \in 1 .. d \/ k = d + 1
      BY <1>num
    <3> QED
      BY <3>2, <3>3, <3>4, Zenon
  <2> QED
    BY <1>7, <1>8, <1>9, <1>12, <2>1, <2>2, Zenon DEF KeptOK
<1>17. Waiting(ppend') - Waiting(ppend) <= uraised' - uraised
  BY <1>2
<1>18. ThreadOK(t)'
  BY <1>14, <1>15, <1>16, Zenon DEF ThreadOK
<1> QED
  BY <1>10, <1>11, <1>12, <1>13, <1>17, <1>18, OneThreadIInv, Zenon

LEMMA PostExceptionIInv ==
  ASSUME TrapsIInv, NEW t \in UThread, PostException(t)
  PROVE  TrapsIInv'
<1>1. umode[t] = "kernel" /\ UNCHANGED <<ucur, fregs, fts, fused, fpctx, uraised, useen>>
  BY Zenon DEF PostException, FpuSame
<1>2. /\ upend \in [UThread -> Seq(Pending)] /\ ppend \in Seq(Pending) /\ upend[t] \in Seq(Pending)
      /\ Waiting(upend[t]) \in Nat /\ Waiting(ppend) \in Nat /\ umode \in [UThread -> {"user", "kernel", "gone"}]
  BY Sizes, Zenon DEF TrapsIInv, CpuTypes, QueueTypes
<1>3. CASE /\ ppend = << >> /\ upend[t] = << >> /\ umode' = [umode EXCEPT ![t] = "user"]
           /\ UNCHANGED <<uctx, ustack, upend, ppend, uwant, ufault>>
  <2>1. ufault[t] = {}
    <3>0. upend[t] = << >>
      BY <1>3, Zenon
    <3>1. DOMAIN upend[t] = {}
      BY <3>0
    <3> QED
      BY <3>1, Zenon DEF TrapsIInv, FaultOK
  <2>2. CpuTypes' /\ FpuTypes' /\ QueueTypes'
    BY <1>1, <1>3, Zenon DEF TrapsIInv, CpuTypes, FpuTypes, QueueTypes
  <2>3. \A u \in UThread : umode'[u] = umode[u] \/ (u = t /\ umode[u] = "kernel")
    BY <1>1, <1>2, <1>3, Zenon
  <2>4. \A u \in UThread : FramesOK(u)'
    BY <1>1, <1>3, Zenon DEF TrapsIInv, FramesOK
  <2>f. \A u \in UThread : FaultOK(u)'
    <3>1. SUFFICES ASSUME NEW u \in UThread PROVE FaultOK(u)'
      BY Zenon
    <3>2. FaultOK(u) /\ uctx' = uctx /\ upend' = upend /\ ufault' = ufault
      BY <1>3, Zenon DEF TrapsIInv
    <3>3. ufault[u] = {} \/ umode'[u] = umode[u]
      BY <2>1, <2>3, Zenon
    <3> QED
      BY <3>2, <3>3, Zenon DEF FaultOK
  <2>5. \A u \in UThread : umode'[u] # "gone" => KeptOK(u)'
    BY <1>1, <1>3, <2>3, Zenon DEF TrapsIInv, KeptOK, FrameFpu
  <2>6. RegistersKept' /\ FaultsComeFirst'
    BY <1>1, Zenon DEF TrapsIInv, RegistersKept, FaultsComeFirst
  <2> QED
    BY <2>2, <2>4, <2>f, <2>5, <2>6, Zenon DEF TrapsIInv
<1>4. ASSUME NEW k \in FirstOf(ppend), ppend' = ListDel(ppend, k), upend' = upend,
             EnterHandler(t, ppend[k]) \/ Ends(t)
      PROVE  TrapsIInv'
  <2>1. k \in DOMAIN ppend /\ ppend[k] \in Pending
    BY <1>2 DEF FirstOf
  <2>2. ppend' \in Seq(Pending) /\ Waiting(ppend') = Waiting(ppend) - 1
    BY <1>2, <1>4, <2>1, UnlinkedQueue, Zenon DEF Waiting
  <2>3. /\ Waiting(upend'[t]) + Waiting(ppend') + 1 = Waiting(upend[t]) + Waiting(ppend)
        /\ Waiting(ppend') <= Waiting(ppend) /\ Waiting(upend'[t]) <= Waiting(upend[t])
    BY <1>2, <1>4, <2>2
  <2>4. OthersQueued(t, ppend[k])
    BY <1>4, Zenon DEF OthersQueued
  <2> QED
    BY <1>1, <1>2, <1>4, <2>1, <2>2, <2>3, <2>4, EnterHandlerIInv, EndsIInv, Zenon
<1>5. ASSUME NEW k \in FirstOf(upend[t]), upend' = [upend EXCEPT ![t] = ListDel(@, k)], ppend' = ppend,
             EnterHandler(t, upend[t][k]) \/ Ends(t)
      PROVE  TrapsIInv'
  <2> DEFINE e == upend[t][k]
  <2>1. k \in DOMAIN upend[t] /\ e \in Pending
    BY <1>2 DEF FirstOf
  <2>2. upend'[t] = ListDel(upend[t], k) /\ \A u \in UThread \ {t} : upend'[u] = upend[u]
    BY <1>2, <1>5, Zenon
  <2>3. /\ upend'[t] \in Seq(Pending) /\ Waiting(upend'[t]) = Waiting(upend[t]) - 1
        /\ \A j \in DOMAIN upend[t] \ {k} : \E i \in DOMAIN upend'[t] : upend'[t][i] = upend[t][j]
    BY <1>2, <2>1, <2>2, UnlinkedQueue DEF Waiting
  <2>4. upend' \in [UThread -> Seq(Pending)]
    BY <1>2, <1>5, <2>2, <2>3, Zenon
  <2>5. /\ Waiting(upend'[t]) + Waiting(ppend') + 1 = Waiting(upend[t]) + Waiting(ppend)
        /\ Waiting(ppend') <= Waiting(ppend) /\ Waiting(upend'[t]) <= Waiting(upend[t])
    <3> DEFINE a == Waiting(upend[t])
               a1 == Waiting(upend'[t])
               b == Waiting(ppend)
    <3>1. a \in Nat /\ b \in Nat /\ a1 = a - 1 /\ Waiting(ppend') = b
      BY <1>2, <1>5, <2>3, Zenon
    <3> HIDE DEF a, a1, b
    <3>2. a1 + b + 1 = a + b /\ b <= b /\ a1 <= a
      BY <3>1
    <3> QED
      BY <3>1, <3>2, Zenon DEF a, a1, b
  <2>6. OthersQueued(t, e)
    BY <2>3, Zenon DEF OthersQueued
  <2>7. EnterHandler(t, e) \/ Ends(t)
    BY <1>5, Zenon
  <2> HIDE DEF e
  <2> QED
    BY <1>1, <1>2, <1>5, <2>1, <2>2, <2>4, <2>5, <2>6, <2>7, EnterHandlerIInv, EndsIInv, Zenon
<1> QED
  BY <1>3, <1>4, <1>5, Zenon DEF PostException

\* A handler returns: the registers are those of the code it interrupted,
\* which goes on once no event is left.
LEMMA EventReturnIInv ==
  ASSUME TrapsIInv, NEW t \in UThread, EventReturn(t)
  PROVE  TrapsIInv'
<1> DEFINE d == uctx[t].depth
           f == Innermost(ustack[t])
<1>1. /\ umode[t] = "user" /\ ucur = t /\ d > 0
      /\ umode' = [umode EXCEPT ![t] = "kernel"]
      /\ uctx' = [uctx EXCEPT ![t] = f.ctx] /\ ustack' = [ustack EXCEPT ![t] = Outer(@)]
      /\ uwant' = [uwant EXCEPT ![t][d] = [regs |-> Zero, fpu |-> Zero]]
      /\ IF t \in fused THEN fregs' = f.fpu /\ fpctx' = fpctx
         ELSE fpctx' = [fpctx EXCEPT ![t] = f.fpu] /\ fregs' = fregs
      /\ UNCHANGED <<ucur, ufault, useen, fts, fused, upend, ppend, uraised>>
  BY Zenon DEF EventReturn, FrameRestored, Runs, ToKernel
<1>2. FramesOK(t) /\ FaultOK(t) /\ KeptOK(t)
  BY <1>1, Zenon DEF TrapsIInv
<1>3. /\ d \in Depth /\ d \in Nat \ {0} /\ d = Len(ustack[t]) /\ ustack[t] \in Seq(EventFrame) /\ ustack[t] # << >>
      /\ d - 1 \in Depth /\ d - 1 # d
  <2>1. d \in Depth /\ d \in Nat /\ ustack[t] \in Seq(EventFrame)
    BY Sizes DEF TrapsIInv, CpuTypes
  <2>2. d = Len(ustack[t])
    BY <1>2, Zenon DEF FramesOK
  <2> QED
    BY <1>1, <2>1, <2>2, TrapsAssumption DEF Depth
<1>4. /\ f = ustack[t][d] /\ f \in EventFrame
      /\ Outer(ustack[t]) \in Seq(EventFrame) /\ Len(Outer(ustack[t])) = d - 1
      /\ \A k \in 1 .. d - 1 : Outer(ustack[t])[k] = ustack[t][k]
  BY <1>3, OuterInnermost, Zenon
<1> HIDE DEF d, f
<1>old. \A k \in 1 .. d :
          /\ ustack[t][k].ctx.depth = k - 1
          /\ uwant[t][k - 1].regs = ustack[t][k].ctx.regs /\ uwant[t][k - 1].fpu = ustack[t][k].fpu
  BY <1>2, <1>3, Zenon DEF FramesOK, KeptOK
<1>num. d \in Nat \ {0}
  BY <1>3, Zenon
<1>5. f.ctx \in Context /\ f.fpu \in Value /\ f.ctx.depth = d - 1
  <2>1. f.ctx \in Context /\ f.fpu \in Value
    BY <1>4, Zenon DEF EventFrame
  <2>2. f.ctx.depth = d - 1
    BY <1>num, <1>4, <1>old, SMTT(20)
  <2> QED
    BY <2>1, <2>2, Zenon
<1>6. uwant[t][d - 1].regs = f.ctx.regs /\ uwant[t][d - 1].fpu = f.fpu
  BY <1>num, <1>4, <1>old, SMTT(20)
<1>7. /\ uctx' \in [UThread -> Context] /\ uctx'[t] = f.ctx /\ \A u \in UThread \ {t} : uctx'[u] = uctx[u]
  BY <1>1, <1>5, Zenon DEF TrapsIInv, CpuTypes
<1>8. /\ ustack' \in [UThread -> Seq(EventFrame)] /\ ustack'[t] = Outer(ustack[t])
      /\ \A u \in UThread \ {t} : ustack'[u] = ustack[u]
  BY <1>1, <1>4, Zenon DEF TrapsIInv, CpuTypes
<1>9. /\ uwant' \in [UThread -> [Depth -> Registers]]
      /\ \A k \in Depth : k # d => uwant'[t][k] = uwant[t][k]
      /\ \A u \in UThread \ {t} : uwant'[u] = uwant[u]
  <2>1. [regs |-> Zero, fpu |-> Zero] \in Registers
    BY ZeroTypes, Zenon DEF Registers
  <2> QED
    BY <1>1, <1>3, <2>1, Zenon DEF TrapsIInv, CpuTypes
<1>10. umode' \in [UThread -> {"user", "kernel", "gone"}] /\ umode'[t] = "kernel" /\ \A u \in UThread \ {t} : umode'[u] = umode[u]
  BY <1>1 DEF TrapsIInv, CpuTypes
<1>11. CpuTypes' /\ QueueTypes'
  BY <1>1, <1>7, <1>8, <1>9, <1>10, Zenon DEF TrapsIInv, CpuTypes, QueueTypes
<1>12. FpuTypes' /\ FrameFpu(t)' = f.fpu /\ \A u \in UThread \ {t} : FrameFpu(u)' = FrameFpu(u)
  BY <1>1, <1>5 DEF TrapsIInv, FpuTypes, FrameFpu
<1>13. \A u \in UThread \ {t} : Steady(u)
  BY <1>1, <1>7, <1>8, <1>9, <1>10, Zenon DEF Steady
<1>14. FramesOK(t)'
  <2>1. d + Waiting(upend[t]) + Waiting(ppend) <= uraised /\ Waiting(upend[t]) \in Nat /\ Waiting(ppend) \in Nat /\ uraised \in Nat
    BY <1>2, Sizes, Zenon DEF FramesOK, d
  <2>2. (d - 1) + Waiting(upend[t]) + Waiting(ppend) <= uraised
    <3> DEFINE a == Waiting(upend[t])
               b == Waiting(ppend)
    <3>1. d \in Nat /\ a \in Nat /\ b \in Nat /\ uraised \in Nat /\ d + a + b <= uraised
      BY <1>3, <2>1, Zenon
    <3> HIDE DEF a, b
    <3>2. (d - 1) + a + b <= uraised
      BY <3>1
    <3> QED
      BY <3>2 DEF a, b
  <2>3. ASSUME NEW k \in 1 .. d - 1 PROVE ustack'[t][k].ctx.depth = k - 1
    <3>1. k \in 1 .. d
      BY <1>num
    <3>2. ustack'[t][k] = ustack[t][k]
      BY <1>4, <1>8, Zenon
    <3> QED
      BY <1>old, <3>1, <3>2, Zenon
  <2>4. uctx'[t].depth = d - 1 /\ Len(ustack'[t]) = d - 1
    BY <1>4, <1>5, <1>7, <1>8, Zenon
  <2> QED
    BY <1>1, <2>2, <2>3, <2>4, Zenon DEF FramesOK
<1>15. FaultOK(t)'
  <2>1. \A x \in ufault[t] : x <= d /\ x # d /\ x \in Nat
    <3>1. ufault[t] \subseteq Nat
      BY DEF TrapsIInv, QueueTypes, Depth
    <3> QED
      BY <1>1, <1>2, <3>1, Zenon DEF FaultOK, d
  <2>2. \A x \in ufault[t] : x <= d - 1
    BY <1>num, <2>1, SMTT(20)
  <2> QED
    BY <1>1, <1>2, <1>5, <1>7, <1>10, <2>2 DEF FaultOK
<1>16. KeptOK(t)'
  <2>1. \A k \in 1 .. d - 1 : k \in 1 .. d /\ k - 1 \in Depth /\ k - 1 # d
    BY <1>3, TrapsAssumption DEF Depth
  <2>2. ASSUME NEW k \in 1 .. d - 1
        PROVE  uwant'[t][k - 1].regs = ustack'[t][k].ctx.regs /\ uwant'[t][k - 1].fpu = ustack'[t][k].fpu
    <3>1. ustack'[t][k] = ustack[t][k]
      BY <1>4, <1>8, Zenon
    <3>2. uwant'[t][k - 1] = uwant[t][k - 1]
      BY <1>9, <2>1, Zenon
    <3> QED
      BY <1>old, <2>1, <3>1, <3>2, Zenon
  <2>3. uwant'[t][d - 1] = uwant[t][d - 1] /\ uctx'[t].depth = d - 1 /\ Len(ustack'[t]) = d - 1
    BY <1>3, <1>4, <1>5, <1>7, <1>8, <1>9, Zenon
  <2> QED
    BY <1>6, <1>7, <1>12, <2>2, <2>3, Zenon DEF KeptOK
<1>17. Waiting(ppend') - Waiting(ppend) <= uraised' - uraised /\ useen' = useen
  BY <1>1, Sizes
<1>18. ThreadOK(t)'
  BY <1>14, <1>15, <1>16, Zenon DEF ThreadOK
<1> QED
  BY <1>11, <1>12, <1>13, <1>17, <1>18, OneThreadIInv, Zenon
-----------------------------------------------------------------------------
\* Every step keeps the invariant.
LEMMA NextIInv == TrapsIInv /\ [TrapNext]_trapVars => TrapsIInv'
<1> SUFFICES ASSUME TrapsIInv, [TrapNext]_trapVars PROVE TrapsIInv'
  BY Zenon
<1>m. umode \in [UThread -> {"user", "kernel", "gone"}]
  BY Zenon DEF TrapsIInv, CpuTypes
<1>1. CASE UNCHANGED trapVars
  <2>1. \A u \in UThread : Steady(u)
    BY <1>1, Zenon DEF trapVars, Steady
  <2> QED
    BY <1>m, <1>1, <2>1, SteadyIInv, Zenon DEF trapVars
<1>2. ASSUME NEW t \in UThread, Work(t) \/ USyscall(t) PROVE TrapsIInv'
  BY <1>2, RegsIInv, Zenon DEF Work, USyscall, FpuSame
<1>3. ASSUME NEW t \in UThread, UInterrupt(t) PROVE TrapsIInv'
  <2>1. \A u \in UThread : Steady(u)
    BY <1>m, <1>3, Zenon DEF UInterrupt, Runs, ToKernel, HistorySame, Steady
  <2> QED
    BY <1>m, <1>3, <2>1, SteadyIInv, Zenon DEF UInterrupt, ToKernel, FpuSame, HistorySame
<1>4. ASSUME NEW t \in UThread, UExit(t) PROVE TrapsIInv'
  <2>1. upend \in [UThread -> Seq(Pending)] /\ ppend \in Seq(Pending) /\ Waiting(upend[t]) \in Nat /\ Waiting(ppend) \in Nat
    BY Sizes, Zenon DEF TrapsIInv, QueueTypes
  <2> QED
    BY <1>4, <2>1, EndsIInv DEF UExit, FpuSame
<1>5. ASSUME NEW t \in UThread, FpuWork(t) \/ InvokeHandler(t) \/ DeviceNotAvailable(t) \/ PostException(t) \/ EventReturn(t)
      PROVE  TrapsIInv'
  BY <1>5, FpuWorkIInv, InvokeHandlerIInv, DeviceNotAvailableIInv, PostExceptionIInv, EventReturnIInv, Zenon
<1>6. ASSUME NEW t \in UThread, NEW i \in UChosen, NEW h \in {"dfl", "ign", "user"}, RegisterUserHandler(t, i, h) PROVE TrapsIInv'
  <2>1. \A u \in UThread : Steady(u)
    BY <1>6, Zenon DEF RegisterUserHandler, HistorySame, Steady
  <2> QED
    BY <1>m, <1>6, <2>1, SteadyIInv, Zenon DEF RegisterUserHandler, FpuSame, HistorySame
<1>7. ASSUME NEW t \in UThread, NEW n \in UTraps, CpuException(t, n) PROVE TrapsIInv'
  BY <1>7, CpuExceptionIInv, Zenon
<1>8. ASSUME NEW t \in UThread, NEW i \in USent, USend(t, i) PROVE TrapsIInv'
  BY <1>8, USendIInv, Zenon
<1>9. ASSUME NEW t \in UThread, NEW u \in UThread, SwitchThreads(t, u) PROVE TrapsIInv'
  BY <1>9, SwitchThreadsIInv
<1> QED
  BY <1>1, <1>2, <1>3, <1>4, <1>5, <1>6, <1>7, <1>8, <1>9, Zenon DEF TrapNext

\* The invariant holds in every state of Traps.
THEOREM TrapsInvariance == TrapSpec => []TrapsIInv
  BY TrapsInitIInv, NextIInv, PTL DEF TrapSpec

\* The registers and the FPU registers survive other threads, system calls and
\* event handlers, although the FPU is saved and loaded only when needed.
THEOREM RegistersAreKept == TrapSpec => []RegistersKept
<1>1. TrapsIInv => RegistersKept
  BY Zenon DEF TrapsIInv
<1> QED
  BY <1>1, TrapsInvariance, PTL

\* Code that has raised an exception does not go on before its handler.
THEOREM FaultsAreFirst == TrapSpec => []FaultsComeFirst
<1>1. TrapsIInv => FaultsComeFirst
  BY DEF TrapsIInv
<1> QED
  BY <1>1, TrapsInvariance, PTL
-----------------------------------------------------------------------------
(* Timer *)

\* Call-out, sync block and status of a thread, at each place of its wait
WaitOK(t) ==
  /\ status[t] = "WAIT" => left[t] > 0
  /\ left[t] > 0 => pc[t] # "run"
  /\ t \in objq => pc[t] \in {"queued", "wait"}
  /\ mid = t => pc[t] \in {"armed", "queued"}
  /\ pc[t] = "sleep" => oreason[t] = "WAIT" /\ (status[t] = "READY" => left[t] = 0 /\ treason[t] = "TIMEOUT")
  /\ pc[t] # "run" /\ status[t] = "READY" =>
       oreason[t] # "WAIT" \/ treason[t] # "WAIT" \/ t \in Preemptible

\* The reasons in the sync blocks are what happened, and nothing has been
\* returned while the thread waits.
ReasonOK(t) ==
  /\ oreason[t] = IF "released" \in since[t] THEN "RELEASED" ELSE "WAIT"
  /\ treason[t] = IF "expired" \in since[t] THEN "TIMEOUT" ELSE "WAIT"
  /\ pc[t] # "run" => res[t] = "WAIT"

\* The inductive invariant
TimerIInv ==
  /\ TypeOK /\ ReasonIsTrue
  /\ \A t \in Thread : ReasonOK(t)
  /\ ~halted => \A t \in Thread : WaitOK(t)

LEMMA TimerInitIInv == Init => TimerIInv
<1> SUFFICES ASSUME Init PROVE TimerIInv
  OBVIOUS
<1>1. TypeOK
  BY Zenon DEF Init, TypeOK, Reason
<1>2. ReasonIsTrue /\ \A t \in Thread : ReasonOK(t)
  BY Zenon DEF Init, ReasonIsTrue, ReasonOK
<1>3. ASSUME NEW t \in Thread PROVE WaitOK(t)
  <2>1. /\ status[t] = "READY" /\ left[t] = 0 /\ pc[t] = "run" /\ t \notin objq /\ mid # t
    BY TimerAssumption DEF Init
  <2> QED
    BY <2>1 DEF WaitOK
<1> QED
  BY <1>1, <1>2, <1>3 DEF TimerIInv

\* A limit takes at least one tick.
LEMMA TicksPositive == ASSUME NEW ms \in Ms PROVE MsToTicks(ms) \in Nat \ {0}
  BY TimerAssumption DEF MsToTicks

\* A wait begins.
LEMMA InsertIInv ==
  ASSUME TimerIInv, NEW t \in Thread, NEW ms \in Ms, TimWait(t, ms) \/ Arm(t, ms)
  PROVE  TimerIInv'
<1>0. PICK w \in {"sleep", "armed"} : Insert(t, ms, w) /\ mid' = IF w = "armed" THEN t ELSE mid
  BY Zenon DEF TimWait, Arm
<1>1. /\ pc[t] = "run" /\ mid = Null /\ ~halted
      /\ pc' = [pc EXCEPT ![t] = w]
      /\ status' = [status EXCEPT ![t] = "WAIT"]
      /\ oreason' = [oreason EXCEPT ![t] = "WAIT"]
      /\ treason' = [treason EXCEPT ![t] = "WAIT"]
      /\ since' = [since EXCEPT ![t] = {}]
      /\ res' = [res EXCEPT ![t] = "WAIT"]
      /\ objq' = objq
      /\ \/ halted' = TRUE /\ left' = left
         \/ halted' = halted /\ left' = [left EXCEPT ![t] = MsToTicks(ms)]
  BY <1>0 DEF Insert
<1>2. TypeOK'
  <2>1. MsToTicks(ms) \in Nat
    BY TicksPositive, Zenon
  <2>2. left' \in [Thread -> Nat]
    BY <1>1, <2>1 DEF TimerIInv, TypeOK
  <2>3. halted' \in BOOLEAN
    BY <1>1, Zenon DEF TimerIInv, TypeOK
  <2> QED
    BY <1>0, <1>1, <2>2, <2>3, Zenon DEF TimerIInv, TypeOK, Reason
<1>3. ReasonIsTrue'
  BY <1>1, Zenon DEF TimerIInv, TypeOK, ReasonIsTrue
<1>4. \A u \in Thread : ReasonOK(u)'
  BY <1>1 DEF TimerIInv, TypeOK, ReasonOK
<1>5. ASSUME ~halted', NEW u \in Thread PROVE WaitOK(u)'
  <2>1. left' = [left EXCEPT ![t] = MsToTicks(ms)] /\ MsToTicks(ms) > 0 /\ WaitOK(u)
    <3>1. left' = [left EXCEPT ![t] = MsToTicks(ms)]
      BY <1>1, <1>5, Zenon
    <3>2. MsToTicks(ms) > 0
      BY TicksPositive
    <3>3. WaitOK(u)
      BY <1>1, <1>5, Zenon DEF TimerIInv
    <3> QED
      BY <3>1, <3>2, <3>3, Zenon
  <2>2. CASE u = t
    BY <1>0, <1>1, <2>1, <2>2, TimerAssumption DEF TimerIInv, TypeOK, WaitOK
  <2>3. CASE u # t
    BY <1>0, <1>1, <2>1, <2>3, TimerAssumption DEF TimerIInv, TypeOK, WaitOK
  <2> QED
    BY <2>2, <2>3, Zenon
<1> QED
  BY <1>2, <1>3, <1>4, <1>5, Zenon DEF TimerIInv

\* The thread enters the queue of the object, and leaves the CPU.
LEMMA PrepareIInv ==
  ASSUME TimerIInv, NEW t \in Thread, EnterObjQueue(t) \/ Schedule(t)
  PROVE  TimerIInv'
<1>1. /\ pc[t] \in {"armed", "queued"} /\ ~halted /\ mid \in {t, Null}
      /\ \/ pc[t] = "armed" /\ mid' = t /\ pc' = [pc EXCEPT ![t] = "queued"] /\ objq' = objq \cup {t}
         \/ pc[t] = "queued" /\ mid' = Null /\ pc' = [pc EXCEPT ![t] = "wait"] /\ objq' = objq
      /\ left' = left /\ status' = status /\ oreason' = oreason /\ treason' = treason
      /\ since' = since /\ res' = res /\ halted' = halted
  BY Zenon DEF EnterObjQueue, Schedule
<1>2. TypeOK'
  BY <1>1, Zenon DEF TimerIInv, TypeOK
<1>3. ReasonIsTrue' /\ \A u \in Thread : ReasonOK(u)'
  BY <1>1 DEF TimerIInv, TypeOK, ReasonIsTrue, ReasonOK
<1>4. ASSUME NEW u \in Thread PROVE WaitOK(u)'
  <2>1. WaitOK(u)
    BY <1>1, Zenon DEF TimerIInv
  <2> QED
    BY <1>1, <2>1, TimerAssumption DEF TimerIInv, TypeOK, WaitOK
<1> QED
  BY <1>2, <1>3, <1>4, Zenon DEF TimerIInv

\* A wait ends and its blocks are taken back.
LEMMA FinishIInv ==
  ASSUME TimerIInv, NEW t \in Thread, FinishWaitTimeObj(t) \/ FinishTimWait(t)
  PROVE  TimerIInv'
<1>0. WaitOK(t) /\ ReasonOK(t) /\ ~halted
  BY Zenon DEF TimerIInv, FinishWaitTimeObj, FinishTimWait
<1>1. /\ pc[t] # "run" /\ status[t] = "READY"
      /\ pc' = [pc EXCEPT ![t] = "run"]
      /\ left' = [left EXCEPT ![t] = 0]
      /\ objq' = objq \ {t}
      /\ res' = [res EXCEPT ![t] = IF oreason[t] # "WAIT" THEN oreason[t]
                                   ELSE IF treason[t] # "WAIT" THEN treason[t] ELSE "UNDEFINED"]
      /\ status' = status /\ oreason' = oreason /\ treason' = treason /\ mid' = mid
      /\ since' = since /\ halted' = halted
      /\ mid # t
  <2>1. CASE FinishWaitTimeObj(t)
    BY <1>0, <2>1, Zenon DEF FinishWaitTimeObj, WaitOK
  <2>2. CASE FinishTimWait(t)
    <3>1. left[t] = 0 /\ oreason[t] = "WAIT" /\ treason[t] = "TIMEOUT" /\ t \notin objq /\ mid # t
      BY <1>0, <2>2, Zenon DEF FinishTimWait, WaitOK
    <3> QED
      BY <2>2, <3>1 DEF FinishTimWait, TimerIInv, TypeOK
  <2> QED
    BY <2>1, <2>2, Zenon
<1>2. TypeOK'
  BY <1>0, <1>1 DEF TimerIInv, TypeOK, Reason, ReasonOK
<1>3. ReasonIsTrue'
  <2>1. ASSUME NEW u \in Thread
        PROVE  /\ res'[u] = "RELEASED" => "released" \in since[u]
               /\ res'[u] = "TIMEOUT" => since[u] = {"expired"}
               /\ res'[u] = "UNDEFINED" => u \in Preemptible
    <3>1. CASE u = t
      <4>1. since[t] \subseteq {"released", "expired"}
        BY Zenon DEF TimerIInv, TypeOK
      <4> QED
        BY <1>0, <1>1, <3>1, <4>1 DEF TimerIInv, TypeOK, ReasonOK, WaitOK
    <3>2. CASE u # t
      BY <1>1, <3>2, Zenon DEF TimerIInv, TypeOK, ReasonIsTrue
    <3> QED
      BY <3>1, <3>2, Zenon
  <2> QED
    BY <1>1, <2>1, Zenon DEF ReasonIsTrue
<1>4. \A u \in Thread : ReasonOK(u)'
  BY <1>1, Zenon DEF TimerIInv, TypeOK, ReasonOK
<1>5. ASSUME NEW u \in Thread PROVE WaitOK(u)'
  <2>1. WaitOK(u)
    BY <1>0, Zenon DEF TimerIInv
  <2> QED
    BY <1>0, <1>1, <2>1 DEF TimerIInv, TypeOK, WaitOK
<1> QED
  BY <1>2, <1>3, <1>4, <1>5, Zenon DEF TimerIInv

\* All sleepers of the object are woken.
LEMMA ReleaseIInv ==
  ASSUME TimerIInv, Release
  PROVE  TimerIInv'
<1>1. /\ mid = Null /\ ~halted
      /\ oreason' = [t \in Thread |-> IF t \in objq THEN "RELEASED" ELSE oreason[t]]
      /\ status' = [t \in Thread |-> IF t \in objq THEN "READY" ELSE status[t]]
      /\ since' = [t \in Thread |-> IF t \in objq THEN since[t] \cup {"released"} ELSE since[t]]
      /\ objq' = {}
      /\ left' = left /\ pc' = pc /\ treason' = treason /\ mid' = mid /\ res' = res /\ halted' = halted
  BY Zenon DEF Release
<1>2. \A t \in Thread : WaitOK(t) /\ ReasonOK(t)
  BY <1>1, Zenon DEF TimerIInv
<1>3. TypeOK'
  BY <1>1, Zenon DEF TimerIInv, TypeOK, Reason
<1>4. ReasonIsTrue'
  BY <1>1, <1>2, Zenon DEF TimerIInv, TypeOK, ReasonIsTrue, WaitOK, ReasonOK
<1>5. \A t \in Thread : ReasonOK(t)'
  BY <1>1, <1>2, Zenon DEF TimerIInv, TypeOK, ReasonOK
<1>6. \A t \in Thread : WaitOK(t)'
  BY <1>1, <1>2, Zenon DEF TimerIInv, TypeOK, WaitOK
<1> QED
  BY <1>3, <1>4, <1>5, <1>6, Zenon DEF TimerIInv

\* Time passes; a thread whose limit is reached is woken.
LEMMA TickIInv ==
  ASSUME TimerIInv, Tick
  PROVE  TimerIInv'
<1>1. /\ ~halted
      /\ treason' = [t \in Thread |-> IF left[t] = 1 THEN "TIMEOUT" ELSE treason[t]]
      /\ status' = [t \in Thread |-> IF left[t] = 1 THEN "READY" ELSE status[t]]
      /\ since' = [t \in Thread |-> IF left[t] = 1 THEN since[t] \cup {"expired"} ELSE since[t]]
      /\ left' = [t \in Thread |-> IF left[t] = 1 \/ left[t] = 0 THEN 0 ELSE left[t] - 1]
      /\ objq' = objq /\ pc' = pc /\ oreason' = oreason /\ mid' = mid /\ res' = res /\ halted' = halted
  <2>1. {t \in Callouts : Expired(t)} = {t \in Thread : left[t] = 1}
    BY DEF Callouts, Expired
  <2> QED
    BY <2>1, Zenon DEF Tick
<1>2. \A t \in Thread : WaitOK(t) /\ ReasonOK(t) /\ left[t] \in Nat
  BY <1>1, Zenon DEF TimerIInv, TypeOK
<1>3. TypeOK'
  <2>1. \A n \in Nat : (IF n = 1 \/ n = 0 THEN 0 ELSE n - 1) \in Nat
    OBVIOUS
  <2>2. left' \in [Thread -> Nat]
    BY <1>1, <1>2, <2>1, Zenon
  <2> QED
    BY <1>1, <2>2, Zenon DEF TimerIInv, TypeOK, Reason
<1>4. ReasonIsTrue'
  BY <1>1, <1>2 DEF TimerIInv, TypeOK, ReasonIsTrue, WaitOK, ReasonOK
<1>5. \A t \in Thread : ReasonOK(t)'
  BY <1>1, <1>2, Zenon DEF TimerIInv, TypeOK, ReasonOK
<1>6. \A t \in Thread : WaitOK(t)'
  BY <1>1, <1>2, SMTT(20) DEF TimerIInv, TypeOK, WaitOK
<1> QED
  BY <1>3, <1>4, <1>5, <1>6 DEF TimerIInv

\* thr_yield in the middle of the preparation
LEMMA SliceEndsIInv ==
  ASSUME TimerIInv, SliceEnds
  PROVE  TimerIInv'
<1>1. /\ mid \in Preemptible /\ mid \in Thread /\ ~halted
      /\ status' = [status EXCEPT ![mid] = "READY"] /\ mid' = Null
      /\ left' = left /\ pc' = pc /\ objq' = objq /\ oreason' = oreason /\ treason' = treason
      /\ since' = since /\ res' = res /\ halted' = halted
  BY TimerAssumption, Zenon DEF SliceEnds
<1>2. TypeOK'
  BY <1>1 DEF TimerIInv, TypeOK
<1>3. ReasonIsTrue' /\ \A t \in Thread : ReasonOK(t)'
  BY <1>1, Zenon DEF TimerIInv, ReasonIsTrue, ReasonOK
<1>4. \A t \in Thread : WaitOK(t)'
  BY <1>1, TimerAssumption DEF TimerIInv, TypeOK, WaitOK
<1> QED
  BY <1>2, <1>3, <1>4, Zenon DEF TimerIInv

\* Every step keeps the invariant.
LEMMA TimerNextIInv == TimerIInv /\ [Next]_vars => TimerIInv'
<1> SUFFICES ASSUME TimerIInv, [Next]_vars PROVE TimerIInv'
  BY Zenon
<1>1. CASE UNCHANGED vars
  BY <1>1, Zenon DEF vars, TimerIInv, TypeOK, ReasonIsTrue, ReasonOK, WaitOK
<1>2. CASE Release \/ Tick \/ SliceEnds
  BY <1>2, ReleaseIInv, TickIInv, SliceEndsIInv, Zenon
<1>3. ASSUME NEW t \in Thread,
             EnterObjQueue(t) \/ Schedule(t) \/ FinishWaitTimeObj(t) \/ FinishTimWait(t)
      PROVE  TimerIInv'
  BY <1>3, PrepareIInv, FinishIInv, Zenon
<1>4. ASSUME NEW t \in Thread, NEW ms \in Ms, TimWait(t, ms) \/ Arm(t, ms) PROVE TimerIInv'
  BY <1>4, InsertIInv, Zenon
<1> QED
  BY <1>1, <1>2, <1>3, <1>4, Zenon DEF Next

\* The invariant holds in every state of Timer.
THEOREM TimerInvariance == TimerSpec => []TimerIInv
  BY TimerInitIInv, TimerNextIInv, PTL DEF TimerSpec

\* No block outlives the wait whose stack it is on, and no sleeper is without
\* the call-out that will wake it.
THEOREM CalloutsAreRight == TimerSpec => []CalloutsMatchWaits
<1>1. TimerIInv => CalloutsMatchWaits
  BY Zenon DEF TimerIInv, TypeOK, WaitOK, CalloutsMatchWaits, NothingOutlivesTheWait, SleepersHaveCallouts, Callouts
<1> QED
  BY <1>1, TimerInvariance, PTL

\* tim_wait_obj and tim_wait return what happened, also when wake-up, time
\* limit and the end of a slice come together.
THEOREM ReasonsAreTrue == TimerSpec => []ReasonIsTrue
<1>1. TimerIInv => ReasonIsTrue
  BY DEF TimerIInv
<1> QED
  BY <1>1, TimerInvariance, PTL
=============================================================================
