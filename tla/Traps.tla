-------------------------------- MODULE Traps --------------------------------
(***************************************************************************)
(* User threads enter and leave the kernel: exceptions                     *)
(* (hal/x86-64/exc/common-traps.c), system calls, the context that is kept *)
(* of the interrupted code, the FPU registers, which are saved and         *)
(* restored lazily (hal/x86-64/thr/x86_64-thread.c), the frame of an event *)
(* handler on the user stack (hal/x86-64/exc/x86_64-handle-event.c) and    *)
(* the handlers of the user library (lib/event-handlers.c).                *)
(*                                                                         *)
(* The code of a thread is the main program and the event handlers that    *)
(* interrupt each other, counted by depth.  The registers, and the FPU     *)
(* registers, are one value each: who wrote it.  The threads belong to one *)
(* process.  Masks of events, and page faults, are in Event and UserSpace. *)
(***************************************************************************)
EXTENDS Queues

CONSTANTS
  UThread,    \* the threads
  UEvents,    \* bound: number of events raised
  USent,      \* numbers of the events that other processes send
  UTraps,     \* numbers of the exceptions that are raised
  UChosen     \* numbers whose handler the program registers

ASSUME TrapsAssumption == UEvents \in Nat

VARIABLES
  ucur,       \* the current thread
  umode,      \* "user", "kernel" on the way back to user mode, or "gone"
  uctx,       \* trap context: depth, stage of the code, event, registers
  ustack,     \* event frames on the user stack, by depth
  fregs,      \* the FPU registers
  fts,        \* CR0.TS: an FPU instruction raises device-not-available
  fused,      \* threads with TI_X86_64_FPU_USED
  fpctx,      \* fpctx of each thread
  upend,      \* event queue of each thread: number, and depth of the fault
  ppend,      \* event queue of the process
  uhdlrs,     \* handlers of the library: "term", "ignore" or "user"
  uraised,    \* number of events raised
  uwant,      \* history: registers as the code at each depth left them
  ufault,     \* history: faults at each depth that no handler was called for
  useen,      \* history: what the last instruction found and should find
  uhalt       \* the kernel has stopped

trapVars ==
  <<ucur, umode, uctx, ustack, fregs, fts, fused, fpctx, upend, ppend, uhdlrs, uraised, uwant, ufault, useen, uhalt>>

EV_ILL == 4
EV_FPE == 8
EV_BUS == 10
EV_SEGV == 11
UNumbers == {EV_ILL, EV_FPE, EV_BUS, EV_SEGV} \cup USent

Zero == <<0, 0>>
ValueOf(t) == <<t, uctx[t].depth>>

\* Exceptions whose handler stops the kernel, does nothing, or sends an event
StopTraps == {2, 8, 9, 10, 11, 16, 18, 19}
IdleTraps == {1, 3}
TrapEvent(n) ==
  CASE n \in {0, 4} -> EV_FPE
    [] n \in {5, 12, 13} -> EV_SEGV
    [] n \in {6, 15} -> EV_ILL
    [] n = 17 -> EV_BUS
EventTraps == {0, 4, 5, 6, 12, 13, 15, 17}

\* setup_default_handlers, after all numbers were set to ignore
DefaultHandler(i) == IF i \in {1, 2, 3, 4, 6, 8, 9, 10, 11, 13, 14, 15, 30, 31} THEN "term" ELSE "ignore"

FreshCtx == [depth |-> 0, stage |-> "run", ev |-> 0, regs |-> Zero]
NoWant == [d \in 0 .. UEvents |-> [regs |-> Zero, fpu |-> Zero]]

TrapInit ==
  /\ ucur \in UThread
  /\ umode = [t \in UThread |-> "kernel"]
  /\ uctx = [t \in UThread |-> FreshCtx]
  /\ ustack = [t \in UThread |-> << >>]
  /\ fregs = Zero /\ fts = TRUE /\ fused = {} /\ fpctx = [t \in UThread |-> Zero]
  /\ upend = [t \in UThread |-> << >>] /\ ppend = << >>
  /\ uhdlrs = [i \in UNumbers |-> DefaultHandler(i)]
  /\ uraised = 0 /\ uhalt = FALSE
  /\ uwant = [t \in UThread |-> NoWant]
  /\ ufault = [t \in UThread |-> {}]
  /\ useen = [kept |-> TRUE, fault |-> FALSE]

Runs(t) == ~uhalt /\ ucur = t /\ umode[t] = "user"
InHandler(t, s) == Runs(t) /\ uctx[t].stage = s
ToKernel(t) == umode' = [umode EXCEPT ![t] = "kernel"]
\* thr_exit: the thread's contexts and stack are gone.
Ends(t) ==
  /\ umode' = [umode EXCEPT ![t] = "gone"] /\ uctx' = [uctx EXCEPT ![t] = FreshCtx]
  /\ ustack' = [ustack EXCEPT ![t] = << >>] /\ uwant' = [uwant EXCEPT ![t] = NoWant] /\ ufault' = [ufault EXCEPT ![t] = {}]
RaiseEvent == uraised < UEvents /\ uraised' = uraised + 1
FpuSame == UNCHANGED <<fregs, fts, fused, fpctx>>
HistorySame == UNCHANGED <<uwant, ufault, useen>>
-----------------------------------------------------------------------------
(* User mode *)

\* An instruction finds got in the registers and leaves new there.
Instruction(t, kind, got, new) ==
  /\ useen' = [kept |-> got = uwant[t][uctx[t].depth][kind], fault |-> uctx[t].depth \in ufault[t]]
  /\ uwant' = [uwant EXCEPT ![t][uctx[t].depth][kind] = new]
  /\ UNCHANGED ufault

Work(t) ==
  /\ InHandler(t, "run") /\ uctx' = [uctx EXCEPT ![t].regs = ValueOf(t)]
  /\ Instruction(t, "regs", uctx[t].regs, ValueOf(t))
  /\ FpuSame /\ UNCHANGED <<ucur, umode, ustack, upend, ppend, uhdlrs, uraised, uhalt>>

\* An FPU instruction that is not trapped
FpuWork(t) ==
  /\ InHandler(t, "run") /\ ~fts /\ fregs' = ValueOf(t)
  /\ Instruction(t, "fpu", fregs, fregs')
  /\ UNCHANGED <<ucur, umode, uctx, ustack, fts, fused, fpctx, upend, ppend, uhdlrs, uraised, uhalt>>

\* yatos_register_user_event_handler, before the first event (bound)
RegisterUserHandler(t, i, h) ==
  /\ InHandler(t, "run") /\ uraised = 0
  /\ uhdlrs' = [uhdlrs EXCEPT ![i] = CASE h = "dfl" -> DefaultHandler(i) [] h = "ign" -> "ignore" [] OTHER -> "user"]
  /\ FpuSame /\ HistorySame /\ UNCHANGED <<ucur, umode, uctx, ustack, upend, ppend, uraised, uhalt>>

\* __yatos_ulib_invoke_handler
InvokeHandler(t) ==
  /\ InHandler(t, "enter")
  /\ IF uhdlrs[uctx[t].ev] = "term" THEN Ends(t)
     ELSE /\ uctx' = [uctx EXCEPT ![t].stage = IF uhdlrs[uctx[t].ev] = "user" THEN "run" ELSE "return"]
          /\ UNCHANGED <<umode, ustack, uwant, ufault>>
  /\ FpuSame /\ UNCHANGED <<ucur, upend, ppend, uhdlrs, uraised, useen, uhalt>>
-----------------------------------------------------------------------------
(* Into the kernel *)

\* An interrupt, which may ask for another thread to run
UInterrupt(t) ==
  /\ Runs(t) /\ ToKernel(t)
  /\ FpuSame /\ HistorySame /\ UNCHANGED <<ucur, uctx, ustack, upend, ppend, uhdlrs, uraised, uhalt>>

\* A system call other than the ones below: the result is in a register.
\* x86_64_dispatch_syscall
USyscall(t) ==
  /\ InHandler(t, "run") /\ ToKernel(t) /\ uctx' = [uctx EXCEPT ![t].regs = ValueOf(t)]
  /\ Instruction(t, "regs", uctx[t].regs, ValueOf(t))
  /\ FpuSame /\ UNCHANGED <<ucur, ustack, upend, ppend, uhdlrs, uraised, uhalt>>

UExit(t) ==
  /\ InHandler(t, "run") /\ Ends(t)
  /\ FpuSame /\ UNCHANGED <<ucur, useen, upend, ppend, uhdlrs, uraised, uhalt>>

\* device_not_available: the FPU registers of the thread are loaded; the
\* instruction is executed again after the return.
DeviceNotAvailable(t) ==
  /\ InHandler(t, "run") /\ fts /\ ToKernel(t)
  /\ fts' = FALSE /\ fused' = fused \cup {t} /\ fregs' = fpctx[t] /\ UNCHANGED fpctx
  /\ HistorySame /\ UNCHANGED <<ucur, uctx, ustack, upend, ppend, uhdlrs, uraised, uhalt>>

\* cpu_exception, of an instruction at the current depth: an event for the
\* thread itself, or its end if there is no memory for one
CpuException(t, n) ==
  /\ InHandler(t, "run")
  /\ \/ /\ n \in EventTraps /\ RaiseEvent /\ ToKernel(t)
        /\ upend' = [upend EXCEPT ![t] = Append(@, [no |-> TrapEvent(n), at |-> uctx[t].depth])]
        /\ ufault' = [ufault EXCEPT ![t] = @ \cup {uctx[t].depth}]
        /\ UNCHANGED <<uctx, ustack, uwant, uhalt>>
     \/ n \in EventTraps /\ Ends(t) /\ UNCHANGED <<upend, uhalt, uraised>>
     \/ n \in IdleTraps /\ ToKernel(t) /\ UNCHANGED <<upend, uctx, ustack, uwant, ufault, uhalt, uraised>>
     \/ n \in StopTraps /\ uhalt' = TRUE /\ UNCHANGED <<umode, upend, uctx, ustack, uwant, ufault, uraised>>
  /\ FpuSame /\ UNCHANGED <<ucur, ppend, uhdlrs, useen>>

\* Another process sends an event to t, or to the process.
USend(t, i) ==
  /\ ~uhalt /\ RaiseEvent
  /\ \/ upend' = [upend EXCEPT ![t] = Append(@, [no |-> i, at |-> UEvents + 1])] /\ UNCHANGED ppend
     \/ ppend' = Append(ppend, [no |-> i, at |-> UEvents + 1]) /\ UNCHANGED upend
  /\ FpuSame /\ HistorySame /\ UNCHANGED <<ucur, umode, uctx, ustack, uhdlrs, uhalt>>
-----------------------------------------------------------------------------
(* In the kernel, and back *)

\* sched_switch_threads, hal_fpu_context_switch: FPU registers that were used
\* are saved, the next FPU instruction traps.
SwitchThreads(t, u) ==
  /\ ~uhalt /\ ucur = t /\ t # u /\ umode[t] \in {"kernel", "gone"} /\ umode[u] # "gone"
  /\ ucur' = u
  /\ IF t \in fused THEN fpctx' = [fpctx EXCEPT ![t] = fregs] /\ fused' = fused \ {t} ELSE UNCHANGED <<fpctx, fused>>
  /\ fts' = TRUE /\ UNCHANGED fregs
  /\ HistorySame /\ UNCHANGED <<umode, uctx, ustack, upend, ppend, uhdlrs, uraised, uhalt>>

\* Where the first event of the lowest number is in a queue
FirstOf(q) ==
  {k \in DOMAIN q : \A j \in DOMAIN q : q[k].no < q[j].no \/ (q[k].no = q[j].no /\ k <= j)}

\* Mutant: the frame gets the values saved at the last switch.
FrameFpuStale(t) == fpctx[t]

\* The FPU registers of the interrupted code
FrameFpu(t) == IF t \in fused THEN fregs ELSE fpctx[t]

\* The frame is written above the ones in use, the handler starts.
EnterHandler(t, e) ==
  LET d == uctx[t].depth + 1 IN
  /\ ustack' = [ustack EXCEPT ![t] = Append(@, [ctx |-> uctx[t], fpu |-> FrameFpu(t)])]
  /\ uctx' = [uctx EXCEPT ![t].depth = d, ![t].stage = "enter", ![t].ev = e.no]
  /\ umode' = [umode EXCEPT ![t] = "user"]
  /\ uwant' = [uwant EXCEPT ![t][d] = uwant[t][d - 1]]
  /\ ufault' = [ufault EXCEPT ![t] = @ \ {e.at}]

\* x86_64_handle_post_exception once no other thread is to run: one event is
\* taken, from the queue of the process before that of the thread.  The stack
\* may be exhausted.
PostException(t) ==
  /\ ~uhalt /\ ucur = t /\ umode[t] = "kernel"
  /\ \/ /\ ppend = << >> /\ upend[t] = << >>
        /\ umode' = [umode EXCEPT ![t] = "user"]
        /\ UNCHANGED <<uctx, ustack, upend, ppend, uwant, ufault>>
     \/ \E k \in FirstOf(ppend) :
          /\ ppend' = ListDel(ppend, k) /\ UNCHANGED upend
          /\ EnterHandler(t, ppend[k]) \/ Ends(t)
     \/ \E k \in FirstOf(upend[t]) :
          /\ ppend = << >>
          /\ upend' = [upend EXCEPT ![t] = ListDel(@, k)] /\ UNCHANGED ppend
          /\ EnterHandler(t, upend[t][k]) \/ Ends(t)
  /\ FpuSame /\ UNCHANGED <<ucur, uhdlrs, uraised, useen, uhalt>>

\* The context and the FPU registers come back from the frame.
FrameRestored(t) ==
  LET f == Innermost(ustack[t]) IN
  /\ uctx' = [uctx EXCEPT ![t] = f.ctx] /\ ustack' = [ustack EXCEPT ![t] = Outer(@)]
  /\ uwant' = [uwant EXCEPT ![t][uctx[t].depth] = [regs |-> Zero, fpu |-> Zero]]
  /\ IF t \in fused THEN fregs' = f.fpu /\ UNCHANGED fpctx ELSE fpctx' = [fpctx EXCEPT ![t] = f.fpu] /\ UNCHANGED fregs

\* Mutant: the return does not look for the next event.
EventReturnDirect(t) ==
  /\ Runs(t) /\ uctx[t].depth > 0 /\ uctx[t].stage \in {"run", "return"}
  /\ FrameRestored(t)
  /\ UNCHANGED <<ucur, umode, ufault, useen, fts, fused, upend, ppend, uhdlrs, uraised, uhalt>>

\* yatos_event_return, _x86_64_return_from_event_handler
EventReturn(t) ==
  /\ Runs(t) /\ uctx[t].depth > 0 /\ uctx[t].stage \in {"run", "return"} /\ ToKernel(t)
  /\ FrameRestored(t)
  /\ UNCHANGED <<ucur, ufault, useen, fts, fused, upend, ppend, uhdlrs, uraised, uhalt>>

TrapNext ==
  \/ \E t \in UThread :
       \/ Work(t) \/ FpuWork(t) \/ InvokeHandler(t) \/ UInterrupt(t) \/ USyscall(t) \/ UExit(t)
       \/ DeviceNotAvailable(t) \/ PostException(t) \/ EventReturn(t)
  \/ \E t \in UThread, n \in UTraps : CpuException(t, n)
  \/ \E t \in UThread, i \in UChosen, h \in {"dfl", "ign", "user"} : RegisterUserHandler(t, i, h)
  \/ \E t \in UThread, i \in USent : USend(t, i)
  \/ \E t, u \in UThread : SwitchThreads(t, u)

TrapSpec == TrapInit /\ [][TrapNext]_trapVars
-----------------------------------------------------------------------------
\* An instruction finds in the registers, and in the FPU registers, what the
\* code at its depth left there: the values survive other threads, system calls
\* and event handlers that use the same registers, although the FPU is saved
\* and loaded only when needed.
RegistersKept == useen.kept

\* Code that has raised a CPU exception does not go on before the handler of
\* the exception's event was called: the return from another handler looks for
\* the next event before the interrupted code runs.
FaultsComeFirst == ~useen.fault
=============================================================================
