------------------------------- MODULE Sched -------------------------------
(***************************************************************************)
(* The dispatcher of the kernel: thr/thread-schedule.c, thr/thread-info.c, *)
(* thr_yield of thr/thread.c, the time slice of tim/timer-handler.c and    *)
(* the idle loop of thr/thread-idle.c.                                     *)
(*                                                                         *)
(* The machine has one CPU (NR_CPUS is 1), so exactly one thread runs and  *)
(* a thread is switched out only inside sched_schedule.  The module holds  *)
(* the dispatcher's state and the operators that change it; a module that  *)
(* models threads at work EXTENDS it and puts them into its own actions.   *)
(***************************************************************************)
EXTENDS Naturals, Sequences

CONSTANTS
  Thread,   \* the threads other than the idle thread
  Idle,     \* the idle thread of the CPU
  Prio,     \* thr->prio of every thread
  MaxPrio,  \* THR_MAX_PRIO: the number of ready queues
  Slice     \* THR_DEFAULT_SLICE: the ticks a round-robin thread may run

ASSUME SchedAssumption ==
  /\ Idle \notin Thread
  /\ MaxPrio \in Nat \ {0}
  /\ Prio \in [Thread -> 0 .. MaxPrio - 1]
  /\ Slice \in Nat \ {0}

VARIABLES
  current,  \* the running thread
  status,   \* thr->status
  ready,    \* ready_queues[]: one FIFO queue per priority
  preempt,  \* ti->preempt: how often the thread has disabled dispatch
  delayed,  \* THR_DISPATCH_DELAYED in ti->flags
  slice     \* thr->cur_slice

schedVars == <<current, status, ready, preempt, delayed, slice>>

AnyThread == Thread \cup {Idle}
Level == 0 .. MaxPrio - 1

\* THR_RR_PRIO: the priority whose threads are scheduled round robin.
RRPrio == 0

Status == {"DORMANT", "READY", "RUN", "WAIT", "EXIT"}

SchedTypeOK ==
  /\ current \in AnyThread
  /\ status \in [AnyThread -> Status]
  /\ ready \in [Level -> Seq(Thread)]
  /\ preempt \in [AnyThread -> Nat]
  /\ delayed \in [AnyThread -> BOOLEAN]
  /\ slice \in [Thread -> 1 .. Slice]

\* The boot code has become the idle thread and every other thread has been
\* created but not started.
SchedInit ==
  /\ current = Idle
  /\ status = [t \in AnyThread |-> IF t = Idle THEN "RUN" ELSE "DORMANT"]
  /\ ready = [p \in Level |-> << >>]
  /\ preempt = [t \in AnyThread |-> 0]
  /\ delayed = [t \in AnyThread |-> FALSE]
  /\ slice = [t \in Thread |-> Slice]
-----------------------------------------------------------------------------
(***************************************************************************)
(* Operators.  st and rq are the thread states and the ready queues at the *)
(* time of the call, which may already differ from status and ready.       *)
(***************************************************************************)

\* Mutant: the thread is added at the top (queue_add_top).
EnqueueAtTop(rq, t) == [rq EXCEPT ![Prio[t]] = <<t>> \o @]

\* ready_queue_add_nolock
Enqueue(rq, t) == [rq EXCEPT ![Prio[t]] = Append(@, t)]

\* The queue ready_queue_get_next_thread stops at: it scans from the top.
IsTopQueue(rq, p) == rq[p] # << >> /\ \A q \in Level : q > p => rq[q] = << >>

\* Mutant: a thread goes back to its ready queue whatever its status is.
SwitchToRequeueAlways(next, st, rq) ==
  IF next = current
  THEN current' = current /\ status' = st /\ ready' = rq
  ELSE /\ current' = next
       /\ status' = [st EXCEPT ![next] = "RUN"]
       /\ ready' = IF current # Idle THEN Enqueue(rq, current) ELSE rq

\* The rest of sched_schedule once the next thread is known: a thread that
\* can still run goes back to the tail of its queue, except the idle thread.
SwitchTo(next, st, rq) ==
  IF next = current
  THEN current' = current /\ status' = st /\ ready' = rq
  ELSE /\ current' = next
       /\ status' = [st EXCEPT ![next] = "RUN"]
       /\ ready' = IF current # Idle /\ st[current] = "READY"
                   THEN Enqueue(rq, current) ELSE rq

\* sched_schedule, called with dispatch enabled.  A running thread that has
\* not given up the CPU keeps it whatever the queues hold.
SchedSchedule(st, rq) ==
  /\ delayed' = [delayed EXCEPT ![current] = FALSE]
  /\ \/ /\ st[current] = "RUN"
        /\ current' = current /\ status' = st /\ ready' = rq
     \/ /\ st[current] # "RUN"
        /\ \E p \in Level :
             /\ IsTopQueue(rq, p)
             /\ SwitchTo(Head(rq[p]), st, [rq EXCEPT ![p] = Tail(@)])
     \/ /\ st[current] # "RUN"
        /\ \A p \in Level : rq[p] = << >>
        /\ SwitchTo(Idle, st, rq)

\* _sched_wakeup: only a sleeping or a new thread enters a ready queue.
CanWake(st, t) == st[t] \in {"WAIT", "DORMANT"}

WakeStatus(st, t) == IF CanWake(st, t) THEN [st EXCEPT ![t] = "READY"] ELSE st

WakeReady(st, rq, t) == IF CanWake(st, t) THEN Enqueue(rq, t) ELSE rq

\* thr_yield with dispatch enabled, and equally thr_yield called by the timer
\* handler followed by the dispatch at the end of the interrupt.
ThrYield == SchedSchedule([status EXCEPT ![current] = "READY"], ready)

\* timer_handler for a round-robin thread: it pays one tick, and yields with
\* a fresh slice when the last tick is spent.
TimerTick ==
  /\ current # Idle
  /\ Prio[current] = RRPrio
  /\ \/ /\ slice[current] > 1
        /\ slice' = [slice EXCEPT ![current] = @ - 1]
        /\ UNCHANGED <<current, status, ready, delayed>>
     \/ /\ slice[current] = 1
        /\ slice' = [slice EXCEPT ![current] = Slice]
        /\ ThrYield
  /\ UNCHANGED preempt

\* ti_enable_dispatch as spinlock_unlock reaches it with the last lock: a
\* dispatch request made meanwhile is served.
EnableDispatch ==
  /\ preempt' = [preempt EXCEPT ![current] = @ - 1]
  /\ IF preempt[current] = 1 /\ delayed[current]
     THEN SchedSchedule(status, ready)
     ELSE UNCHANGED <<current, status, ready, delayed>>

\* ti_disable_dispatch
DisableDispatch ==
  /\ preempt' = [preempt EXCEPT ![current] = @ + 1]
  /\ UNCHANGED <<current, status, ready, delayed>>
=============================================================================
