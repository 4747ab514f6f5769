------------------------------- MODULE Timer -------------------------------
(***************************************************************************)
(* The call-out queue and waiting with a time limit (tim/timer.c,          *)
(* tim/timer-handler.c): threads that wait for one synchronisation object  *)
(* with a limit (tim_wait_obj) or only for time to pass (tim_wait).        *)
(*                                                                         *)
(* The call-out, the timer object and both sync blocks of a wait live on   *)
(* the stack of the waiting thread.  A call-out is represented by the      *)
(* ticks that are left until it expires, so that time has no bound.  In a  *)
(* system call interrupts are disabled; a kernel thread (Preemptible) can  *)
(* be interrupted by the timer while it prepares its wait.                 *)
(***************************************************************************)
EXTENDS Naturals

CONSTANTS
  Thread,
  Preemptible,  \* threads that wait with interrupts enabled
  Ms,           \* the time limits in use, in milliseconds
  Null

ASSUME TimerAssumption ==
  /\ Preemptible \subseteq Thread
  /\ Ms \subseteq Nat
  /\ Null \notin Thread

VARIABLES
  left,     \* timer_callout_queue: ticks until the call-out of a thread expires
  pc,       \* where the thread is
  status,   \* thr->status, "READY" standing also for the threads that run
  objq,     \* obj->que, whose threads are all woken together
  oreason,  \* obj_sb.reason
  treason,  \* timer_sb.reason
  mid,      \* the thread that prepares a wait, or Null
  since,    \* history: what happened to the wait of each thread
  res,      \* what its last wait returned
  halted    \* a kassert has stopped the kernel

vars == <<left, pc, status, objq, oreason, treason, mid, since, res, halted>>

\* ms_to_ticks, with HZ = 100
MsToTicks(ms) == ms \div 10 + 1

Reason == {"WAIT", "RELEASED", "TIMEOUT"}

\* "armed": the call-out is queued, the thread is not in obj->que yet;
\* "queued": it is, and sched_schedule is next; "wait", "sleep": in
\* sched_schedule of tim_wait_obj and of tim_wait.
TypeOK ==
  /\ left \in [Thread -> Nat]
  /\ pc \in [Thread -> {"run", "armed", "queued", "wait", "sleep"}]
  /\ status \in [Thread -> {"READY", "WAIT"}]
  /\ objq \subseteq Thread
  /\ oreason \in [Thread -> Reason]
  /\ treason \in [Thread -> Reason]
  /\ mid \in Thread \cup {Null}
  /\ since \in [Thread -> SUBSET {"released", "expired"}]
  /\ res \in [Thread -> Reason \cup {"UNDEFINED"}]
  /\ halted \in BOOLEAN

\* The sets of threads whose call-outs are in the tree: 0 means no call-out.
Callouts == {t \in Thread : left[t] > 0}

\* _tim_setup_uptime_clock, and an empty call-out queue
Init ==
  /\ left = [t \in Thread |-> 0]
  /\ pc = [t \in Thread |-> "run"]
  /\ status = [t \in Thread |-> "READY"]
  /\ objq = {}
  /\ oreason = [t \in Thread |-> "WAIT"]
  /\ treason = [t \in Thread |-> "WAIT"]
  /\ mid = Null
  /\ since = [t \in Thread |-> {}]
  /\ res = [t \in Thread |-> "WAIT"]
  /\ halted = FALSE
-----------------------------------------------------------------------------
\* timer_handler_cmp: call-outs that expire together are equal, and RB_INSERT
\* refuses an equal element.
Collides(ticks) == \E u \in Callouts : left[u] = ticks

\* A wait begins: both sync blocks are fresh and the call-out is inserted,
\* or the kassert after RB_INSERT stops the kernel.
Insert(t, ms, where) ==
  /\ pc[t] = "run" /\ status[t] = "READY" /\ mid = Null /\ ~halted
  /\ IF Collides(MsToTicks(ms))
     THEN halted' = TRUE /\ UNCHANGED left
     ELSE left' = [left EXCEPT ![t] = MsToTicks(ms)] /\ UNCHANGED halted
  /\ pc' = [pc EXCEPT ![t] = where]
  /\ status' = [status EXCEPT ![t] = "WAIT"]
  /\ oreason' = [oreason EXCEPT ![t] = "WAIT"]
  /\ treason' = [treason EXCEPT ![t] = "WAIT"]
  /\ since' = [since EXCEPT ![t] = {}]
  /\ res' = [res EXCEPT ![t] = "WAIT"]
  /\ UNCHANGED objq

\* tim_wait: all of it happens with the lock of the call-out queue held.
TimWait(t, ms) == Insert(t, ms, "sleep") /\ UNCHANGED mid

\* wait_time_obj_no_schedule up to the unlock of the call-out queue
Arm(t, ms) == Insert(t, ms, "armed") /\ mid' = t

\* ... and its last section.
EnterObjQueue(t) ==
  /\ mid \in {t, Null} /\ pc[t] = "armed" /\ ~halted
  /\ mid' = t
  /\ pc' = [pc EXCEPT ![t] = "queued"]
  /\ objq' = objq \cup {t}
  /\ UNCHANGED <<left, status, oreason, treason, since, res, halted>>

\* tim_wait_with_callback: the thread leaves the CPU if it still is to wait.
Schedule(t) ==
  /\ mid \in {t, Null} /\ pc[t] = "queued" /\ ~halted
  /\ mid' = Null
  /\ pc' = [pc EXCEPT ![t] = "wait"]
  /\ UNCHANGED <<left, status, objq, oreason, treason, since, res, halted>>

\* Mutant: the call-out of a released wait stays in the queue.
FinishWaitTimeObjKeepsCallout(t) ==
  /\ pc[t] = "wait" /\ status[t] = "READY" /\ ~halted
  /\ res' = [res EXCEPT ![t] = IF oreason[t] # "WAIT" THEN oreason[t]
                               ELSE IF treason[t] # "WAIT" THEN treason[t] ELSE "UNDEFINED"]
  /\ objq' = objq \ {t}
  /\ pc' = [pc EXCEPT ![t] = "run"]
  /\ UNCHANGED <<left, status, oreason, treason, mid, since, halted>>

\* finish_wait_time_obj.  With neither reason set, and no event pending, the
\* variable it returns has never been assigned.
FinishWaitTimeObj(t) ==
  /\ pc[t] = "wait" /\ status[t] = "READY" /\ ~halted
  /\ res' = [res EXCEPT ![t] = IF oreason[t] # "WAIT" THEN oreason[t]
                               ELSE IF treason[t] # "WAIT" THEN treason[t] ELSE "UNDEFINED"]
  /\ objq' = objq \ {t}
  /\ left' = [left EXCEPT ![t] = 0]
  /\ pc' = [pc EXCEPT ![t] = "run"]
  /\ UNCHANGED <<status, oreason, treason, mid, since, halted>>

\* tim_wait after its sleep; its only reason is that of the timer object.
FinishTimWait(t) ==
  /\ pc[t] = "sleep" /\ status[t] = "READY" /\ ~halted
  /\ res' = [res EXCEPT ![t] = treason[t]]
  /\ pc' = [pc EXCEPT ![t] = "run"]
  /\ UNCHANGED <<left, status, objq, oreason, treason, mid, since, halted>>

\* sync_wake on the object by some thread.
Release ==
  /\ mid = Null /\ ~halted
  /\ objq # {}
  /\ oreason' = [t \in Thread |-> IF t \in objq THEN "RELEASED" ELSE oreason[t]]
  /\ status' = [t \in Thread |-> IF t \in objq THEN "READY" ELSE status[t]]
  /\ since' = [t \in Thread |-> IF t \in objq THEN since[t] \cup {"released"} ELSE since[t]]
  /\ objq' = {}
  /\ UNCHANGED <<left, pc, treason, mid, res, halted>>

\* Mutant: the comparison with the tick count is off by one.
ExpiredEarly(t) == left[t] \in {1, 2}

\* callout_ref->expire <= cur_tick
Expired(t) == left[t] = 1

\* Mutant: the call-outs are looked at, but the tick count does not advance.
TickWithoutUptime ==
  /\ ~halted
  /\ mid # Null => mid \in Preemptible
  /\ LET F == {t \in Callouts : Expired(t)} IN
       /\ treason' = [t \in Thread |-> IF t \in F THEN "TIMEOUT" ELSE treason[t]]
       /\ status' = [t \in Thread |-> IF t \in F THEN "READY" ELSE status[t]]
       /\ since' = [t \in Thread |-> IF left[t] = 1 THEN since[t] \cup {"expired"} ELSE since[t]]
       /\ left' = [t \in Thread |-> IF t \in F THEN 0 ELSE left[t]]
  /\ UNCHANGED <<pc, objq, oreason, mid, res, halted>>

\* timer_handler: the tick count advances and _tim_invoke_callout removes
\* every call-out that has expired and wakes its thread through its timer
\* object, which does nothing to a thread that is not asleep.
Tick ==
  /\ ~halted
  /\ mid # Null => mid \in Preemptible
  /\ LET F == {t \in Callouts : Expired(t)} IN
       /\ treason' = [t \in Thread |-> IF t \in F THEN "TIMEOUT" ELSE treason[t]]
       /\ status' = [t \in Thread |-> IF t \in F THEN "READY" ELSE status[t]]
       /\ since' = [t \in Thread |-> IF left[t] = 1 THEN since[t] \cup {"expired"} ELSE since[t]]
       /\ left' = [t \in Thread |-> IF t \in F \/ left[t] = 0 THEN 0 ELSE left[t] - 1]
  /\ UNCHANGED <<pc, objq, oreason, mid, res, halted>>

\* The slice of a thread that prepares its wait ends: thr_yield overwrites
\* the status WAIT, others run, and the thread goes on once it is dispatched.
SliceEnds ==
  /\ mid \in Preemptible /\ ~halted
  /\ status' = [status EXCEPT ![mid] = "READY"]
  /\ mid' = Null
  /\ UNCHANGED <<left, pc, objq, oreason, treason, since, res, halted>>

Next ==
  \/ Release \/ Tick \/ SliceEnds
  \/ \E t \in Thread :
       \/ EnterObjQueue(t) \/ Schedule(t) \/ FinishWaitTimeObj(t) \/ FinishTimWait(t)
       \/ \E ms \in Ms : TimWait(t, ms) \/ Arm(t, ms)

TimerSpec == Init /\ [][Next]_vars

(***************************************************************************)
(* Fairness: an interrupt that arrives while interrupts are disabled stays *)
(* pending, so the timer goes on if it can again and again; a woken thread *)
(* runs, and so does a thread whose slice has ended, in its turn.          *)
(***************************************************************************)
TimerFairness ==
  /\ SF_vars(Tick)
  /\ \A t \in Thread :
       /\ SF_vars(EnterObjQueue(t)) /\ SF_vars(Schedule(t))
       /\ WF_vars(FinishWaitTimeObj(t)) /\ WF_vars(FinishTimWait(t))
-----------------------------------------------------------------------------
\* A call-out and a sync block are on the stack of the waiting thread: neither
\* queue holds one of a thread whose wait has returned.
NothingOutlivesTheWait ==
  \A t \in Thread : t \in Callouts \cup objq => pc[t] # "run" \/ halted

\* What a wait returns is what happened: RELEASED only if the object was
\* released, even if the limit was reached too, and TIMEOUT only if the limit
\* was reached and the object was not released before the thread ran.  A slice
\* that ends during the preparation makes the result undefined.
ReasonIsTrue ==
  \A t \in Thread :
    /\ res[t] = "RELEASED" => "released" \in since[t]
    /\ res[t] = "TIMEOUT" => since[t] = {"expired"}
    /\ res[t] = "UNDEFINED" => t \in Preemptible

\* A thread that sleeps with a limit has a call-out that will wake it: no
\* wake-up is lost between the preparation of the wait and the sleep.
SleepersHaveCallouts ==
  \A t \in Thread : status[t] = "WAIT" /\ ~halted => t \in Callouts

\* Every wait with a limit returns.
WaitsReturn == \A t \in Thread : pc[t] # "run" ~> (pc[t] = "run" \/ halted)

\* Call-outs and sync blocks, which live on the stack of the waiting thread,
\* are queued exactly as long as they may be: none outlives its wait and no
\* sleeper is without one (tim_wait_obj, finish_wait_time_obj).
CalloutsMatchWaits == TypeOK /\ NothingOutlivesTheWait /\ SleepersHaveCallouts
=============================================================================
