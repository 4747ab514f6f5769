------------------------------- MODULE Mutex -------------------------------
(***************************************************************************)
(* Threads that contend for one mutex (kern/mutex.c), whose waiters sleep  *)
(* and are woken through a synchronisation object (thr/thread-sync.c), on  *)
(* top of the dispatcher of module Sched.                                  *)
(*                                                                         *)
(* mutex_lock and mutex_unlock run with interrupts masked, so everything   *)
(* between two sleeps is one step; only the loop of sync_wake is spread    *)
(* over steps, one per woken thread, during which nothing else can happen. *)
(* Outside of them, and between the two halves of mutex_destroy, which     *)
(* masks nothing, a timer interrupt may take the CPU away.                 *)
(***************************************************************************)
EXTENDS Sched, Functions

CONSTANTS
  Recursive,     \* the mutex has MTX_FLAG_RECURSIVE
  MaxDepth,      \* bound: how deep an owner nests mutex_lock
  NestedCallers, \* threads that call mutex_lock with a spinlock held
  Null           \* the owner of a free mutex

ASSUME MutexAssumption ==
  /\ Recursive \in BOOLEAN
  /\ MaxDepth \in Nat \ {0}
  /\ NestedCallers \subseteq Thread
  /\ Null \notin AnyThread

VARIABLES
  counter,  \* mtx->counter
  owner,    \* mtx->owner
  waitq,    \* the sync_blocks linked to mtx->mutex_waiter.que, by thread
  reason,   \* blk->reason of the thread's sync_block
  pc,       \* where the thread is in the code
  holds,    \* mutex_lock calls that returned true, less mutex_unlock calls
  dead,     \* mutex_destroy has been completed
  halted    \* a kassert has stopped the kernel

mutexVars == <<counter, owner, waitq, reason, pc, holds, dead, halted>>
vars == <<current, status, ready, preempt, delayed, slice,
          counter, owner, waitq, reason, pc, holds, dead, halted>>

Reason == {"WAIT", "RELEASED", "DESTROYED"}

\* "run" outside the mutex code; "lock" asleep in mutex_lock; "unlock" and
\* "destroy" in the loop of sync_wake; "clear" before the last statements of
\* mutex_destroy.
Pc == {"run", "lock", "unlock", "destroy", "clear"}

TypeOK ==
  /\ SchedTypeOK
  /\ counter \in Nat
  /\ owner \in Thread \cup {Null}
  /\ waitq \in Seq(Thread)
  /\ reason \in [Thread -> Reason]
  /\ pc \in [Thread -> Pc]
  /\ holds \in [Thread -> Nat]
  /\ dead \in BOOLEAN
  /\ halted \in BOOLEAN

\* mutex_init
Init ==
  /\ SchedInit
  /\ counter = 0
  /\ owner = Null
  /\ waitq = << >>
  /\ reason = [t \in Thread |-> "WAIT"]
  /\ pc = [t \in Thread |-> "run"]
  /\ holds = [t \in Thread |-> 0]
  /\ dead = FALSE
  /\ halted = FALSE

\* t is executing code outside of the mutex operations.
Running(t) == current = t /\ pc[t] = "run" /\ ~halted
-----------------------------------------------------------------------------
\* thr_start by the boot code or by a running thread.
ThrStart(u) ==
  /\ ~halted
  /\ status[current] = "RUN"
  /\ preempt[current] = 0
  /\ current # Idle => pc[current] = "run"
  /\ status[u] = "DORMANT"
  /\ SchedSchedule(WakeStatus(status, u), WakeReady(status, ready, u))
  /\ UNCHANGED <<preempt, slice>> /\ UNCHANGED mutexVars

\* A thread gives up the CPU by thr_yield.
Yield(t) ==
  /\ Running(t)
  /\ preempt[t] = 0
  /\ ThrYield
  /\ UNCHANGED <<preempt, slice>> /\ UNCHANGED mutexVars

\* One turn of the idle loop.
IdleYield ==
  /\ current = Idle
  /\ ~halted
  /\ ThrYield
  /\ UNCHANGED <<preempt, slice>> /\ UNCHANGED mutexVars

\* A timer interrupt, which arrives only where interrupts are enabled.
Tick(t) ==
  /\ current = t
  /\ ~halted
  /\ pc[t] \in {"run", "clear"}
  /\ preempt[t] = 0
  /\ TimerTick
  /\ UNCHANGED mutexVars

\* A thread enters and leaves a section protected by some spinlock taken with
\* spinlock_lock_disable_intr.
SpinLock(t) ==
  /\ Running(t)
  /\ preempt[t] = 0
  /\ DisableDispatch
  /\ UNCHANGED slice /\ UNCHANGED mutexVars

SpinUnlock(t) ==
  /\ Running(t)
  /\ preempt[t] > 0
  /\ EnableDispatch
  /\ UNCHANGED slice /\ UNCHANGED mutexVars
-----------------------------------------------------------------------------
\* Mutant: a woken thread takes the mutex without looking at it again.
AcquireWithoutRecheck(t) ==
  /\ counter = 0 \/ pc[t] = "lock"
  /\ counter' = 1
  /\ owner' = t
  /\ holds' = [holds EXCEPT ![t] = @ + 1]
  /\ pc' = [pc EXCEPT ![t] = "run"]
  /\ UNCHANGED schedVars
  /\ UNCHANGED <<waitq, reason, dead, halted>>

\* mutex_lock finds the mutex free.
Acquire(t) ==
  /\ counter = 0
  /\ counter' = 1
  /\ owner' = t
  /\ holds' = [holds EXCEPT ![t] = @ + 1]
  /\ pc' = [pc EXCEPT ![t] = "run"]
  /\ UNCHANGED schedVars
  /\ UNCHANGED <<waitq, reason, dead, halted>>

\* mutex_lock by the owner of a recursive mutex.
Reacquire(t) ==
  /\ counter > 0
  /\ owner = t
  /\ Recursive
  /\ counter' = counter + 1
  /\ holds' = [holds EXCEPT ![t] = @ + 1]
  /\ pc' = [pc EXCEPT ![t] = "run"]
  /\ UNCHANGED schedVars
  /\ UNCHANGED <<owner, waitq, reason, dead, halted>>

\* mutex_lock sleeps in sync_wait: the thread queues itself, drops mtx->lock
\* and calls sched_schedule, which stops the kernel when dispatch is still
\* disabled by a lock of the caller.
Sleep(t) ==
  /\ counter > 0
  /\ ~(owner = t /\ Recursive)
  /\ waitq' = Append(waitq, t)
  /\ reason' = [reason EXCEPT ![t] = "WAIT"]
  /\ pc' = [pc EXCEPT ![t] = "lock"]
  /\ \/ /\ preempt[t] = 0
        /\ SchedSchedule([status EXCEPT ![t] = "WAIT"], ready)
        /\ UNCHANGED halted
     \/ /\ preempt[t] > 0
        /\ halted' = TRUE
        /\ status' = [status EXCEPT ![t] = "WAIT"]
        /\ UNCHANGED <<current, ready, delayed>>
  /\ UNCHANGED <<preempt, slice, counter, owner, holds, dead>>

\* mutex_lock up to its return or its first sleep.  A caller does not lock a
\* non-recursive mutex it already owns.
MutexLock(t) ==
  /\ Running(t)
  /\ preempt[t] = 0 \/ t \in NestedCallers
  /\ holds[t] = 0 \/ (Recursive /\ holds[t] < MaxDepth)
  /\ Acquire(t) \/ Reacquire(t) \/ Sleep(t)

\* mutex_lock goes on after sync_wait: it gives up when the mutex has been
\* destroyed and tries again otherwise.
MutexLockResume(t) ==
  /\ current = t
  /\ pc[t] = "lock"
  /\ ~halted
  /\ \/ /\ reason[t] = "DESTROYED"
        /\ pc' = [pc EXCEPT ![t] = "run"]
        /\ UNCHANGED schedVars
        /\ UNCHANGED <<counter, owner, waitq, reason, holds, dead, halted>>
     \/ /\ reason[t] # "DESTROYED"
        /\ Acquire(t) \/ Reacquire(t) \/ Sleep(t)

\* Mutant: the last mutex_unlock wakes nobody.
MutexUnlockNoWake(t) ==
  /\ Running(t)
  /\ holds[t] > 0
  /\ counter' = counter - 1
  /\ holds' = [holds EXCEPT ![t] = @ - 1]
  /\ owner' = IF counter = 1 THEN Null ELSE owner
  /\ UNCHANGED schedVars
  /\ UNCHANGED <<waitq, reason, pc, dead, halted>>

\* mutex_unlock by the owner; the last one goes on to wake the sleepers.
MutexUnlock(t) ==
  /\ Running(t)
  /\ holds[t] > 0
  /\ counter' = counter - 1
  /\ holds' = [holds EXCEPT ![t] = @ - 1]
  /\ \/ /\ counter > 1
        /\ UNCHANGED <<owner, pc>>
     \/ /\ counter = 1
        /\ owner' = Null
        /\ pc' = [pc EXCEPT ![t] = "unlock"]
  /\ UNCHANGED schedVars
  /\ UNCHANGED <<waitq, reason, dead, halted>>

\* mutex_destroy, by the owner: the only caller that can have sleepers to
\* release and that does not leave another thread to unlock a free mutex.
MutexDestroy(t) ==
  /\ Running(t)
  /\ preempt[t] = 0
  /\ holds[t] > 0
  /\ pc' = [pc EXCEPT ![t] = "destroy"]
  /\ UNCHANGED schedVars
  /\ UNCHANGED <<counter, owner, waitq, reason, holds, dead, halted>>

\* The reason sync_wake is called with.
WakeReason(t) == IF pc[t] = "unlock" THEN "RELEASED" ELSE "DESTROYED"

\* One turn of the loop of sync_wake, whose policy is SYNC_WAKE_FLAG_ALL.
SyncWake(t) ==
  /\ current = t
  /\ ~halted
  /\ pc[t] \in {"unlock", "destroy"}
  /\ waitq # << >>
  /\ LET blk == Head(waitq) IN
       /\ reason' = [reason EXCEPT ![blk] = WakeReason(t)]
       /\ status' = WakeStatus(status, blk)
       /\ ready' = WakeReady(status, ready, blk)
  /\ waitq' = Tail(waitq)
  /\ delayed' = [delayed EXCEPT ![t] = TRUE]
  /\ UNCHANGED <<current, preempt, slice, counter, owner, pc, holds, dead, halted>>

\* Mutant: sync_wake stops after the first thread (SYNC_WAKE_FLAG_ONE).
SyncWakeEndEarly(t) ==
  /\ current = t
  /\ ~halted
  /\ pc[t] \in {"unlock", "destroy"}
  /\ pc' = [pc EXCEPT ![t] = IF @ = "unlock" THEN "run" ELSE "clear"]
  /\ IF preempt[t] = 0 THEN SchedSchedule(status, ready)
     ELSE UNCHANGED <<current, status, ready, delayed>>
  /\ UNCHANGED <<preempt, slice, counter, owner, waitq, reason, holds, dead, halted>>

\* The end of sync_wake and of its caller: the dispatch request made by the
\* wake-ups is served unless a lock of the caller still defers it.
SyncWakeEnd(t) ==
  /\ current = t
  /\ ~halted
  /\ pc[t] \in {"unlock", "destroy"}
  /\ waitq = << >>
  /\ pc' = [pc EXCEPT ![t] = IF @ = "unlock" THEN "run" ELSE "clear"]
  /\ IF preempt[t] = 0 THEN SchedSchedule(status, ready)
     ELSE UNCHANGED <<current, status, ready, delayed>>
  /\ UNCHANGED <<preempt, slice, counter, owner, waitq, reason, holds, dead, halted>>

\* The last statements of mutex_destroy.
MutexDestroyEnd(t) ==
  /\ current = t
  /\ ~halted
  /\ pc[t] = "clear"
  /\ counter' = 0
  /\ owner' = Null
  /\ holds' = [holds EXCEPT ![t] = 0]
  /\ dead' = TRUE
  /\ pc' = [pc EXCEPT ![t] = "run"]
  /\ UNCHANGED schedVars
  /\ UNCHANGED <<waitq, reason, halted>>

\* kassert loops for ever.
Halt == halted /\ UNCHANGED vars

Next ==
  \/ IdleYield \/ Halt
  \/ \E t \in Thread :
       \/ ThrStart(t) \/ Yield(t) \/ Tick(t)
       \/ SpinLock(t) \/ SpinUnlock(t)
       \/ MutexLock(t) \/ MutexLockResume(t) \/ MutexUnlock(t)
       \/ MutexDestroy(t) \/ SyncWake(t) \/ SyncWakeEnd(t) \/ MutexDestroyEnd(t)

Spec == Init /\ [][Next]_vars

(***************************************************************************)
(* Fairness.  The CPU executes instructions, so a step of the running code *)
(* that stays possible happens: the idle loop turns, a woken thread goes   *)
(* on in mutex_lock, the loops and the masked sections end.  A timer       *)
(* interrupt that arrives in a masked section stays pending until the      *)
(* section ends, hence strong fairness for Tick.  A thread that keeps      *)
(* losing the CPU to the timer still gets ahead, since a slice is long     *)
(* against a few instructions; that the owner of the mutex unlocks it some *)
(* time is the obligation of the callers of mutex_lock.                    *)
(***************************************************************************)
Fairness ==
  /\ WF_vars(IdleYield)
  /\ \A t \in Thread :
       /\ SF_vars(Tick(t))
       /\ SF_vars(MutexUnlock(t))
       /\ SF_vars(MutexDestroyEnd(t))
       /\ WF_vars(SpinUnlock(t))
       /\ WF_vars(MutexLockResume(t))
       /\ WF_vars(SyncWake(t))
       /\ WF_vars(SyncWakeEnd(t))

FairSpec == Spec /\ Fairness
-----------------------------------------------------------------------------
\* Between a mutex_lock that returned true and the matching mutex_unlock of
\* one thread no other thread gets there, and the nesting depth kept in
\* mtx->counter is that of the owner.
MutualExclusion ==
  \A t \in Thread : holds[t] > 0 => owner = t /\ counter = holds[t]

\* A thread sleeps in mutex_lock only while the mutex is taken or its last
\* owner is still in the loop of sync_wake; mutex_destroy is the exception,
\* since it marks the mutex free without waking the threads that went to
\* sleep after its call of sync_wake.
NoLostWakeup ==
  waitq # << >> => \/ counter > 0
                   \/ dead
                   \/ \E t \in Thread : current = t /\ pc[t] = "unlock"

\* Every thread is in the one queue its status names, once: in the ready
\* queue of its priority when it can run but does not, in the wait queue of
\* the mutex when it sleeps, and in neither otherwise.  _sched_wakeup and
\* sched_schedule keep this by testing the status before they queue a thread.
QueuesMatchStatus ==
  /\ \A p \in Level : IsInjective(ready[p])
  /\ \A t \in Thread, p \in Level :
       t \in Range(ready[p]) <=> status[t] = "READY" /\ p = Prio[t]
  /\ IsInjective(waitq)
  /\ \A t \in Thread : t \in Range(waitq) <=> status[t] = "WAIT"

\* The thread the CPU executes, and no other, has status RUN, as the kassert
\* after the switch in sched_schedule says.  A thread that stopped the kernel
\* by sleeping in a critical section is still current.
OneRuns ==
  \A t \in Thread : /\ status[t] = "RUN" => current = t
                    /\ current = t => status[t] = IF halted THEN "WAIT" ELSE "RUN"

\* A section protected by a spinlock is never interrupted by another thread:
\* a thread that is not running has dispatch enabled.  Every spinlock of the
\* kernel relies on this, since on one CPU taking it does nothing else.
SectionsUninterrupted ==
  \A t \in Thread : t # current => preempt[t] = 0

\* The dispatcher's state is consistent: queues and states agree, one thread
\* runs, and it is not switched in a section of a spinlock (sched_schedule,
\* _sched_wakeup, ti_enable_dispatch).
DispatchSound == QueuesMatchStatus /\ OneRuns /\ SectionsUninterrupted

\* sched_schedule is not called in a critical section (the kassert of
\* thr/thread-schedule.c).
NoScheduleInCriticalSection == ~halted

\* Under round robin every thread that can run gets the CPU.
ReadyRuns ==
  \A t \in Thread : status[t] = "READY" ~> (current = t \/ halted)

\* Every thread that sleeps in mutex_lock is woken, unless the mutex was
\* destroyed under it.
SleeperWoken ==
  \A t \in Thread : status[t] = "WAIT" ~> (status[t] # "WAIT" \/ dead \/ halted)
=============================================================================
