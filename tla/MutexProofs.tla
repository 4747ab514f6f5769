---------------------------- MODULE MutexProofs ----------------------------
(***************************************************************************)
(* What the operators of module Sched do to the thread states and the      *)
(* ready queues, and the safety properties of module Mutex, for any set of *)
(* threads, any priorities, any slice and both kinds of mutex.  Proofs     *)
(* about module Irq, for any lines, handlers and threshold: nested         *)
(* interrupts are safe, and masks follow handlers.                         *)
(***************************************************************************)
EXTENDS Mutex, Irq, QueueLemmas

\* The ready queues hold exactly the threads that can run but do not, each
\* once and in the queue of its priority.  c is the current thread, which is
\* in no queue whatever its status is.
ReadyOK(st, rq, c) ==
  /\ \A p \in Level : IsInjective(rq[p])
  /\ \A t \in Thread, p \in Level :
       t \in Range(rq[p]) <=> st[t] = "READY" /\ p = Prio[t] /\ t # c

\* ready_queue_add_nolock puts the thread into the queue of its priority and
\* touches nothing else.
LEMMA EnqueueType ==
  ASSUME NEW rq \in [Level -> Seq(Thread)], NEW t \in Thread
  PROVE  Enqueue(rq, t) \in [Level -> Seq(Thread)]
  BY SchedAssumption, AppendQueue, Zenon DEF Enqueue, Level

LEMMA EnqueueRange ==
  ASSUME NEW rq \in [Level -> Seq(Thread)], NEW t \in Thread, NEW p \in Level,
         NEW u \in Thread
  PROVE  u \in Range(Enqueue(rq, t)[p]) <=>
           u \in Range(rq[p]) \/ (u = t /\ p = Prio[t])
<1>1. CASE p = Prio[t]
  <2>1. Enqueue(rq, t)[p] = Append(rq[p], t)
    BY <1>1 DEF Enqueue
  <2> QED
    BY <1>1, <2>1, AppendQueue
<1>2. CASE p # Prio[t]
  BY <1>2 DEF Enqueue
<1> QED
  BY <1>1, <1>2

LEMMA EnqueueInjective ==
  ASSUME NEW rq \in [Level -> Seq(Thread)], NEW t \in Thread, NEW p \in Level,
         IsInjective(rq[p]), t \notin Range(rq[p])
  PROVE  IsInjective(Enqueue(rq, t)[p])
<1>1. CASE p = Prio[t]
  <2>1. Enqueue(rq, t)[p] = Append(rq[p], t)
    BY <1>1 DEF Enqueue
  <2> QED
    BY <1>1, <2>1, AppendQueue
<1>2. CASE p # Prio[t]
  BY <1>2 DEF Enqueue
<1> QED
  BY <1>1, <1>2

\* sched_schedule picks the next thread from a ready queue, or the idle
\* thread when there is none, without losing or doubling any thread: the
\* queues stay consistent, a thread that now runs is RUN and was not asleep,
\* and no thread falls asleep or wakes up.
LEMMA ScheduleConsistent ==
  ASSUME current \in AnyThread,
         NEW STATE st, st \in [AnyThread -> Status],
         NEW STATE rq, rq \in [Level -> Seq(Thread)],
         delayed \in [AnyThread -> BOOLEAN],
         ReadyOK(st, rq, current),
         \A t \in Thread : st[t] = "RUN" => t = current,
         SchedSchedule(st, rq)
  PROVE  /\ current' \in AnyThread
         /\ status' \in [AnyThread -> Status]
         /\ ready' \in [Level -> Seq(Thread)]
         /\ delayed' \in [AnyThread -> BOOLEAN]
         /\ ReadyOK(status', ready', current')
         /\ \A t \in Thread : status'[t] = "RUN" <=> t = current'
         /\ \A t \in Thread : status'[t] = "WAIT" <=> st[t] = "WAIT"
         /\ st[current] = "RUN" => current' = current
<1> USE DEF AnyThread, Status
<1>1. delayed' \in [AnyThread -> BOOLEAN]
  BY DEF SchedSchedule
<1>2. CASE st[current] = "RUN"
  BY <1>1, <1>2, Zenon DEF SchedSchedule
<1>3. CASE st[current] # "RUN" /\ \E p \in Level : rq[p] # << >>
  <2>1. PICK p \in Level :
          /\ IsTopQueue(rq, p)
          /\ SwitchTo(Head(rq[p]), st, [rq EXCEPT ![p] = Tail(@)])
    BY <1>3, Zenon DEF SchedSchedule
  <2> DEFINE next == Head(rq[p])
             rq1 == [rq EXCEPT ![p] = Tail(@)]
  <2>2. /\ next \in Thread /\ next \in Range(rq[p])
        /\ Tail(rq[p]) \in Seq(Thread)
        /\ Range(Tail(rq[p])) = Range(rq[p]) \ {next}
        /\ IsInjective(Tail(rq[p]))
    BY <2>1, TailQueue, Zenon DEF IsTopQueue, ReadyOK
  <2>3. /\ st[next] = "READY" /\ p = Prio[next] /\ next # current
        /\ rq1 \in [Level -> Seq(Thread)]
        /\ rq1[p] = Tail(rq[p])
        /\ \A q \in Level : q # p => rq1[q] = rq[q]
    BY <2>2, Zenon DEF ReadyOK
  <2> HIDE DEF next, rq1
  <2>4. /\ current' = next
        /\ status' = [st EXCEPT ![next] = "RUN"]
        /\ ready' = IF current # Idle /\ st[current] = "READY"
                    THEN Enqueue(rq1, current) ELSE rq1
    BY <2>1, <2>3, Zenon DEF SwitchTo, next, rq1
  \* Without the thread that leaves the CPU, which is queued last.
  <2> DEFINE st1 == [status' EXCEPT ![current] = "WAIT"]
  <2>5. ReadyOK(st1, rq1, next)
    <3>1. \A q \in Level : IsInjective(rq1[q])
      BY <2>2, <2>3, Zenon DEF ReadyOK
    <3>2. ASSUME NEW t \in Thread, NEW q \in Level
          PROVE  t \in Range(rq1[q]) <=> st1[t] = "READY" /\ q = Prio[t] /\ t # next
      <4>1. t \in Range(rq1[q]) <=> t \in Range(rq[q]) /\ t # next
        BY <2>2, <2>3 DEF ReadyOK
      <4>2. t \in Range(rq[q]) <=> st[t] = "READY" /\ q = Prio[t] /\ t # current
        BY Zenon DEF ReadyOK
      <4>3. t # next => (st1[t] = "READY" <=> st[t] = "READY" /\ t # current)
        BY <2>4
      <4> QED
        BY <4>1, <4>2, <4>3, Zenon
    <3> QED
      BY <3>1, <3>2, Zenon DEF ReadyOK
  <2>6. ready' \in [Level -> Seq(Thread)] /\ ReadyOK(status', ready', next)
    <3>1. CASE current # Idle /\ st[current] = "READY"
      <4>1. /\ current \in Thread
            /\ \A q \in Level : IsInjective(rq1[q]) /\ current \notin Range(rq1[q])
        BY <2>4, <2>5, <3>1, Zenon DEF ReadyOK
      <4>2. ready' = Enqueue(rq1, current)
        BY <2>4, <3>1, Zenon
      <4>3. ready' \in [Level -> Seq(Thread)]
        BY <2>3, <4>1, <4>2, EnqueueType, Zenon
      <4>4. ASSUME NEW q \in Level, NEW u \in Thread
            PROVE  /\ IsInjective(ready'[q])
                   /\ u \in Range(ready'[q]) <=>
                        u \in Range(rq1[q]) \/ (u = current /\ q = Prio[u])
        <5> HIDE DEF AnyThread, Status, st1
        <5>0. rq1 \in [Level -> Seq(Thread)] /\ current \in Thread
          BY <2>3, <4>1
        <5>1. IsInjective(Enqueue(rq1, current)[q])
          BY <4>1, <5>0, EnqueueInjective, Zenon
        <5>2. u \in Range(Enqueue(rq1, current)[q]) <=>
                u \in Range(rq1[q]) \/ (u = current /\ q = Prio[current])
          BY <5>0, EnqueueRange, Zenon
        <5> QED
          BY <4>2, <5>1, <5>2, Zenon
      <4>5. /\ status'[current] = "READY" /\ current # next
            /\ \A u \in Thread : u # current => status'[u] = st1[u]
            /\ st1[current] = "WAIT"
        BY <2>3, <2>4, <3>1, Zenon
      <4>6. ASSUME NEW u \in Thread, NEW q \in Level
            PROVE  u \in Range(ready'[q]) <=>
                     status'[u] = "READY" /\ q = Prio[u] /\ u # next
        <5> HIDE DEF AnyThread, Status, st1
        <5>1. u \in Range(rq1[q]) <=> st1[u] = "READY" /\ q = Prio[u] /\ u # next
          BY <2>5, Zenon DEF ReadyOK
        <5> QED
          BY <4>4, <4>5, <5>1, Zenon
      <4> HIDE DEF st1
      <4> QED
        BY <4>1, <4>3, <4>4, <4>6, Zenon DEF ReadyOK
    <3>2. CASE ~(current # Idle /\ st[current] = "READY")
      BY <2>3, <2>4, <2>5, <3>2, SchedAssumption DEF ReadyOK
    <3> QED
      BY <3>1, <3>2
  <2> QED
    BY <1>1, <1>3, <2>2, <2>3, <2>4, <2>6
<1>4. CASE st[current] # "RUN" /\ \A p \in Level : rq[p] = << >>
  <2>1. SwitchTo(Idle, st, rq)
    BY <1>4, Zenon DEF SchedSchedule, IsTopQueue
  <2>2. CASE current = Idle
    BY <1>1, <1>4, <2>1, <2>2, SchedAssumption, Zenon DEF SwitchTo
  <2>3. CASE current # Idle
    <3>1. /\ current' = Idle
          /\ status' = [st EXCEPT ![Idle] = "RUN"]
          /\ ready' = IF st[current] = "READY" THEN Enqueue(rq, current) ELSE rq
      BY <2>1, <2>3, Zenon DEF SwitchTo
    <3>2. CASE st[current] = "READY"
      <4>1. /\ current \in Thread
            /\ \A q \in Level : IsInjective(rq[q]) /\ current \notin Range(rq[q])
        BY <2>3, Zenon DEF ReadyOK
      <4>2. ready' \in [Level -> Seq(Thread)]
        BY <3>1, <3>2, <4>1, EnqueueType, Zenon
      <4>3. ASSUME NEW q \in Level, NEW u \in Thread
            PROVE  /\ IsInjective(ready'[q])
                   /\ u \in Range(ready'[q]) <=>
                        u \in Range(rq[q]) \/ (u = current /\ q = Prio[u])
        <5> HIDE DEF AnyThread, Status
        <5>1. IsInjective(Enqueue(rq, current)[q])
          BY <4>1, EnqueueInjective, Zenon
        <5>2. u \in Range(Enqueue(rq, current)[q]) <=>
                u \in Range(rq[q]) \/ (u = current /\ q = Prio[u])
          BY <4>1, EnqueueRange
        <5> QED
          BY <3>1, <3>2, <5>1, <5>2, Zenon
      <4>4. \A u \in Thread : status'[u] = st[u] /\ u # Idle
        BY <3>1, SchedAssumption, Zenon
      <4>5. ReadyOK(status', ready', Idle)
        BY <3>2, <4>2, <4>3, <4>4 DEF ReadyOK
      <4> QED
        BY <1>1, <1>4, <2>3, <3>1, <4>2, <4>5, SchedAssumption, Zenon
    <3>3. CASE st[current] # "READY"
      BY <1>1, <1>4, <2>3, <3>1, <3>3, SchedAssumption DEF ReadyOK
    <3> QED
      BY <3>2, <3>3, Zenon
  <2> QED
    BY <2>2, <2>3, Zenon
<1> QED
  BY <1>2, <1>3, <1>4

\* _sched_wakeup of another thread keeps the ready queues consistent, starts
\* or stops no thread, and ends the sleep of that thread only.
LEMMA WakeConsistent ==
  ASSUME NEW st \in [AnyThread -> Status], NEW rq \in [Level -> Seq(Thread)],
         NEW c \in AnyThread, ReadyOK(st, rq, c),
         NEW t \in Thread, t # c
  PROVE  /\ WakeStatus(st, t) \in [AnyThread -> Status]
         /\ WakeReady(st, rq, t) \in [Level -> Seq(Thread)]
         /\ ReadyOK(WakeStatus(st, t), WakeReady(st, rq, t), c)
         /\ \A u \in Thread : u # t => WakeStatus(st, t)[u] = st[u]
         /\ WakeStatus(st, t)[t] # "WAIT"
         /\ WakeStatus(st, t)[t] = "RUN" => st[t] = "RUN"
         /\ WakeStatus(st, t)[Idle] = st[Idle]
<1>1. CASE ~CanWake(st, t)
  BY <1>1, Zenon DEF CanWake, WakeStatus, WakeReady
<1>2. CASE CanWake(st, t)
  <2>1. WakeStatus(st, t) = [st EXCEPT ![t] = "READY"]
    BY <1>2 DEF WakeStatus
  <2>2. WakeReady(st, rq, t) = Enqueue(rq, t)
    BY <1>2 DEF WakeReady
  <2>3. \A p \in Level : IsInjective(rq[p]) /\ t \notin Range(rq[p])
    BY <1>2, Zenon DEF CanWake, ReadyOK
  <2>4. ASSUME NEW p \in Level
        PROVE  IsInjective(Enqueue(rq, t)[p])
    BY <2>3, EnqueueInjective
  <2>5. ASSUME NEW u \in Thread, NEW p \in Level
        PROVE  u \in Range(Enqueue(rq, t)[p]) <=>
                 WakeStatus(st, t)[u] = "READY" /\ p = Prio[u] /\ u # c
    <3>1. u \in Range(Enqueue(rq, t)[p]) <=>
            u \in Range(rq[p]) \/ (u = t /\ p = Prio[t])
      BY EnqueueRange, Zenon
    <3>2. u \in Range(rq[p]) <=> st[u] = "READY" /\ p = Prio[u] /\ u # c
      BY DEF ReadyOK
    <3>3. /\ u # t => WakeStatus(st, t)[u] = st[u]
          /\ WakeStatus(st, t)[t] = "READY"
      BY <2>1, Zenon DEF AnyThread
    <3> QED
      BY <2>3, <3>1, <3>2, <3>3, Zenon
  <2>6. ReadyOK(WakeStatus(st, t), Enqueue(rq, t), c)
    BY <2>4, <2>5, Zenon DEF ReadyOK
  <2>7. Enqueue(rq, t) \in [Level -> Seq(Thread)]
    BY EnqueueType, Zenon
  <2> QED
    BY <2>1, <2>2, <2>6, <2>7, SchedAssumption, Zenon DEF AnyThread, Status
<1> QED
  BY <1>1, <1>2, Zenon
-----------------------------------------------------------------------------
\* The owner is the one thread that holds the mutex, as deep as the counter
\* says; a thread inside mutex_destroy still is the owner.
OwnerInv ==
  /\ \A t \in Thread : holds[t] > 0 <=> owner = t
  /\ \A t \in Thread : owner = t => counter = holds[t]
  /\ owner = Null => counter = 0
  /\ \A t \in Thread : pc[t] \in {"destroy", "clear"} => owner = t

\* The queues and the thread states agree; the current thread is in no ready
\* queue.
QueueInv ==
  /\ ReadyOK(status, ready, current)
  /\ OneRuns
  /\ IsInjective(waitq)
  /\ \A t \in Thread : t \in Range(waitq) <=> status[t] = "WAIT"

IInv ==
  /\ TypeOK
  /\ OwnerInv
  /\ QueueInv
  /\ NoLostWakeup
  /\ SectionsUninterrupted
-----------------------------------------------------------------------------
LEMMA InitIInv == Init => IInv
<1> SUFFICES ASSUME Init PROVE IInv
  OBVIOUS
<1> USE SchedAssumption, MutexAssumption DEF Init, SchedInit, AnyThread
<1>1. TypeOK
  <2>1. /\ ready \in [Level -> Seq(Thread)]
        /\ waitq \in Seq(Thread)
    OBVIOUS
  <2>2. slice \in [Thread -> 1 .. Slice]
    OBVIOUS
  <2>3. status \in [AnyThread -> Status]
    BY Zenon DEF Status
  <2> QED
    BY <2>1, <2>2, <2>3, Zenon DEF TypeOK, SchedTypeOK, Reason, Pc
<1>2. OwnerInv
  BY DEF OwnerInv
<1>3. QueueInv
  <2>1. \A p \in Level : IsInjective(ready[p]) /\ Range(ready[p]) = {}
    BY EmptyQueue, Zenon
  <2>2. ReadyOK(status, ready, current)
    BY <2>1 DEF ReadyOK
  <2>3. OneRuns
    BY Zenon DEF OneRuns
  <2>4. IsInjective(waitq) /\ Range(waitq) = {}
    BY EmptyQueue, Zenon
  <2> QED
    BY <2>2, <2>3, <2>4, Zenon DEF QueueInv
<1>4. NoLostWakeup /\ SectionsUninterrupted
  BY DEF NoLostWakeup, SectionsUninterrupted
<1> QED
  BY <1>1, <1>2, <1>3, <1>4, Zenon DEF IInv

\* thr_yield, wherever it is called with dispatch enabled.
LEMMA YieldConsistent ==
  ASSUME TypeOK, QueueInv, ~halted, ThrYield
  PROVE  /\ current' \in AnyThread
         /\ status' \in [AnyThread -> Status]
         /\ ready' \in [Level -> Seq(Thread)]
         /\ delayed' \in [AnyThread -> BOOLEAN]
         /\ ReadyOK(status', ready', current')
         /\ \A t \in Thread : status'[t] = "RUN" <=> t = current'
         /\ \A t \in Thread : status'[t] = "WAIT" <=> status[t] = "WAIT"
<1> DEFINE st == [status EXCEPT ![current] = "READY"]
<1>1. /\ st \in [AnyThread -> Status]
      /\ current \in AnyThread
      /\ ready \in [Level -> Seq(Thread)]
      /\ delayed \in [AnyThread -> BOOLEAN]
      /\ st[current] = "READY"
      /\ \A t \in AnyThread : t # current => st[t] = status[t]
  BY DEF TypeOK, SchedTypeOK, Status
<1>2. SchedSchedule(st, ready)
  BY DEF ThrYield
<1>3. ReadyOK(st, ready, current)
  BY <1>1, Zenon DEF QueueInv, ReadyOK, AnyThread
<1>4. \A t \in Thread : st[t] = "RUN" => t = current
  BY <1>1 DEF QueueInv, OneRuns, AnyThread
<1>5. \A t \in Thread : st[t] = "WAIT" <=> status[t] = "WAIT"
  BY <1>1, Zenon DEF QueueInv, OneRuns, AnyThread
<1> HIDE DEF st
<1> QED
  BY <1>1, <1>2, <1>3, <1>4, <1>5, ScheduleConsistent, Zenon

\* A dispatch requested by wake-ups, by a thread that has not given up the
\* CPU, changes nothing.
LEMMA DispatchNoop ==
  ASSUME TypeOK, QueueInv, ~halted, current \in Thread,
         SchedSchedule(status, ready)
  PROVE  /\ UNCHANGED <<current, status, ready>>
         /\ delayed' \in [AnyThread -> BOOLEAN]
<1>1. status[current] = "RUN"
  BY Zenon DEF QueueInv, OneRuns
<1> QED
  BY <1>1 DEF SchedSchedule, TypeOK, SchedTypeOK
-----------------------------------------------------------------------------
(***************************************************************************)
(* The steps that leave the mutex alone.                                   *)
(***************************************************************************)

\* What a step of the dispatcher owes to the invariant when it changes no
\* variable of the mutex and no thread falls asleep or wakes.
LEMMA DispatchStep ==
  ASSUME IInv, ~halted, UNCHANGED mutexVars,
         SchedTypeOK',
         ReadyOK(status', ready', current'),
         \A t \in Thread : status'[t] = "RUN" <=> t = current',
         \A t \in Thread : status'[t] = "WAIT" <=> status[t] = "WAIT",
         \A t \in Thread : t # current' => preempt'[t] = 0,
         \A t \in Thread : current = t => pc[t] # "unlock" \/ current' = current
  PROVE  IInv'
<1> USE DEF IInv, mutexVars
<1>1. TypeOK'
  BY Zenon DEF TypeOK
<1>2. OwnerInv'
  BY Zenon DEF OwnerInv
<1>3. QueueInv'
  <2>1. IsInjective(waitq)' /\ Range(waitq)' = Range(waitq)
    BY Zenon DEF QueueInv
  <2>2. OneRuns'
    BY Zenon DEF OneRuns
  <2>3. ReadyOK(status, ready, current)'
    BY Zenon DEF ReadyOK
  <2> QED
    BY <2>1, <2>2, <2>3, Zenon DEF QueueInv
<1>4. NoLostWakeup'
  BY Zenon DEF NoLostWakeup
<1>5. SectionsUninterrupted'
  BY Zenon DEF SectionsUninterrupted
<1> QED
  BY <1>1, <1>2, <1>3, <1>4, <1>5, Zenon

LEMMA ThrStartIInv ==
  ASSUME IInv, NEW u \in Thread, ThrStart(u)
  PROVE  IInv'
<1> DEFINE st == WakeStatus(status, u)
           rq == WakeReady(status, ready, u)
<1>1. /\ status \in [AnyThread -> Status] /\ ready \in [Level -> Seq(Thread)]
      /\ current \in AnyThread /\ delayed \in [AnyThread -> BOOLEAN]
      /\ ReadyOK(status, ready, current)
      /\ status[current] = "RUN" /\ status[u] = "DORMANT" /\ ~halted
      /\ SchedSchedule(st, rq)
      /\ UNCHANGED mutexVars /\ UNCHANGED <<preempt, slice>>
  BY DEF ThrStart, IInv, TypeOK, SchedTypeOK, QueueInv
<1>2. u # current
  BY <1>1, Zenon
<1>3. /\ st \in [AnyThread -> Status]
      /\ rq \in [Level -> Seq(Thread)]
      /\ ReadyOK(st, rq, current)
      /\ \A t \in Thread : t # u => st[t] = status[t]
      /\ st[u] # "WAIT" /\ (st[u] = "RUN" => status[u] = "RUN")
      /\ st[Idle] = status[Idle]
  BY <1>1, <1>2, WakeConsistent
<1>4. st[current] = "RUN"
  BY <1>1, <1>2, <1>3, Zenon DEF AnyThread
<1> HIDE DEF st, rq
<1>5. current' = current /\ status' = st /\ ready' = rq
  BY <1>1, <1>4, Zenon DEF SchedSchedule
<1>6. delayed' \in [AnyThread -> BOOLEAN]
  BY <1>1, Zenon DEF SchedSchedule
<1>7. SchedTypeOK'
  BY <1>1, <1>3, <1>5, <1>6, Zenon DEF IInv, TypeOK, SchedTypeOK
<1>8. /\ \A t \in Thread : status'[t] = "RUN" <=> t = current'
      /\ \A t \in Thread : status'[t] = "WAIT" <=> status[t] = "WAIT"
  BY <1>1, <1>3, <1>4, <1>5, Zenon DEF IInv, QueueInv, OneRuns
<1>9. \A t \in Thread : t # current' => preempt'[t] = 0
  BY <1>1, <1>5, Zenon DEF IInv, SectionsUninterrupted
<1> QED
  BY <1>1, <1>3, <1>5, <1>7, <1>8, <1>9, DispatchStep, Zenon

\* A step that is a thr_yield of the current thread.
LEMMA YieldStep ==
  ASSUME IInv, ~halted, ThrYield, UNCHANGED mutexVars, UNCHANGED preempt,
         slice' \in [Thread -> 1 .. Slice],
         \A t \in Thread : current = t => preempt[t] = 0 /\ pc[t] # "unlock"
  PROVE  IInv'
<1>1. TypeOK /\ QueueInv
  BY Zenon DEF IInv
<1>2. /\ current' \in AnyThread
      /\ status' \in [AnyThread -> Status]
      /\ ready' \in [Level -> Seq(Thread)]
      /\ delayed' \in [AnyThread -> BOOLEAN]
      /\ ReadyOK(status', ready', current')
      /\ \A t \in Thread : status'[t] = "RUN" <=> t = current'
      /\ \A t \in Thread : status'[t] = "WAIT" <=> status[t] = "WAIT"
  BY <1>1, YieldConsistent, Zenon
<1>3. SchedTypeOK'
  BY <1>1, <1>2, Zenon DEF TypeOK, SchedTypeOK
<1>4. \A t \in Thread : t # current' => preempt'[t] = 0
  BY Zenon DEF IInv, SectionsUninterrupted
<1> QED
  BY <1>2, <1>3, <1>4, DispatchStep, Zenon

LEMMA YieldIInv ==
  ASSUME IInv, NEW t \in Thread, Yield(t)
  PROVE  IInv'
  BY YieldStep, Zenon DEF Yield, Running, IInv, TypeOK, SchedTypeOK

LEMMA IdleYieldIInv ==
  ASSUME IInv, IdleYield
  PROVE  IInv'
  BY YieldStep, SchedAssumption, Zenon DEF IdleYield, IInv, TypeOK, SchedTypeOK

LEMMA TickIInv ==
  ASSUME IInv, NEW t \in Thread, Tick(t)
  PROVE  IInv'
<1>1. /\ current = t /\ ~halted /\ pc[t] \in {"run", "clear"} /\ preempt[t] = 0
      /\ UNCHANGED mutexVars /\ UNCHANGED preempt /\ TimerTick
      /\ slice \in [Thread -> 1 .. Slice]
  BY Zenon DEF Tick, TimerTick, IInv, TypeOK, SchedTypeOK
<1>2. CASE slice[t] > 1
  <2>1. /\ slice' = [slice EXCEPT ![t] = @ - 1]
        /\ UNCHANGED <<current, status, ready, delayed>>
    BY <1>1, <1>2 DEF TimerTick
  <2>2. SchedTypeOK'
    BY <1>1, <1>2, <2>1, SchedAssumption DEF IInv, TypeOK, SchedTypeOK
  <2>3. ReadyOK(status', ready', current')
    BY <2>1, Zenon DEF IInv, QueueInv, ReadyOK
  <2>4. \A u \in Thread : status'[u] = "RUN" <=> u = current'
    BY <1>1, <2>1, Zenon DEF IInv, QueueInv, OneRuns
  <2>5. \A u \in Thread : u # current' => preempt'[u] = 0
    BY <1>1, <2>1, Zenon DEF IInv, SectionsUninterrupted
  <2> QED
    BY <1>1, <2>1, <2>2, <2>3, <2>4, <2>5, DispatchStep, Zenon
<1>3. CASE slice[t] = 1
  <2>1. slice' = [slice EXCEPT ![t] = Slice] /\ ThrYield
    BY <1>1, <1>3 DEF TimerTick
  <2>2. slice' \in [Thread -> 1 .. Slice]
    BY <1>1, <2>1, SchedAssumption
  <2> QED
    BY <1>1, <2>1, <2>2, YieldStep, Zenon
<1> QED
  BY <1>1, <1>2, <1>3

LEMMA SpinLockIInv ==
  ASSUME IInv, NEW t \in Thread, SpinLock(t)
  PROVE  IInv'
<1>1. /\ current = t /\ ~halted
      /\ UNCHANGED <<current, status, ready, delayed>> /\ UNCHANGED slice
      /\ UNCHANGED mutexVars /\ preempt' = [preempt EXCEPT ![t] = @ + 1]
  BY Zenon DEF SpinLock, Running, DisableDispatch
<1>2. SchedTypeOK'
  BY <1>1 DEF IInv, TypeOK, SchedTypeOK, AnyThread
<1>3. ReadyOK(status', ready', current')
  BY <1>1, Zenon DEF IInv, QueueInv, ReadyOK
<1>4. \A u \in Thread : status'[u] = "RUN" <=> u = current'
  BY <1>1, Zenon DEF IInv, QueueInv, OneRuns
<1>5. \A u \in Thread : u # current' => preempt'[u] = 0
  BY <1>1, Zenon DEF IInv, SectionsUninterrupted, TypeOK, SchedTypeOK, AnyThread
<1> QED
  BY <1>1, <1>2, <1>3, <1>4, <1>5, DispatchStep, Zenon

LEMMA SpinUnlockIInv ==
  ASSUME IInv, NEW t \in Thread, SpinUnlock(t)
  PROVE  IInv'
<1>1. /\ current = t /\ ~halted /\ preempt[t] > 0
      /\ UNCHANGED slice /\ UNCHANGED mutexVars
      /\ preempt' = [preempt EXCEPT ![t] = @ - 1]
      /\ TypeOK /\ QueueInv
  BY Zenon DEF SpinUnlock, Running, EnableDispatch, IInv
<1>2. UNCHANGED <<current, status, ready>> /\ delayed' \in [AnyThread -> BOOLEAN]
  <2>1. CASE preempt[t] = 1 /\ delayed[t]
    BY <1>1, <2>1, DispatchNoop, Zenon DEF SpinUnlock, EnableDispatch
  <2>2. CASE ~(preempt[t] = 1 /\ delayed[t])
    BY <1>1, <2>2, Zenon DEF SpinUnlock, EnableDispatch, TypeOK, SchedTypeOK
  <2> QED
    BY <2>1, <2>2, Zenon
<1>3. SchedTypeOK'
  BY <1>1, <1>2 DEF TypeOK, SchedTypeOK, AnyThread
<1>4. ReadyOK(status', ready', current')
  BY <1>2, Zenon DEF IInv, QueueInv, ReadyOK
<1>5. \A u \in Thread : status'[u] = "RUN" <=> u = current'
  BY <1>1, <1>2, Zenon DEF QueueInv, OneRuns
<1>6. \A u \in Thread : u # current' => preempt'[u] = 0
  BY <1>1, <1>2, Zenon DEF IInv, SectionsUninterrupted, TypeOK, SchedTypeOK, AnyThread
<1> QED
  BY <1>1, <1>2, <1>3, <1>4, <1>5, <1>6, DispatchStep, Zenon
-----------------------------------------------------------------------------
(***************************************************************************)
(* The steps of the mutex.                                                 *)
(***************************************************************************)

\* What a step that leaves the dispatcher and the wait queue alone owes.
LEMMA MutexStep ==
  ASSUME IInv, UNCHANGED schedVars, UNCHANGED <<waitq, reason, halted>>,
         counter' \in Nat, owner' \in Thread \cup {Null},
         pc' \in [Thread -> Pc], holds' \in [Thread -> Nat], dead' \in BOOLEAN,
         OwnerInv', NoLostWakeup'
  PROVE  IInv'
<1> USE DEF IInv, schedVars
<1>1. TypeOK'
  BY Zenon DEF TypeOK, SchedTypeOK
<1>2. QueueInv'
  BY Zenon DEF QueueInv, ReadyOK, OneRuns
<1>3. SectionsUninterrupted'
  BY Zenon DEF SectionsUninterrupted
<1> QED
  BY <1>1, <1>2, <1>3, Zenon

LEMMA AcquireIInv ==
  ASSUME IInv, NEW t \in Thread, current = t, Acquire(t)
  PROVE  IInv'
<1>1. /\ counter = 0 /\ counter' = 1 /\ owner' = t
      /\ holds' = [holds EXCEPT ![t] = @ + 1]
      /\ pc' = [pc EXCEPT ![t] = "run"]
      /\ UNCHANGED schedVars /\ UNCHANGED <<waitq, reason, dead, halted>>
      /\ holds \in [Thread -> Nat] /\ pc \in [Thread -> Pc] /\ dead \in BOOLEAN
      /\ OwnerInv
  BY Zenon DEF Acquire, IInv, TypeOK
<1>2. owner \notin Thread
  BY <1>1 DEF OwnerInv
<1>3. \A u \in Thread : holds[u] = 0 /\ pc[u] \notin {"destroy", "clear"}
  BY <1>1, <1>2 DEF OwnerInv
<1>4. OwnerInv'
  BY <1>1, <1>3, MutexAssumption DEF OwnerInv, AnyThread
<1>5. NoLostWakeup'
  BY <1>1 DEF NoLostWakeup
<1>6. pc' \in [Thread -> Pc] /\ holds' \in [Thread -> Nat]
  BY <1>1 DEF Pc
<1> QED
  BY <1>1, <1>4, <1>5, <1>6, MutexStep, Zenon

LEMMA ReacquireIInv ==
  ASSUME IInv, NEW t \in Thread, current = t, pc[t] # "unlock",
         pc[t] \notin {"destroy", "clear"}, Reacquire(t)
  PROVE  IInv'
<1>1. /\ counter > 0 /\ owner = t /\ counter' = counter + 1
      /\ holds' = [holds EXCEPT ![t] = @ + 1]
      /\ pc' = [pc EXCEPT ![t] = "run"]
      /\ UNCHANGED schedVars /\ UNCHANGED <<owner, waitq, reason, dead, halted>>
      /\ holds \in [Thread -> Nat] /\ pc \in [Thread -> Pc] /\ counter \in Nat
      /\ owner \in Thread \cup {Null} /\ dead \in BOOLEAN
      /\ OwnerInv
  BY Zenon DEF Reacquire, IInv, TypeOK
<1>2. OwnerInv'
  BY <1>1, MutexAssumption DEF OwnerInv, AnyThread
<1>3. NoLostWakeup'
  BY <1>1 DEF NoLostWakeup
<1>4. pc' \in [Thread -> Pc] /\ holds' \in [Thread -> Nat] /\ counter' \in Nat
  BY <1>1 DEF Pc
<1> QED
  BY <1>1, <1>2, <1>3, <1>4, MutexStep, Zenon

\* The sleeper is put at the end of the wait queue.
LEMMA SleeperQueued ==
  ASSUME NEW t \in Thread, waitq \in Seq(Thread), IsInjective(waitq),
         t \notin Range(waitq), waitq' = Append(waitq, t)
  PROVE  IsInjective(waitq') /\ Range(waitq') = Range(waitq) \cup {t}
BY AppendQueue

\* sync_wait on the mutex: the thread enters the wait queue and leaves the
\* CPU, or stops the kernel.
LEMMA SleepIInv ==
  ASSUME IInv, NEW t \in Thread, current = t, ~halted,
         pc[t] \in {"run", "lock"}, Sleep(t)
  PROVE  IInv'
<1> DEFINE st == [status EXCEPT ![t] = "WAIT"]
<1>1. /\ counter > 0
      /\ waitq' = Append(waitq, t)
      /\ reason' = [reason EXCEPT ![t] = "WAIT"]
      /\ pc' = [pc EXCEPT ![t] = "lock"]
      /\ UNCHANGED <<preempt, slice, counter, owner, holds, dead>>
  BY Zenon DEF Sleep
<1>s. \/ preempt[t] = 0 /\ SchedSchedule(st, ready) /\ UNCHANGED halted
      \/ /\ preempt[t] > 0 /\ halted' = TRUE /\ status' = st
         /\ UNCHANGED <<current, ready, delayed>>
  BY Zenon DEF Sleep
<1>2. /\ TypeOK /\ OwnerInv /\ QueueInv /\ SectionsUninterrupted
      /\ status \in [AnyThread -> Status] /\ ready \in [Level -> Seq(Thread)]
      /\ delayed \in [AnyThread -> BOOLEAN] /\ current \in AnyThread
      /\ waitq \in Seq(Thread)
  BY Zenon DEF IInv, TypeOK, SchedTypeOK
<1>3. /\ status[t] = "RUN"
      /\ \A u \in Thread : status[u] = "RUN" => u = t
  BY <1>2, Zenon DEF QueueInv, OneRuns
<1>4. /\ st \in [AnyThread -> Status] /\ st[t] = "WAIT"
      /\ \A u \in AnyThread : u # t => st[u] = status[u]
  BY <1>2, Zenon DEF AnyThread, Status
<1>5. ReadyOK(st, ready, current)
  BY <1>2, <1>4, Zenon DEF QueueInv, ReadyOK, AnyThread
<1>6. \A u \in Thread : st[u] # "RUN"
  BY <1>3, <1>4, Zenon DEF AnyThread
<1> HIDE DEF st
<1>7. /\ current' \in AnyThread
      /\ status' \in [AnyThread -> Status]
      /\ ready' \in [Level -> Seq(Thread)]
      /\ delayed' \in [AnyThread -> BOOLEAN]
      /\ halted' \in BOOLEAN
      /\ ReadyOK(status', ready', current')
      /\ \A u \in Thread : status'[u] = "WAIT" <=> st[u] = "WAIT"
      /\ OneRuns'
      /\ SectionsUninterrupted'
  <2>1. CASE preempt[t] = 0 /\ SchedSchedule(st, ready) /\ UNCHANGED halted
    <3>2. /\ current' \in AnyThread
          /\ status' \in [AnyThread -> Status]
          /\ ready' \in [Level -> Seq(Thread)]
          /\ delayed' \in [AnyThread -> BOOLEAN]
          /\ ReadyOK(status', ready', current')
          /\ \A u \in Thread : status'[u] = "RUN" <=> u = current'
          /\ \A u \in Thread : status'[u] = "WAIT" <=> st[u] = "WAIT"
      BY <1>2, <1>4, <1>5, <1>6, <2>1, ScheduleConsistent, Zenon
    <3>3. OneRuns'
      BY <2>1, <3>2, Zenon DEF OneRuns
    <3>4. SectionsUninterrupted'
      BY <1>1, <1>2, <2>1, Zenon DEF SectionsUninterrupted
    <3> QED
      BY <1>2, <2>1, <3>2, <3>3, <3>4, Zenon DEF TypeOK
  <2>2. CASE /\ preempt[t] > 0 /\ halted' = TRUE /\ status' = st
             /\ UNCHANGED <<current, ready, delayed>>
    <3>2. OneRuns'
      BY <1>3, <1>4, <1>6, <2>2, Zenon DEF OneRuns
    <3>3. SectionsUninterrupted'
      BY <1>1, <1>2, <2>2, Zenon DEF SectionsUninterrupted
    <3>4. ReadyOK(status', ready', current')
      BY <1>5, <2>2, Zenon
    <3> QED
      BY <1>2, <1>4, <2>2, <3>2, <3>3, <3>4, Zenon
  <2> QED
    BY <1>s, <2>1, <2>2, Zenon
<1>8. TypeOK'
  BY <1>1, <1>2, <1>7, AppendQueue, Zenon DEF TypeOK, SchedTypeOK, Reason, Pc
<1>9. OwnerInv'
  BY <1>1, <1>2 DEF OwnerInv, TypeOK
<1>10. QueueInv'
  <2>1. waitq \in Seq(Thread) /\ t \notin Range(waitq) /\ IsInjective(waitq)
    BY <1>2, <1>3, Zenon DEF QueueInv
  <2>2. IsInjective(waitq') /\ Range(waitq') = Range(waitq) \cup {t}
    BY <1>1, <2>1, SleeperQueued, Zenon
  <2>3. \A u \in Thread : u \in Range(waitq') <=> status'[u] = "WAIT"
    BY <1>2, <1>4, <1>7, <2>2, Zenon DEF QueueInv, AnyThread
  <2>4. ReadyOK(status, ready, current)'
    BY <1>7, Zenon DEF ReadyOK
  <2> QED
    BY <1>7, <2>2, <2>3, <2>4, Zenon DEF QueueInv
<1>11. NoLostWakeup'
  BY <1>1, Zenon DEF NoLostWakeup
<1> QED
  BY <1>7, <1>8, <1>9, <1>10, <1>11, Zenon DEF IInv

LEMMA MutexLockIInv ==
  ASSUME IInv, NEW t \in Thread, MutexLock(t)
  PROVE  IInv'
<1>1. current = t /\ pc[t] = "run" /\ ~halted
  BY Zenon DEF MutexLock, Running
<1>2. Acquire(t) \/ Reacquire(t) \/ Sleep(t)
  BY Zenon DEF MutexLock
<1> QED
  BY <1>1, <1>2, AcquireIInv, ReacquireIInv, SleepIInv, Zenon

LEMMA MutexLockResumeIInv ==
  ASSUME IInv, NEW t \in Thread, MutexLockResume(t)
  PROVE  IInv'
<1>1. current = t /\ pc[t] = "lock" /\ ~halted
  BY Zenon DEF MutexLockResume
<1>2. CASE reason[t] = "DESTROYED"
  <2>1. /\ pc' = [pc EXCEPT ![t] = "run"]
        /\ UNCHANGED schedVars
        /\ UNCHANGED <<counter, owner, waitq, reason, holds, dead, halted>>
        /\ pc \in [Thread -> Pc]
    BY <1>2, Zenon DEF MutexLockResume, IInv, TypeOK
  <2>2. OwnerInv'
    BY <1>1, <2>1, Zenon DEF OwnerInv, IInv
  <2>3. NoLostWakeup'
    BY <1>1, <2>1, Zenon DEF NoLostWakeup, IInv, schedVars
  <2>4. pc' \in [Thread -> Pc]
    BY <2>1, Zenon DEF Pc
  <2> QED
    BY <2>1, <2>2, <2>3, <2>4, MutexStep, Zenon DEF IInv, TypeOK
<1>3. CASE reason[t] # "DESTROYED"
  <2>1. Acquire(t) \/ Reacquire(t) \/ Sleep(t)
    BY <1>3, Zenon DEF MutexLockResume
  <2> QED
    BY <1>1, <2>1, AcquireIInv, ReacquireIInv, SleepIInv, Zenon
<1> QED
  BY <1>2, <1>3, Zenon

LEMMA MutexUnlockIInv ==
  ASSUME IInv, NEW t \in Thread, MutexUnlock(t)
  PROVE  IInv'
<1>1. /\ current = t /\ pc[t] = "run" /\ holds[t] > 0
      /\ counter' = counter - 1
      /\ holds' = [holds EXCEPT ![t] = @ - 1]
      /\ UNCHANGED schedVars /\ UNCHANGED <<waitq, reason, dead, halted>>
      /\ holds \in [Thread -> Nat] /\ pc \in [Thread -> Pc] /\ counter \in Nat
      /\ owner \in Thread \cup {Null} /\ dead \in BOOLEAN
      /\ OwnerInv
  BY Zenon DEF MutexUnlock, Running, IInv, TypeOK
<1>2. owner = t /\ counter = holds[t] /\ counter > 0
  BY <1>1, Zenon DEF OwnerInv
<1>3. CASE counter > 1
  <2>1. UNCHANGED <<owner, pc>>
    BY <1>3 DEF MutexUnlock
  <2>2. OwnerInv'
    BY <1>1, <1>2, <1>3, <2>1, MutexAssumption DEF OwnerInv, AnyThread
  <2>3. NoLostWakeup'
    BY <1>1, <1>3 DEF NoLostWakeup
  <2>4. holds' \in [Thread -> Nat] /\ counter' \in Nat
    BY <1>1, <1>2
  <2> QED
    BY <1>1, <2>1, <2>2, <2>3, <2>4, MutexStep, Zenon
<1>4. CASE counter = 1
  <2>1. owner' = Null /\ pc' = [pc EXCEPT ![t] = "unlock"]
    BY <1>4 DEF MutexUnlock
  <2>2. OwnerInv'
    BY <1>1, <1>2, <1>4, <2>1, MutexAssumption DEF OwnerInv, AnyThread
  <2>3. NoLostWakeup'
    BY <1>1, <2>1, Zenon DEF NoLostWakeup, schedVars
  <2>4. holds' \in [Thread -> Nat] /\ counter' \in Nat /\ pc' \in [Thread -> Pc]
    BY <1>1, <1>2, <2>1 DEF Pc
  <2> QED
    BY <1>1, <2>1, <2>2, <2>3, <2>4, MutexStep, Zenon
<1> QED
  BY <1>1, <1>2, <1>3, <1>4

LEMMA MutexDestroyIInv ==
  ASSUME IInv, NEW t \in Thread, MutexDestroy(t)
  PROVE  IInv'
<1>1. /\ current = t /\ pc[t] = "run" /\ holds[t] > 0
      /\ pc' = [pc EXCEPT ![t] = "destroy"]
      /\ UNCHANGED schedVars
      /\ UNCHANGED <<counter, owner, waitq, reason, holds, dead, halted>>
      /\ pc \in [Thread -> Pc]
      /\ OwnerInv
  BY Zenon DEF MutexDestroy, Running, IInv, TypeOK
<1>2. OwnerInv'
  BY <1>1, Zenon DEF OwnerInv
<1>3. NoLostWakeup'
  BY <1>1, Zenon DEF NoLostWakeup, IInv, schedVars
<1>4. pc' \in [Thread -> Pc]
  BY <1>1, Zenon DEF Pc
<1> QED
  BY <1>1, <1>2, <1>3, <1>4, MutexStep, Zenon DEF IInv, TypeOK

LEMMA MutexDestroyEndIInv ==
  ASSUME IInv, NEW t \in Thread, MutexDestroyEnd(t)
  PROVE  IInv'
<1>1. /\ pc[t] = "clear"
      /\ counter' = 0 /\ owner' = Null /\ dead' = TRUE
      /\ holds' = [holds EXCEPT ![t] = 0]
      /\ pc' = [pc EXCEPT ![t] = "run"]
      /\ UNCHANGED schedVars /\ UNCHANGED <<waitq, reason, halted>>
      /\ holds \in [Thread -> Nat] /\ pc \in [Thread -> Pc]
      /\ OwnerInv
  BY Zenon DEF MutexDestroyEnd, IInv, TypeOK
<1>2. owner = t /\ \A u \in Thread : u # t => holds[u] = 0 /\ pc[u] \notin {"destroy", "clear"}
  BY <1>1 DEF OwnerInv
<1>3. OwnerInv'
  BY <1>1, <1>2, MutexAssumption DEF OwnerInv, AnyThread
<1>4. NoLostWakeup'
  BY <1>1, Zenon DEF NoLostWakeup
<1>5. pc' \in [Thread -> Pc] /\ holds' \in [Thread -> Nat]
  BY <1>1, Zenon DEF Pc
<1> QED
  BY <1>1, <1>3, <1>4, <1>5, MutexStep, Zenon

\* One turn of the loop of sync_wake moves the first sleeper to its ready
\* queue.
LEMMA SyncWakeIInv ==
  ASSUME IInv, NEW t \in Thread, SyncWake(t)
  PROVE  IInv'
<1> DEFINE blk == Head(waitq)
<1>1. /\ current = t /\ ~halted /\ pc[t] \in {"unlock", "destroy"} /\ waitq # << >>
      /\ reason' = [reason EXCEPT ![blk] = WakeReason(t)]
      /\ status' = WakeStatus(status, blk)
      /\ ready' = WakeReady(status, ready, blk)
      /\ waitq' = Tail(waitq)
      /\ delayed' = [delayed EXCEPT ![t] = TRUE]
      /\ UNCHANGED <<current, preempt, slice, counter, owner, pc, holds, dead, halted>>
  BY Zenon DEF SyncWake
<1>2. /\ TypeOK /\ OwnerInv /\ QueueInv /\ SectionsUninterrupted /\ NoLostWakeup
      /\ status \in [AnyThread -> Status] /\ ready \in [Level -> Seq(Thread)]
      /\ delayed \in [AnyThread -> BOOLEAN] /\ current \in AnyThread
      /\ waitq \in Seq(Thread)
      /\ IsInjective(waitq)
      /\ ReadyOK(status, ready, current)
  BY Zenon DEF IInv, TypeOK, SchedTypeOK, QueueInv
<1>3. /\ blk \in Thread /\ blk \in Range(waitq)
      /\ waitq' \in Seq(Thread)
      /\ Range(waitq') = Range(waitq) \ {blk}
      /\ IsInjective(waitq')
  BY <1>1, <1>2, TailQueue, Zenon
<1>4. status[blk] = "WAIT" /\ blk # current
  BY <1>1, <1>2, <1>3, Zenon DEF QueueInv, OneRuns
<1> HIDE DEF blk
<1>5. /\ status' \in [AnyThread -> Status]
      /\ ready' \in [Level -> Seq(Thread)]
      /\ ReadyOK(status', ready', current)
      /\ \A u \in Thread : u # blk => status'[u] = status[u]
      /\ status'[blk] # "WAIT"
      /\ status'[blk] # "RUN"
  <2>1. /\ WakeStatus(status, blk) \in [AnyThread -> Status]
        /\ WakeReady(status, ready, blk) \in [Level -> Seq(Thread)]
        /\ ReadyOK(WakeStatus(status, blk), WakeReady(status, ready, blk), current)
        /\ \A u \in Thread : u # blk => WakeStatus(status, blk)[u] = status[u]
        /\ WakeStatus(status, blk)[blk] # "WAIT"
        /\ WakeStatus(status, blk)[blk] = "RUN" => status[blk] = "RUN"
    BY <1>2, <1>3, <1>4, WakeConsistent
  <2> QED
    BY <1>1, <1>4, <2>1, Zenon
<1>6. TypeOK'
  <2>1. reason' \in [Thread -> Reason]
    BY <1>1, <1>2, <1>3, Zenon DEF TypeOK, WakeReason, Reason
  <2>2. delayed' \in [AnyThread -> BOOLEAN]
    BY <1>1, <1>2, Zenon
  <2> QED
    BY <1>1, <1>2, <1>3, <1>5, <2>1, <2>2, Zenon DEF TypeOK, SchedTypeOK
<1>7. OwnerInv'
  BY <1>1, <1>2, Zenon DEF OwnerInv
<1>8. QueueInv'
  <2>1. OneRuns'
    BY <1>1, <1>2, <1>4, <1>5, Zenon DEF QueueInv, OneRuns
  <2>2. \A u \in Thread : u \in Range(waitq') <=> status'[u] = "WAIT"
    BY <1>2, <1>3, <1>5, Zenon DEF QueueInv
  <2>3. ReadyOK(status, ready, current)'
    BY <1>1, <1>5, Zenon DEF ReadyOK
  <2> QED
    BY <1>3, <2>1, <2>2, <2>3, Zenon DEF QueueInv
<1>9. NoLostWakeup'
  BY <1>1, <1>2, Zenon DEF NoLostWakeup
<1>10. SectionsUninterrupted'
  BY <1>1, <1>2, Zenon DEF SectionsUninterrupted
<1> QED
  BY <1>6, <1>7, <1>8, <1>9, <1>10, Zenon DEF IInv

LEMMA SyncWakeEndIInv ==
  ASSUME IInv, NEW t \in Thread, SyncWakeEnd(t)
  PROVE  IInv'
<1>1. /\ current = t /\ ~halted /\ pc[t] \in {"unlock", "destroy"} /\ waitq = << >>
      /\ pc' = [pc EXCEPT ![t] = IF @ = "unlock" THEN "run" ELSE "clear"]
      /\ UNCHANGED <<preempt, slice, counter, owner, waitq, reason, holds, dead, halted>>
      /\ TypeOK /\ QueueInv /\ OwnerInv /\ SectionsUninterrupted
  BY Zenon DEF SyncWakeEnd, IInv
<1>2. UNCHANGED <<current, status, ready>> /\ delayed' \in [AnyThread -> BOOLEAN]
  <2>1. CASE preempt[t] = 0
    BY <1>1, <2>1, DispatchNoop, Zenon DEF SyncWakeEnd
  <2>2. CASE preempt[t] # 0
    BY <1>1, <2>2, Zenon DEF SyncWakeEnd, TypeOK, SchedTypeOK
  <2> QED
    BY <2>1, <2>2, Zenon
<1>3. TypeOK'
  BY <1>1, <1>2, Zenon DEF TypeOK, SchedTypeOK, Pc
<1>4. OwnerInv'
  BY <1>1 DEF OwnerInv, TypeOK
<1>5. QueueInv'
  BY <1>1, <1>2, Zenon DEF QueueInv, ReadyOK, OneRuns
<1>6. NoLostWakeup'
  BY <1>1, Zenon DEF NoLostWakeup
<1>7. SectionsUninterrupted'
  BY <1>1, <1>2, Zenon DEF SectionsUninterrupted
<1> QED
  BY <1>3, <1>4, <1>5, <1>6, <1>7, Zenon DEF IInv
-----------------------------------------------------------------------------
LEMMA StutterIInv ==
  ASSUME IInv, UNCHANGED vars
  PROVE  IInv'
  BY DEF IInv, vars, TypeOK, SchedTypeOK, OwnerInv, QueueInv, ReadyOK, OneRuns,
         NoLostWakeup, SectionsUninterrupted

\* Every step of the kernel preserves the inductive invariant.
LEMMA NextIInv == IInv /\ [Next]_vars => IInv'
<1> SUFFICES ASSUME IInv, [Next]_vars PROVE IInv'
  BY Zenon
<1>1. CASE UNCHANGED vars
  BY <1>1, StutterIInv, Zenon
<1>2. CASE IdleYield
  BY <1>2, IdleYieldIInv, Zenon
<1>3. CASE Halt
  BY <1>3, StutterIInv, Zenon DEF Halt
<1>4. ASSUME NEW t \in Thread,
             \/ ThrStart(t) \/ Yield(t) \/ Tick(t)
             \/ SpinLock(t) \/ SpinUnlock(t)
      PROVE  IInv'
  BY <1>4, ThrStartIInv, YieldIInv, TickIInv, SpinLockIInv, SpinUnlockIInv, Zenon
<1>5. ASSUME NEW t \in Thread,
             \/ MutexLock(t) \/ MutexLockResume(t) \/ MutexUnlock(t)
             \/ MutexDestroy(t) \/ SyncWake(t) \/ SyncWakeEnd(t)
             \/ MutexDestroyEnd(t)
      PROVE  IInv'
  BY <1>5, MutexLockIInv, MutexLockResumeIInv, MutexUnlockIInv, MutexDestroyIInv,
     SyncWakeIInv, SyncWakeEndIInv, MutexDestroyEndIInv, Zenon
<1> QED
  BY <1>1, <1>2, <1>3, <1>4, <1>5, Zenon DEF Next

\* The inductive invariant holds throughout.
THEOREM Invariance == Spec => []IInv
  BY InitIInv, NextIInv, PTL DEF Spec

\* The state of the dispatcher and of the mutex is always well formed.
THEOREM TypeCorrect == Spec => []TypeOK
<1>1. IInv => TypeOK
  BY DEF IInv
<1> QED
  BY <1>1, Invariance, PTL

\* mutex_lock and mutex_unlock exclude one another: between them at most one
\* thread is inside, and mtx->counter is its depth.
THEOREM MutexExcludes == Spec => []MutualExclusion
<1>1. IInv => MutualExclusion
  BY Zenon DEF IInv, OwnerInv, MutualExclusion
<1> QED
  BY <1>1, Invariance, PTL

\* No thread sleeps on a mutex that is free and that nobody is about to wake
\* the sleepers of.
THEOREM WakeupsNotLost == Spec => []NoLostWakeup
<1>1. IInv => NoLostWakeup
  BY Zenon DEF IInv
<1> QED
  BY <1>1, Invariance, PTL

\* Every thread is in exactly the queue its status names.
THEOREM QueuesConsistent == Spec => []QueuesMatchStatus
<1>1. IInv => QueuesMatchStatus
  BY Zenon DEF IInv, QueueInv, ReadyOK, OneRuns, QueuesMatchStatus
<1> QED
  BY <1>1, Invariance, PTL

\* The CPU executes the one thread whose status is RUN.
THEOREM RunningIsCurrent == Spec => []OneRuns
<1>1. IInv => OneRuns
  BY Zenon DEF IInv, QueueInv
<1> QED
  BY <1>1, Invariance, PTL

\* A section protected by a spinlock is not interleaved with other threads.
THEOREM SectionsAtomic == Spec => []SectionsUninterrupted
<1>1. IInv => SectionsUninterrupted
  BY DEF IInv
<1> QED
  BY <1>1, Invariance, PTL

\* Queues, states and the running thread agree, and spinlock sections are not
\* interleaved with other threads.
THEOREM DispatchIsSound == Spec => []DispatchSound
<1>1. QueuesMatchStatus /\ OneRuns /\ SectionsUninterrupted => DispatchSound
  BY Zenon DEF DispatchSound
<1> QED
  BY <1>1, QueuesConsistent, RunningIsCurrent, SectionsAtomic, PTL
-----------------------------------------------------------------------------
(* Interrupts *)

Frame == [line : Line, no : Nat]
Busy(f) == {f[i].line : i \in DOMAIN f}

\* The lines being handled have handlers, and were not given up.
BusyOK == \A l \in Busy(frames) : hdlrs[l] # << >> /\ l \notin smask

\* The mask registers, also in the middle of nested interrupts: the lines
\* without handler, the ones given up and the ones being handled.
RegistersOK == imr = (imask \cup smask \cup Busy(frames)) \ {Cascade}

HandlersOK == imask \ {Cascade} = {l \in Line : hdlrs[l] = << >>}

SpuriousOK == \A l \in Line : l \in smask <=> spurious[l] = Threshold

\* The inductive invariant
IrqIInv ==
  /\ IrqTypeOK /\ NestingSafe
  /\ BusyOK /\ RegistersOK /\ HandlersOK /\ SpuriousOK

\* When the innermost interrupt returns the other lines stay busy.
LEMMA OuterBusy ==
  ASSUME NEW f \in Seq(Frame), f # << >>,
         \A i, j \in DOMAIN f : i # j => f[i].line # f[j].line
  PROVE  /\ Busy(Outer(f)) = Busy(f) \ {Innermost(f).line}
         /\ Innermost(f).line \in Busy(f)
<1>1. /\ Len(f) \in Nat \ {0} /\ DOMAIN f = 1 .. Len(f) /\ DOMAIN Outer(f) = 1 .. Len(f) - 1
      /\ Innermost(f) = f[Len(f)] /\ \A i \in 1 .. Len(f) - 1 : Outer(f)[i] = f[i]
  BY OuterInnermost, Zenon
<1>2. Busy(Outer(f)) = {f[i].line : i \in 1 .. Len(f) - 1}
  BY <1>1, Zenon DEF Busy
<1>3. Innermost(f).line \in Busy(f)
  BY <1>1 DEF Busy
<1>4. ASSUME NEW i \in 1 .. Len(f) - 1 PROVE f[i].line \in Busy(f) \ {Innermost(f).line}
  BY <1>1 DEF Busy
<1>5. ASSUME NEW i \in 1 .. Len(f), f[i].line # Innermost(f).line PROVE i \in 1 .. Len(f) - 1
  BY <1>1, <1>5
<1>6. Busy(Outer(f)) \subseteq Busy(f) \ {Innermost(f).line}
  BY <1>2, <1>4, Zenon
<1>7. Busy(f) \ {Innermost(f).line} \subseteq Busy(Outer(f))
  BY <1>1, <1>2, <1>5, Zenon DEF Busy
<1> QED
  BY <1>3, <1>6, <1>7, Zenon

LEMMA IrqInitIInv == IrqInit => IrqIInv
<1> SUFFICES ASSUME IrqInit PROVE IrqIInv
  OBVIOUS
<1>1. Busy(frames) = {}
  BY DEF IrqInit, Busy
<1>2. IrqTypeOK
  BY IrqAssumption DEF IrqInit, IrqTypeOK
<1>3. NestingSafe
  BY DEF IrqInit, NestingSafe, NoSameLineNesting, ExclusiveNotInterrupted
<1>4. BusyOK /\ RegistersOK /\ HandlersOK /\ SpuriousOK
  BY <1>1, IrqAssumption, Zenon DEF IrqInit, BusyOK, RegistersOK, HandlersOK, SpuriousOK, Cascade
<1> QED
  BY <1>2, <1>3, <1>4, Zenon DEF IrqIInv

\* The invariant between interrupts, when handlers come and go
LEMMA Quiet == ASSUME frames = << >> PROVE Busy(frames) = {} /\ NestingSafe
  BY DEF Busy, NestingSafe, NoSameLineNesting, ExclusiveNotInterrupted

LEMMA RegisterIInv ==
  ASSUME IrqIInv, NEW l \in Line, NEW h \in Handler, IrqRegister(l, h)
  PROVE  IrqIInv'
<1>0. frames = << >> /\ frames' = << >> /\ Busy(frames) = {} /\ Busy(frames') = {} /\ NestingSafe'
  BY Quiet DEF IrqRegister, Busy, NestingSafe, NoSameLineNesting, ExclusiveNotInterrupted
<1>1. /\ Append(hdlrs[l], h) \in Seq(Handler) /\ Append(hdlrs[l], h) # << >>
      /\ hdlrs' = [hdlrs EXCEPT ![l] = Append(hdlrs[l], h)]
  BY DEF IrqIInv, IrqTypeOK, IrqRegister
<1>2. /\ iexcl' \in {iexcl, iexcl \cup {l}}
      /\ imask' = imask \ {l} /\ imr' = ((imask \ {l}) \cup smask) \ {Cascade}
      /\ spurious' = spurious /\ smask' = smask /\ irr' = irr
  BY Zenon DEF IrqRegister, IrqUnsetMask, UpdateIrqMask
<1>3. IrqTypeOK'
  BY <1>0, <1>1, <1>2, Zenon DEF IrqIInv, IrqTypeOK
<1>4. BusyOK' /\ RegistersOK'
  BY <1>0, <1>2, Zenon DEF BusyOK, RegistersOK
<1>5. HandlersOK'
  BY <1>1, <1>2, IrqAssumption, Zenon DEF IrqIInv, IrqTypeOK, HandlersOK
<1>6. SpuriousOK'
  BY <1>2, Zenon DEF IrqIInv, SpuriousOK
<1> QED
  BY <1>0, <1>3, <1>4, <1>5, <1>6, Zenon DEF IrqIInv

LEMMA UnregisterIInv ==
  ASSUME IrqIInv, NEW l \in Line, NEW h \in Handler, IrqUnregister(l, h)
  PROVE  IrqIInv'
<1>0. frames = << >> /\ frames' = << >> /\ Busy(frames) = {} /\ Busy(frames') = {} /\ NestingSafe'
  BY Quiet DEF IrqUnregister, Busy, NestingSafe, NoSameLineNesting, ExclusiveNotInterrupted
<1>1. PICK i \in DOMAIN hdlrs[l] : hdlrs' = [hdlrs EXCEPT ![l] = ListDel(hdlrs[l], i)]
  BY Zenon DEF IrqUnregister
<1> DEFINE q == ListDel(hdlrs[l], i)
<1>2. q \in Seq(Handler) /\ hdlrs[l] # << >>
  BY RemoveQueue DEF IrqIInv, IrqTypeOK
<1> HIDE DEF q
<1>3. /\ iexcl' = iexcl /\ spurious' = spurious /\ smask' = smask /\ irr' = irr
      /\ hdlrs' = [hdlrs EXCEPT ![l] = q]
      /\ IF q = << >> THEN imask' = imask \cup {l} /\ imr' = (imask \cup {l} \cup smask) \ {Cascade}
                      ELSE imask' = imask /\ imr' = imr
  BY <1>1, Zenon DEF IrqUnregister, IrqSetMask, UpdateIrqMask, IrqIInv, IrqTypeOK, q
<1>4. IrqTypeOK'
  BY <1>0, <1>2, <1>3, Zenon DEF IrqIInv, IrqTypeOK
<1>5. BusyOK' /\ RegistersOK'
  BY <1>0, <1>3, Zenon DEF IrqIInv, BusyOK, RegistersOK
<1>6. HandlersOK'
  BY <1>2, <1>3, IrqAssumption, Zenon DEF IrqIInv, IrqTypeOK, HandlersOK
<1>7. SpuriousOK'
  BY <1>3, Zenon DEF IrqIInv, SpuriousOK
<1> QED
  BY <1>0, <1>4, <1>5, <1>6, <1>7, Zenon DEF IrqIInv

\* A line is taken: the frame is the innermost one.
LEMMA AppendBusy ==
  ASSUME NEW f \in Seq(Frame), NEW x \in Frame
  PROVE  /\ Append(f, x) \in Seq(Frame) /\ Busy(Append(f, x)) = Busy(f) \cup {x.line}
         /\ Len(f) \in Nat /\ DOMAIN f = 1 .. Len(f) /\ DOMAIN Append(f, x) = 1 .. Len(f) + 1
         /\ Len(Append(f, x)) = Len(f) + 1
         /\ Append(f, x)[Len(f) + 1] = x /\ \A i \in 1 .. Len(f) : Append(f, x)[i] = f[i]
<1>1. /\ Append(f, x) \in Seq(Frame) /\ Len(f) \in Nat /\ DOMAIN f = 1 .. Len(f)
      /\ DOMAIN Append(f, x) = 1 .. Len(f) + 1 /\ Len(Append(f, x)) = Len(f) + 1
      /\ Append(f, x)[Len(f) + 1] = x /\ \A i \in 1 .. Len(f) : Append(f, x)[i] = f[i]
  OBVIOUS
<1>2. 1 .. Len(f) + 1 = 1 .. Len(f) \cup {Len(f) + 1}
  BY <1>1
<1>3. Busy(Append(f, x)) = Busy(f) \cup {x.line}
  BY <1>1, <1>2 DEF Busy
<1> QED
  BY <1>1, <1>3, Zenon

\* Raising a line disturbs nothing.
LEMMA RaiseIInv ==
  ASSUME IrqIInv, NEW l \in Line, IrqRaise(l)
  PROVE  IrqIInv'
<1>1. /\ irr' = irr \cup {l} /\ hdlrs' = hdlrs /\ iexcl' = iexcl /\ spurious' = spurious
      /\ imask' = imask /\ smask' = smask /\ imr' = imr /\ frames' = frames
  BY Zenon DEF IrqRaise
<1>2. IrqTypeOK' /\ NestingSafe'
  BY <1>1, Zenon DEF IrqIInv, IrqTypeOK, NestingSafe, NoSameLineNesting, ExclusiveNotInterrupted
<1>3. BusyOK' /\ RegistersOK' /\ HandlersOK' /\ SpuriousOK'
  BY <1>1, Zenon DEF IrqIInv, BusyOK, RegistersOK, HandlersOK, SpuriousOK
<1> QED
  BY <1>2, <1>3, Zenon DEF IrqIInv

\* A line that gets through the masks has a handler and is not being handled.
LEMMA HandleIrqIInv ==
  ASSUME IrqIInv, NEW l \in Line, HandleIrq(l)
  PROVE  IrqIInv'
<1>0. l # Cascade /\ l \notin imask /\ l \notin smask /\ l \notin Busy(frames) /\ hdlrs[l] # << >>
  BY IrqAssumption, Zenon DEF HandleIrq, Deliverable, IrqIInv, RegistersOK, HandlersOK
<1> DEFINE x == [line |-> l, no |-> 1]
<1>1. /\ irr' = irr \ {l} /\ imr' = imr \cup {l} /\ frames' = Append(frames, x)
      /\ spurious' = spurious /\ smask' = smask /\ hdlrs' = hdlrs /\ iexcl' = iexcl /\ imask' = imask
  BY <1>0, Zenon DEF HandleIrq, TakenMask
<1>2. x \in Frame /\ x.line = l /\ frames \in Seq(Frame)
  BY Zenon DEF Frame, IrqIInv, IrqTypeOK
<1> HIDE DEF x
<1>3. /\ frames' \in Seq(Frame) /\ Busy(frames') = Busy(frames) \cup {l}
      /\ Len(frames) \in Nat /\ DOMAIN frames = 1 .. Len(frames) /\ DOMAIN frames' = 1 .. Len(frames) + 1
      /\ Len(frames') = Len(frames) + 1
      /\ frames'[Len(frames) + 1] = x /\ \A i \in 1 .. Len(frames) : frames'[i] = frames[i]
  BY <1>1, <1>2, AppendBusy, Zenon
<1>4. IrqTypeOK'
  BY <1>1, <1>3, Zenon DEF IrqIInv, IrqTypeOK, Frame
<1>5. NoSameLineNesting'
  <2>1. ASSUME NEW i \in DOMAIN frames PROVE frames[i].line # l
    BY <1>0, Zenon DEF Busy
  <2> QED
    BY <1>2, <1>3, <2>1 DEF IrqIInv, NestingSafe, NoSameLineNesting
<1>6. ExclusiveNotInterrupted'
  <2>1. ASSUME NEW i \in 1 .. Len(frames) PROVE frames[i].line \notin iexcl
    BY <1>3 DEF HandleIrq, IntrEnabled, IrqIInv, NestingSafe, ExclusiveNotInterrupted
  <2> QED
    BY <1>1, <1>3, <2>1 DEF ExclusiveNotInterrupted
<1>7. BusyOK' /\ HandlersOK' /\ SpuriousOK'
  BY <1>0, <1>1, <1>3, Zenon DEF IrqIInv, BusyOK, HandlersOK, SpuriousOK
<1>8. RegistersOK'
  BY <1>0, <1>1, <1>3, Zenon DEF IrqIInv, RegistersOK
<1> QED
  BY <1>4, <1>5, <1>6, <1>7, <1>8, Zenon DEF IrqIInv, NestingSafe

\* The innermost interrupt is done, taken by a handler or by none.
LEMMA LeaveIInv ==
  ASSUME IrqIInv, frames # << >>, frames' = Outer(frames),
         hdlrs' = hdlrs, iexcl' = iexcl, imask' = imask, irr' = irr,
         NEW l, l = Innermost(frames).line,
         \/ imr' = imr \ {l} /\ spurious' = spurious /\ smask' = smask
         \/ CountSpurious(l, imr)
  PROVE  IrqIInv'
<1>0. frames \in Seq(Frame)
  BY Zenon DEF IrqIInv, IrqTypeOK, Frame
<1>1. /\ Len(frames) \in Nat \ {0} /\ DOMAIN frames = 1 .. Len(frames)
      /\ Innermost(frames) \in Frame
      /\ frames' \in Seq(Frame) /\ DOMAIN frames' = 1 .. Len(frames) - 1 /\ Len(frames') = Len(frames) - 1
      /\ \A i \in 1 .. Len(frames) - 1 : frames'[i] = frames[i]
  BY <1>0, OuterInnermost, Zenon
<1>2. Busy(frames') = Busy(frames) \ {l} /\ l \in Busy(frames)
  BY <1>0, OuterBusy DEF IrqIInv, NestingSafe, NoSameLineNesting
<1>3. l \in Line /\ l # Cascade /\ l \notin imask /\ l \notin smask
  BY <1>1, <1>2, IrqAssumption, Zenon DEF Frame, IrqIInv, BusyOK, HandlersOK
<1>4. NestingSafe'
  BY <1>1 DEF IrqIInv, NestingSafe, NoSameLineNesting, ExclusiveNotInterrupted
<1>5. HandlersOK'
  BY Zenon DEF IrqIInv, HandlersOK
<1>6. \/ imr' = imr \ {l} /\ smask' = smask
      \/ imr' = imr \cup {l} /\ smask' = smask \cup {l}
  BY Zenon DEF CountSpurious
<1>7. spurious' \in [Line -> 0 .. Threshold] /\ SpuriousOK'
  <2>1. spurious \in [Line -> 0 .. Threshold] /\ Threshold \in Nat /\ spurious[l] \in 0 .. Threshold - 1
    BY <1>3, IrqAssumption DEF IrqIInv, IrqTypeOK, SpuriousOK
  <2>2. CASE spurious' = spurious /\ smask' = smask
    BY <2>1, <2>2, Zenon DEF IrqIInv, SpuriousOK
  <2>3. CASE CountSpurious(l, imr)
    <3>1. /\ spurious' = [spurious EXCEPT ![l] = spurious[l] + 1]
          /\ smask' = IF spurious[l] + 1 = Threshold THEN smask \cup {l} ELSE smask
      BY <2>3 DEF CountSpurious
    <3>2. spurious' \in [Line -> 0 .. Threshold]
      <4>1. spurious[l] + 1 \in 0 .. Threshold
        BY <2>1
      <4> QED
        BY <2>1, <3>1, <4>1, Zenon
    <3>3. SpuriousOK'
      BY <1>3, <2>1, <3>1, Zenon DEF IrqIInv, SpuriousOK
    <3> QED
      BY <3>2, <3>3, Zenon
  <2> QED
    BY <2>2, <2>3, Zenon
<1>8. IrqTypeOK'
  BY <1>1, <1>3, <1>6, <1>7, Zenon DEF IrqIInv, IrqTypeOK, Frame
<1>9. BusyOK' /\ RegistersOK'
  BY <1>2, <1>3, <1>6, Zenon DEF IrqIInv, BusyOK, RegistersOK
<1> QED
  BY <1>4, <1>5, <1>7, <1>8, <1>9, Zenon DEF IrqIInv

\* The next handler of the line is called.
LEMMA NextHandlerIInv ==
  ASSUME IrqIInv, frames # << >>, frames' = [frames EXCEPT ![Len(frames)].no = @ + 1],
         UNCHANGED <<hdlrs, iexcl, spurious, imask, smask, imr, irr>>
  PROVE  IrqIInv'
<1>1. /\ frames \in Seq(Frame) /\ Len(frames) \in Nat \ {0} /\ DOMAIN frames = 1 .. Len(frames)
      /\ \A i \in 1 .. Len(frames) : frames[i] \in Frame
  <2>1. frames \in Seq(Frame)
    BY DEF IrqIInv, IrqTypeOK, Frame
  <2> QED
    BY <2>1, OuterInnermost
<1>2. /\ DOMAIN frames' = 1 .. Len(frames)
      /\ \A i \in 1 .. Len(frames) : frames'[i] \in Frame /\ frames'[i].line = frames[i].line
  BY <1>1 DEF Frame
<1>3. frames' \in Seq(Frame) /\ Len(frames') = Len(frames)
  BY <1>1, <1>2
<1>4. Busy(frames') = Busy(frames)
  BY <1>1, <1>2 DEF Busy
<1>5. IrqTypeOK'
  BY <1>3, Zenon DEF IrqIInv, IrqTypeOK, Frame
<1>6. NestingSafe'
  BY <1>1, <1>2, <1>3 DEF IrqIInv, NestingSafe, NoSameLineNesting, ExclusiveNotInterrupted
<1>7. BusyOK' /\ RegistersOK' /\ HandlersOK' /\ SpuriousOK'
  BY <1>4, Zenon DEF IrqIInv, BusyOK, RegistersOK, HandlersOK, SpuriousOK
<1> QED
  BY <1>5, <1>6, <1>7, Zenon DEF IrqIInv

\* Every step keeps the invariant.
LEMMA IrqNextIInv == IrqIInv /\ [IrqNext]_irqVars => IrqIInv'
<1> SUFFICES ASSUME IrqIInv, [IrqNext]_irqVars PROVE IrqIInv'
  BY Zenon
<1>1. CASE UNCHANGED irqVars
  BY <1>1 DEF irqVars, IrqIInv, IrqTypeOK, NestingSafe, NoSameLineNesting, ExclusiveNotInterrupted,
       BusyOK, RegistersOK, HandlersOK, SpuriousOK, Busy
<1>2. CASE Handled
  BY <1>2, LeaveIInv, Zenon DEF Handled
<1>3. CASE NotMine
  BY <1>3, LeaveIInv, NextHandlerIInv, Zenon DEF NotMine
<1>4. ASSUME NEW l \in Line, IrqRaise(l) \/ HandleIrq(l) PROVE IrqIInv'
  BY <1>4, RaiseIInv, HandleIrqIInv, Zenon
<1>5. ASSUME NEW l \in Line, NEW h \in Drives(l), IrqRegister(l, h) \/ IrqUnregister(l, h)
      PROVE  IrqIInv'
  BY <1>5, RegisterIInv, UnregisterIInv, IrqAssumption, Zenon
<1> QED
  BY <1>1, <1>2, <1>3, <1>4, <1>5, Zenon DEF IrqNext

\* The invariant holds in every state of Irq.
THEOREM IrqInvariance == IrqSpec => []IrqIInv
  BY IrqInitIInv, IrqNextIInv, PTL DEF IrqSpec

\* No line interrupts its own handlers, none interrupts an exclusive one.
THEOREM NestingIsSafe == IrqSpec => []NestingSafe
<1>1. IrqIInv => NestingSafe
  BY DEF IrqIInv
<1> QED
  BY <1>1, IrqInvariance, PTL

\* Mask registers, handlers and lines given up as spurious agree.
THEOREM MasksAreRight == IrqSpec => []MasksFollowHandlers
<1>1. ASSUME IrqIInv PROVE MasksFollowHandlers
  <2>1. MasksAgree
    BY <1>1 DEF IrqIInv, MasksAgree, HandlersOK, RegistersOK, Busy
  <2>2. SpuriousStaysOff
    BY <1>1, IrqAssumption DEF IrqIInv, IrqTypeOK, SpuriousStaysOff, SpuriousOK, RegistersOK
  <2> QED
    BY <1>1, <2>1, <2>2, Zenon DEF IrqIInv, MasksFollowHandlers
<1> QED
  BY <1>1, IrqInvariance, PTL
=============================================================================
