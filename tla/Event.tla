------------------------------- MODULE Event -------------------------------
(***************************************************************************)
(* Asynchronous events of one user process: event/async-event.c, the       *)
(* service that sends them (kern/proc-server.c, kern/thr-server.c), the    *)
(* CPU exceptions that raise them, and their delivery when a thread        *)
(* returns to user mode (hal/x86-64/exc/x86_64-handle-event.c).            *)
(*                                                                         *)
(* An event is a kmalloc'ed event_node.  The process and each of its       *)
(* threads own an event queue: a FIFO per event number, a bitmap of the    *)
(* numbers that are pending and, for a thread, a bitmap of masked numbers. *)
(* Sections under the queue and process locks are one step each; the       *)
(* return to user mode runs with interrupts enabled (build-trap.S:53), so  *)
(* other threads run between its parts.                                    *)
(***************************************************************************)
EXTENDS Queues, FiniteSets, FiniteSetsExt

CONSTANTS
  Thread,         \* the threads the process may have
  Proc,           \* the process, as the owner of an event queue
  Node,           \* the memory kmalloc has for event nodes
  EvNo,           \* the event numbers in use, all below EV_NR_EVENT
  First,          \* the first thread of the process
  HandlerAtStart, \* the process has registered its event handler
  MaxEvents,      \* bound: number of events raised
  Null            \* no node

EV_SIG_KILL == 9
EV_SIG_USR1 == 30

ASSUME EventAssumption ==
  /\ EvNo \subseteq 0..127
  /\ First \in Thread
  /\ Proc \notin Thread
  /\ IsFiniteSet(Node) /\ Null \notin Node
  /\ HandlerAtStart \in BOOLEAN
  /\ MaxEvents \in Nat

VARIABLES
  que,      \* evque.que of the process and of each thread
  events,   \* evque.events, the numbers whose pending bit is set
  masks,    \* evque.masks of each thread
  threads,  \* p->threads, in order
  master,   \* p->master
  handler,  \* p->u_evhandler is not NULL
  state,    \* where a thread is
  held,     \* newev of x86_64_setup_event_handler
  info,     \* node->info: the number and, if the flag THREAD_SPECIFIC is
            \* set, the thread it was sent to (otherwise Proc)
  free,     \* nodes that are not allocated
  raised    \* number of events raised so far

vars == <<que, events, masks, threads, master, handler, state, held, info,
          free, raised>>

Owner == Thread \cup {Proc}

\* "none" not created; "user" in user mode; "post" about to look for events
\* on its way back to user mode; "event" with an event it took; "freed" with
\* an event it has given back and is going to exit for; "dying" in thr_exit
\* up to the label enter_dead; "gone" past it.
State == {"none", "user", "post", "event", "freed", "dying", "gone"}

Info == [no: EvNo, only: Owner]

\* TypeOK also says that no thread masks EV_SIG_KILL, which handle_set_evmask
\* clears in the mask it is given.
TypeOK ==
  /\ que \in [Owner -> [EvNo -> Seq(Node)]]
  /\ events \in [Owner -> SUBSET EvNo]
  /\ masks \in [Thread -> SUBSET (EvNo \ {EV_SIG_KILL})]
  /\ threads \in Seq(Thread)
  /\ master \in Thread
  /\ handler \in BOOLEAN
  /\ state \in [Thread -> State]
  /\ held \in [Thread -> Node \cup {Null}]
  /\ info \in [Node -> Info \cup {Null}]
  /\ free \subseteq Node
  /\ raised \in 0..MaxEvents

\* ev_queue_init of the process and the threads; the first thread started.
Init ==
  /\ que = [o \in Owner |-> [i \in EvNo |-> << >>]]
  /\ events = [o \in Owner |-> {}]
  /\ masks = [t \in Thread |-> {}]
  /\ threads = <<First>>
  /\ master = First
  /\ handler = HandlerAtStart
  /\ state = [t \in Thread |-> IF t = First THEN "user" ELSE "none"]
  /\ held = [t \in Thread |-> Null]
  /\ info = [n \in Node |-> Null]
  /\ free = Node
  /\ raised = 0
-----------------------------------------------------------------------------
(* Bitmaps and queues *)

\* ev_mask_set, which leaves a map alone when asked for EV_SIG_KILL.
MaskSet(map, i) == IF i = EV_SIG_KILL THEN map ELSE map \cup {i}

\* ev_mask_xor then ev_mask_and: the pending numbers of o that t accepts.
Deliverable(o, t) ==
  LET tmp == (events[o] \ masks[t]) \cup (masks[t] \ events[o])
  IN  events[o] \cap tmp

\* Mutant: the queue of the process is chosen whenever it has events, masked or not.
SourceIfPending(t) == IF events[Proc] # {} THEN Proc ELSE t

\* ev_dequeue looks into the process's queue, then into the thread's own.
Source(t) == IF Deliverable(Proc, t) # {} THEN Proc ELSE t

\* The statements of ev_send and ev_send_to_process that put an event of
\* number i, allocated as node n, into queue o.
Enqueue(o, n, i, only) ==
  /\ que' = [que EXCEPT ![o][i] = Append(@, n)]
  /\ events' = [events EXCEPT ![o] = MaskSet(@, i)]
  /\ info' = [info EXCEPT ![n] = [no |-> i, only |-> only]]
  /\ free' = free \ {n}

\* Mutant: the pending bit is cleared although more events of the number are queued.
DequeueClearsBit(o, i) ==
  /\ que' = [que EXCEPT ![o][i] = Tail(@)]
  /\ events' = [events EXCEPT ![o] = @ \ {i}]

\* dequeue_from_evque_nolock: the oldest event of number i leaves queue o,
\* and the pending bit falls with the last one.
Dequeue(o, i) ==
  /\ que' = [que EXCEPT ![o][i] = Tail(@)]
  /\ events' = IF Len(que[o][i]) = 1
               THEN [events EXCEPT ![o] = @ \ {i}]
               ELSE events

KFree(n) == free' = free \cup {n}

Raise == raised < MaxEvents /\ raised' = raised + 1

At(t, s) == state[t] = s
Go(t, s) == state' = [state EXCEPT ![t] = s]
-----------------------------------------------------------------------------
(* Requests to the process and thread services *)

\* handle_send_event, PROC_SERV_SNDEV_THR: an event for one thread.
SendThr(t, i) ==
  /\ t \in Range(threads)
  /\ Raise
  /\ \E n \in free : Enqueue(t, n, i, t)
  /\ UNCHANGED <<masks, threads, master, handler, state, held>>

\* handle_send_event, PROC_SERV_SNDEV_PROC: an event for the process.
SendProc(i) ==
  /\ threads # << >>
  /\ Raise
  /\ \E n \in free : Enqueue(Proc, n, i, Proc)
  /\ UNCHANGED <<masks, threads, master, handler, state, held>>

\* handle_send_event, PROC_SERV_SNDEV_ALLTHR: a copy of an event for each
\* thread in turn, until the memory is used up.  The original occupies a
\* node meanwhile.
SendAll(i) ==
  LET m == IF Len(threads) < Cardinality(free) THEN Len(threads) ELSE Cardinality(free) - 1 IN
  /\ threads # << >> /\ free # {}
  /\ Raise
  /\ \E copy \in {c \in [1..m -> free] : IsInjective(c)} :
       LET sent == {threads[k] : k \in 1..m}
           copyFor(t) == copy[CHOOSE k \in 1..m : threads[k] = t]
       IN
       /\ que' = [o \in Owner |-> IF o \in sent
                    THEN [que[o] EXCEPT ![i] = Append(@, copyFor(o))]
                    ELSE que[o]]
       /\ events' = [o \in Owner |-> IF o \in sent
                       THEN MaskSet(events[o], i) ELSE events[o]]
       /\ info' = [n \in Node |-> IF n \in Range(copy)
                     THEN [no |-> i, only |-> Proc] ELSE info[n]]
       /\ free' = free \ Range(copy)
  /\ UNCHANGED <<masks, threads, master, handler, state, held>>

\* handle_set_evmask, requested by t, and t's return from the call.
SetMask(t, mask) ==
  /\ At(t, "user") /\ Go(t, "post")
  /\ masks' = [masks EXCEPT ![t] = mask \ {EV_SIG_KILL}]
  /\ UNCHANGED <<que, events, threads, master, handler, held, info, free, raised>>

\* handle_create_thread requested by t: thr_create_uthread and thr_start of
\* thread u, which inherits t's masks.
CreateThread(t, u) ==
  /\ At(t, "user") /\ At(u, "none")
  /\ threads' = Append(threads, u)
  /\ masks' = [masks EXCEPT ![u] = masks[t]]
  /\ state' = [state EXCEPT ![t] = "post", ![u] = "user"]
  /\ UNCHANGED <<que, events, master, handler, held, info, free, raised>>

\* svc_register_common_event_handler.
RegisterHandler(t) ==
  /\ At(t, "user") /\ Go(t, "post")
  /\ handler' = TRUE
  /\ UNCHANGED <<que, events, masks, threads, master, held, info, free, raised>>
-----------------------------------------------------------------------------
(* A thread enters and leaves the kernel *)

\* A CPU exception handler of common-traps.c: the thread sends itself an
\* event, or exits when there is no memory for it.
Trap(t, i) ==
  /\ At(t, "user") /\ i < EV_SIG_USR1 /\ i # EV_SIG_KILL
  /\ Raise
  /\ \/ /\ \E n \in free : Enqueue(t, n, i, Proc)
        /\ Go(t, "post")
     \/ /\ free = {}
        /\ Go(t, "dying")
        /\ UNCHANGED <<que, events, info, free>>
  /\ UNCHANGED <<masks, threads, master, handler, held>>

\* Any other interrupt or system call of t, up to its return.
Interrupt(t) ==
  /\ At(t, "user") /\ Go(t, "post")
  /\ UNCHANGED <<que, events, masks, threads, master, handler, held, info, free, raised>>

\* svc_thr_exit.
ThrExit(t) ==
  /\ At(t, "user") /\ Go(t, "dying")
  /\ UNCHANGED <<que, events, masks, threads, master, handler, held, info, free, raised>>

\* x86_64_setup_event_handler up to the end of its first loop: nothing to
\* deliver, an event that kcom_handle_system_event exits for, or another.
SetupEventHandler(t) ==
  LET o == Source(t)
      i == Min(Deliverable(o, t))
  IN
  /\ At(t, "post")
  /\ IF Deliverable(o, t) = {}
     THEN Go(t, "user") /\ UNCHANGED <<que, events, held>>
     ELSE /\ Dequeue(o, i)
          /\ held' = [held EXCEPT ![t] = Head(que[o][i])]
          /\ Go(t, IF i = EV_SIG_KILL THEN "dying" ELSE "event")
  /\ UNCHANGED <<masks, threads, master, handler, info, free, raised>>

\* The rest of x86_64_setup_event_handler with a handler: the event frame is
\* written to the user stack, or cannot be and the thread exits.
Deliver(t) ==
  /\ At(t, "event") /\ handler
  /\ KFree(held[t])
  /\ held' = [held EXCEPT ![t] = Null]
  /\ \/ Go(t, "user")
     \/ Go(t, "dying")
  /\ UNCHANGED <<que, events, masks, threads, master, handler, info, raised>>

\* The rest without a handler: the event is dropped; the thread exits when
\* ev_is_cpu_exception holds of it, its pointer to the event still in hand.
Discard(t) ==
  LET fatal == info[held[t]].no < EV_SIG_USR1 IN
  /\ At(t, "event") /\ ~handler
  /\ KFree(held[t])
  /\ held' = IF fatal THEN held ELSE [held EXCEPT ![t] = Null]
  /\ Go(t, IF fatal THEN "freed" ELSE "user")
  /\ UNCHANGED <<que, events, masks, threads, master, handler, info, raised>>

\* The label exit_out, reached from Discard.
ExitOut(t) ==
  /\ At(t, "freed") /\ Go(t, "dying")
  /\ KFree(held[t])
  /\ held' = [held EXCEPT ![t] = Null]
  /\ UNCHANGED <<que, events, masks, threads, master, handler, info, raised>>
-----------------------------------------------------------------------------
(* The end of a thread *)

\* The order p->threads has after t left it.
Without(t) == ListDel(threads, CHOOSE k \in DOMAIN threads : threads[k] = t)

\* The new master of the process when t leaves it.
HeirOf(t) == IF t = master /\ Without(t) # << >> THEN Head(Without(t)) ELSE master

\* The elements of q at the places in K, in their order
Selected(q, K) ==
  LET c  == Cardinality(K)
      up == CHOOSE f \in [1 .. c -> K] : \A a, b \in 1 .. c : a < b => f[a] < f[b]
  IN  [a \in 1 .. c |-> q[up[a]]]

\* ev_handle_exit_thread_events: the events of number i that t leaves to the
\* process, the others being freed.
Inherited(t, i) ==
  LET q == que[t][i]
  IN  Selected(q, {k \in DOMAIN q : HeirOf(t) # t /\ info[q[k]].only = Proc})

\* All nodes in queue o.
QueuedOf(o) == UNION {Range(que[o][i]) : i \in EvNo}

\* Mutant: events that are not inherited are not freed.
DroppedNone(t) == {}

\* The nodes that ev_handle_exit_thread_events frees.
Dropped(t) == QueuedOf(t) \ UNION {Range(Inherited(t, i)) : i \in EvNo}

\* thr_exit from the label enter_dead to the end of proc_destroy, with
\* dispatching disabled.  proc_destroy frees what is queued for a process that
\* has no thread left and does not touch its pending bits.
EnterDead(t) ==
  LET inherited == {i \in EvNo : Inherited(t, i) # << >>}
      last == Without(t) = << >>
  IN
  /\ At(t, "dying") /\ Go(t, "gone")
  /\ threads' = Without(t)
  /\ master' = HeirOf(t)
  /\ que' = [que EXCEPT
               ![t] = [i \in EvNo |-> << >>],
               ![Proc] = [i \in EvNo |-> IF last THEN << >>
                                         ELSE que[Proc][i] \o Inherited(t, i)]]
  /\ events' = [events EXCEPT
                  ![t] = {},
                  ![Proc] = @ \cup UNION {MaskSet({}, i) : i \in inherited}]
  /\ free' = free \cup Dropped(t) \cup (IF last THEN QueuedOf(Proc) ELSE {})
  /\ UNCHANGED <<masks, handler, held, info, raised>>

Next ==
  \/ \E t \in Thread, i \in EvNo : SendThr(t, i) \/ Trap(t, i)
  \/ \E i \in EvNo : SendProc(i) \/ SendAll(i)
  \/ \E t \in Thread, mask \in SUBSET EvNo : SetMask(t, mask)
  \/ \E t, u \in Thread : CreateThread(t, u)
  \/ \E t \in Thread :
       \/ RegisterHandler(t) \/ Interrupt(t) \/ ThrExit(t)
       \/ SetupEventHandler(t) \/ Deliver(t) \/ Discard(t) \/ ExitOut(t)
       \/ EnterDead(t)

Spec == Init /\ [][Next]_vars

\* A thread in user mode is interrupted by the timer again and again, and the
\* kernel completes the return to user mode.
Fairness ==
  \A t \in Thread :
    /\ WF_vars(Interrupt(t))
    /\ WF_vars(SetupEventHandler(t))
    /\ WF_vars(Deliver(t) \/ Discard(t) \/ ExitOut(t))

FairSpec == Spec /\ Fairness
-----------------------------------------------------------------------------
(* Properties *)

\* Every event node is either free or in exactly one place: at one position
\* of one queue, or in the hands of one thread that is going to free it.  No
\* path of sending, forwarding, delivering, dropping or exiting loses a node,
\* frees it twice or leaves it queued after freeing it.
NodesAccounted ==
  /\ \A o \in Owner, i \in EvNo : IsInjective(que[o][i])
  /\ \A n \in Node :
       LET queues == {q \in Owner \X EvNo : n \in Range(que[q[1]][q[2]])}
           hands  == {t \in Thread : held[t] = n}
       IN  Cardinality(queues) + Cardinality(hands) = IF n \in free THEN 0 ELSE 1

\* A pending bit is set exactly when the queue of its number has an event:
\* dequeue_from_evque_nolock asserts the one direction and thr_exit, for the
\* exiting thread, the other.  EV_SIG_KILL, which ev_mask_set never sets, and
\* the bits a destroyed process keeps are left out.
PendingExact ==
  \A o \in Owner, i \in EvNo \ {EV_SIG_KILL} :
    (o # Proc \/ threads # << >>) => (i \in events[o] <=> que[o][i] # << >>)

\* An event sent to one thread (EV_FLAGS_THREAD_SPECIFIC) is only ever queued
\* for, and taken by, that thread: it is not handed on when the thread exits.
SpecificStays ==
  \A n \in Node \ free :
    info[n].only # Proc =>
      /\ \A o \in Owner \ {info[n].only} : n \notin QueuedOf(o)
      /\ \A t \in Thread \ {info[n].only} : held[t] # n

\* While a thread is handling an event, its masks do not block that event,
\* whichever queue it came from.
HeldUnmasked ==
  \A t \in Thread : At(t, "event") => info[held[t]].no \notin masks[t]

\* A thread that may take an event of queue o.
Receivers(o) ==
  {t \in IF o = Proc THEN Thread ELSE {o} : state[t] \in {"user", "post", "event", "freed"}}

\* Every event that is queued is eventually taken from its queue, unless all
\* its receivers mask it or end: x86_64_setup_event_handler takes one event at
\* each return to user mode, the process's events before the thread's.
EventsNotified ==
  \A o \in Owner, n \in Node :
    LET Waiting == /\ n \in QueuedOf(o)
                   /\ \E t \in Receivers(o) : info[n].no \notin masks[t]
    IN  Waiting ~> ~Waiting

\* Queues, pending bits and receivers agree: a bit stands for queued events, and
\* an event reaches only a thread that it is for and that does not mask it
\* (ev_send, dequeue_from_evque_nolock, ev_handle_exit_thread_events).
QueuesExact == TypeOK /\ PendingExact /\ SpecificStays /\ HeldUnmasked
=============================================================================
