-------------------------------- MODULE Lpc --------------------------------
(***************************************************************************)
(* Local process communication (lpc/lpc.c): every thread owns a message    *)
(* queue with two synchronisation objects.  Its owner sleeps on            *)
(* wait_sender until a message comes; senders sleep on wait_reciever until *)
(* the owner is there, and then on the completion object of their message  *)
(* until it has been received.  Waits may have a time limit (tim/timer.c). *)
(*                                                                         *)
(* A system call runs with interrupts disabled and gives the CPU up only   *)
(* where it sleeps, so an action is the code from one sleep to the next.   *)
(* Which of the threads that are not asleep runs is left open.  A sender   *)
(* has one message at a time, so the message is named by its sender.       *)
(***************************************************************************)
EXTENDS Queues

CONSTANTS
  Thread,  \* the endpoints
  Tmout,   \* the time limits in use: a subset of {"none", "inf", "ms"}
  AnySrc,     \* LPC_RECV_ANY
  Null     \* no call, no return

ASSUME LpcAssumption ==
  /\ AnySrc \notin Thread /\ Null \notin Thread /\ AnySrc # Null
  /\ Tmout \subseteq {"none", "inf", "ms"}

VARIABLES
  alive,     \* threads that thr_find_thread_by_tid_nolock finds
  pc,        \* where the thread is
  call,      \* the arguments of the system call it is in
  asleep,    \* its status is WAIT
  que,       \* thr->mque.que: the senders of the queued messages
  recvWait,  \* thr->mque.wait_sender.que holds the owner's sync block
  sendWait,  \* thr->mque.wait_reciever.que: senders, which are all woken together
  reason,    \* blk->reason of the sync object the thread waits for
  timer,     \* its time limit: none, running, or reached (SYNC_WAI_TIMEOUT)
  ret,       \* the call that returned in the last step
  halted     \* a kassert has stopped the kernel

vars == <<alive, pc, call, asleep, que, recvWait, sendWait, reason, timer, ret, halted>>

\* "user" outside of the calls; "send" at wait_reciever of the destination;
\* "sent" at the completion of its message; "recv" at its own wait_sender.
Pc == {"user", "send", "sent", "recv"}

\* peer is the destination or the source; rpc marks lpc_send_and_reply.
Call == [peer : Thread \cup {AnySrc}, tmout : {"none", "inf", "ms"}, rpc : BOOLEAN]

TypeOK ==
  /\ alive \subseteq Thread
  /\ pc \in [Thread -> Pc]
  /\ call \in [Thread -> Call \cup {Null}]
  /\ asleep \in [Thread -> BOOLEAN]
  /\ que \in [Thread -> Seq(Thread)]
  /\ recvWait \in [Thread -> BOOLEAN]
  /\ sendWait \in [Thread -> SUBSET Thread]
  /\ reason \in [Thread -> {"WAIT", "RELEASED", "DESTROYED"}]
  /\ timer \in [Thread -> {"off", "on", "TIMEOUT"}]
  /\ halted \in BOOLEAN

\* lpc_msg_queue_init for every thread.
Init ==
  /\ alive = Thread
  /\ pc = [t \in Thread |-> "user"]
  /\ call = [t \in Thread |-> Null]
  /\ asleep = [t \in Thread |-> FALSE]
  /\ que = [t \in Thread |-> << >>]
  /\ recvWait = [t \in Thread |-> FALSE]
  /\ sendWait = [t \in Thread |-> {}]
  /\ reason = [t \in Thread |-> "WAIT"]
  /\ timer = [t \in Thread |-> "off"]
  /\ ret = Null
  /\ halted = FALSE

Runs(t, where) == t \in alive /\ pc[t] = where /\ ~asleep[t] /\ ~halted
-----------------------------------------------------------------------------
\* sync_wake for all threads of S: every sync block gets the reason, whether
\* its thread still sleeps or has already been woken by its time limit.
WakeReasons(S, r) == [t \in Thread |-> IF t \in S THEN r ELSE reason[t]]

Awake(S) == [t \in Thread |-> asleep[t] /\ t \notin S]

\* A system call returns to user mode.
Return(op, t, rc) ==
  /\ pc' = [pc EXCEPT ![t] = "user"]
  /\ call' = [call EXCEPT ![t] = Null]
  /\ ret' = [op |-> op, thr |-> t, peer |-> call[t].peer, rc |-> rc]

\* Mutant: the limit wins even if the object was released before the thread
\* could run.
WakeUpReasonLimitFirst(t) == IF timer[t] = "TIMEOUT" THEN "TIMEOUT" ELSE reason[t]

\* finish_wait, and finish_wait_time_obj for a wait with a limit: what the
\* object says counts more than the limit.
WakeUpReason(t) == IF reason[t] = "WAIT" THEN timer[t] ELSE reason[t]

\* What is left of the queues when t has taken its sync blocks back.
SendWaitWithout(t) ==
  [d \in Thread |-> sendWait[d] \ {t}]

\* !queue_is_empty( &q->wait_sender.que )
ReceiverWaits(d) == recvWait[d]

\* lpc_send once the receiver waits: the message is copied in and queued, the
\* receiver is woken and the sender sleeps until the message is received.
Deliver(t, c) ==
  LET d == c.peer IN
  /\ que' = [que EXCEPT ![d] = Append(@, t)]
  /\ recvWait' = [recvWait EXCEPT ![d] = FALSE]
  /\ reason' = [WakeReasons({d}, "RELEASED") EXCEPT ![t] = "WAIT"]
  /\ asleep' = [Awake({d}) EXCEPT ![t] = TRUE]
  /\ timer' = [timer EXCEPT ![t] = "off"]
  /\ sendWait' = SendWaitWithout(t)
  /\ pc' = [pc EXCEPT ![t] = "sent"]
  /\ call' = [call EXCEPT ![t] = c]
  /\ ret' = Null
  /\ UNCHANGED <<alive, halted>>

\* lpc_send gives up without having queued the message.
SendFails(t, c, rc) ==
  /\ pc' = [pc EXCEPT ![t] = "user"]
  /\ call' = [call EXCEPT ![t] = Null]
  /\ ret' = [op |-> "send", thr |-> t, peer |-> c.peer, rc |-> rc]
  /\ sendWait' = SendWaitWithout(t)
  /\ timer' = [timer EXCEPT ![t] = "off"]
  /\ reason' = [reason EXCEPT ![t] = "WAIT"]
  /\ UNCHANGED <<alive, asleep, que, recvWait, halted>>

\* sync_wait or tim_wait_obj on wait_reciever of the destination.
SendSleeps(t, c) ==
  /\ sendWait' = [SendWaitWithout(t) EXCEPT ![c.peer] = @ \cup {t}]
  /\ reason' = [reason EXCEPT ![t] = "WAIT"]
  /\ timer' = [timer EXCEPT ![t] = IF c.tmout = "ms" THEN "on" ELSE "off"]
  /\ asleep' = [asleep EXCEPT ![t] = TRUE]
  /\ pc' = [pc EXCEPT ![t] = "send"]
  /\ call' = [call EXCEPT ![t] = c]
  /\ ret' = Null
  /\ UNCHANGED <<alive, que, recvWait, halted>>

\* The loop of lpc_send and what follows it.  The copy may fault.
SendLoop(t, c) ==
  \/ /\ ReceiverWaits(c.peer)
     /\ Deliver(t, c) \/ SendFails(t, c, "EFAULT")
  \/ /\ ~ReceiverWaits(c.peer)
     /\ IF c.tmout = "none" THEN SendFails(t, c, "EAGAIN") ELSE SendSleeps(t, c)

\* lpc_send, and the first half of lpc_send_and_reply.
Send(t, d, tm, rpc) ==
  /\ Runs(t, "user")
  /\ t # d
  /\ rpc => tm = "inf"
  /\ LET c == [peer |-> d, tmout |-> tm, rpc |-> rpc] IN
     \/ d \notin alive /\ SendFails(t, c, "ENOENT")
     \/ d \in alive /\ (SendFails(t, c, "ENOMEM") \/ SendLoop(t, c))

\* lpc_send goes on after a sleep on wait_reciever.  After a wait with a
\* limit the code asserts that the destination still exists.
SendResume(t) ==
  /\ Runs(t, "send")
  /\ CASE WakeUpReason(t) = "DESTROYED" -> SendFails(t, call[t], "ENOENT")
       [] WakeUpReason(t) = "TIMEOUT" -> SendFails(t, call[t], "EAGAIN")
       [] OTHER ->
            IF call[t].tmout = "ms" /\ call[t].peer \notin alive
            THEN halted' = TRUE /\ ret' = Null
                 /\ UNCHANGED <<alive, pc, call, asleep, que, recvWait, sendWait, reason, timer>>
            ELSE SendLoop(t, call[t])
-----------------------------------------------------------------------------
Matches(s, src) == src = AnySrc \/ s = src

\* dequeue_message_nolock: the first message of the queue from src.
FirstMatch(q, src) ==
  {i \in 1 .. Len(q) : Matches(q[i], src) /\ \A j \in 1 .. i - 1 : ~Matches(q[j], src)}

\* lpc_recv with a message: the senders that wait for the receiver have been
\* woken, the message is taken and copied out, which may fault, and its sender
\* is told that it was received.
Accept(t, src, i) ==
  LET s == que[t][i] IN
  /\ que' = [que EXCEPT ![t] = ListDel(@, i)]
  /\ reason' = [WakeReasons(sendWait[t] \cup {s}, "RELEASED") EXCEPT ![t] = "WAIT"]
  /\ asleep' = Awake(sendWait[t] \cup {s})
  /\ sendWait' = [sendWait EXCEPT ![t] = {}]
  /\ recvWait' = [recvWait EXCEPT ![t] = FALSE]
  /\ timer' = [timer EXCEPT ![t] = "off"]
  /\ pc' = [pc EXCEPT ![t] = "user"]
  /\ call' = [call EXCEPT ![t] = Null]
  /\ \E rc \in {"OK", "EFAULT"} :
       ret' = [op |-> "recv", thr |-> t, peer |-> s, rc |-> rc]
  /\ UNCHANGED <<alive, halted>>

\* Mutant: the receiver goes to sleep without waking the senders.
ReceiveSleepsSilently(t, c) ==
  /\ asleep' = [asleep EXCEPT ![t] = TRUE]
  /\ reason' = [reason EXCEPT ![t] = "WAIT"]
  /\ recvWait' = [recvWait EXCEPT ![t] = TRUE]
  /\ timer' = [timer EXCEPT ![t] = IF c.tmout = "ms" THEN "on" ELSE "off"]
  /\ pc' = [pc EXCEPT ![t] = "recv"]
  /\ call' = [call EXCEPT ![t] = c]
  /\ ret' = Null
  /\ UNCHANGED <<alive, que, sendWait, halted>>

\* lpc_recv without a message: the waiting senders have been woken, and the
\* receiver sleeps.
ReceiveSleeps(t, c) ==
  /\ asleep' = [Awake(sendWait[t]) EXCEPT ![t] = TRUE]
  /\ reason' = [WakeReasons(sendWait[t], "RELEASED") EXCEPT ![t] = "WAIT"]
  /\ sendWait' = [sendWait EXCEPT ![t] = {}]
  /\ recvWait' = [recvWait EXCEPT ![t] = TRUE]
  /\ timer' = [timer EXCEPT ![t] = IF c.tmout = "ms" THEN "on" ELSE "off"]
  /\ pc' = [pc EXCEPT ![t] = "recv"]
  /\ call' = [call EXCEPT ![t] = c]
  /\ ret' = Null
  /\ UNCHANGED <<alive, que, halted>>

\* lpc_recv without a message and without waiting for one.
ReceiveFails(t, c) ==
  /\ asleep' = Awake(sendWait[t])
  /\ reason' = WakeReasons(sendWait[t], "RELEASED")
  /\ sendWait' = [sendWait EXCEPT ![t] = {}]
  /\ ret' = [op |-> "recv", thr |-> t, peer |-> c.peer, rc |-> "EAGAIN"]
  /\ UNCHANGED <<alive, pc, call, que, recvWait, timer, halted>>

\* The loop of lpc_recv and what follows it.
ReceiveLoop(t, c) ==
  \/ \E i \in FirstMatch(que[t], c.peer) : Accept(t, c.peer, i)
  \/ /\ \A s \in Range(que[t]) : ~Matches(s, c.peer)
     /\ IF c.tmout = "none" THEN ReceiveFails(t, c) ELSE ReceiveSleeps(t, c)

\* lpc_recv
Receive(t, src, tm) ==
  /\ Runs(t, "user")
  /\ src # t
  /\ ReceiveLoop(t, [peer |-> src, tmout |-> tm, rpc |-> FALSE])

\* lpc_recv goes on after a sleep on its wait_sender.
ReceiveResume(t) ==
  /\ Runs(t, "recv")
  /\ \/ /\ WakeUpReason(t) = "TIMEOUT"
        /\ Return("recv", t, "EAGAIN")
        /\ recvWait' = [recvWait EXCEPT ![t] = FALSE]
        /\ timer' = [timer EXCEPT ![t] = "off"]
        /\ UNCHANGED <<alive, asleep, que, sendWait, reason, halted>>
     \/ /\ WakeUpReason(t) # "TIMEOUT"
        /\ ReceiveLoop(t, call[t])

\* Mutant: a sender whose message was destroyed takes it for received.
SentResumeIgnoresReason(t) ==
  /\ Runs(t, "sent")
  /\ ~call[t].rpc
  /\ Return("send", t, "OK")
  /\ reason' = [reason EXCEPT ![t] = "WAIT"]
  /\ UNCHANGED <<alive, asleep, que, recvWait, sendWait, timer, halted>>

\* lpc_send goes on after the sleep on the completion of its message.  The
\* composite call goes on with lpc_recv from the destination.
SentResume(t) ==
  /\ Runs(t, "sent")
  /\ \/ /\ reason[t] = "DESTROYED" \/ ~call[t].rpc
        /\ Return("send", t, IF reason[t] = "DESTROYED" THEN "ENOENT" ELSE "OK")
        /\ reason' = [reason EXCEPT ![t] = "WAIT"]
        /\ UNCHANGED <<alive, asleep, que, recvWait, sendWait, timer, halted>>
     \/ /\ reason[t] = "RELEASED" /\ call[t].rpc
        /\ ReceiveLoop(t, [call[t] EXCEPT !.rpc = FALSE])

\* thr_exit: the thread can no longer be found, and lpc_destroy_msg_queue
\* frees its messages and wakes everybody who waits for it.
Exit(t) ==
  /\ Runs(t, "user")
  /\ alive' = alive \ {t}
  /\ LET waiters == Range(que[t]) \cup sendWait[t] IN
       /\ reason' = WakeReasons(waiters, "DESTROYED")
       /\ asleep' = Awake(waiters)
  /\ que' = [que EXCEPT ![t] = << >>]
  /\ sendWait' = [sendWait EXCEPT ![t] = {}]
  /\ ret' = Null
  /\ UNCHANGED <<pc, call, recvWait, timer, halted>>

\* Mutant: the thread is woken without a reason and waits again.
TimeoutNoReason(t) ==
  /\ timer[t] = "on"
  /\ ~halted
  /\ timer' = [timer EXCEPT ![t] = "off"]
  /\ asleep' = Awake({t})
  /\ ret' = Null
  /\ UNCHANGED <<alive, pc, call, que, recvWait, sendWait, reason, halted>>

\* timeout_handler: the call-out of a waiting thread fires.  The thread may
\* have been woken before and not have run yet.
Timeout(t) ==
  /\ timer[t] = "on"
  /\ ~halted
  /\ timer' = [timer EXCEPT ![t] = "TIMEOUT"]
  /\ asleep' = Awake({t})
  /\ ret' = Null
  /\ UNCHANGED <<alive, pc, call, que, recvWait, sendWait, reason, halted>>

Next ==
  \E t \in Thread :
    \/ SendResume(t) \/ SentResume(t) \/ ReceiveResume(t) \/ Exit(t) \/ Timeout(t)
    \/ \E tm \in Tmout :
         \/ \E d \in Thread, rpc \in BOOLEAN : Send(t, d, tm, rpc)
         \/ \E src \in Thread \cup {AnySrc} : Receive(t, src, tm)

Spec == Init /\ [][Next]_vars

(***************************************************************************)
(* Fairness: a thread that was woken gets the CPU (see ReadyRuns in module *)
(* Mutex) and the timer goes on ticking.  No call is assumed to be made.   *)
(***************************************************************************)
Fairness ==
  \A t \in Thread :
    /\ WF_vars(SendResume(t))
    /\ WF_vars(SentResume(t))
    /\ WF_vars(ReceiveResume(t))
    /\ WF_vars(Timeout(t))

FairSpec == Spec /\ Fairness
-----------------------------------------------------------------------------
(***************************************************************************)
(* The refinement mapping: the message of a send call is taken as soon as  *)
(* lpc_recv has woken its completion.                                      *)
(***************************************************************************)
offer == [t \in Thread |-> IF pc[t] \in {"send", "sent"} THEN call[t].peer ELSE Null]
taken == [t \in Thread |-> pc[t] = "sent" /\ reason[t] = "RELEASED"]
want == [t \in Thread |-> IF pc[t] = "recv" THEN call[t].peer ELSE Null]

Abstract == INSTANCE Rendezvous

\* lpc_send, lpc_recv and lpc_send_and_reply are a rendezvous: a send returns 0
\* only after exactly one lpc_recv of its destination has taken its message,
\* whatever time limits and exits of threads happen in between.
IsRendezvous == Abstract!Spec

\* A receiver and a sender never sleep waiting for each other to come: when
\* the owner of a queue sleeps on wait_sender nobody sleeps on wait_reciever.
NoMissedRendezvous ==
  \A r \in Thread : recvWait[r] /\ asleep[r] => \A s \in sendWait[r] : ~asleep[s]

\* A message is in a queue exactly while its sender sleeps on the completion,
\* in one queue and once: no sender sleeps for a message that is gone.
QueuedWhileSenderSleeps ==
  \A s, r \in Thread :
    /\ (s \in Range(que[r]) <=> pc[s] = "sent" /\ call[s].peer = r /\ reason[s] = "WAIT")
    /\ IsInjective(que[r])
    /\ s \in Range(que[r]) => asleep[s]

\* lpc_recv reports -EAGAIN after its time limit only if there is no message
\* it could have returned, also when a sender came between the expiry and the
\* moment the receiver runs.
TimeoutMeansNoMessage ==
  \A t \in Thread :
    Runs(t, "recv") /\ WakeUpReason(t) = "TIMEOUT"
      => \A s \in Range(que[t]) : ~Matches(s, call[t].peer)

\* A receive with a time limit returns, although every message from somebody
\* else than src restarts the limit.
TimedReceiveReturns ==
  \A t \in Thread :
    (pc[t] = "recv" /\ call[t].tmout = "ms") ~> (pc[t] = "user" \/ halted)

\* No thread sleeps for a partner that is there or for a message that is gone:
\* message queue, the two synchronisation objects and completions agree,
\* although time limits and exits remove threads from them (lpc_send, lpc_recv).
NobodyWaitsInVain == TypeOK /\ NoMissedRendezvous /\ QueuedWhileSenderSleeps
=============================================================================
