----------------------------- MODULE ThreadLife -----------------------------
(***************************************************************************)
(* The life of user threads and their processes: start, exit, waiting for  *)
(* children, the thread that reaps the dead, and the end of a process with *)
(* its last thread (thr/thread.c, thr/thread-reaper.c, thr/thread-que.c,   *)
(* proc/proc.c, handle_create_thread of kern/proc-server.c).               *)
(*                                                                         *)
(* System calls run with interrupts disabled, so a step is the code        *)
(* between two points where the thread leaves the CPU.  The dispatcher is  *)
(* abstracted: any thread that is not asleep may run next.  The identifier *)
(* of a thread that was reaped is used again; a thread is its identifier.  *)
(* Sleeping senders (lpc/lpc.c) are there because the exit of a thread     *)
(* wakes those that send to it.                                            *)
(***************************************************************************)
EXTENDS Queues

CONSTANTS Thread, Proc, Null

ASSUME LifeAssumption == Null \notin Thread \cup Proc

VARIABLES
  st,        \* where the thread is; "none": the identifier is not in use
  ptid,      \* thr->ptid, THR_INVALID_TID being Null
  joinable,  \* THR_FLAG_JOINABLE
  children,  \* thr->children
  exitw,     \* thr->exit_waiters
  wcall,     \* the thr_wait call of a thread: [tid, flag], or Null
  sendto,    \* the destination of a sleeping sender, or Null
  proc,      \* thr->p, the kernel's process being Null
  threads,   \* p->threads
  master,    \* p->master
  pstatus,   \* p->status, "none" before the process is created
  dead,      \* the queue of the reaper
  reaper,    \* "sleep" or "ready"
  kids,      \* history: <<parent, child>> for threads that started each other
  ret,       \* the thr_wait call that returned a child in the last step, or Null
  halted     \* "no", or why the kernel stopped

procVars == <<proc, threads, master, pstatus>>
vars == <<st, ptid, joinable, children, exitw, wcall, sendto, procVars, dead, reaper, kids, ret, halted>>

(***************************************************************************)
(* "waitchild": asleep in thr_wait; "woken": about to go on there;         *)
(* "zombie": asleep in thr_exit until the parent has the exit code;        *)
(* "released": about to go on there; "sending": asleep in lpc_send;        *)
(* "dead": waits for the reaper; "lost": has left the CPU for good without *)
(* asking for the reaper.                                                  *)
(***************************************************************************)
State == {"none", "dormant", "run", "waitchild", "woken", "zombie", "released", "sending", "dead", "lost"}

WaitFlag == {"id", "any", "nonblock"}

TypeOK ==
  /\ st \in [Thread -> State]
  /\ ptid \in [Thread -> Thread \cup {Null}]
  /\ joinable \in [Thread -> BOOLEAN]
  /\ children \in [Thread -> SUBSET Thread]
  /\ exitw \in [Thread -> Seq(Thread)]
  /\ wcall \in [Thread -> [tid : Thread, flag : WaitFlag] \cup {Null}]
  /\ sendto \in [Thread -> Thread \cup {Null}]
  /\ proc \in [Thread -> Proc \cup {Null}]
  /\ threads \in [Proc -> Seq(Thread)]
  /\ master \in [Proc -> Thread \cup {Null}]
  /\ pstatus \in [Proc -> {"none", "dormant", "active", "exit"}]
  /\ dead \in Seq(Thread)
  /\ reaper \in {"sleep", "ready"}
  /\ kids \subseteq Thread \X Thread
  /\ halted \in {"no", "assert", "fault", "spin"}

Init ==
  /\ st = [t \in Thread |-> "none"]
  /\ ptid = [t \in Thread |-> Null]
  /\ joinable = [t \in Thread |-> FALSE]
  /\ children = [t \in Thread |-> {}]
  /\ exitw = [t \in Thread |-> << >>]
  /\ wcall = [t \in Thread |-> Null]
  /\ sendto = [t \in Thread |-> Null]
  /\ proc = [t \in Thread |-> Null]
  /\ threads = [p \in Proc |-> << >>]
  /\ master = [p \in Proc |-> Null]
  /\ pstatus = [p \in Proc |-> "none"]
  /\ dead = << >> /\ reaper = "sleep"
  /\ kids = {} /\ ret = Null /\ halted = "no"

\* list_del: the element is unlinked
Without(q, t) == ListDel(q, CHOOSE i \in DOMAIN q : q[i] = t)

\* thr_find_thread_by_tid_nolock: a thread that is exiting is not found.
Find(t) == IF t # Null /\ st[t] \notin {"none", "dead", "lost"} THEN t ELSE Null
-----------------------------------------------------------------------------
\* thr_new_thread finds memory for a thread, as far as there is any.
Unused(t) == st[t] = "none"

\* thr_create_uthread: the thread belongs to the process, but does not run.
ThrCreateUthread(t, p) ==
  /\ proc' = [proc EXCEPT ![t] = p]
  /\ threads' = [threads EXCEPT ![p] = Append(@, t)]

\* thr_start.  A kernel thread is no parent to wait for (Null).
ThrStart(t, pthr) ==
  /\ st' = [st EXCEPT ![t] = "run"]
  /\ joinable' = [joinable EXCEPT ![t] = pthr # Null]
  /\ ptid' = [ptid EXCEPT ![t] = pthr]
  /\ children' = [u \in Thread |-> children[u] \cup (IF u = pthr THEN {t} ELSE {})]
  /\ kids' = kids \cup ({pthr} \ {Null}) \X {t}

\* proc_create: the first thread of the process is its master.
ProcCreate(p, t) ==
  /\ halted = "no" /\ pstatus[p] = "none" /\ Unused(t)
  /\ ThrCreateUthread(t, p)
  /\ st' = [st EXCEPT ![t] = "dormant"]
  /\ joinable' = [joinable EXCEPT ![t] = TRUE]
  /\ master' = [master EXCEPT ![p] = t]
  /\ pstatus' = [pstatus EXCEPT ![p] = "dormant"]
  /\ ret' = Null
  /\ UNCHANGED <<ptid, children, exitw, wcall, sendto, dead, reaper, kids, halted>>

\* proc_start, called by a kernel thread
ProcStart(p) ==
  /\ halted = "no" /\ pstatus[p] = "dormant"
  /\ pstatus' = [pstatus EXCEPT ![p] = "active"]
  /\ ThrStart(master[p], Null)
  /\ ret' = Null
  /\ UNCHANGED <<exitw, wcall, sendto, proc, threads, master, dead, reaper, halted>>

\* handle_create_thread for a running thread, which waits for the answer.
CreateThread(pthr, t) ==
  /\ halted = "no" /\ st[pthr] = "run" /\ Unused(t)
  /\ ThrCreateUthread(t, proc[pthr])
  /\ ThrStart(t, pthr)
  /\ ret' = Null
  /\ UNCHANGED <<exitw, wcall, sendto, master, pstatus, dead, reaper, halted>>

\* lpc_send to a thread that does not receive, and the receiver that arrives.
Send(t, d) ==
  /\ halted = "no" /\ st[t] = "run" /\ d # t /\ Find(d) = d
  /\ st' = [st EXCEPT ![t] = "sending"]
  /\ sendto' = [sendto EXCEPT ![t] = d]
  /\ ret' = Null
  /\ UNCHANGED <<ptid, joinable, children, exitw, wcall, procVars, dead, reaper, kids, halted>>

Receive(d) ==
  /\ halted = "no" /\ st[d] = "run"
  /\ \E t \in Thread :
       /\ sendto[t] = d
       /\ st' = [st EXCEPT ![t] = "run"]
       /\ sendto' = [sendto EXCEPT ![t] = Null]
  /\ ret' = Null
  /\ UNCHANGED <<ptid, joinable, children, exitw, wcall, procVars, dead, reaper, kids, halted>>
-----------------------------------------------------------------------------
\* proc_destroy, tried by every thread that exits.
ProcDestroy(p, rest, t) == IF rest = << >> THEN "exit" ELSE pstatus[p]

\* Mutant: the master is not handed over.
MasterAfterStays(p, rest, t) == master[p]

\* The master that exits hands over to the first of the other threads.
MasterAfter(p, rest, t) ==
  IF master[p] = t /\ rest # << >> THEN Head(rest) ELSE master[p]

\* The children in exit_waiters of the exiting thread
ReleasedZombies(t) == Range(exitw[t])

\* Mutant: the reaper is woken before the thread is in its queue.
ReaperWokenEarly(wakes) == IF wakes \/ dead = << >> THEN reaper ELSE "ready"

\* _thr_enter_dead wakes the reaper.
ReaperWoken(wakes) == IF wakes THEN reaper ELSE "ready"

(***************************************************************************)
(* thr_exit from enter_dead on, with children and joinable as the first    *)
(* part left them.  lpc_destroy_msg_queue wakes the senders, the loop at   *)
(* the end wakes the children that wait for their parent.  Either wake-up  *)
(* asks for a dispatch, which ti_enable_dispatch performs: the status is   *)
(* EXIT, so the thread does not come back, and _thr_enter_dead is not      *)
(* reached.                                                                *)
(***************************************************************************)
EnterDead(t, ch, jo) ==
  LET p == proc[t]
      rest == Without(threads[p], t)
      senders == {u \in Thread : sendto[u] = t}
      zombies == ReleasedZombies(t)
      wakes == senders \cup zombies # {}
  IN /\ st' = [u \in Thread |-> IF u = t THEN (IF wakes THEN "lost" ELSE "dead")
                                ELSE IF u \in senders THEN "run"
                                ELSE IF u \in zombies THEN "released" ELSE st[u]]
     /\ joinable' = [u \in Thread |-> IF u \in zombies THEN FALSE ELSE jo[u]]
     /\ exitw' = [exitw EXCEPT ![t] = << >>]
     /\ children' = ch
     /\ sendto' = [u \in Thread |-> IF u \in senders THEN Null ELSE sendto[u]]
     /\ threads' = [threads EXCEPT ![p] = rest]
     /\ master' = [master EXCEPT ![p] = MasterAfter(p, rest, t)]
     /\ pstatus' = [pstatus EXCEPT ![p] = ProcDestroy(p, rest, t)]
     /\ proc' = [proc EXCEPT ![t] = Null]
     /\ dead' = IF wakes THEN dead ELSE Append(dead, t)
     /\ reaper' = ReaperWoken(wakes)

\* The children of an exiting thread are not waited for any more.
Orphans(t) == [u \in Thread |-> IF u \in children[t] THEN FALSE ELSE joinable[u]]

\* Mutant: the exiting child does not wake its parent.
WokenParentNever(p) == st

\* sync_wake on children_wait of the parent
WokenParent(p) == IF st[p] = "waitchild" THEN [st EXCEPT ![p] = "woken"] ELSE st

\* thr_exit: a thread whose parent will ask for its exit code sleeps until
\* then, any other enters the dead at once.
ThrExit(t) ==
  /\ halted = "no" /\ st[t] = "run" /\ ret' = Null
  /\ LET p == Find(ptid[t])
         ch == [u \in Thread |-> IF u = t THEN {} ELSE IF u = p THEN children[u] \ {t} ELSE children[u]]
         jo == Orphans(t)
     IN IF p = Null /\ joinable[t]
        THEN halted' = "assert" /\ UNCHANGED <<st, joinable, children, exitw, sendto, procVars, dead, reaper>>
        ELSE /\ UNCHANGED halted
             /\ IF ~joinable[t]
                THEN EnterDead(t, ch, jo)
                ELSE /\ st' = [WokenParent(p) EXCEPT ![t] = "zombie"]
                     /\ joinable' = jo /\ children' = ch
                     /\ exitw' = [exitw EXCEPT ![p] = Append(@, t)]
                     /\ UNCHANGED <<sendto, procVars, dead, reaper>>
  /\ UNCHANGED <<ptid, wcall, kids>>

\* Mutant: the thread goes on only if its parent still exists.
ExitResumeWithParent(t) ==
  /\ halted = "no" /\ st[t] = "released" /\ ret' = Null
  /\ Find(ptid[t]) # Null
  /\ EnterDead(t, children, joinable)
  /\ UNCHANGED <<ptid, wcall, kids, halted>>

\* thr_exit after the sleep
ExitResume(t) ==
  /\ halted = "no" /\ st[t] = "released" /\ ret' = Null
  /\ IF joinable[t]
     THEN halted' = "assert" /\ UNCHANGED <<st, joinable, children, exitw, sendto, procVars, dead, reaper>>
     ELSE EnterDead(t, children, joinable) /\ UNCHANGED halted
  /\ UNCHANGED <<ptid, wcall, kids>>
-----------------------------------------------------------------------------
\* The place in exit_waiters of the first child that the call accepts, if any
Matching(t, c) ==
  LET Accepts(i) == c.flag = "id" => exitw[t][i] = c.tid
  IN {i \in DOMAIN exitw[t] : Accepts(i) /\ \A j \in 1 .. i - 1 : ~Accepts(j)}

(***************************************************************************)
(* The loop of thr_wait, of a thread whose call c is known: sleep or       *)
(* return -ENOENT while no child has exited; take the first that matches.  *)
(* If children have exited and none matches, the loop goes round for ever  *)
(* with interrupts disabled.                                               *)
(***************************************************************************)
ThrWaitLoop(t, c) ==
  \/ /\ exitw[t] = << >> /\ ret' = Null
     /\ IF c.flag = "nonblock"
        THEN st' = [st EXCEPT ![t] = "run"] /\ wcall' = [wcall EXCEPT ![t] = Null]
        ELSE st' = [st EXCEPT ![t] = "waitchild"] /\ wcall' = [wcall EXCEPT ![t] = c]
     /\ UNCHANGED <<exitw, joinable, halted>>
  \/ /\ exitw[t] # << >> /\ Matching(t, c) = {}
     /\ halted' = "spin" /\ ret' = Null
     /\ UNCHANGED <<st, wcall, exitw, joinable>>
  \/ \E i \in Matching(t, c) :
       LET child == exitw[t][i] IN
         /\ st' = [st EXCEPT ![t] = "run", ![child] = "released"]
         /\ wcall' = [wcall EXCEPT ![t] = Null]
         /\ exitw' = [exitw EXCEPT ![t] = ListDel(@, i)]
         /\ joinable' = [joinable EXCEPT ![child] = FALSE]
         /\ ret' = [thr |-> t, call |-> c, child |-> child]
         /\ UNCHANGED halted

\* svc_thr_wait: the thread that is named is locked even when the call is
\* not about it; if it does not exist this is an access through NULL.
ThrWait(t, tid, flag) ==
  /\ halted = "no" /\ st[t] = "run"
  /\ IF Find(tid) = Null
     THEN /\ IF flag = "id"
             THEN UNCHANGED halted
             ELSE halted' = "fault"
          /\ ret' = Null
          /\ UNCHANGED <<st, wcall, exitw, joinable>>
     ELSE ThrWaitLoop(t, [tid |-> tid, flag |-> flag])
  /\ UNCHANGED <<ptid, children, sendto, procVars, dead, reaper, kids>>

ThrWaitResume(t) ==
  /\ halted = "no" /\ st[t] = "woken"
  /\ ThrWaitLoop(t, wcall[t])
  /\ UNCHANGED <<ptid, children, sendto, procVars, dead, reaper, kids>>

\* The threads that thr_destroy frees in one turn of the reaper
Reap(q) == Range(q)

(***************************************************************************)
(* reaper_thread from its wake-up to its next sleep.  It has the highest   *)
(* priority and no slice, so nothing comes between the end of the loop and *)
(* the sleep.  thr_destroy returns the identifier.                         *)
(***************************************************************************)
ReaperThread ==
  /\ halted = "no" /\ reaper = "ready"
  /\ reaper' = "sleep" /\ dead' = << >> /\ ret' = Null
  /\ st' = [t \in Thread |-> IF t \in Reap(dead) THEN "none" ELSE st[t]]
  /\ kids' = {k \in kids : k[1] \notin Reap(dead) /\ k[2] \notin Reap(dead)}
  /\ ptid' = [t \in Thread |-> IF t \in Reap(dead) THEN Null ELSE ptid[t]]
  /\ UNCHANGED <<joinable, children, exitw, wcall, sendto, procVars, halted>>

Next ==
  \/ ReaperThread
  \/ \E p \in Proc : ProcStart(p) \/ \E t \in Thread : ProcCreate(p, t)
  \/ \E t \in Thread :
       \/ ThrExit(t) \/ ExitResume(t) \/ ThrWaitResume(t) \/ Receive(t)
       \/ \E u \in Thread :
            CreateThread(t, u) \/ Send(t, u) \/ \E f \in WaitFlag : ThrWait(t, u, f)

Spec == Init /\ [][Next]_vars

(***************************************************************************)
(* A thread that was woken runs; nothing is assumed of what programs call. *)
(***************************************************************************)
Fairness ==
  /\ WF_vars(ReaperThread)
  /\ \A t \in Thread : WF_vars(ExitResume(t)) /\ WF_vars(ThrWaitResume(t))

FairSpec == Spec /\ Fairness
-----------------------------------------------------------------------------
\* A thread that waits in thr_exit is in exit_waiters of the thread that
\* started it, which is not among the dead, so somebody can release it; and
\* a thread is in no other queue of that kind, even if the identifier of its
\* parent has been given to a new thread (thr->ptid is not reset).
ZombiesHaveParents ==
  \A c \in Thread :
    /\ st[c] = "zombie" => \E p \in Thread : c \in Range(exitw[p]) /\ <<p, c>> \in kids
    /\ \A p \in Thread : c \in Range(exitw[p]) =>
         st[c] = "zombie" /\ ptid[c] = p /\ Find(p) = p /\ <<p, c>> \in kids

\* A parent does not sleep in thr_wait while a child of it has exited.
NoMissedExit ==
  \A t \in Thread : st[t] = "waitchild" => exitw[t] = << >>

\* An active process has a master among its threads, which have not exited;
\* a process is destroyed with its last thread and not before.
ProcessLivesWithThreads ==
  \A p \in Proc :
    /\ pstatus[p] = "active" => master[p] \in Range(threads[p])
    /\ \A t \in Range(threads[p]) : proc[t] = p /\ Find(t) = t /\ pstatus[p] # "exit"
    /\ pstatus[p] \in {"none", "exit"} <=> threads[p] = << >>

\* The reaper is awake while threads wait for it, and only threads that have
\* left everything (their process, their parent, their children) do.
ReaperKnowsTheDead ==
  /\ dead # << >> => reaper = "ready"
  /\ IsInjective(dead)
  /\ \A t \in Thread : st[t] = "dead" =>
       /\ t \in Range(dead)
       /\ children[t] = {} /\ exitw[t] = << >> /\ proc[t] = Null
       /\ \A u \in Thread : sendto[u] # t /\ t \notin Range(exitw[u])

\* thr_wait returns a child of the caller that has exited, the one asked for,
\* and the child may then end.
WaitReturnsOwnChild ==
  ret # Null =>
    /\ <<ret.thr, ret.child>> \in kids
    /\ st[ret.child] = "released"
    /\ ret.call.flag = "id" => ret.child = ret.call.tid

\* A released thread ends: it is reaped, or it is lost because its own exit
\* woke others.
ReleasedEnds ==
  \A t \in Thread : st[t] = "released" ~> (st[t] \in {"none", "lost"} \/ halted # "no")

\* Every thread that exits is reaped ("自スレッドの回収を依頼する", thr/thread.c:641).
ExitedIsReaped ==
  \A t \in Thread : st[t] \in {"dead", "lost"} ~> (st[t] = "none" \/ halted # "no")

\* The assertions of thr_exit hold: a joinable thread that exits finds its
\* parent, and after the wait for the parent it is not joinable.
ExitAssertionsHold == halted # "assert"

\* Parents and children that exit in any order meet: an exited child waits for
\* a parent that is there, a parent does not sleep while a child has exited,
\* thr_wait returns the caller's own child, and thr_exit does not fail an
\* assertion (thr_exit, thr_wait).
ParentsMeetChildren ==
  TypeOK /\ ZombiesHaveParents /\ NoMissedExit /\ WaitReturnsOwnChild /\ ExitAssertionsHold
=============================================================================
