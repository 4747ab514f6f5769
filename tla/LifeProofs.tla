----------------------------- MODULE LifeProofs -----------------------------
(***************************************************************************)
(* Proofs about module ThreadLife, for any threads and processes: parents  *)
(* and children meet, a process lives as long as its threads, and the      *)
(* reaper knows the dead.  First the inductive invariant and facts that    *)
(* follow from it, then the steps that start threads and processes, send   *)
(* messages and reap the dead, then thr_exit and thr_wait, and the         *)
(* theorems.                                                               *)
(***************************************************************************)
EXTENDS ThreadLife, QueueLemmas

\* Threads that thr_find_thread_by_tid_nolock finds, and those that have been
\* started and have not begun to exit
Alive == State \ {"none", "dead", "lost"}
Active == {"run", "waitchild", "woken", "sending"}

\* A queue with nothing in it, and one with t only
Empty(q) == q = << >>
Sole(q, t) == q = <<t>>

\* p->threads and thr->p agree; a process that has not been started has its
\* master only.
ProcOK ==
  /\ \A t \in Thread : proc[t] # Null <=> st[t] \in Alive
  /\ \A p \in Proc :
       /\ \A t \in Thread : t \in Range(threads[p]) <=> proc[t] = p
       /\ IsInjective(threads[p])
       /\ pstatus[p] \in {"none", "exit"} <=> Empty(threads[p])
       /\ pstatus[p] = "active" => master[p] \in Range(threads[p])
       /\ pstatus[p] = "dormant" => Sole(threads[p], master[p]) /\ st[master[p]] = "dormant"

\* A thread is joinable as long as it is among the children of its parent,
\* which then has not begun to exit.
FamilyOK ==
  /\ \A p, c \in Thread : c \in children[p] =>
       /\ c # p /\ ptid[c] = p /\ joinable[c] /\ <<p, c>> \in kids
       /\ st[p] \in Active /\ st[c] \in Active
  /\ \A c \in Thread : st[c] \in Active /\ joinable[c] => ptid[c] \in Thread /\ c \in children[ptid[c]]

\* A thread that waits in thr_exit is in exit_waiters of its parent, once,
\* and that parent does not sleep in thr_wait.
ExitOK ==
  /\ \A c \in Thread : st[c] = "zombie" => ptid[c] \in Thread /\ c \in Range(exitw[ptid[c]])
  /\ \A p, c \in Thread : c \in Range(exitw[p]) =>
       st[c] = "zombie" /\ ptid[c] = p /\ st[p] \in Alive /\ <<p, c>> \in kids
  /\ \A p \in Thread : IsInjective(exitw[p]) /\ (st[p] = "waitchild" => Empty(exitw[p]))

\* The destination of a sleeping sender is there.
SendOK == \A t \in Thread : sendto[t] # Null => st[t] = "sending" /\ st[sendto[t]] \in Alive

DeadOK ==
  /\ \A t \in Thread : t \in Range(dead) <=> st[t] = "dead"
  /\ IsInjective(dead) /\ (Empty(dead) \/ reaper = "ready")

\* A thread that its parent has released is not joinable any more, and no
\* assertion of thr_exit has failed.
JoinOK == (\A t \in Thread : st[t] = "released" => ~joinable[t]) /\ ExitAssertionsHold

\* The inductive invariant
IInv ==
  /\ TypeOK /\ ProcOK /\ FamilyOK /\ ExitOK /\ SendOK /\ DeadOK /\ JoinOK
  /\ WaitReturnsOwnChild

\* Unlinking a member of a queue
LEMMA WithoutQueue ==
  ASSUME NEW q \in Seq(Thread), IsInjective(q), NEW t \in Range(q)
  PROVE  /\ Without(q, t) \in Seq(Thread)
         /\ Range(Without(q, t)) = Range(q) \ {t}
         /\ IsInjective(Without(q, t))
<1> DEFINE i == CHOOSE i \in DOMAIN q : q[i] = t
<1>1. i \in DOMAIN q /\ q[i] = t
  BY DEF Range
<1> HIDE DEF i
<1>2. Without(q, t) = ListDel(q, i)
  BY DEF Without, i
<1> QED
  BY <1>1, <1>2, RemoveQueue

\* A queue without members is empty, and the first member is a member.
LEMMA HeadQueue ==
  ASSUME NEW q \in Seq(Thread)
  PROVE  /\ Empty(q) <=> Range(q) = {}
         /\ Empty(q) \/ Head(q) \in Range(q)
         /\ Range(q) \subseteq Thread
<1>1. DOMAIN q = 1 .. Len(q) /\ Len(q) \in Nat /\ \A i \in 1 .. Len(q) : q[i] \in Thread
  OBVIOUS
<1>2. Empty(q) \/ (1 \in DOMAIN q /\ Head(q) = q[1])
  BY <1>1 DEF Empty
<1> QED
  BY <1>1, <1>2, EmptyQueue, Zenon DEF Range, Empty

LEMMA NoneQueue == Empty(<< >>) /\ Range(<< >>) = {} /\ IsInjective(<< >>)
  BY EmptyQueue DEF Empty

\* A queue of one element
LEMMA OneQueue ==
  ASSUME NEW t \in Thread
  PROVE  /\ <<t>> \in Seq(Thread) /\ Range(<<t>>) = {t} /\ IsInjective(<<t>>)
         /\ Append(<< >>, t) = <<t>> /\ Sole(<<t>>, t) /\ ~Empty(<<t>>)
  BY DEF Range, IsInjective, Sole, Empty

\* The types of the variables that a step changes most
StTypes ==
  /\ st \in [Thread -> State] /\ ptid \in [Thread -> Thread \cup {Null}]
  /\ joinable \in [Thread -> BOOLEAN] /\ children \in [Thread -> SUBSET Thread]
  /\ sendto \in [Thread -> Thread \cup {Null}]

ProcTypes ==
  /\ proc \in [Thread -> Proc \cup {Null}] /\ threads \in [Proc -> Seq(Thread)]
  /\ master \in [Proc -> Thread \cup {Null}]
  /\ pstatus \in [Proc -> {"none", "dormant", "active", "exit"}]

QueueTypes == exitw \in [Thread -> Seq(Thread)] /\ dead \in Seq(Thread)

LEMMA Parts ==
  ASSUME IInv
  PROVE  /\ StTypes /\ ProcTypes /\ QueueTypes
         /\ ProcOK /\ FamilyOK /\ ExitOK /\ SendOK /\ DeadOK /\ JoinOK
  BY DEF IInv, TypeOK, StTypes, ProcTypes, QueueTypes

\* A process that has not been started has a master, its only thread.
LEMMA DormantMaster ==
  ASSUME IInv, NEW p \in Proc, pstatus[p] = "dormant"
  PROVE  /\ master[p] \in Thread /\ st[master[p]] = "dormant"
         /\ Sole(threads[p], master[p]) /\ Range(threads[p]) = {master[p]}
<1>1. Sole(threads[p], master[p]) /\ st[master[p]] = "dormant"
  BY Parts DEF ProcOK
<1>2. threads[p] \in Seq(Thread)
  BY Parts DEF ProcTypes
<1>3. \A m : Len(<<m>>) = 1 /\ <<m>>[1] = m
  OBVIOUS
<1>4. master[p] \in Thread
  BY <1>1, <1>2, <1>3 DEF Sole
<1>5. threads[p] = <<master[p]>>
  BY <1>1 DEF Sole
<1> QED
  BY <1>1, <1>4, <1>5, OneQueue

LEMMA InitIInv == Init => IInv
<1> SUFFICES ASSUME Init PROVE IInv
  OBVIOUS
<1>1. TypeOK
  <2>1. exitw \in [Thread -> Seq(Thread)] /\ threads \in [Proc -> Seq(Thread)] /\ dead \in Seq(Thread)
    BY DEF Init
  <2> QED
    BY <2>1 DEF Init, TypeOK, State
<1>2. ProcOK
  BY NoneQueue, LifeAssumption DEF Init, ProcOK, Alive
<1>3. FamilyOK /\ SendOK
  BY DEF Init, FamilyOK, SendOK, Active
<1>4. ExitOK
  BY NoneQueue DEF Init, ExitOK
<1>5. DeadOK
  BY NoneQueue DEF Init, DeadOK
<1>6. WaitReturnsOwnChild
  BY DEF Init, WaitReturnsOwnChild
<1>7. JoinOK
  BY DEF Init, JoinOK, ExitAssertionsHold
<1> QED
  BY <1>1, <1>2, <1>3, <1>4, <1>5, <1>6, <1>7 DEF IInv

\* proc_create
LEMMA ProcCreateIInv ==
  ASSUME IInv, NEW p \in Proc, NEW t \in Thread, ProcCreate(p, t)
  PROVE  IInv'
<1>inv. StTypes /\ ProcTypes /\ QueueTypes /\ ProcOK /\ FamilyOK /\ ExitOK /\ SendOK /\ DeadOK /\ JoinOK
  BY Parts
<1>1. /\ pstatus[p] = "none" /\ st[t] = "none"
      /\ proc' = [proc EXCEPT ![t] = p]
      /\ threads' = [threads EXCEPT ![p] = Append(@, t)]
      /\ st' = [st EXCEPT ![t] = "dormant"]
      /\ joinable' = [joinable EXCEPT ![t] = TRUE]
      /\ master' = [master EXCEPT ![p] = t]
      /\ pstatus' = [pstatus EXCEPT ![p] = "dormant"]
      /\ ret' = Null
      /\ ptid' = ptid /\ children' = children /\ exitw' = exitw /\ wcall' = wcall /\ sendto' = sendto
      /\ dead' = dead /\ reaper' = reaper /\ kids' = kids /\ halted' = halted
  BY DEF ProcCreate, Unused, ThrCreateUthread
<1>2. Range(threads[p]) = {} /\ threads'[p] = <<t>> /\ \A q \in Proc \ {p} : threads'[q] = threads[q]
  <2>1. Empty(threads[p])
    BY <1>inv, <1>1 DEF ProcOK
  <2>2. threads'[p] = Append(threads[p], t) /\ \A q \in Proc \ {p} : threads'[q] = threads[q]
    BY <1>inv, <1>1, Zenon DEF ProcTypes
  <2> QED
    BY <2>1, <2>2, OneQueue, NoneQueue, Zenon DEF Empty
<1>3. TypeOK'
  <2>1. threads' \in [Proc -> Seq(Thread)]
    BY <1>inv, <1>1, <1>2, OneQueue, Zenon DEF ProcTypes
  <2> QED
    BY <1>1, <2>1, Zenon DEF IInv, TypeOK, State
<1>4. ProcOK'
  <2>1. \A u \in Thread : proc'[u] # Null <=> st'[u] \in Alive
    BY <1>inv, <1>1, LifeAssumption DEF StTypes, ProcTypes, ProcOK, Alive, State
  <2>2. ASSUME NEW q \in Proc
        PROVE  /\ \A u \in Thread : u \in Range(threads'[q]) <=> proc'[u] = q
               /\ IsInjective(threads'[q])
               /\ pstatus'[q] \in {"none", "exit"} <=> Empty(threads'[q])
               /\ pstatus'[q] = "active" => master'[q] \in Range(threads'[q])
               /\ pstatus'[q] = "dormant" => Sole(threads'[q], master'[q]) /\ st'[master'[q]] = "dormant"
    <3>1. CASE q = p
      <4>1. \A u \in Thread : proc[u] # p
        BY <1>inv, <1>2, Zenon DEF ProcOK
      <4>2. \A u \in Thread : proc'[u] = p <=> u = t
        BY <1>inv, <1>1, <4>1, Zenon DEF ProcTypes
      <4>3. pstatus'[p] = "dormant" /\ master'[p] = t /\ st'[t] = "dormant"
        BY <1>inv, <1>1, Zenon DEF StTypes, ProcTypes
      <4> QED
        BY <1>2, <3>1, <4>2, <4>3, OneQueue, Zenon
    <3>2. CASE q # p
      <4>1. proc[t] = Null
        BY <1>inv, <1>1, Zenon DEF ProcOK, Alive
      <4>2. threads'[q] = threads[q] /\ pstatus'[q] = pstatus[q] /\ master'[q] = master[q]
        BY <1>inv, <1>1, <1>2, <3>2, Zenon DEF ProcTypes
      <4>3. \A u \in Thread : proc'[u] = q <=> proc[u] = q
        BY <1>inv, <1>1, <3>2, <4>1, LifeAssumption, Zenon DEF ProcTypes
      <4>4. pstatus[q] = "dormant" => st'[master[q]] = "dormant"
        BY <1>inv, <1>1, DormantMaster, Zenon DEF StTypes
      <4> QED
        BY <1>inv, <4>2, <4>3, <4>4 DEF ProcOK
    <3> QED
      BY <3>1, <3>2, Zenon
  <2> QED
    BY <2>1, <2>2, Zenon DEF ProcOK
<1>5. FamilyOK'
  BY <1>inv, <1>1 DEF StTypes, FamilyOK, Active
<1>6. ExitOK'
  BY <1>inv, <1>1 DEF StTypes, ExitOK, Alive, State
<1>7. SendOK'
  BY <1>inv, <1>1, Zenon DEF StTypes, SendOK, Alive, State
<1>8. DeadOK'
  BY <1>inv, <1>1, Zenon DEF StTypes, DeadOK
<1>9. WaitReturnsOwnChild'
  BY <1>1 DEF WaitReturnsOwnChild
<1>10. JoinOK'
  BY <1>inv, <1>1 DEF StTypes, JoinOK, ExitAssertionsHold
<1> QED
  BY <1>3, <1>4, <1>5, <1>6, <1>7, <1>8, <1>9, <1>10, Zenon DEF IInv

\* proc_start
LEMMA ProcStartIInv ==
  ASSUME IInv, NEW p \in Proc, ProcStart(p)
  PROVE  IInv'
<1> DEFINE m == master[p]
<1>inv. StTypes /\ ProcTypes /\ QueueTypes /\ ProcOK /\ FamilyOK /\ ExitOK /\ SendOK /\ DeadOK /\ JoinOK
  BY Parts
<1>1. pstatus[p] = "dormant" /\ Sole(threads[p], m) /\ st[m] = "dormant"
  BY DormantMaster, Zenon DEF ProcStart
<1>2. m \in Thread /\ Range(threads[p]) = {m}
  BY DormantMaster DEF ProcStart
<1> HIDE DEF m
<1>3. /\ pstatus' = [pstatus EXCEPT ![p] = "active"]
      /\ st' = [st EXCEPT ![m] = "run"]
      /\ joinable' = [joinable EXCEPT ![m] = FALSE]
      /\ ptid' = [ptid EXCEPT ![m] = Null]
      /\ ret' = Null
      /\ exitw' = exitw /\ wcall' = wcall /\ sendto' = sendto /\ proc' = proc /\ threads' = threads
      /\ master' = master /\ dead' = dead /\ reaper' = reaper /\ halted' = halted
  BY Zenon DEF ProcStart, ThrStart, m
<1>4. children' = children
  BY <1>inv, LifeAssumption DEF StTypes, ProcStart, ThrStart
<1>5. kids' = kids
  BY Zenon DEF ProcStart, ThrStart
<1>6. TypeOK'
  BY <1>2, <1>3, <1>4, <1>5, Zenon DEF IInv, TypeOK, State
<1>7. ProcOK'
  <2>1. \A u \in Thread : proc'[u] # Null <=> st'[u] \in Alive
    BY <1>inv, <1>1, <1>2, <1>3 DEF StTypes, ProcTypes, ProcOK, Alive, State
  <2>2. ASSUME NEW q \in Proc
        PROVE  /\ \A u \in Thread : u \in Range(threads'[q]) <=> proc'[u] = q
               /\ IsInjective(threads'[q])
               /\ pstatus'[q] \in {"none", "exit"} <=> Empty(threads'[q])
    BY <1>inv, <1>1, <1>3 DEF StTypes, ProcTypes, ProcOK
  <2>3. ASSUME NEW q \in Proc
        PROVE  /\ pstatus'[q] = "active" => master'[q] \in Range(threads'[q])
               /\ pstatus'[q] = "dormant" => Sole(threads'[q], master'[q]) /\ st'[master'[q]] = "dormant"
    <3>1. CASE q = p
      <4>1. pstatus'[p] = "active" /\ threads'[p] = threads[p] /\ master'[p] = m
        BY <1>inv, <1>3, Zenon DEF ProcTypes, m
      <4> QED
        BY <1>2, <3>1, <4>1
    <3>2. CASE q # p
      <4>1. proc[m] = p
        BY <1>inv, <1>2 DEF ProcOK
      <4>2. pstatus[q] = "dormant" => master[q] # m
        <5>1. SUFFICES ASSUME pstatus[q] = "dormant", master[q] = m PROVE FALSE
          OBVIOUS
        <5>2. m \in Range(threads[q])
          BY <5>1, DormantMaster, Zenon
        <5>3. proc[m] = q
          BY <1>inv, <1>2, <5>2, Zenon DEF ProcOK
        <5> QED
          BY <3>2, <4>1, <5>3
      <4>3. pstatus'[q] = pstatus[q] /\ (pstatus[q] = "dormant" => st'[master[q]] = "dormant")
        BY <1>inv, <1>2, <1>3, <3>2, <4>2, DormantMaster, Zenon DEF StTypes, ProcTypes
      <4> QED
        BY <1>inv, <1>3, <4>3 DEF ProcOK
    <3> QED
      BY <3>1, <3>2
  <2> QED
    BY <2>1, <2>2, <2>3, Zenon DEF ProcOK
<1>8. FamilyOK'
  BY <1>inv, <1>1, <1>2, <1>3, <1>4, <1>5 DEF StTypes, FamilyOK, Active
<1>9. ExitOK'
  BY <1>inv, <1>1, <1>2, <1>3, <1>5 DEF StTypes, ExitOK, Alive, State
<1>10. SendOK'
  BY <1>inv, <1>1, <1>2, <1>3, Zenon DEF StTypes, SendOK, Alive, State
<1>11. DeadOK' /\ WaitReturnsOwnChild'
  BY <1>inv, <1>1, <1>2, <1>3, Zenon DEF StTypes, DeadOK, WaitReturnsOwnChild
<1>12. JoinOK'
  BY <1>inv, <1>2, <1>3 DEF StTypes, JoinOK, ExitAssertionsHold
<1> QED
  BY <1>6, <1>7, <1>8, <1>9, <1>10, <1>11, <1>12 DEF IInv

\* A thread that runs belongs to a process that has been started.
LEMMA RunsInProcess ==
  ASSUME IInv, NEW t \in Thread, st[t] \in Alive \ {"dormant"}
  PROVE  proc[t] \in Proc /\ t \in Range(threads[proc[t]]) /\ pstatus[proc[t]] = "active"
<1>1. proc[t] \in Proc
  BY Parts DEF ProcTypes, ProcOK
<1>2. t \in Range(threads[proc[t]])
  BY <1>1, Parts DEF ProcOK
<1>3. ~Empty(threads[proc[t]])
  BY <1>2, NoneQueue DEF Empty
<1>4. pstatus[proc[t]] # "dormant"
  BY <1>1, <1>2, DormantMaster, Zenon
<1>5. pstatus[proc[t]] \notin {"none", "exit"}
  BY <1>1, <1>3, Parts DEF ProcOK
<1>6. pstatus[proc[t]] \in {"none", "dormant", "active", "exit"}
  BY <1>1, Parts DEF ProcTypes
<1> QED
  BY <1>1, <1>2, <1>4, <1>5, <1>6, Zenon

\* handle_create_thread
LEMMA CreateThreadIInv ==
  ASSUME IInv, NEW pthr \in Thread, NEW t \in Thread, CreateThread(pthr, t)
  PROVE  IInv'
<1> DEFINE p == proc[pthr]
<1>inv. StTypes /\ ProcTypes /\ QueueTypes /\ ProcOK /\ FamilyOK /\ ExitOK /\ SendOK /\ DeadOK /\ JoinOK
  BY Parts
<1>1. st[pthr] = "run" /\ st[t] = "none" /\ pthr # t /\ pthr # Null
  BY LifeAssumption DEF CreateThread, Unused
<1>2. p \in Proc /\ pstatus[p] = "active"
  BY <1>1, RunsInProcess DEF Alive, State
<1> HIDE DEF p
<1>3. /\ proc' = [proc EXCEPT ![t] = p]
      /\ threads' = [threads EXCEPT ![p] = Append(@, t)]
      /\ st' = [st EXCEPT ![t] = "run"]
      /\ joinable' = [joinable EXCEPT ![t] = TRUE]
      /\ ptid' = [ptid EXCEPT ![t] = pthr]
      /\ ret' = Null
      /\ exitw' = exitw /\ wcall' = wcall /\ sendto' = sendto /\ pstatus' = pstatus
      /\ master' = master /\ dead' = dead /\ reaper' = reaper /\ halted' = halted
  BY <1>1, Zenon DEF CreateThread, ThrCreateUthread, ThrStart, p
<1>4. children' = [children EXCEPT ![pthr] = @ \cup {t}]
  <2>1. children' = [u \in Thread |-> children[u] \cup (IF u = pthr THEN {t} ELSE {})]
    BY DEF CreateThread, ThrStart
  <2> QED
    BY <1>inv, <2>1, Zenon DEF StTypes
<1>5. kids' = kids \cup {<<pthr, t>>}
  <2>1. kids' = kids \cup ({pthr} \ {Null}) \X {t}
    BY DEF CreateThread, ThrStart
  <2>2. ({pthr} \ {Null}) \X {t} = {<<pthr, t>>}
    BY <1>1
  <2> QED
    BY <2>1, <2>2, Zenon
<1>6. proc[t] = Null /\ t \notin Range(threads[p])
  BY <1>inv, <1>1, <1>2, LifeAssumption DEF ProcOK, Alive
<1>7. /\ threads'[p] = Append(threads[p], t)
      /\ threads'[p] \in Seq(Thread) /\ IsInjective(threads'[p])
      /\ Range(threads'[p]) = Range(threads[p]) \cup {t}
      /\ \A q \in Proc \ {p} : threads'[q] = threads[q]
  <2>1. threads'[p] = Append(threads[p], t) /\ threads[p] \in Seq(Thread)
    BY <1>inv, <1>2, <1>3, Zenon DEF ProcTypes
  <2>2. IsInjective(threads[p])
    BY <1>inv, <1>2, Zenon DEF ProcOK
  <2> QED
    BY <1>inv, <1>3, <1>6, <2>1, <2>2, AppendQueue DEF ProcTypes
<1>8. TypeOK'
  <2>1. threads' \in [Proc -> Seq(Thread)]
    BY <1>inv, <1>2, <1>3, <1>7, Zenon DEF ProcTypes
  <2>2. kids' \subseteq Thread \X Thread
    BY <1>5 DEF IInv, TypeOK
  <2> QED
    BY <1>2, <1>3, <1>4, <2>1, <2>2 DEF IInv, TypeOK, State
<1>9. ProcOK'
  <2>1. \A u \in Thread : proc'[u] # Null <=> st'[u] \in Alive
    BY <1>inv, <1>2, <1>3, LifeAssumption DEF StTypes, ProcTypes, ProcOK, Alive, State
  <2>2. ASSUME NEW q \in Proc
        PROVE  /\ \A u \in Thread : u \in Range(threads'[q]) <=> proc'[u] = q
               /\ IsInjective(threads'[q])
               /\ pstatus'[q] \in {"none", "exit"} <=> Empty(threads'[q])
               /\ pstatus'[q] = "active" => master'[q] \in Range(threads'[q])
               /\ pstatus'[q] = "dormant" => Sole(threads'[q], master'[q]) /\ st'[master'[q]] = "dormant"
    <3>1. CASE q = p
      <4>1. ~Empty(threads'[q])
        BY <1>7, <3>1, NoneQueue, Zenon DEF Empty
      <4>2. \A u \in Thread : proc'[u] = p <=> proc[u] = p \/ u = t
        BY <1>inv, <1>3, Zenon DEF ProcTypes
      <4>3. (\A u \in Thread : u \in Range(threads[p]) <=> proc[u] = p) /\ master[p] \in Range(threads[p])
        BY <1>inv, <1>2, Zenon DEF ProcOK
      <4>4. pstatus'[p] = "active" /\ master'[p] = master[p]
        BY <1>2, <1>3, Zenon
      <4> QED
        BY <1>7, <3>1, <4>1, <4>2, <4>3, <4>4, Zenon
    <3>2. CASE q # p
      <4>1. threads'[q] = threads[q] /\ pstatus'[q] = pstatus[q] /\ master'[q] = master[q]
        BY <1>3, <1>7, <3>2, Zenon
      <4>2. \A u \in Thread : proc'[u] = q <=> proc[u] = q
        BY <1>inv, <1>3, <1>6, <3>2, LifeAssumption, Zenon DEF ProcTypes
      <4>3. pstatus[q] = "dormant" => st'[master[q]] = "dormant"
        BY <1>inv, <1>1, <1>3, DormantMaster, Zenon DEF StTypes
      <4> QED
        BY <1>inv, <4>1, <4>2, <4>3 DEF ProcOK
    <3> QED
      BY <3>1, <3>2
  <2> QED
    BY <2>1, <2>2, Zenon DEF ProcOK
<1>10. FamilyOK'
  <2>1. \A u \in Thread : t \notin children[u]
    BY <1>inv, <1>1, Zenon DEF FamilyOK, Active
  <2>2. children[t] = {}
    BY <1>inv, <1>1, Zenon DEF StTypes, FamilyOK, Active
  <2> QED
    BY <1>inv, <1>1, <1>3, <1>4, <1>5, <2>1, <2>2 DEF StTypes, FamilyOK, Active
<1>11. ExitOK'
  BY <1>inv, <1>1, <1>3, <1>5 DEF StTypes, ExitOK, Alive, State
<1>12. SendOK'
  BY <1>inv, <1>1, <1>3, Zenon DEF StTypes, SendOK, Alive, State
<1>13. DeadOK' /\ WaitReturnsOwnChild'
  BY <1>inv, <1>1, <1>3, Zenon DEF StTypes, DeadOK, WaitReturnsOwnChild
<1>14. JoinOK'
  BY <1>inv, <1>3, Zenon DEF StTypes, JoinOK, ExitAssertionsHold
<1> QED
  BY <1>8, <1>9, <1>10, <1>11, <1>12, <1>13, <1>14, Zenon DEF IInv

\* A step that leaves the processes and their threads as they are
LEMMA ProcFrame ==
  ASSUME IInv, UNCHANGED <<proc, threads, master, pstatus>>,
         \A u \in Thread : /\ st[u] \in Alive <=> st'[u] \in Alive
                           /\ st[u] = "dormant" => st'[u] = "dormant"
  PROVE  ProcOK'
<1>1. \A u \in Thread : proc[u] # Null <=> st'[u] \in Alive
  BY Parts, Zenon DEF ProcOK
<1>2. ASSUME NEW q \in Proc, pstatus[q] = "dormant"
      PROVE  Sole(threads[q], master[q]) /\ st'[master[q]] = "dormant"
  BY <1>2, DormantMaster, Zenon
<1> QED
  BY Parts, <1>1, <1>2, Zenon DEF ProcOK

\* A step of a thread that leaves the family, the process and the queues as
\* they are, and after which a thread is alive, started, dormant, asleep in
\* thr_exit or dead as it was before.
SameStanding(u) ==
  /\ st[u] \in Alive <=> st'[u] \in Alive
  /\ st[u] \in Active <=> st'[u] \in Active
  /\ \A s \in {"dormant", "zombie", "dead"} : st[u] = s <=> st'[u] = s

LEMMA SameStandingIInv ==
  ASSUME IInv, TypeOK', \A u \in Thread : SameStanding(u),
         UNCHANGED <<proc, threads, master, pstatus, children, ptid, joinable, kids, exitw, dead, reaper>>
  PROVE  /\ ProcOK' /\ FamilyOK' /\ DeadOK'
         /\ (\A p \in Thread : st'[p] = "waitchild" => Empty(exitw[p])) => ExitOK'
<1>inv. StTypes /\ ProcTypes /\ QueueTypes /\ ProcOK /\ FamilyOK /\ ExitOK /\ SendOK /\ DeadOK /\ JoinOK
  BY Parts, Zenon
<1>1. ProcOK'
  BY ProcFrame, Zenon DEF SameStanding
<1>2. FamilyOK'
  BY <1>inv, Zenon DEF FamilyOK, SameStanding
<1>3. DeadOK'
  BY <1>inv, Zenon DEF DeadOK, SameStanding
<1>4. ASSUME \A p \in Thread : st'[p] = "waitchild" => Empty(exitw[p])
      PROVE  ExitOK'
  BY <1>inv, <1>4 DEF ExitOK, SameStanding
<1> QED
  BY <1>1, <1>2, <1>3, <1>4, Zenon

\* lpc_send
LEMMA SendIInv ==
  ASSUME IInv, NEW t \in Thread, NEW d \in Thread, Send(t, d)
  PROVE  IInv'
<1>inv. StTypes /\ ProcTypes /\ QueueTypes /\ ProcOK /\ FamilyOK /\ ExitOK /\ SendOK /\ DeadOK /\ JoinOK
  BY Parts
<1>1. /\ st[t] = "run" /\ st[d] \in Alive
      /\ st' = [st EXCEPT ![t] = "sending"]
      /\ sendto' = [sendto EXCEPT ![t] = d]
      /\ ret' = Null
      /\ UNCHANGED <<ptid, joinable, children, exitw, wcall, dead, reaper, kids, halted>>
      /\ UNCHANGED <<proc, threads, master, pstatus>>
  <2>1. Find(d) = d /\ d # Null
    BY LifeAssumption DEF Send
  <2>2. st[d] \in Alive
    BY <1>inv, <2>1, Zenon DEF StTypes, Find, Alive
  <2> QED
    BY <2>2 DEF Send, procVars
<1>2. TypeOK'
  BY <1>1, Zenon DEF IInv, TypeOK, State
<1>3. \A u \in Thread : SameStanding(u)
  BY <1>inv, <1>1, Zenon DEF StTypes, SameStanding, Alive, Active, State
<1>4. \A p \in Thread : st'[p] = "waitchild" => Empty(exitw[p])
  BY <1>inv, <1>1 DEF StTypes, QueueTypes, ExitOK
<1>5. ProcOK' /\ FamilyOK' /\ DeadOK' /\ ExitOK'
  BY <1>1, <1>2, <1>3, <1>4, SameStandingIInv, Zenon
<1>6. SendOK'
  BY <1>inv, <1>1, <1>3 DEF StTypes, SendOK, SameStanding
<1>7. WaitReturnsOwnChild'
  BY <1>1, Zenon DEF WaitReturnsOwnChild
<1>8. JoinOK'
  BY <1>inv, <1>1 DEF StTypes, JoinOK, ExitAssertionsHold
<1> QED
  BY <1>2, <1>5, <1>6, <1>7, <1>8, Zenon DEF IInv

\* lpc_recv
LEMMA ReceiveIInv ==
  ASSUME IInv, NEW d \in Thread, Receive(d)
  PROVE  IInv'
<1>inv. StTypes /\ ProcTypes /\ QueueTypes /\ ProcOK /\ FamilyOK /\ ExitOK /\ SendOK /\ DeadOK /\ JoinOK
  BY Parts, Zenon
<1>1. PICK t \in Thread :
        /\ sendto[t] = d
        /\ st' = [st EXCEPT ![t] = "run"]
        /\ sendto' = [sendto EXCEPT ![t] = Null]
  BY Zenon DEF Receive
<1>2. /\ ret' = Null
      /\ UNCHANGED <<ptid, joinable, children, exitw, wcall, dead, reaper, kids, halted>>
      /\ UNCHANGED <<proc, threads, master, pstatus>>
  BY DEF Receive, procVars
<1>3. st[t] = "sending"
  BY <1>inv, <1>1, LifeAssumption, Zenon DEF SendOK
<1>4. TypeOK'
  BY <1>1, <1>2, Zenon DEF IInv, TypeOK, State
<1>5. \A u \in Thread : SameStanding(u)
  BY <1>inv, <1>1, <1>3, Zenon DEF StTypes, SameStanding, Alive, Active, State
<1>6. \A p \in Thread : st'[p] = "waitchild" => Empty(exitw[p])
  BY <1>inv, <1>1, Zenon DEF StTypes, QueueTypes, ExitOK
<1>7. ProcOK' /\ FamilyOK' /\ DeadOK' /\ ExitOK'
  BY <1>2, <1>4, <1>5, <1>6, SameStandingIInv, Zenon
<1>8. SendOK'
  BY <1>inv, <1>1, <1>5 DEF StTypes, SendOK, SameStanding
<1>9. WaitReturnsOwnChild'
  BY <1>2, Zenon DEF WaitReturnsOwnChild
<1>10. JoinOK'
  BY <1>inv, <1>1, <1>2, Zenon DEF StTypes, JoinOK, ExitAssertionsHold
<1> QED
  BY <1>4, <1>7, <1>8, <1>9, <1>10 DEF IInv

\* reaper_thread
LEMMA ReaperIInv ==
  ASSUME IInv, ReaperThread
  PROVE  IInv'
<1>inv. StTypes /\ ProcTypes /\ QueueTypes /\ ProcOK /\ FamilyOK /\ ExitOK /\ SendOK /\ DeadOK /\ JoinOK
  BY Parts, Zenon
<1>1. /\ reaper' = "sleep" /\ dead' = << >> /\ ret' = Null
      /\ st' = [t \in Thread |-> IF st[t] = "dead" THEN "none" ELSE st[t]]
      /\ kids' = {k \in kids : k[1] \notin Range(dead) /\ k[2] \notin Range(dead)}
      /\ ptid' = [t \in Thread |-> IF st[t] = "dead" THEN Null ELSE ptid[t]]
      /\ UNCHANGED <<joinable, children, exitw, wcall, sendto, halted>>
      /\ UNCHANGED <<proc, threads, master, pstatus>>
  <2>1. \A t \in Thread : t \in Reap(dead) <=> st[t] = "dead"
    BY <1>inv, Zenon DEF DeadOK, Reap
  <2> QED
    BY <2>1 DEF ReaperThread, procVars, Reap
<1>2. \A p, c \in Thread : <<p, c>> \in kids /\ st[p] # "dead" /\ st[c] # "dead" => <<p, c>> \in kids'
  BY <1>inv, <1>1, Zenon DEF DeadOK
<1>3. TypeOK'
  <2>1. kids' \subseteq Thread \X Thread
    BY <1>1, Zenon DEF IInv, TypeOK
  <2> QED
    BY <1>1, <2>1, SMTT(20) DEF IInv, TypeOK, State
<1>4. ProcOK'
  <2>1. \A u \in Thread : (st[u] \in Alive <=> st'[u] \in Alive) /\ (st[u] = "dormant" => st'[u] = "dormant")
    BY <1>1, Zenon DEF Alive
  <2> QED
    BY <1>1, <2>1, ProcFrame, Zenon
<1>5. FamilyOK'
  BY <1>inv, <1>1, <1>2, Zenon DEF StTypes, FamilyOK, Active
<1>6. ExitOK'
  BY <1>inv, <1>1, <1>2, Zenon DEF StTypes, ExitOK, Alive
<1>7. SendOK'
  BY <1>inv, <1>1, LifeAssumption, Zenon DEF StTypes, SendOK, Alive
<1>8. DeadOK'
  BY <1>1, NoneQueue, Zenon DEF DeadOK
<1>9. WaitReturnsOwnChild'
  BY <1>1, Zenon DEF WaitReturnsOwnChild
<1>10. JoinOK'
  BY <1>inv, <1>1, Zenon DEF StTypes, JoinOK, ExitAssertionsHold
<1> QED
  BY <1>3, <1>4, <1>5, <1>6, <1>7, <1>8, <1>9, <1>10, Zenon DEF IInv

\* A step that changes nothing but the result of the last call, or that stops
\* the kernel elsewhere than in thr_exit
LEMMA FrameIInv ==
  ASSUME IInv, ret' = ret \/ ret' = Null, halted' \in {halted, "fault", "spin"},
         UNCHANGED <<st, ptid, joinable, children, exitw, wcall, sendto>>,
         UNCHANGED <<proc, threads, master, pstatus, dead, reaper, kids>>
  PROVE  IInv'
<1>1. TypeOK'
  BY Zenon DEF IInv, TypeOK
<1>2. ProcOK'
  BY Zenon DEF IInv, ProcOK
<1>3. FamilyOK'
  BY Zenon DEF IInv, FamilyOK
<1>4. ExitOK'
  BY Zenon DEF IInv, ExitOK
<1>5. SendOK' /\ DeadOK'
  BY Zenon DEF IInv, SendOK, DeadOK
<1>6. JoinOK'
  BY Zenon DEF IInv, JoinOK, ExitAssertionsHold
<1>7. WaitReturnsOwnChild'
  BY Zenon DEF IInv, WaitReturnsOwnChild
<1> QED
  BY <1>1, <1>2, <1>3, <1>4, <1>5, <1>6, <1>7, Zenon DEF IInv

-----------------------------------------------------------------------------
\* The loop of thr_wait
LEMMA ThrWaitLoopIInv ==
  ASSUME IInv, NEW t \in Thread, st[t] \in {"run", "woken"},
         NEW c \in [tid : Thread, flag : WaitFlag] \cup {Null}, ThrWaitLoop(t, c),
         UNCHANGED <<ptid, children, sendto, proc, threads, master, pstatus, dead, reaper, kids>>
  PROVE  IInv'
<1>inv. StTypes /\ ProcTypes /\ QueueTypes /\ ProcOK /\ FamilyOK /\ ExitOK /\ SendOK /\ DeadOK /\ JoinOK
  BY Parts, Zenon
<1>1. CASE exitw[t] = << >> /\ ret' = Null
           /\ \E s \in {"run", "waitchild"}, w \in {c, Null} :
                st' = [st EXCEPT ![t] = s] /\ wcall' = [wcall EXCEPT ![t] = w]
           /\ UNCHANGED <<exitw, joinable, halted>>
  <2>1. PICK s \in {"run", "waitchild"}, w \in {c, Null} :
          st' = [st EXCEPT ![t] = s] /\ wcall' = [wcall EXCEPT ![t] = w]
    BY <1>1, Zenon
  <2>2. TypeOK'
    BY <1>1, <2>1 DEF IInv, TypeOK, State
  <2>3. \A u \in Thread : SameStanding(u)
    BY <1>inv, <2>1, Zenon DEF StTypes, SameStanding, Alive, Active, State
  <2>4. \A p \in Thread : st'[p] = "waitchild" => Empty(exitw[p])
    <3>1. Empty(exitw[t])
      BY <1>1, Zenon DEF Empty
    <3>2. \A p \in Thread \ {t} : st'[p] = st[p]
      BY <1>inv, <2>1, Zenon DEF StTypes
    <3> QED
      BY <1>inv, <3>1, <3>2, Zenon DEF ExitOK
  <2>5. ProcOK' /\ FamilyOK' /\ DeadOK' /\ ExitOK'
    BY <1>1, <2>2, <2>3, <2>4, SameStandingIInv, Zenon
  <2>6. SendOK'
    BY <1>inv, <2>1, <2>3, Zenon DEF StTypes, SendOK, SameStanding
  <2>7. WaitReturnsOwnChild'
    BY <1>1, Zenon DEF WaitReturnsOwnChild
  <2>8. JoinOK'
    BY <1>inv, <1>1, <2>1, Zenon DEF StTypes, JoinOK, ExitAssertionsHold
  <2> QED
    BY <2>2, <2>5, <2>6, <2>7, <2>8, Zenon DEF IInv
<1>2. CASE halted' = "spin" /\ ret' = Null /\ UNCHANGED <<st, wcall, exitw, joinable>>
  BY <1>2, FrameIInv, Zenon
<1>3. ASSUME NEW i \in Matching(t, c),
             st' = [st EXCEPT ![t] = "run", ![exitw[t][i]] = "released"],
             wcall' = [wcall EXCEPT ![t] = Null],
             exitw' = [exitw EXCEPT ![t] = ListDel(@, i)],
             joinable' = [joinable EXCEPT ![exitw[t][i]] = FALSE],
             ret' = [thr |-> t, call |-> c, child |-> exitw[t][i]],
             halted' = halted
      PROVE  IInv'
  <2> DEFINE child == exitw[t][i]
  <2>1. i \in DOMAIN exitw[t] /\ (c.flag = "id" => child = c.tid)
    BY <1>3, Zenon DEF Matching
  <2>2. exitw[t] \in Seq(Thread) /\ IsInjective(exitw[t])
    BY <1>inv, Zenon DEF StTypes, QueueTypes, ExitOK
  <2>3. child \in Range(exitw[t]) /\ child \in Thread
    BY <2>1, <2>2, HeadQueue, Zenon DEF Range
  <2> HIDE DEF child
  <2>4. st[child] = "zombie" /\ ptid[child] = t /\ <<t, child>> \in kids /\ child # t
    BY <1>inv, <2>3 DEF ExitOK
  <2>5. /\ st' = [u \in Thread |-> IF u = child THEN "released" ELSE IF u = t THEN "run" ELSE st[u]]
        /\ joinable' = [joinable EXCEPT ![child] = FALSE]
    BY <1>inv, <1>3, <2>3, <2>4, Zenon DEF StTypes, child
  <2>6. /\ exitw'[t] \in Seq(Thread) /\ IsInjective(exitw'[t])
        /\ Range(exitw'[t]) = Range(exitw[t]) \ {child}
        /\ \A u \in Thread \ {t} : exitw'[u] = exitw[u]
    <3>1. exitw'[t] = ListDel(exitw[t], i) /\ \A u \in Thread \ {t} : exitw'[u] = exitw[u]
      BY <1>inv, <1>3 DEF QueueTypes
    <3> QED
      BY <2>1, <2>2, <3>1, RemoveQueue DEF child
  <2>7. TypeOK'
    <3>1. exitw' \in [Thread -> Seq(Thread)]
      BY <1>inv, <1>3, <2>6, Zenon DEF QueueTypes
    <3>2. st' \in [Thread -> State] /\ joinable' \in [Thread -> BOOLEAN]
      BY <1>inv, <2>3, <2>5, Zenon DEF StTypes, State
    <3>3. wcall' \in [Thread -> [tid : Thread, flag : WaitFlag] \cup {Null}]
      BY <1>3 DEF IInv, TypeOK
    <3> QED
      BY <1>3, <3>1, <3>2, <3>3, Zenon DEF IInv, TypeOK
  <2>8. ProcOK'
    <3>1. \A u \in Thread : (st[u] \in Alive <=> st'[u] \in Alive) /\ (st[u] = "dormant" => st'[u] = "dormant")
      BY <2>4, <2>5 DEF Alive, State
    <3> QED
      BY <3>1, ProcFrame, Zenon
  <2>9. FamilyOK'
    BY <1>inv, <2>3, <2>4, <2>5 DEF StTypes, FamilyOK, Active
  <2>10. ExitOK'
    <3>1. \A u \in Thread : st'[u] = "zombie" <=> st[u] = "zombie" /\ u # child
      BY <2>4, <2>5, Zenon
    <3>2. \A u \in Thread : st[u] \in Alive => st'[u] \in Alive
      BY <2>5 DEF Alive, State
    <3>3. \A u \in Thread : u # t => child \notin Range(exitw[u])
      BY <1>inv, <2>3, <2>4, Zenon DEF ExitOK
    <3>4. \A p, u \in Thread : u \in Range(exitw'[p]) <=> u \in Range(exitw[p]) /\ u # child
      BY <2>6, <3>3, Zenon
    <3>5. \A u \in Thread : st'[u] = "zombie" => ptid'[u] \in Thread /\ u \in Range(exitw'[ptid'[u]])
      BY <1>inv, <3>1, <3>4, Zenon DEF ExitOK
    <3>6. \A p, u \in Thread : u \in Range(exitw'[p]) =>
            st'[u] = "zombie" /\ ptid'[u] = p /\ st'[p] \in Alive /\ <<p, u>> \in kids'
      BY <1>inv, <3>1, <3>2, <3>4, Zenon DEF ExitOK
    <3>7. \A p \in Thread : IsInjective(exitw'[p]) /\ (st'[p] = "waitchild" => Empty(exitw'[p]))
      BY <1>inv, <2>5, <2>6, Zenon DEF ExitOK
    <3> QED
      BY <3>5, <3>6, <3>7, Zenon DEF ExitOK
  <2>11. SendOK'
    BY <1>inv, <2>4, <2>5, LifeAssumption, Zenon DEF StTypes, SendOK, Alive, State
  <2>12. DeadOK'
    BY <1>inv, <2>4, <2>5, Zenon DEF DeadOK
  <2>13. WaitReturnsOwnChild'
    <3>1. ret'.thr = t /\ ret'.call = c /\ ret'.child = child
      BY <1>3, Zenon DEF child
    <3> QED
      BY <2>1, <2>3, <2>4, <2>5, <3>1, Zenon DEF WaitReturnsOwnChild
  <2>14. JoinOK'
    BY <1>inv, <1>3, <2>3, <2>5, Zenon DEF StTypes, JoinOK, ExitAssertionsHold
  <2> QED
    BY <2>7, <2>8, <2>9, <2>10, <2>11, <2>12, <2>13, <2>14, Zenon DEF IInv
<1> QED
  BY <1>1, <1>2, <1>3, Zenon DEF ThrWaitLoop

\* thr_wait, as it is called and after each wake-up
LEMMA ThrWaitIInv ==
  ASSUME IInv, NEW t \in Thread,
         ThrWaitResume(t) \/ \E u \in Thread, f \in WaitFlag : ThrWait(t, u, f)
  PROVE  IInv'
<1>inv. StTypes /\ ProcTypes /\ QueueTypes /\ ProcOK /\ FamilyOK /\ ExitOK /\ SendOK /\ DeadOK /\ JoinOK
  BY Parts, Zenon
<1>1. CASE ThrWaitResume(t)
  <2>1. wcall[t] \in [tid : Thread, flag : WaitFlag] \cup {Null}
    BY <1>inv, Zenon DEF IInv, TypeOK
  <2>2. st[t] = "woken" /\ ThrWaitLoop(t, wcall[t])
    BY <1>1, Zenon DEF ThrWaitResume
  <2>3. UNCHANGED <<ptid, children, sendto, proc, threads, master, pstatus, dead, reaper, kids>>
    BY <1>1, Zenon DEF ThrWaitResume, procVars
  <2> QED
    BY <2>1, <2>2, <2>3, ThrWaitLoopIInv, Zenon
<1>2. ASSUME NEW u \in Thread, NEW f \in WaitFlag, ThrWait(t, u, f)
      PROVE  IInv'
  <2>1. UNCHANGED <<ptid, children, sendto, proc, threads, master, pstatus, dead, reaper, kids>>
    BY <1>2, Zenon DEF ThrWait, procVars
  <2>2. CASE halted' \in {halted, "fault"} /\ ret' = Null /\ UNCHANGED <<st, wcall, exitw, joinable>>
    BY <2>1, <2>2, FrameIInv, Zenon
  <2>3. CASE ThrWaitLoop(t, [tid |-> u, flag |-> f])
    <3>1. [tid |-> u, flag |-> f] \in [tid : Thread, flag : WaitFlag] \cup {Null}
      BY Zenon
    <3>2. st[t] = "run"
      BY <1>2 DEF ThrWait
    <3> QED
      BY <2>1, <2>3, <3>1, <3>2, ThrWaitLoopIInv, Zenon
  <2> QED
    BY <1>2, <2>2, <2>3, Zenon DEF ThrWait
<1> QED
  BY <1>1, <1>2, Zenon

\* The last part of thr_exit: the thread is nobody's child and has no
\* children any more, and leaves its process.
LEMMA EnterDeadIInv ==
  ASSUME IInv, NEW t \in Thread, st[t] \in {"run", "released"}, ~joinable[t],
         EnterDead(t, [u \in Thread |-> IF u = t THEN {} ELSE children[u]], Orphans(t)),
         ret' = Null, UNCHANGED <<ptid, wcall, kids, halted>>
  PROVE  IInv'
<1> DEFINE p == proc[t]
           rest == Without(threads[p], t)
           senders == {u \in Thread : sendto[u] = t}
           zombies == Range(exitw[t])
           wakes == senders \cup zombies # {}
<1>inv. StTypes /\ ProcTypes /\ QueueTypes /\ ProcOK /\ FamilyOK /\ ExitOK /\ SendOK /\ DeadOK /\ JoinOK
  BY Parts
<1>1. p \in Proc /\ t \in Range(threads[p]) /\ pstatus[p] = "active"
  BY RunsInProcess, Zenon DEF Alive, State
<1>2. rest \in Seq(Thread) /\ Range(rest) = Range(threads[p]) \ {t} /\ IsInjective(rest)
  <2>1. threads[p] \in Seq(Thread) /\ IsInjective(threads[p])
    BY <1>inv, <1>1 DEF StTypes, ProcTypes, ProcOK
  <2> QED
    BY <1>1, <2>1, WithoutQueue, Zenon
<1>3. /\ st' = [u \in Thread |-> IF u = t THEN (IF wakes THEN "lost" ELSE "dead")
                                 ELSE IF u \in senders THEN "run"
                                 ELSE IF u \in zombies THEN "released" ELSE st[u]]
      /\ joinable' = [u \in Thread |-> IF u \in zombies THEN FALSE
                                       ELSE IF u \in children[t] THEN FALSE ELSE joinable[u]]
      /\ exitw' = [exitw EXCEPT ![t] = << >>]
      /\ children' = [u \in Thread |-> IF u = t THEN {} ELSE children[u]]
      /\ sendto' = [u \in Thread |-> IF u \in senders THEN Null ELSE sendto[u]]
  BY Zenon DEF EnterDead, ReleasedZombies, Orphans
<1>4. /\ threads' = [threads EXCEPT ![p] = rest]
      /\ pstatus' = [pstatus EXCEPT ![p] = IF Empty(rest) THEN "exit" ELSE pstatus[p]]
      /\ master' = [master EXCEPT ![p] = IF master[p] = t /\ ~Empty(rest) THEN Head(rest) ELSE master[p]]
      /\ proc' = [proc EXCEPT ![t] = Null]
      /\ dead' = IF wakes THEN dead ELSE Append(dead, t)
      /\ reaper' = IF wakes THEN reaper ELSE "ready"
  BY Zenon DEF EnterDead, ProcDestroy, MasterAfter, ReaperWoken, ReleasedZombies, Empty
<1>5. /\ \A u \in senders : st[u] = "sending" /\ u # t
      /\ \A u \in zombies : u \in Thread /\ st[u] = "zombie" /\ ptid[u] = t /\ u # t
      /\ \A u \in Thread : st[u] = "zombie" /\ ptid[u] = t => u \in zombies
  <2>1. exitw[t] \in Seq(Thread)
    BY <1>inv, Zenon DEF QueueTypes
  <2>2. \A u \in zombies : u \in Thread
    BY <2>1, HeadQueue, Zenon
  <2>3. \A u \in senders : st[u] = "sending" /\ u # t
    BY <1>inv, LifeAssumption DEF SendOK
  <2>4. \A u \in zombies : st[u] = "zombie" /\ ptid[u] = t /\ u # t
    BY <1>inv, <2>2, Zenon DEF ExitOK
  <2>5. \A u \in Thread : st[u] = "zombie" /\ ptid[u] = t => u \in zombies
    BY <1>inv, Zenon DEF ExitOK
  <2> QED
    BY <2>2, <2>3, <2>4, <2>5, Zenon
<1> HIDE DEF p, rest, senders, zombies, wakes
<1>6. /\ st'[t] \in {"lost", "dead"} /\ (st'[t] = "dead" <=> ~wakes)
      /\ \A u \in Thread \ {t} :
           /\ u \in senders => st[u] = "sending" /\ st'[u] = "run"
           /\ u \in zombies => st[u] = "zombie" /\ st'[u] = "released"
           /\ u \notin senders /\ u \notin zombies => st'[u] = st[u]
  BY <1>3, <1>5, Zenon
<1>7. TypeOK'
  <2>1. threads' \in [Proc -> Seq(Thread)]
    BY <1>inv, <1>1, <1>2, <1>4, Zenon DEF ProcTypes
  <2>2. master' \in [Proc -> Thread \cup {Null}]
    <3>1. Empty(rest) \/ Head(rest) \in Thread
      BY <1>2, HeadQueue, Zenon
    <3> QED
      BY <1>inv, <1>1, <1>4, <3>1, Zenon DEF ProcTypes
  <2>3. dead' \in Seq(Thread)
    BY <1>inv, <1>4, AppendQueue, Zenon DEF QueueTypes
  <2>4. exitw' \in [Thread -> Seq(Thread)] /\ children' \in [Thread -> SUBSET Thread]
    BY <1>inv, <1>3 DEF StTypes, QueueTypes
  <2>5. st' \in [Thread -> State] /\ joinable' \in [Thread -> BOOLEAN] /\ sendto' \in [Thread -> Thread \cup {Null}]
    BY <1>inv, <1>3, Zenon DEF StTypes, State
  <2>6. pstatus' \in [Proc -> {"none", "dormant", "active", "exit"}] /\ proc' \in [Thread -> Proc \cup {Null}]
    BY <1>inv, <1>1, <1>4, Zenon DEF ProcTypes
  <2> QED
    BY <1>4, <2>1, <2>2, <2>3, <2>4, <2>5, <2>6, Zenon DEF IInv, TypeOK
<1>8. ProcOK'
  <2>1. \A u \in Thread : proc'[u] # Null <=> st'[u] \in Alive
    <3>1. /\ \A u \in Thread : proc[u] # Null <=> st[u] \in Alive
          /\ proc'[t] = Null /\ \A u \in Thread \ {t} : proc'[u] = proc[u]
      <4>1. proc \in [Thread -> Proc \cup {Null}] /\ proc' = [proc EXCEPT ![t] = Null]
        BY <1>inv, <1>4, Zenon DEF ProcTypes
      <4>2. proc'[t] = Null /\ \A u \in Thread \ {t} : proc'[u] = proc[u]
        BY <4>1
      <4>3. \A u \in Thread : proc[u] # Null <=> st[u] \in Alive
        BY <1>inv, Zenon DEF ProcOK
      <4> QED
        BY <4>2, <4>3, Zenon
    <3>2. st'[t] \notin Alive
      BY <1>6, Zenon DEF Alive
    <3>3. \A u \in Thread \ {t} : \/ st[u] = st'[u]
                                   \/ (st[u] \in {"sending", "zombie"} /\ st'[u] \in {"run", "released"})
      BY <1>6, Zenon
    <3>4. \A u \in Thread \ {t} : st[u] \in Alive <=> st'[u] \in Alive
      BY <3>3 DEF Alive, State
    <3> QED
      BY <3>1, <3>2, <3>4, Zenon
  <2>2. ASSUME NEW q \in Proc
        PROVE  /\ \A u \in Thread : u \in Range(threads'[q]) <=> proc'[u] = q
               /\ IsInjective(threads'[q])
               /\ pstatus'[q] \in {"none", "exit"} <=> Empty(threads'[q])
               /\ pstatus'[q] = "active" => master'[q] \in Range(threads'[q])
               /\ pstatus'[q] = "dormant" => Sole(threads'[q], master'[q]) /\ st'[master'[q]] = "dormant"
    <3>1. CASE q = p
      <4>1. threads'[q] = rest /\ pstatus'[q] = IF Empty(rest) THEN "exit" ELSE "active"
        BY <1>inv, <1>1, <1>4, <3>1, Zenon DEF ProcTypes
      <4>2. \A u \in Thread : u \in Range(threads'[q]) <=> proc'[u] = q
        BY <1>inv, <1>1, <1>2, <1>4, <3>1, <4>1, LifeAssumption DEF StTypes, ProcTypes, ProcOK
      <4>3. Empty(rest) \/ master'[q] \in Range(rest)
        <5>1. Empty(rest) \/ Head(rest) \in Range(rest)
          BY <1>2, HeadQueue, Zenon
        <5>2. master[p] \in Range(threads[p])
          BY <1>inv, <1>1, Zenon DEF ProcOK
        <5> QED
          BY <1>inv, <1>1, <1>2, <1>4, <3>1, <5>1, <5>2, Zenon DEF ProcTypes
      <4> QED
        BY <1>2, <4>1, <4>2, <4>3, Zenon
    <3>2. CASE q # p
      <4>1. threads'[q] = threads[q] /\ pstatus'[q] = pstatus[q] /\ master'[q] = master[q]
        BY <1>inv, <1>4, <3>2, Zenon DEF ProcTypes
      <4>2. \A u \in Thread : proc'[u] = q <=> proc[u] = q
        BY <1>inv, <1>4, <3>2, LifeAssumption, Zenon DEF ProcTypes, p
      <4>3. pstatus[q] = "dormant" => st'[master[q]] = "dormant"
        BY <1>6, DormantMaster, Zenon
      <4>4. /\ \A u \in Thread : u \in Range(threads[q]) <=> proc[u] = q
            /\ IsInjective(threads[q])
            /\ pstatus[q] \in {"none", "exit"} <=> Empty(threads[q])
            /\ pstatus[q] = "active" => master[q] \in Range(threads[q])
            /\ pstatus[q] = "dormant" => Sole(threads[q], master[q])
        BY <1>inv, Zenon DEF ProcOK
      <4> QED
        BY <4>1, <4>2, <4>3, <4>4, Zenon
    <3> QED
      BY <3>1, <3>2, Zenon
  <2> QED
    BY <2>1, <2>2, Zenon DEF ProcOK
<1>9. FamilyOK'
  <2>1. ASSUME NEW q \in Thread, NEW c \in Thread, c \in children'[q]
        PROVE  /\ c # q /\ ptid'[c] = q /\ joinable'[c] /\ <<q, c>> \in kids'
               /\ st'[q] \in Active /\ st'[c] \in Active
    <3>1. q # t /\ c \in children[q]
      BY <1>3, <2>1, Zenon
    <3>2. /\ c # q /\ ptid[c] = q /\ joinable[c] /\ <<q, c>> \in kids
          /\ st[q] \in Active /\ st[c] \in Active
      BY <1>inv, <3>1 DEF FamilyOK
    <3>3. c # t /\ c \notin zombies /\ q \notin zombies /\ c \notin children[t]
      BY <1>inv, <1>5, <3>1, <3>2, Zenon DEF FamilyOK, Active
    <3>4. st'[q] \in Active /\ st'[c] \in Active
      BY <1>6, <3>1, <3>2, <3>3, Zenon DEF Active
    <3> QED
      BY <1>3, <3>2, <3>3, <3>4, Zenon
  <2>2. ASSUME NEW c \in Thread, st'[c] \in Active, joinable'[c]
        PROVE  ptid'[c] \in Thread /\ c \in children'[ptid'[c]]
    <3>1. c # t /\ c \notin zombies /\ c \notin children[t] /\ joinable[c]
      BY <1>3, <1>6, <2>2, Zenon DEF Active
    <3>2. st[c] \in Active
      BY <1>6, <2>2, <3>1, Zenon DEF Active
    <3>3. ptid[c] \in Thread /\ c \in children[ptid[c]]
      BY <1>inv, <3>1, <3>2, Zenon DEF FamilyOK
    <3> QED
      BY <1>3, <3>1, <3>3, Zenon
  <2> QED
    BY <2>1, <2>2, Zenon DEF FamilyOK
<1>10. ExitOK'
  <2>1. Empty(exitw'[t]) /\ Range(exitw'[t]) = {} /\ IsInjective(exitw'[t]) /\ \A u \in Thread \ {t} : exitw'[u] = exitw[u]
    BY <1>inv, <1>3, NoneQueue, Zenon DEF QueueTypes
  <2>2. \A c \in Thread : st'[c] = "zombie" <=> st[c] = "zombie" /\ c \notin zombies
    BY <1>5, <1>6
  <2>3. \A c \in Thread : st'[c] = "zombie" => ptid'[c] \in Thread /\ c \in Range(exitw'[ptid'[c]])
    BY <1>inv, <1>5, <2>1, <2>2, Zenon DEF ExitOK
  <2>4. \A q \in Thread \ {t} : st[q] \in Alive => st'[q] \in Alive
    BY <1>6, Zenon DEF Alive, State
  <2>5. \A q, c \in Thread : c \in Range(exitw'[q]) =>
          st'[c] = "zombie" /\ ptid'[c] = q /\ st'[q] \in Alive /\ <<q, c>> \in kids'
    <3>1. SUFFICES ASSUME NEW q \in Thread, NEW c \in Thread, c \in Range(exitw'[q])
          PROVE  st'[c] = "zombie" /\ ptid'[c] = q /\ st'[q] \in Alive /\ <<q, c>> \in kids'
      BY Zenon
    <3>2. q # t /\ exitw'[q] = exitw[q]
      BY <2>1, <3>1, Zenon
    <3>3. st[c] = "zombie" /\ ptid[c] = q /\ st[q] \in Alive /\ <<q, c>> \in kids
      BY <1>inv, <3>1, <3>2, Zenon DEF ExitOK
    <3>4. c \notin zombies
      BY <1>5, <3>2, <3>3, Zenon
    <3> QED
      BY <2>2, <2>4, <3>2, <3>3, <3>4, Zenon
  <2>6. \A q \in Thread : st'[q] = "waitchild" => q # t /\ st[q] = "waitchild"
    BY <1>6, Zenon
  <2>7. \A q \in Thread : IsInjective(exitw'[q]) /\ (st'[q] = "waitchild" => Empty(exitw'[q]))
    BY <1>inv, <2>1, <2>6, Zenon DEF ExitOK
  <2> QED
    BY <2>3, <2>5, <2>7, Zenon DEF ExitOK
<1>11. SendOK'
  <2>1. ASSUME NEW u \in Thread, sendto'[u] # Null
        PROVE  st'[u] = "sending" /\ st'[sendto'[u]] \in Alive
    <3>1. u \notin senders /\ sendto'[u] = sendto[u] /\ sendto[u] # Null /\ sendto[u] # t
      BY <1>3, <2>1, Zenon DEF senders
    <3>2. st[u] = "sending" /\ sendto[u] \in Thread /\ st[sendto[u]] \in Alive
      BY <1>inv, <3>1, Zenon DEF StTypes, SendOK
    <3>3. st'[u] = "sending"
      BY <1>6, <3>1, <3>2, Zenon
    <3>4. st'[sendto[u]] \in Alive
      BY <1>6, <3>1, <3>2, Zenon DEF Alive, State
    <3> QED
      BY <3>1, <3>3, <3>4, Zenon
  <2> QED
    BY <2>1, Zenon DEF SendOK
<1>12. DeadOK'
  <2>1. \A u \in Thread \ {t} : st'[u] = "dead" <=> st[u] = "dead"
    BY <1>6, Zenon
  <2>2. t \notin Range(dead)
    BY <1>inv, Zenon DEF DeadOK
  <2>3. CASE wakes
    BY <1>inv, <1>4, <1>6, <2>1, <2>2, <2>3, Zenon DEF DeadOK
  <2>4. CASE ~wakes
    <3>1. Range(dead') = Range(dead) \cup {t} /\ IsInjective(dead')
      <4>1. dead \in Seq(Thread) /\ IsInjective(dead)
        BY <1>inv, Zenon DEF QueueTypes, DeadOK
      <4>a. dead' = Append(dead, t)
        BY <1>4, <2>4
      <4>b. Range(Append(dead, t)) = Range(dead) \cup {t} /\ IsInjective(Append(dead, t))
        BY <2>2, <4>1, AppendQueue
      <4> QED
        BY <4>a, <4>b, Zenon
    <3> QED
      BY <1>inv, <1>4, <1>6, <2>1, <2>4, <3>1, Zenon DEF DeadOK
  <2> QED
    BY <2>3, <2>4, Zenon
<1>13. WaitReturnsOwnChild'
  BY Zenon DEF WaitReturnsOwnChild
<1>14. JoinOK'
  BY <1>inv, <1>3, <1>6, Zenon DEF StTypes, JoinOK, ExitAssertionsHold
<1> QED
  BY <1>7, <1>8, <1>9, <1>10, <1>11, <1>12, <1>13, <1>14, Zenon DEF IInv

\* thr_exit of a thread that waits for its parent
LEMMA ZombieIInv ==
  ASSUME IInv, NEW t \in Thread, ThrExit(t), joinable[t]
  PROVE  IInv'
<1> DEFINE p == ptid[t]
<1>inv. StTypes /\ ProcTypes /\ QueueTypes /\ ProcOK /\ FamilyOK /\ ExitOK /\ SendOK /\ DeadOK /\ JoinOK
  BY Parts, Zenon
<1>1. st[t] = "run"
  BY Zenon DEF ThrExit
<1>2. p \in Thread /\ t \in children[p]
  BY <1>inv, <1>1, Zenon DEF FamilyOK, Active
<1>3. p # t /\ st[p] \in Active /\ <<p, t>> \in kids
  BY <1>inv, <1>2, Zenon DEF FamilyOK
<1>4. Find(ptid[t]) = p /\ p # Null
  BY <1>2, <1>3, LifeAssumption, Zenon DEF Find, Active
<1>5. /\ st' = [u \in Thread |-> IF u = t THEN "zombie"
                                 ELSE IF u = p /\ st[p] = "waitchild" THEN "woken" ELSE st[u]]
      /\ joinable' = [u \in Thread |-> IF u \in children[t] THEN FALSE ELSE joinable[u]]
      /\ children' = [u \in Thread |-> IF u = t THEN {} ELSE IF u = p THEN children[u] \ {t} ELSE children[u]]
      /\ exitw' = [exitw EXCEPT ![p] = Append(@, t)]
      /\ ret' = Null /\ UNCHANGED <<ptid, wcall, kids, halted, sendto, dead, reaper>>
      /\ UNCHANGED <<proc, threads, master, pstatus>>
  <2>1. st' = [WokenParent(p) EXCEPT ![t] = "zombie"]
    BY <1>4 DEF ThrExit
  <2>2. st' = [u \in Thread |-> IF u = t THEN "zombie"
                                ELSE IF u = p /\ st[p] = "waitchild" THEN "woken" ELSE st[u]]
    BY <1>inv, <1>2, <1>3, <2>1, Zenon DEF StTypes, WokenParent
  <2>3. joinable' = Orphans(t) /\ exitw' = [exitw EXCEPT ![p] = Append(@, t)]
    BY <1>4, Zenon DEF ThrExit
  <2>4. children' = [u \in Thread |-> IF u = t THEN {} ELSE IF u = p THEN children[u] \ {t} ELSE children[u]]
    BY <1>4, Zenon DEF ThrExit
  <2>5. ret' = Null /\ UNCHANGED <<ptid, wcall, kids, halted, sendto, procVars, dead, reaper>>
    BY <1>4 DEF ThrExit
  <2> QED
    BY <2>2, <2>3, <2>4, <2>5, Zenon DEF Orphans, procVars
<1> HIDE DEF p
<1>6. t \notin Range(exitw[p])
  BY <1>inv, <1>1, <1>2, Zenon DEF ExitOK
<1>7. /\ exitw'[p] \in Seq(Thread) /\ IsInjective(exitw'[p])
      /\ Range(exitw'[p]) = Range(exitw[p]) \cup {t}
      /\ \A u \in Thread \ {p} : exitw'[u] = exitw[u]
  <2>1. exitw'[p] = Append(exitw[p], t) /\ exitw[p] \in Seq(Thread) /\ IsInjective(exitw[p])
    BY <1>inv, <1>2, <1>5, Zenon DEF QueueTypes, ExitOK
  <2>2. \A u \in Thread \ {p} : exitw'[u] = exitw[u]
    BY <1>inv, <1>5, Zenon DEF QueueTypes
  <2>3. Range(exitw'[p]) = Range(exitw[p]) \cup {t} /\ IsInjective(exitw'[p]) /\ exitw'[p] \in Seq(Thread)
    BY <1>6, <2>1, AppendQueue
  <2> QED
    BY <2>2, <2>3, Zenon
<1>8. TypeOK'
  <2>1. exitw' \in [Thread -> Seq(Thread)]
    BY <1>inv, <1>2, <1>5, <1>7, Zenon DEF QueueTypes
  <2>2. st' \in [Thread -> State]
    BY <1>inv, <1>5 DEF StTypes, State
  <2>3. children' \in [Thread -> SUBSET Thread] /\ joinable' \in [Thread -> BOOLEAN]
    BY <1>inv, <1>5, Zenon DEF StTypes
  <2> QED
    BY <1>5, <2>1, <2>2, <2>3, Zenon DEF IInv, TypeOK
<1>9. /\ st'[t] = "zombie" /\ st'[p] \in Active /\ st'[p] # "waitchild"
      /\ (st[p] = "sending" <=> st'[p] = "sending")
      /\ \A u \in Thread \ {t, p} : st'[u] = st[u]
  BY <1>2, <1>3, <1>5, Zenon DEF Active
<1>10. ProcOK'
  <2>1. \A u \in Thread : (st[u] \in Alive <=> st'[u] \in Alive) /\ (st[u] = "dormant" => st'[u] = "dormant")
    BY <1>1, <1>3, <1>9, Zenon DEF Alive, Active, State
  <2> QED
    BY <1>5, <2>1, ProcFrame, Zenon
<1>11. FamilyOK'
  <2>1. ASSUME NEW q \in Thread, NEW c \in Thread, c \in children'[q]
        PROVE  /\ c # q /\ ptid'[c] = q /\ joinable'[c] /\ <<q, c>> \in kids'
               /\ st'[q] \in Active /\ st'[c] \in Active
    <3>1. q # t /\ c \in children[q] /\ (q = p => c # t)
      BY <1>5, <2>1, Zenon
    <3>2. /\ c # q /\ ptid[c] = q /\ joinable[c] /\ <<q, c>> \in kids
          /\ st[q] \in Active /\ st[c] \in Active
      BY <1>inv, <3>1, Zenon DEF FamilyOK
    <3>3. c # t /\ c \notin children[t]
      BY <1>inv, <3>1, <3>2, Zenon DEF FamilyOK, p
    <3>4. st'[q] \in Active /\ st'[c] \in Active
      BY <1>9, <3>1, <3>2, <3>3, Zenon
    <3> QED
      BY <1>5, <3>2, <3>3, <3>4, Zenon
  <2>2. ASSUME NEW c \in Thread, st'[c] \in Active, joinable'[c]
        PROVE  ptid'[c] \in Thread /\ c \in children'[ptid'[c]]
    <3>1. c # t /\ c \notin children[t] /\ joinable[c]
      BY <1>5, <1>9, <2>2, Zenon DEF Active
    <3>2. st[c] \in Active
      BY <1>3, <1>9, <2>2, <3>1, Zenon
    <3>3. ptid[c] \in Thread /\ c \in children[ptid[c]]
      BY <1>inv, <3>1, <3>2, Zenon DEF FamilyOK
    <3> QED
      BY <1>5, <3>1, <3>3, Zenon
  <2> QED
    BY <2>1, <2>2, Zenon DEF FamilyOK
<1>12. ExitOK'
  <2>1. \A c \in Thread : st'[c] = "zombie" <=> c = t \/ st[c] = "zombie"
    BY <1>3, <1>9, Zenon DEF Active
  <2>2. \A c \in Thread : st'[c] = "zombie" => ptid'[c] \in Thread /\ c \in Range(exitw'[ptid'[c]])
    <3>1. \A c \in Thread : st[c] = "zombie" => ptid[c] \in Thread /\ c \in Range(exitw[ptid[c]])
      BY <1>inv, Zenon DEF ExitOK
    <3>2. \A q \in Thread : Range(exitw[q]) \subseteq Range(exitw'[q])
      BY <1>7, Zenon
    <3>3. ptid'[t] = p /\ ptid' = ptid
      BY <1>5, Zenon DEF p
    <3> QED
      BY <1>2, <1>7, <2>1, <3>1, <3>2, <3>3, Zenon
  <2>3. \A q \in Thread : st[q] \in Alive => st'[q] \in Alive
    BY <1>9 DEF Alive, Active, State
  <2>4. \A q, c \in Thread : c \in Range(exitw'[q]) =>
          st'[c] = "zombie" /\ ptid'[c] = q /\ st'[q] \in Alive /\ <<q, c>> \in kids'
    <3>1. st'[p] \in Alive
      BY <1>9, Zenon DEF Alive, Active, State
    <3>2. \A q, c \in Thread : c \in Range(exitw[q]) =>
            st[c] = "zombie" /\ ptid[c] = q /\ st[q] \in Alive /\ <<q, c>> \in kids
      BY <1>inv, Zenon DEF ExitOK
    <3>3. \A q, c \in Thread : c \in Range(exitw'[q]) => c \in Range(exitw[q]) \/ (q = p /\ c = t)
      BY <1>7, Zenon
    <3>4. ptid[t] = p /\ ptid' = ptid /\ kids' = kids
      BY <1>5, Zenon DEF p
    <3> QED
      BY <1>3, <2>1, <2>3, <3>1, <3>2, <3>3, <3>4
  <2>5. \A q \in Thread : st'[q] = "waitchild" => q # p /\ st[q] = "waitchild"
    BY <1>9, Zenon
  <2>6. \A q \in Thread : IsInjective(exitw'[q]) /\ (st'[q] = "waitchild" => Empty(exitw'[q]))
    BY <1>inv, <1>7, <2>5, Zenon DEF ExitOK
  <2> QED
    BY <2>2, <2>4, <2>6, Zenon DEF ExitOK
<1>13. SendOK'
  <2>1. \A u \in Thread : st[u] \in Alive => st'[u] \in Alive
    BY <1>9 DEF Alive, Active, State
  <2>2. \A u \in Thread : st[u] = "sending" => st'[u] = "sending"
    BY <1>1, <1>9
  <2> QED
    BY <1>inv, <1>5, <2>1, <2>2, Zenon DEF StTypes, SendOK
<1>14. DeadOK'
  BY <1>inv, <1>1, <1>3, <1>5, <1>9, Zenon DEF DeadOK, Active
<1>15. JoinOK' /\ WaitReturnsOwnChild'
  <2>1. \A u \in Thread : st'[u] = "released" => st[u] = "released"
    BY <1>9, Zenon DEF Active
  <2> QED
    BY <1>inv, <1>5, <2>1, Zenon DEF JoinOK, ExitAssertionsHold, WaitReturnsOwnChild
<1> QED
  BY <1>8, <1>10, <1>11, <1>12, <1>13, <1>14, <1>15, Zenon DEF IInv

\* thr_exit
LEMMA ThrExitIInv ==
  ASSUME IInv, NEW t \in Thread, ThrExit(t)
  PROVE  IInv'
<1>inv. StTypes /\ ProcTypes /\ QueueTypes /\ ProcOK /\ FamilyOK /\ ExitOK /\ SendOK /\ DeadOK /\ JoinOK
  BY Parts
<1>1. CASE joinable[t]
  BY <1>1, ZombieIInv, Zenon
<1>2. CASE ~joinable[t]
  <2>1. \A u \in Thread : t \notin children[u]
    BY <1>inv, <1>2, Zenon DEF FamilyOK
  <2> DEFINE ch(p) == [u \in Thread |-> IF u = t THEN {} ELSE IF u = p THEN children[u] \ {t} ELSE children[u]]
  <2>2. \A p : ch(p) = [u \in Thread |-> IF u = t THEN {} ELSE children[u]]
    BY <2>1
  <2>3. EnterDead(t, ch(Find(ptid[t])), Orphans(t))
    BY <1>2, Zenon DEF ThrExit
  <2>4. EnterDead(t, [u \in Thread |-> IF u = t THEN {} ELSE children[u]], Orphans(t))
    BY <2>2, <2>3, Zenon
  <2>5. st[t] = "run" /\ ret' = Null /\ UNCHANGED <<ptid, wcall, kids, halted>>
    BY <1>2, Zenon DEF ThrExit
  <2> QED
    BY <1>2, <2>4, <2>5, EnterDeadIInv, Zenon
<1> QED
  BY <1>1, <1>2, Zenon

\* thr_exit after the wait for the parent
LEMMA ExitResumeIInv ==
  ASSUME IInv, NEW t \in Thread, ExitResume(t)
  PROVE  IInv'
<1>inv. StTypes /\ ProcTypes /\ QueueTypes /\ ProcOK /\ FamilyOK /\ ExitOK /\ SendOK /\ DeadOK /\ JoinOK
  BY Parts, Zenon
<1>1. st[t] = "released" /\ ~joinable[t] /\ ret' = Null
  BY <1>inv DEF ExitResume, JoinOK
<1>2. children[t] = {}
  BY <1>inv, <1>1, Zenon DEF StTypes, FamilyOK, Active
<1>3. children = [u \in Thread |-> IF u = t THEN {} ELSE children[u]]
  BY <1>inv, <1>2, Zenon DEF StTypes
<1>4. joinable = Orphans(t)
  BY <1>inv, <1>2, Zenon DEF StTypes, Orphans
<1>5. EnterDead(t, children, joinable) /\ UNCHANGED <<ptid, wcall, kids, halted>>
  BY <1>1, Zenon DEF ExitResume
<1> QED
  BY <1>1, <1>3, <1>4, <1>5, EnterDeadIInv, Zenon

\* Every step preserves the inductive invariant.
LEMMA NextIInv == IInv /\ [Next]_vars => IInv'
<1> SUFFICES ASSUME IInv, [Next]_vars PROVE IInv'
  BY Zenon
<1>1. CASE UNCHANGED vars
  BY <1>1, FrameIInv DEF vars, procVars
<1> QED
  BY <1>1, ReaperIInv, ProcStartIInv, ProcCreateIInv, ThrExitIInv, ExitResumeIInv, ThrWaitIInv,
     ReceiveIInv, CreateThreadIInv, SendIInv, Zenon DEF Next

LEMMA Invariance == Spec => []IInv
  BY InitIInv, NextIInv, PTL DEF Spec

\* However parents and children exit and wait, for any number of threads and
\* processes, they meet: a thread asleep in thr_exit is in exit_waiters of a
\* parent that is there, a parent asleep in thr_wait has no exited child,
\* thr_wait returns the caller's own child, and the assertions of thr_exit
\* hold.
THEOREM ParentsMeet == Spec => []ParentsMeetChildren
<1>1. IInv => ParentsMeetChildren
  <2> SUFFICES ASSUME IInv PROVE ParentsMeetChildren
    OBVIOUS
  <2>inv. StTypes /\ ProcTypes /\ QueueTypes /\ ProcOK /\ FamilyOK /\ ExitOK /\ SendOK /\ DeadOK /\ JoinOK
    BY Parts, Zenon
  <2>1. \A p \in Thread : st[p] \in Alive => Find(p) = p
    BY LifeAssumption, Zenon DEF Find, Alive
  <2>2. ZombiesHaveParents
    BY <2>inv, <2>1, Zenon DEF ExitOK, ZombiesHaveParents
  <2>3. NoMissedExit
    BY <2>inv, Zenon DEF ExitOK, NoMissedExit, Empty
  <2> QED
    BY <2>2, <2>3, Zenon DEF IInv, JoinOK, ParentsMeetChildren
<1> QED
  BY <1>1, Invariance, PTL

\* A process is destroyed with its last thread and not before, and as long as
\* it is active its master is one of its threads (thr_exit, proc_destroy).
THEOREM ProcessLives == Spec => []ProcessLivesWithThreads
<1>1. IInv => ProcessLivesWithThreads
  <2> SUFFICES ASSUME IInv, NEW p \in Proc
               PROVE  /\ pstatus[p] = "active" => master[p] \in Range(threads[p])
                      /\ \A t \in Range(threads[p]) : proc[t] = p /\ Find(t) = t /\ pstatus[p] # "exit"
                      /\ pstatus[p] \in {"none", "exit"} <=> threads[p] = << >>
    BY Zenon DEF ProcessLivesWithThreads
  <2>inv. StTypes /\ ProcTypes /\ QueueTypes /\ ProcOK /\ FamilyOK /\ ExitOK /\ SendOK /\ DeadOK /\ JoinOK
    BY Parts
  <2>1. ASSUME NEW t \in Range(threads[p])
        PROVE  proc[t] = p /\ Find(t) = t /\ pstatus[p] # "exit"
    <3>1. t \in Thread /\ ~Empty(threads[p])
      BY <2>inv, <2>1, HeadQueue, Zenon DEF ProcTypes
    <3>2. proc[t] = p
      BY <2>inv, <2>1, <3>1, Zenon DEF ProcOK
    <3>3. st[t] \in Alive
      BY <2>inv, <3>1, <3>2, LifeAssumption DEF ProcOK
    <3> QED
      BY <2>inv, <3>1, <3>2, <3>3, LifeAssumption, Zenon DEF ProcOK, Find, Alive
  <2> QED
    BY <2>inv, <2>1, Zenon DEF ProcOK, Empty
<1> QED
  BY <1>1, Invariance, PTL

\* The reaper is awake whenever threads wait for it, each of them waits once,
\* and such a thread has left its process, its parent, its children and the
\* senders that waited for it (_thr_enter_dead, reaper_thread).
THEOREM ReaperKnows == Spec => []ReaperKnowsTheDead
<1>1. IInv => ReaperKnowsTheDead
  <2> SUFFICES ASSUME IInv PROVE ReaperKnowsTheDead
    OBVIOUS
  <2>inv. StTypes /\ ProcTypes /\ QueueTypes /\ ProcOK /\ FamilyOK /\ ExitOK /\ SendOK /\ DeadOK /\ JoinOK
    BY Parts
  <2>1. ASSUME NEW t \in Thread, st[t] = "dead"
        PROVE  /\ t \in Range(dead)
               /\ children[t] = {} /\ exitw[t] = << >> /\ proc[t] = Null
               /\ \A u \in Thread : sendto[u] # t /\ t \notin Range(exitw[u])
    <3>1. children[t] = {}
      BY <2>inv, <2>1, Zenon DEF StTypes, FamilyOK, Active
    <3>2. Range(exitw[t]) = {}
      <4>1. exitw[t] \in Seq(Thread)
        BY <2>inv, Zenon DEF QueueTypes
      <4>2. Range(exitw[t]) \subseteq Thread
        BY <4>1, HeadQueue, Zenon
      <4> QED
        BY <2>inv, <2>1, <4>2, Zenon DEF ExitOK, Alive
    <3>3. Empty(exitw[t])
      BY <2>inv, <3>2, HeadQueue, Zenon DEF QueueTypes
    <3>4. proc[t] = Null
      BY <2>inv, <2>1, Zenon DEF ProcOK, Alive
    <3>5. \A u \in Thread : sendto[u] # t
      BY <2>inv, <2>1, LifeAssumption DEF SendOK, Alive
    <3>6. \A u \in Thread : t \notin Range(exitw[u])
      BY <2>inv, <2>1, Zenon DEF ExitOK
    <3> QED
      BY <2>inv, <2>1, <3>1, <3>3, <3>4, <3>5, <3>6, Zenon DEF DeadOK, Empty
  <2> QED
    BY <2>inv, <2>1, Zenon DEF DeadOK, ReaperKnowsTheDead, Empty
<1> QED
  BY <1>1, Invariance, PTL
=============================================================================
