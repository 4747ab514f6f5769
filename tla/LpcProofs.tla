----------------------------- MODULE LpcProofs -----------------------------
(***************************************************************************)
(* Proofs about module Lpc, for any set of threads: no sender and receiver *)
(* sleep past each other, a time limit hides no message, and the message   *)
(* queues with their synchronisation objects implement Rendezvous.         *)
(***************************************************************************)
EXTENDS Lpc, QueueLemmas

\* A thread in a call has the arguments that lpc_send or lpc_recv let pass.
CallOK ==
  \A t \in Thread : pc[t] # "user" =>
    /\ call[t] \in Call /\ call[t].peer # t
    /\ call[t].rpc => call[t].tmout = "inf"
    /\ pc[t] \in {"send", "sent"} => call[t].peer \in Thread
    /\ pc[t] \in {"send", "recv"} => call[t].tmout # "none"

\* Only the sleeps at wait_reciever and wait_sender have a limit.
TimerOK == \A t \in Thread : timer[t] # "off" => pc[t] \in {"send", "recv"}

\* A receiver is in wait_sender until it is woken by a sender; meanwhile
\* nobody queues at its wait_reciever and no message for it comes.
RecvOK ==
  \A t \in Thread :
    /\ recvWait[t] <=> pc[t] = "recv" /\ reason[t] = "WAIT"
    /\ recvWait[t] => sendWait[t] = {}
    /\ recvWait[t] => \A s \in Range(que[t]) : ~Matches(s, call[t].peer)

\* Who is in wait_reciever of a thread is sending to it.
SendOK ==
  \A s, d \in Thread : s \in sendWait[d] => pc[s] = "send" /\ call[s].peer = d

\* A sender is told of the destruction of a queue only after its owner exited.
GoneOK ==
  \A t \in Thread :
    pc[t] \in {"send", "sent"} /\ reason[t] = "DESTROYED" => call[t].peer \notin alive

\* The inductive invariant
IInv ==
  /\ TypeOK /\ QueuedWhileSenderSleeps
  /\ CallOK /\ TimerOK /\ RecvOK /\ SendOK /\ GoneOK

LEMMA InitIInv == Init => IInv
<1> SUFFICES ASSUME Init PROVE IInv
  OBVIOUS
<1> USE DEF Init
<1>1. TypeOK
  <2>1. que \in [Thread -> Seq(Thread)]
    OBVIOUS
  <2>2. call \in [Thread -> Call \cup {Null}]
    OBVIOUS
  <2>3. asleep \in [Thread -> BOOLEAN] /\ recvWait \in [Thread -> BOOLEAN] /\ halted \in BOOLEAN
    BY Zenon
  <2>4. pc \in [Thread -> Pc]
    BY DEF Pc
  <2> QED
    BY <2>1, <2>2, <2>3, <2>4 DEF TypeOK
<1>2. QueuedWhileSenderSleeps
  BY EmptyQueue DEF QueuedWhileSenderSleeps
<1>3. CallOK /\ TimerOK /\ SendOK /\ GoneOK
  BY DEF CallOK, TimerOK, SendOK, GoneOK
<1>4. RecvOK
  BY EmptyQueue DEF RecvOK
<1> QED
  BY <1>1, <1>2, <1>3, <1>4, Zenon DEF IInv

\* What the steps of lpc_send are asked to do by their callers
Sending(t, c) ==
  /\ c \in Call /\ c.peer \in Thread /\ c.peer # t
  /\ c.rpc => c.tmout = "inf"
  /\ pc[t] \in {"user", "send"}

\* A message is queued and its receiver woken.
LEMMA DeliverIInv ==
  ASSUME IInv, NEW t \in Thread, NEW c, Sending(t, c), recvWait[c.peer], Deliver(t, c)
  PROVE  IInv'
<1> DEFINE d == c.peer
<1>0. /\ d \in Thread /\ d # t /\ c \in Call
      /\ pc[t] \in {"user", "send"} /\ pc[d] = "recv" /\ reason[d] = "WAIT"
      /\ c.rpc => c.tmout = "inf"
      /\ que \in [Thread -> Seq(Thread)] /\ que[d] \in Seq(Thread)
  BY DEF IInv, TypeOK, RecvOK, Sending
<1>1. /\ que' = [que EXCEPT ![d] = Append(que[d], t)]
      /\ recvWait' = [recvWait EXCEPT ![d] = FALSE]
      /\ reason' = [u \in Thread |-> IF u = t THEN "WAIT" ELSE IF u = d THEN "RELEASED" ELSE reason[u]]
      /\ asleep' = [u \in Thread |-> IF u = t THEN TRUE ELSE IF u = d THEN FALSE ELSE asleep[u]]
      /\ timer' = [timer EXCEPT ![t] = "off"]
      /\ sendWait' = [e \in Thread |-> sendWait[e] \ {t}]
      /\ pc' = [pc EXCEPT ![t] = "sent"]
      /\ call' = [call EXCEPT ![t] = c]
      /\ alive' = alive /\ halted' = halted
  BY <1>0, Zenon DEF IInv, TypeOK, Deliver, WakeReasons, Awake, SendWaitWithout
<1>2. t \notin Range(que[d])
  BY <1>0 DEF IInv, QueuedWhileSenderSleeps
<1>3. /\ Append(que[d], t) \in Seq(Thread) 
      /\ Range(Append(que[d], t)) = Range(que[d]) \cup {t}
      /\ IsInjective(Append(que[d], t))
  BY <1>0, <1>2, AppendQueue DEF IInv, QueuedWhileSenderSleeps
<1>4. TypeOK'
  BY <1>0, <1>1, <1>3, Zenon DEF IInv, TypeOK, Pc
<1>5. QueuedWhileSenderSleeps'
  <2>1. SUFFICES ASSUME NEW s \in Thread, NEW r \in Thread
                 PROVE  /\ (s \in Range(que[r]) <=> pc[s] = "sent" /\ call[s].peer = r /\ reason[s] = "WAIT")'
                        /\ IsInjective(que'[r])
                        /\ s \in Range(que'[r]) => asleep'[s]
    BY DEF QueuedWhileSenderSleeps
  <2>2. /\ s \in Range(que[r]) <=> pc[s] = "sent" /\ call[s].peer = r /\ reason[s] = "WAIT"
        /\ IsInjective(que[r])
        /\ s \in Range(que[r]) => asleep[s]
    BY DEF IInv, QueuedWhileSenderSleeps
  <2>3. que'[r] = IF r = d THEN Append(que[d], t) ELSE que[r]
    BY <1>0, <1>1
  <2>4. s \in Range(que'[r]) <=> s \in Range(que[r]) \/ (s = t /\ r = d)
    BY <1>3, <2>3
  <2>5. IsInjective(que'[r])
    BY <1>3, <2>2, <2>3, Zenon
  <2>6. (s \in Range(que[r]) <=> pc[s] = "sent" /\ call[s].peer = r /\ reason[s] = "WAIT")'
    BY <1>0, <1>1, <2>2, <2>4, Zenon DEF IInv, TypeOK
  <2>7. s \in Range(que'[r]) => asleep'[s]
    BY <1>0, <1>1, <2>2, <2>4, Zenon
  <2> QED
    BY <2>5, <2>6, <2>7
<1>6. CallOK'
  BY <1>0, <1>1, Zenon DEF IInv, TypeOK, CallOK
<1>7. TimerOK'
  BY <1>0, <1>1, Zenon DEF IInv, TypeOK, TimerOK
<1>8. RecvOK'
  BY <1>0, <1>1, <1>3 DEF IInv, TypeOK, RecvOK
<1>9. SendOK'
  BY <1>0, <1>1 DEF IInv, TypeOK, SendOK
<1>10. GoneOK'
  BY <1>0, <1>1, Zenon DEF IInv, TypeOK, GoneOK
<1> QED
  BY <1>4, <1>5, <1>6, <1>7, <1>8, <1>9, <1>10, Zenon DEF IInv

\* A step that queues no message and takes none keeps the queues right if the
\* senders of the queued messages sleep on.
LEMMA QueuesStay ==
  ASSUME IInv, que' = que,
         \A s \in Thread : pc[s] = "sent" /\ reason[s] = "WAIT" =>
           pc'[s] = "sent" /\ reason'[s] = "WAIT" /\ call'[s] = call[s] /\ (asleep[s] => asleep'[s]),
         \A s \in Thread : pc'[s] = "sent" /\ reason'[s] = "WAIT" =>
           pc[s] = "sent" /\ reason[s] = "WAIT"
  PROVE  QueuedWhileSenderSleeps'
<1>1. SUFFICES ASSUME NEW s \in Thread, NEW r \in Thread
               PROVE  /\ (s \in Range(que[r]) <=> pc[s] = "sent" /\ call[s].peer = r /\ reason[s] = "WAIT")'
                      /\ IsInjective(que'[r])
                      /\ s \in Range(que'[r]) => asleep'[s]
  BY DEF QueuedWhileSenderSleeps
<1>2. /\ s \in Range(que[r]) <=> pc[s] = "sent" /\ call[s].peer = r /\ reason[s] = "WAIT"
      /\ IsInjective(que[r])
      /\ s \in Range(que[r]) => asleep[s]
  BY DEF IInv, QueuedWhileSenderSleeps
<1> QED
  BY <1>2

\* lpc_send gives up.
LEMMA SendFailsIInv ==
  ASSUME IInv, NEW t \in Thread, NEW c, NEW rc, pc[t] \in {"user", "send"}, SendFails(t, c, rc)
  PROVE  IInv'
<1>1. /\ pc' = [pc EXCEPT ![t] = "user"]
      /\ call' = [call EXCEPT ![t] = Null]
      /\ sendWait' = [d \in Thread |-> sendWait[d] \ {t}]
      /\ timer' = [timer EXCEPT ![t] = "off"]
      /\ reason' = [reason EXCEPT ![t] = "WAIT"]
      /\ alive' = alive /\ asleep' = asleep /\ que' = que /\ recvWait' = recvWait /\ halted' = halted
  BY DEF SendFails, SendWaitWithout
<1>2. TypeOK'
  BY <1>1, Zenon DEF IInv, TypeOK, Pc
<1>3. QueuedWhileSenderSleeps'
  BY <1>1, QueuesStay, Zenon DEF IInv, TypeOK
<1>4. CallOK' /\ TimerOK'
  BY <1>1 DEF IInv, TypeOK, CallOK, TimerOK
<1>5. RecvOK'
  BY <1>1 DEF IInv, TypeOK, RecvOK
<1>6. SendOK' /\ GoneOK'
  BY <1>1 DEF IInv, TypeOK, SendOK, GoneOK
<1> QED
  BY <1>2, <1>3, <1>4, <1>5, <1>6, Zenon DEF IInv

\* The sender sleeps until the receiver comes.
LEMMA SendSleepsIInv ==
  ASSUME IInv, NEW t \in Thread, NEW c, Sending(t, c), c.tmout # "none", ~recvWait[c.peer],
         SendSleeps(t, c)
  PROVE  IInv'
<1> DEFINE d == c.peer
<1>0. /\ d \in Thread /\ d # t /\ c \in Call
      /\ pc[t] \in {"user", "send"}
      /\ c.rpc => c.tmout = "inf"
  BY DEF Sending
<1>1. /\ sendWait' = [e \in Thread |-> IF e = d THEN (sendWait[e] \ {t}) \cup {t} ELSE sendWait[e] \ {t}]
      /\ reason' = [reason EXCEPT ![t] = "WAIT"]
      /\ timer' = [timer EXCEPT ![t] = IF c.tmout = "ms" THEN "on" ELSE "off"]
      /\ asleep' = [asleep EXCEPT ![t] = TRUE]
      /\ pc' = [pc EXCEPT ![t] = "send"]
      /\ call' = [call EXCEPT ![t] = c]
      /\ alive' = alive /\ que' = que /\ recvWait' = recvWait /\ halted' = halted
  BY <1>0, Zenon DEF SendSleeps, SendWaitWithout
<1>2. TypeOK'
  BY <1>0, <1>1, Zenon DEF IInv, TypeOK, Pc
<1>3. QueuedWhileSenderSleeps'
  BY <1>0, <1>1, QueuesStay, Zenon DEF IInv, TypeOK
<1>4. CallOK' /\ TimerOK'
  BY <1>0, <1>1 DEF IInv, TypeOK, CallOK, TimerOK
<1>5. RecvOK'
  BY <1>0, <1>1 DEF IInv, TypeOK, RecvOK
<1>6. SendOK' /\ GoneOK'
  BY <1>0, <1>1 DEF IInv, TypeOK, SendOK, GoneOK
<1> QED
  BY <1>2, <1>3, <1>4, <1>5, <1>6, Zenon DEF IInv

\* What the steps of lpc_recv are asked to do by their callers
Receiving(t, c) ==
  /\ c \in Call /\ c.peer # t /\ (c.rpc => c.tmout = "inf")
  /\ pc[t] \in {"user", "recv"} \/ (pc[t] = "sent" /\ reason[t] = "RELEASED")

\* The receiver sleeps until a sender comes.
LEMMA ReceiveSleepsIInv ==
  ASSUME IInv, NEW t \in Thread, NEW c, Receiving(t, c), c.tmout # "none",
         \A s \in Range(que[t]) : ~Matches(s, c.peer), ReceiveSleeps(t, c)
  PROVE  IInv'
<1>0. /\ c \in Call /\ c.peer # t /\ (c.rpc => c.tmout = "inf")
      /\ pc[t] \in {"user", "recv"} \/ (pc[t] = "sent" /\ reason[t] = "RELEASED")
      /\ \A s \in sendWait[t] : s \in Thread /\ pc[s] = "send" /\ call[s].peer = t
  BY DEF Receiving, IInv, SendOK, TypeOK
<1>1. /\ asleep' = [u \in Thread |-> IF u = t THEN TRUE ELSE asleep[u] /\ u \notin sendWait[t]]
      /\ reason' = [u \in Thread |-> IF u = t THEN "WAIT" ELSE IF u \in sendWait[t] THEN "RELEASED" ELSE reason[u]]
      /\ sendWait' = [sendWait EXCEPT ![t] = {}]
      /\ recvWait' = [recvWait EXCEPT ![t] = TRUE]
      /\ timer' = [timer EXCEPT ![t] = IF c.tmout = "ms" THEN "on" ELSE "off"]
      /\ pc' = [pc EXCEPT ![t] = "recv"]
      /\ call' = [call EXCEPT ![t] = c]
      /\ alive' = alive /\ que' = que /\ halted' = halted
  BY Zenon DEF ReceiveSleeps, WakeReasons, Awake
<1>2. TypeOK'
  BY <1>0, <1>1, Zenon DEF IInv, TypeOK, Pc
<1>3. QueuedWhileSenderSleeps'
  BY <1>0, <1>1, QueuesStay, Zenon DEF IInv, TypeOK
<1>4. CallOK' /\ TimerOK'
  BY <1>0, <1>1 DEF IInv, TypeOK, CallOK, TimerOK
<1>5. RecvOK'
  BY <1>0, <1>1 DEF IInv, TypeOK, RecvOK
<1>6. SendOK' /\ GoneOK'
  BY <1>0, <1>1 DEF IInv, TypeOK, SendOK, GoneOK
<1> QED
  BY <1>2, <1>3, <1>4, <1>5, <1>6, Zenon DEF IInv

\* lpc_recv returns without a message.
LEMMA ReceiveFailsIInv ==
  ASSUME IInv, NEW t \in Thread, NEW c, pc[t] = "user", ReceiveFails(t, c)
  PROVE  IInv'
<1>0. \A s \in sendWait[t] : s \in Thread /\ pc[s] = "send" /\ call[s].peer = t
  BY Zenon DEF IInv, SendOK, TypeOK
<1>1. /\ asleep' = [u \in Thread |-> asleep[u] /\ u \notin sendWait[t]]
      /\ reason' = [u \in Thread |-> IF u \in sendWait[t] THEN "RELEASED" ELSE reason[u]]
      /\ sendWait' = [sendWait EXCEPT ![t] = {}]
      /\ pc' = pc /\ call' = call /\ recvWait' = recvWait /\ timer' = timer
      /\ alive' = alive /\ que' = que /\ halted' = halted
  BY DEF ReceiveFails, WakeReasons, Awake
<1>2. TypeOK'
  BY <1>0, <1>1, Zenon DEF IInv, TypeOK
<1>3. QueuedWhileSenderSleeps'
  BY <1>0, <1>1, QueuesStay, Zenon DEF IInv, TypeOK
<1>4. CallOK' /\ TimerOK'
  BY <1>0, <1>1, Zenon DEF IInv, TypeOK, CallOK, TimerOK
<1>5. RecvOK'
  BY <1>0, <1>1, Zenon DEF IInv, TypeOK, RecvOK
<1>6. SendOK' /\ GoneOK'
  BY <1>0, <1>1 DEF IInv, TypeOK, SendOK, GoneOK
<1> QED
  BY <1>2, <1>3, <1>4, <1>5, <1>6, Zenon DEF IInv

\* lpc_recv takes a message and its sender is woken.
LEMMA AcceptIInv ==
  ASSUME IInv, NEW t \in Thread, NEW c, Receiving(t, c),
         NEW i \in FirstMatch(que[t], c.peer), Accept(t, c.peer, i)
  PROVE  IInv'
<1> DEFINE s == que[t][i]
<1>0. /\ que[t] \in Seq(Thread) /\ i \in DOMAIN que[t] /\ IsInjective(que[t])
      /\ s \in Thread /\ s \in Range(que[t])
  BY DEF IInv, TypeOK, QueuedWhileSenderSleeps, FirstMatch, Range
<1>1. /\ pc[s] = "sent" /\ call[s].peer = t /\ reason[s] = "WAIT" /\ s # t
      /\ \A u \in sendWait[t] : u \in Thread /\ pc[u] = "send" /\ u # t
      /\ pc[t] \in {"user", "recv"} \/ (pc[t] = "sent" /\ reason[t] = "RELEASED")
  BY <1>0 DEF IInv, TypeOK, QueuedWhileSenderSleeps, CallOK, SendOK, Receiving
<1> DEFINE q == ListDel(que[t], i)
<1>2. q \in Seq(Thread) /\ Range(q) = Range(que[t]) \ {s} /\ IsInjective(q)
  BY <1>0, RemoveQueue
<1> HIDE DEF q, s
<1>3. /\ que' = [que EXCEPT ![t] = q]
      /\ reason' = [u \in Thread |-> IF u = t THEN "WAIT"
                                     ELSE IF u \in sendWait[t] \cup {s} THEN "RELEASED" ELSE reason[u]]
      /\ asleep' = [u \in Thread |-> asleep[u] /\ u \notin sendWait[t] \cup {s}]
      /\ sendWait' = [sendWait EXCEPT ![t] = {}]
      /\ recvWait' = [recvWait EXCEPT ![t] = FALSE]
      /\ timer' = [timer EXCEPT ![t] = "off"]
      /\ pc' = [pc EXCEPT ![t] = "user"]
      /\ call' = [call EXCEPT ![t] = Null]
      /\ alive' = alive /\ halted' = halted
  BY Zenon DEF Accept, WakeReasons, Awake, q, s
<1>4. TypeOK'
  BY <1>2, <1>3, Zenon DEF IInv, TypeOK, Pc
<1>5. QueuedWhileSenderSleeps'
  <2>1. SUFFICES ASSUME NEW v \in Thread, NEW r \in Thread
                 PROVE  /\ (v \in Range(que[r]) <=> pc[v] = "sent" /\ call[v].peer = r /\ reason[v] = "WAIT")'
                        /\ IsInjective(que'[r])
                        /\ v \in Range(que'[r]) => asleep'[v]
    BY Zenon DEF QueuedWhileSenderSleeps
  <2>2. /\ v \in Range(que[r]) <=> pc[v] = "sent" /\ call[v].peer = r /\ reason[v] = "WAIT"
        /\ IsInjective(que[r])
        /\ v \in Range(que[r]) => asleep[v]
    BY Zenon DEF IInv, QueuedWhileSenderSleeps
  <2>3. que'[r] = IF r = t THEN q ELSE que[r]
    BY <1>3, Zenon DEF IInv, TypeOK
  <2>4. v \in Range(que'[r]) <=> v \in Range(que[r]) /\ ~(v = s /\ r = t)
    BY <1>2, <2>3, Zenon
  <2>5. IsInjective(que'[r])
    BY <1>2, <2>2, <2>3, Zenon
  <2>6. (v \in Range(que[r]) <=> pc[v] = "sent" /\ call[v].peer = r /\ reason[v] = "WAIT")'
    BY <1>1, <1>3, <2>2, <2>4 DEF IInv, TypeOK
  <2>7. v \in Range(que'[r]) => asleep'[v]
    BY <1>1, <1>3, <2>2, <2>4, Zenon
  <2> QED
    BY <2>5, <2>6, <2>7, Zenon
<1>6. CallOK' /\ TimerOK'
  BY <1>3, Zenon DEF IInv, TypeOK, CallOK, TimerOK
<1>7. RecvOK'
  BY <1>1, <1>2, <1>3 DEF IInv, TypeOK, RecvOK
<1>8. SendOK' /\ GoneOK'
  BY <1>1, <1>3 DEF IInv, TypeOK, SendOK, GoneOK
<1> QED
  BY <1>4, <1>5, <1>6, <1>7, <1>8, Zenon DEF IInv

\* The loop of lpc_send keeps the invariant.
LEMMA SendLoopIInv ==
  ASSUME IInv, NEW t \in Thread, NEW c, Sending(t, c), SendLoop(t, c)
  PROVE  IInv'
<1>1. pc[t] \in {"user", "send"}
  BY Zenon DEF Sending
<1> QED
  BY <1>1, DeliverIInv, SendFailsIInv, SendSleepsIInv DEF SendLoop, ReceiverWaits

\* So does that of lpc_recv; a call that is resumed has a limit or waits for
\* ever, so it does not fail at once.
LEMMA ReceiveLoopIInv ==
  ASSUME IInv, NEW t \in Thread, NEW c, Receiving(t, c),
         pc[t] = "user" \/ c.tmout # "none", ReceiveLoop(t, c)
  PROVE  IInv'
  BY AcceptIInv, ReceiveFailsIInv, ReceiveSleepsIInv, Zenon DEF ReceiveLoop

LEMMA SendIInv ==
  ASSUME IInv, NEW t \in Thread, NEW d \in Thread, NEW tm \in Tmout, NEW rpc \in BOOLEAN,
         Send(t, d, tm, rpc)
  PROVE  IInv'
<1> DEFINE c == [peer |-> d, tmout |-> tm, rpc |-> rpc]
<1>1. Sending(t, c) /\ pc[t] = "user" /\ c.peer = d
  BY LpcAssumption DEF Send, Runs, Sending, Call
<1>2. (\E rc \in {"ENOENT", "ENOMEM"} : SendFails(t, c, rc)) \/ SendLoop(t, c)
  BY DEF Send
<1> HIDE DEF c
<1> QED
  BY <1>1, <1>2, SendFailsIInv, SendLoopIInv

LEMMA SendResumeIInv ==
  ASSUME IInv, NEW t \in Thread, SendResume(t)
  PROVE  IInv'
<1> DEFINE c == call[t]
<1>1. Sending(t, c) /\ pc[t] = "send"
  BY DEF SendResume, Runs, Sending, IInv, CallOK
<1>2. \/ \E rc \in {"ENOENT", "EAGAIN"} : SendFails(t, c, rc)
      \/ halted' = TRUE /\ UNCHANGED <<alive, pc, call, asleep, que, recvWait, sendWait, reason, timer>>
      \/ SendLoop(t, c)
  BY DEF SendResume
<1> HIDE DEF c
<1>3. CASE halted' = TRUE /\ UNCHANGED <<alive, pc, call, asleep, que, recvWait, sendWait, reason, timer>>
  <2>1. TypeOK' /\ CallOK' /\ TimerOK' /\ SendOK' /\ GoneOK'
    BY <1>3, Zenon DEF IInv, TypeOK, CallOK, TimerOK, SendOK, GoneOK
  <2>2. RecvOK'
    BY <1>3 DEF IInv, RecvOK, Matches
  <2> QED
    <3>1. pc' = pc /\ call' = call /\ asleep' = asleep /\ que' = que /\ reason' = reason
      BY <1>3
    <3>2. QueuedWhileSenderSleeps'
      BY <3>1, QueuesStay
    <3> QED
      BY <2>1, <2>2, <3>2 DEF IInv
<1>4. CASE \E rc \in {"ENOENT", "EAGAIN"} : SendFails(t, c, rc)
  BY <1>1, <1>4, SendFailsIInv
<1>5. CASE SendLoop(t, c)
  BY <1>1, <1>5, SendLoopIInv, Zenon
<1> QED
  BY <1>2, <1>3, <1>4, <1>5, Zenon

LEMMA ReceiveIInv ==
  ASSUME IInv, NEW t \in Thread, NEW src \in Thread \cup {AnySrc}, NEW tm \in Tmout,
         Receive(t, src, tm)
  PROVE  IInv'
<1> DEFINE c == [peer |-> src, tmout |-> tm, rpc |-> FALSE]
<1>1. Receiving(t, c) /\ pc[t] = "user" /\ ReceiveLoop(t, c)
  BY LpcAssumption DEF Receive, Runs, Receiving, Call
<1> HIDE DEF c
<1> QED
  BY <1>1, ReceiveLoopIInv, Zenon

LEMMA ReceiveResumeIInv ==
  ASSUME IInv, NEW t \in Thread, ReceiveResume(t)
  PROVE  IInv'
<1>0. pc[t] = "recv"
  BY DEF ReceiveResume, Runs
<1>1. CASE ReceiveLoop(t, call[t])
  <2>1. Receiving(t, call[t]) /\ call[t].tmout # "none"
    BY <1>0 DEF Receiving, IInv, CallOK
  <2> QED
    BY <1>1, <2>1, ReceiveLoopIInv, Zenon
<1>2. CASE /\ Return("recv", t, "EAGAIN")
           /\ recvWait' = [recvWait EXCEPT ![t] = FALSE]
           /\ timer' = [timer EXCEPT ![t] = "off"]
           /\ UNCHANGED <<alive, asleep, que, sendWait, reason, halted>>
  <2>1. pc' = [pc EXCEPT ![t] = "user"] /\ call' = [call EXCEPT ![t] = Null]
    BY <1>2, Zenon DEF Return
  <2>2. TypeOK'
    BY <1>2, <2>1, Zenon DEF IInv, TypeOK, Pc
  <2>3. QueuedWhileSenderSleeps'
    BY <1>0, <1>2, <2>1, QueuesStay, Zenon DEF IInv, TypeOK
  <2>4. CallOK' /\ TimerOK' /\ SendOK' /\ GoneOK'
    BY <1>0, <1>2, <2>1 DEF IInv, TypeOK, CallOK, TimerOK, SendOK, GoneOK
  <2>5. RecvOK'
    BY <1>0, <1>2, <2>1, Zenon DEF IInv, TypeOK, RecvOK
  <2> QED
    BY <2>2, <2>3, <2>4, <2>5, Zenon DEF IInv
<1> QED
  BY <1>1, <1>2, Zenon DEF ReceiveResume

LEMMA SentResumeIInv ==
  ASSUME IInv, NEW t \in Thread, SentResume(t)
  PROVE  IInv'
<1>0. pc[t] = "sent" /\ reason[t] # "WAIT" /\ ~asleep[t]
  BY DEF SentResume, Runs, IInv, CallOK, QueuedWhileSenderSleeps
<1>1. CASE reason[t] = "RELEASED" /\ call[t].rpc /\ ReceiveLoop(t, [call[t] EXCEPT !.rpc = FALSE])
  <2> DEFINE c == [call[t] EXCEPT !.rpc = FALSE]
  <2>1. /\ c \in Call /\ c.peer # t /\ c.rpc = FALSE /\ c.tmout = "inf"
    BY <1>0, <1>1, Zenon DEF IInv, CallOK, Call
  <2> HIDE DEF c
  <2>2. Receiving(t, c)
    BY <1>0, <1>1, <2>1, Zenon DEF Receiving
  <2> QED
    BY <1>1, <2>1, <2>2, ReceiveLoopIInv, Zenon DEF c
<1>2. CASE /\ \E rc \in {"OK", "ENOENT"} : Return("send", t, rc)
           /\ reason' = [reason EXCEPT ![t] = "WAIT"]
           /\ UNCHANGED <<alive, asleep, que, recvWait, sendWait, timer, halted>>
  <2>1. pc' = [pc EXCEPT ![t] = "user"] /\ call' = [call EXCEPT ![t] = Null]
    BY <1>2, Zenon DEF Return
  <2>2. TypeOK'
    BY <1>2, <2>1, Zenon DEF IInv, TypeOK, Pc
  <2>3. QueuedWhileSenderSleeps'
    BY <1>0, <1>2, <2>1, QueuesStay, Zenon DEF IInv, TypeOK
  <2>4. CallOK' /\ TimerOK' /\ SendOK' /\ GoneOK'
    BY <1>0, <1>2, <2>1 DEF IInv, TypeOK, CallOK, TimerOK, SendOK, GoneOK
  <2>5. RecvOK'
    BY <1>0, <1>2, <2>1, Zenon DEF IInv, TypeOK, RecvOK
  <2> QED
    BY <2>2, <2>3, <2>4, <2>5 DEF IInv
<1> QED
  BY <1>1, <1>2 DEF SentResume

LEMMA ExitIInv ==
  ASSUME IInv, NEW t \in Thread, Exit(t)
  PROVE  IInv'
<1> DEFINE waiters == Range(que[t]) \cup sendWait[t]
<1>0. /\ \A u \in waiters : u \in Thread /\ call[u].peer = t /\ pc[u] \in {"send", "sent"} /\ u # t
      /\ pc[t] = "user"
      /\ \A u \in Thread : pc[u] = "sent" /\ reason[u] = "WAIT" /\ u \notin waiters => call[u].peer # t
  BY DEF Exit, Runs, IInv, TypeOK, QueuedWhileSenderSleeps, SendOK, Range
<1> HIDE DEF waiters
<1>1. /\ alive' = alive \ {t}
      /\ reason' = [u \in Thread |-> IF u \in waiters THEN "DESTROYED" ELSE reason[u]]
      /\ asleep' = [u \in Thread |-> asleep[u] /\ u \notin waiters]
      /\ que' = [que EXCEPT ![t] = << >>]
      /\ sendWait' = [sendWait EXCEPT ![t] = {}]
      /\ pc' = pc /\ call' = call /\ recvWait' = recvWait /\ timer' = timer /\ halted' = halted
  BY Zenon DEF Exit, WakeReasons, Awake, waiters
<1>2. TypeOK'
  BY <1>1 DEF IInv, TypeOK
<1>3. QueuedWhileSenderSleeps'
  <2>1. SUFFICES ASSUME NEW v \in Thread, NEW r \in Thread
                 PROVE  /\ (v \in Range(que[r]) <=> pc[v] = "sent" /\ call[v].peer = r /\ reason[v] = "WAIT")'
                        /\ IsInjective(que'[r])
                        /\ v \in Range(que'[r]) => asleep'[v]
    BY Zenon DEF QueuedWhileSenderSleeps
  <2>2. /\ v \in Range(que[r]) <=> pc[v] = "sent" /\ call[v].peer = r /\ reason[v] = "WAIT"
        /\ IsInjective(que[r])
        /\ v \in Range(que[r]) => asleep[v]
    BY Zenon DEF IInv, QueuedWhileSenderSleeps
  <2>3. que'[r] = IF r = t THEN << >> ELSE que[r]
    BY <1>1 DEF IInv, TypeOK
  <2>4. v \in Range(que'[r]) <=> v \in Range(que[r]) /\ r # t
    BY <2>3, EmptyQueue, Zenon
  <2>5. IsInjective(que'[r])
    BY <2>2, <2>3, EmptyQueue, Zenon
  <2>6. (v \in Range(que[r]) <=> pc[v] = "sent" /\ call[v].peer = r /\ reason[v] = "WAIT")'
    BY <1>0, <1>1, <2>2, <2>4 DEF IInv, TypeOK
  <2>7. v \in Range(que'[r]) => asleep'[v]
    BY <1>0, <1>1, <2>2, <2>4, Zenon
  <2> QED
    BY <2>5, <2>6, <2>7, Zenon
<1>4. CallOK' /\ TimerOK'
  BY <1>1 DEF IInv, TypeOK, CallOK, TimerOK
<1>5. RecvOK'
  BY <1>0, <1>1, Zenon DEF IInv, TypeOK, RecvOK
<1>6. SendOK'
  BY <1>0, <1>1 DEF IInv, TypeOK, SendOK
<1>7. GoneOK'
  BY <1>0, <1>1, Zenon DEF IInv, TypeOK, GoneOK
<1> QED
  BY <1>2, <1>3, <1>4, <1>5, <1>6, <1>7, Zenon DEF IInv

LEMMA TimeoutIInv ==
  ASSUME IInv, NEW t \in Thread, Timeout(t)
  PROVE  IInv'
<1>1. /\ timer' = [timer EXCEPT ![t] = "TIMEOUT"]
      /\ asleep' = [u \in Thread |-> asleep[u] /\ u # t]
      /\ UNCHANGED <<alive, pc, call, que, recvWait, sendWait, reason, halted>>
      /\ pc[t] \in {"send", "recv"}
  BY Zenon DEF Timeout, Awake, IInv, TimerOK
<1>2. TypeOK'
  BY <1>1, Zenon DEF IInv, TypeOK
<1>3. QueuedWhileSenderSleeps'
  BY <1>1, QueuesStay, Zenon DEF IInv, TypeOK
<1>4. CallOK' /\ TimerOK' /\ SendOK' /\ GoneOK'
  BY <1>1, Zenon DEF IInv, TypeOK, CallOK, TimerOK, SendOK, GoneOK
<1>5. RecvOK'
  BY <1>1, Zenon DEF IInv, RecvOK, Matches
<1> QED
  BY <1>2, <1>3, <1>4, <1>5 DEF IInv

\* Every step keeps the invariant.
LEMMA NextIInv == IInv /\ [Next]_vars => IInv'
<1> SUFFICES ASSUME IInv, [Next]_vars PROVE IInv'
  BY Zenon
<1>1. CASE UNCHANGED vars
  <2>1. TypeOK' /\ CallOK' /\ TimerOK' /\ SendOK' /\ GoneOK'
    BY <1>1, Zenon DEF IInv, vars, TypeOK, CallOK, TimerOK, SendOK, GoneOK
  <2>2. RecvOK'
    BY <1>1, Zenon DEF IInv, vars, RecvOK, Matches
  <2> QED
    BY <1>1, <2>1, <2>2, QueuesStay, Zenon DEF IInv, vars
<1>2. ASSUME NEW t \in Thread,
             SendResume(t) \/ SentResume(t) \/ ReceiveResume(t) \/ Exit(t) \/ Timeout(t)
      PROVE  IInv'
  BY <1>2, SendResumeIInv, SentResumeIInv, ReceiveResumeIInv, ExitIInv, TimeoutIInv, Zenon
<1>3. ASSUME NEW t \in Thread, NEW tm \in Tmout, NEW d \in Thread, NEW rpc \in BOOLEAN,
             Send(t, d, tm, rpc)
      PROVE  IInv'
  BY <1>3, SendIInv, Zenon
<1>4. ASSUME NEW t \in Thread, NEW tm \in Tmout, NEW src \in Thread \cup {AnySrc},
             Receive(t, src, tm)
      PROVE  IInv'
  BY <1>4, ReceiveIInv
<1> QED
  BY <1>1, <1>2, <1>3, <1>4, Zenon DEF Next

\* The invariant holds in every state of Lpc.
THEOREM Invariance == Spec => []IInv
  BY InitIInv, NextIInv, PTL DEF Spec

\* Message queue, wait_sender, wait_reciever and completions agree: nobody
\* sleeps for a partner that is there or for a message that is gone.
THEOREM WaitsAreNotInVain == Spec => []NobodyWaitsInVain
<1>1. IInv => NobodyWaitsInVain
  BY DEF IInv, NobodyWaitsInVain, NoMissedRendezvous, RecvOK
<1> QED
  BY <1>1, Invariance, PTL

\* lpc_recv reports -EAGAIN after its limit only if it has no message to return.
THEOREM TimeoutsHideNoMessage == Spec => []TimeoutMeansNoMessage
<1>1. IInv => TimeoutMeansNoMessage
  BY Zenon DEF IInv, TypeOK, TimeoutMeansNoMessage, RecvOK, Runs, WakeUpReason
<1> QED
  BY <1>1, Invariance, PTL
-----------------------------------------------------------------------------
\* The initial states are those of Rendezvous.
LEMMA InitAbstract == Init => Abstract!Init
  BY Zenon DEF Init, Abstract!Init, offer, taken, want

\* A queued message is offered and not taken yet.
LEMMA DeliverAbstract ==
  ASSUME IInv, NEW t \in Thread, NEW c, Sending(t, c), recvWait[c.peer], Deliver(t, c)
  PROVE  /\ offer' = [offer EXCEPT ![t] = c.peer] /\ taken' = taken /\ want' = want
         /\ ret' = Null /\ alive' = alive
<1>0. /\ c.peer \in Thread /\ c.peer # t /\ pc[t] \in {"user", "send"} /\ pc[c.peer] = "recv"
  BY DEF IInv, TypeOK, RecvOK, Sending
<1>1. /\ reason' = [u \in Thread |-> IF u = t THEN "WAIT" ELSE IF u = c.peer THEN "RELEASED" ELSE reason[u]]
      /\ pc' = [pc EXCEPT ![t] = "sent"]
      /\ call' = [call EXCEPT ![t] = c]
      /\ ret' = Null /\ alive' = alive
  BY <1>0, Zenon DEF IInv, TypeOK, Deliver, WakeReasons
<1>2. offer' = [offer EXCEPT ![t] = c.peer]
  BY <1>0, <1>1, Zenon DEF offer, IInv, TypeOK
<1>3. taken' = taken
  BY <1>0, <1>1, Zenon DEF taken, IInv, TypeOK
<1>4. want' = want
  BY <1>0, <1>1, Zenon DEF want, IInv, TypeOK
<1> QED
  BY <1>1, <1>2, <1>3, <1>4, Zenon

\* So is a message whose sender waits for the receiver.
LEMMA SendSleepsAbstract ==
  ASSUME IInv, NEW t \in Thread, NEW c, Sending(t, c), SendSleeps(t, c)
  PROVE  /\ offer' = [offer EXCEPT ![t] = c.peer] /\ taken' = taken /\ want' = want
         /\ ret' = Null /\ alive' = alive
<1>1. /\ pc[t] \in {"user", "send"}
      /\ reason' = [reason EXCEPT ![t] = "WAIT"]
      /\ pc' = [pc EXCEPT ![t] = "send"]
      /\ call' = [call EXCEPT ![t] = c]
      /\ ret' = Null /\ alive' = alive
  BY DEF SendSleeps, Sending
<1>2. offer' = [offer EXCEPT ![t] = c.peer]
  BY <1>1, Zenon DEF offer, IInv, TypeOK
<1>3. taken' = taken
  BY <1>1, Zenon DEF taken, IInv, TypeOK
<1>4. want' = want
  BY <1>1, Zenon DEF want, IInv, TypeOK
<1> QED
  BY <1>1, <1>2, <1>3, <1>4, Zenon

\* A send that gives up
LEMMA SendFailsAbstract ==
  ASSUME IInv, NEW t \in Thread, NEW c, NEW rc \in {"EAGAIN", "ENOENT", "ENOMEM", "EFAULT"},
         c.peer \in Thread, pc[t] = "user" \/ (pc[t] = "send" /\ c = call[t]),
         rc = "ENOENT" => c.peer \notin alive, SendFails(t, c, rc)
  PROVE  Abstract!Next
<1>1. /\ reason' = [reason EXCEPT ![t] = "WAIT"]
      /\ pc' = [pc EXCEPT ![t] = "user"]
      /\ call' = [call EXCEPT ![t] = Null]
      /\ ret' = [op |-> "send", thr |-> t, peer |-> c.peer, rc |-> rc] /\ alive' = alive
  BY DEF SendFails
<1>2. offer' = [offer EXCEPT ![t] = Null]
  BY <1>1, Zenon DEF offer, IInv, TypeOK
<1>3. taken' = taken
  BY <1>1, Zenon DEF taken, IInv, TypeOK
<1>4. want' = want
  BY <1>1 DEF want, IInv, TypeOK
<1>5. (offer[t] = Null /\ want[t] = Null) \/ (offer[t] = c.peer /\ ~taken[t])
  BY Zenon DEF offer, taken, want
<1>6. Abstract!SendFails(t, c.peer, rc)
  BY <1>1, <1>2, <1>3, <1>4, <1>5, Zenon DEF Abstract!SendFails, Abstract!InCall, Abstract!Return
<1> QED
  BY <1>6, Zenon DEF Abstract!Next

\* The loop of lpc_send, in a new call and in one that goes on
LEMMA SendLoopAbstract ==
  ASSUME IInv, NEW t \in Thread, NEW c, Sending(t, c), pc[t] = "send" => c = call[t],
         SendLoop(t, c)
  PROVE  Abstract!Next
<1>0. c.peer \in Thread /\ pc[t] \in {"user", "send"}
  BY Zenon DEF Sending
<1>1. CASE \E rc \in {"EFAULT", "EAGAIN"} : SendFails(t, c, rc)
  BY <1>0, <1>1, SendFailsAbstract, Zenon
<1>2. CASE (recvWait[c.peer] /\ Deliver(t, c)) \/ SendSleeps(t, c)
  <2>1. /\ offer' = [offer EXCEPT ![t] = c.peer] /\ taken' = taken /\ want' = want
        /\ ret' = Null /\ alive' = alive
    BY <1>2, DeliverAbstract, SendSleepsAbstract, Zenon
  <2>2. CASE pc[t] = "user"
    <3>1. offer[t] = Null /\ want[t] = Null
      BY <2>2, Zenon DEF offer, want
    <3>2. Abstract!Send(t, c.peer)
      BY <2>1, <3>1, Zenon DEF Abstract!Send, Abstract!InCall
    <3> QED
      BY <1>0, <3>2, Zenon DEF Abstract!Next
  <2>3. CASE pc[t] = "send"
    <3>1. offer' = offer
      BY <2>1, <2>3, Zenon DEF offer
    <3> QED
      BY <2>1, <3>1 DEF Abstract!Next, Abstract!Internal
  <2> QED
    BY <1>0, <2>2, <2>3, Zenon
<1> QED
  BY <1>1, <1>2, Zenon DEF SendLoop, ReceiverWaits

\* A message that lpc_recv takes was offered to its caller and not taken.
LEMMA AcceptAbstract ==
  ASSUME IInv, NEW t \in Thread, NEW c, Receiving(t, c),
         pc[t] # "user" => c.peer = call[t].peer,
         NEW i \in FirstMatch(que[t], c.peer), Accept(t, c.peer, i)
  PROVE  Abstract!Next
<1> DEFINE s == que[t][i]
<1>0. /\ s \in Thread /\ s \in Range(que[t]) /\ (c.peer = AnySrc \/ c.peer = s)
  BY DEF IInv, TypeOK, FirstMatch, Matches, Range
<1>1. /\ pc[s] = "sent" /\ call[s].peer = t /\ reason[s] = "WAIT" /\ s # t
      /\ \A u \in sendWait[t] : u \in Thread /\ pc[u] = "send" /\ u # t
      /\ pc[t] \in {"user", "recv"} \/ (pc[t] = "sent" /\ reason[t] = "RELEASED")
      /\ pc[t] = "sent" => call[t].peer \in Thread
  BY <1>0, SMTT(20) DEF IInv, TypeOK, QueuedWhileSenderSleeps, CallOK, SendOK, Receiving
<1>2. PICK rc \in {"OK", "EFAULT"} : ret' = [op |-> "recv", thr |-> t, peer |-> s, rc |-> rc]
  BY DEF Accept
<1> HIDE DEF s
<1>3. /\ reason' = [u \in Thread |-> IF u = t THEN "WAIT"
                                     ELSE IF u \in sendWait[t] \cup {s} THEN "RELEASED" ELSE reason[u]]
      /\ pc' = [pc EXCEPT ![t] = "user"]
      /\ call' = [call EXCEPT ![t] = Null]
      /\ alive' = alive
  BY Zenon DEF Accept, WakeReasons, s
<1>4. offer' = [offer EXCEPT ![t] = Null]
  BY <1>3, Zenon DEF offer, IInv, TypeOK
<1>5. taken' = [taken EXCEPT ![s] = TRUE, ![t] = FALSE]
  <2>1. ASSUME NEW u \in Thread
        PROVE  (pc'[u] = "sent" /\ reason'[u] = "RELEASED")
                 = (IF u = t THEN FALSE ELSE IF u = s THEN TRUE ELSE (pc[u] = "sent" /\ reason[u] = "RELEASED"))
    BY <1>0, <1>1, <1>3, Zenon DEF IInv, TypeOK
  <2>2. taken' = [u \in Thread |-> IF u = t THEN FALSE ELSE IF u = s THEN TRUE
                                   ELSE (pc[u] = "sent" /\ reason[u] = "RELEASED")]
    BY <2>1, Zenon DEF taken
  <2> QED
    BY <1>0, <1>1, <2>2, Zenon DEF taken
<1>6. want' = [want EXCEPT ![t] = Null]
  BY <1>3, Zenon DEF want, IInv, TypeOK
<1>7. offer[s] = t /\ ~taken[s]
  BY <1>0, <1>1, Zenon DEF offer, taken
<1>8. \/ offer[t] = Null /\ want[t] = Null /\ offer' = offer
      \/ want[t] \in {AnySrc, s} /\ offer' = offer
      \/ offer[t] = s /\ taken[t]
  <2>1. CASE pc[t] = "user"
    BY <1>4, <2>1, Zenon DEF offer, want
  <2>2. CASE pc[t] = "recv"
    BY <1>0, <1>4, <2>2, Zenon DEF offer, want
  <2>3. CASE pc[t] = "sent" /\ reason[t] = "RELEASED"
    BY <1>0, <1>1, <2>3, LpcAssumption, Zenon DEF offer, taken
  <2> QED
    BY <1>1, <2>1, <2>2, <2>3, Zenon
<1>9. Abstract!Take(t, s, rc)
  BY <1>2, <1>3, <1>4, <1>5, <1>6, <1>7, <1>8, Zenon DEF Abstract!Take, Abstract!InCall, Abstract!Return
<1> QED
  BY <1>0, <1>9, Zenon DEF Abstract!Next

\* A receiver that sleeps wants a message; the composite call has got its
\* first half done.
LEMMA ReceiveSleepsAbstract ==
  ASSUME IInv, NEW t \in Thread, NEW c, Receiving(t, c),
         pc[t] # "user" => c.peer = call[t].peer, ReceiveSleeps(t, c)
  PROVE  Abstract!Next
<1>0. /\ c.peer \in Thread \cup {AnySrc}
      /\ pc[t] \in {"user", "recv"} \/ (pc[t] = "sent" /\ reason[t] = "RELEASED")
      /\ \A u \in sendWait[t] : u \in Thread /\ pc[u] = "send" /\ u # t
  BY DEF Receiving, IInv, SendOK, TypeOK, Call
<1>1. /\ reason' = [u \in Thread |-> IF u = t THEN "WAIT" ELSE IF u \in sendWait[t] THEN "RELEASED" ELSE reason[u]]
      /\ pc' = [pc EXCEPT ![t] = "recv"]
      /\ call' = [call EXCEPT ![t] = c]
      /\ alive' = alive /\ ret' = Null
  BY Zenon DEF ReceiveSleeps, WakeReasons
<1>2. offer' = [offer EXCEPT ![t] = Null]
  BY <1>1, Zenon DEF offer, IInv, TypeOK
<1>3. taken' = [taken EXCEPT ![t] = FALSE]
  BY <1>0, <1>1, Zenon DEF taken, IInv, TypeOK
<1>4. want' = [want EXCEPT ![t] = c.peer]
  BY <1>1, Zenon DEF want, IInv, TypeOK
<1>5. CASE pc[t] = "user"
  <2>1. offer[t] = Null /\ want[t] = Null /\ offer' = offer /\ taken' = taken
    BY <1>2, <1>3, <1>5, Zenon DEF offer, want, taken
  <2>2. Abstract!Receive(t, c.peer)
    BY <1>1, <1>4, <2>1, Zenon DEF Abstract!Receive, Abstract!InCall
  <2> QED
    BY <1>0, <2>2 DEF Abstract!Next
<1>6. CASE pc[t] = "recv"
  <2>1. offer' = offer /\ taken' = taken /\ want' = want
    BY <1>2, <1>3, <1>4, <1>6, Zenon DEF offer, want, taken
  <2> QED
    BY <1>1, <2>1, Zenon DEF Abstract!Next, Abstract!Internal
<1>7. CASE pc[t] = "sent" /\ reason[t] = "RELEASED"
  <2>1. taken[t] /\ offer[t] = c.peer
    BY <1>7, Zenon DEF offer, taken
  <2>2. Abstract!SendDoneAwaitReply(t)
    BY <1>1, <1>2, <1>3, <1>4, <2>1, Zenon DEF Abstract!SendDoneAwaitReply
  <2> QED
    BY <2>2, Zenon DEF Abstract!Next
<1> QED
  BY <1>0, <1>5, <1>6, <1>7, Zenon

\* lpc_recv that does not wait
LEMMA ReceiveFailsAbstract ==
  ASSUME IInv, NEW t \in Thread, NEW c, Receiving(t, c), pc[t] = "user", ReceiveFails(t, c)
  PROVE  Abstract!Next
<1>0. /\ c.peer \in Thread \cup {AnySrc}
      /\ \A u \in sendWait[t] : u \in Thread /\ pc[u] = "send" /\ u # t
  BY Zenon DEF Receiving, IInv, SendOK, TypeOK, Call
<1>1. /\ reason' = [u \in Thread |-> IF u \in sendWait[t] THEN "RELEASED" ELSE reason[u]]
      /\ pc' = pc /\ call' = call /\ alive' = alive
      /\ ret' = [op |-> "recv", thr |-> t, peer |-> c.peer, rc |-> "EAGAIN"]
  BY Zenon DEF ReceiveFails, WakeReasons
<1>2. offer' = offer
  BY <1>1, Zenon DEF offer
<1>3. taken' = taken
  BY <1>0, <1>1 DEF taken, IInv, TypeOK
<1>4. want' = [want EXCEPT ![t] = Null] /\ offer[t] = Null /\ want[t] = Null
  BY <1>1, Zenon DEF want, offer
<1>5. Abstract!ReceiveFails(t, c.peer)
  BY <1>1, <1>2, <1>3, <1>4, Zenon DEF Abstract!ReceiveFails, Abstract!InCall, Abstract!Return
<1> QED
  BY <1>0, <1>5, Zenon DEF Abstract!Next

LEMMA ReceiveLoopAbstract ==
  ASSUME IInv, NEW t \in Thread, NEW c, Receiving(t, c),
         pc[t] # "user" => c.peer = call[t].peer /\ c.tmout # "none", ReceiveLoop(t, c)
  PROVE  Abstract!Next
  BY AcceptAbstract, ReceiveSleepsAbstract, ReceiveFailsAbstract, Zenon DEF ReceiveLoop

\* A step that leaves the calls of all threads and the messages as they are
LEMMA InternalAbstract ==
  ASSUME pc' = pc, call' = call, reason' = reason, alive' = alive, ret' = Null
  PROVE  Abstract!Next
<1>1. offer' = offer /\ taken' = taken /\ want' = want
  BY Zenon DEF offer, taken, want
<1> QED
  BY <1>1, Zenon DEF Abstract!Next, Abstract!Internal

LEMMA SendAbstract ==
  ASSUME IInv, NEW t \in Thread, NEW d \in Thread, NEW tm \in Tmout, NEW rpc \in BOOLEAN,
         Send(t, d, tm, rpc)
  PROVE  Abstract!Next
<1> DEFINE c == [peer |-> d, tmout |-> tm, rpc |-> rpc]
<1>1. Sending(t, c) /\ pc[t] = "user" /\ c.peer = d
  BY LpcAssumption DEF Send, Runs, Sending, Call
<1>2. \/ d \notin alive /\ SendFails(t, c, "ENOENT")
      \/ SendFails(t, c, "ENOMEM")
      \/ SendLoop(t, c)
  BY Zenon DEF Send
<1> HIDE DEF c
<1>3. CASE d \notin alive /\ SendFails(t, c, "ENOENT")
  BY <1>1, <1>3, SendFailsAbstract, Zenon
<1>4. CASE SendFails(t, c, "ENOMEM")
  BY <1>1, <1>4, SendFailsAbstract, Zenon
<1>5. CASE SendLoop(t, c)
  BY <1>1, <1>5, SendLoopAbstract, Zenon
<1> QED
  BY <1>2, <1>3, <1>4, <1>5, Zenon

LEMMA SendResumeAbstract ==
  ASSUME IInv, NEW t \in Thread, SendResume(t)
  PROVE  Abstract!Next
<1> DEFINE c == call[t]
<1>1. Sending(t, c) /\ pc[t] = "send" /\ c.peer \in Thread
  BY DEF SendResume, Runs, Sending, IInv, CallOK
<1>2. \/ reason[t] = "DESTROYED" /\ SendFails(t, c, "ENOENT")
      \/ SendFails(t, c, "EAGAIN")
      \/ ret' = Null /\ UNCHANGED <<alive, pc, call, reason>>
      \/ SendLoop(t, c)
  BY Zenon DEF SendResume, WakeUpReason, IInv, TypeOK
<1>3. reason[t] = "DESTROYED" => c.peer \notin alive
  BY <1>1, Zenon DEF IInv, GoneOK
<1> HIDE DEF c
<1>4. CASE reason[t] = "DESTROYED" /\ SendFails(t, c, "ENOENT")
  BY <1>1, <1>3, <1>4, SendFailsAbstract, Zenon DEF c
<1>5. CASE SendFails(t, c, "EAGAIN")
  BY <1>1, <1>5, SendFailsAbstract, Zenon DEF c
<1>6. CASE ret' = Null /\ UNCHANGED <<alive, pc, call, reason>>
  BY <1>6, InternalAbstract, Zenon
<1>7. CASE SendLoop(t, c)
  BY <1>1, <1>7, SendLoopAbstract, Zenon DEF c
<1> QED
  BY <1>2, <1>4, <1>5, <1>6, <1>7, Zenon

LEMMA ReceiveAbstract ==
  ASSUME IInv, NEW t \in Thread, NEW src \in Thread \cup {AnySrc}, NEW tm \in Tmout,
         Receive(t, src, tm)
  PROVE  Abstract!Next
<1> DEFINE c == [peer |-> src, tmout |-> tm, rpc |-> FALSE]
<1>1. Receiving(t, c) /\ pc[t] = "user" /\ ReceiveLoop(t, c)
  BY LpcAssumption DEF Receive, Runs, Receiving, Call
<1> HIDE DEF c
<1> QED
  BY <1>1, ReceiveLoopAbstract, Zenon

LEMMA ReceiveResumeAbstract ==
  ASSUME IInv, NEW t \in Thread, ReceiveResume(t)
  PROVE  Abstract!Next
<1>0. /\ pc[t] = "recv" /\ Receiving(t, call[t]) /\ call[t].tmout # "none"
      /\ call[t].peer \in Thread \cup {AnySrc}
  BY Zenon DEF ReceiveResume, Runs, Receiving, IInv, CallOK, Call
<1>1. CASE ReceiveLoop(t, call[t])
  BY <1>0, <1>1, ReceiveLoopAbstract, Zenon
<1>2. CASE Return("recv", t, "EAGAIN") /\ UNCHANGED <<alive, reason>>
  <2>1. /\ pc' = [pc EXCEPT ![t] = "user"] /\ call' = [call EXCEPT ![t] = Null]
        /\ ret' = [op |-> "recv", thr |-> t, peer |-> call[t].peer, rc |-> "EAGAIN"]
        /\ alive' = alive /\ reason' = reason
    BY <1>2, Zenon DEF Return
  <2>2. offer' = offer
    BY <1>0, <2>1, Zenon DEF offer, IInv, TypeOK
  <2>3. taken' = taken
    BY <1>0, <2>1 DEF taken, IInv, TypeOK
  <2>4. want' = [want EXCEPT ![t] = Null] /\ want[t] = call[t].peer
    BY <1>0, <2>1, Zenon DEF want, IInv, TypeOK
  <2>5. Abstract!ReceiveFails(t, call[t].peer)
    BY <2>1, <2>2, <2>3, <2>4, Zenon DEF Abstract!ReceiveFails, Abstract!InCall, Abstract!Return
  <2> QED
    BY <1>0, <2>5, Zenon DEF Abstract!Next
<1> QED
  BY <1>1, <1>2, Zenon DEF ReceiveResume

LEMMA SentResumeAbstract ==
  ASSUME IInv, NEW t \in Thread, SentResume(t)
  PROVE  Abstract!Next
<1>0. /\ pc[t] = "sent" /\ reason[t] \in {"RELEASED", "DESTROYED"}
      /\ call[t].peer \in Thread /\ call[t] \in Call
  BY DEF SentResume, Runs, IInv, TypeOK, CallOK, QueuedWhileSenderSleeps
<1>1. CASE reason[t] = "RELEASED" /\ call[t].rpc /\ ReceiveLoop(t, [call[t] EXCEPT !.rpc = FALSE])
  <2> DEFINE c == [call[t] EXCEPT !.rpc = FALSE]
  <2>1. /\ c \in Call /\ c.peer # t /\ c.rpc = FALSE /\ c.tmout = "inf" /\ c.peer = call[t].peer
    BY <1>0, <1>1, Zenon DEF IInv, CallOK, Call
  <2> HIDE DEF c
  <2>2. Receiving(t, c)
    BY <1>0, <1>1, <2>1, Zenon DEF Receiving
  <2> QED
    BY <1>1, <2>1, <2>2, ReceiveLoopAbstract, Zenon DEF c
<1>2. CASE /\ Return("send", t, IF reason[t] = "DESTROYED" THEN "ENOENT" ELSE "OK")
           /\ reason' = [reason EXCEPT ![t] = "WAIT"] /\ alive' = alive
  <2>1. /\ pc' = [pc EXCEPT ![t] = "user"] /\ call' = [call EXCEPT ![t] = Null]
        /\ ret' = [op |-> "send", thr |-> t, peer |-> call[t].peer,
                   rc |-> IF reason[t] = "DESTROYED" THEN "ENOENT" ELSE "OK"]
    BY <1>2 DEF Return
  <2>2. offer' = [offer EXCEPT ![t] = Null] /\ offer[t] = call[t].peer
    BY <1>0, <1>2, <2>1, Zenon DEF offer, IInv, TypeOK
  <2>3. taken' = [taken EXCEPT ![t] = FALSE]
    BY <1>0, <1>2, <2>1, Zenon DEF taken, IInv, TypeOK
  <2>4. want' = want
    BY <1>0, <1>2, <2>1, Zenon DEF want, IInv, TypeOK
  <2>5. CASE reason[t] = "RELEASED"
    <3>1. taken[t]
      BY <1>0, <2>5, Zenon DEF taken
    <3>2. Abstract!SendDone(t)
      BY <1>2, <2>1, <2>2, <2>3, <2>4, <2>5, <3>1, Zenon DEF Abstract!SendDone, Abstract!Return
    <3> QED
      BY <3>2 DEF Abstract!Next
  <2>6. CASE reason[t] = "DESTROYED"
    <3>1. ~taken[t] /\ taken' = taken
      BY <2>3, <2>6, Zenon DEF taken
    <3>2. call[t].peer \notin alive
      BY <1>0, <2>6, Zenon DEF IInv, GoneOK
    <3>3. Abstract!SendFails(t, call[t].peer, "ENOENT")
      BY <1>2, <2>1, <2>2, <2>4, <2>6, <3>1, <3>2, Zenon DEF Abstract!SendFails, Abstract!Return
    <3> QED
      BY <1>0, <3>3, Zenon DEF Abstract!Next
  <2> QED
    BY <1>0, <2>5, <2>6, Zenon
<1> QED
  BY <1>1, <1>2, Zenon DEF SentResume

LEMMA ExitAbstract ==
  ASSUME IInv, NEW t \in Thread, Exit(t)
  PROVE  Abstract!Next
<1> DEFINE waiters == Range(que[t]) \cup sendWait[t]
<1>0. /\ pc[t] = "user" /\ t \in alive
      /\ \A u \in waiters : u \in Thread /\ ~(pc[u] = "sent" /\ reason[u] = "RELEASED")
  <2>1. pc[t] = "user" /\ t \in alive
    BY Zenon DEF Exit, Runs
  <2>2. \A u \in Range(que[t]) : u \in Thread /\ reason[u] = "WAIT"
    BY DEF IInv, TypeOK, QueuedWhileSenderSleeps, Range
  <2>3. \A u \in sendWait[t] : u \in Thread /\ pc[u] = "send"
    BY Zenon DEF IInv, TypeOK, SendOK
  <2> QED
    BY <2>1, <2>2, <2>3, Zenon
<1> HIDE DEF waiters
<1>1. /\ alive' = alive \ {t} /\ ret' = Null /\ pc' = pc /\ call' = call
      /\ reason' = [u \in Thread |-> IF u \in waiters THEN "DESTROYED" ELSE reason[u]]
  BY Zenon DEF Exit, WakeReasons, waiters
<1>2. offer' = offer /\ want' = want /\ offer[t] = Null /\ want[t] = Null
  BY <1>0, <1>1, Zenon DEF offer, want
<1>3. taken' = taken
  BY <1>0, <1>1, Zenon DEF taken
<1>4. Abstract!Exit(t)
  BY <1>0, <1>1, <1>2, <1>3, Zenon DEF Abstract!Exit, Abstract!InCall
<1> QED
  BY <1>4, Zenon DEF Abstract!Next

\* Every step of Lpc is one of Rendezvous or invisible in it.
LEMMA NextAbstract == IInv /\ [Next]_vars => [Abstract!Next]_(Abstract!vars)
<1> SUFFICES ASSUME IInv, [Next]_vars PROVE [Abstract!Next]_(Abstract!vars)
  BY Zenon
<1>1. CASE UNCHANGED vars
  BY <1>1, Zenon DEF vars, Abstract!vars, offer, taken, want
<1>2. ASSUME NEW t \in Thread,
             SendResume(t) \/ SentResume(t) \/ ReceiveResume(t) \/ Exit(t)
      PROVE  Abstract!Next
  BY <1>2, SendResumeAbstract, SentResumeAbstract, ReceiveResumeAbstract, ExitAbstract, Zenon
<1>3. ASSUME NEW t \in Thread, Timeout(t) PROVE Abstract!Next
  BY <1>3, InternalAbstract, Zenon DEF Timeout
<1>4. ASSUME NEW t \in Thread, NEW tm \in Tmout, NEW d \in Thread, NEW rpc \in BOOLEAN,
             Send(t, d, tm, rpc)
      PROVE  Abstract!Next
  BY <1>4, SendAbstract, Zenon
<1>5. ASSUME NEW t \in Thread, NEW tm \in Tmout, NEW src \in Thread \cup {AnySrc},
             Receive(t, src, tm)
      PROVE  Abstract!Next
  BY <1>5, ReceiveAbstract
<1> QED
  BY <1>1, <1>2, <1>3, <1>4, <1>5, Zenon DEF Next

\* lpc_send, lpc_recv and lpc_send_and_reply are a rendezvous: a send returns 0
\* only after exactly one lpc_recv of its destination has taken its message,
\* for any number of threads and whatever time limits and exits do.
THEOREM LpcIsRendezvous == Spec => IsRendezvous
  BY InitAbstract, NextAbstract, Invariance, PTL DEF Spec, IsRendezvous, Abstract!Spec
=============================================================================
