----------------------------- MODULE Rendezvous -----------------------------
(***************************************************************************)
(* What local process communication promises its callers (lpc/lpc.c),      *)
(* without queues, sleepers or timers.  A thread offers one message to a   *)
(* partner and waits; a receive takes one message that is being offered to *)
(* its caller; a send returns 0 only after its message has been taken, and *)
(* a message is taken once.                                                *)
(***************************************************************************)
CONSTANTS
  Thread,   \* the endpoints
  AnySrc,      \* LPC_RECV_ANY
  Null      \* no partner, no return

VARIABLES
  alive,  \* the threads that have not exited
  offer,  \* the destination of the send call the thread is in, or Null
  taken,  \* the message of that call has been received
  want,   \* the source of the receive call the thread is in, or Null
  ret     \* the call that returned in the last step: who, from which peer, rc

vars == <<alive, offer, taken, want, ret>>

Init ==
  /\ alive = Thread
  /\ offer = [t \in Thread |-> Null]
  /\ taken = [t \in Thread |-> FALSE]
  /\ want = [t \in Thread |-> Null]
  /\ ret = Null

InCall(t) == offer[t] # Null \/ want[t] # Null

Return(op, t, peer, rc) == ret' = [op |-> op, thr |-> t, peer |-> peer, rc |-> rc]

\* A send call that cannot be answered at once begins.
Send(t, d) ==
  /\ ~InCall(t)
  /\ offer' = [offer EXCEPT ![t] = d]
  /\ ret' = Null
  /\ UNCHANGED <<alive, taken, want>>

\* A send call fails, at once or later.  The partner is reported gone only
\* when it is, and a call never fails once its message was taken.
SendFails(t, d, rc) ==
  /\ ~InCall(t) \/ (offer[t] = d /\ ~taken[t])
  /\ rc = "ENOENT" => d \notin alive
  /\ offer' = [offer EXCEPT ![t] = Null]
  /\ Return("send", t, d, rc)
  /\ UNCHANGED <<alive, taken, want>>

SendDone(t) ==
  /\ taken[t]
  /\ offer' = [offer EXCEPT ![t] = Null]
  /\ taken' = [taken EXCEPT ![t] = FALSE]
  /\ Return("send", t, offer[t], "OK")
  /\ UNCHANGED <<alive, want>>

\* The send half of a composite call is done and its receive half begins.
SendDoneAwaitReply(t) ==
  /\ taken[t]
  /\ want' = [want EXCEPT ![t] = offer[t]]
  /\ offer' = [offer EXCEPT ![t] = Null]
  /\ taken' = [taken EXCEPT ![t] = FALSE]
  /\ ret' = Null
  /\ UNCHANGED alive

\* A receive call that finds no message begins.
Receive(t, src) ==
  /\ ~InCall(t)
  /\ want' = [want EXCEPT ![t] = src]
  /\ ret' = Null
  /\ UNCHANGED <<alive, offer, taken>>

\* r takes the message that s offers to it: in a new call, in the one it is
\* in, or in the second half of a composite call to s.
Take(r, s, rc) ==
  /\ offer[s] = r /\ ~taken[s]
  /\ \/ ~InCall(r) /\ UNCHANGED offer
     \/ want[r] \in {AnySrc, s} /\ UNCHANGED offer
     \/ offer[r] = s /\ taken[r] /\ offer' = [offer EXCEPT ![r] = Null]
  /\ taken' = [taken EXCEPT ![s] = TRUE, ![r] = FALSE]
  /\ want' = [want EXCEPT ![r] = Null]
  /\ Return("recv", r, s, rc)
  /\ UNCHANGED alive

ReceiveFails(t, src) ==
  /\ ~InCall(t) \/ want[t] = src
  /\ want' = [want EXCEPT ![t] = Null]
  /\ Return("recv", t, src, "EAGAIN")
  /\ UNCHANGED <<alive, offer, taken>>

Exit(t) ==
  /\ t \in alive
  /\ ~InCall(t)
  /\ alive' = alive \ {t}
  /\ ret' = Null
  /\ UNCHANGED <<offer, taken, want>>

\* Something that the callers cannot see.
Internal == ret' = Null /\ UNCHANGED <<alive, offer, taken, want>>

Next ==
  \/ Internal
  \/ \E t \in Thread :
       \/ SendDone(t) \/ SendDoneAwaitReply(t) \/ Exit(t)
       \/ \E d \in Thread :
            \/ Send(t, d)
            \/ \E rc \in {"EAGAIN", "ENOENT", "ENOMEM", "EFAULT"} : SendFails(t, d, rc)
            \/ \E rc \in {"OK", "EFAULT"} : Take(t, d, rc)
       \/ \E src \in Thread \cup {AnySrc} : Receive(t, src) \/ ReceiveFails(t, src)

Spec == Init /\ [][Next]_vars
=============================================================================
