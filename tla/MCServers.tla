------------------------------ MODULE MCServers ------------------------------
(* Servers with two user threads, a kernel thread, and small sets of requests. *)
EXTENDS Servers

CONSTANTS u1, u2, k1

\* A message that no library function makes
Other(to) == [to |-> to, req |-> "other", arg |-> "none"]

MCClient == {u1, u2, k1}
MCKThread == {k1}
\* Names, names and console, masks, threads, memory
MCMenu == {
  [first |-> {k1, u1}, async |-> {}, reqs |->
     {RegisterService("empty"), UnregisterService("empty"), LookupService("empty")}],
  [first |-> {k1, u1}, async |-> {}, reqs |->
     {RegisterService("n"), LookupService("n"), LookupService("bad"), Other("name")}],
  [first |-> {u1}, async |-> {u1}, reqs |->
     {DbgWrite("ok"), DbgWrite("bad"), LookupService("empty")}],
  [first |-> {u1}, async |-> {}, reqs |->
     {SetEventMask("fill"), GetEventMask, CreateThread("ok")}],
  [first |-> {u1}, async |-> {u1}, reqs |->
     {SetEventMask("fill"), Sbrk("zero")}],
  [first |-> {u1}, async |-> {}, reqs |->
     {CreateThread("ok"), GetThreadResource(u2), SendEvent(u2)}],
  [first |-> {u1}, async |-> {u1}, reqs |->
     {CreateThread("ok"), SendProcEvent(u1), BcastProcEvent(u2)}],
  [first |-> {u1}, async |-> {}, reqs |->
     {CreateThread("bad"), CreateThread("prio"), Other("proc"), Other("thr"),
      Other("vm")}],
  [first |-> {u1, u2}, async |-> {}, reqs |->
     {Sbrk("zero"), Sbrk("one"), Sbrk("page"), Sbrk("less")}] }
==============================================================================
