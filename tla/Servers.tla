------------------------------ MODULE Servers ------------------------------
(***************************************************************************)
(* The servers of the kernel and their clients: the name service           *)
(* (kern/kname-service.c), the debug console (kern/dbg-console.c), and the *)
(* thread, process and vm servers (kern/thr-server.c, kern/proc-server.c,  *)
(* kern/vm-server.c), called through the user library (lib/) or, by kernel *)
(* threads, through kns_... functions.                                     *)
(*                                                                         *)
(* Messages pass by the abstract rendezvous, which Lpc implements.  A      *)
(* request is [to, req, arg]; an answer adds rc, the result in the message,*)
(* and val.  Error numbers are their names, "OK" is 0.  All user threads   *)
(* belong to one process.                                                  *)
(***************************************************************************)
EXTENDS Integers

CONSTANTS
  Client,     \* thread ids
  KThread,    \* the kernel threads among them
  Menu,       \* situations: the threads at the beginning, those that also send
              \* without waiting for an answer, the requests that are made
  PageLen,    \* PAGE_SIZE
  HeapMax,    \* the pages that the heap can get
  AnySrc, Null

Server == {"name", "console", "thr", "proc", "vm"}

\* The services of each server
Services(s) ==
  CASE s = "name" -> {"reg", "unreg", "lookup"}
    [] s = "console" -> {"print"}
    [] s = "thr" -> {"getmask", "setmask"}
    [] s = "proc" -> {"event", "procevent", "bcast", "create", "rusage"}
    [] s = "vm" -> {"sbrk"}

\* The increments of sbrk
Increment == {"zero", "one", "page", "less"}

\* No message, no request
NoMsg == [to |-> Null, req |-> "none", arg |-> Null]

\* A request to a server is for one of its services, or for none that it has.
IsRequest(r) ==
  /\ r = [to |-> r.to, req |-> r.req, arg |-> r.arg]
  /\ r.to \in Server /\ r.req \in Services(r.to) \cup {"other"}
  /\ r.req = "sbrk" => r.arg \in Increment

ASSUME ServersAssumption ==
  /\ KThread \subseteq Client /\ Client \cap Server = {}
  /\ AnySrc \notin Client \cup Server /\ Null \notin Client \cup Server /\ AnySrc # Null /\ Null \notin Int
  /\ PageLen \in Nat \ {0} /\ HeapMax \in Nat
  /\ \A m \in Menu : m.first \subseteq Client /\ m.async \subseteq Client \ KThread /\ \A r \in m.reqs : IsRequest(r)

VARIABLES
  alive, offer, taken, want, ret,   \* the rendezvous
  body,    \* the message that the thread sends or, a server, works on
  from,    \* of a server: the sender of that message
  call,    \* of a client: the request it has made and waits for
  done,    \* the library function that returned in the last step
  db,      \* service_db
  masks,   \* evque.masks
  heap,    \* the end of the heap
  menu,    \* the situation
  why,     \* "no", or why the kernel has stopped
  bare,    \* history: a request was sent without waiting for its answer
  mute,    \* history: clients whose answer the name service could not send
  held,    \* history: registrations that have been confirmed
  given    \* history: how often sbrk has given an address to somebody

serverVars == <<alive, offer, taken, want, ret, body, from, call, done, db, masks, heap, menu,
                why, bare, mute, held, given>>
lpcVars == <<offer, taken, want, ret>>
stateVars == <<db, masks, heap>>
histVars == <<bare, mute, held, given>>

L == INSTANCE Rendezvous WITH Thread <- Client \cup Server

Kill == "KILL"
Event == {Kill, "USR"}
Rc == {"OK", "ENOENT", "EINVAL", "EBUSY", "EFAULT", "ENOSYS", "ENOMEM", "EPERM"}
User == Client \ KThread

\* The arguments that are not names: masks and increments
MaskOf(arg) == IF arg = "fill" THEN Event ELSE {}
IncOf(arg) == CASE arg = "zero" -> 0 [] arg = "one" -> 1 [] arg = "page" -> PageLen [] arg = "less" -> -PageLen

Registered == [n \in {"VMService"} |-> "vm"]

\* The function f with the value v at x
With(f, x, v) == [y \in DOMAIN f \cup {x} |-> IF y = x THEN v ELSE f[y]]

ServersTypeOK ==
  /\ alive \subseteq Client \cup Server
  /\ \A n \in DOMAIN db : db[n] \in Client \cup Server
  /\ masks \in [Client -> SUBSET (Event \ {Kill})]
  /\ heap \in {PageLen * i : i \in 0 .. HeapMax}
  /\ \A c \in Client : call[c] # NoMsg => c \in alive
  /\ why \in {"no", "namefault", "reply", "kns"}

\* The servers have registered themselves and wait for requests.
ServersInit ==
  /\ menu \in Menu
  /\ alive = menu.first \cup Server
  /\ offer = [t \in Client \cup Server |-> Null]
  /\ taken = [t \in Client \cup Server |-> FALSE]
  /\ want = [t \in Client \cup Server |-> IF t \in Server THEN AnySrc ELSE Null]
  /\ ret = Null
  /\ body = [t \in Client \cup Server |-> NoMsg]
  /\ from = [s \in Server |-> Null]
  /\ call = [c \in Client |-> NoMsg]
  /\ done = Null
  /\ db = Registered
  /\ masks = [c \in Client |-> IF c \in KThread THEN Event \ {Kill} ELSE {}]
  /\ heap = 0
  /\ why = "no" /\ bare = FALSE /\ mute = {} /\ held = << >> /\ given = [a \in 0 .. (HeapMax + 1) * PageLen |-> 0]

Up == why = "no"
-----------------------------------------------------------------------------
(***************************************************************************)
(* The requests that the functions of the user library make.               *)
(***************************************************************************)
RegisterService(n) == [to |-> "name", req |-> "reg", arg |-> n]
UnregisterService(n) == [to |-> "name", req |-> "unreg", arg |-> n]
LookupService(n) == [to |-> "name", req |-> "lookup", arg |-> n]
DbgWrite(buf) == [to |-> "console", req |-> "print", arg |-> buf]
GetEventMask == [to |-> "thr", req |-> "getmask", arg |-> "none"]
SetEventMask(m) == [to |-> "thr", req |-> "setmask", arg |-> m]
SendEvent(d) == [to |-> "proc", req |-> "event", arg |-> d]
SendProcEvent(d) == [to |-> "proc", req |-> "procevent", arg |-> d]
BcastProcEvent(d) == [to |-> "proc", req |-> "bcast", arg |-> d]
CreateThread(how) == [to |-> "proc", req |-> "create", arg |-> how]
GetThreadResource(t) == [to |-> "proc", req |-> "rusage", arg |-> t]
Sbrk(inc) == [to |-> "vm", req |-> "sbrk", arg |-> inc]

(***************************************************************************)
(* Clients: what the library functions make of the two results, that of    *)
(* lpc_send_and_reply and the one in the message.                          *)
(***************************************************************************)
\* The functions of lib/proc-svc.c, lib/thread-svc.c, lib/vm-svc.c and
\* yatos_lookup_service.  If the call itself fails it returns -1, and that
\* becomes the error number.
Stub(lpc, rc) ==
  IF lpc # "OK" THEN [ret |-> "-1", errno |-> "EPERM"]
  ELSE IF rc # "OK" THEN [ret |-> "-1", errno |-> rc]
  ELSE [ret |-> "0", errno |-> "OK"]

\* yatos_register_service, yatos_unregister_service: the result in the message
\* is the error number if the call fails, and not looked at if it does not.
StubRegister(lpc, rc) ==
  IF lpc # "OK" THEN [ret |-> "-1", errno |-> "OK"] ELSE [ret |-> "0", errno |-> "OK"]

\* yatos_dbg_write, yatos_printf
StubWrite(lpc, rc) ==
  IF lpc # "OK" THEN [ret |-> "-1", errno |-> lpc] ELSE [ret |-> "0", errno |-> "OK"]

\* kns_register_kernel_service and the like, after their kassert
StubKernel(rc) == [ret |-> rc, errno |-> "OK"]

StubOf(c, m, lpc, rc) ==
  CASE c \in KThread /\ m.to = "name" -> StubKernel(rc)
    [] c \in User /\ m.req \in {"reg", "unreg"} -> StubRegister(lpc, rc)
    [] m.to = "console" -> StubWrite(lpc, rc)
    [] OTHER -> Stub(lpc, rc)

Returns(c, lpc, m) ==
  done' = [who |-> c, req |-> call[c], lpc |-> lpc, msg |-> m, out |-> StubOf(c, call[c], lpc, m.rc)]

\* A client begins a request: SYS_YATOS_LPC_SEND_AND_REPLY, or without
\* waiting for the answer SYS_YATOS_LPC_SEND.
Request(c, m, waits) ==
  /\ Up /\ c \in alive /\ call[c] = NoMsg
  /\ waits \/ c \in menu.async
  /\ c \in KThread => m.to = "name" /\ m.req # "other"
  /\ L!Send(c, m.to)
  /\ body' = [body EXCEPT ![c] = m]
  /\ call' = [call EXCEPT ![c] = IF waits THEN m ELSE [m EXCEPT !.req = "bare"]]
  /\ bare' = (bare \/ ~waits)
  /\ held' = IF m.req = "unreg" THEN [n \in DOMAIN held \ {m.arg} |-> held[n]] ELSE held
  /\ done' = Null
  /\ UNCHANGED <<alive, from, stateVars, menu, why, mute, given>>

\* lpc_send has no memory for the message.  In the kernel that stops it.
RequestFails(c) ==
  /\ Up /\ c \in Client /\ call[c] # NoMsg /\ offer[c] # Null
  /\ L!SendFails(c, offer[c], "ENOMEM")
  /\ body' = [body EXCEPT ![c] = NoMsg]
  /\ call' = [call EXCEPT ![c] = NoMsg]
  /\ IF c \in KThread THEN why' = "kns" /\ done' = Null
     ELSE Returns(c, "ENOMEM", [to |-> call[c].to, req |-> call[c].req, arg |-> call[c].arg,
                                 rc |-> "OK", val |-> Null])
          /\ UNCHANGED why
  /\ UNCHANGED <<alive, from, stateVars, menu, histVars>>

\* Mutant: the receive half takes the first message, whoever sends it.
ResumeAny(c) ==
  /\ Up /\ c \in Client /\ call[c] # NoMsg /\ taken[c]
  /\ body' = [body EXCEPT ![c] = NoMsg]
  /\ taken' = [taken EXCEPT ![c] = FALSE]
  /\ offer' = [offer EXCEPT ![c] = Null]
  /\ ret' = Null
  /\ IF call[c].req = "bare"
     THEN call' = [call EXCEPT ![c] = NoMsg] /\ UNCHANGED want
     ELSE want' = [want EXCEPT ![c] = AnySrc] /\ UNCHANGED call
  /\ done' = Null
  /\ UNCHANGED <<alive, from, stateVars, menu, why, histVars>>

\* Mutant: the answer is not received.
ResumeSendOnly(c) ==
  /\ Up /\ c \in Client /\ call[c] # NoMsg
  /\ L!SendDone(c)
  /\ body' = [body EXCEPT ![c] = NoMsg]
  /\ call' = [call EXCEPT ![c] = NoMsg]
  /\ done' = Null
  /\ UNCHANGED <<alive, from, stateVars, menu, why, histVars>>

\* The message was taken: lpc_send returns, or lpc_recv from the server begins.
Resume(c) ==
  /\ Up /\ c \in Client /\ call[c] # NoMsg
  /\ body' = [body EXCEPT ![c] = NoMsg]
  /\ IF call[c].req = "bare"
     THEN L!SendDone(c) /\ call' = [call EXCEPT ![c] = NoMsg]
     ELSE L!SendDoneAwaitReply(c) /\ UNCHANGED call
  /\ done' = Null
  /\ UNCHANGED <<alive, from, stateVars, menu, why, histVars>>

\* yatos_lpc_recv( LPC_RECV_ANY, LPC_INFINITE ) by a thread that sent so
Collect(c) ==
  /\ Up /\ c \in menu.async \cap alive /\ call[c] = NoMsg
  /\ L!Receive(c, AnySrc)
  /\ call' = [call EXCEPT ![c] = [to |-> "any", req |-> "recv", arg |-> "none"]]
  /\ done' = Null
  /\ UNCHANGED <<alive, body, from, stateVars, menu, why, histVars>>

\* Unregistrations of the name n that have been begun
Unregistering(n) ==
  \E t \in Client \cup Server : body[t] # NoMsg /\ body[t].req = "unreg" /\ body[t].arg = n

\* The answer arrives and the library function returns.
Answered(c, s) ==
  LET m == body[s]
      confirmed == c \in KThread /\ call[c].req = "reg" /\ m.rc = "OK" /\ ~Unregistering(m.arg)
  IN
  /\ Up /\ c \in Client /\ s \in Server /\ want[c] # Null
  /\ L!Take(c, s, "OK")
  /\ call' = [call EXCEPT ![c] = NoMsg]
  /\ Returns(c, "OK", m)
  /\ held' = IF confirmed THEN With(held, m.arg, c) ELSE held
  /\ UNCHANGED <<alive, body, from, stateVars, menu, why, bare, mute, given>>

\* A thread that waits for nothing exits; its registrations stay.
ClientExits(c) ==
  /\ Up /\ c \in Client /\ call[c] = NoMsg
  /\ L!Exit(c)
  /\ done' = Null
  /\ UNCHANGED <<body, from, call, stateVars, menu, why, histVars>>
-----------------------------------------------------------------------------
(***************************************************************************)
(* Servers.                                                                *)
(***************************************************************************)
\* lpc_recv( LPC_RECV_ANY, LPC_INFINITE )
Listen(s) ==
  /\ Up /\ s \in Server /\ body[s] = NoMsg
  /\ L!Receive(s, AnySrc)
  /\ done' = Null
  /\ UNCHANGED <<alive, body, from, call, stateVars, menu, why, histVars>>

Accept(s, c) ==
  /\ Up /\ s \in Server /\ want[s] = AnySrc
  /\ L!Take(s, c, "OK")
  /\ body' = [body EXCEPT ![s] = body[c]]
  /\ from' = [from EXCEPT ![s] = c]
  /\ done' = Null
  /\ UNCHANGED <<alive, call, stateVars, menu, why, histVars>>

Works(s, req) == Up /\ body[s] # NoMsg /\ "rc" \notin DOMAIN body[s] /\ ~L!InCall(s) /\ body[s].req = req

\* The message with its result; nothing else happens.
Answer(s, rc, val) ==
  /\ body' = [body EXCEPT ![s] = [to |-> @.to, req |-> @.req, arg |-> @.arg, rc |-> rc, val |-> val]]
  /\ done' = Null
  /\ UNCHANGED <<lpcVars, from, call, menu, why, bare, mute, held>>

Plain == UNCHANGED <<alive, stateVars, given>>

\* thr_find_thread_by_tid_nolock(src) finds the sender.
SenderFound(s) == from[s] \in alive

\* The name service and the console forget a request whose sender is gone.
Forget(s) ==
  /\ Up /\ s \in {"name", "console"} /\ body[s] # NoMsg /\ "rc" \notin DOMAIN body[s] /\ ~L!InCall(s)
  /\ ~SenderFound(s)
  /\ body' = [body EXCEPT ![s] = NoMsg]
  /\ done' = Null
  /\ UNCHANGED <<alive, lpcVars, from, call, stateVars, menu, why, histVars>>

\* vm_copy_in of the name by the name service, which runs in the address space
\* of the kernel: a name of a user process cannot be read there, unless it is
\* empty ("empty").
NameReadable == from["name"] \in KThread \/ body["name"].arg = "empty"

NameFault ==
  /\ \E req \in {"reg", "unreg", "lookup", "other"} : Works("name", req)
  /\ SenderFound("name") /\ ~NameReadable
  /\ IF body["name"].arg = "bad"
     THEN Answer("name", "EFAULT", Null) /\ Plain
     ELSE /\ why' = "namefault" /\ done' = Null
          /\ UNCHANGED <<alive, lpcVars, body, from, call, stateVars, menu, histVars>>

\* handle_register_msg; the endpoint is that of the sender.
HandleRegister ==
  LET n == body["name"].arg IN
  /\ Works("name", "reg") /\ SenderFound("name") /\ NameReadable
  /\ \/ Answer("name", "ENOMEM", Null) /\ UNCHANGED db
     \/ n \in DOMAIN db /\ Answer("name", "EBUSY", Null) /\ UNCHANGED db
     \/ /\ n \notin DOMAIN db
        /\ db' = With(db, n, from["name"])
        /\ Answer("name", "OK", from["name"])
  /\ UNCHANGED <<alive, masks, heap, given>>

\* handle_unregister_msg, by whomever
HandleUnregister ==
  LET n == body["name"].arg IN
  /\ Works("name", "unreg") /\ SenderFound("name") /\ NameReadable
  /\ Answer("name", IF n \in DOMAIN db THEN "OK" ELSE "ENOENT", Null)
  /\ db' = [x \in DOMAIN db \ {n} |-> db[x]]
  /\ UNCHANGED <<alive, masks, heap, given>>

\* handle_lookup_msg, lookup_endpoint_by_name
HandleLookup ==
  LET n == body["name"].arg IN
  /\ Works("name", "lookup") /\ SenderFound("name") /\ NameReadable
  /\ IF n \in DOMAIN db THEN Answer("name", "OK", db[n]) ELSE Answer("name", "ENOENT", Null)
  /\ Plain

\* dbg_console_thread
HandlePrint ==
  /\ Works("console", "print") /\ SenderFound("console")
  /\ Answer("console", IF body["console"].arg = "bad" THEN "EFAULT" ELSE "OK", Null)
  /\ Plain

\* handle_get_evmask
HandleGetEvmask ==
  /\ Works("thr", "getmask")
  /\ IF SenderFound("thr") THEN Answer("thr", "OK", masks[from["thr"]]) ELSE Answer("thr", "ENOENT", Null)
  /\ Plain

\* handle_set_evmask
HandleSetEvmask ==
  /\ Works("thr", "setmask")
  /\ IF SenderFound("thr")
     THEN /\ Answer("thr", "OK", Null)
          /\ masks' = [masks EXCEPT ![from["thr"]] = MaskOf(body["thr"].arg) \ {Kill}]
     ELSE Answer("thr", "ENOENT", Null) /\ UNCHANGED masks
  /\ UNCHANGED <<alive, db, heap, given>>

\* Mutant: no answer if the destination is not found.
HandleSendEventSilent ==
  /\ Works("proc", "event")
  /\ IF body["proc"].arg \in alive THEN Answer("proc", "OK", Null)
     ELSE /\ body' = [body EXCEPT !["proc"] = NoMsg]
          /\ done' = Null
          /\ UNCHANGED <<lpcVars, from, call, menu, why, bare, mute, held>>
  /\ Plain

\* handle_send_event, of three kinds; what it does to the receiver is in module
\* Event.  An event for a process goes to whichever thread can take it.
HandleSendEvent ==
  LET d == body["proc"].arg IN
  /\ \E req \in {"event", "procevent", "bcast"} : Works("proc", req)
  /\ \E rc \in {"OK", "ENOENT", "ENOMEM"} :
       /\ rc = "OK" => SenderFound("proc") /\ d \in alive
       /\ rc = "ENOENT" => ~SenderFound("proc") \/ d \notin alive
       /\ rc = "ENOMEM" => SenderFound("proc")
       /\ Answer("proc", rc, Null)
  /\ Plain

\* handle_create_thread; the child inherits the mask of its parent.
HandleCreateThread ==
  LET c == from["proc"]
      arg == body["proc"].arg
      fails(rc) == Answer("proc", rc, Null) /\ UNCHANGED <<alive, masks>>
  IN
  /\ Works("proc", "create")
  /\ IF ~SenderFound("proc") THEN fails("ENOENT")
     ELSE CASE arg = "prio" -> fails("EINVAL")
            [] arg = "bad" -> fails("EFAULT")
            [] OTHER ->
                 \/ fails("ENOMEM")
                 \/ \E t \in User \ alive :
                      /\ alive' = alive \cup {t}
                      /\ masks' = [masks EXCEPT ![t] = masks[c]]
                      /\ Answer("proc", "OK", t)
  /\ UNCHANGED <<db, heap, given>>

\* handle_get_thread_resource
HandleGetThreadResource ==
  /\ Works("proc", "rusage")
  /\ Answer("proc", IF body["proc"].arg \in alive THEN "OK" ELSE "ENOENT", Null)
  /\ Plain

PageUp(a) == ((a + PageLen - 1) \div PageLen) * PageLen

\* Mutant: the end that the heap has afterwards is returned.
SbrkResultNewEnd(old, new) == new

SbrkResult(old, new) == old

\* handle_sbrk: the new end is rounded up to a page, and memory can run out.
HandleSbrk ==
  LET inc == IncOf(body["vm"].arg)
      new == PageUp(heap + inc)
      val == SbrkResult(heap, new)
      fails(rc) == Answer("vm", rc, Null) /\ UNCHANGED <<heap, given>>
  IN
  /\ Works("vm", "sbrk")
  /\ IF ~SenderFound("vm") THEN fails("ENOENT")
     ELSE IF inc = 0 THEN Answer("vm", "OK", heap) /\ UNCHANGED <<heap, given>>
     ELSE IF new < 0 THEN fails("EINVAL")
     ELSE \/ new > heap /\ fails("ENOMEM")
          \/ /\ new <= HeapMax * PageLen
             /\ heap' = new
             /\ given' = [a \in DOMAIN given |->
                            (IF a < new THEN given[a] ELSE 0) + (IF a \in val .. val + inc - 1 THEN 1 ELSE 0)]
             /\ Answer("vm", "OK", val)
  /\ UNCHANGED <<alive, db, masks>>

\* A request that the server does not have
HandleOther(s) ==
  /\ Works(s, "other")
  /\ s = "name" => SenderFound(s) /\ NameReadable
  /\ Answer(s, IF s = "name" THEN "EINVAL" ELSE "ENOSYS", Null)
  /\ Plain

HasAnswer(s) == Up /\ body[s] # NoMsg /\ "rc" \in DOMAIN body[s]

\* lpc_send( src, LPC_INFINITE, &msg )
Reply(s) ==
  /\ s \in Server /\ HasAnswer(s) /\ from[s] \in alive
  /\ L!Send(s, from[s])
  /\ done' = Null
  /\ UNCHANGED <<alive, body, from, call, stateVars, menu, why, histVars>>

\* The requester is gone, or there is no memory.  The name service goes on,
\* the other servers assert that it does not happen.
ReplyFails(s, rc) ==
  /\ s \in Server /\ HasAnswer(s)
  /\ L!SendFails(s, from[s], rc)
  /\ body' = [body EXCEPT ![s] = NoMsg]
  /\ why' = IF s = "name" THEN why ELSE "reply"
  /\ mute' = IF s = "name" THEN mute \cup {from[s]} ELSE mute
  /\ done' = Null
  /\ UNCHANGED <<alive, from, call, stateVars, menu, bare, held, given>>

ReplyDone(s) ==
  /\ Up /\ s \in Server
  /\ L!SendDone(s)
  /\ body' = [body EXCEPT ![s] = NoMsg]
  /\ from' = [from EXCEPT ![s] = Null]
  /\ done' = Null
  /\ UNCHANGED <<alive, call, stateVars, menu, why, histVars>>
-----------------------------------------------------------------------------
Handle ==
  \/ NameFault \/ HandleRegister \/ HandleUnregister \/ HandleLookup \/ HandlePrint
  \/ HandleGetEvmask \/ HandleSetEvmask
  \/ HandleSendEvent \/ HandleCreateThread \/ HandleGetThreadResource \/ HandleSbrk
  \/ \E s \in Server : HandleOther(s) \/ Forget(s)

ServersNext ==
  \/ Handle
  \/ \E c \in Client :
       \/ \E m \in menu.reqs : \E waits \in BOOLEAN : Request(c, m, waits)
       \/ RequestFails(c) \/ Resume(c) \/ Collect(c) \/ ClientExits(c)
       \/ \E s \in Server : Answered(c, s) \/ Accept(s, c)
  \/ \E s \in Server : Listen(s) \/ Reply(s) \/ ReplyDone(s) \/ ReplyFails(s, "ENOMEM") \/ ReplyFails(s, "ENOENT")

ServerStep(s) ==
  \/ Listen(s) \/ Reply(s) \/ ReplyDone(s)
  \/ Handle /\ body[s] # NoMsg /\ (body'[s] # body[s] \/ why' # why)

ClientStep(c) == Resume(c) \/ \E s \in Server : Answered(c, s)

\* Threads that can run do run; of several senders to one server each has its
\* turn, since a client that was served is queued behind the others.
ServersFair ==
  /\ \A s \in Server : WF_serverVars(ServerStep(s))
  /\ \A c \in Client : WF_serverVars(ClientStep(c)) /\ SF_serverVars(\E s \in Server : Accept(s, c))

ServersSpec == ServersInit /\ [][ServersNext]_serverVars /\ ServersFair
-----------------------------------------------------------------------------
(***************************************************************************)
(* Properties.                                                             *)
(***************************************************************************)
\* A call to a server returns the answer to the request it made: the answer of
\* that server, to that request, with that argument.  The second half of
\* lpc_send_and_reply receives from the destination only, which matters to a
\* thread that has the answer to an earlier lpc_send outstanding.
AnswersMatch ==
  done # Null /\ done.req.req # "recv" =>
    /\ done.msg.to = done.req.to
    /\ done.msg.req = done.req.req
    /\ done.msg.arg = done.req.arg

\* A server that blocks in its reply has a client that is about to receive it:
\* servers, which serve one request at a time without a time-out, do not wait
\* for one another or for a client that waits for them, as long as clients
\* send their requests with lpc_send_and_reply.
NoServerStuck ==
  \A s \in Server : offer[s] # Null /\ ~taken[s] /\ ~bare =>
    LET c == offer[s] IN c \in alive /\ (want[c] \in {s, AnySrc} \/ (offer[c] = s /\ taken[c]))

\* A library function that returns success has done what it says: the mask is
\* set or the one returned, a thread was created, an endpoint found, a heap
\* address returned.  Results are in two places, the return value of the call
\* and the rc of the message.
SuccessMeansDone ==
  done # Null /\ done.out.ret = "0" =>
    CASE done.req.req = "setmask" -> masks[done.who] = MaskOf(done.req.arg) \ {Kill}
      [] done.req.req = "getmask" -> done.msg.val = masks[done.who]
      [] done.req.req \in {"create", "lookup", "sbrk"} -> done.msg.val # Null
      [] done.req.req \in {"event", "procevent", "bcast"} -> done.msg.rc = "OK"
      [] OTHER -> TRUE

\* A confirmed registration stands until somebody unregisters the name: the
\* name service refuses the name to all others, also while several requests
\* for it are under way.
RegistrationStands ==
  \A n \in DOMAIN held : n \in DOMAIN db /\ db[n] = held[n]

\* What sbrk has given to the threads of a process does not overlap and lies
\* inside the heap, in whatever order the vm server serves them.
SbrkRangesDisjoint ==
  \A a \in DOMAIN given : given[a] <= IF a < heap THEN 1 ELSE 0

\* A call returns, unless somebody sends requests and does not receive the
\* answers, the name service had no memory for the answer, or the kernel has
\* stopped.
CallsReturn ==
  \A c \in Client : (call[c] # NoMsg /\ call[c].req # "recv") ~> (call[c] = NoMsg \/ bare \/ c \in mute \/ ~Up)

\* A call returns the answer to its own request, and its result is true: a
\* function that reports success has done what it says (lpc_send_and_reply and
\* the stubs of lib/).
AnswersTrue == ServersTypeOK /\ AnswersMatch /\ SuccessMeansDone

\* What a server has granted to one client it does not give to another: a
\* confirmed name stays, and a part of the heap is given once
\* (handle_register_msg, handle_sbrk).
GrantsStand == RegistrationStands /\ SbrkRangesDisjoint
=============================================================================
