---------------------------- MODULE ServerProofs ----------------------------
(***************************************************************************)
(* Proofs about the servers and their clients (module Servers): calls      *)
(* return the answer to their own request, a server does not block in a    *)
(* reply, registrations and heap addresses are given once.                 *)
(***************************************************************************)
EXTENDS Servers, TLAPS

Thread == Client \cup Server

HasRc(m) == "rc" \in DOMAIN m

\* The client c waits for the answer of the server s: its request was taken,
\* or it is in the receive half of lpc_send_and_reply.
Waits(c, s) == (offer[c] = s /\ taken[c]) \/ want[c] = s

Types ==
  /\ alive \subseteq Thread
  /\ offer \in [Thread -> Thread \cup {Null}]
  /\ taken \in [Thread -> BOOLEAN]
  /\ want \in [Thread -> Thread \cup {AnySrc, Null}]
  /\ DOMAIN body = Thread /\ DOMAIN call = Client
  /\ from \in [Server -> Client \cup {Null}]
  /\ masks \in [Client -> SUBSET (Event \ {Kill})]
  /\ \A n \in DOMAIN db : db[n] \in Thread
  /\ menu \in Menu /\ why \in {"no", "namefault", "reply", "kns"} /\ bare \in BOOLEAN

\* A server listens, works on a request, or replies to its sender.
ServerOK(s) ==
  /\ want[s] \in {Null, AnySrc}
  /\ want[s] # Null => body[s] = NoMsg /\ offer[s] = Null
  /\ offer[s] # Null => body[s] # NoMsg /\ HasRc(body[s]) /\ offer[s] = from[s]
  /\ taken[s] => offer[s] # Null
  /\ body[s] # NoMsg =>
       /\ from[s] \in Client /\ (from[s] \in KThread => s = "name")
       /\ IF HasRc(body[s]) THEN body[s].rc \in Rc /\ body[s].req \in Services(s) \cup {"other"}
          ELSE IsRequest(body[s]) /\ body[s].to = s

\* A client sends its request, waits for the answer to it, collects answers to
\* what it sent before, or does neither.
ClientOK(c) ==
  /\ taken[c] => offer[c] # Null
  /\ call[c] # NoMsg => c \in alive
  /\ offer[c] # Null =>
       /\ want[c] = Null /\ call[c] # NoMsg
       /\ offer[c] = call[c].to /\ call[c].to \in Server
       /\ call[c].req \in Services(call[c].to) \cup {"other", "bare"}
       /\ call[c].req = "bare" => bare
       /\ c \in KThread => call[c].to = "name"
  /\ offer[c] # Null /\ ~taken[c] =>
       /\ body[c] # NoMsg /\ IsRequest(body[c])
       /\ body[c].to = call[c].to /\ body[c].arg = call[c].arg
       /\ call[c].req \in {body[c].req, "bare"}
  /\ want[c] # Null =>
       /\ call[c] # NoMsg
       /\ \/ want[c] = AnySrc /\ call[c].req = "recv" /\ c \notin KThread
          \/ /\ want[c] = call[c].to /\ call[c].to \in Server
             /\ call[c].req \in Services(call[c].to) \cup {"other"}
             /\ c \in KThread => call[c].to = "name"

\* What an answer says
ResultOK(m, s, c) ==
  HasRc(m) /\ m.rc = "OK" =>
    /\ m.req = "setmask" => s = "thr" /\ masks[c] = MaskOf(m.arg) \ {Kill}
    /\ m.req = "getmask" => s = "thr" /\ m.val = masks[c]
    /\ m.req \in {"create", "lookup", "sbrk"} => m.val # Null

\* The message that a server works on is the request that its sender waits for
\* the answer of, if it is in a call.
PairOK(s, c) ==
  body[s] # NoMsg /\ from[s] = c /\ ~taken[s] =>
    /\ ~bare => Waits(c, s)
    /\ Waits(c, s) /\ call[c].req # "bare" =>
         /\ body[s].to = call[c].to /\ body[s].req = call[c].req /\ body[s].arg = call[c].arg
         /\ ResultOK(body[s], s, c)

\* A registration that is about to be confirmed is in the database.
ConfirmsOK ==
  LET m == body["name"] IN
  m # NoMsg /\ HasRc(m) /\ m.req = "reg" /\ m.rc = "OK" /\ ~taken["name"] =>
    m.arg \in DOMAIN db /\ db[m.arg] = from["name"]

\* So is a confirmed one, and nobody unregisters it.
HeldOK ==
  \A n \in DOMAIN held : n \in DOMAIN db /\ db[n] = held[n] /\ ~Unregistering(n)

HeapOK ==
  /\ \E i \in 0 .. HeapMax : heap = PageLen * i
  /\ DOMAIN given = 0 .. (HeapMax + 1) * PageLen
  /\ \A a \in DOMAIN given : given[a] \in Nat /\ given[a] <= IF a < heap THEN 1 ELSE 0

\* The part of the invariant that speaks of single servers and clients
Parts ==
  /\ \A s \in Server : ServerOK(s)
  /\ \A c \in Client : ClientOK(c)
  /\ \A s \in Server : \A c \in Client : PairOK(s, c)

\* The inductive invariant
IInv ==
  /\ Types /\ Parts
  /\ ConfirmsOK /\ HeldOK /\ HeapOK
  /\ AnswersMatch /\ SuccessMeansDone

-----------------------------------------------------------------------------
(***************************************************************************)
(* What a step leaves alone.                                               *)
(***************************************************************************)
SameServer(s) ==
  /\ offer'[s] = offer[s] /\ taken'[s] = taken[s] /\ want'[s] = want[s]
  /\ body'[s] = body[s] /\ from'[s] = from[s]

SameClient(c) ==
  /\ offer'[c] = offer[c] /\ taken'[c] = taken[c] /\ want'[c] = want[c]
  /\ body'[c] = body[c] /\ call'[c] = call[c]
  /\ call[c] # NoMsg => c \in alive'

\* A server, a client and a pair of them that a step leaves alone stay as they should be.
LEMMA SameServerOK ==
  ASSUME NEW s, ServerOK(s), SameServer(s)
  PROVE  ServerOK(s)'
BY Zenon DEF ServerOK, SameServer

LEMMA SameClientOK ==
  ASSUME NEW c, ClientOK(c), SameClient(c), bare => bare'
  PROVE  ClientOK(c)'
BY DEF ClientOK, SameClient

LEMMA SamePairOK ==
  ASSUME NEW s, NEW c, PairOK(s, c), SameServer(s), SameClient(c), bare => bare',
         Waits(c, s) => masks'[c] = masks[c]
  PROVE  PairOK(s, c)'
<1>1. Waits(c, s)' = Waits(c, s)
  BY DEF Waits, SameClient
<1>2. Waits(c, s) => ResultOK(body[s], s, c)' = ResultOK(body[s], s, c)
  BY DEF ResultOK, SameServer
<1> QED
  BY <1>1, <1>2 DEF PairOK, SameServer, SameClient

\* A client that waits is in a call.
LEMMA WaitsInCall ==
  ASSUME NEW c \in Client, NEW s \in Server, ClientOK(c), Waits(c, s)
  PROVE  /\ call[c] # NoMsg /\ call[c].to = s /\ c \in alive
         /\ call[c].req \in Services(s) \cup {"other", "bare"}
BY ServersAssumption DEF ClientOK, Waits

\* The threads other than t and u are where they were.
Others(t, u) ==
  /\ \A x \in Thread : x # t /\ x # u =>
       offer'[x] = offer[x] /\ taken'[x] = taken[x] /\ want'[x] = want[x] /\ body'[x] = body[x]
  /\ \A s \in Server : s # t /\ s # u => from'[s] = from[s]
  /\ \A c \in Client : c # t /\ c # u => call'[c] = call[c] /\ (c \in alive => c \in alive' /\ masks'[c] = masks[c])
  /\ bare => bare'

\* Of a step that moves t and u only what concerns them has to be looked at.
LEMMA Apart ==
  ASSUME Parts, NEW t, NEW u, Others(t, u),
         \A s \in Server : s = t \/ s = u => ServerOK(s)',
         \A c \in Client : c = t \/ c = u => ClientOK(c)',
         \A s \in Server : \A c \in Client : s = t \/ s = u \/ c = t \/ c = u => PairOK(s, c)'
  PROVE  Parts'
<1>1. ASSUME NEW s \in Server, s # t, s # u PROVE SameServer(s)
  BY <1>1, Zenon DEF SameServer, Others, Thread
<1>2. ASSUME NEW c \in Client, c # t, c # u PROVE SameClient(c) /\ (c \in alive => masks'[c] = masks[c])
  BY <1>2 DEF SameClient, Others, Parts, ClientOK, Thread
<1>3. bare => bare'
  BY DEF Others
<1>4. ASSUME NEW s \in Server PROVE ServerOK(s)'
  BY <1>1, SameServerOK DEF Parts
<1>5. ASSUME NEW c \in Client PROVE ClientOK(c)'
  BY <1>2, <1>3, SameClientOK DEF Parts
<1>6. ASSUME NEW s \in Server, NEW c \in Client, s # t, s # u, c # t, c # u PROVE PairOK(s, c)'
  <2>1. PairOK(s, c) /\ SameServer(s) /\ SameClient(c) /\ ClientOK(c)
    BY <1>1, <1>2, <1>6, Zenon DEF Parts
  <2>2. Waits(c, s) => masks'[c] = masks[c]
    BY <1>2, <1>6, <2>1, WaitsInCall
  <2> QED
    BY <1>3, <2>1, <2>2, SamePairOK
<1>7. \A s \in Server : \A c \in Client : PairOK(s, c)'
  BY <1>6
<1>8. (\A s \in Server : ServerOK(s)') /\ (\A c \in Client : ClientOK(c)')
  BY <1>4, <1>5
<1> QED
  BY <1>7, <1>8 DEF Parts, Server

\* Steps of one client, of one server, and of a server with a client
LEMMA ClientMoves ==
  ASSUME Parts, NEW c \in Client, Others(c, c), ClientOK(c)', \A s \in Server : PairOK(s, c)'
  PROVE  Parts'
BY Apart, ServersAssumption

LEMMA ServerMoves ==
  ASSUME Parts, NEW s \in Server, Others(s, s), ServerOK(s)', \A c \in Client : PairOK(s, c)'
  PROVE  Parts'
BY Apart, ServersAssumption

LEMMA BothMove ==
  ASSUME Parts, NEW s \in Server, NEW c \in Client, Others(s, c), ServerOK(s)', ClientOK(c)',
         \A d \in Client : PairOK(s, d)', \A r \in Server : PairOK(r, c)'
  PROVE  Parts'
BY Apart, ServersAssumption

\* Nothing is said of a step in which no library function returns.
LEMMA NoReturn ==
  ASSUME done' = Null
  PROVE  AnswersMatch' /\ SuccessMeansDone'
BY DEF AnswersMatch, SuccessMeansDone

\* The initial states
LEMMA InitIInv == ServersInit => IInv
<1> SUFFICES ASSUME ServersInit PROVE IInv
  OBVIOUS
<1>1. Types
  <2>1. \A n \in DOMAIN Registered : Registered[n] = "vm"
    BY DEF Registered
  <2>2. \A n \in DOMAIN db : db[n] \in Thread
    BY <2>1 DEF ServersInit, Thread, Server
  <2>3. masks \in [Client -> SUBSET (Event \ {Kill})]
    BY DEF ServersInit
  <2>4. menu \in Menu /\ menu.first \subseteq Client
    BY ServersAssumption DEF ServersInit
  <2> QED
    BY <2>2, <2>3, <2>4, ServersAssumption, Zenon DEF ServersInit, Types, Thread
<1>2. ASSUME NEW s \in Server PROVE ServerOK(s)
  BY ServersAssumption, Zenon DEF ServersInit, ServerOK
<1>3. ASSUME NEW c \in Client PROVE ClientOK(c)
  BY ServersAssumption DEF ServersInit, ClientOK
<1>4. ASSUME NEW s \in Server, NEW c \in Client PROVE PairOK(s, c)
  BY DEF ServersInit, PairOK
<1>5. ConfirmsOK /\ HeldOK
  BY DEF ServersInit, ConfirmsOK, HeldOK, Server
<1>6. HeapOK
  BY ServersAssumption DEF ServersInit, HeapOK
<1>7. AnswersMatch /\ SuccessMeansDone
  BY DEF ServersInit, AnswersMatch, SuccessMeansDone
<1> QED
  BY <1>1, <1>2, <1>3, <1>4, <1>5, <1>6, <1>7 DEF IInv, Parts

\* An answer of the name server that stays or is gone confirms nothing new.
LEMMA SameConfirms ==
  ASSUME ConfirmsOK, body'["name"] = body["name"] \/ body'["name"] = NoMsg, taken["name"] => taken'["name"],
         from'["name"] = from["name"] \/ body'["name"] = NoMsg, db' = db
  PROVE  ConfirmsOK'
BY DEF ConfirmsOK

\* Messages pass from thread to thread and get answers.
LEMMA SameHeld ==
  ASSUME HeldOK, held' = held, db' = db,
         \A t \in Thread : body'[t] # NoMsg =>
           \E u \in Thread : body[u] # NoMsg /\ body'[t].req = body[u].req /\ body'[t].arg = body[u].arg
  PROVE  HeldOK'
<1>1. ASSUME NEW n, Unregistering(n)' PROVE Unregistering(n)
  <2>1. PICK t \in Thread : body'[t] # NoMsg /\ body'[t].req = "unreg" /\ body'[t].arg = n
    BY <1>1 DEF Unregistering, Thread
  <2>2. PICK u \in Thread : body[u] # NoMsg /\ body'[t].req = body[u].req /\ body'[t].arg = body[u].arg
    BY <2>1
  <2> QED
    BY <2>1, <2>2 DEF Unregistering, Thread
<1> QED
  BY <1>1 DEF HeldOK

-----------------------------------------------------------------------------
(***************************************************************************)
(* The steps of clients.                                                   *)
(***************************************************************************)

\* A program receives without a call.
LEMMA CollectIInv ==
  ASSUME IInv, NEW c \in Client, Collect(c)
  PROVE  IInv'
<1>1. /\ offer[c] = Null /\ want[c] = Null /\ call[c] = NoMsg /\ c \in alive
      /\ UNCHANGED <<alive, offer, taken, body, from, db, masks, heap, menu, why, bare, mute, held, given>>
      /\ done' = Null
  BY Zenon DEF Collect, L!Receive, L!InCall, stateVars, histVars
<1>2. ~taken[c] /\ c \notin KThread
  BY <1>1, ServersAssumption, Zenon DEF Collect, IInv, Types, Parts, ClientOK
<1>3. want' = [want EXCEPT ![c] = AnySrc] /\ call' = [call EXCEPT ![c] = [to |-> "any", req |-> "recv", arg |-> "none"]]
  BY Zenon DEF Collect, L!Receive
<1>4. want'[c] = AnySrc /\ call'[c] = [to |-> "any", req |-> "recv", arg |-> "none"] /\ Others(c, c)
  BY <1>1, <1>3, Zenon DEF Others, IInv, Types, Thread
<1>5. Types'
  BY <1>1, <1>3, Zenon DEF IInv, Types, Thread
<1>6. Parts'
  <2>1. ClientOK(c)'
    <3>1. ~taken'[c] /\ offer'[c] = Null /\ want'[c] = AnySrc /\ c \in alive'
      BY <1>1, <1>2, <1>4, Zenon
    <3>2. call'[c].req = "recv"
      BY <1>4
    <3>3. call'[c] # NoMsg
      BY <3>2 DEF NoMsg
    <3> QED
      BY <1>2, <3>1, <3>2, <3>3, Zenon DEF ClientOK
  <2>2. ASSUME NEW s \in Server PROVE PairOK(s, c)'
    <3>1. PairOK(s, c)
      BY Zenon DEF IInv, Parts
    <3>2. ~Waits(c, s) /\ ~Waits(c, s)'
      BY <1>1, <1>2, <1>4, ServersAssumption, Zenon DEF Waits
    <3> QED
      BY <1>1, <3>1, <3>2 DEF PairOK
  <2> QED
    BY <1>4, <2>1, <2>2, ClientMoves, Zenon DEF IInv
<1>7. ConfirmsOK' /\ HeldOK'
  BY <1>1, SameConfirms, SameHeld, Zenon DEF IInv
<1>8. HeapOK' /\ AnswersMatch' /\ SuccessMeansDone'
  BY <1>1, NoReturn, Zenon DEF IInv, HeapOK
<1> QED
  BY <1>5, <1>6, <1>7, <1>8, Zenon DEF IInv

\* A client ends.
LEMMA ClientExitsIInv ==
  ASSUME IInv, NEW c \in Client, ClientExits(c)
  PROVE  IInv'
<1>1. /\ offer[c] = Null /\ want[c] = Null /\ call[c] = NoMsg /\ alive' = alive \ {c}
      /\ UNCHANGED <<offer, taken, want, body, from, call, db, masks, heap, menu, why, bare, mute, held, given>>
      /\ done' = Null
  BY Zenon DEF ClientExits, L!Exit, L!InCall, stateVars, histVars
<1>2. ~taken[c]
  BY <1>1, Zenon DEF IInv, Parts, ClientOK
<1>3. Others(c, c)
  BY <1>1, Zenon DEF Others
<1>4. Types'
  BY <1>1 DEF IInv, Types
<1>5. Parts'
  <2>1. ClientOK(c)'
    BY <1>1, <1>2, Zenon DEF ClientOK
  <2>2. ASSUME NEW s \in Server PROVE PairOK(s, c)'
    <3>1. PairOK(s, c)
      BY DEF IInv, Parts
    <3> QED
      BY <1>1, <3>1, Zenon DEF PairOK, Waits, ResultOK
  <2> QED
    BY <1>3, <2>1, <2>2, ClientMoves, Zenon DEF IInv
<1>6. ConfirmsOK' /\ HeldOK'
  BY <1>1, SameConfirms, SameHeld, Zenon DEF IInv
<1>7. HeapOK' /\ AnswersMatch' /\ SuccessMeansDone'
  BY <1>1, NoReturn DEF IInv, HeapOK
<1> QED
  BY <1>4, <1>5, <1>6, <1>7 DEF IInv

\* The functions of a server are none of the marks for other uses of a call.
LEMMA RealRequest ==
  ASSUME NEW s \in Server
  PROVE  \A r \in Services(s) \cup {"other"} : r # "bare" /\ r # "recv" /\ r # "none"
BY Zenon DEF Server, Services

\* A library function sends its request.
LEMMA RequestIInv ==
  ASSUME IInv, NEW c \in Client, NEW m \in menu.reqs, NEW waits \in BOOLEAN, Request(c, m, waits)
  PROVE  IInv'
<1>1. /\ offer[c] = Null /\ want[c] = Null /\ call[c] = NoMsg /\ c \in alive
      /\ UNCHANGED <<alive, taken, want, from, db, masks, heap, menu, why, mute, given>>
      /\ done' = Null
      /\ c \in KThread => m.to = "name"
      /\ offer' = [offer EXCEPT ![c] = m.to] /\ body' = [body EXCEPT ![c] = m]
  BY Zenon DEF Request, L!Send, L!InCall, stateVars
<1>2. IsRequest(m) /\ m.to \in Server /\ m.req \in Services(m.to) \cup {"other"}
  BY ServersAssumption DEF IInv, Types, IsRequest
<1>3. call' = [call EXCEPT ![c] = IF waits THEN m ELSE [m EXCEPT !.req = "bare"]] /\ bare' = (bare \/ ~waits)
  BY Zenon DEF Request
<1>4. /\ ~taken[c]
      /\ body'[c] = m /\ offer'[c] = m.to
      /\ call'[c] = IF waits THEN m ELSE [m EXCEPT !.req = "bare"]
      /\ Others(c, c)
  BY <1>1, <1>3, Zenon DEF Others, IInv, Types, Thread, Parts, ClientOK
<1>5. /\ call'[c].to = m.to /\ call'[c].arg = m.arg /\ call'[c].req \in {m.req, "bare"}
      /\ call'[c].req = "bare" => bare'
  <2>1. CASE waits
    BY <1>2, <1>4, <2>1, RealRequest, Zenon
  <2>2. CASE ~waits
    <3>1. m = [to |-> m.to, req |-> m.req, arg |-> m.arg] /\ call'[c] = [m EXCEPT !.req = "bare"]
      BY <1>2, <1>4, <2>2 DEF IsRequest
    <3>2. call'[c] = [to |-> m.to, req |-> "bare", arg |-> m.arg]
      BY <3>1
    <3>3. bare'
      BY <1>3, <2>2, Zenon
    <3> QED
      BY <3>2, <3>3
  <2> QED
    BY <2>1, <2>2
<1>6. Types'
  BY <1>1, <1>2, <1>3 DEF IInv, Types, Thread
<1>7. Parts'
  <2>1. ClientOK(c)'
    <3>1. m # NoMsg /\ call'[c] # NoMsg
      BY <1>2, <1>5, ServersAssumption DEF NoMsg
    <3>2. /\ ~taken'[c] /\ want'[c] = Null /\ offer'[c] = call'[c].to /\ call'[c].to \in Server /\ c \in alive'
          /\ call'[c].req \in Services(call'[c].to) \cup {"other", "bare"}
          /\ call'[c].req = "bare" => bare'
          /\ c \in KThread => call'[c].to = "name"
      BY <1>1, <1>2, <1>4, <1>5
    <3>3. /\ body'[c] # NoMsg /\ IsRequest(body'[c]) /\ body'[c].to = call'[c].to /\ body'[c].arg = call'[c].arg
          /\ call'[c].req \in {body'[c].req, "bare"}
      BY <1>2, <1>4, <1>5, <3>1, Zenon
    <3> QED
      BY <3>1, <3>2, <3>3, Zenon DEF ClientOK
  <2>2. ASSUME NEW s \in Server PROVE PairOK(s, c)'
    <3>1. PairOK(s, c)
      BY DEF IInv, Parts
    <3>2. ~Waits(c, s) /\ ~Waits(c, s)'
      BY <1>1, <1>4, ServersAssumption, Zenon DEF Waits
    <3>3. body'[s] = body[s] /\ (bare => bare')
      BY <1>1, <1>3, ServersAssumption DEF IInv, Types, Thread
    <3> QED
      BY <1>1, <3>1, <3>2, <3>3, Zenon DEF PairOK
  <2> QED
    BY <1>4, <2>1, <2>2, ClientMoves, Zenon DEF IInv
<1>8. ConfirmsOK'
  <2>1. body'["name"] = body["name"]
    BY <1>1, ServersAssumption DEF Server
  <2> QED
    BY <1>1, <2>1, SameConfirms, Zenon DEF IInv
<1>9. HeldOK'
  <2>1. held' = IF m.req = "unreg" THEN [n \in DOMAIN held \ {m.arg} |-> held[n]] ELSE held
    BY DEF Request
  <2>2. ASSUME NEW n \in DOMAIN held' PROVE n \in DOMAIN held /\ held'[n] = held[n] /\ ~(m.req = "unreg" /\ m.arg = n)
    BY <2>1, Zenon
  <2>3. ASSUME NEW n \in DOMAIN held' PROVE ~Unregistering(n)'
    <3>1. SUFFICES ASSUME NEW t \in Thread, body'[t] # NoMsg, body'[t].req = "unreg", body'[t].arg = n PROVE FALSE
      BY DEF Unregistering, Thread
    <3>2. t # c
      BY <1>4, <2>2, <3>1, Zenon
    <3>3. body[t] = body'[t]
      BY <1>1, <3>2
    <3> QED
      BY <2>2, <3>1, <3>3 DEF IInv, HeldOK, Unregistering, Thread
  <2> QED
    BY <1>1, <2>2, <2>3 DEF IInv, HeldOK
<1>10. HeapOK' /\ AnswersMatch' /\ SuccessMeansDone'
  BY <1>1, NoReturn DEF IInv, HeapOK
<1> QED
  BY <1>6, <1>7, <1>8, <1>9, <1>10, Zenon DEF IInv

\* A request whose send fails is over, with the result of the stub.
LEMMA RequestFailsIInv ==
  ASSUME IInv, NEW c \in Client, RequestFails(c)
  PROVE  IInv'
<1>1. /\ offer[c] # Null /\ call[c] # NoMsg
      /\ UNCHANGED <<alive, taken, want, from, db, masks, heap, menu, bare, mute, held, given>>
      /\ offer' = [offer EXCEPT ![c] = Null] /\ body' = [body EXCEPT ![c] = NoMsg] /\ call' = [call EXCEPT ![c] = NoMsg]
      /\ ~(taken[c])
  BY Zenon DEF RequestFails, L!SendFails, L!InCall, stateVars, histVars
<1>2. want[c] = Null
  BY <1>1, Zenon DEF IInv, Parts, ClientOK
<1>3. body'[c] = NoMsg /\ offer'[c] = Null /\ call'[c] = NoMsg /\ Others(c, c)
  BY <1>1, Zenon DEF Others, IInv, Types, Thread
<1>4. Types'
  BY <1>1, Zenon DEF IInv, Types, Thread, RequestFails
<1>5. Parts'
  <2>1. ClientOK(c)'
    BY <1>1, <1>2, <1>3, Zenon DEF ClientOK
  <2>2. ASSUME NEW s \in Server PROVE PairOK(s, c)'
    <3>1. PairOK(s, c)
      BY DEF IInv, Parts
    <3>2. ~Waits(c, s) /\ ~Waits(c, s)'
      BY <1>1, <1>2, <1>3, ServersAssumption, Zenon DEF Waits
    <3>3. body'[s] = body[s]
      BY <1>1, ServersAssumption DEF IInv, Types, Thread
    <3> QED
      BY <1>1, <3>1, <3>2, <3>3, Zenon DEF PairOK
  <2> QED
    BY <1>3, <2>1, <2>2, ClientMoves, Zenon DEF IInv
<1>6. ConfirmsOK'
  <2>1. body'["name"] = body["name"]
    BY <1>1, ServersAssumption DEF Server
  <2> QED
    BY <1>1, <2>1, SameConfirms, Zenon DEF IInv
<1>7. HeldOK'
  <2>1. \A t \in Thread : body'[t] # NoMsg => body'[t] = body[t]
    BY <1>1, Zenon DEF IInv, Types
  <2> QED
    BY <1>1, <2>1, SameHeld, Zenon DEF IInv
<1>8. HeapOK'
  BY <1>1 DEF IInv, HeapOK
<1>9. AnswersMatch' /\ SuccessMeansDone'
  <2>1. CASE c \in KThread
    BY <2>1, NoReturn DEF RequestFails
  <2>2. CASE c \notin KThread
    <3> DEFINE m == [to |-> call[c].to, req |-> call[c].req, arg |-> call[c].arg, rc |-> "OK", val |-> Null]
    <3>1. done' = [who |-> c, req |-> call[c], lpc |-> "ENOMEM", msg |-> m, out |-> StubOf(c, call[c], "ENOMEM", m.rc)]
      BY <2>2 DEF RequestFails, Returns
    <3>2. StubOf(c, call[c], "ENOMEM", m.rc).ret = "-1"
      BY <2>2, Zenon DEF StubOf, Stub, StubRegister, StubWrite, User
    <3>3. done'.req = call[c] /\ done'.msg = m /\ done'.out.ret = "-1"
      BY <3>1, <3>2, Zenon
    <3>4. AnswersMatch'
      BY <3>3 DEF AnswersMatch
    <3>5. SuccessMeansDone'
      BY <3>3 DEF SuccessMeansDone
    <3> QED
      BY <3>4, <3>5, Zenon
  <2> QED
    BY <2>1, <2>2, Zenon
<1> QED
  BY <1>4, <1>5, <1>6, <1>7, <1>8, <1>9, Zenon DEF IInv

\* A client whose request was taken goes on: it receives, or is done if it only sends.
LEMMA ResumeIInv ==
  ASSUME IInv, NEW c \in Client, Resume(c)
  PROVE  IInv'
<1>1. /\ taken[c] /\ call[c] # NoMsg
      /\ UNCHANGED <<alive, from, db, masks, heap, menu, why, bare, mute, held, given>>
      /\ offer' = [offer EXCEPT ![c] = Null] /\ body' = [body EXCEPT ![c] = NoMsg] /\ taken' = [taken EXCEPT ![c] = FALSE]
      /\ done' = Null
  BY Zenon DEF Resume, L!SendDone, L!SendDoneAwaitReply, stateVars, histVars
<1>2. /\ call' = IF call[c].req = "bare" THEN [call EXCEPT ![c] = NoMsg] ELSE call
      /\ want' = IF call[c].req = "bare" THEN want ELSE [want EXCEPT ![c] = offer[c]]
  BY Zenon DEF Resume, L!SendDone, L!SendDoneAwaitReply
<1>3. /\ offer[c] # Null /\ want[c] = Null /\ offer[c] = call[c].to /\ call[c].to \in Server
      /\ call[c].req \in Services(call[c].to) \cup {"other", "bare"}
      /\ call[c].req = "bare" => bare
      /\ c \in KThread => call[c].to = "name"
      /\ c \in alive
  BY <1>1, Zenon DEF IInv, Parts, ClientOK
<1>4. /\ body'[c] = NoMsg /\ offer'[c] = Null /\ ~taken'[c] /\ Others(c, c)
      /\ call[c].req = "bare" => call'[c] = NoMsg /\ want'[c] = Null
      /\ call[c].req # "bare" => call'[c] = call[c] /\ want'[c] = offer[c]
  BY <1>1, <1>2, <1>3, Zenon DEF Others, IInv, Types, Thread
<1>5. Types'
  BY <1>1, <1>2 DEF IInv, Types, Thread
<1>6. Parts'
  <2>1. ClientOK(c)'
    <3>1. CASE call[c].req = "bare"
      BY <1>4, <3>1, Zenon DEF ClientOK
    <3>2. CASE call[c].req # "bare"
      BY <1>1, <1>3, <1>4, <3>2, Zenon DEF ClientOK
    <3> QED
      BY <3>1, <3>2, Zenon
  <2>2. ASSUME NEW s \in Server PROVE PairOK(s, c)'
    <3>1. PairOK(s, c)
      BY DEF IInv, Parts
    <3>2. body'[s] = body[s] /\ taken'[s] = taken[s]
      <4>1. s # c
        BY ServersAssumption, Zenon
      <4>2. s \in Thread
        BY Zenon DEF Thread
      <4>3. taken \in [Thread -> BOOLEAN] /\ DOMAIN body = Thread
        BY Zenon DEF IInv, Types
      <4>4. body'[s] = body[s]
        BY <1>1, <4>1, <4>2, <4>3
      <4>5. taken'[s] = taken[s]
        BY <1>1, <4>1, <4>2, <4>3
      <4> QED
        BY <4>4, <4>5, Zenon
    <3>3. CASE call[c].req = "bare"
      <4>1. bare' /\ ~Waits(c, s)'
        BY <1>1, <1>3, <1>4, <3>3, ServersAssumption DEF Waits
      <4> QED
        BY <4>1, Zenon DEF PairOK
    <3>4. CASE call[c].req # "bare"
      <4>1. Waits(c, s)' = Waits(c, s) /\ call'[c] = call[c]
        BY <1>1, <1>3, <1>4, <3>4, ServersAssumption DEF Waits
      <4> QED
        BY <1>1, <3>1, <3>2, <4>1, Zenon DEF PairOK, ResultOK
    <3> QED
      BY <3>3, <3>4
  <2> QED
    BY <1>4, <2>1, <2>2, ClientMoves, Zenon DEF IInv
<1>7. ConfirmsOK'
  <2>1. body'["name"] = body["name"] /\ taken'["name"] = taken["name"]
    BY <1>1, ServersAssumption, Zenon DEF Server, IInv, Types, Thread
  <2> QED
    BY <1>1, <2>1, SameConfirms, Zenon DEF IInv
<1>8. HeldOK'
  <2>1. \A t \in Thread : body'[t] # NoMsg => body'[t] = body[t]
    BY <1>1, Zenon DEF IInv, Types
  <2> QED
    BY <1>1, <2>1, SameHeld, Zenon DEF IInv
<1>9. HeapOK' /\ AnswersMatch' /\ SuccessMeansDone'
  BY <1>1, NoReturn, Zenon DEF IInv, HeapOK
<1> QED
  BY <1>5, <1>6, <1>7, <1>8, <1>9, Zenon DEF IInv

\* The answer that a client gets is the answer to its request.
LEMMA AnsweredFacts ==
  ASSUME IInv, NEW c \in Client, NEW s \in Server, Answered(c, s)
  PROVE  /\ offer[c] = Null /\ want[c] # Null /\ call[c] # NoMsg /\ offer[s] = c /\ ~taken[s]
         /\ body[s] # NoMsg /\ HasRc(body[s]) /\ from[s] = c /\ body[s].rc \in Rc
         /\ want[c] = AnySrc \/ want[c] = s
         /\ offer' = offer /\ taken' = [taken EXCEPT ![s] = TRUE, ![c] = FALSE] /\ want' = [want EXCEPT ![c] = Null]
         /\ call' = [call EXCEPT ![c] = NoMsg]
         /\ UNCHANGED <<alive, body, from, db, masks, heap, menu, why, bare, mute, given>>
<1>1. /\ offer[s] = c /\ ~taken[s] /\ want[c] # Null
      /\ taken' = [taken EXCEPT ![s] = TRUE, ![c] = FALSE] /\ want' = [want EXCEPT ![c] = Null]
      /\ call' = [call EXCEPT ![c] = NoMsg]
      /\ UNCHANGED <<alive, body, from, db, masks, heap, menu, why, bare, mute, given>>
  BY Zenon DEF Answered, L!Take, stateVars
<1>2. offer[c] = Null /\ call[c] # NoMsg
  BY <1>1 DEF IInv, Parts, ClientOK
<1>3. (want[c] = AnySrc \/ want[c] = s) /\ offer' = offer
  BY <1>1, <1>2, ServersAssumption, Zenon DEF Answered, L!Take, L!InCall
<1>4. body[s] # NoMsg /\ HasRc(body[s]) /\ from[s] = c /\ body[s].rc \in Rc
  <2>1. ServerOK(s) /\ offer[s] # Null
    BY <1>1, ServersAssumption, Zenon DEF IInv, Parts
  <2> QED
    BY <1>1, <2>1, Zenon DEF ServerOK
<1> QED
  BY <1>1, <1>2, <1>3, <1>4, Zenon

\* The answer that a call gets is the one to its own request.
LEMMA AnswerIsOwn ==
  ASSUME IInv, NEW c \in Client, NEW s \in Server, Answered(c, s), call[c].req # "recv"
  PROVE  /\ call[c].to = s /\ call[c].req \in Services(s) \cup {"other"} /\ (c \in KThread => s = "name")
         /\ body[s].to = call[c].to /\ body[s].req = call[c].req /\ body[s].arg = call[c].arg
         /\ ResultOK(body[s], s, c)
<1>1. /\ want[c] # Null /\ (want[c] = AnySrc \/ want[c] = s) /\ body[s] # NoMsg /\ from[s] = c /\ ~taken[s]
  BY AnsweredFacts, Zenon
<1>2. /\ call[c].to = s /\ call[c].req \in Services(s) \cup {"other"} /\ want[c] = s
      /\ (c \in KThread => s = "name")
  <2>1. ClientOK(c)
    BY Zenon DEF IInv, Parts
  <2> QED
    BY <1>1, <2>1, ServersAssumption, Zenon DEF ClientOK
<1>3. call[c].req # "bare"
  BY <1>2, RealRequest, Zenon
<1>4. Waits(c, s) /\ PairOK(s, c)
  BY <1>2, Zenon DEF Waits, IInv, Parts
<1> QED
  BY <1>1, <1>2, <1>3, <1>4, Zenon DEF PairOK

\* A client gets its answer: places of client and server, results, and the whole.
LEMMA AnsweredParts ==
  ASSUME IInv, NEW c \in Client, NEW s \in Server, Answered(c, s)
  PROVE  Types' /\ Parts'
<1>1. /\ offer[c] = Null /\ want[c] # Null /\ offer[s] = c /\ body[s] # NoMsg /\ from[s] = c /\ ~taken[s]
      /\ offer' = offer /\ taken' = [taken EXCEPT ![s] = TRUE, ![c] = FALSE] /\ want' = [want EXCEPT ![c] = Null]
      /\ call' = [call EXCEPT ![c] = NoMsg]
      /\ UNCHANGED <<alive, body, from, db, masks, heap, menu, why, bare, mute, given>>
  BY AnsweredFacts
<1>2. s # c
  BY ServersAssumption, Zenon
<1>3. /\ taken'[s] /\ ~taken'[c] /\ want'[c] = Null /\ want'[s] = want[s] /\ call'[c] = NoMsg /\ Others(s, c)
  BY <1>1, <1>2 DEF Others, IInv, Types, Thread
<1>4. Types'
  BY <1>1, Zenon DEF IInv, Types, Thread
<1>5. ServerOK(s)'
  <2>1. ServerOK(s) /\ offer[s] # Null
    BY <1>1, ServersAssumption DEF IInv, Parts
  <2> QED
    BY <1>1, <1>3, <2>1, Zenon DEF ServerOK
<1>6. ClientOK(c)'
  BY <1>1, <1>3, Zenon DEF ClientOK
<1>7. ASSUME NEW d \in Client PROVE PairOK(s, d)'
  BY <1>3 DEF PairOK
<1>8. ASSUME NEW r \in Server, r # s PROVE PairOK(r, c)'
  <2>1. PairOK(r, c) /\ PairOK(s, c)
    BY Zenon DEF IInv, Parts
  <2>2. ~Waits(c, r)'
    BY <1>1, <1>3, ServersAssumption DEF Waits
  <2>3. body'[r] = body[r] /\ from'[r] = from[r] /\ taken'[r] = taken[r]
    BY <1>1, <1>3, <1>8, ServersAssumption, Zenon DEF Others, Thread
  <2>4. ~(Waits(c, r) /\ Waits(c, s))
    BY <1>1, <1>8, ServersAssumption, Zenon DEF Waits
  <2> QED
    BY <1>1, <2>1, <2>2, <2>3, <2>4, Zenon DEF PairOK
<1>9. \A r \in Server : PairOK(r, c)'
  BY <1>7, <1>8
<1> QED
  BY <1>3, <1>4, <1>5, <1>6, <1>7, <1>9, BothMove, Zenon DEF IInv

\* A confirmed registration is in the database.
LEMMA AnsweredNames ==
  ASSUME IInv, NEW c \in Client, NEW s \in Server, Answered(c, s)
  PROVE  ConfirmsOK' /\ HeldOK'
<1> DEFINE m == body[s]
<1>1. /\ body[s] # NoMsg /\ HasRc(body[s]) /\ from[s] = c /\ ~taken[s]
      /\ taken' = [taken EXCEPT ![s] = TRUE, ![c] = FALSE]
      /\ body' = body /\ from' = from /\ db' = db
  BY AnsweredFacts
<1>2. taken["name"] => taken'["name"]
  BY <1>1, ServersAssumption, Zenon DEF IInv, Types, Thread, Server
<1>3. ConfirmsOK'
  BY <1>1, <1>2, SameConfirms, Zenon DEF IInv
<1>4. HeldOK'
  <2>1. CASE c \in KThread /\ call[c].req = "reg" /\ m.rc = "OK" /\ ~Unregistering(m.arg)
    <3>1. held' = With(held, m.arg, c)
      BY <2>1, Zenon DEF Answered
    <3>2. s = "name" /\ m.req = "reg"
      BY <2>1, AnswerIsOwn, Zenon
    <3>3. m.arg \in DOMAIN db /\ db[m.arg] = c
      BY <1>1, <2>1, <3>2, Zenon DEF IInv, ConfirmsOK
    <3>4. \A n \in DOMAIN held' : (n = m.arg /\ held'[n] = c) \/ (n # m.arg /\ n \in DOMAIN held /\ held'[n] = held[n])
      BY <3>1, Zenon DEF With
    <3>5. \A n : Unregistering(n)' <=> Unregistering(n)
      BY <1>1, Zenon DEF Unregistering
    <3> QED
      BY <1>1, <2>1, <3>3, <3>4, <3>5, Zenon DEF IInv, HeldOK
  <2>2. CASE ~(c \in KThread /\ call[c].req = "reg" /\ m.rc = "OK" /\ ~Unregistering(m.arg))
    <3>1. held' = held
      BY <2>2 DEF Answered
    <3> QED
      BY <1>1, <3>1, SameHeld, Zenon DEF IInv
  <2> QED
    BY <2>1, <2>2, Zenon
<1> QED
  BY <1>3, <1>4, Zenon

\* What the library function returns is what the server did.
LEMMA AnsweredReturns ==
  ASSUME IInv, NEW c \in Client, NEW s \in Server, Answered(c, s)
  PROVE  AnswersMatch' /\ SuccessMeansDone'
<1> DEFINE m == body[s]
<1>1. /\ done' = [who |-> c, req |-> call[c], lpc |-> "OK", msg |-> m, out |-> StubOf(c, call[c], "OK", m.rc)]
      /\ masks' = masks /\ HasRc(m) /\ m.rc \in Rc
  BY AnsweredFacts, Zenon DEF Answered, Returns
<1>2. done'.who = c /\ done'.req = call[c] /\ done'.msg = m /\ done'.out = StubOf(c, call[c], "OK", m.rc)
  BY <1>1, Zenon
<1> HIDE DEF m
<1>3. AnswersMatch'
  <2>1. SUFFICES ASSUME call[c].req # "recv"
                 PROVE  m.to = call[c].to /\ m.req = call[c].req /\ m.arg = call[c].arg
    BY <1>2, Zenon DEF AnswersMatch
  <2> QED
    BY <2>1, AnswerIsOwn, Zenon DEF m
<1>4. SuccessMeansDone'
  <2>1. SUFFICES ASSUME StubOf(c, call[c], "OK", m.rc).ret = "0", call[c].req # "recv"
                 PROVE  /\ call[c].req = "setmask" => masks[c] = MaskOf(call[c].arg) \ {Kill}
                        /\ call[c].req = "getmask" => m.val = masks[c]
                        /\ call[c].req \in {"create", "lookup", "sbrk"} => m.val # Null
                        /\ call[c].req \in {"event", "procevent", "bcast"} => m.rc = "OK"
    BY <1>1, <1>2, Zenon DEF SuccessMeansDone
  <2>2. /\ call[c].to = s /\ call[c].req \in Services(s) \cup {"other"} /\ (c \in KThread => s = "name")
        /\ m.req = call[c].req /\ m.arg = call[c].arg /\ ResultOK(m, s, c)
    BY <2>1, AnswerIsOwn, Zenon DEF m
  <2>3. m.rc # "0"
    BY <1>1, Zenon DEF Rc
  <2>4. c \notin KThread
    <3>1. SUFFICES ASSUME c \in KThread PROVE FALSE
      OBVIOUS
    <3>2. StubOf(c, call[c], "OK", m.rc) = [ret |-> m.rc, errno |-> "OK"]
      BY <2>2, <3>1, Zenon DEF StubOf, StubKernel, User
    <3>3. StubOf(c, call[c], "OK", m.rc).ret = m.rc
      BY <3>2
    <3> QED
      BY <2>1, <2>3, <3>3, Zenon
  <2>5. ASSUME call[c].req \in {"setmask", "getmask", "create", "lookup", "sbrk", "event", "procevent", "bcast"}
        PROVE  m.rc = "OK"
    <3>1. call[c].to # "console" /\ call[c].req \notin {"reg", "unreg"}
      BY <2>2, <2>5 DEF Services
    <3>2. StubOf(c, call[c], "OK", m.rc) = Stub("OK", m.rc)
      BY <2>4, <3>1, Zenon DEF StubOf
    <3> QED
      BY <2>1, <3>2 DEF Stub
  <2> QED
    BY <1>1, <2>2, <2>5, Zenon DEF ResultOK
<1> QED
  BY <1>3, <1>4

\* All parts of the invariant when a client gets its answer
LEMMA AnsweredIInv ==
  ASSUME IInv, NEW c \in Client, NEW s \in Server, Answered(c, s)
  PROVE  IInv'
<1>1. UNCHANGED <<heap, given>>
  BY AnsweredFacts, Zenon
<1>2. HeapOK'
  BY <1>1 DEF IInv, HeapOK
<1> QED
  BY <1>2, AnsweredParts, AnsweredNames, AnsweredReturns, Zenon DEF IInv

-----------------------------------------------------------------------------
(***************************************************************************)
(* The steps of servers.                                                   *)
(***************************************************************************)
LEMMA RequestNoRc ==
  ASSUME NEW m, IsRequest(m)
  PROVE  ~HasRc(m)
<1>1. DOMAIN m = {"to", "req", "arg"}
  BY Zenon DEF IsRequest
<1> QED
  BY <1>1, Zenon DEF HasRc

\* A server takes a request, from its sender and for itself.
LEMMA AcceptIInv ==
  ASSUME IInv, NEW c \in Client, NEW s \in Server, Accept(s, c)
  PROVE  IInv'
<1>1. /\ want[s] = AnySrc /\ offer[c] = s /\ ~taken[c]
      /\ taken' = [taken EXCEPT ![c] = TRUE, ![s] = FALSE] /\ want' = [want EXCEPT ![s] = Null]
      /\ body' = [body EXCEPT ![s] = body[c]] /\ from' = [from EXCEPT ![s] = c]
      /\ done' = Null
      /\ UNCHANGED <<alive, call, db, masks, heap, menu, why, bare, mute, held, given>>
  BY Zenon DEF Accept, L!Take, stateVars, histVars
<1>2. offer[s] = Null /\ offer' = offer
  <2>1. offer[s] = Null
    BY <1>1, ServersAssumption, Zenon DEF IInv, Parts, ServerOK
  <2> QED
    BY <1>1, <2>1, ServersAssumption, Zenon DEF Accept, L!Take, L!InCall
<1>3. /\ want[c] = Null /\ call[c] # NoMsg /\ call[c].to = s /\ body[c] # NoMsg /\ IsRequest(body[c])
      /\ body[c].to = s /\ body[c].arg = call[c].arg /\ call[c].req \in {body[c].req, "bare"}
      /\ c \in KThread => s = "name"
  <2>1. ClientOK(c) /\ offer[c] # Null
    BY <1>1, ServersAssumption, Zenon DEF IInv, Parts
  <2> QED
    BY <1>1, <2>1, Zenon DEF ClientOK
<1>4. s # c
  BY ServersAssumption, Zenon
<1>5. /\ taken'[c] /\ ~taken'[s] /\ want'[s] = Null /\ want'[c] = Null /\ body'[s] = body[c] /\ body'[c] = body[c]
      /\ from'[s] = c /\ Others(s, c)
  BY <1>1, <1>2, <1>3, <1>4 DEF Others, IInv, Types, Thread
<1>6. Types'
  BY <1>1, <1>2, Zenon DEF IInv, Types, Thread
<1>7. Parts'
  <2>1. ServerOK(s)'
    BY <1>2, <1>3, <1>5, RequestNoRc, Zenon DEF ServerOK
  <2>2. ClientOK(c)'
    <3>1. ClientOK(c) /\ offer[c] # Null
      BY <1>1, ServersAssumption DEF IInv, Parts
    <3> QED
      BY <1>1, <1>2, <1>3, <1>5, <3>1, Zenon DEF ClientOK
  <2>3. PairOK(s, c)'
    BY <1>1, <1>2, <1>3, <1>5, RequestNoRc DEF PairOK, Waits, ResultOK
  <2>4. ASSUME NEW d \in Client PROVE PairOK(s, d)'
    BY <1>5, <2>3, Zenon DEF PairOK
  <2>5. ASSUME NEW r \in Server, r # s PROVE PairOK(r, c)'
    <3>1. PairOK(r, c)
      BY Zenon DEF IInv, Parts
    <3>2. ~Waits(c, r)' /\ ~Waits(c, r)
      BY <1>1, <1>2, <1>3, <1>5, <2>5, ServersAssumption DEF Waits
    <3>3. body'[r] = body[r] /\ from'[r] = from[r] /\ taken'[r] = taken[r]
      BY <1>1, <2>5, ServersAssumption DEF IInv, Types, Thread
    <3> QED
      BY <1>1, <3>1, <3>2, <3>3, Zenon DEF PairOK
  <2>6. \A r \in Server : PairOK(r, c)'
    BY <2>4, <2>5
  <2> QED
    BY <1>5, <2>1, <2>2, <2>4, <2>6, BothMove, Zenon DEF IInv
<1>8. ConfirmsOK'
  <2>1. CASE s = "name"
    BY <1>3, <1>5, <2>1, RequestNoRc, Zenon DEF ConfirmsOK
  <2>2. CASE s # "name"
    <3>1. body'["name"] = body["name"] /\ from'["name"] = from["name"] /\ taken["name"] = taken'["name"]
      BY <1>1, <2>2, ServersAssumption, Zenon DEF IInv, Types, Thread, Server
    <3> QED
      BY <1>1, <3>1, SameConfirms DEF IInv
  <2> QED
    BY <2>1, <2>2
<1>9. HeldOK'
  <2>1. \A t \in Thread : body'[t] = body[t] \/ body'[t] = body[c]
    BY <1>1 DEF IInv, Types
  <2>2. c \in Thread
    BY Zenon DEF Thread
  <2> QED
    BY <1>1, <2>1, <2>2, SameHeld, Zenon DEF IInv
<1>10. HeapOK' /\ AnswersMatch' /\ SuccessMeansDone'
  BY <1>1, NoReturn, Zenon DEF IInv, HeapOK
<1> QED
  BY <1>6, <1>7, <1>8, <1>9, <1>10, Zenon DEF IInv

\* A server that has no message is not in a reply.
LEMMA IdleIInv ==
  ASSUME IInv, NEW s \in Server, Others(s, s), Types',
         body'[s] = NoMsg, offer'[s] = Null, ~taken'[s], want'[s] \in {Null, AnySrc},
         from' = from \/ from' = [from EXCEPT ![s] = Null],
         taken' = taken \/ taken' = [taken EXCEPT ![s] = FALSE],
         done' = Null, UNCHANGED <<db, held, heap, given>>
  PROVE  IInv'
<1>1. \A t \in Thread : t # s => body'[t] = body[t]
  BY Zenon DEF Others
<1>2. ServerOK(s)'
  BY Zenon DEF ServerOK
<1>3. \A c \in Client : PairOK(s, c)'
  BY Zenon DEF PairOK
<1>4. Parts'
  BY <1>2, <1>3, ServerMoves, Zenon DEF IInv
<1>5. ConfirmsOK'
  <2>1. CASE s = "name"
    BY <2>1, Zenon DEF ConfirmsOK
  <2>2. CASE s # "name"
    <3>1. body'["name"] = body["name"] /\ from'["name"] = from["name"] /\ (taken["name"] => taken'["name"])
      BY <1>1, <2>2 DEF IInv, Types, Thread, Server
    <3> QED
      BY <3>1, SameConfirms, Zenon DEF IInv
  <2> QED
    BY <2>1, <2>2, Zenon
<1>6. HeldOK'
  <2>1. \A t \in Thread : body'[t] # NoMsg => body'[t] = body[t]
    BY <1>1, Zenon
  <2> QED
    BY <2>1, SameHeld, Zenon DEF IInv
<1>7. HeapOK' /\ AnswersMatch' /\ SuccessMeansDone'
  BY NoReturn, Zenon DEF IInv, HeapOK
<1> QED
  BY <1>4, <1>5, <1>6, <1>7, Zenon DEF IInv

\* The loop of a server: it listens, and forgets a request that gets no answer.
LEMMA ListenIInv ==
  ASSUME IInv, NEW s \in Server, Listen(s)
  PROVE  IInv'
<1>1. /\ body[s] = NoMsg /\ offer[s] = Null /\ want' = [want EXCEPT ![s] = AnySrc]
      /\ done' = Null
      /\ UNCHANGED <<alive, offer, taken, body, from, call, db, masks, heap, menu, why, bare, mute, held, given>>
  BY Zenon DEF Listen, L!Receive, L!InCall, stateVars, histVars
<1>2. Types' /\ Others(s, s) /\ want'[s] = AnySrc
  BY <1>1 DEF IInv, Types, Thread, Others
<1>3. ~taken[s]
  BY <1>1, Zenon DEF IInv, Parts, ServerOK
<1> QED
  BY <1>1, <1>2, <1>3, IdleIInv, Zenon

LEMMA ForgetIInv ==
  ASSUME IInv, NEW s \in Server, Forget(s)
  PROVE  IInv'
<1>1. /\ offer[s] = Null /\ want[s] = Null /\ body' = [body EXCEPT ![s] = NoMsg]
      /\ done' = Null
      /\ UNCHANGED <<alive, offer, taken, want, from, call, db, masks, heap, menu, why, bare, mute, held, given>>
  BY Zenon DEF Forget, L!InCall, lpcVars, stateVars, histVars
<1>2. Types' /\ Others(s, s) /\ body'[s] = NoMsg
  BY <1>1, Zenon DEF IInv, Types, Thread, Others
<1>3. ~taken[s]
  BY <1>1, Zenon DEF IInv, Parts, ServerOK
<1> QED
  BY <1>1, <1>2, <1>3, IdleIInv

\* A reply that was taken, that fails, and that starts
LEMMA ReplyDoneIInv ==
  ASSUME IInv, NEW s \in Server, ReplyDone(s)
  PROVE  IInv'
<1>1. /\ taken[s] /\ offer' = [offer EXCEPT ![s] = Null] /\ taken' = [taken EXCEPT ![s] = FALSE]
      /\ body' = [body EXCEPT ![s] = NoMsg] /\ from' = [from EXCEPT ![s] = Null]
      /\ done' = Null
      /\ UNCHANGED <<alive, want, call, db, masks, heap, menu, why, bare, mute, held, given>>
  BY Zenon DEF ReplyDone, L!SendDone, stateVars, histVars
<1>2. Types' /\ Others(s, s) /\ offer'[s] = Null /\ ~taken'[s] /\ body'[s] = NoMsg
  BY <1>1, Zenon DEF IInv, Types, Thread, Others
<1>3. want[s] \in {Null, AnySrc}
  BY Zenon DEF IInv, Parts, ServerOK
<1> QED
  BY <1>1, <1>2, <1>3, IdleIInv, Zenon

LEMMA ReplyFailsIInv ==
  ASSUME IInv, NEW s \in Server, NEW rc, ReplyFails(s, rc)
  PROVE  IInv'
<1>1. /\ offer' = [offer EXCEPT ![s] = Null] /\ body' = [body EXCEPT ![s] = NoMsg]
      /\ offer[s] = Null \/ ~taken[s]
      /\ done' = Null
      /\ why' \in {why, "reply"}
      /\ UNCHANGED <<alive, taken, want, from, call, db, masks, heap, menu, bare, held, given>>
  BY Zenon DEF ReplyFails, L!SendFails, L!InCall, stateVars
<1>2. Types' /\ Others(s, s) /\ offer'[s] = Null /\ body'[s] = NoMsg
  BY <1>1 DEF IInv, Types, Thread, Others
<1>3. want[s] \in {Null, AnySrc} /\ ~taken[s]
  BY <1>1, Zenon DEF IInv, Parts, ServerOK
<1> QED
  BY <1>1, <1>2, <1>3, IdleIInv, Zenon

LEMMA ReplyIInv ==
  ASSUME IInv, NEW s \in Server, Reply(s)
  PROVE  IInv'
<1>1. /\ offer[s] = Null /\ want[s] = Null /\ body[s] # NoMsg /\ HasRc(body[s])
      /\ offer' = [offer EXCEPT ![s] = from[s]]
      /\ done' = Null
      /\ UNCHANGED <<alive, taken, want, body, from, call, db, masks, heap, menu, why, bare, mute, held, given>>
  BY Zenon DEF Reply, HasAnswer, HasRc, L!Send, L!InCall, stateVars, histVars
<1>2. ServerOK(s) /\ from[s] \in Client
  BY <1>1, Zenon DEF IInv, Parts, ServerOK
<1>3. Types' /\ Others(s, s) /\ offer'[s] = from[s]
  BY <1>1, <1>2, Zenon DEF IInv, Types, Thread, Others
<1>4. ServerOK(s)'
  BY <1>1, <1>2, <1>3, Zenon DEF ServerOK
<1>5. ASSUME NEW c \in Client PROVE PairOK(s, c)'
  <2>1. PairOK(s, c) /\ s # c
    BY ServersAssumption DEF IInv, Parts
  <2>2. offer'[c] = offer[c]
    BY <1>3, <2>1, Zenon DEF Others, Thread
  <2> QED
    BY <1>1, <2>1, <2>2, Zenon DEF PairOK, Waits, ResultOK
<1>6. Parts'
  BY <1>3, <1>4, <1>5, ServerMoves, Zenon DEF IInv
<1>7. ConfirmsOK' /\ HeldOK'
  BY <1>1, SameConfirms, SameHeld, Zenon DEF IInv
<1>8. HeapOK' /\ AnswersMatch' /\ SuccessMeansDone'
  BY <1>1, NoReturn, Zenon DEF IInv, HeapOK
<1> QED
  BY <1>3, <1>6, <1>7, <1>8, Zenon DEF IInv

\* The kernel stops.
LEMMA StopIInv ==
  ASSUME IInv, why' \in {"no", "namefault", "reply", "kns"},
         UNCHANGED <<alive, offer, taken, want, body, from, call, db, masks, heap, menu, bare, mute, held, given>>
  PROVE  Types' /\ Parts' /\ ConfirmsOK' /\ HeldOK' /\ HeapOK'
<1>1. Types'
  BY Zenon DEF IInv, Types
<1>2. \A s \in Server : ServerOK(s)'
  BY Zenon DEF IInv, Parts, ServerOK
<1>3. \A c \in Client : ClientOK(c)'
  BY Zenon DEF IInv, Parts, ClientOK
<1>4. ASSUME NEW s \in Server, NEW c \in Client PROVE PairOK(s, c)'
  <2>1. PairOK(s, c)
    BY Zenon DEF IInv, Parts
  <2> QED
    BY <2>1, Zenon DEF PairOK, Waits, ResultOK
<1>5. ConfirmsOK' /\ HeldOK'
  BY SameConfirms, SameHeld, Zenon DEF IInv
<1>6. HeapOK'
  BY Zenon DEF IInv, HeapOK
<1> QED
  BY <1>1, <1>2, <1>3, <1>4, <1>5, <1>6, Zenon DEF Parts, Server

-----------------------------------------------------------------------------
(***************************************************************************)
(* A server answers.                                                       *)
(***************************************************************************)
LEMMA AnswerFacts ==
  ASSUME IInv, NEW s \in Server, NEW rc, NEW val, body[s] # NoMsg, ~HasRc(body[s]), ~L!InCall(s), Answer(s, rc, val)
  PROVE  /\ offer[s] = Null /\ want[s] = Null /\ ~taken[s]
         /\ from[s] \in Client /\ (from[s] \in KThread => s = "name") /\ IsRequest(body[s]) /\ body[s].to = s
         /\ \A t \in Thread : t # s => body'[t] = body[t]
         /\ DOMAIN body' = Thread
         /\ done' = Null
         /\ UNCHANGED <<offer, taken, want, from, call, menu, why, bare, mute, held>>
<1>1. offer[s] = Null /\ want[s] = Null
  BY Zenon DEF L!InCall
<1>2. ServerOK(s) /\ body[s] # NoMsg /\ ~HasRc(body[s])
  BY DEF IInv, Parts
<1>3. /\ ~taken[s] /\ from[s] \in Client /\ (from[s] \in KThread => s = "name") /\ IsRequest(body[s]) /\ body[s].to = s
  BY <1>1, <1>2, Zenon DEF ServerOK
<1>4. /\ \A t \in Thread : t # s => body'[t] = body[t]
      /\ DOMAIN body' = Thread
      /\ done' = Null
      /\ UNCHANGED <<offer, taken, want, from, call, menu, why, bare, mute, held>>
  BY Zenon DEF Answer, lpcVars, IInv, Types, Thread
<1> QED
  BY <1>1, <1>3, <1>4, Zenon

\* The fields of a record
LEMMA AnswerFields ==
  ASSUME NEW a, NEW to, NEW req, NEW arg, NEW rc, NEW val,
         a = [to |-> to, req |-> req, arg |-> arg, rc |-> rc, val |-> val]
  PROVE  a.to = to /\ a.req = req /\ a.arg = arg /\ a.rc = rc /\ a.val = val /\ HasRc(a)
BY DEF HasRc

\* The answer as a message
LEMMA AnswerMessage ==
  ASSUME IInv, NEW s \in Server, NEW rc, NEW val, body[s] # NoMsg, ~HasRc(body[s]), ~L!InCall(s), Answer(s, rc, val)
  PROVE  /\ body'[s] # NoMsg /\ HasRc(body'[s]) /\ body'[s].rc = rc /\ body'[s].val = val /\ body'[s].to = s
         /\ body'[s].req = body[s].req /\ body'[s].arg = body[s].arg
<1>1. body'[s] = [to |-> body[s].to, req |-> body[s].req, arg |-> body[s].arg, rc |-> rc, val |-> val]
  <2>1. DOMAIN body = Thread /\ s \in Thread
    BY Zenon DEF IInv, Types, Thread
  <2>2. body' = [body EXCEPT ![s] = [to |-> @.to, req |-> @.req, arg |-> @.arg, rc |-> rc, val |-> val]]
    BY Zenon DEF Answer
  <2> QED
    BY <2>1, <2>2
<1>2. /\ body'[s].to = body[s].to /\ body'[s].req = body[s].req /\ body'[s].arg = body[s].arg
      /\ body'[s].rc = rc /\ body'[s].val = val /\ HasRc(body'[s])
  BY <1>1, AnswerFields
<1>3. body[s].to = s
  BY AnswerFacts, Zenon
<1>4. NoMsg.to = Null
  BY DEF NoMsg
<1> QED
  BY <1>2, <1>3, <1>4, ServersAssumption, Zenon

\* A handler fills in its answer: places of the threads, and names.
LEMMA AnswerParts ==
  ASSUME IInv, NEW s \in Server, NEW rc \in Rc, NEW val,
         body[s] # NoMsg, ~HasRc(body[s]), ~L!InCall(s), Answer(s, rc, val),
         alive \subseteq alive', alive' \subseteq Thread,
         masks' \in [Client -> SUBSET (Event \ {Kill})],
         \A c \in Client : c \in alive => masks'[c] = masks[c] \/ (s = "thr" /\ c = from[s]),
         ResultOK(body[s], s, from[s])',
         \A n \in DOMAIN db' : db'[n] \in Thread
  PROVE  Types' /\ Parts'
<1>0. PICK c \in Client : c = from[s]
  BY AnswerFacts, Zenon
<1>1. /\ offer[s] = Null /\ want[s] = Null /\ ~taken[s]
      /\ (c \in KThread => s = "name") /\ IsRequest(body[s]) /\ body[s].to = s
      /\ \A t \in Thread : t # s => body'[t] = body[t]
      /\ DOMAIN body' = Thread
      /\ UNCHANGED <<offer, taken, want, from, call, menu, why, bare>>
  BY <1>0, AnswerFacts, Zenon
<1>2. /\ body'[s] # NoMsg /\ HasRc(body'[s]) /\ body'[s].rc = rc /\ body'[s].to = s
      /\ body'[s].req = body[s].req /\ body'[s].arg = body[s].arg
      /\ body'[s].req \in Services(s) \cup {"other"}
  <2>1. /\ body'[s] # NoMsg /\ HasRc(body'[s]) /\ body'[s].rc = rc /\ body'[s].to = s
        /\ body'[s].req = body[s].req /\ body'[s].arg = body[s].arg
    BY AnswerMessage, Zenon
  <2>2. body[s].req \in Services(s) \cup {"other"}
    BY <1>1, Zenon DEF IsRequest
  <2> QED
    BY <2>1, <2>2, Zenon
<1>3. Types'
  BY <1>1, Zenon DEF IInv, Types
<1>4. ServerOK(s)'
  BY <1>0, <1>1, <1>2, Zenon DEF ServerOK
<1>5. ClientOK(c)'
  <2>1. body'[c] = body[c] /\ ClientOK(c)
    BY <1>1, ServersAssumption, Zenon DEF IInv, Parts, Thread
  <2> QED
    BY <1>1, <2>1, SameClientOK, Zenon DEF SameClient, ClientOK
<1>6. ASSUME NEW d \in Client PROVE PairOK(s, d)'
  <2>1. SUFFICES ASSUME d = c PROVE PairOK(s, d)'
    BY <1>0, <1>1, Zenon DEF PairOK
  <2>2. PairOK(s, d)
    BY Zenon DEF IInv, Parts
  <2>3. Waits(d, s)' = Waits(d, s)
    BY <1>1, Zenon DEF Waits
  <2>4. ResultOK(body[s], s, d)'
    BY <1>0, <1>1, <2>1, Zenon
  <2> QED
    BY <1>1, <1>2, <2>1, <2>2, <2>3, <2>4, Zenon DEF PairOK
<1>7. ASSUME NEW r \in Server, r # s PROVE PairOK(r, c)'
  <2>1. PairOK(r, c) /\ ClientOK(c)
    BY <1>1, Zenon DEF IInv, Parts
  <2>2. Waits(c, r)' = Waits(c, r) /\ body'[r] = body[r]
    BY <1>1, <1>7, Zenon DEF Waits, Thread
  <2>3. Waits(c, r) /\ ResultOK(body[r], r, c) => ResultOK(body[r], r, c)'
    <3>1. Waits(c, r) => masks'[c] = masks[c] \/ r # "thr"
      BY <1>0, <1>7, <2>1, WaitsInCall, Zenon
    <3> QED
      BY <2>2, <3>1, Zenon DEF ResultOK
  <2> QED
    BY <1>1, <2>1, <2>2, <2>3, Zenon DEF PairOK
<1>8. Others(s, c)
  BY <1>0, <1>1, Zenon DEF Others
<1>9. \A r \in Server : PairOK(r, c)'
  BY <1>1, <1>6, <1>7, Zenon
<1>10. Parts'
  BY <1>1, <1>4, <1>5, <1>6, <1>8, <1>9, BothMove, Zenon DEF IInv
<1> QED
  BY <1>3, <1>10, Zenon

LEMMA AnswerNames ==
  ASSUME IInv, NEW s \in Server, NEW rc, NEW val,
         body[s] # NoMsg, ~HasRc(body[s]), ~L!InCall(s), Answer(s, rc, val),
         db' = db, body[s].req = "reg" => rc # "OK"
  PROVE  ConfirmsOK' /\ HeldOK'
<1>1. /\ \A t \in Thread : t # s => body'[t] = body[t]
      /\ UNCHANGED <<taken, from, held>>
  BY AnswerFacts, Zenon
<1>2. body'[s].req = body[s].req /\ body'[s].arg = body[s].arg /\ body'[s].rc = rc
  BY AnswerMessage, Zenon
<1>3. ConfirmsOK'
  <2>1. CASE s = "name"
    BY <1>2, <2>1, Zenon DEF ConfirmsOK
  <2>2. CASE s # "name"
    <3>1. body'["name"] = body["name"]
      BY <1>1, <2>2, Zenon DEF Thread, Server
    <3> QED
      BY <1>1, <3>1, SameConfirms, Zenon DEF IInv
  <2> QED
    BY <2>1, <2>2, Zenon
<1>4. HeldOK'
  <2>1. ASSUME NEW t \in Thread, body'[t] # NoMsg
        PROVE  \E u \in Thread : body[u] # NoMsg /\ body'[t].req = body[u].req /\ body'[t].arg = body[u].arg
    BY <1>1, <1>2, <2>1, Zenon
  <2> QED
    BY <1>1, <2>1, SameHeld, Zenon DEF IInv
<1> QED
  BY <1>3, <1>4, Zenon

\* An answer that changes nothing but the message
LEMMA PlainAnswer ==
  ASSUME IInv, NEW s \in Server, NEW rc \in Rc, NEW val,
         body[s] # NoMsg, ~HasRc(body[s]), ~L!InCall(s), Answer(s, rc, val),
         UNCHANGED <<alive, db, masks, heap, given>>,
         ResultOK(body[s], s, from[s])', body[s].req = "reg" => rc # "OK"
  PROVE  IInv'
<1>1. alive \subseteq alive' /\ alive' \subseteq Thread
  BY Zenon DEF IInv, Types
<1>2. masks' \in [Client -> SUBSET (Event \ {Kill})] /\ \A n \in DOMAIN db' : db'[n] \in Thread
  BY Zenon DEF IInv, Types
<1>3. Types' /\ Parts'
  BY <1>1, <1>2, AnswerParts
<1>4. ConfirmsOK' /\ HeldOK'
  BY AnswerNames, Zenon
<1>5. done' = Null
  BY AnswerFacts, Zenon
<1>6. HeapOK' /\ AnswersMatch' /\ SuccessMeansDone'
  BY <1>5, NoReturn, Zenon DEF IInv, HeapOK
<1> QED
  BY <1>3, <1>4, <1>6, Zenon DEF IInv

\* What an answer says holds when it is made.
LEMMA AnswerResult ==
  ASSUME IInv, NEW s \in Server, NEW rc, NEW val,
         body[s] # NoMsg, ~HasRc(body[s]), ~L!InCall(s), Answer(s, rc, val),
         rc = "OK" =>
           /\ body[s].req = "setmask" => s = "thr" /\ masks'[from[s]] = MaskOf(body[s].arg) \ {Kill}
           /\ body[s].req = "getmask" => s = "thr" /\ val = masks'[from[s]]
           /\ body[s].req \in {"create", "lookup", "sbrk"} => val # Null
  PROVE  ResultOK(body[s], s, from[s])'
<1>1. from' = from
  BY AnswerFacts, Zenon
<1>2. body'[s].req = body[s].req /\ body'[s].arg = body[s].arg /\ body'[s].rc = rc /\ body'[s].val = val
  BY AnswerMessage
<1> QED
  BY <1>1, <1>2 DEF ResultOK

\* A handler works on a request that has no answer yet.
LEMMA WorksFacts ==
  ASSUME NEW s, NEW req, Works(s, req)
  PROVE  body[s] # NoMsg /\ ~HasRc(body[s]) /\ ~L!InCall(s) /\ body[s].req = req
BY DEF Works, HasRc

\* An answer that says nothing: an error, or of a request without a result
LEMMA MereAnswer ==
  ASSUME IInv, NEW s \in Server, NEW req, Works(s, req), NEW rc \in Rc, NEW val, Answer(s, rc, val), Plain,
         rc = "OK" => req \notin {"setmask", "getmask", "create", "lookup", "sbrk", "reg"}
  PROVE  IInv'
<1>1. body[s] # NoMsg /\ ~HasRc(body[s]) /\ ~L!InCall(s) /\ body[s].req = req
  BY WorksFacts
<1>2. ResultOK(body[s], s, from[s])'
  BY <1>1, AnswerResult, Zenon
<1>3. UNCHANGED <<alive, db, masks, heap, given>>
  BY DEF Plain, stateVars
<1> QED
  BY <1>1, <1>2, <1>3, PlainAnswer, Zenon

\* The handlers of the name server
LEMMA NameFaultIInv ==
  ASSUME IInv, NameFault
  PROVE  IInv'
<1>1. PICK req \in {"reg", "unreg", "lookup", "other"} : Works("name", req)
  BY Zenon DEF NameFault
<1>2. CASE body["name"].arg = "bad"
  <2>1. Answer("name", "EFAULT", Null) /\ Plain
    BY <1>2, Zenon DEF NameFault
  <2> QED
    BY <1>1, <2>1, MereAnswer, Zenon DEF Rc, Server
<1>3. CASE body["name"].arg # "bad"
  <2>1. /\ why' = "namefault" /\ done' = Null
        /\ UNCHANGED <<alive, offer, taken, want, body, from, call, db, masks, heap, menu, bare, mute, held, given>>
    BY <1>3, Zenon DEF NameFault, lpcVars, stateVars, histVars
  <2> QED
    BY <2>1, StopIInv, NoReturn, Zenon DEF IInv
<1> QED
  BY <1>2, <1>3, Zenon

LEMMA HandleLookupIInv ==
  ASSUME IInv, HandleLookup
  PROVE  IInv'
<1> DEFINE n == body["name"].arg
<1>1. Works("name", "lookup") /\ Plain /\ "name" \in Server
  BY Zenon DEF HandleLookup, Server
<1>2. CASE n \in DOMAIN db
  <2>1. Answer("name", "OK", db[n])
    BY <1>2, Zenon DEF HandleLookup
  <2>2. body["name"] # NoMsg /\ ~HasRc(body["name"]) /\ ~L!InCall("name") /\ body["name"].req = "lookup"
    BY <1>1, WorksFacts, Zenon
  <2>3. db[n] # Null
    BY <1>2, ServersAssumption DEF IInv, Types, Thread
  <2>4. ResultOK(body["name"], "name", from["name"])'
    BY <1>1, <2>1, <2>2, <2>3, AnswerResult, Zenon
  <2>5. UNCHANGED <<alive, db, masks, heap, given>> /\ "OK" \in Rc
    BY <1>1, Zenon DEF Plain, stateVars, Rc
  <2> QED
    BY <1>1, <2>1, <2>2, <2>4, <2>5, PlainAnswer, Zenon
<1>3. CASE n \notin DOMAIN db
  <2>1. Answer("name", "ENOENT", Null)
    BY <1>3, Zenon DEF HandleLookup
  <2> QED
    BY <1>1, <2>1, MereAnswer, Zenon DEF Rc
<1> QED
  BY <1>2, <1>3, Zenon

\* Handlers whose answer says nothing but that they are done
LEMMA MereHandlersIInv ==
  ASSUME IInv, HandlePrint \/ HandleSendEvent \/ HandleGetThreadResource
  PROVE  IInv'
<1>1. CASE HandlePrint
  <2>1. Works("console", "print") /\ Plain /\ \E rc \in {"EFAULT", "OK"} : Answer("console", rc, Null)
    BY <1>1, Zenon DEF HandlePrint
  <2> QED
    BY <2>1, MereAnswer DEF Rc, Server
<1>2. CASE HandleSendEvent
  <2>1. /\ \E req \in {"event", "procevent", "bcast"} : Works("proc", req)
        /\ Plain /\ \E rc \in {"OK", "ENOENT", "ENOMEM"} : Answer("proc", rc, Null)
    BY <1>2, Zenon DEF HandleSendEvent
  <2> QED
    BY <2>1, MereAnswer, Zenon DEF Rc, Server
<1>3. CASE HandleGetThreadResource
  <2>1. Works("proc", "rusage") /\ Plain /\ \E rc \in {"OK", "ENOENT"} : Answer("proc", rc, Null)
    BY <1>3, Zenon DEF HandleGetThreadResource
  <2> QED
    BY <2>1, MereAnswer DEF Rc, Server
<1> QED
  BY <1>1, <1>2, <1>3, Zenon

\* A request that no handler is for
LEMMA HandleOtherIInv ==
  ASSUME IInv, NEW s \in Server, HandleOther(s)
  PROVE  IInv'
<1>1. Works(s, "other") /\ Plain /\ \E rc \in {"EINVAL", "ENOSYS"} : Answer(s, rc, Null)
  BY Zenon DEF HandleOther
<1> QED
  BY <1>1, MereAnswer, Zenon DEF Rc

\* A name is registered for the sender, unless it is taken.
LEMMA HandleRegisterIInv ==
  ASSUME IInv, HandleRegister
  PROVE  IInv'
<1> DEFINE n == body["name"].arg
<1>1. Works("name", "reg") /\ "name" \in Server /\ UNCHANGED <<alive, masks, heap, given>>
  BY Zenon DEF HandleRegister, Server
<1>2. body["name"] # NoMsg /\ ~HasRc(body["name"]) /\ ~L!InCall("name") /\ body["name"].req = "reg"
  BY <1>1, WorksFacts, Zenon
<1>3. ASSUME NEW rc \in {"ENOMEM", "EBUSY"}, Answer("name", rc, Null), UNCHANGED db PROVE IInv'
  <2>1. Plain
    BY <1>1, <1>3, Zenon DEF Plain, stateVars
  <2> QED
    BY <1>1, <1>3, <2>1, MereAnswer, Zenon DEF Rc
<1>4. ASSUME n \notin DOMAIN db, db' = With(db, n, from["name"]), Answer("name", "OK", from["name"]) PROVE IInv'
  <2>1. /\ from["name"] \in Client /\ UNCHANGED <<from, held>> /\ done' = Null
        /\ \A t \in Thread : t # "name" => body'[t] = body[t]
    BY <1>1, <1>2, <1>4, AnswerFacts, Zenon
  <2>2. DOMAIN db' = DOMAIN db \cup {n} /\ db'[n] = from["name"] /\ \A x \in DOMAIN db : db'[x] = db[x]
    BY <1>4, Zenon DEF With
  <2>3. Types' /\ Parts'
    <3>1. ResultOK(body["name"], "name", from["name"])'
      BY <1>1, <1>2, <1>4, AnswerResult, Zenon
    <3>2. \A x \in DOMAIN db' : db'[x] \in Thread
      BY <2>1, <2>2, Zenon DEF IInv, Types, Thread
    <3>3. "OK" \in Rc /\ alive \subseteq alive' /\ alive' \subseteq Thread /\ masks' \in [Client -> SUBSET (Event \ {Kill})]
      BY <1>1, Zenon DEF IInv, Types, Rc
    <3> QED
      BY <1>1, <1>2, <1>4, <3>1, <3>2, <3>3, AnswerParts, Zenon
  <2>4. body'["name"].arg = n /\ body'["name"].req = "reg"
    BY <1>1, <1>2, <1>4, AnswerMessage, Zenon
  <2>5. ConfirmsOK'
    BY <2>1, <2>2, <2>4, Zenon DEF ConfirmsOK
  <2>6. HeldOK'
    <3>1. ASSUME NEW x, Unregistering(x)' PROVE Unregistering(x)
      <4>1. PICK t \in Thread : body'[t] # NoMsg /\ body'[t].req = "unreg" /\ body'[t].arg = x
        BY <3>1, Zenon DEF Unregistering, Thread
      <4>2. t # "name"
        BY <2>4, <4>1, Zenon
      <4> QED
        BY <2>1, <4>1, <4>2, Zenon DEF Unregistering, Thread
    <3> QED
      BY <2>1, <2>2, <3>1, Zenon DEF IInv, HeldOK
  <2>7. HeapOK' /\ AnswersMatch' /\ SuccessMeansDone'
    BY <1>1, <2>1, NoReturn, Zenon DEF IInv, HeapOK
  <2> QED
    BY <2>3, <2>5, <2>6, <2>7, Zenon DEF IInv
<1> QED
  BY <1>3, <1>4, Zenon DEF HandleRegister

\* A name is unregistered, whoever asks.
LEMMA HandleUnregisterIInv ==
  ASSUME IInv, HandleUnregister
  PROVE  IInv'
<1> DEFINE n == body["name"].arg
<1>1. /\ Works("name", "unreg") /\ "name" \in Server /\ UNCHANGED <<alive, masks, heap, given>>
      /\ db' = [x \in DOMAIN db \ {n} |-> db[x]]
  BY Zenon DEF HandleUnregister, Server
<1>2. body["name"] # NoMsg /\ ~HasRc(body["name"]) /\ ~L!InCall("name") /\ body["name"].req = "unreg"
  BY <1>1, WorksFacts, Zenon
<1>3. PICK rc \in {"OK", "ENOENT"} : Answer("name", rc, Null)
  BY DEF HandleUnregister
<1>4. /\ UNCHANGED <<from, held>> /\ done' = Null
      /\ \A t \in Thread : t # "name" => body'[t] = body[t]
  BY <1>1, <1>2, <1>3, AnswerFacts, Zenon
<1>5. body'["name"].arg = n /\ body'["name"].req = "unreg"
  BY <1>1, <1>2, <1>3, AnswerMessage, Zenon
<1>6. Types' /\ Parts'
  <2>1. ResultOK(body["name"], "name", from["name"])'
    BY <1>1, <1>2, <1>3, AnswerResult, Zenon
  <2>2. \A x \in DOMAIN db' : db'[x] \in Thread
    BY <1>1, Zenon DEF IInv, Types
  <2>3. rc \in Rc /\ alive \subseteq alive' /\ alive' \subseteq Thread /\ masks' \in [Client -> SUBSET (Event \ {Kill})]
    BY <1>1, Zenon DEF IInv, Types, Rc
  <2> QED
    BY <1>1, <1>2, <1>3, <2>1, <2>2, <2>3, AnswerParts, Zenon
<1>7. ConfirmsOK'
  BY <1>5, Zenon DEF ConfirmsOK
<1>8. HeldOK'
  <2>1. ASSUME NEW x, Unregistering(x)' PROVE Unregistering(x)
    <3>1. PICK t \in Thread : body'[t] # NoMsg /\ body'[t].req = "unreg" /\ body'[t].arg = x
      BY <2>1, Zenon DEF Unregistering, Thread
    <3>2. CASE t = "name"
      BY <1>2, <1>5, <3>1, <3>2, Zenon DEF Unregistering, Server
    <3>3. CASE t # "name"
      BY <1>4, <3>1, <3>3, Zenon DEF Unregistering, Thread
    <3> QED
      BY <3>2, <3>3, Zenon
  <2>2. Unregistering(n)
    BY <1>2, Zenon DEF Unregistering, Server
  <2> QED
    BY <1>1, <1>4, <2>1, <2>2, Zenon DEF IInv, HeldOK
<1>9. HeapOK' /\ AnswersMatch' /\ SuccessMeansDone'
  BY <1>1, <1>4, NoReturn, Zenon DEF IInv, HeapOK
<1> QED
  BY <1>6, <1>7, <1>8, <1>9, Zenon DEF IInv

\* The thread server reads and sets the mask of the sender.
LEMMA HandleGetEvmaskIInv ==
  ASSUME IInv, HandleGetEvmask
  PROVE  IInv'
<1>1. Works("thr", "getmask") /\ Plain /\ "thr" \in Server
  BY Zenon DEF HandleGetEvmask, Server
<1>2. CASE SenderFound("thr")
  <2>1. Answer("thr", "OK", masks[from["thr"]])
    BY <1>2, Zenon DEF HandleGetEvmask
  <2>2. body["thr"] # NoMsg /\ ~HasRc(body["thr"]) /\ ~L!InCall("thr") /\ body["thr"].req = "getmask"
    BY <1>1, WorksFacts, Zenon
  <2>3. UNCHANGED <<alive, db, masks, heap, given>> /\ "OK" \in Rc
    BY <1>1, Zenon DEF Plain, stateVars, Rc
  <2>4. ResultOK(body["thr"], "thr", from["thr"])'
    BY <1>1, <2>1, <2>2, <2>3, AnswerResult, Zenon
  <2> QED
    BY <1>1, <2>1, <2>2, <2>3, <2>4, PlainAnswer, Zenon
<1>3. CASE ~SenderFound("thr")
  <2>1. Answer("thr", "ENOENT", Null)
    BY <1>3, Zenon DEF HandleGetEvmask
  <2> QED
    BY <1>1, <2>1, MereAnswer, Zenon DEF Rc
<1> QED
  BY <1>2, <1>3, Zenon

LEMMA HandleSetEvmaskIInv ==
  ASSUME IInv, HandleSetEvmask
  PROVE  IInv'
<1>1. Works("thr", "setmask") /\ "thr" \in Server /\ UNCHANGED <<alive, db, heap, given>>
  BY Zenon DEF HandleSetEvmask, Server
<1>2. body["thr"] # NoMsg /\ ~HasRc(body["thr"]) /\ ~L!InCall("thr") /\ body["thr"].req = "setmask"
  BY <1>1, WorksFacts, Zenon
<1>3. CASE SenderFound("thr")
  <2>1. Answer("thr", "OK", Null) /\ masks' = [masks EXCEPT ![from["thr"]] = MaskOf(body["thr"].arg) \ {Kill}]
    BY <1>3 DEF HandleSetEvmask
  <2>2. from["thr"] \in Client /\ done' = Null
    BY <1>1, <1>2, <2>1, AnswerFacts, Zenon
  <2>3. masks' \in [Client -> SUBSET (Event \ {Kill})] /\ masks'[from["thr"]] = MaskOf(body["thr"].arg) \ {Kill}
    BY <2>1, <2>2, Zenon DEF IInv, Types, MaskOf
  <2>4. \A c \in Client : c \in alive => masks'[c] = masks[c] \/ ("thr" = "thr" /\ c = from["thr"])
    BY <2>1 DEF IInv, Types
  <2>5. ResultOK(body["thr"], "thr", from["thr"])'
    BY <1>1, <1>2, <2>1, <2>3, AnswerResult, Zenon
  <2>6. "OK" \in Rc /\ alive \subseteq alive' /\ alive' \subseteq Thread /\ \A n \in DOMAIN db' : db'[n] \in Thread
    BY <1>1, Zenon DEF IInv, Types, Rc
  <2>7. Types' /\ Parts'
    BY <1>1, <1>2, <2>1, <2>3, <2>4, <2>5, <2>6, AnswerParts, Zenon
  <2>8. ConfirmsOK' /\ HeldOK'
    BY <1>1, <1>2, <2>1, AnswerNames, Zenon
  <2>9. HeapOK' /\ AnswersMatch' /\ SuccessMeansDone'
    BY <1>1, <2>2, NoReturn, Zenon DEF IInv, HeapOK
  <2> QED
    BY <2>7, <2>8, <2>9, Zenon DEF IInv
<1>4. CASE ~SenderFound("thr")
  <2>1. Answer("thr", "ENOENT", Null) /\ Plain
    BY <1>1, <1>4 DEF HandleSetEvmask, Plain, stateVars
  <2> QED
    BY <1>1, <2>1, MereAnswer, Zenon DEF Rc
<1> QED
  BY <1>3, <1>4

\* The process server creates a thread with the mask of its parent.
LEMMA HandleCreateThreadIInv ==
  ASSUME IInv, HandleCreateThread
  PROVE  IInv'
<1>1. Works("proc", "create") /\ "proc" \in Server /\ UNCHANGED <<db, heap, given>>
  BY Zenon DEF HandleCreateThread, Server
<1>2. body["proc"] # NoMsg /\ ~HasRc(body["proc"]) /\ ~L!InCall("proc") /\ body["proc"].req = "create"
  BY <1>1, WorksFacts, Zenon
<1>3. ASSUME NEW rc \in {"ENOENT", "EINVAL", "EFAULT", "ENOMEM"}, Answer("proc", rc, Null), UNCHANGED <<alive, masks>>
      PROVE  IInv'
  <2>1. Plain
    BY <1>1, <1>3, Zenon DEF Plain, stateVars
  <2> QED
    BY <1>1, <1>3, <2>1, MereAnswer, Zenon DEF Rc
<1>4. ASSUME NEW t \in User \ alive, alive' = alive \cup {t}, masks' = [masks EXCEPT ![t] = masks[from["proc"]]],
             Answer("proc", "OK", t)
      PROVE  IInv'
  <2>1. from["proc"] \in Client /\ t \in Client /\ done' = Null
    BY <1>1, <1>2, <1>4, AnswerFacts, Zenon DEF User
  <2>2. masks' \in [Client -> SUBSET (Event \ {Kill})]
    BY <1>4, <2>1, Zenon DEF IInv, Types
  <2>3. \A c \in Client : c \in alive => masks'[c] = masks[c]
    BY <1>4, Zenon DEF IInv, Types
  <2>4. t # Null
    BY <2>1, ServersAssumption, Zenon
  <2>5. ResultOK(body["proc"], "proc", from["proc"])'
    BY <1>1, <1>2, <1>4, <2>4, AnswerResult, Zenon
  <2>6. "OK" \in Rc /\ alive \subseteq alive' /\ alive' \subseteq Thread /\ \A n \in DOMAIN db' : db'[n] \in Thread
    BY <1>1, <1>4, <2>1, Zenon DEF IInv, Types, Rc, Thread
  <2>7. Types' /\ Parts'
    BY <1>1, <1>2, <1>4, <2>2, <2>3, <2>5, <2>6, AnswerParts, Zenon
  <2>8. ConfirmsOK' /\ HeldOK'
    BY <1>1, <1>2, <1>4, AnswerNames, Zenon
  <2>9. HeapOK' /\ AnswersMatch' /\ SuccessMeansDone'
    BY <1>1, <2>1, NoReturn, Zenon DEF IInv, HeapOK
  <2> QED
    BY <2>7, <2>8, <2>9, Zenon DEF IInv
<1> QED
  BY <1>3, <1>4 DEF HandleCreateThread

-----------------------------------------------------------------------------
(***************************************************************************)
(* The heap.                                                               *)
(***************************************************************************)
LEMMA PageUpFacts ==
  ASSUME NEW a \in Int
  PROVE  PageUp(a) >= a /\ \E i \in Int : PageUp(a) = PageLen * i
<1> DEFINE q == (a + PageLen - 1) \div PageLen
<1>1. PageLen \in Nat /\ PageLen > 0 /\ a + PageLen - 1 \in Int
  BY ServersAssumption
<1>2. q \in Int /\ (a + PageLen - 1) - PageLen * q < PageLen
  BY <1>1
<1>3. PageUp(a) = q * PageLen
  BY Zenon DEF PageUp
<1> HIDE DEF q
<1>4. q * PageLen = PageLen * q
  BY <1>1, <1>2
<1>5. PageLen * q \in Int
  BY <1>1, <1>2
<1> QED
  BY <1>1, <1>2, <1>3, <1>4, <1>5

\* A multiple of the page length below the limit is that many pages.
LEMMA PagesBounded ==
  ASSUME NEW p \in Nat \ {0}, NEW h \in Nat, NEW i \in Int, 0 <= p * i, p * i <= h * p
  PROVE  i \in 0 .. h
<1>1. i >= 0
  <2>1. SUFFICES ASSUME i <= -1 PROVE FALSE
    OBVIOUS
  <2>2. p * i <= p * (-1)
    BY <2>1
  <2> QED
    BY <2>2
<1>2. i <= h
  <2>1. SUFFICES ASSUME i >= h + 1 PROVE FALSE
    OBVIOUS
  <2>2. p * i >= p * (h + 1)
    BY <2>1
  <2>3. p * (h + 1) = h * p + p
    OBVIOUS
  <2> QED
    BY <2>2, <2>3
<1> QED
  BY <1>1, <1>2

\* The addresses between the old end and the increment were nobody's.
LEMMA SbrkHeap ==
  ASSUME HeapOK, NEW inc \in Int, NEW new, new = PageUp(heap + inc), 0 <= new, new <= HeapMax * PageLen, heap' = new,
         given' = [a \in DOMAIN given |->
                     (IF a < new THEN given[a] ELSE 0) + (IF a \in heap .. heap + inc - 1 THEN 1 ELSE 0)]
  PROVE  HeapOK'
<1>1. PICK i \in 0 .. HeapMax : heap = PageLen * i
  BY Zenon DEF HeapOK
<1>2. PageLen \in Nat \ {0} /\ HeapMax \in Nat /\ heap \in Int
  BY <1>1, ServersAssumption
<1>3. new >= heap + inc /\ \E k \in Int : new = PageLen * k
  <2>1. heap + inc \in Int
    BY <1>2
  <2>2. PageUp(heap + inc) >= heap + inc /\ \E k \in Int : PageUp(heap + inc) = PageLen * k
    BY <2>1, PageUpFacts, Zenon
  <2> QED
    BY <2>2, Zenon
<1>4. PICK k \in Int : new = PageLen * k
  BY <1>3, Zenon
<1>5. k \in 0 .. HeapMax /\ new \in Int
  BY <1>2, <1>4, PagesBounded
<1>6. DOMAIN given' = DOMAIN given /\ \A a \in DOMAIN given : a \in Int
  BY <1>2 DEF HeapOK
<1>7. ASSUME NEW a \in DOMAIN given PROVE given'[a] \in Nat /\ given'[a] <= IF a < new THEN 1 ELSE 0
  <2>1. given[a] \in Nat /\ given[a] <= (IF a < heap THEN 1 ELSE 0) /\ a \in Int
    BY <1>6, Zenon DEF HeapOK
  <2>2. given'[a] = (IF a < new THEN given[a] ELSE 0) + (IF a \in heap .. heap + inc - 1 THEN 1 ELSE 0)
    BY Zenon
  <2> QED
    BY <1>2, <1>3, <1>5, <2>1, <2>2
<1> QED
  BY <1>4, <1>5, <1>6, <1>7, Zenon DEF HeapOK

\* The memory server moves the end of the heap; addresses that are given are new.
LEMMA HandleSbrkIInv ==
  ASSUME IInv, HandleSbrk
  PROVE  IInv'
<1> DEFINE inc == IncOf(body["vm"].arg)
           new == PageUp(heap + inc)
<1>1. Works("vm", "sbrk") /\ "vm" \in Server /\ UNCHANGED <<alive, db, masks>>
  BY Zenon DEF HandleSbrk, Server
<1>2. body["vm"] # NoMsg /\ ~HasRc(body["vm"]) /\ ~L!InCall("vm") /\ body["vm"].req = "sbrk"
  BY <1>1, WorksFacts, Zenon
<1>3. inc \in Int
  <2>1. IsRequest(body["vm"])
    BY <1>1, <1>2, Zenon DEF IInv, Parts, ServerOK
  <2>2. body["vm"].arg \in Increment
    BY <1>2, <2>1, Zenon DEF IsRequest
  <2> QED
    BY <2>2, ServersAssumption DEF IncOf, Increment
<1>4. heap \in Int /\ heap # Null
  BY ServersAssumption DEF IInv, HeapOK
<1>5. ASSUME NEW rc \in {"ENOENT", "EINVAL", "ENOMEM"}, Answer("vm", rc, Null), UNCHANGED <<heap, given>>
      PROVE  IInv'
  <2>1. Plain
    BY <1>1, <1>5, Zenon DEF Plain, stateVars
  <2> QED
    BY <1>1, <1>5, <2>1, MereAnswer, Zenon DEF Rc
<1>6. ASSUME Answer("vm", "OK", heap), HeapOK' PROVE IInv'
  <2>1. done' = Null
    BY <1>1, <1>2, <1>6, AnswerFacts, Zenon
  <2>2. ResultOK(body["vm"], "vm", from["vm"])'
    BY <1>1, <1>2, <1>4, <1>6, AnswerResult, Zenon
  <2>3. "OK" \in Rc /\ alive \subseteq alive' /\ alive' \subseteq Thread /\ \A n \in DOMAIN db' : db'[n] \in Thread
    BY <1>1, Zenon DEF IInv, Types, Rc
  <2>4. masks' \in [Client -> SUBSET (Event \ {Kill})]
    BY <1>1, Zenon DEF IInv, Types
  <2>5. Types' /\ Parts'
    BY <1>1, <1>2, <1>6, <2>2, <2>3, <2>4, AnswerParts, Zenon
  <2>6. ConfirmsOK' /\ HeldOK'
    BY <1>1, <1>2, <1>6, AnswerNames, Zenon
  <2>7. AnswersMatch' /\ SuccessMeansDone'
    BY <2>1, NoReturn, Zenon
  <2> QED
    BY <1>6, <2>5, <2>6, <2>7, Zenon DEF IInv
<1>7. CASE ~SenderFound("vm") \/ (inc # 0 /\ new < 0)
  BY <1>5, <1>7, Zenon DEF HandleSbrk
<1>8. CASE SenderFound("vm") /\ inc = 0
  <2>1. Answer("vm", "OK", heap) /\ UNCHANGED <<heap, given>>
    BY <1>8, Zenon DEF HandleSbrk
  <2> QED
    BY <1>6, <2>1, Zenon DEF IInv, HeapOK
<1>9. CASE SenderFound("vm") /\ inc # 0 /\ ~(new < 0)
  <2>1. \/ Answer("vm", "ENOMEM", Null) /\ UNCHANGED <<heap, given>>
        \/ /\ new <= HeapMax * PageLen
           /\ heap' = new
           /\ given' = [a \in DOMAIN given |->
                          (IF a < new THEN given[a] ELSE 0) + (IF a \in heap .. heap + inc - 1 THEN 1 ELSE 0)]
           /\ Answer("vm", "OK", heap)
    BY <1>9, Zenon DEF HandleSbrk, SbrkResult
  <2>2. new \in Int
    BY <1>3, <1>4, ServersAssumption DEF PageUp
  <2>3. CASE heap' = new /\ Answer("vm", "OK", heap)
    <3>1. CASE Answer("vm", "ENOMEM", Null) /\ UNCHANGED <<heap, given>>
      BY <1>5, <3>1, Zenon
    <3>2. CASE ~(Answer("vm", "ENOMEM", Null) /\ UNCHANGED <<heap, given>>)
      <4>1. HeapOK
        BY Zenon DEF IInv
      <4>2. HeapOK'
        BY <1>3, <1>9, <2>1, <2>2, <3>2, <4>1, SbrkHeap
      <4> QED
        BY <1>6, <2>3, <4>2, Zenon
    <3> QED
      BY <3>1, <3>2, Zenon
  <2> QED
    BY <1>5, <2>1, <2>3, Zenon
<1> QED
  BY <1>7, <1>8, <1>9, Zenon

-----------------------------------------------------------------------------
(***************************************************************************)
(* The theorems.                                                           *)
(***************************************************************************)
LEMMA NextIInv == IInv /\ [ServersNext]_serverVars => IInv'
<1> SUFFICES ASSUME IInv, [ServersNext]_serverVars PROVE IInv'
  BY Zenon
<1>1. CASE Handle
  BY <1>1, NameFaultIInv, HandleRegisterIInv, HandleUnregisterIInv, HandleLookupIInv, MereHandlersIInv,
     HandleGetEvmaskIInv, HandleSetEvmaskIInv, HandleCreateThreadIInv, HandleSbrkIInv, HandleOtherIInv, ForgetIInv, Zenon
     DEF Handle
<1>2. ASSUME NEW c \in Client,
             (\E m \in menu.reqs : \E waits \in BOOLEAN : Request(c, m, waits))
               \/ RequestFails(c) \/ Resume(c) \/ Collect(c) \/ ClientExits(c)
      PROVE  IInv'
  BY <1>2, RequestIInv, RequestFailsIInv, ResumeIInv, CollectIInv, ClientExitsIInv, Zenon
<1>3. ASSUME NEW c \in Client, NEW s \in Server, Answered(c, s) \/ Accept(s, c) PROVE IInv'
  BY <1>3, AnsweredIInv, AcceptIInv, Zenon
<1>4. ASSUME NEW s \in Server, Listen(s) \/ Reply(s) \/ ReplyDone(s) \/ ReplyFails(s, "ENOMEM") \/ ReplyFails(s, "ENOENT")
      PROVE  IInv'
  BY <1>4, ListenIInv, ReplyIInv, ReplyDoneIInv, ReplyFailsIInv, Zenon
<1>5. CASE UNCHANGED serverVars
  <2>1. /\ UNCHANGED <<alive, offer, taken, want, body, from, call, db, masks, heap, menu, bare, mute, held, given>>
        /\ UNCHANGED <<why, done>>
    BY <1>5, Zenon DEF serverVars
  <2>2. why' \in {"no", "namefault", "reply", "kns"}
    BY <2>1, Zenon DEF IInv, Types
  <2>3. Types' /\ Parts' /\ ConfirmsOK' /\ HeldOK' /\ HeapOK'
    BY <2>1, <2>2, StopIInv, Zenon
  <2>4. AnswersMatch' /\ SuccessMeansDone'
    BY <2>1 DEF IInv, AnswersMatch, SuccessMeansDone
  <2> QED
    BY <2>3, <2>4, Zenon DEF IInv
<1> QED
  BY <1>1, <1>2, <1>3, <1>4, <1>5, Zenon DEF ServersNext

\* The invariant holds in all states.
LEMMA ServersInvariant == ServersSpec => []IInv
<1>1. ServersInit => IInv
  BY InitIInv, Zenon
<1>2. IInv /\ [ServersNext]_serverVars => IInv'
  BY NextIInv
<1> QED
  BY <1>1, <1>2, PTL DEF ServersSpec

\* Every call that returns has the answer to its own request, and a library
\* function that reports success has done what it says (lpc_send_and_reply,
\* the handlers of the servers and the functions of lib/), whatever threads,
\* requests and asynchronous senders there are.
THEOREM AnswersAreTrue == ServersSpec => []AnswersTrue
<1>1. IInv => AnswersTrue
  <2> SUFFICES ASSUME IInv PROVE AnswersTrue
    BY Zenon
  <2>1. heap \in {PageLen * i : i \in 0 .. HeapMax}
    BY Zenon DEF IInv, HeapOK
  <2>2. \A c \in Client : call[c] # NoMsg => c \in alive
    BY Zenon DEF IInv, Parts, ClientOK
  <2>3. ServersTypeOK
    BY <2>1, <2>2, Zenon DEF IInv, Types, ServersTypeOK, Thread
  <2> QED
    BY <2>3 DEF IInv, AnswersTrue
<1> QED
  BY <1>1, ServersInvariant, PTL

\* A server that blocks in its reply has a client that receives it, as long as
\* all clients use lpc_send_and_reply: the servers cannot wait for one another
\* or for a client that waits for them (lpc_send in the server threads).
THEOREM NoServerIsStuck == ServersSpec => []NoServerStuck
<1>1. IInv => NoServerStuck
  <2> SUFFICES ASSUME IInv, NEW s \in Server, offer[s] # Null, ~taken[s], ~bare
               PROVE  offer[s] \in alive /\ (want[offer[s]] \in {s, AnySrc} \/ (offer[offer[s]] = s /\ taken[offer[s]]))
    BY Zenon DEF NoServerStuck
  <2>1. body[s] # NoMsg /\ offer[s] = from[s] /\ from[s] \in Client
    BY Zenon DEF IInv, Parts, ServerOK
  <2>2. PICK c \in Client : c = from[s]
    BY <2>1, Zenon
  <2>3. PairOK(s, c) /\ ClientOK(c)
    BY DEF IInv, Parts
  <2>4. Waits(c, s)
    BY <2>1, <2>2, <2>3, Zenon DEF PairOK
  <2>5. c \in alive
    BY <2>3, <2>4, WaitsInCall, Zenon
  <2> QED
    BY <2>1, <2>2, <2>4, <2>5, Zenon DEF Waits
<1> QED
  BY <1>1, ServersInvariant, PTL

\* What a server has granted stands: a confirmed name stays with its owner
\* until somebody unregisters it, and the addresses that sbrk gives to the
\* threads of a process do not overlap (handle_register_msg, handle_sbrk), for
\* every page size and every number of pages.
THEOREM GrantsAlwaysStand == ServersSpec => []GrantsStand
<1>1. IInv => GrantsStand
  <2> SUFFICES ASSUME IInv PROVE GrantsStand
    OBVIOUS
  <2>1. RegistrationStands
    BY Zenon DEF IInv, HeldOK, RegistrationStands
  <2>2. SbrkRangesDisjoint
    BY DEF IInv, HeapOK, SbrkRangesDisjoint
  <2> QED
    BY <2>1, <2>2, Zenon DEF GrantsStand
<1> QED
  BY <1>1, ServersInvariant, PTL

=============================================================================
