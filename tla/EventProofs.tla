---------------------------- MODULE EventProofs ----------------------------
(***************************************************************************)
(* Proofs about module Event, for any threads, numbers and nodes: no node  *)
(* of an event is lost or in two places, and queues, pending bits and      *)
(* receivers agree.                                                        *)
(***************************************************************************)
EXTENDS Event, QueueLemmas, FiniteSetTheorems

(* Least elements and induction *)

\* Every non-empty set of numbers has a least element.
LEMMA Least == ASSUME NEW B \in SUBSET Nat, B # {} PROVE \E m \in B : \A k \in B : m <= k
<1> DEFINE T == {0 .. k : k \in B}
           R == StrictSubsetOrdering(Nat)
           F == FiniteSubsetsOf(Nat)
<1>1. T # {}
  BY Zenon
<1>2. T \subseteq F
  <2> SUFFICES ASSUME NEW k \in B PROVE 0 .. k \in F
    OBVIOUS
  <2>1. k \in Int /\ 0 \in Int /\ 0 .. k \in SUBSET Nat
    OBVIOUS
  <2>2. IsFiniteSet(0 .. k)
    BY <2>1, FS_Interval, Zenon
  <2> QED BY <2>1, <2>2, Zenon DEF FiniteSubsetsOf
<1>3. IsWellFoundedOn(R, F)
  BY FS_StrictSubsetOrderingWellFounded
<1>4. PICK x \in T : \A y \in T : ~ (<<y, x>> \in R)
  <2> HIDE DEF R, F, T
  <2> QED BY <1>1, <1>2, <1>3, WFMin, Zenon
<1>5. PICK m \in B : x = 0 .. m
  OBVIOUS
<1>6. ASSUME NEW k \in B, k < m PROVE FALSE
  <2>1. 0 .. k \in T
    OBVIOUS
  <2>2. 0 .. k \subseteq 0 .. m /\ 0 .. k # 0 .. m /\ 0..k \in SUBSET Nat /\ 0..m \in SUBSET Nat
    BY <1>6
  <2>3. <<0 .. k, x>> \in R
    BY <2>2, <1>5, Zenon DEF StrictSubsetOrdering
  <2> QED BY <2>1, <2>3, <1>4, Zenon
<1> QED BY <1>6

\* Induction with a set for the numbers that have the property
LEMMA SetInduction ==
  ASSUME NEW G, 0 \in G, \A n \in Nat : n \in G => n + 1 \in G
  PROVE  Nat \subseteq G
<1> DEFINE B == Nat \ G
<1> SUFFICES ASSUME B # {} PROVE FALSE
  OBVIOUS
<1>1. PICK m \in B : \A k \in B : m <= k
  BY Least, Zenon
<1>2. m # 0 /\ m - 1 \in Nat /\ m - 1 \notin B
  BY <1>1
<1> QED BY <1>2

Ascending(f, n) == \A a, b \in 1 .. n : a < b => f[a] < f[b]

\* Every finite set of positions has an ascending enumeration
LEMMA Enumerated ==
  ASSUME NEW n \in Nat, NEW K \in SUBSET (1 .. n)
  PROVE  /\ IsFiniteSet(K) /\ Cardinality(K) \in Nat
         /\ \E f \in [1 .. Cardinality(K) -> K] : Ascending(f, Cardinality(K))
<1> DEFINE Has(k) == \A L \in SUBSET (1 .. k) :
             IsFiniteSet(L) /\ \E f \in [1 .. Cardinality(L) -> L] : Ascending(f, Cardinality(L))
           G == {k \in Nat : Has(k)}
<1>1. 0 \in G
  <2>1. ASSUME NEW L \in SUBSET (1 .. 0) PROVE L = {}
    OBVIOUS
  <2>2. [a \in {} |-> a] \in [1 .. 0 -> {}] /\ Ascending([a \in {} |-> a], 0)
    BY DEF Ascending
  <2> QED
    BY <2>1, <2>2, FS_EmptySet, Zenon
<1>2. ASSUME NEW k \in Nat, k \in G PROVE k + 1 \in G
  <2> SUFFICES ASSUME NEW L \in SUBSET (1 .. k + 1)
               PROVE  IsFiniteSet(L) /\ \E f \in [1 .. Cardinality(L) -> L] : Ascending(f, Cardinality(L))
    OBVIOUS
  <2> DEFINE M == L \ {k + 1}
             c == Cardinality(M)
  <2>1. M \in SUBSET (1 .. k)
    OBVIOUS
  <2>2. IsFiniteSet(M) /\ \E f \in [1 .. c -> M] : Ascending(f, c)
    BY <1>2, <2>1, Zenon
  <2>3. c \in Nat
    BY <2>2, FS_CardinalityType, Zenon
  <2>4. CASE k + 1 \notin L
    BY <2>2, <2>4, Zenon
  <2>5. CASE k + 1 \in L
    <3>1. PICK f \in [1 .. c -> M] : Ascending(f, c)
      BY <2>2, Zenon
    <3>2. L = M \cup {k + 1} /\ k + 1 \notin M
      BY <2>5, Zenon
    <3>3. IsFiniteSet(L) /\ Cardinality(L) = c + 1
      <4> HIDE DEF M
      <4> QED
        BY <2>2, <3>2, FS_AddElement, Zenon
    <3> DEFINE g == [a \in 1 .. c + 1 |-> IF a = c + 1 THEN k + 1 ELSE f[a]]
    <3> HIDE DEF c
    <3>4. g \in [1 .. c + 1 -> L]
      BY <2>3, <2>5, <3>1
    <3>5. \A a \in 1 .. c : f[a] \in 1 .. k
      BY <2>1, <3>1, Zenon
    <3>6. Ascending(g, c + 1)
      BY <2>3, <3>1, <3>5 DEF Ascending
    <3> QED
      BY <3>3, <3>4, <3>6, Zenon
  <2> QED
    BY <2>4, <2>5, Zenon
<1>3. n \in G
  <2> HIDE DEF G
  <2> QED
    BY <1>1, <1>2, SetInduction, Zenon
<1> QED
  BY <1>3, FS_CardinalityType, Zenon

\* The selected elements, and nothing else
LEMMA SelectedQueue ==
  ASSUME NEW S, NEW q \in Seq(S), NEW K \in SUBSET DOMAIN q
  PROVE  /\ Selected(q, K) \in Seq(S)
         /\ Range(Selected(q, K)) = {q[k] : k \in K}
         /\ IsInjective(q) => IsInjective(Selected(q, K))
         /\ Selected(q, K) = << >> <=> K = {}
<1> DEFINE c == Cardinality(K)
           up == CHOOSE f \in [1 .. c -> K] : \A a, b \in 1 .. c : a < b => f[a] < f[b]
           s == Selected(q, K)
<1>1. Len(q) \in Nat /\ DOMAIN q = 1 .. Len(q) /\ \A k \in K : q[k] \in S
  OBVIOUS
<1>2. IsFiniteSet(K) /\ c \in Nat /\ up \in [1 .. c -> K] /\ Ascending(up, c)
  BY <1>1, Enumerated, Zenon DEF Ascending
<1>3. s = [a \in 1 .. c |-> q[up[a]]]
  BY DEF Selected
<1> HIDE DEF up, s, c
<1>4. IsInjective(up)
  <2>1. ASSUME NEW a \in 1 .. c, NEW b \in 1 .. c, a # b PROVE up[a] # up[b]
    <3>1. up[a] \in Nat /\ up[b] \in Nat
      BY <1>1, <1>2
    <3>2. a < b \/ b < a
      BY <2>1
    <3> QED
      BY <1>2, <3>1, <3>2 DEF Ascending
  <2> QED
    BY <1>2, <2>1, Zenon DEF IsInjective
<1>5. \A k \in K : \E a \in 1 .. c : up[a] = k
  <2>1. IsFiniteSet(1 .. c) /\ Cardinality(1 .. c) = c
    BY <1>2, FS_Interval
  <2>2. up \in Injection(1 .. c, K)
    BY <1>2, <1>4, Zenon DEF Injection
  <2>3. up \in Surjection(1 .. c, K)
    BY <1>2, <2>1, <2>2, FS_Injection, Zenon DEF c
  <2> QED
    BY <2>3 DEF Surjection
<1>6. s \in Seq(S) /\ DOMAIN s = 1 .. c
  BY <1>1, <1>2, <1>3
<1>7. Range(s) = {q[k] : k \in K}
  BY <1>2, <1>3, <1>5, <1>6, Zenon DEF Range
<1>8. IsInjective(q) => IsInjective(s)
  BY <1>1, <1>2, <1>3, <1>4, <1>6 DEF IsInjective
<1>9. s = << >> <=> K = {}
  <2>1. s = << >> <=> c = 0
    BY <1>2, <1>6
  <2>2. c = 0 <=> K = {}
    BY <1>2, FS_EmptySet, Zenon DEF c
  <2> QED
    BY <2>1, <2>2, Zenon
<1> QED
  BY <1>6, <1>7, <1>8, <1>9, Zenon DEF s
-----------------------------------------------------------------------------
(* The inductive invariant *)

StoreTypes ==
  /\ que \in [Owner -> [EvNo -> Seq(Node)]]
  /\ events \in [Owner -> SUBSET EvNo]
  /\ info \in [Node -> Info \cup {Null}]
  /\ free \subseteq Node

LifeTypes ==
  /\ masks \in [Thread -> SUBSET (EvNo \ {EV_SIG_KILL})]
  /\ threads \in Seq(Thread)
  /\ master \in Thread
  /\ handler \in BOOLEAN
  /\ state \in [Thread -> State]
  /\ held \in [Thread -> Node \cup {Null}]
  /\ raised \in 0 .. MaxEvents

\* The threads of the process are those that have started and not left it,
\* and the master is one of them.
ThreadsOK ==
  /\ IsInjective(threads)
  /\ \A t \in Thread : t \in Range(threads) <=> state[t] \notin {"none", "gone"}
  /\ Range(threads) # {} => master \in Range(threads)
  /\ handler /\ \A t \in Thread : state[t] # "freed"

\* A queued node is allocated, is queued in one place, under its number, and
\* for the thread it was sent to if there is one.
QueueOK ==
  /\ \A o \in Owner, i \in EvNo : IsInjective(que[o][i])
  /\ \A o \in Owner, i \in EvNo, n \in Node : n \in Range(que[o][i]) =>
       /\ n \notin free /\ info[n] \in Info /\ info[n].no = i /\ info[n].only \in {Proc, o}
       /\ \A p \in Owner : n \in Range(que[p][i]) => p = o

BitsOK ==
  \A o \in Owner :
    /\ EV_SIG_KILL \notin events[o]
    /\ \A i \in EvNo \ {EV_SIG_KILL} :
         (o # Proc \/ Range(threads) # {}) => (i \in events[o] <=> Range(que[o][i]) # {})

\* A node in the hands of a thread is allocated, is nowhere else, and the
\* thread may take it.
HeldOK ==
  \A t \in Thread, n \in Node : held[t] = n =>
    /\ n \notin free /\ info[n] \in Info /\ info[n].only \in {Proc, t}
    /\ info[n].no \notin masks[t]
    /\ \A o \in Owner, i \in EvNo : n \notin Range(que[o][i])
    /\ \A u \in Thread : held[u] = n => u = t

HandsOK == \A t \in Thread : held[t] # Null <=> state[t] = "event"

\* No node is lost.
FreeOK ==
  \A n \in Node \ free :
    (\E o \in Owner, i \in EvNo : n \in Range(que[o][i])) \/ \E t \in Thread : held[t] = n

IInv ==
  /\ StoreTypes /\ LifeTypes
  /\ ThreadsOK /\ QueueOK /\ BitsOK /\ HeldOK /\ HandsOK /\ FreeOK

\* What QueueOK and HeldOK say of one node
LEMMA QueuedNode ==
  ASSUME QueueOK, NEW o \in Owner, NEW i \in EvNo, NEW n \in Node, n \in Range(que[o][i])
  PROVE  /\ n \notin free /\ info[n] \in Info /\ info[n].no = i /\ info[n].only \in {Proc, o}
         /\ \A p \in Owner, j \in EvNo : n \in Range(que[p][j]) => p = o /\ j = i
<1>1. \A p \in Owner, j \in EvNo : n \in Range(que[p][j]) =>
        n \notin free /\ info[n] \in Info /\ info[n].no = j /\ info[n].only \in {Proc, p}
  BY DEF QueueOK
<1>2. \A p \in Owner : n \in Range(que[p][i]) => p = o
  BY DEF QueueOK
<1>3. \A p \in Owner, j \in EvNo : n \in Range(que[p][j]) => j = i
  BY <1>1, Zenon
<1> QED
  BY <1>1, <1>2, <1>3, Zenon

LEMMA HeldNode ==
  ASSUME HeldOK, NEW t \in Thread, NEW n \in Node, held[t] = n
  PROVE  /\ n \notin free /\ info[n] \in Info /\ info[n].only \in {Proc, t}
         /\ info[n].no \notin masks[t]
         /\ \A o \in Owner, i \in EvNo : n \notin Range(que[o][i])
         /\ \A u \in Thread : held[u] = n => u = t
  BY DEF HeldOK

\* Nothing is queued at first, and the handler is there.
LEMMA InitIInv == HandlerAtStart /\ Init => IInv
<1> SUFFICES ASSUME HandlerAtStart, Init PROVE IInv
  BY Zenon
<1>1. /\ \A o \in Owner, i \in EvNo : que[o][i] = << >>
      /\ \A o \in Owner : events[o] = {}
      /\ \A t \in Thread : held[t] = Null /\ state[t] # "event" /\ state[t] # "freed"
      /\ free = Node /\ handler
  BY DEF Init
<1>2. StoreTypes
  BY DEF Init, StoreTypes, Info
<1>3. First \in Thread /\ threads = <<First>> /\ master = First
  BY EventAssumption, Zenon DEF Init
<1>4. threads \in Seq(Thread) /\ Range(threads) = {First} /\ IsInjective(threads)
  BY <1>3 DEF Range, IsInjective
<1>5. LifeTypes
  BY <1>3, <1>4, EventAssumption DEF Init, LifeTypes, State
<1>6. ThreadsOK
  BY <1>1, <1>3, <1>4, Zenon DEF ThreadsOK, Init
<1>7. \A o \in Owner, i \in EvNo : Range(que[o][i]) = {} /\ IsInjective(que[o][i])
  BY <1>1, EmptyQueue, Zenon
<1>8. QueueOK /\ BitsOK
  BY <1>1, <1>7, Zenon DEF QueueOK, BitsOK
<1>9. HeldOK /\ HandsOK /\ FreeOK
  BY <1>1, EventAssumption, Zenon DEF HeldOK, HandsOK, FreeOK
<1> QED
  BY <1>2, <1>5, <1>6, <1>8, <1>9, Zenon DEF IInv
-----------------------------------------------------------------------------
(* Sending *)

\* An event of number i is put into the queues of A, each with a node of its
\* own, c[o].
Sent(i, A, c, only) ==
  /\ que' \in [Owner -> [EvNo -> Seq(Node)]]
  /\ \A o \in Owner, j \in EvNo :
       que'[o][j] = IF o \in A /\ j = i THEN Append(que[o][j], c[o]) ELSE que[o][j]
  /\ events' \in [Owner -> SUBSET EvNo]
  /\ \A o \in Owner : events'[o] = IF o \in A THEN MaskSet(events[o], i) ELSE events[o]
  /\ info' = [n \in Node |-> IF n \in Range(c) THEN [no |-> i, only |-> only] ELSE info[n]]
  /\ free' = free \ Range(c)
  /\ UNCHANGED <<masks, threads, held>>

LEMMA SentStore ==
  ASSUME IInv, NEW i \in EvNo, NEW A \in SUBSET Owner, NEW c \in [A -> free],
         IsInjective(c), NEW only \in Owner, \A o \in A : only \in {Proc, o},
         Proc \in A => Range(threads) # {}, Sent(i, A, c, only)
  PROVE  StoreTypes' /\ QueueOK' /\ BitsOK' /\ HeldOK' /\ FreeOK'
<1>1. /\ StoreTypes /\ QueueOK /\ BitsOK /\ HeldOK /\ FreeOK
      /\ held \in [Thread -> Node \cup {Null}]
  BY DEF IInv, LifeTypes
<1>2. Range(c) \subseteq free /\ free \subseteq Node
  BY <1>1, Zenon DEF StoreTypes, Range
<1>3. ASSUME NEW o \in Owner, NEW j \in EvNo
      PROVE  /\ IsInjective(que'[o][j])
             /\ \A n : n \in Range(que'[o][j]) <=> n \in Range(que[o][j]) \/ (o \in A /\ j = i /\ n = c[o])
  <2>1. que[o][j] \in Seq(Node) /\ IsInjective(que[o][j])
    BY <1>1 DEF StoreTypes, QueueOK
  <2>2. CASE o \in A /\ j = i
    <3>1. c[o] \in free /\ c[o] \in Node
      BY <1>2, <2>2, Zenon
    <3>2. c[o] \notin Range(que[o][j])
      BY <1>1, <2>1, <3>1, Zenon DEF QueueOK
    <3>3. que'[o][j] = Append(que[o][j], c[o])
      BY <2>2, Zenon DEF Sent
    <3>4. IsInjective(que'[o][j]) /\ Range(que'[o][j]) = Range(que[o][j]) \cup {c[o]}
      BY <2>1, <3>1, <3>2, <3>3, AppendQueue
    <3> QED
      BY <2>1, <2>2, <3>4, Zenon
  <2>3. CASE ~(o \in A /\ j = i)
    BY <2>1, <2>3, Zenon DEF Sent
  <2> QED
    BY <2>2, <2>3, Zenon
<1>4. \A n \in Range(c) : /\ info'[n] \in Info /\ info'[n].no = i /\ info'[n].only = only
                           /\ n \notin free' /\ n \in free /\ n \in Node
  BY <1>2, Zenon DEF Info, Sent
<1>5. \A n \in Node \ Range(c) : info'[n] = info[n] /\ (n \in free' <=> n \in free)
  BY <1>2, Zenon DEF Sent
<1>6. StoreTypes'
  <2>1. info' \in [Node -> Info \cup {Null}]
    BY <1>1, Zenon DEF StoreTypes, Info, Sent
  <2> QED
    BY <1>2, <2>1, Zenon DEF StoreTypes, Sent
<1>7. \A o \in A : c[o] \in Range(c) /\ \A p \in A : c[o] = c[p] => o = p
  BY Zenon DEF Range, IsInjective
<1>8. \A n \in Range(c) : \E o \in A : n = c[o]
  BY Zenon DEF Range
<1>9. QueueOK'
  <2> SUFFICES ASSUME NEW o \in Owner, NEW j \in EvNo, NEW n \in Node, n \in Range(que'[o][j])
               PROVE  /\ n \notin free' /\ info'[n] \in Info /\ info'[n].no = j
                      /\ info'[n].only \in {Proc, o}
                      /\ \A p \in Owner : n \in Range(que'[p][j]) => p = o
    BY <1>3 DEF QueueOK
  <2>1. CASE n \in Range(c)
    <3>1. \A p \in Owner, k \in EvNo : n \notin Range(que[p][k])
      BY <1>1, <1>4, <2>1, Zenon DEF QueueOK
    <3>2. o \in A /\ j = i /\ n = c[o]
      BY <1>3, <3>1, Zenon
    <3>3. \A p \in Owner : n \in Range(que'[p][j]) => p = o
      BY <1>3, <1>7, <3>1, <3>2
    <3> QED
      BY <1>4, <2>1, <3>2, <3>3, Zenon
  <2>2. CASE n \notin Range(c)
    <3>1. \A p \in Owner, k \in EvNo : n \in Range(que'[p][k]) => n \in Range(que[p][k])
      BY <1>3, <1>7, <2>2
    <3> QED
      BY <1>1, <1>5, <2>2, <3>1 DEF QueueOK
  <2> QED
    BY <2>1, <2>2, Zenon
<1>10. BitsOK'
  <2>1. threads' = threads /\ \A o \in Owner : events'[o] = IF o \in A THEN MaskSet(events[o], i) ELSE events[o]
    BY Zenon DEF Sent
  <2> SUFFICES ASSUME NEW o \in Owner
               PROVE  /\ EV_SIG_KILL \notin events'[o]
                      /\ \A j \in EvNo \ {EV_SIG_KILL} :
                           (o # Proc \/ Range(threads) # {}) => (j \in events'[o] <=> Range(que'[o][j]) # {})
    BY <2>1, Zenon DEF BitsOK
  <2>2. EV_SIG_KILL \notin events'[o] /\ EV_SIG_KILL \notin events[o]
    BY <1>1, <2>1, Zenon DEF BitsOK, MaskSet
  <2>3. ASSUME NEW j \in EvNo \ {EV_SIG_KILL}, o # Proc \/ Range(threads) # {}
        PROVE  j \in events'[o] <=> Range(que'[o][j]) # {}
    <3>1. j \in events[o] <=> Range(que[o][j]) # {}
      BY <1>1, <2>3, Zenon DEF BitsOK
    <3>2. j \in events'[o] <=> j \in events[o] \/ (o \in A /\ j = i)
      BY <2>1, Zenon DEF MaskSet
    <3>3. Range(que'[o][j]) # {} <=> Range(que[o][j]) # {} \/ (o \in A /\ j = i)
      BY <1>3, Zenon
    <3> QED
      BY <3>1, <3>2, <3>3, Zenon
  <2> QED
    BY <2>2, <2>3, Zenon
<1>11. HeldOK'
  <2> SUFFICES ASSUME NEW t \in Thread, NEW n \in Node, held[t] = n
               PROVE  /\ n \notin free' /\ info'[n] \in Info /\ info'[n].only \in {Proc, t}
                      /\ info'[n].no \notin masks[t]
                      /\ \A o \in Owner, j \in EvNo : n \notin Range(que'[o][j])
                      /\ \A u \in Thread : held[u] = n => u = t
    BY Zenon DEF HeldOK, Sent
  <2>1. n \notin free /\ n \notin Range(c)
    BY <1>1, <1>2, Zenon DEF HeldOK
  <2>2. \A o \in Owner, j \in EvNo : n \notin Range(que'[o][j])
    <3>1. \A o \in Owner, j \in EvNo : n \notin Range(que[o][j])
      BY <1>1, Zenon DEF HeldOK
    <3> QED
      BY <1>3, <1>7, <2>1, <3>1
  <2> QED
    BY <1>1, <1>5, <2>1, <2>2, Zenon DEF HeldOK
<1>12. FreeOK'
  <2> SUFFICES ASSUME NEW n \in Node, n \notin free'
               PROVE  (\E o \in Owner, j \in EvNo : n \in Range(que'[o][j])) \/ \E t \in Thread : held[t] = n
    BY Zenon DEF FreeOK, Sent
  <2>1. CASE n \in Range(c)
    BY <1>3, <1>8, <2>1
  <2>2. CASE n \notin Range(c)
    BY <1>1, <1>3, <1>5, <2>2, Zenon DEF FreeOK
  <2> QED
    BY <2>1, <2>2, Zenon
<1> QED
  BY <1>6, <1>9, <1>10, <1>11, <1>12, Zenon

\* One event is put into one queue.
LEMMA EnqueueStore ==
  ASSUME IInv, NEW o \in Owner, NEW n \in free, NEW i \in EvNo, NEW only \in {Proc, o},
         o = Proc => Range(threads) # {}, Enqueue(o, n, i, only),
         UNCHANGED <<masks, threads, held>>
  PROVE  StoreTypes' /\ QueueOK' /\ BitsOK' /\ HeldOK' /\ FreeOK'
<1> DEFINE c == [x \in {o} |-> n]
<1>1. StoreTypes
  BY Zenon DEF IInv
<1>2. c \in [{o} -> free] /\ IsInjective(c) /\ Range(c) = {n} /\ n \in Node /\ c[o] = n
  BY <1>1, Zenon DEF IsInjective, Range, StoreTypes
<1>3. only \in Owner /\ \A p \in {o} : only \in {Proc, p}
  BY Zenon DEF Owner
<1>4. /\ que' \in [Owner -> [EvNo -> Seq(Node)]]
      /\ \A p \in Owner, j \in EvNo : que'[p][j] = IF p = o /\ j = i THEN Append(que[p][j], n) ELSE que[p][j]
  <2>1. /\ que \in [Owner -> [EvNo -> Seq(Node)]]
        /\ que' = [que EXCEPT ![o] = [que[o] EXCEPT ![i] = Append(que[o][i], n)]]
    BY <1>1, Zenon DEF Enqueue, StoreTypes
  <2>2. Append(que[o][i], n) \in Seq(Node)
    BY <1>2, <2>1, AppendQueue
  <2>3. [que[o] EXCEPT ![i] = Append(que[o][i], n)] \in [EvNo -> Seq(Node)]
    BY <2>1, <2>2, Zenon
  <2> QED
    BY <2>1, <2>3, Zenon
<1>5. /\ events' \in [Owner -> SUBSET EvNo]
      /\ \A p \in Owner : events'[p] = IF p = o THEN MaskSet(events[p], i) ELSE events[p]
  BY <1>1, Zenon DEF Enqueue, StoreTypes, MaskSet
<1>6. /\ info' = [x \in Node |-> IF x \in Range(c) THEN [no |-> i, only |-> only] ELSE info[x]]
      /\ free' = free \ Range(c)
  BY <1>1, <1>2, Zenon DEF Enqueue, StoreTypes
<1> HIDE DEF c
<1>7. Sent(i, {o}, c, only)
  BY <1>2, <1>4, <1>5, <1>6, Zenon DEF Sent
<1> QED
  BY <1>2, <1>3, <1>7, SentStore, Zenon

\* A step that leaves queues and nodes alone
LEMMA SameStore ==
  ASSUME IInv, UNCHANGED <<que, events, info, free, held>>,
         Range(threads') = {} <=> Range(threads) = {},
         \A t \in Thread : held[t] # Null => masks'[t] = masks[t]
  PROVE  StoreTypes' /\ QueueOK' /\ BitsOK' /\ HeldOK' /\ FreeOK'
<1>1. StoreTypes /\ QueueOK /\ BitsOK /\ HeldOK /\ FreeOK
  BY Zenon DEF IInv
<1>2. StoreTypes'
  BY <1>1, Zenon DEF StoreTypes
<1>3. QueueOK' /\ FreeOK'
  BY <1>1 DEF QueueOK, FreeOK
<1>4. BitsOK'
  BY <1>1, Zenon DEF BitsOK
<1>5. HeldOK'
  BY <1>1, EventAssumption DEF HeldOK
<1> QED
  BY <1>2, <1>3, <1>4, <1>5, Zenon

\* A thread of the process that handles no event goes to another place in the
\* kernel or in user mode.
LEMMA ThreadMoves ==
  ASSUME IInv, NEW t \in Thread, NEW s \in {"user", "post", "dying"}, Go(t, s),
         state[t] \in {"user", "post"}, UNCHANGED <<threads, master, held>>, handler' = TRUE
  PROVE  ThreadsOK' /\ HandsOK' /\ state' \in [Thread -> State]
<1>1. /\ state \in [Thread -> State] /\ ThreadsOK /\ HandsOK
  BY DEF IInv, LifeTypes
<1>2. state' = [state EXCEPT ![t] = s]
  BY Zenon DEF Go
<1>3. /\ state'[t] = s /\ s \notin {"none", "gone", "freed", "event"}
      /\ \A u \in Thread \ {t} : state'[u] = state[u]
  BY <1>1, <1>2, Zenon
<1>4. ThreadsOK'
  BY <1>1, <1>3, Zenon DEF ThreadsOK
<1>5. HandsOK'
  BY <1>1, <1>3, Zenon DEF HandsOK
<1> QED
  BY <1>1, <1>2, <1>4, <1>5, Zenon DEF State

\* The bound on the events raised
LEMMA RaiseType == ASSUME IInv, Raise PROVE raised' \in 0 .. MaxEvents
<1>1. raised \in 0 .. MaxEvents /\ raised < MaxEvents /\ raised' = raised + 1 /\ MaxEvents \in Nat
  BY EventAssumption, Zenon DEF IInv, LifeTypes, Raise
<1> QED
  BY <1>1

\* A request of a service that only puts events into queues
LEMMA SendLife ==
  ASSUME IInv, Raise, UNCHANGED <<masks, threads, master, handler, state, held>>
  PROVE  LifeTypes' /\ ThreadsOK' /\ HandsOK'
<1>1. LifeTypes /\ ThreadsOK /\ HandsOK
  BY DEF IInv
<1>2. LifeTypes'
  BY <1>1, RaiseType, Zenon DEF LifeTypes
<1>3. ThreadsOK' /\ HandsOK'
  BY <1>1, Zenon DEF ThreadsOK, HandsOK
<1> QED
  BY <1>2, <1>3, Zenon

\* An event sent to one thread (PROC_SERV_SNDEV_THR) is the last in its queue.
LEMMA SendThrIInv ==
  ASSUME IInv, NEW t \in Thread, NEW i \in EvNo, SendThr(t, i)
  PROVE  IInv'
<1>1. Raise /\ UNCHANGED <<masks, threads, master, handler, state, held>>
  BY Zenon DEF SendThr
<1>2. PICK n \in free : Enqueue(t, n, i, t)
  BY DEF SendThr
<1>3. t \in Owner /\ t # Proc
  BY EventAssumption, Zenon DEF Owner
<1>4. StoreTypes' /\ QueueOK' /\ BitsOK' /\ HeldOK' /\ FreeOK'
  BY <1>1, <1>2, <1>3, EnqueueStore, Zenon
<1> QED
  BY <1>1, <1>4, SendLife, Zenon DEF IInv

\* An event sent to the process (PROC_SERV_SNDEV_PROC) is the last in its queue.
LEMMA SendProcIInv ==
  ASSUME IInv, NEW i \in EvNo, SendProc(i)
  PROVE  IInv'
<1>1. threads # << >> /\ Raise /\ UNCHANGED <<masks, threads, master, handler, state, held>>
  BY DEF SendProc
<1>2. PICK n \in free : Enqueue(Proc, n, i, Proc)
  BY Zenon DEF SendProc
<1>3. Proc \in Owner /\ Range(threads) # {}
  BY <1>1, NoElems, Zenon DEF Owner, IInv, LifeTypes
<1>4. StoreTypes' /\ QueueOK' /\ BitsOK' /\ HeldOK' /\ FreeOK'
  BY <1>1, <1>2, <1>3, EnqueueStore, Zenon
<1> QED
  BY <1>1, <1>4, SendLife, Zenon DEF IInv

\* The copies of an event that is sent to all threads: one for each of the
\* first threads of the process, as far as the memory goes.
LEMMA SendAllIInv ==
  ASSUME IInv, NEW i \in EvNo, SendAll(i)
  PROVE  IInv'
<1> DEFINE m == IF Len(threads) < Cardinality(free) THEN Len(threads) ELSE Cardinality(free) - 1
           sent == {threads[k] : k \in 1 .. m}
<1>1. Raise /\ free # {} /\ UNCHANGED <<masks, threads, master, handler, state, held>>
  BY Zenon DEF SendAll
<1>2. StoreTypes /\ threads \in Seq(Thread) /\ IsInjective(threads)
  BY Zenon DEF IInv, LifeTypes, ThreadsOK
<1>3. m \in Nat /\ m <= Len(threads) /\ Len(threads) \in Nat
  <2>1. IsFiniteSet(free)
    BY <1>2, EventAssumption, FS_Subset, Zenon DEF StoreTypes
  <2>2. Cardinality(free) \in Nat /\ Cardinality(free) # 0
    BY <1>1, <2>1, FS_CardinalityType, FS_EmptySet, Zenon
  <2> QED
    BY <1>2, <2>2
<1> DEFINE copyFor(copy, t) == copy[CHOOSE k \in 1 .. m : threads[k] = t]
<1>4. PICK copy \in [1 .. m -> free] :
        /\ IsInjective(copy)
        /\ que' = [o \in Owner |-> IF o \in sent
                     THEN [que[o] EXCEPT ![i] = Append(@, copyFor(copy, o))] ELSE que[o]]
        /\ events' = [o \in Owner |-> IF o \in sent THEN MaskSet(events[o], i) ELSE events[o]]
        /\ info' = [n \in Node |-> IF n \in Range(copy) THEN [no |-> i, only |-> Proc] ELSE info[n]]
        /\ free' = free \ Range(copy)
  BY Zenon DEF SendAll
<1> HIDE DEF m
<1> DEFINE c == [o \in sent |-> copyFor(copy, o)]
<1>5. ASSUME NEW k \in 1 .. m PROVE threads[k] \in sent /\ threads[k] \in Thread /\ c[threads[k]] = copy[k]
  <2>1. k \in DOMAIN threads /\ \A l \in 1 .. m : l \in DOMAIN threads
    BY <1>2, <1>3
  <2>2. \A l \in 1 .. m : threads[l] = threads[k] => l = k
    BY <1>2, <2>1, Zenon DEF IsInjective
  <2>3. (CHOOSE l \in 1 .. m : threads[l] = threads[k]) = k
    BY <2>2, Zenon
  <2>4. threads[k] \in sent /\ threads[k] \in Thread
    BY <1>2, <2>1
  <2>5. c[threads[k]] = copyFor(copy, threads[k])
    BY <2>4, Zenon
  <2> QED
    BY <2>3, <2>4, <2>5, Zenon
<1>6. sent \in SUBSET Owner /\ Proc \notin sent
  <2>1. \A k \in 1 .. m : threads[k] \in Thread
    BY <1>2, <1>3
  <2>2. sent \subseteq Thread
    BY <2>1, Zenon
  <2> QED
    BY <2>2, EventAssumption, Zenon DEF Owner
<1>7. c \in [sent -> free]
  BY <1>4, <1>5, Zenon
<1>8. IsInjective(c)
  <2>1. ASSUME NEW a \in sent, NEW b \in sent, c[a] = c[b] PROVE a = b
    <3>1. PICK k \in 1 .. m : a = threads[k]
      BY Zenon
    <3>2. PICK l \in 1 .. m : b = threads[l]
      OBVIOUS
    <3>3. copy[k] = copy[l]
      <4>1. c[a] = copy[k]
        BY <1>5, <3>1, Zenon
      <4>2. c[b] = copy[l]
        BY <1>5, <3>2, Zenon
      <4> QED
        BY <2>1, <4>1, <4>2, Zenon
    <3>4. k = l
      BY <1>4, <3>3, Zenon DEF IsInjective
    <3> QED
      BY <3>1, <3>2, <3>4, Zenon
  <2> QED
    BY <2>1, Zenon DEF IsInjective
<1>9. Range(c) = Range(copy)
  <2>1. \A o \in sent : \E k \in 1 .. m : c[o] = copy[k]
    BY <1>5, Zenon
  <2>2. \A k \in 1 .. m : \E o \in sent : c[o] = copy[k]
    BY <1>5, Zenon
  <2>3. DOMAIN c = sent /\ DOMAIN copy = 1 .. m
    BY <1>4, Zenon
  <2> HIDE DEF c, sent
  <2> QED
    BY <2>1, <2>2, <2>3 DEF Range
<1>10. \A o \in sent : copyFor(copy, o) = c[o]
  OBVIOUS
<1> HIDE DEF c, sent, copyFor
<1>11. que \in [Owner -> [EvNo -> Seq(Node)]] /\ free \subseteq Node /\ events \in [Owner -> SUBSET EvNo]
  BY <1>2, Zenon DEF StoreTypes
<1>12. /\ que' \in [Owner -> [EvNo -> Seq(Node)]]
       /\ \A o \in Owner, j \in EvNo :
            que'[o][j] = IF o \in sent /\ j = i THEN Append(que[o][j], c[o]) ELSE que[o][j]
  <2>1. \A o \in Owner : o \in sent => que'[o] = [que[o] EXCEPT ![i] = Append(que[o][i], c[o])]
    BY <1>4, <1>10, <1>11, Zenon
  <2>2. \A o \in Owner : o \notin sent => que'[o] = que[o]
    BY <1>4, Zenon
  <2>3. \A o \in sent : Append(que[o][i], c[o]) \in Seq(Node)
    BY <1>6, <1>7, <1>11, AppendQueue
  <2>4. \A o \in Owner : que'[o] \in [EvNo -> Seq(Node)]
    <3> SUFFICES ASSUME NEW o \in Owner PROVE que'[o] \in [EvNo -> Seq(Node)]
      BY Zenon
    <3>1. que[o] \in [EvNo -> Seq(Node)]
      BY <1>11, Zenon
    <3> QED
      BY <2>1, <2>2, <2>3, <3>1, Zenon
  <2>5. que' = [o \in Owner |-> que'[o]]
    BY <1>4, Zenon
  <2>6. que' \in [Owner -> [EvNo -> Seq(Node)]]
    BY <2>4, <2>5, Zenon
  <2>7. ASSUME NEW o \in Owner, NEW j \in EvNo
        PROVE  que'[o][j] = IF o \in sent /\ j = i THEN Append(que[o][j], c[o]) ELSE que[o][j]
    <3>1. que[o] \in [EvNo -> Seq(Node)]
      BY <1>11, Zenon
    <3>2. CASE o \notin sent
      BY <2>2, <3>2, Zenon
    <3>3. CASE o \in sent
      <4>1. que'[o] = [que[o] EXCEPT ![i] = Append(que[o][i], c[o])]
        BY <2>1, <3>3, Zenon
      <4> QED
        BY <3>1, <3>3, <4>1
    <3> QED
      BY <3>2, <3>3, Zenon
  <2> QED
    BY <2>6, <2>7, Zenon
<1>13. events' \in [Owner -> SUBSET EvNo]
  BY <1>4, <1>11, Zenon DEF MaskSet
<1>14. Sent(i, sent, c, Proc)
  BY <1>1, <1>4, <1>9, <1>12, <1>13, Zenon DEF Sent
<1>15. StoreTypes' /\ QueueOK' /\ BitsOK' /\ HeldOK' /\ FreeOK'
  BY <1>6, <1>7, <1>8, <1>14, SentStore, Zenon DEF Owner
<1> QED
  BY <1>1, <1>15, SendLife, Zenon DEF IInv

-----------------------------------------------------------------------------
(* System calls, exceptions and new threads *)

\* A step of a thread that leaves queues and nodes alone
LEMMA QuietStep ==
  ASSUME IInv, NEW t \in Thread, NEW s \in {"user", "post", "dying"}, Go(t, s),
         state[t] \in {"user", "post"}, handler' = TRUE, raised' \in 0 .. MaxEvents,
         masks' \in [Thread -> SUBSET (EvNo \ {EV_SIG_KILL})],
         \A u \in Thread \ {t} : masks'[u] = masks[u],
         UNCHANGED <<que, events, threads, master, held, info, free>>
  PROVE  IInv'
<1>1. LifeTypes /\ HandsOK
  BY Zenon DEF IInv
<1>2. ThreadsOK' /\ HandsOK' /\ state' \in [Thread -> State]
  BY ThreadMoves, Zenon
<1>3. \A u \in Thread : held[u] # Null => masks'[u] = masks[u]
  BY <1>1, Zenon DEF HandsOK
<1>4. StoreTypes' /\ QueueOK' /\ BitsOK' /\ HeldOK' /\ FreeOK'
  BY <1>3, SameStore, Zenon
<1>5. LifeTypes'
  BY <1>1, <1>2, Zenon DEF LifeTypes
<1> QED
  BY <1>2, <1>4, <1>5, Zenon DEF IInv

\* Masks, the handler, interrupts and the begin of thr_exit touch no queue.
LEMMA RequestIInv ==
  ASSUME IInv, NEW t \in Thread, NEW mask \in SUBSET EvNo,
         SetMask(t, mask) \/ RegisterHandler(t) \/ Interrupt(t) \/ ThrExit(t)
  PROVE  IInv'
<1>1. handler = TRUE /\ LifeTypes
  BY DEF IInv, ThreadsOK, LifeTypes
<1>2. /\ masks' \in [Thread -> SUBSET (EvNo \ {EV_SIG_KILL})]
      /\ \A u \in Thread \ {t} : masks'[u] = masks[u]
  BY <1>1, Zenon DEF SetMask, RegisterHandler, Interrupt, ThrExit, LifeTypes
<1>3. raised' \in 0 .. MaxEvents /\ handler' = TRUE
  BY <1>1, Zenon DEF SetMask, RegisterHandler, Interrupt, ThrExit, LifeTypes
<1>4. state[t] = "user" /\ (Go(t, "post") \/ Go(t, "dying"))
      /\ UNCHANGED <<que, events, threads, master, held, info, free>>
  BY Zenon DEF SetMask, RegisterHandler, Interrupt, ThrExit, At
<1> QED
  BY <1>2, <1>3, <1>4, QuietStep, Zenon

\* An exception queues an event for its thread, or ends it when memory is out.
LEMMA TrapIInv ==
  ASSUME IInv, NEW t \in Thread, NEW i \in EvNo, Trap(t, i)
  PROVE  IInv'
<1>1. /\ state[t] = "user" /\ Raise /\ UNCHANGED <<masks, threads, master, handler, held>>
      /\ LifeTypes /\ handler = TRUE
  BY Zenon DEF Trap, At, IInv, ThreadsOK, LifeTypes
<1>2. CASE free = {} /\ Go(t, "dying") /\ UNCHANGED <<que, events, info, free>>
  <2>1. /\ masks' \in [Thread -> SUBSET (EvNo \ {EV_SIG_KILL})]
        /\ \A u \in Thread \ {t} : masks'[u] = masks[u]
    BY <1>1, Zenon DEF LifeTypes
  <2> QED
    BY <1>1, <1>2, <2>1, RaiseType, QuietStep, Zenon
<1>3. CASE (\E n \in free : Enqueue(t, n, i, Proc)) /\ Go(t, "post")
  <2>1. PICK n \in free : Enqueue(t, n, i, Proc)
    BY <1>3, Zenon
  <2>2. t \in Owner /\ t # Proc
    BY EventAssumption DEF Owner
  <2>3. StoreTypes' /\ QueueOK' /\ BitsOK' /\ HeldOK' /\ FreeOK'
    BY <1>1, <2>1, <2>2, EnqueueStore, Zenon
  <2>4. ThreadsOK' /\ HandsOK' /\ state' \in [Thread -> State]
    BY <1>1, <1>3, ThreadMoves, Zenon
  <2>5. LifeTypes'
    BY <1>1, <2>4, RaiseType, Zenon DEF LifeTypes
  <2> QED
    BY <2>3, <2>4, <2>5, Zenon DEF IInv
<1> QED
  BY <1>2, <1>3, Zenon DEF Trap

\* A new thread comes with empty queues and the masks of its creator.
LEMMA CreateThreadIInv ==
  ASSUME IInv, NEW t \in Thread, NEW u \in Thread, CreateThread(t, u)
  PROVE  IInv'
<1>1. /\ state[t] = "user" /\ state[u] = "none" /\ threads' = Append(threads, u)
      /\ masks' = [masks EXCEPT ![u] = masks[t]]
      /\ state' = [state EXCEPT ![t] = "post", ![u] = "user"]
      /\ UNCHANGED <<que, events, master, handler, held, info, free, raised>>
  BY DEF CreateThread, At
<1>2. LifeTypes /\ ThreadsOK /\ HandsOK
  BY Zenon DEF IInv
<1>3. threads \in Seq(Thread) /\ IsInjective(threads) /\ t \in Range(threads) /\ u \notin Range(threads)
  BY <1>1, <1>2, Zenon DEF LifeTypes, ThreadsOK
<1>4. /\ threads' \in Seq(Thread) /\ IsInjective(threads')
      /\ Range(threads') = Range(threads) \cup {u}
  BY <1>1, <1>3, AppendQueue
<1>5. /\ state' \in [Thread -> State] /\ state'[t] = "post" /\ state'[u] = "user"
      /\ \A v \in Thread \ {t, u} : state'[v] = state[v]
  BY <1>1, <1>2, Zenon DEF LifeTypes, State
<1>6. ThreadsOK'
  BY <1>1, <1>2, <1>3, <1>4, <1>5, Zenon DEF ThreadsOK
<1>7. HandsOK'
  BY <1>1, <1>2, <1>5, Zenon DEF HandsOK
<1>8. LifeTypes'
  BY <1>1, <1>2, <1>4, <1>5, Zenon DEF LifeTypes
<1>9. \A v \in Thread : held[v] # Null => masks'[v] = masks[v]
  BY <1>1, <1>2, Zenon DEF HandsOK, LifeTypes
<1>10. StoreTypes' /\ QueueOK' /\ BitsOK' /\ HeldOK' /\ FreeOK'
  BY <1>1, <1>3, <1>4, <1>9, SameStore, Zenon
<1> QED
  BY <1>6, <1>7, <1>8, <1>10, Zenon DEF IInv
-----------------------------------------------------------------------------
(* The return to user mode *)

\* The oldest event of number i leaves queue o for the hands of t.
LEMMA TakenStore ==
  ASSUME IInv, NEW t \in Thread, state[t] = "post", NEW o \in {Proc, t}, NEW i \in events[o],
         i \notin masks[t], Dequeue(o, i), held' = [held EXCEPT ![t] = Head(que[o][i])],
         UNCHANGED <<masks, threads, info, free>>
  PROVE  /\ StoreTypes' /\ QueueOK' /\ BitsOK' /\ HeldOK' /\ FreeOK'
         /\ i # EV_SIG_KILL /\ Head(que[o][i]) \in Node
<1> DEFINE q == que[o][i]
           h == Head(q)
<1>1. /\ StoreTypes /\ QueueOK /\ BitsOK /\ HeldOK /\ FreeOK /\ ThreadsOK /\ HandsOK
      /\ held \in [Thread -> Node \cup {Null}]
  BY DEF IInv, LifeTypes
<1>2. o \in Owner /\ i \in EvNo /\ i # EV_SIG_KILL /\ Range(threads) # {} /\ held[t] = Null
  BY <1>1, Zenon DEF Owner, StoreTypes, BitsOK, ThreadsOK, HandsOK
<1>3. q \in Seq(Node) /\ IsInjective(q) /\ Range(q) # {}
  BY <1>1, <1>2, SMTT(20) DEF StoreTypes, QueueOK, BitsOK
<1>4. /\ h \in Node /\ h \in Range(q) /\ Tail(q) \in Seq(Node) /\ IsInjective(Tail(q))
      /\ Range(Tail(q)) = Range(q) \ {h}
  BY <1>3, NoElems, TailQueue, Zenon
<1>5. Range(Tail(q)) = {} <=> Len(q) = 1
  <2>1. q # << >>
    BY <1>3, NoElems, Zenon
  <2>2. Tail(q) = << >> <=> Len(q) = 1
    BY <1>3, <2>1, LastOut, Zenon
  <2> QED
    BY <1>4, <2>2, NoElems, Zenon
<1>6. /\ que' \in [Owner -> [EvNo -> Seq(Node)]]
      /\ \A p \in Owner, j \in EvNo : que'[p][j] = IF p = o /\ j = i THEN Tail(q) ELSE que[p][j]
  <2>1. /\ que \in [Owner -> [EvNo -> Seq(Node)]]
        /\ que' = [que EXCEPT ![o] = [que[o] EXCEPT ![i] = Tail(q)]]
    BY <1>1, Zenon DEF Dequeue, StoreTypes
  <2> HIDE DEF q
  <2>2. [que[o] EXCEPT ![i] = Tail(q)] \in [EvNo -> Seq(Node)]
    BY <1>2, <1>4, <2>1, Zenon
  <2> QED
    BY <1>2, <2>1, <2>2, Zenon
<1>7. \A p \in Owner : events'[p] = IF p = o /\ Len(q) = 1 THEN events[p] \ {i} ELSE events[p]
  BY <1>1, <1>2, Zenon DEF Dequeue, StoreTypes
<1>8. held'[t] = h /\ \A u \in Thread \ {t} : held'[u] = held[u]
  BY <1>1, Zenon
<1>9. StoreTypes'
  BY <1>1, <1>2, <1>6, Zenon DEF StoreTypes, Dequeue
<1>10. /\ h \notin free /\ info[h] \in Info /\ info[h].no = i /\ info[h].only \in {Proc, o}
       /\ \A p \in Owner, j \in EvNo : h \in Range(que[p][j]) => p = o /\ j = i
  <2>1. h \in Node /\ h \in Range(que[o][i])
    BY <1>4, Zenon
  <2> HIDE DEF h
  <2> QED
    BY <1>1, <1>2, <2>1, QueuedNode, SMTT(20)
<1> HIDE DEF q, h
<1>11. ASSUME NEW p \in Owner, NEW j \in EvNo
       PROVE  /\ IsInjective(que'[p][j])
              /\ \A n : n \in Range(que'[p][j]) <=> n \in Range(que[p][j]) /\ n # h
  <2>1. CASE p = o /\ j = i
    BY <1>4, <1>6, <2>1, Zenon DEF q
  <2>2. CASE ~(p = o /\ j = i)
    <3>1. que'[p][j] = que[p][j] /\ h \notin Range(que[p][j])
      BY <1>6, <1>10, <2>2, Zenon
    <3>2. IsInjective(que[p][j])
      BY <1>1, Zenon DEF QueueOK
    <3> QED
      BY <3>1, <3>2, Zenon
  <2> QED
    BY <2>1, <2>2, Zenon
<1>12. QueueOK'
  <2> SUFFICES ASSUME NEW p \in Owner, NEW j \in EvNo, NEW n \in Node, n \in Range(que'[p][j])
               PROVE  /\ n \notin free /\ info[n] \in Info /\ info[n].no = j /\ info[n].only \in {Proc, p}
                      /\ \A r \in Owner : n \in Range(que'[r][j]) => r = p
    BY <1>11 DEF QueueOK
  <2>1. n \in Range(que[p][j]) /\ \A r \in Owner : n \in Range(que'[r][j]) => n \in Range(que[r][j])
    BY <1>11, Zenon
  <2> QED
    BY <1>1, <2>1, QueuedNode, SMTT(20)
<1>13. BitsOK'
  <2> SUFFICES ASSUME NEW p \in Owner
               PROVE  /\ EV_SIG_KILL \notin events'[p]
                      /\ \A j \in EvNo \ {EV_SIG_KILL} :
                           (p # Proc \/ Range(threads) # {}) => (j \in events'[p] <=> Range(que'[p][j]) # {})
    BY Zenon DEF BitsOK
  <2>1. EV_SIG_KILL \notin events'[p]
    BY <1>1, <1>7, Zenon DEF BitsOK
  <2>2. ASSUME NEW j \in EvNo \ {EV_SIG_KILL} PROVE j \in events'[p] <=> Range(que'[p][j]) # {}
    <3>1. j \in events[p] <=> Range(que[p][j]) # {}
      BY <1>1, <1>2, Zenon DEF BitsOK
    <3>2. CASE p = o /\ j = i
      BY <1>5, <1>6, <1>7, <3>2, Zenon
    <3>3. CASE ~(p = o /\ j = i)
      BY <1>6, <1>7, <3>1, <3>3, Zenon
    <3> QED
      BY <3>2, <3>3, Zenon
  <2> QED
    BY <2>1, <2>2, Zenon
<1>14. HeldOK'
  <2> SUFFICES ASSUME NEW u \in Thread, NEW n \in Node, held'[u] = n
               PROVE  /\ n \notin free /\ info[n] \in Info /\ info[n].only \in {Proc, u}
                      /\ info[n].no \notin masks[u]
                      /\ \A p \in Owner, j \in EvNo : n \notin Range(que'[p][j])
                      /\ \A v \in Thread : held'[v] = n => v = u
    BY Zenon DEF HeldOK
  <2>1. \A v \in Thread : held[v] # h
    BY <1>1, <1>2, <1>4, Zenon DEF HeldOK, q
  <2>2. CASE u = t
    <3>1. n = h /\ \A v \in Thread : held'[v] = n => v = u
      BY <1>8, <2>1, <2>2, Zenon
    <3>2. \A p \in Owner, j \in EvNo : n \notin Range(que'[p][j])
      BY <1>11, <3>1, Zenon
    <3> QED
      BY <1>10, <2>2, <3>1, <3>2, Zenon
  <2>3. CASE u # t
    <3>1. held[u] = n /\ n # h
      BY <1>8, <2>1, <2>3, Zenon
    <3>2. /\ n \notin free /\ info[n] \in Info /\ info[n].only \in {Proc, u} /\ info[n].no \notin masks[u]
          /\ \A p \in Owner, j \in EvNo : n \notin Range(que[p][j])
          /\ \A v \in Thread : held[v] = n => v = u
      BY <1>1, <3>1, HeldNode, Zenon
    <3>3. \A p \in Owner, j \in EvNo : n \notin Range(que'[p][j])
      BY <1>11, <3>2, Zenon
    <3>4. \A v \in Thread : held'[v] = n => v = u
      BY <1>8, <3>1, <3>2, Zenon
    <3> QED
      BY <3>2, <3>3, <3>4, Zenon
  <2> QED
    BY <2>2, <2>3, Zenon
<1>15. FreeOK'
  <2> SUFFICES ASSUME NEW n \in Node, n \notin free
               PROVE  (\E p \in Owner, j \in EvNo : n \in Range(que'[p][j])) \/ \E u \in Thread : held'[u] = n
    BY Zenon DEF FreeOK
  <2>1. CASE n = h
    BY <1>8, <2>1, Zenon
  <2>2. CASE n # h
    <3>1. (\E p \in Owner, j \in EvNo : n \in Range(que[p][j])) \/ \E u \in Thread : held[u] = n
      BY <1>1, Zenon DEF FreeOK
    <3>2. \A u \in Thread : held[u] = n => u # t
      BY <1>2, EventAssumption, Zenon
    <3> QED
      BY <1>8, <1>11, <2>2, <3>1, <3>2, Zenon
  <2> QED
    BY <2>1, <2>2, Zenon
<1> QED
  BY <1>2, <1>4, <1>9, <1>12, <1>13, <1>14, <1>15, Zenon DEF q, h

\* The lowest pending number is pending.
LEMMA MinIn ==
  ASSUME NEW S \in SUBSET EvNo, S # {}
  PROVE  Min(S) \in S
<1>1. S \in SUBSET Nat
  BY EventAssumption
<1>2. \E m \in S : \A k \in S : m =< k
  BY <1>1, Least, Zenon
<1> QED
  BY <1>2, Zenon DEF Min

\* A thread takes an event that is pending and that it does not mask.
LEMMA SetupEventHandlerIInv ==
  ASSUME IInv, NEW t \in Thread, SetupEventHandler(t)
  PROVE  IInv'
<1> DEFINE o == Source(t)
           D == Deliverable(o, t)
           i == Min(D)
<1>1. state[t] = "post" /\ UNCHANGED <<masks, threads, master, handler, info, free, raised>>
  BY Zenon DEF SetupEventHandler, At
<1>2. LifeTypes /\ StoreTypes /\ ThreadsOK /\ HandsOK /\ handler = TRUE
  BY Zenon DEF IInv, LifeTypes, ThreadsOK
<1>3. o \in {Proc, t} /\ o \in Owner
  BY Zenon DEF Source, Owner
<1>4. D \subseteq events[o] /\ D \cap masks[t] = {} /\ D \subseteq EvNo
  BY <1>2, <1>3, Zenon DEF Deliverable, StoreTypes
<1>5. CASE D = {} /\ Go(t, "user") /\ UNCHANGED <<que, events, held>>
  <2>1. raised' \in 0 .. MaxEvents /\ masks' \in [Thread -> SUBSET (EvNo \ {EV_SIG_KILL})]
    BY <1>1, <1>2, Zenon DEF LifeTypes
  <2> QED
    BY <1>1, <1>2, <1>5, <2>1, QuietStep, Zenon
<1>6. CASE /\ D # {} /\ Dequeue(o, i) /\ held' = [held EXCEPT ![t] = Head(que[o][i])]
           /\ Go(t, IF i = EV_SIG_KILL THEN "dying" ELSE "event")
  <2>1. i \in D
    BY <1>4, <1>6, MinIn, Zenon
  <2> HIDE DEF o, D, i
  <2>2. i \in events[o] /\ i \notin masks[t]
    BY <1>4, <2>1, Zenon
  <2>3. /\ StoreTypes' /\ QueueOK' /\ BitsOK' /\ HeldOK' /\ FreeOK'
        /\ i # EV_SIG_KILL /\ Head(que[o][i]) \in Node
    BY <1>1, <1>3, <1>6, <2>2, TakenStore, Zenon
  <2>4. state' = [state EXCEPT ![t] = "event"]
    BY <1>6, <2>3, Zenon DEF Go
  <2>5. /\ state' \in [Thread -> State] /\ state'[t] = "event"
        /\ \A u \in Thread \ {t} : state'[u] = state[u]
    BY <1>2, <2>4, Zenon DEF LifeTypes, State
  <2>6. /\ held' \in [Thread -> Node \cup {Null}] /\ held'[t] # Null
        /\ \A u \in Thread \ {t} : held'[u] = held[u]
    BY <1>2, <1>6, <2>3, EventAssumption, Zenon DEF LifeTypes
  <2>7. LifeTypes'
    BY <1>1, <1>2, <2>5, <2>6, Zenon DEF LifeTypes
  <2>8. ThreadsOK' /\ HandsOK'
    BY <1>1, <1>2, <2>5, <2>6, Zenon DEF ThreadsOK, HandsOK
  <2> QED
    BY <2>3, <2>7, <2>8, Zenon DEF IInv
<1> QED
  BY <1>5, <1>6, Zenon DEF SetupEventHandler

\* The event of a handler is freed once and is nowhere else.
LEMMA DeliverIInv ==
  ASSUME IInv, NEW t \in Thread, Deliver(t)
  PROVE  IInv'
<1> DEFINE n == held[t]
<1>1. /\ state[t] = "event" /\ free' = free \cup {n} /\ held' = [held EXCEPT ![t] = Null]
      /\ Go(t, "user") \/ Go(t, "dying")
      /\ UNCHANGED <<que, events, masks, threads, master, handler, info, raised>>
  BY Zenon DEF Deliver, At, KFree
<1>2. /\ LifeTypes /\ StoreTypes /\ ThreadsOK /\ HandsOK /\ QueueOK /\ BitsOK /\ HeldOK /\ FreeOK
  BY Zenon DEF IInv
<1>3. n \in Node
  BY <1>1, <1>2, Zenon DEF LifeTypes, HandsOK
<1>4. /\ \A o \in Owner, i \in EvNo : n \notin Range(que[o][i])
      /\ \A u \in Thread \ {t} : held[u] # n
  BY <1>2, <1>3, Zenon DEF HeldOK
<1>5. /\ held' \in [Thread -> Node \cup {Null}] /\ held'[t] = Null
      /\ \A u \in Thread \ {t} : held'[u] = held[u]
  BY <1>1, <1>2, Zenon DEF LifeTypes
<1>6. /\ state' \in [Thread -> State] /\ state'[t] \in {"user", "dying"}
      /\ \A u \in Thread \ {t} : state'[u] = state[u]
  BY <1>1, <1>2, Zenon DEF LifeTypes, State, Go
<1> HIDE DEF n
<1>7. StoreTypes' /\ LifeTypes'
  BY <1>1, <1>2, <1>3, <1>5, <1>6, Zenon DEF StoreTypes, LifeTypes
<1>8. ThreadsOK' /\ HandsOK'
  BY <1>1, <1>2, <1>5, <1>6, Zenon DEF ThreadsOK, HandsOK
<1>9. QueueOK'
  <2>1. \A o \in Owner, i \in EvNo, m \in Node : m \in Range(que[o][i]) /\ m \notin free => m \notin free'
    BY <1>1, <1>4, Zenon
  <2> QED
    BY <1>1, <1>2, <2>1, Zenon DEF QueueOK
<1>b. BitsOK'
  BY <1>1, <1>2, Zenon DEF BitsOK
<1>10. HeldOK'
  <2>1. \A u \in Thread, m \in Node : held'[u] = m => u # t /\ held[u] = m /\ m # n
    BY <1>4, <1>5, EventAssumption, Zenon
  <2>2. \A m \in Node : m # n => (m \in free' <=> m \in free)
    BY <1>1, Zenon
  <2> QED
    <3> SUFFICES ASSUME NEW u \in Thread, NEW m \in Node, held'[u] = m
                 PROVE  /\ m \notin free' /\ info[m] \in Info /\ info[m].only \in {Proc, u}
                        /\ info[m].no \notin masks[u]
                        /\ \A o \in Owner, i \in EvNo : m \notin Range(que[o][i])
                        /\ \A v \in Thread : held'[v] = m => v = u
      BY <1>1, Zenon DEF HeldOK
    <3>1. held[u] = m /\ m # n /\ \A v \in Thread : held'[v] = m => held[v] = m
      BY <2>1, Zenon
    <3> QED
      BY <1>2, <2>2, <3>1, HeldNode, Zenon
<1>11. FreeOK'
  BY <1>1, <1>2, <1>4, <1>5, Zenon DEF FreeOK, n
<1> QED
  BY <1>7, <1>8, <1>9, <1>b, <1>10, <1>11, Zenon DEF IInv

-----------------------------------------------------------------------------
(* The end of a thread *)

\* Who is left, and who is their master, when t leaves the process
LEMMA Leaving ==
  ASSUME IInv, NEW t \in Thread, state[t] = "dying"
  PROVE  /\ Without(t) \in Seq(Thread) /\ IsInjective(Without(t))
         /\ Range(Without(t)) = Range(threads) \ {t} /\ t \in Range(threads)
         /\ HeirOf(t) \in Thread
         /\ Range(Without(t)) # {} => HeirOf(t) \in Range(Without(t))
         /\ Range(Without(t)) = {} => HeirOf(t) = t
<1> DEFINE w == Without(t)
           k == CHOOSE k \in DOMAIN threads : threads[k] = t
<1>1. threads \in Seq(Thread) /\ master \in Thread /\ ThreadsOK
  BY Zenon DEF IInv, LifeTypes
<1>2. IsInjective(threads) /\ t \in Range(threads) /\ master \in Range(threads)
  BY <1>1, Zenon DEF ThreadsOK
<1>3. k \in DOMAIN threads /\ threads[k] = t /\ w = ListDel(threads, k)
  BY <1>2, Zenon DEF Range, Without
<1> HIDE DEF k, w
<1>4. w \in Seq(Thread) /\ IsInjective(w) /\ Range(w) = Range(threads) \ {t}
  BY <1>1, <1>2, <1>3, RemoveQueue, Zenon
<1>5. HeirOf(t) = IF t = master /\ w # << >> THEN Head(w) ELSE master
  BY Zenon DEF HeirOf, w
<1>6. CASE Range(w) = {}
  <2>1. w = << >>
    BY <1>4, <1>6, NoElems, Zenon
  <2>2. HeirOf(t) = t
    BY <1>2, <1>4, <1>5, <1>6, <2>1, Zenon
  <2> QED
    BY <1>2, <1>4, <1>6, <2>2, Zenon DEF w
<1>7. CASE Range(w) # {}
  <2>1. w # << >>
    BY <1>4, <1>7, NoElems, Zenon
  <2>2. Head(w) \in Range(w) /\ Range(w) \subseteq Thread
    BY <1>4, <2>1, TailQueue DEF Range
  <2>3. HeirOf(t) \in Range(w)
    BY <1>2, <1>4, <1>5, <2>1, <2>2, Zenon
  <2> QED
    BY <1>2, <1>4, <1>7, <2>2, <2>3, Zenon DEF w
<1> QED
  BY <1>6, <1>7, Zenon

\* What t leaves to the process of the events of one number
LEMMA InheritedQueue ==
  ASSUME IInv, NEW t \in Thread, state[t] = "dying", NEW i \in EvNo
  PROVE  /\ Inherited(t, i) \in Seq(Node) /\ IsInjective(Inherited(t, i))
         /\ \A n \in Range(Inherited(t, i)) : n \in Range(que[t][i]) /\ n \in Node /\ info[n].only = Proc
         /\ Range(Without(t)) = {} => Range(Inherited(t, i)) = {}
<1> DEFINE q == que[t][i]
           K == {k \in DOMAIN q : HeirOf(t) # t /\ info[q[k]].only = Proc}
           r == Inherited(t, i)
<1>1. q \in Seq(Node) /\ IsInjective(q)
  BY DEF IInv, StoreTypes, QueueOK, Owner
<1>2. r = Selected(q, K) /\ K \in SUBSET DOMAIN q
  BY Zenon DEF Inherited
<1>3. \A k \in K : q[k] \in Range(q) /\ q[k] \in Node /\ info[q[k]].only = Proc /\ HeirOf(t) # t
  BY <1>1 DEF Range
<1> HIDE DEF q, K, r
<1>4. r \in Seq(Node) /\ IsInjective(r) /\ Range(r) = {q[k] : k \in K}
  BY <1>1, <1>2, SelectedQueue
<1>5. Range(Without(t)) = {} => Range(r) = {}
  BY <1>3, <1>4, Leaving, Zenon
<1> QED
  BY <1>3, <1>4, <1>5, Zenon DEF q, r

\* The queues and pending bits after t has left, in terms of what they hold
LEMMA LeftQueues ==
  ASSUME IInv, NEW t \in Thread, EnterDead(t)
  PROVE  /\ que' \in [Owner -> [EvNo -> Seq(Node)]]
         /\ events' \in [Owner -> SUBSET EvNo]
         /\ \A p \in Owner, j \in EvNo :
              /\ IsInjective(que'[p][j])
              /\ \A n : n \in Range(que'[p][j]) <=>
                   /\ p # t /\ (p = Proc => Range(threads') # {})
                   /\ n \in Range(que[p][j]) \/ (p = Proc /\ n \in Range(Inherited(t, j)))
         /\ \A p \in Owner : events'[p] = IF p = t THEN {} ELSE IF p # Proc THEN events[p]
              ELSE events[p] \cup {j \in EvNo \ {EV_SIG_KILL} : Range(Inherited(t, j)) # {}}
<1> DEFINE last == Without(t) = << >>
           joined == [i \in EvNo |-> IF last THEN << >> ELSE que[Proc][i] \o Inherited(t, i)]
           none == [i \in EvNo |-> << >>]
           bits == UNION {MaskSet({}, i) : i \in {i \in EvNo : Inherited(t, i) # << >>}}
<1>1. /\ state[t] = "dying" /\ threads' = Without(t)
      /\ que' = [que EXCEPT ![t] = none, ![Proc] = joined]
      /\ events' = [events EXCEPT ![t] = {}, ![Proc] = @ \cup bits]
  BY Zenon DEF EnterDead, At
<1>2. StoreTypes /\ QueueOK /\ t \in Owner /\ Proc \in Owner /\ t # Proc
  BY EventAssumption, Zenon DEF IInv, Owner
<1>3. last <=> Range(threads') = {}
  BY <1>1, Leaving, NoElems
<1>4. ASSUME NEW j \in EvNo
      PROVE  /\ joined[j] \in Seq(Node) /\ IsInjective(joined[j])
             /\ \A n : n \in Range(joined[j]) <=>
                  Range(threads') # {} /\ (n \in Range(que[Proc][j]) \/ n \in Range(Inherited(t, j)))
  <2>1. CASE last
    BY <1>3, <2>1, EmptyQueue
  <2>2. CASE ~last
    <3> DEFINE q == que[Proc][j]
               r == Inherited(t, j)
    <3>1. q \in Seq(Node) /\ IsInjective(q)
      BY <1>2 DEF StoreTypes, QueueOK
    <3>2. r \in Seq(Node) /\ IsInjective(r) /\ \A n \in Range(r) : n \in Range(que[t][j]) /\ n \in Node
      BY <1>1, InheritedQueue, Zenon
    <3>3. Range(q) \cap Range(r) = {}
      BY <1>2, <3>2, Zenon DEF QueueOK
    <3>4. joined[j] = q \o r
      BY <2>2, Zenon
    <3> HIDE DEF q, r, joined, last
    <3>5. q \o r \in Seq(Node) /\ IsInjective(q \o r) /\ Range(q \o r) = Range(q) \cup Range(r)
      BY <3>1, <3>2, <3>3, JoinedQueue
    <3> QED
      BY <1>3, <2>2, <3>4, <3>5, Zenon DEF q, r
  <2> QED
    BY <2>1, <2>2, Zenon
<1>5. \A j \in EvNo : none[j] = << >> /\ none[j] \in Seq(Node) /\ IsInjective(none[j]) /\ Range(none[j]) = {}
  BY EmptyQueue
<1>6. joined \in [EvNo -> Seq(Node)] /\ none \in [EvNo -> Seq(Node)]
  <2>1. joined = [i \in EvNo |-> joined[i]] /\ none = [i \in EvNo |-> none[i]]
    BY Zenon
  <2> HIDE DEF joined, none
  <2> QED
    BY <1>4, <1>5, <2>1, Zenon
<1>7. bits = {j \in EvNo \ {EV_SIG_KILL} : Range(Inherited(t, j)) # {}}
  <2>1. \A j \in EvNo : Inherited(t, j) # << >> <=> Range(Inherited(t, j)) # {}
    BY <1>1, InheritedQueue, NoElems, Zenon
  <2> QED
    BY <2>1, Zenon DEF MaskSet
<1> HIDE DEF joined, none, bits, last
<1>8. /\ que' \in [Owner -> [EvNo -> Seq(Node)]]
      /\ que'[t] = none /\ que'[Proc] = joined /\ \A p \in Owner \ {t, Proc} : que'[p] = que[p]
  BY <1>1, <1>2, <1>6, Zenon DEF StoreTypes
<1>9. /\ events'[t] = {} /\ events'[Proc] = events[Proc] \cup bits
      /\ \A p \in Owner \ {t, Proc} : events'[p] = events[p]
      /\ events' \in [Owner -> SUBSET EvNo]
  BY <1>1, <1>2, <1>7, Zenon DEF StoreTypes
<1>10. ASSUME NEW p \in Owner, NEW j \in EvNo
       PROVE  /\ IsInjective(que'[p][j])
              /\ \A n : n \in Range(que'[p][j]) <=>
                   /\ p # t /\ (p = Proc => Range(threads') # {})
                   /\ n \in Range(que[p][j]) \/ (p = Proc /\ n \in Range(Inherited(t, j)))
  <2>1. CASE p = t
    BY <1>5, <1>8, <2>1, Zenon
  <2>2. CASE p = Proc
    BY <1>2, <1>4, <1>8, <2>2, Zenon
  <2>3. CASE p \notin {t, Proc}
    BY <1>2, <1>8, <2>3, Zenon DEF QueueOK
  <2> QED
    BY <2>1, <2>2, <2>3, Zenon
<1> QED
  BY <1>2, <1>7, <1>8, <1>9, <1>10, Zenon

\* A thread leaves: its events go to the process or are freed, each once.
LEMMA EnterDeadIInv ==
  ASSUME IInv, NEW t \in Thread, EnterDead(t)
  PROVE  IInv'
<1> DEFINE Inh(j) == Range(Inherited(t, j))
<1>1. /\ state[t] = "dying" /\ threads' = Without(t) /\ master' = HeirOf(t)
      /\ state' = [state EXCEPT ![t] = "gone"]
      /\ UNCHANGED <<masks, handler, held, info, raised>>
  BY Zenon DEF EnterDead, At, Go
<1>2. /\ LifeTypes /\ StoreTypes /\ ThreadsOK /\ HandsOK /\ QueueOK /\ BitsOK /\ HeldOK /\ FreeOK
      /\ t \in Owner /\ Proc \in Owner /\ t # Proc
  BY EventAssumption, Zenon DEF IInv, Owner
<1>3. /\ state' \in [Thread -> State] /\ state'[t] = "gone"
      /\ \A u \in Thread \ {t} : state'[u] = state[u]
  BY <1>1, <1>2, Zenon DEF LifeTypes, State
<1>4. LifeTypes'
  BY <1>1, <1>2, <1>3, Leaving, Zenon DEF LifeTypes
<1>5. ThreadsOK'
  BY <1>1, <1>2, <1>3, Leaving, Zenon DEF ThreadsOK
<1>6. HandsOK'
  BY <1>1, <1>2, <1>3, Zenon DEF HandsOK
<1>7. ASSUME NEW p \in Owner, NEW j \in EvNo
      PROVE  /\ IsInjective(que'[p][j])
             /\ \A n : n \in Range(que'[p][j]) <=>
                  /\ p # t /\ (p = Proc => Range(threads') # {})
                  /\ n \in Range(que[p][j]) \/ (p = Proc /\ n \in Inh(j))
  BY LeftQueues, Zenon
<1>8. \A p \in Owner : events'[p] = IF p = t THEN {} ELSE IF p # Proc THEN events[p]
              ELSE events[p] \cup {j \in EvNo \ {EV_SIG_KILL} : Inh(j) # {}}
  BY LeftQueues, Zenon
<1>9. /\ \A j \in EvNo : \A n \in Inh(j) : n \in Range(que[t][j]) /\ n \in Node /\ info[n].only = Proc
      /\ Range(threads') = {} => \A j \in EvNo : Inh(j) = {}
  BY <1>1, InheritedQueue, Zenon
<1>10. Range(threads) # {}
  BY <1>1, Leaving, Zenon
<1> HIDE DEF Inh
<1>11. \A n : n \in free' <=>
         \/ n \in free
         \/ (\E j \in EvNo : n \in Range(que[t][j])) /\ \A j \in EvNo : n \notin Inh(j)
         \/ Range(threads') = {} /\ \E j \in EvNo : n \in Range(que[Proc][j])
  <2>1. Without(t) = << >> <=> Range(threads') = {}
    BY <1>1, Leaving, NoElems
  <2>2. /\ \A n : n \in QueuedOf(t) <=> \E j \in EvNo : n \in Range(que[t][j])
        /\ \A n : n \in QueuedOf(Proc) <=> \E j \in EvNo : n \in Range(que[Proc][j])
    BY Zenon DEF QueuedOf
  <2>3. \A n : n \in Dropped(t) <=> n \in QueuedOf(t) /\ \A j \in EvNo : n \notin Inh(j)
    BY Zenon DEF Dropped, Inh
  <2>4. free' = free \cup Dropped(t) \cup (IF Without(t) = << >> THEN QueuedOf(Proc) ELSE {})
    BY Zenon DEF EnterDead
  <2> QED
    BY <2>1, <2>2, <2>3, <2>4, Zenon
<1>12. \A p \in Owner, j \in EvNo : \A n \in Range(que[p][j]) : n \in Node
  BY <1>2 DEF StoreTypes, Range
<1>13. StoreTypes'
  <2>1. free' \subseteq Node
    BY <1>2, <1>11, <1>12, Zenon DEF StoreTypes
  <2> QED
    BY <1>1, <1>2, <2>1, LeftQueues, Zenon DEF StoreTypes
<1>14. QueueOK'
  <2> SUFFICES ASSUME NEW p \in Owner, NEW j \in EvNo, NEW n \in Node, n \in Range(que'[p][j])
               PROVE  /\ n \notin free' /\ info[n] \in Info /\ info[n].no = j /\ info[n].only \in {Proc, p}
                      /\ \A o \in Owner : n \in Range(que'[o][j]) => o = p
    BY <1>1, <1>7, Zenon DEF QueueOK
  <2>1. p # t /\ (p = Proc => Range(threads') # {})
    BY <1>7, Zenon
  <2>2. CASE n \in Range(que[p][j])
    <3>1. /\ n \notin free /\ info[n] \in Info /\ info[n].no = j /\ info[n].only \in {Proc, p}
          /\ \A o \in Owner, k \in EvNo : n \in Range(que[o][k]) => o = p
      BY <1>2, <2>2, QueuedNode, SMTT(20)
    <3>2. n \notin free'
      BY <1>2, <1>11, <2>1, <3>1, Zenon
    <3>3. \A k \in EvNo : n \notin Inh(k)
      BY <1>2, <1>9, <2>1, <3>1, Zenon
    <3>4. \A o \in Owner : n \in Range(que'[o][j]) => n \in Range(que[o][j])
      BY <1>7, <3>3, Zenon
    <3> QED
      BY <3>1, <3>2, <3>4, Zenon
  <2>3. CASE p = Proc /\ n \in Inh(j)
    <3>1. n \in Range(que[t][j]) /\ info[n].only = Proc
      BY <1>9, <2>3, Zenon
    <3>2. /\ n \notin free /\ info[n] \in Info /\ info[n].no = j
          /\ \A o \in Owner, k \in EvNo : n \in Range(que[o][k]) => o = t
      BY <1>2, <3>1, QueuedNode
    <3>3. n \notin free'
      BY <1>2, <1>11, <2>3, <3>2, Zenon
    <3>4. \A o \in Owner : n \in Range(que'[o][j]) => o = p
      BY <1>7, <2>3, <3>2, Zenon
    <3> QED
      BY <3>1, <3>2, <3>3, <3>4, Zenon
  <2> QED
    BY <1>7, <2>2, <2>3, Zenon
<1>15. BitsOK'
  <2> SUFFICES ASSUME NEW p \in Owner
               PROVE  /\ EV_SIG_KILL \notin events'[p]
                      /\ \A j \in EvNo \ {EV_SIG_KILL} :
                           (p # Proc \/ Range(threads') # {}) => (j \in events'[p] <=> Range(que'[p][j]) # {})
    BY Zenon DEF BitsOK
  <2>1. EV_SIG_KILL \notin events'[p]
    BY <1>2, <1>8, Zenon DEF BitsOK
  <2>2. ASSUME NEW j \in EvNo \ {EV_SIG_KILL}, p # Proc \/ Range(threads') # {}
        PROVE  j \in events'[p] <=> Range(que'[p][j]) # {}
    <3>1. j \in events[p] <=> Range(que[p][j]) # {}
      BY <1>2, <1>10, Zenon DEF BitsOK
    <3>2. j \in events'[p] <=> p # t /\ (j \in events[p] \/ (p = Proc /\ Inh(j) # {}))
      BY <1>2, <1>8, Zenon
    <3>3. Range(que'[p][j]) # {} <=> p # t /\ (Range(que[p][j]) # {} \/ (p = Proc /\ Inh(j) # {}))
      BY <1>7, <2>2, Zenon
    <3> QED
      BY <3>1, <3>2, <3>3, Zenon
  <2> QED
    BY <2>1, <2>2, Zenon
<1>16. HeldOK'
  <2> SUFFICES ASSUME NEW u \in Thread, NEW n \in Node, held[u] = n
               PROVE  /\ n \notin free' /\ info[n] \in Info /\ info[n].only \in {Proc, u}
                      /\ info[n].no \notin masks[u]
                      /\ \A p \in Owner, j \in EvNo : n \notin Range(que'[p][j])
                      /\ \A v \in Thread : held[v] = n => v = u
    BY <1>1, Zenon DEF HeldOK
  <2>1. n \notin free /\ \A p \in Owner, j \in EvNo : n \notin Range(que[p][j])
    BY <1>2, Zenon DEF HeldOK
  <2>2. n \notin free' /\ \A j \in EvNo : n \notin Inh(j)
    BY <1>2, <1>9, <1>11, <2>1, Zenon
  <2>3. \A p \in Owner, j \in EvNo : n \notin Range(que'[p][j])
    BY <1>7, <2>1, <2>2, Zenon
  <2> QED
    BY <1>2, <2>2, <2>3, Zenon DEF HeldOK
<1>17. FreeOK'
  <2> SUFFICES ASSUME NEW n \in Node, n \notin free', \A u \in Thread : held[u] # n
               PROVE  \E p \in Owner, j \in EvNo : n \in Range(que'[p][j])
    BY <1>1, Zenon DEF FreeOK
  <2>1. PICK p \in Owner, j \in EvNo : n \in Range(que[p][j])
    BY <1>2, <1>11, Zenon DEF FreeOK
  <2>2. CASE p = t
    <3>1. PICK k \in EvNo : n \in Inh(k)
      BY <1>11, <2>1, <2>2, Zenon
    <3>2. Range(threads') # {}
      BY <1>9, <3>1, Zenon
    <3> QED
      BY <1>2, <1>7, <3>1, <3>2, Zenon
  <2>3. CASE p # t
    BY <1>7, <1>11, <2>1, <2>3, Zenon
  <2> QED
    BY <2>2, <2>3, Zenon
<1> QED
  BY <1>4, <1>5, <1>6, <1>13, <1>14, <1>15, <1>16, <1>17, Zenon DEF IInv

-----------------------------------------------------------------------------
(* The theorems *)

\* With a handler from the start no thread is on the path that drops events.
LEMMA NextIInv == IInv /\ [Next]_vars => IInv'
<1> SUFFICES ASSUME IInv, [Next]_vars PROVE IInv'
  BY Zenon
<1>1. ASSUME NEW t \in Thread, NEW i \in EvNo, SendThr(t, i) PROVE IInv'
  BY <1>1, SendThrIInv, Zenon
<1>2. ASSUME NEW t \in Thread, NEW i \in EvNo, Trap(t, i) PROVE IInv'
  BY <1>2, TrapIInv, Zenon
<1>3. ASSUME NEW i \in EvNo, SendProc(i) PROVE IInv'
  BY <1>3, SendProcIInv, Zenon
<1>4. ASSUME NEW i \in EvNo, SendAll(i) PROVE IInv'
  BY <1>4, SendAllIInv, Zenon
<1>5. ASSUME NEW t \in Thread, NEW u \in Thread, CreateThread(t, u) PROVE IInv'
  BY <1>5, CreateThreadIInv, Zenon
<1>6. ASSUME NEW t \in Thread,
             \/ \E mask \in SUBSET EvNo : SetMask(t, mask)
             \/ RegisterHandler(t) \/ Interrupt(t) \/ ThrExit(t)
      PROVE  IInv'
  BY <1>6, RequestIInv, Zenon
<1>7. ASSUME NEW t \in Thread, SetupEventHandler(t) PROVE IInv'
  BY <1>7, SetupEventHandlerIInv, Zenon
<1>8. ASSUME NEW t \in Thread, Deliver(t) PROVE IInv'
  BY <1>8, DeliverIInv, Zenon
<1>9. ASSUME NEW t \in Thread, Discard(t) \/ ExitOut(t) PROVE FALSE
  BY <1>9, Zenon DEF Discard, ExitOut, At, IInv, ThreadsOK
<1>10. ASSUME NEW t \in Thread, EnterDead(t) PROVE IInv'
  BY <1>10, EnterDeadIInv, Zenon
<1>11. CASE UNCHANGED vars
  <2>1. StoreTypes' /\ QueueOK' /\ BitsOK' /\ HeldOK' /\ FreeOK'
    BY <1>11, SameStore, Zenon DEF vars
  <2>2. LifeTypes' /\ ThreadsOK' /\ HandsOK'
    BY <1>11, Zenon DEF vars, IInv, LifeTypes, ThreadsOK, HandsOK
  <2> QED
    BY <2>1, <2>2, Zenon DEF IInv
<1> QED
  BY <1>1, <1>2, <1>3, <1>4, <1>5, <1>6, <1>7, <1>8, <1>9, <1>10, <1>11, Zenon DEF Next

\* The invariant says where each node is, in numbers.
LEMMA Accounted == IInv => NodesAccounted
<1> SUFFICES ASSUME IInv PROVE NodesAccounted
  BY Zenon
<1>1. QueueOK /\ HeldOK /\ FreeOK /\ StoreTypes
  BY Zenon DEF IInv
<1> DEFINE queues(n) == {q \in Owner \X EvNo : n \in Range(que[q[1]][q[2]])}
           hands(n) == {t \in Thread : held[t] = n}
<1> SUFFICES ASSUME NEW n \in Node
             PROVE  Cardinality(queues(n)) + Cardinality(hands(n)) = IF n \in free THEN 0 ELSE 1
  BY <1>1, Zenon DEF NodesAccounted, QueueOK
<1> HIDE DEF queues, hands
<1>2. Cardinality({}) = 0 /\ \A x : Cardinality({x}) = 1
  BY FS_EmptySet, FS_Singleton, Zenon
<1>3. CASE n \in free
  <2>1. queues(n) = {} /\ hands(n) = {}
    BY <1>1, <1>3, SMTT(20) DEF QueueOK, HeldOK, queues, hands
  <2> QED
    BY <1>2, <1>3, <2>1
<1>4. CASE \E t \in Thread : held[t] = n
  <2>1. PICK t \in Thread : held[t] = n
    BY <1>4, Zenon
  <2>2. queues(n) = {} /\ hands(n) = {t} /\ n \notin free
    BY <1>1, <2>1, SMTT(20) DEF HeldOK, queues, hands
  <2> QED
    BY <1>2, <2>2
<1>5. CASE \E o \in Owner, i \in EvNo : n \in Range(que[o][i])
  <2>1. PICK o \in Owner, i \in EvNo : n \in Range(que[o][i])
    BY <1>5, Zenon
  <2>2. /\ n \notin free
        /\ \A p \in Owner, j \in EvNo : n \in Range(que[p][j]) => p = o /\ j = i
    BY <1>1, <2>1, QueuedNode, SMTT(20)
  <2>3. hands(n) = {}
    BY <1>1, <2>1, Zenon DEF HeldOK, queues, hands
  <2>4. queues(n) = {<<o, i>>}
    <3>1. <<o, i>> \in queues(n)
      BY <2>1, Zenon DEF queues
    <3>2. ASSUME NEW q \in queues(n) PROVE q = <<o, i>>
      <4>1. q \in Owner \X EvNo /\ n \in Range(que[q[1]][q[2]])
        BY Zenon DEF queues
      <4> QED
        BY <2>2, <4>1
    <3> QED
      BY <3>1, <3>2, Zenon
  <2>5. PICK x : queues(n) = {x}
    BY <2>4, Zenon
  <2>6. Cardinality(hands(n)) = 0 /\ n \notin free
    BY <1>2, <2>2, <2>3, Zenon
  <2>7. Cardinality(queues(n)) = 1
    BY <1>2, <2>5, Zenon
  <2> QED
    BY <2>6, <2>7
<1>6. \/ n \in free \/ \E t \in Thread : held[t] = n
      \/ \E o \in Owner, i \in EvNo : n \in Range(que[o][i])
  BY <1>1, Zenon DEF FreeOK
<1> QED
  BY <1>3, <1>4, <1>5, <1>6, Zenon

\* The invariant ties the pending bits to the queues and events to their threads.
LEMMA Exact == IInv => QueuesExact
<1> SUFFICES ASSUME IInv PROVE QueuesExact
  BY Zenon
<1>1. StoreTypes /\ LifeTypes /\ QueueOK /\ BitsOK /\ HeldOK /\ HandsOK /\ FreeOK
  BY Zenon DEF IInv
<1>2. TypeOK
  BY <1>1, Zenon DEF TypeOK, StoreTypes, LifeTypes
<1>3. PendingExact
  <2> SUFFICES ASSUME NEW o \in Owner, NEW i \in EvNo \ {EV_SIG_KILL}, o # Proc \/ threads # << >>
               PROVE  i \in events[o] <=> que[o][i] # << >>
    BY Zenon DEF PendingExact
  <2>1. que[o][i] \in Seq(Node) /\ threads \in Seq(Thread)
    BY <1>1 DEF StoreTypes, LifeTypes
  <2>2. (que[o][i] # << >> <=> Range(que[o][i]) # {}) /\ (threads # << >> <=> Range(threads) # {})
    BY <2>1, NoElems, Zenon
  <2> QED
    BY <1>1, <2>2, Zenon DEF BitsOK
<1>4. SpecificStays
  <2> SUFFICES ASSUME NEW n \in Node \ free, info[n].only # Proc
               PROVE  /\ \A o \in Owner \ {info[n].only}, i \in EvNo : n \notin Range(que[o][i])
                      /\ \A t \in Thread \ {info[n].only} : held[t] # n
    BY DEF SpecificStays, QueuedOf
  <2> QED
    BY <1>1, Zenon DEF QueueOK, HeldOK
<1>5. HeldUnmasked
  <2> SUFFICES ASSUME NEW t \in Thread, state[t] = "event"
               PROVE  info[held[t]].no \notin masks[t]
    BY Zenon DEF HeldUnmasked, At
  <2>1. held[t] \in Node
    BY <1>1, Zenon DEF LifeTypes, HandsOK
  <2> QED
    BY <1>1, <2>1, Zenon DEF HeldOK
<1> QED
  BY <1>2, <1>3, <1>4, <1>5 DEF QueuesExact

\* In a process that registered its event handler before any event was sent,
\* an event node allocated by ev_alloc_and_send or by a broadcast is always at
\* one place of one queue or in the hands of one thread that frees it.
THEOREM NodesAreAccounted == HandlerAtStart /\ Spec => []NodesAccounted
<1>1. HandlerAtStart /\ Init => IInv
  BY InitIInv, Zenon
<1>2. IInv /\ [Next]_vars => IInv'
  BY NextIInv, Zenon
<1>3. IInv => NodesAccounted
  BY Accounted, Zenon
<1> QED
  BY <1>1, <1>2, <1>3, PTL DEF Spec

\* In such a process the pending bits agree with the queues, an event for one
\* thread stays with it, and no thread handles an event that it masks.
THEOREM QueuesAreExact == HandlerAtStart /\ Spec => []QueuesExact
<1>1. HandlerAtStart /\ Init => IInv
  BY InitIInv, Zenon
<1>2. IInv /\ [Next]_vars => IInv'
  BY NextIInv
<1>3. IInv => QueuesExact
  BY Exact
<1> QED
  BY <1>1, <1>2, <1>3, PTL DEF Spec

=============================================================================
