---------------------------- MODULE QueueLemmas ----------------------------
(***************************************************************************)
(* The list queues of the kernel (klib/queue.c) are sequences without      *)
(* duplicates: what adding, taking the first and unlinking do to them.     *)
(***************************************************************************)
EXTENDS Queues, SequenceTheorems, TLAPS

\* Appending adds one element and keeps a queue free of duplicates when the
\* element is new (queue_add).
LEMMA AppendQueue ==
  ASSUME NEW S, NEW s \in Seq(S), NEW e \in S
  PROVE  /\ Append(s, e) \in Seq(S)
         /\ Range(Append(s, e)) = Range(s) \cup {e}
         /\ IsInjective(s) /\ e \notin Range(s) => IsInjective(Append(s, e))
<1>1. /\ Append(s, e) \in Seq(S)
      /\ DOMAIN Append(s, e) = 1 .. Len(s) + 1
      /\ DOMAIN s = 1 .. Len(s)
      /\ \A i \in 1 .. Len(s) : Append(s, e)[i] = s[i]
      /\ Append(s, e)[Len(s) + 1] = e
      /\ Len(s) \in Nat
  OBVIOUS
<1>2. 1 .. Len(s) + 1 = 1 .. Len(s) \cup {Len(s) + 1}
  BY <1>1
<1>3. Range(Append(s, e)) = Range(s) \cup {e}
  BY <1>1, <1>2 DEF Range
<1>4. IsInjective(s) /\ e \notin Range(s) => IsInjective(Append(s, e))
  BY <1>1, <1>2 DEF Range, IsInjective
<1> QED
  BY <1>1, <1>3, <1>4

\* Places in a queue that has got one more element
LEMMA AppendPlaces ==
  ASSUME NEW S, NEW s \in Seq(S), NEW e \in S
  PROVE  /\ Append(s, e) \in Seq(S) /\ Len(Append(s, e)) = Len(s) + 1
         /\ Append(s, e)[Len(s) + 1] = e /\ \A k \in 1 .. Len(s) : Append(s, e)[k] = s[k]
  OBVIOUS

\* Taking the first element off removes just that element from a queue free
\* of duplicates (queue_get_top).
LEMMA TailQueue ==
  ASSUME NEW S, NEW s \in Seq(S), s # << >>, IsInjective(s)
  PROVE  /\ Head(s) \in S /\ Head(s) \in Range(s)
         /\ Tail(s) \in Seq(S)
         /\ Range(Tail(s)) = Range(s) \ {Head(s)}
         /\ IsInjective(Tail(s))
<1>1. /\ Tail(s) \in Seq(S)
      /\ Head(s) = s[1]
      /\ Len(s) \in Nat \ {0}
      /\ DOMAIN s = 1 .. Len(s)
      /\ DOMAIN Tail(s) = 1 .. Len(s) - 1
      /\ \A i \in 1 .. Len(s) - 1 : Tail(s)[i] = s[i + 1]
      /\ Head(s) \in S
  OBVIOUS
<1>2. Head(s) \in Range(s)
  BY <1>1 DEF Range
<1>3. IsInjective(Tail(s))
  BY <1>1 DEF IsInjective
<1>4. Range(Tail(s)) \subseteq Range(s) \ {Head(s)}
  BY <1>1 DEF IsInjective, Range
<1>5. ASSUME NEW x \in Range(s), x # Head(s)
      PROVE  x \in Range(Tail(s))
  <2>1. PICK i \in DOMAIN s : x = s[i]
    BY DEF Range
  <2>2. i - 1 \in DOMAIN Tail(s) /\ Tail(s)[i - 1] = x
    BY <1>1, <1>5, <2>1
  <2> QED
    BY <2>2 DEF Range
<1> QED
  BY <1>1, <1>2, <1>3, <1>4, <1>5

\* An empty queue (queue_init)
LEMMA EmptyQueue == Range(<< >>) = {} /\ IsInjective(<< >>)
  BY DEF Range, IsInjective

\* An empty queue has no elements.
LEMMA NoElems ==
  ASSUME NEW S, NEW q \in Seq(S)
  PROVE  q = << >> <=> Range(q) = {}
<1>1. Len(q) \in Nat /\ DOMAIN q = 1 .. Len(q)
  OBVIOUS
<1>2. q # << >> => 1 \in DOMAIN q
  BY <1>1
<1> QED
  BY <1>2, EmptyQueue DEF Range

\* Taking the last element leaves a queue empty.
LEMMA LastOut ==
  ASSUME NEW S, NEW q \in Seq(S), q # << >>
  PROVE  Tail(q) = << >> <=> Len(q) = 1
<1> DEFINE a == Len(q)
           u == Tail(q)
<1>1. u \in Seq(S) /\ Len(u) = a - 1 /\ a \in Nat
  OBVIOUS
<1> HIDE DEF a, u
<1>2. \A r \in Seq(S) : r = << >> <=> Len(r) = 0
  OBVIOUS
<1>3. u = << >> <=> a = 1
  BY <1>1, <1>2
<1> QED
  BY <1>3 DEF a, u

\* Two queues with different elements, one behind the other
LEMMA JoinedQueue ==
  ASSUME NEW S, NEW q \in Seq(S), NEW r \in Seq(S), IsInjective(q), IsInjective(r),
         Range(q) \cap Range(r) = {}
  PROVE  q \o r \in Seq(S) /\ IsInjective(q \o r) /\ Range(q \o r) = Range(q) \cup Range(r)
<1> DEFINE a == Len(q)
           b == Len(r)
           s == q \o r
<1>1. /\ a \in Nat /\ b \in Nat /\ DOMAIN q = 1 .. a /\ DOMAIN r = 1 .. b
      /\ s \in Seq(S) /\ DOMAIN s = 1 .. a + b
      /\ \A k \in 1 .. a + b : s[k] = IF k <= a THEN q[k] ELSE r[k - a]
  OBVIOUS
<1> HIDE DEF a, b, s
<1>2. \A k \in 1 .. a + b : k \in 1 .. a \/ k - a \in 1 .. b
  BY <1>1
<1>3. \A k \in 1 .. a : k \in 1 .. a + b /\ s[k] = q[k] /\ q[k] \in Range(q)
  <2>1. \A k \in 1 .. a : k \in 1 .. a + b /\ k <= a
    BY <1>1
  <2> QED
    BY <1>1, <2>1, Zenon DEF Range
<1>4. \A k \in 1 .. b : a + k \in 1 .. a + b /\ ~(a + k <= a) /\ (a + k) - a = k
  BY <1>1
<1>5. \A k \in 1 .. b : s[a + k] = r[k] /\ r[k] \in Range(r)
  BY <1>1, <1>4, Zenon DEF Range
<1>6. \A k \in 1 .. a + b : k \in 1 .. a \/ \E l \in 1 .. b : k = a + l
  BY <1>1, <1>2
<1>7. Range(s) = Range(q) \cup Range(r)
  <2>1. \A x \in Range(s) : x \in Range(q) \/ x \in Range(r)
    BY <1>1, <1>3, <1>5, <1>6 DEF Range
  <2>2. \A x \in Range(q) : x \in Range(s)
    BY <1>1, <1>3 DEF Range
  <2>3. \A x \in Range(r) : x \in Range(s)
    BY <1>1, <1>4, <1>5 DEF Range
  <2> QED
    BY <2>1, <2>2, <2>3
<1>8. ASSUME NEW k \in 1 .. a + b, NEW l \in 1 .. a + b, s[k] = s[l] PROVE k = l
  <2>1. CASE k \in 1 .. a /\ l \in 1 .. a
    BY <1>1, <1>3, <1>8, <2>1, Zenon DEF IsInjective
  <2>2. CASE k \in 1 .. a /\ l \notin 1 .. a
    BY <1>3, <1>5, <1>6, <1>8, <2>2
  <2>3. CASE k \notin 1 .. a /\ l \in 1 .. a
    BY <1>3, <1>5, <1>6, <1>8, <2>3
  <2>4. CASE k \notin 1 .. a /\ l \notin 1 .. a
    <3>1. PICK x \in 1 .. b : k = a + x
      BY <1>6, <2>4
    <3>2. PICK y \in 1 .. b : l = a + y
      BY <1>6, <2>4
    <3>3. x = y
      BY <1>1, <1>5, <1>8, <3>1, <3>2 DEF IsInjective
    <3> QED
      BY <3>1, <3>2, <3>3
  <2> QED
    BY <2>1, <2>2, <2>3, <2>4
<1>9. IsInjective(s)
  BY <1>1, <1>8 DEF IsInjective
<1> QED
  BY <1>1, <1>7, <1>9 DEF s

\* What is left when the element at one place is unlinked (list_del)
LEMMA ListDelElements ==
  ASSUME NEW S, NEW s \in Seq(S), NEW i \in DOMAIN s
  PROVE  /\ ListDel(s, i) \in Seq(S) /\ Len(ListDel(s, i)) = Len(s) - 1
         /\ DOMAIN ListDel(s, i) = 1 .. Len(s) - 1
         /\ \A k \in 1 .. Len(s) - 1 : ListDel(s, i)[k] = IF k < i THEN s[k] ELSE s[k + 1]
<1> DEFINE a == SubSeq(s, 1, i - 1)
           b == SubSeq(s, i + 1, Len(s))
           r == a \o b
<1>1. Len(s) \in Nat /\ DOMAIN s = 1 .. Len(s) /\ i \in 1 .. Len(s)
  OBVIOUS
<1>a. /\ a \in Seq(S) /\ Len(a) = i - 1
      /\ \A k \in 1 .. i - 1 : a[k] = s[k]
  BY <1>1
<1>b. /\ b \in Seq(S) /\ Len(b) = Len(s) - i
      /\ \A k \in 1 .. Len(s) - i : b[k] = s[i + k]
  BY <1>1
<1>r. /\ r \in Seq(S) /\ DOMAIN r = 1 .. Len(s) - 1 /\ Len(r) = Len(s) - 1
      /\ \A k \in 1 .. Len(s) - 1 : r[k] = IF k < i THEN s[k] ELSE s[k + 1]
  <2> HIDE DEF a, b
  <2>1. /\ r \in Seq(S) /\ Len(r) = Len(a) + Len(b)
        /\ \A k \in 1 .. Len(a) + Len(b) : r[k] = IF k <= Len(a) THEN a[k] ELSE b[k - Len(a)]
    BY <1>a, <1>b, ConcatProperties, Zenon
  <2> HIDE DEF r
  <2>2. DOMAIN r = 1 .. Len(s) - 1 /\ Len(r) = Len(s) - 1
    BY <1>1, <1>a, <1>b, <2>1
  <2>3. ASSUME NEW k \in 1 .. Len(s) - 1
        PROVE  r[k] = IF k < i THEN s[k] ELSE s[k + 1]
    <3>1. CASE k < i
      BY <1>1, <1>a, <1>b, <2>1, <3>1
    <3>2. CASE ~(k < i)
      <4>1. k - (i - 1) \in 1 .. Len(s) - i /\ i + (k - (i - 1)) = k + 1
        BY <1>1, <3>2
      <4>2. r[k] = b[k - (i - 1)]
        BY <1>1, <1>a, <1>b, <2>1, <3>2
      <4> QED
        BY <1>b, <4>1, <4>2, <3>2
    <3> QED
      BY <3>1, <3>2
  <2> QED
    BY <2>1, <2>2, <2>3
<1> QED
  BY <1>r, Zenon DEF ListDel

\* Unlinking the element at one place removes just that element (queue_del).
LEMMA RemoveQueue ==
  ASSUME NEW S, NEW s \in Seq(S), NEW i \in DOMAIN s
  PROVE  /\ ListDel(s, i) \in Seq(S)
         /\ IsInjective(s) => /\ Range(ListDel(s, i)) = Range(s) \ {s[i]}
                              /\ IsInjective(ListDel(s, i))
<1> DEFINE r == ListDel(s, i)
<1>1. Len(s) \in Nat /\ DOMAIN s = 1 .. Len(s) /\ i \in 1 .. Len(s)
  OBVIOUS
<1>r. /\ r \in Seq(S) /\ DOMAIN r = 1 .. Len(s) - 1
      /\ \A k \in 1 .. Len(s) - 1 : r[k] = IF k < i THEN s[k] ELSE s[k + 1]
  BY ListDelElements
<1> HIDE DEF r
<1>2. ASSUME IsInjective(s) PROVE IsInjective(r)
  <2>1. SUFFICES ASSUME NEW j \in 1 .. Len(s) - 1, NEW k \in 1 .. Len(s) - 1, r[j] = r[k]
                 PROVE  j = k
    BY <1>r DEF IsInjective
  <2> DEFINE at(n) == IF n < i THEN n ELSE n + 1
  <2>2. at(j) \in 1 .. Len(s) /\ at(k) \in 1 .. Len(s) /\ s[at(j)] = s[at(k)]
    BY <1>1, <1>r, <2>1
  <2>3. at(j) = at(k)
    BY <1>1, <1>2, <2>2 DEF IsInjective
  <2> QED
    BY <1>1, <2>3
<1>3. ASSUME IsInjective(s) PROVE Range(r) \subseteq Range(s) \ {s[i]}
  <2>1. SUFFICES ASSUME NEW k \in 1 .. Len(s) - 1 PROVE r[k] \in Range(s) \ {s[i]}
    BY <1>r DEF Range
  <2> DEFINE n == IF k < i THEN k ELSE k + 1
  <2>2. n \in DOMAIN s /\ n # i /\ r[k] = s[n]
    BY <1>1, <1>r
  <2> HIDE DEF n
  <2>3. s[n] # s[i]
    BY <1>1, <1>3, <2>2 DEF IsInjective
  <2> QED
    BY <2>2, <2>3 DEF Range
<1>4. Range(s) \ {s[i]} \subseteq Range(r)
  <2>1. SUFFICES ASSUME NEW k \in 1 .. Len(s), s[k] # s[i] PROVE s[k] \in Range(r)
    BY <1>1 DEF Range
  <2>2. CASE k < i
    BY <1>1, <2>1, <2>2, <1>r DEF Range
  <2>3. CASE k > i
    <3>1. k - 1 \in DOMAIN r /\ r[k - 1] = s[k]
      BY <1>1, <1>r, <2>3
    <3> QED
      BY <3>1 DEF Range
  <2> QED
    BY <1>1, <2>1, <2>2, <2>3
<1> QED
  BY <1>r, <1>2, <1>3, <1>4 DEF r

\* One element less, and each of the others still in the queue
LEMMA UnlinkedQueue ==
  ASSUME NEW S, NEW s \in Seq(S), NEW i \in DOMAIN s
  PROVE  /\ ListDel(s, i) \in Seq(S) /\ Len(ListDel(s, i)) = Len(s) - 1
         /\ \A j \in DOMAIN s \ {i} : \E k \in DOMAIN ListDel(s, i) : ListDel(s, i)[k] = s[j]
<1> DEFINE r == ListDel(s, i)
<1>1. Len(s) \in Nat /\ DOMAIN s = 1 .. Len(s) /\ i \in 1 .. Len(s)
  OBVIOUS
<1>2. /\ r \in Seq(S) /\ DOMAIN r = 1 .. Len(s) - 1 /\ Len(r) = Len(s) - 1
      /\ \A k \in 1 .. Len(s) - 1 : r[k] = IF k < i THEN s[k] ELSE s[k + 1]
  BY ListDelElements
<1> HIDE DEF r
<1>3. ASSUME NEW j \in DOMAIN s \ {i} PROVE \E k \in DOMAIN r : r[k] = s[j]
  <2>1. CASE j < i
    BY <1>1, <1>2, <2>1
  <2>2. CASE j > i
    <3>1. j - 1 \in DOMAIN r /\ r[j - 1] = s[j]
      BY <1>1, <1>2, <2>2
    <3> QED
      BY <3>1
  <2> QED
    BY <1>1, <2>1, <2>2
<1> QED
  BY <1>2, <1>3 DEF r

\* Leaving the innermost of nested calls
LEMMA OuterInnermost ==
  ASSUME NEW S, NEW s \in Seq(S), s # << >>
  PROVE  /\ Len(s) \in Nat \ {0} /\ DOMAIN s = 1 .. Len(s)
         /\ Innermost(s) = s[Len(s)] /\ Innermost(s) \in S
         /\ Outer(s) \in Seq(S) /\ DOMAIN Outer(s) = 1 .. Len(s) - 1 /\ Len(Outer(s)) = Len(s) - 1
         /\ \A i \in 1 .. Len(s) - 1 : Outer(s)[i] = s[i]
<1>1. Len(s) \in Nat \ {0} /\ DOMAIN s = 1 .. Len(s) /\ \A i \in 1 .. Len(s) : s[i] \in S
  OBVIOUS
<1>2. Innermost(s) = s[Len(s)] /\ Innermost(s) \in S
  BY <1>1 DEF Innermost
<1> DEFINE f == SubSeq(s, 1, Len(s) - 1)
<1>3. /\ f \in Seq(S) /\ Len(f) = Len(s) - 1
      /\ \A i \in 1 .. Len(s) - 1 : f[i] = s[i]
  BY <1>1
<1>4. DOMAIN f = 1 .. Len(s) - 1
  <2> HIDE DEF f
  <2> QED
    BY <1>3
<1>5. Outer(s) = f
  BY DEF Outer
<1> HIDE DEF f
<1> QED
  BY <1>1, <1>2, <1>3, <1>4, <1>5, Zenon
=============================================================================
