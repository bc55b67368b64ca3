---------------------------- MODULE ThreadsProofs ----------------------------
(* The threads and semaphores: no thread is lost, and what the tests share   *)
(* is right, for any tests and any number of threads, slots, seats, rounds.  *)
EXTENDS Threads, WellFoundedInduction, FiniteSetTheorems, TLAPS, SequenceTheorems

-----------------------------------------------------------------------------
(* Sets of natural numbers.                                                *)

\* A nonempty set of natural numbers has a least element: a loop that looks for
\* the first of something finds it, if it is there.
LEMMA Least ==
  ASSUME NEW S \in SUBSET Nat, S # {}
  PROVE  \E x \in S : \A y \in S : x <= y
<1>1. PICK x \in S : \A y \in S : ~(<<y, x>> \in OpToRel(<, Nat))
  BY NatLessThanWellFounded, WFMin, Zenon
<1>2. \A y \in S : ~(y < x)
  BY <1>1 DEF OpToRel
<1> QED
  BY <1>2

\* Induction, for a set: what holds at 0 and goes from each number to the next holds of
\* all.  (The library's induction theorem is about an operator.)
LEMMA SetInduction ==
  ASSUME NEW S, 0 \in S, \A n \in Nat : n \in S => n + 1 \in S
  PROVE  \A n \in Nat : n \in S
<1> SUFFICES ASSUME \E n \in Nat : n \notin S PROVE FALSE
  OBVIOUS
<1> DEFINE T == {n \in Nat : n \notin S}
<1>1. PICK x \in T : \A y \in T : x <= y
  BY Least
<1>2. x # 0 /\ x - 1 \in Nat /\ x - 1 \notin T
  BY <1>1
<1>3. (x - 1) + 1 \in S
  BY <1>2
<1> QED
  BY <1>1, <1>3

-----------------------------------------------------------------------------
(* The queues of lib/queue.c: what a chain of elements holds.               *)

Cell == [next : Nat, item : Tids]

\* a[k] is the address of the k-th of n elements.
Chain(q, a, n) ==
  /\ n \in Nat /\ a \in [1..n -> Nat \ {0}]
  /\ \A j, k \in 1..n : a[j] = a[k] => j = k
  /\ q.elements \in [{a[k] : k \in 1..n} -> Cell]
  /\ \A k \in 1..n : q.elements[a[k]].next = IF k = n THEN Null ELSE a[k + 1]
  /\ q.first = (IF n = 0 THEN Null ELSE a[1]) /\ q.last = (IF n = 0 THEN Null ELSE a[n])
  /\ q.nelts = n
  /\ q = [elements |-> q.elements, first |-> q.first, last |-> q.last, nelts |-> q.nelts]

Chained(q) == \E a : Chain(q, a, q.nelts)

\* The recursive function of Address follows the chain.
LEMMA AddressIs ==
  ASSUME NEW q, NEW a, NEW n, Chain(q, a, n)
  PROVE  Address(q) = a
<1> DEFINE P(f) == f = [k \in 1..q.nelts |-> IF k = 1 THEN q.first ELSE q.elements[f[k - 1]].next]
<1>1. P(a)
  <2>1. n \in Nat /\ a = [k \in 1..n |-> a[k]] /\ q.nelts = n
    BY DEF Chain
  <2>2. ASSUME NEW k \in 1..n PROVE a[k] = IF k = 1 THEN q.first ELSE q.elements[a[k - 1]].next
    <3>1. CASE k = 1
      BY <3>1, <2>1 DEF Chain
    <3>2. CASE k # 1
      <4>1. k - 1 \in 1..n /\ k - 1 # n /\ (k - 1) + 1 = k
        BY <3>2, <2>1
      <4>2. q.elements[a[k - 1]].next = a[(k - 1) + 1]
        BY <4>1 DEF Chain
      <4> QED
        BY <3>2, <4>1, <4>2
    <3> QED
      BY <3>1, <3>2
  <2> QED
    BY <2>1, <2>2
<1>2. ASSUME NEW f, P(f) PROVE f = a
  <2>1. n \in Nat /\ a \in [1..n -> Nat \ {0}] /\ q.nelts = n
    BY DEF Chain
  <2>2. \A k \in 1..n : f[k] = IF k = 1 THEN q.first ELSE q.elements[f[k - 1]].next
    BY <1>2, <2>1
  <2>3. \A k \in 1..n : a[k] = IF k = 1 THEN q.first ELSE q.elements[a[k - 1]].next
    BY <1>1, <2>1
  <2> DEFINE S == {m \in Nat : \A k \in 1..n : k <= m => f[k] = a[k]}
  <2>4. 0 \in S
    BY <2>1
  <2>5. ASSUME NEW m \in Nat, m \in S PROVE m + 1 \in S
    <3>1. SUFFICES ASSUME m + 1 \in 1..n PROVE f[m + 1] = a[m + 1]
      BY <2>1, <2>5
    <3>2. CASE m = 0
      BY <3>1, <3>2, <2>2, <2>3
    <3>3. CASE m # 0
      <4>1. m \in 1..n /\ f[m] = a[m] /\ (m + 1) - 1 = m /\ m + 1 # 1
        BY <2>1, <2>5, <3>1, <3>3
      <4>2. f[m + 1] = q.elements[f[m]].next /\ a[m + 1] = q.elements[a[m]].next
        BY <3>1, <4>1, <2>2, <2>3
      <4> QED
        BY <4>1, <4>2
    <3> QED
      BY <3>2, <3>3
  <2> HIDE DEF S
  <2>6. \A m \in Nat : m \in S
    BY <2>4, <2>5, SetInduction
  <2>7. \A k \in 1..n : f[k] = a[k]
    <3>1. n \in S
      BY <2>1, <2>6
    <3> QED
      BY <2>1, <3>1 DEF S
  <2> QED
    BY <1>2, <2>1, <2>7
<1> HIDE DEF P
<1>3. (CHOOSE f : P(f)) = a
  BY <1>1, <1>2
<1> QED
  BY <1>3 DEF Address, P

\* A chain is a queue as QueueOK has it, and its items are those of the elements.
LEMMA ChainIs ==
  ASSUME NEW q, NEW a, NEW n, Chain(q, a, n)
  PROVE  /\ QueueOK(q) /\ Items(q) \in Seq(Tids) /\ Len(Items(q)) = n
         /\ \A k \in 1..n : Items(q)[k] = q.elements[a[k]].item
         /\ IsFiniteSet(DOMAIN q.elements) /\ Cardinality(DOMAIN q.elements) = n
         /\ DOMAIN q.elements = {a[k] : k \in 1..n}
<1> DEFINE D == {a[k] : k \in 1..n}
<1>1. /\ n \in Nat /\ q.nelts = n /\ Address(q) = a /\ a \in [1..n -> Nat \ {0}]
      /\ q.elements \in [D -> Cell] /\ DOMAIN q.elements = D
      /\ \A j, k \in 1..n : a[j] = a[k] => j = k
  <2>1. Address(q) = a
    BY AddressIs
  <2>2. q.elements \in [D -> Cell]
    BY DEF Chain
  <2>3. DOMAIN q.elements = D
    BY <2>2
  <2> QED
    BY <2>1, <2>2, <2>3 DEF Chain
<1>2. Items(q) = [k \in 1..n |-> q.elements[a[k]].item]
  BY <1>1 DEF Items
<1>3. ASSUME NEW k \in 1..n PROVE q.elements[a[k]] \in Cell
  BY <1>1
<1>4. \A k \in 1..n : q.elements[a[k]].item \in Tids
  BY <1>3 DEF Cell
<1>5. /\ Items(q) \in Seq(Tids) /\ Len(Items(q)) = n
      /\ \A k \in 1..n : Items(q)[k] = q.elements[a[k]].item
  <2>1. Items(q) \in [1..n -> Tids]
    BY <1>2, <1>4
  <2>2. Items(q) \in Seq(Tids)
    BY <1>1, <2>1
  <2> QED
    BY <1>1, <1>2, <2>1, <2>2
<1>6. IsFiniteSet(D) /\ Cardinality(D) = n
  <2>1. a \in Bijection(1..n, D)
    BY <1>1 DEF Bijection, Injection, Surjection, IsInjective
  <2>2. IsFiniteSet(1..n) /\ Cardinality(1..n) = n
    BY <1>1, FS_Interval
  <2> QED
    BY <2>1, <2>2, <1>1, FS_Bijection DEF ExistsBijection
<1>7. QueueOK(q)
  <2>1. CASE n = 0
    <3>1. q.elements = <<>>
      <4>1. D = {}
        BY <2>1
      <4>2. q.elements \in [{} -> Cell]
        BY <1>1, <4>1, Zenon
      <4>3. \A f, h \in [{} -> Cell] : f = h
        OBVIOUS
      <4> QED
        BY <4>2, <4>3, <<>> \in [{} -> Cell]
    <3> QED
      BY <2>1, <1>1, <3>1 DEF Chain, QueueOK, QueueInit
  <2>2. CASE n # 0
    <3>1. n \in 1..n /\ q.last = a[n] /\ q.elements[a[n]].next = Null
      BY <2>2, <1>1 DEF Chain
    <3> QED
      BY <2>2, <1>1, <1>6, <3>1 DEF QueueOK
  <2> QED
    BY <2>1, <2>2
<1> QED
  BY <1>1, <1>5, <1>6, <1>7

LEMMA InitChained == Chained(QueueInit) /\ Items(QueueInit) = <<>>
<1> DEFINE a == [k \in 1..0 |-> 1]
<1>1. 1..0 = {} /\ {a[k] : k \in 1..0} = {}
  OBVIOUS
<1>2. QueueInit.elements = <<>> /\ QueueInit.first = 0 /\ QueueInit.last = 0 /\ QueueInit.nelts = 0
  BY DEF QueueInit, Null
<1>3. <<>> \in [{} -> Cell]
  OBVIOUS
<1>4. Chain(QueueInit, a, 0)
  BY <1>1, <1>2, <1>3 DEF Chain, QueueInit, Null
<1>5. Items(QueueInit) \in Seq(Tids) /\ Len(Items(QueueInit)) = 0
  BY <1>4, ChainIs
<1> QED
  BY <1>2, <1>4, <1>5, EmptySeq DEF Chained

\* An address that calloc() may return.
LEMMA CallocIs ==
  ASSUME NEW q, NEW a, NEW n, Chain(q, a, n)
  PROVE  Calloc(q) \in Nat \ {0} /\ Calloc(q) \notin DOMAIN q.elements
<1> DEFINE D == DOMAIN q.elements
           S == 1..n + 1 \ D
<1>1. IsFiniteSet(D) /\ Cardinality(D) = n /\ n \in Nat
  <2>1. n \in Nat
    BY DEF Chain
  <2> QED
    BY <2>1, ChainIs
<1>2. S # {}
  <2>1. SUFFICES ASSUME 1..n + 1 \subseteq D PROVE FALSE
    OBVIOUS
  <2>2. Cardinality(1..n + 1) <= Cardinality(D)
    BY <1>1, <2>1, FS_Subset
  <2>3. Cardinality(1..n + 1) = n + 1
    <3>1. n + 1 \in Int /\ 1 \in Int /\ ~(1 > n + 1) /\ (n + 1) - 1 + 1 = n + 1
      BY <1>1
    <3> QED
      BY <3>1, FS_Interval
  <2> QED
    BY <1>1, <2>2, <2>3
<1>3. S \in SUBSET Nat
  BY <1>1
<1> HIDE DEF S
<1>4. \E x \in S : \A y \in S : x <= y
  BY <1>2, <1>3, Least
<1>5. Min(S) \in S
  BY <1>4 DEF Min
<1>6. Calloc(q) = Min(S)
  BY <1>1 DEF Calloc, S
<1> QED
  BY <1>5, <1>6, <1>1 DEF S

\* queue_add()
LEMMA AddChained ==
  ASSUME NEW q, Chained(q), NEW t \in Tids
  PROVE  /\ Chained(QueueAdd(q, t))
         /\ Items(QueueAdd(q, t)) = Append(Items(q), t)
<1> DEFINE n == q.nelts
           e == Calloc(q)
           r == QueueAdd(q, t)
<1>1. PICK a : Chain(q, a, n)
  BY DEF Chained
<1> DEFINE b == [k \in 1..n + 1 |-> IF k = n + 1 THEN e ELSE a[k]]
           D == {a[k] : k \in 1..n}
           E == {b[k] : k \in 1..n + 1}
           old == IF q.last = Null THEN q.elements ELSE [q.elements EXCEPT ![q.last].next = e]
<1>2. /\ n \in Nat /\ a \in [1..n -> Nat \ {0}] /\ q.elements \in [D -> Cell]
      /\ \A j, k \in 1..n : a[j] = a[k] => j = k
  BY <1>1 DEF Chain
<1>3. e \in Nat \ {0} /\ e \notin D /\ DOMAIN q.elements = D
  BY <1>1, CallocIs, ChainIs
<1>4. /\ r.elements = [x \in DOMAIN old \cup {e} |-> IF x = e THEN [next |-> Null, item |-> t] ELSE old[x]]
      /\ r.first = (IF q.last = Null THEN e ELSE q.first) /\ r.last = e /\ r.nelts = n + 1
      /\ r = [elements |-> r.elements, first |-> r.first, last |-> r.last, nelts |-> r.nelts]
  BY DEF QueueAdd
<1> HIDE DEF e, r
<1>5. /\ b \in [1..n + 1 -> Nat \ {0}] /\ b[n + 1] = e /\ \A k \in 1..n : b[k] = a[k]
      /\ 1..n + 1 = 1..n \cup {n + 1} /\ n + 1 \notin 1..n
  BY <1>2, <1>3
<1> HIDE DEF b
<1>6. \A j, k \in 1..n + 1 : b[j] = b[k] => j = k
  BY <1>2, <1>3, <1>5
<1>7. E = D \cup {e}
  BY <1>5
<1>8. /\ q.last = Null <=> n = 0
      /\ n # 0 => q.last = a[n] /\ q.first = a[1] /\ 1 \in 1..n /\ n \in 1..n
  BY <1>1, <1>2 DEF Chain, Null
<1>9. /\ old \in [D -> Cell]
      /\ \A k \in 1..n : /\ old[a[k]].item = q.elements[a[k]].item
                         /\ old[a[k]].next = IF k = n THEN e ELSE a[k + 1]
  <2>1. CASE n = 0
    BY <1>2, <1>8, <2>1
  <2>2. CASE n # 0
    <3>1. q.last # Null /\ q.last = a[n] /\ a[n] \in D
      BY <1>8, <2>2
    <3>2. old = [q.elements EXCEPT ![a[n]].next = e]
      BY <3>1
    <3>3. q.elements[a[n]] \in Cell
      BY <1>2, <3>1
    <3>4. [q.elements[a[n]] EXCEPT !.next = e] \in Cell
      BY <3>3, <1>3 DEF Cell
    <3>5. old = [q.elements EXCEPT ![a[n]] = [q.elements[a[n]] EXCEPT !.next = e]]
      BY <3>2
    <3>6. old \in [D -> Cell]
      BY <1>2, <3>4, <3>5
    <3>7. ASSUME NEW k \in 1..n, k # n
          PROVE  old[a[k]] = q.elements[a[k]] /\ q.elements[a[k]].next = a[k + 1]
      BY <1>1, <1>2, <1>8, <2>2, <3>5, <3>7 DEF Chain
    <3>8. old[a[n]] = [q.elements[a[n]] EXCEPT !.next = e]
      BY <1>2, <3>1, <3>5
    <3>9. old[a[n]].item = q.elements[a[n]].item /\ old[a[n]].next = e
      BY <3>3, <3>8 DEF Cell
    <3> QED
      BY <3>6, <3>7, <3>9
  <2> QED
    BY <2>1, <2>2
<1> HIDE DEF old
<1>10. r.elements = [x \in E |-> IF x = e THEN [next |-> Null, item |-> t] ELSE old[x]]
  BY <1>4, <1>7, <1>9
<1>11. /\ r.elements \in [E -> Cell]
       /\ r.elements[e] = [next |-> Null, item |-> t]
       /\ \A k \in 1..n : r.elements[a[k]] = old[a[k]]
  <2>1. [next |-> Null, item |-> t] \in Cell
    BY DEF Cell, Null
  <2>2. \A x \in D : old[x] \in Cell
    BY <1>9
  <2>3. \A x \in E : x = e \/ x \in D
    BY <1>7
  <2>4. r.elements \in [E -> Cell]
    BY <1>10, <2>1, <2>2, <2>3
  <2>5. e \in E /\ \A k \in 1..n : a[k] \in E /\ a[k] # e
    BY <1>7, <1>3
  <2> QED
    BY <1>10, <2>4, <2>5
<1>12. \A k \in 1..n + 1 : r.elements[b[k]].next = IF k = n + 1 THEN Null ELSE b[k + 1]
  <2>1. r.elements[b[n + 1]].next = Null
    BY <1>5, <1>11
  <2>2. ASSUME NEW k \in 1..n PROVE r.elements[b[k]].next = b[k + 1]
    <3>1. r.elements[b[k]] = old[a[k]]
      BY <1>5, <1>11
    <3>2. CASE k = n
      BY <3>1, <3>2, <1>9, <1>5
    <3>3. CASE k # n
      <4>1. k + 1 \in 1..n
        BY <1>2, <3>3
      <4> QED
        BY <3>1, <3>3, <1>9, <1>5, <4>1
    <3> QED
      BY <3>2, <3>3
  <2>3. ASSUME NEW k \in 1..n + 1 PROVE k = n + 1 \/ (k \in 1..n /\ k # n + 1)
    BY <1>5
  <2> QED
    BY <2>1, <2>2, <2>3
<1>13. r.first = b[1]
  <2>1. CASE n = 0
    BY <2>1, <1>4, <1>5, <1>8
  <2>2. CASE n # 0
    BY <2>2, <1>4, <1>5, <1>8
  <2> QED
    BY <2>1, <2>2
<1>14. Chain(r, b, n + 1)
  <2>1. n + 1 \in Nat /\ n + 1 # 0
    BY <1>2
  <2> QED
    BY <2>1, <1>4, <1>5, <1>6, <1>11, <1>12, <1>13 DEF Chain
<1>15. Items(r) = Append(Items(q), t)
  <2>1. /\ Items(r) \in Seq(Tids) /\ Len(Items(r)) = n + 1
        /\ \A k \in 1..n + 1 : Items(r)[k] = r.elements[b[k]].item
    BY <1>14, ChainIs
  <2>2. /\ Items(q) \in Seq(Tids) /\ Len(Items(q)) = n
        /\ \A k \in 1..n : Items(q)[k] = q.elements[a[k]].item
    BY <1>1, ChainIs
  <2>3. Items(r)[n + 1] = t
    BY <2>1, <1>5, <1>11
  <2>4. \A k \in 1..n : Items(r)[k] = Items(q)[k]
    <3> SUFFICES ASSUME NEW k \in 1..n PROVE Items(r)[k] = Items(q)[k]
      OBVIOUS
    <3>1. k \in 1..n + 1 /\ b[k] = a[k]
      BY <1>5
    <3>2. Items(r)[k] = r.elements[a[k]].item
      BY <2>1, <3>1
    <3>3. Items(r)[k] = q.elements[a[k]].item
      BY <3>2, <1>9, <1>11
    <3> QED
      BY <3>3, <2>2
  <2> HIDE DEF n
  <2>5. /\ Append(Items(q), t) \in Seq(Tids) /\ Len(Append(Items(q), t)) = n + 1
        /\ Append(Items(q), t)[n + 1] = t
        /\ \A k \in 1..n : Append(Items(q), t)[k] = Items(q)[k]
    BY <2>2, AppendProperties
  <2>6. \A k \in 1..n + 1 : Items(r)[k] = Append(Items(q), t)[k]
    BY <2>3, <2>4, <2>5, <1>5
  <2> QED
    BY <2>1, <2>5, <2>6, SeqEqual
<1> QED
  BY <1>4, <1>14, <1>15 DEF Chained, r

\* queue_get()
LEMMA RestChained ==
  ASSUME NEW q, Chained(q), ~QueueEmpty(q)
  PROVE  /\ Items(q) # <<>> /\ QueueFirst(q) = Head(Items(q))
         /\ Chained(QueueRest(q)) /\ Items(QueueRest(q)) = Tail(Items(q))
<1> DEFINE n == q.nelts
           r == QueueRest(q)
           m == n - 1
<1>1. PICK a : Chain(q, a, n)
  BY DEF Chained
<1> DEFINE b == [k \in 1..m |-> a[k + 1]]
           D == {a[k] : k \in 1..n}
           E == {b[k] : k \in 1..m}
<1>2. /\ n \in Nat /\ n # 0 /\ a \in [1..n -> Nat \ {0}] /\ q.elements \in [D -> Cell]
      /\ DOMAIN q.elements = D /\ \A j, k \in 1..n : a[j] = a[k] => j = k
  <2>1. /\ n \in Nat /\ a \in [1..n -> Nat \ {0}] /\ q.elements \in [D -> Cell]
        /\ \A j, k \in 1..n : a[j] = a[k] => j = k
    BY <1>1 DEF Chain
  <2>2. n # 0
    BY <1>1 DEF Chain, QueueEmpty
  <2> QED
    BY <2>1, <2>2
<1>3. /\ m \in Nat /\ m + 1 = n /\ 1 \in 1..n
      /\ \A k \in 1..m : k + 1 \in 1..n /\ k \in 1..n /\ k # n /\ k + 1 # 1 /\ (k = m <=> k + 1 = n)
      /\ \A k \in 1..n : k # 1 => k - 1 \in 1..m /\ (k - 1) + 1 = k
  BY <1>2
<1>4. /\ q.first = a[1] /\ q.last = a[n] /\ a[1] \in D
      /\ \A k \in 1..n : q.elements[a[k]].next = IF k = n THEN Null ELSE a[k + 1]
  BY <1>1, <1>2, <1>3 DEF Chain
<1> DEFINE next == q.elements[a[1]].next
<1>5. /\ r.elements = [x \in D \ {a[1]} |-> q.elements[x]] /\ r.first = next
      /\ r.last = (IF next = Null THEN Null ELSE q.last) /\ r.nelts = m
      /\ r = [elements |-> r.elements, first |-> r.first, last |-> r.last, nelts |-> r.nelts]
  BY <1>2, <1>4 DEF QueueRest, Restrict
<1> HIDE DEF m, r
<1>6. b \in [1..m -> Nat \ {0}] /\ \A k \in 1..m : b[k] = a[k + 1]
  BY <1>2, <1>3
<1> HIDE DEF b
<1>7. \A j, k \in 1..m : b[j] = b[k] => j = k
  <2> SUFFICES ASSUME NEW j \in 1..m, NEW k \in 1..m, b[j] = b[k] PROVE j = k
    OBVIOUS
  <2>1. a[j + 1] = a[k + 1] /\ j + 1 \in 1..n /\ k + 1 \in 1..n
    BY <1>3, <1>6
  <2>2. j + 1 = k + 1
    BY <1>2, <2>1
  <2> QED
    BY <2>2, <1>3
<1>8. E = D \ {a[1]}
  <2>1. ASSUME NEW k \in 1..m PROVE b[k] \in D /\ b[k] # a[1]
    <3>1. k + 1 \in 1..n /\ k + 1 # 1 /\ b[k] = a[k + 1]
      BY <1>3, <1>6
    <3> QED
      BY <3>1, <1>2, <1>3
  <2>2. ASSUME NEW k \in 1..n, a[k] # a[1] PROVE a[k] \in E
    <3>1. k # 1
      BY <2>2
    <3>2. k - 1 \in 1..m /\ b[k - 1] = a[k]
      BY <3>1, <1>3, <1>6
    <3> QED
      BY <3>2
  <2> QED
    BY <2>1, <2>2
<1>9. r.elements \in [E -> Cell] /\ \A k \in 1..m : r.elements[b[k]] = q.elements[a[k + 1]]
  <2>1. \A x \in E : x \in D
    BY <1>8
  <2>2. r.elements = [x \in E |-> q.elements[x]]
    BY <1>5, <1>8
  <2>3. r.elements \in [E -> Cell]
    BY <2>1, <2>2, <1>2
  <2>4. \A k \in 1..m : b[k] \in E
    OBVIOUS
  <2> QED
    BY <2>2, <2>3, <2>4, <1>6
<1>10. \A k \in 1..m : r.elements[b[k]].next = IF k = m THEN Null ELSE b[k + 1]
  <2> SUFFICES ASSUME NEW k \in 1..m PROVE r.elements[b[k]].next = IF k = m THEN Null ELSE b[k + 1]
    OBVIOUS
  <2>1. r.elements[b[k]].next = IF k + 1 = n THEN Null ELSE a[(k + 1) + 1]
    BY <1>3, <1>4, <1>9
  <2>2. k # m => k + 1 \in 1..m
    BY <1>3
  <2> QED
    BY <2>1, <2>2, <1>3, <1>6
<1>11. /\ r.first = IF m = 0 THEN Null ELSE b[1]
       /\ r.last = IF m = 0 THEN Null ELSE b[m]
  <2>1. CASE m = 0
    BY <2>1, <1>3, <1>4, <1>5
  <2>2. CASE m # 0
    <3>1. 1 \in 1..m /\ m \in 1..m /\ b[1] = a[1 + 1] /\ b[m] = a[n] /\ 1 # n
      BY <2>2, <1>3, <1>6
    <3>2. next = b[1] /\ b[1] # Null
      BY <3>1, <1>3, <1>4, <1>6 DEF Null
    <3> QED
      BY <2>2, <3>1, <3>2, <1>4, <1>5
  <2> QED
    BY <2>1, <2>2
<1>12. Chain(r, b, m)
  BY <1>3, <1>5, <1>6, <1>7, <1>9, <1>10, <1>11 DEF Chain
<1> HIDE DEF n
<1>13. /\ Items(q) \in Seq(Tids) /\ Len(Items(q)) = n
       /\ \A k \in 1..n : Items(q)[k] = q.elements[a[k]].item
  BY <1>1, ChainIs
<1>14. /\ Items(r) \in Seq(Tids) /\ Len(Items(r)) = m
       /\ \A k \in 1..m : Items(r)[k] = r.elements[b[k]].item
  BY <1>12, ChainIs
<1>15. Items(q) # <<>> /\ Head(Items(q)) = Items(q)[1]
  BY <1>2, <1>13
<1>16. QueueFirst(q) = Items(q)[1]
  BY <1>3, <1>4, <1>13 DEF QueueFirst
<1>17. /\ Tail(Items(q)) \in Seq(Tids) /\ Len(Tail(Items(q))) = m
       /\ \A k \in 1..m : Tail(Items(q))[k] = Items(q)[k + 1]
  <2>1. /\ Tail(Items(q)) \in Seq(Tids) /\ Len(Tail(Items(q))) = Len(Items(q)) - 1
        /\ \A k \in 1..Len(Tail(Items(q))) : Tail(Items(q))[k] = Items(q)[k + 1]
    BY <1>13, <1>15, HeadTailProperties
  <2> QED
    BY <2>1, <1>13, <1>3, <1>2 DEF m
<1>18. \A k \in 1..m : Items(r)[k] = Tail(Items(q))[k]
  <2> SUFFICES ASSUME NEW k \in 1..m PROVE Items(r)[k] = Items(q)[k + 1]
    BY <1>17
  <2> QED
    BY <1>3, <1>9, <1>13, <1>14
<1>19. Items(r) = Tail(Items(q))
  BY <1>14, <1>17, <1>18, SeqEqual
<1>20. Chained(r)
  BY <1>5, <1>12 DEF Chained
<1> QED
  BY <1>15, <1>16, <1>19, <1>20 DEF r

-----------------------------------------------------------------------------
(* Queues as the threads use them: sets of threads, each in a queue once.   *)

In(q)   == Range(Items(q))
Good(q) == Chained(q) /\ IsInjective(Items(q))

LEMMA TidsFinite == IsFiniteSet(Tids) /\ Main \in Tids
<1>1. NThreads \in Nat
  BY BoundAssumption
<1>2. IsFiniteSet(0..NThreads)
  BY <1>1, FS_Interval
<1> QED
  BY <1>1, <1>2 DEF Tids, Main

LEMMA GoodIs ==
  ASSUME NEW q, Good(q)
  PROVE  /\ QueueOK(q) /\ Items(q) \in Seq(Tids) /\ Len(Items(q)) = q.nelts
         /\ In(q) \subseteq Tids /\ IsFiniteSet(In(q)) /\ Cardinality(In(q)) = QueueSize(q)
         /\ (QueueSize(q) = 0 <=> In(q) = {}) /\ (QueueEmpty(q) <=> In(q) = {})
         /\ QueueSize(q) \in Nat
<1> DEFINE n == q.nelts
           l == Items(q)
<1>1. PICK a : Chain(q, a, n)
  BY DEF Good, Chained
<1>2. QueueOK(q) /\ l \in Seq(Tids) /\ Len(l) = n
  BY <1>1, ChainIs
<1>3. n \in Nat /\ DOMAIN l = 1..n /\ \A k \in 1..n : l[k] \in Tids
  BY <1>1, <1>2 DEF Chain
<1>4. In(q) \subseteq Tids /\ (In(q) = {} <=> n = 0)
  BY <1>3 DEF In, Range
<1>5. QueueEmpty(q) <=> n = 0
  BY <1>1, <1>3 DEF Chain, QueueEmpty, Null
<1>6. IsFiniteSet(In(q)) /\ Cardinality(In(q)) = n
  <2>1. l \in [1..n -> In(q)]
    BY <1>2, <1>3 DEF In, Range
  <2>2. l \in Bijection(1..n, In(q))
    BY <2>1, <1>3 DEF Good, Bijection, Injection, Surjection, IsInjective, In, Range
  <2>3. IsFiniteSet(1..n) /\ Cardinality(1..n) = n
    BY <1>3, FS_Interval
  <2> QED
    BY <2>2, <2>3, FS_Bijection DEF ExistsBijection
<1> QED
  BY <1>2, <1>3, <1>4, <1>5, <1>6 DEF QueueSize

LEMMA GoodInit == Good(QueueInit) /\ In(QueueInit) = {}
<1>1. Chained(QueueInit) /\ Items(QueueInit) = <<>>
  BY InitChained
<1> QED
  BY <1>1 DEF Good, In, Range, IsInjective

LEMMA GoodAdd ==
  ASSUME NEW q, Good(q), NEW t \in Tids, t \notin In(q)
  PROVE  Good(QueueAdd(q, t)) /\ In(QueueAdd(q, t)) = In(q) \cup {t}
<1> DEFINE l == Items(q)
           m == Items(QueueAdd(q, t))
           n == Len(l)
<1>1. Chained(QueueAdd(q, t)) /\ m = Append(l, t)
  BY AddChained DEF Good
<1>2. l \in Seq(Tids) /\ n \in Nat /\ DOMAIN l = 1..n
  BY GoodIs
<1>3. /\ DOMAIN m = 1..n + 1 /\ m[n + 1] = t /\ \A k \in 1..n : m[k] = l[k]
      /\ 1..n + 1 = 1..n \cup {n + 1} /\ n + 1 \notin 1..n
  <2>1. /\ m \in Seq(Tids) /\ Len(m) = n + 1 /\ m[n + 1] = t /\ \A k \in 1..n : m[k] = l[k]
    BY <1>1, <1>2, AppendProperties
  <2> QED
    BY <2>1, <1>2
<1>4. \A k \in 1..n : l[k] # t
  BY <1>2 DEF In, Range
<1>5. IsInjective(m)
  BY <1>2, <1>3, <1>4 DEF IsInjective, Good
<1>6. In(QueueAdd(q, t)) = In(q) \cup {t}
  BY <1>2, <1>3 DEF In, Range
<1> QED
  BY <1>1, <1>5, <1>6 DEF Good

LEMMA GoodRest ==
  ASSUME NEW q, Good(q), In(q) # {}
  PROVE  /\ QueueFirst(q) \in In(q)
         /\ Good(QueueRest(q)) /\ In(QueueRest(q)) = In(q) \ {QueueFirst(q)}
<1> DEFINE l == Items(q)
           m == Items(QueueRest(q))
           n == Len(l)
<1>1. ~QueueEmpty(q) /\ l \in Seq(Tids) /\ n \in Nat /\ DOMAIN l = 1..n
  BY GoodIs
<1>2. l # <<>> /\ QueueFirst(q) = Head(l) /\ Chained(QueueRest(q)) /\ m = Tail(l)
  BY <1>1, RestChained DEF Good
<1>3. Head(l) = l[1] /\ 1 \in 1..n
  BY <1>1, <1>2
<1>4. DOMAIN m = 1..(n - 1) /\ \A k \in 1..(n - 1) : m[k] = l[k + 1]
  <2>1. m \in Seq(Tids) /\ Len(m) = n - 1 /\ \A k \in 1..Len(m) : m[k] = l[k + 1]
    BY <1>1, <1>2, HeadTailProperties
  <2> QED
    BY <2>1, <1>1
<1>5. /\ \A k \in 1..(n - 1) : k + 1 \in 1..n /\ k + 1 # 1
      /\ \A j, k \in 1..(n - 1) : j + 1 = k + 1 => j = k
      /\ \A k \in 1..n : k # 1 => k - 1 \in 1..(n - 1) /\ (k - 1) + 1 = k
  BY <1>1
<1>6. \A j, k \in 1..n : l[j] = l[k] => j = k
  BY <1>1 DEF Good, IsInjective
<1>7. IsInjective(m)
  <2> SUFFICES ASSUME NEW j \in 1..(n - 1), NEW k \in 1..(n - 1), m[j] = m[k] PROVE j = k
    BY <1>4 DEF IsInjective
  <2>1. l[j + 1] = l[k + 1] /\ j + 1 \in 1..n /\ k + 1 \in 1..n
    BY <1>4, <1>5
  <2> QED
    BY <2>1, <1>5, <1>6
<1>8. In(QueueRest(q)) = In(q) \ {l[1]}
  <2>1. ASSUME NEW k \in 1..(n - 1) PROVE m[k] \in In(q) /\ m[k] # l[1]
    <3>1. k + 1 \in 1..n /\ k + 1 # 1 /\ m[k] = l[k + 1]
      BY <1>4, <1>5
    <3> QED
      BY <3>1, <1>1, <1>3, <1>6 DEF In, Range
  <2>2. ASSUME NEW k \in 1..n, l[k] # l[1] PROVE \E j \in 1..(n - 1) : m[j] = l[k]
    <3>1. k - 1 \in 1..(n - 1) /\ (k - 1) + 1 = k
      BY <2>2, <1>5
    <3> QED
      BY <3>1, <1>4
  <2>3. In(q) = {l[k] : k \in 1..n} /\ In(QueueRest(q)) = {m[k] : k \in 1..(n - 1)}
    BY <1>1, <1>4 DEF In, Range
  <2> HIDE DEF l, m, n
  <2>4. In(QueueRest(q)) \subseteq In(q) \ {l[1]}
    BY <2>1, <2>3
  <2>5. In(q) \ {l[1]} \subseteq In(QueueRest(q))
    BY <2>2, <2>3
  <2> QED
    BY <2>4, <2>5
<1> QED
  BY <1>1, <1>2, <1>3, <1>7, <1>8 DEF Good, In, Range

-----------------------------------------------------------------------------
(* Where the threads are.  T are the threads, r the run queue, S the         *)
(* semaphores, b the number of threads blocked, and C the threads that are   *)
(* in no queue: the one that runs, or what a switch has in its hands.        *)

QueueType == [elements : UNION {[D -> Cell] : D \in SUBSET Nat}, first : Nat, last : Nat, nelts : Nat]
SemaType  == [count : Nat, blocked : QueueType]

BlockedIn(S, x) == In(S[x].blocked)
AllBlocked(S)   == UNION {BlockedIn(S, x) : x \in Semas}

Typed(T, r, S) ==
  /\ T \in [Tids -> ThreadType \cup {None}]
  /\ r \in QueueType /\ S \in [Semas -> SemaType]

Places(T, r, S, b, C) ==
  /\ Good(r) /\ \A x \in Semas : Good(S[x].blocked)
  /\ \A t \in Tids : T[t] # None <=> t \in C \/ t \in In(r) \/ t \in AllBlocked(S)
  /\ \A t \in In(r) : t \notin C /\ t \notin AllBlocked(S) /\ T[t].status = "RUNNABLE"
  /\ \A t \in AllBlocked(S) : t \notin C /\ T[t].status = "BLOCKED"
  /\ \A x, y \in Semas : \A t \in BlockedIn(S, x) : t \in BlockedIn(S, y) => x = y
  /\ \A x \in Semas : S[x].count = 0 \/ BlockedIn(S, x) = {}
  /\ b = Cardinality(AllBlocked(S))

LEMMA QueueTypes == ASSUME NEW q, Good(q) PROVE q \in QueueType
<1>1. PICK a : Chain(q, a, q.nelts)
  BY DEF Good, Chained
<1> DEFINE n == q.nelts
           D == {a[k] : k \in 1..n}
<1>2. n \in Nat /\ a \in [1..n -> Nat \ {0}] /\ q.elements \in [D -> Cell]
  BY <1>1 DEF Chain
<1>3. D \in SUBSET Nat
  BY <1>2
<1>4. q.elements \in UNION {[E -> Cell] : E \in SUBSET Nat}
  BY <1>2, <1>3
<1>5. q.first \in Nat /\ q.last \in Nat
  <2>1. n # 0 => 1 \in 1..n /\ n \in 1..n
    BY <1>2
  <2> QED
    BY <1>1, <1>2, <2>1 DEF Chain, Null
<1>6. q = [elements |-> q.elements, first |-> q.first, last |-> q.last, nelts |-> q.nelts]
  BY <1>1 DEF Chain
<1> HIDE DEF D
<1> QED
  BY <1>2, <1>4, <1>5, <1>6 DEF QueueType

LEMMA BlockedFinite ==
  ASSUME NEW S, \A x \in Semas : Good(S[x].blocked)
  PROVE  /\ AllBlocked(S) \subseteq Tids /\ IsFiniteSet(AllBlocked(S))
         /\ Cardinality(AllBlocked(S)) \in Nat
         /\ \A x \in Semas : BlockedIn(S, x) \subseteq AllBlocked(S)
<1>1. \A x \in Semas : BlockedIn(S, x) \subseteq Tids
  BY GoodIs DEF BlockedIn
<1>2. AllBlocked(S) \subseteq Tids
  BY <1>1 DEF AllBlocked
<1>3. IsFiniteSet(AllBlocked(S))
  BY <1>2, TidsFinite, FS_Subset
<1> QED
  BY <1>2, <1>3, FS_CardinalityType DEF AllBlocked

\* A thread in hand may get any status.
LEMMA PlacesSet ==
  ASSUME NEW T, NEW r, NEW S, NEW b, NEW C, Typed(T, r, S), Places(T, r, S, b, C),
         NEW t \in C, t \in Tids, NEW e \in ThreadType
  PROVE  Places([T EXCEPT ![t] = e], r, S, b, C)
<1> DEFINE U == [T EXCEPT ![t] = e]
<1>1. /\ U[t] = e /\ e # None /\ T[t] # None /\ t \notin In(r) /\ t \notin AllBlocked(S)
      /\ \A c \in Tids : c # t => U[c] = T[c]
  BY NoneAssumption DEF Typed, Places
<1>2. \A c \in Tids : U[c] # None <=> T[c] # None
  BY <1>1
<1>3. In(r) \subseteq Tids /\ AllBlocked(S) \subseteq Tids
  BY GoodIs, BlockedFinite DEF Places
<1> HIDE DEF U
<1> QED
  BY <1>1, <1>2, <1>3 DEF Places

\* queue_add() to the run queue.
LEMMA PlacesQueue ==
  ASSUME NEW T, NEW r, NEW S, NEW b, NEW C, Places(T, r, S, b, C),
         NEW t \in C, t \in Tids, T[t].status = "RUNNABLE"
  PROVE  Places(T, QueueAdd(r, t), S, b, C \ {t})
<1>1. /\ Good(r) /\ t \notin In(r) /\ t \notin AllBlocked(S)
  BY DEF Places
<1>2. Good(QueueAdd(r, t)) /\ In(QueueAdd(r, t)) = In(r) \cup {t}
  BY <1>1, GoodAdd
<1> QED
  BY <1>1, <1>2 DEF Places

\* queue_get() from it.
LEMMA PlacesGet ==
  ASSUME NEW T, NEW r, NEW S, NEW b, NEW C, Places(T, r, S, b, C), ~QueueEmpty(r)
  PROVE  /\ QueueFirst(r) \in In(r) /\ QueueFirst(r) \in Tids /\ QueueFirst(r) \notin C
         /\ Places(T, QueueRest(r), S, b, C \cup {QueueFirst(r)})
<1> DEFINE t == QueueFirst(r)
<1>1. Good(r) /\ In(r) # {} /\ In(r) \subseteq Tids
  BY GoodIs DEF Places
<1>2. t \in In(r) /\ Good(QueueRest(r)) /\ In(QueueRest(r)) = In(r) \ {t}
  BY <1>1, GoodRest
<1>3. t \notin C /\ t \notin AllBlocked(S)
  BY <1>2 DEF Places
<1> HIDE DEF t
<1>4. Places(T, QueueRest(r), S, b, C \cup {t})
  BY <1>1, <1>2, <1>3 DEF Places
<1> QED
  BY <1>1, <1>2, <1>3, <1>4 DEF t

\* A thread that has ended is freed.
LEMMA PlacesFree ==
  ASSUME NEW T, NEW r, NEW S, NEW b, NEW C, Typed(T, r, S), Places(T, r, S, b, C),
         NEW t \in C, t \in Tids
  PROVE  Places([T EXCEPT ![t] = None], r, S, b, C \ {t})
<1> DEFINE U == [T EXCEPT ![t] = None]
<1>1. /\ U[t] = None /\ t \notin In(r) /\ t \notin AllBlocked(S)
      /\ \A c \in Tids : c # t => U[c] = T[c]
  BY DEF Typed, Places
<1>2. In(r) \subseteq Tids /\ AllBlocked(S) \subseteq Tids
  BY GoodIs, BlockedFinite DEF Places
<1> HIDE DEF U
<1>3. \A c \in Tids : U[c] # None <=> c \in C \ {t} \/ c \in In(r) \/ c \in AllBlocked(S)
  <2> SUFFICES ASSUME NEW c \in Tids
               PROVE  U[c] # None <=> c \in C \ {t} \/ c \in In(r) \/ c \in AllBlocked(S)
    OBVIOUS
  <2>1. T[c] # None <=> c \in C \/ c \in In(r) \/ c \in AllBlocked(S)
    BY DEF Places
  <2> QED
    BY <2>1, <1>1
<1>4. \A c \in In(r) : c \notin C \ {t} /\ c \notin AllBlocked(S) /\ U[c].status = "RUNNABLE"
  BY <1>1, <1>2 DEF Places
<1>5. \A c \in AllBlocked(S) : c \notin C \ {t} /\ U[c].status = "BLOCKED"
  BY <1>1, <1>2 DEF Places
<1>6. Places(U, r, S, b, C \ {t})
  BY <1>3, <1>4, <1>5 DEF Places
<1> QED
  BY <1>6 DEF U

\* A new one is in hand.
LEMMA PlacesNew ==
  ASSUME NEW T, NEW r, NEW S, NEW b, NEW C, Typed(T, r, S), Places(T, r, S, b, C),
         NEW t \in Tids, T[t] = None, NEW e \in ThreadType
  PROVE  Places([T EXCEPT ![t] = e], r, S, b, C \cup {t})
<1> DEFINE U == [T EXCEPT ![t] = e]
<1>1. /\ U[t] = e /\ e # None /\ t \notin In(r) /\ t \notin AllBlocked(S)
      /\ \A c \in Tids : c # t => U[c] = T[c]
  BY NoneAssumption DEF Typed, Places
<1>2. In(r) \subseteq Tids /\ AllBlocked(S) \subseteq Tids
  BY GoodIs, BlockedFinite DEF Places
<1> HIDE DEF U
<1>3. \A c \in Tids : U[c] # None <=> c \in C \cup {t} \/ c \in In(r) \/ c \in AllBlocked(S)
  <2> SUFFICES ASSUME NEW c \in Tids
               PROVE  U[c] # None <=> c \in C \cup {t} \/ c \in In(r) \/ c \in AllBlocked(S)
    OBVIOUS
  <2>1. T[c] # None <=> c \in C \/ c \in In(r) \/ c \in AllBlocked(S)
    BY DEF Places
  <2> QED
    BY <2>1, <1>1
<1>4. \A c \in In(r) : c \notin C \cup {t} /\ c \notin AllBlocked(S) /\ U[c].status = "RUNNABLE"
  BY <1>1, <1>2 DEF Places
<1>5. \A c \in AllBlocked(S) : c \notin C \cup {t} /\ U[c].status = "BLOCKED"
  BY <1>1, <1>2 DEF Places
<1>6. Places(U, r, S, b, C \cup {t})
  BY <1>3, <1>4, <1>5 DEF Places
<1> QED
  BY <1>6 DEF U

\* What becomes of the sets when the queue of one semaphore changes.
LEMMA OneSema ==
  ASSUME NEW S, NEW q, NEW x \in Semas, NEW n, S \in [Semas -> SemaType]
  PROVE  LET U == [S EXCEPT ![x] = [count |-> n, blocked |-> q]]
         IN  /\ U[x].count = n /\ U[x].blocked = q /\ BlockedIn(U, x) = In(q)
             /\ \A y \in Semas : y # x => U[y] = S[y] /\ BlockedIn(U, y) = BlockedIn(S, y)
             /\ AllBlocked(U) = In(q) \cup UNION {BlockedIn(S, y) : y \in Semas \ {x}}
<1> DEFINE U == [S EXCEPT ![x] = [count |-> n, blocked |-> q]]
<1>1. U[x] = [count |-> n, blocked |-> q] /\ \A y \in Semas : y # x => U[y] = S[y]
  OBVIOUS
<1>2. BlockedIn(U, x) = In(q) /\ \A y \in Semas : y # x => BlockedIn(U, y) = BlockedIn(S, y)
  BY <1>1 DEF BlockedIn
<1> HIDE DEF U
<1>3. AllBlocked(U) = In(q) \cup UNION {BlockedIn(S, y) : y \in Semas \ {x}}
  BY <1>2 DEF AllBlocked
<1> QED
  BY <1>1, <1>2, <1>3 DEF U

\* sema_dec() of a semaphore that is 0: a thread in hand is queued there.
LEMMA PlacesBlock ==
  ASSUME NEW T, NEW r, NEW S, NEW b, NEW C, Typed(T, r, S), Places(T, r, S, b, C),
         NEW x \in Semas, S[x].count = 0,
         NEW t \in C, t \in Tids, T[t].status = "BLOCKED"
  PROVE  LET q == QueueAdd(S[x].blocked, t)
             U == [S EXCEPT ![x] = [count |-> S[x].count, blocked |-> q]]
         IN  In(q) = BlockedIn(S, x) \cup {t} /\ Places(T, r, U, b + 1, C \ {t})
<1> DEFINE q == QueueAdd(S[x].blocked, t)
           U == [S EXCEPT ![x] = [count |-> S[x].count, blocked |-> q]]
<1>1. /\ Good(S[x].blocked) /\ t \notin In(r) /\ t \notin AllBlocked(S) /\ t \notin BlockedIn(S, x)
      /\ \A y \in Semas : Good(S[y].blocked)
  BY DEF Places, AllBlocked
<1>2. Good(q) /\ In(q) = BlockedIn(S, x) \cup {t}
  BY <1>1, GoodAdd DEF BlockedIn
<1>3. /\ U[x].count = S[x].count /\ U[x].blocked = q /\ BlockedIn(U, x) = In(q)
      /\ \A y \in Semas : y # x => U[y] = S[y] /\ BlockedIn(U, y) = BlockedIn(S, y)
      /\ AllBlocked(U) = In(q) \cup UNION {BlockedIn(S, y) : y \in Semas \ {x}}
  BY OneSema DEF Typed
<1> HIDE DEF q, U
<1>4. AllBlocked(U) = AllBlocked(S) \cup {t}
  BY <1>2, <1>3 DEF AllBlocked
<1>5. IsFiniteSet(AllBlocked(S)) /\ Cardinality(AllBlocked(S)) \in Nat
  BY <1>1, BlockedFinite
<1>6. Cardinality(AllBlocked(U)) = b + 1
  <2>1. b = Cardinality(AllBlocked(S))
    BY DEF Places
  <2> QED
    BY <2>1, <1>1, <1>4, <1>5, FS_AddElement
<1>7. \A y \in Semas : Good(U[y].blocked) /\ (U[y].count = 0 \/ BlockedIn(U, y) = {})
  BY <1>1, <1>2, <1>3 DEF Places
<1>8. \A y, z \in Semas : \A c \in BlockedIn(U, y) : c \in BlockedIn(U, z) => y = z
  <2>1. \A y \in Semas : t \in BlockedIn(U, y) => y = x
    BY <1>1, <1>3 DEF AllBlocked
  <2>2. \A y \in Semas : \A c \in BlockedIn(U, y) : c = t \/ c \in BlockedIn(S, y)
    BY <1>2, <1>3
  <2> QED
    BY <2>1, <2>2 DEF Places
<1>9. \A c \in Tids : T[c] # None <=> c \in C \ {t} \/ c \in In(r) \/ c \in AllBlocked(U)
  BY <1>4 DEF Places
<1>10. \A c \in In(r) : c \notin C \ {t} /\ c \notin AllBlocked(U) /\ T[c].status = "RUNNABLE"
  BY <1>1, <1>4 DEF Places
<1>11. \A c \in AllBlocked(U) : c \notin C \ {t} /\ T[c].status = "BLOCKED"
  BY <1>4 DEF Places
<1>12. Places(T, r, U, b + 1, C \ {t})
  BY <1>6, <1>7, <1>8, <1>9, <1>10, <1>11 DEF Places
<1> QED
  BY <1>2, <1>12 DEF q, U

\* sema_inc() of one where threads are blocked: the first is in hand.
LEMMA PlacesUnblock ==
  ASSUME NEW T, NEW r, NEW S, NEW b, NEW C, Typed(T, r, S), Places(T, r, S, b, C),
         NEW x \in Semas, ~QueueEmpty(S[x].blocked)
  PROVE  LET t == QueueFirst(S[x].blocked)
             q == QueueRest(S[x].blocked)
             U == [S EXCEPT ![x] = [count |-> S[x].count, blocked |-> q]]
         IN  /\ t \in BlockedIn(S, x) /\ t \in Tids /\ In(q) = BlockedIn(S, x) \ {t}
             /\ Places(T, r, U, b - 1, C \cup {t})
<1> DEFINE t == QueueFirst(S[x].blocked)
           q == QueueRest(S[x].blocked)
           U == [S EXCEPT ![x] = [count |-> S[x].count, blocked |-> q]]
<1>1. Good(S[x].blocked) /\ In(S[x].blocked) # {} /\ \A y \in Semas : Good(S[y].blocked)
  BY GoodIs DEF Places
<1>2. t \in BlockedIn(S, x) /\ Good(q) /\ In(q) = BlockedIn(S, x) \ {t}
  BY <1>1, GoodRest DEF BlockedIn
<1>3. /\ U[x].count = S[x].count /\ U[x].blocked = q /\ BlockedIn(U, x) = In(q)
      /\ \A y \in Semas : y # x => U[y] = S[y] /\ BlockedIn(U, y) = BlockedIn(S, y)
      /\ AllBlocked(U) = In(q) \cup UNION {BlockedIn(S, y) : y \in Semas \ {x}}
  BY OneSema DEF Typed
<1> HIDE DEF q, U, t
<1>4. /\ t \in AllBlocked(S) /\ t \in Tids /\ t \notin C /\ t \notin In(r)
      /\ \A y \in Semas : y # x => t \notin BlockedIn(S, y)
  <2>1. t \in AllBlocked(S)
    BY <1>2 DEF AllBlocked
  <2>2. t \in Tids
    BY <2>1, <1>1, BlockedFinite
  <2> QED
    BY <2>1, <2>2, <1>2 DEF Places
<1>5. AllBlocked(U) = AllBlocked(S) \ {t}
  BY <1>2, <1>3, <1>4 DEF AllBlocked
<1>6. IsFiniteSet(AllBlocked(S)) /\ Cardinality(AllBlocked(S)) \in Nat
  BY <1>1, BlockedFinite
<1>7. Cardinality(AllBlocked(U)) = b - 1
  BY <1>4, <1>5, <1>6, FS_RemoveElement DEF Places
<1>8. \A y \in Semas : Good(U[y].blocked) /\ (U[y].count = 0 \/ BlockedIn(U, y) = {})
  BY <1>1, <1>2, <1>3 DEF Places
<1>9. \A y, z \in Semas : \A c \in BlockedIn(U, y) : c \in BlockedIn(U, z) => y = z
  <2>1. \A y \in Semas : BlockedIn(U, y) \subseteq BlockedIn(S, y)
    BY <1>2, <1>3
  <2> QED
    BY <2>1 DEF Places
<1>10. \A c \in Tids : T[c] # None <=> c \in C \cup {t} \/ c \in In(r) \/ c \in AllBlocked(U)
  BY <1>4, <1>5 DEF Places
<1>11. Places(T, r, U, b - 1, C \cup {t})
  BY <1>4, <1>5, <1>7, <1>8, <1>9, <1>10 DEF Places
<1> QED
  BY <1>2, <1>4, <1>11 DEF q, U, t

\* sema_release_robust(): the threads that are blocked are freed.
LEMMA PlacesRelease ==
  ASSUME NEW T, NEW r, NEW S, NEW b, NEW C, Typed(T, r, S), Places(T, r, S, b, C), NEW x \in Semas
  PROVE  LET V == Without(T, BlockedIn(S, x))
             U == [S EXCEPT ![x] = Released]
         IN  /\ BlockedIn(U, x) = {} /\ \A y \in Semas : y # x => BlockedIn(U, y) = BlockedIn(S, y)
             /\ Typed(V, r, U) /\ Places(V, r, U, b - QueueSize(S[x].blocked), C)
<1> DEFINE V == Without(T, BlockedIn(S, x))
           U == [S EXCEPT ![x] = Released]
           B == BlockedIn(S, x)
           A == AllBlocked(U)
<1>1. /\ \A y \in Semas : Good(S[y].blocked) /\ BlockedIn(S, y) \subseteq AllBlocked(S)
      /\ IsFiniteSet(AllBlocked(S)) /\ AllBlocked(S) \subseteq Tids /\ Good(r)
  BY BlockedFinite DEF Places
<1>2. Good(QueueInit) /\ In(QueueInit) = {}
  BY GoodInit
<1>3. /\ U[x].count = 0 /\ U[x].blocked = QueueInit /\ BlockedIn(U, x) = {}
      /\ \A y \in Semas : y # x => U[y] = S[y] /\ BlockedIn(U, y) = BlockedIn(S, y)
  BY <1>2 DEF Typed, BlockedIn, Released
<1>4. Typed(V, r, U)
  <2>1. QueueInit \in QueueType
    BY <1>2, QueueTypes
  <2>2. Released \in SemaType
    BY <2>1 DEF Released, SemaType
  <2> QED
    BY <2>2 DEF Typed, Without
<1>5. \A t \in Tids : V[t] = IF t \in B THEN None ELSE T[t]
  BY DEF Without
<1> HIDE DEF U, V
<1>6. A = AllBlocked(S) \ B
  <2>1. \A y \in Semas : y # x => BlockedIn(S, y) \cap B = {}
    BY DEF Places
  <2> QED
    BY <2>1, <1>3 DEF AllBlocked
<1>7. b - QueueSize(S[x].blocked) = Cardinality(A)
  <2>1. AllBlocked(S) = A \cup B /\ A \cap B = {} /\ A \subseteq AllBlocked(S)
    BY <1>1, <1>6
  <2>2. IsFiniteSet(A) /\ IsFiniteSet(B) /\ Cardinality(B) = QueueSize(S[x].blocked)
    BY <1>1, <2>1, GoodIs, FS_Subset DEF BlockedIn
  <2>3. Cardinality(A) \in Nat /\ Cardinality(B) \in Nat
    BY <2>2, FS_CardinalityType
  <2>4. Cardinality(AllBlocked(S)) = Cardinality(A) + Cardinality(B) - Cardinality(A \cap B)
    BY <2>1, <2>2, FS_Union
  <2>5. Cardinality(A \cap B) = 0
    BY <2>1, FS_EmptySet
  <2>6. b = Cardinality(AllBlocked(S))
    BY DEF Places
  <2> QED
    BY <2>2, <2>3, <2>4, <2>5, <2>6
<1> HIDE DEF A, B
<1>8. In(r) \subseteq Tids /\ (\A t \in In(r) : t \notin B) /\ (\A t \in C : t \notin B)
  <2>1. B \subseteq AllBlocked(S)
    BY <1>1 DEF B
  <2> QED
    BY <1>1, <2>1, GoodIs DEF Places
<1>9. \A t \in Tids : V[t] # None <=> t \in C \/ t \in In(r) \/ t \in A
  <2> SUFFICES ASSUME NEW t \in Tids PROVE V[t] # None <=> t \in C \/ t \in In(r) \/ t \in A
    OBVIOUS
  <2>1. T[t] # None <=> t \in C \/ t \in In(r) \/ t \in AllBlocked(S)
    BY DEF Places
  <2> QED
    BY <2>1, <1>5, <1>6, <1>8
<1>10. \A t \in In(r) : t \notin C /\ t \notin A /\ V[t].status = "RUNNABLE"
  BY <1>5, <1>6, <1>8 DEF Places
<1>11. \A t \in A : t \notin C /\ V[t].status = "BLOCKED"
  BY <1>1, <1>5, <1>6 DEF Places
<1>12. \A y, z \in Semas : \A t \in BlockedIn(U, y) : t \in BlockedIn(U, z) => y = z
  BY <1>3 DEF Places
<1>13. \A y \in Semas : Good(U[y].blocked) /\ (U[y].count = 0 \/ BlockedIn(U, y) = {})
  BY <1>1, <1>2, <1>3 DEF Places
<1>14. Places(V, r, U, b - QueueSize(S[x].blocked), C)
  BY <1>1, <1>7, <1>9, <1>10, <1>11, <1>12, <1>13 DEF Places, A
<1> QED
  BY <1>3, <1>4, <1>14 DEF U, V

-----------------------------------------------------------------------------
(* The functions of the threads, from globals to globals.                   *)

Globals ==
  [current : Tids, zombie : Tids \cup {None}, runQueue : QueueType, numBlocked : Int,
   threads : [Tids -> ThreadType \cup {None}], semas : [Semas -> SemaType], exit : {None, 0, 1}]

InPlace(h, C) == h \in Globals /\ Places(h.threads, h.runQueue, h.semas, h.numBlocked, C)

\* The current thread runs, or never has and is alone.
Runs(h) ==
  \/ h.threads[h.current].status # "BLOCKED"
  \/ In(h.runQueue) = {} /\ AllBlocked(h.semas) = {}

Steady(h) == InPlace(h, {h.current}) /\ h.zombie = None /\ h.exit = None /\ Runs(h)

\* u has the threads of h but for those in D, where they were in their functions.
Same(h, u, D) ==
  \A t \in Tids :
    /\ u.threads[t] # None <=> h.threads[t] # None /\ t \notin D
    /\ u.threads[t] # None =>
         /\ u.threads[t].fn = h.threads[t].fn /\ u.threads[t].pc = h.threads[t].pc
         /\ u.threads[t].n = h.threads[t].n

LEMMA InPlaceParts ==
  ASSUME NEW h, NEW C, InPlace(h, C)
  PROVE  /\ Typed(h.threads, h.runQueue, h.semas) /\ h.current \in Tids /\ h.numBlocked \in Int
         /\ Good(h.runQueue) /\ \A x \in Semas : Good(h.semas[x].blocked)
         /\ (QueueEmpty(h.runQueue) <=> In(h.runQueue) = {})
         /\ (QueueSize(h.runQueue) = 0 <=> In(h.runQueue) = {})
         /\ In(h.runQueue) \subseteq Tids /\ AllBlocked(h.semas) \subseteq Tids
         /\ \A t \in Tids : /\ t \in C \/ t \in In(h.runQueue) \/ t \in AllBlocked(h.semas)
                                 <=> h.threads[t] # None
                            /\ h.threads[t] # None => h.threads[t] \in ThreadType
<1>1. h \in Globals /\ Good(h.runQueue) /\ \A x \in Semas : Good(h.semas[x].blocked)
  BY DEF InPlace, Places
<1>2. /\ Typed(h.threads, h.runQueue, h.semas) /\ h.current \in Tids /\ h.numBlocked \in Int
      /\ \A t \in Tids : h.threads[t] # None => h.threads[t] \in ThreadType
  BY <1>1 DEF Globals, Typed
<1>3. \A t \in Tids : t \in C \/ t \in In(h.runQueue) \/ t \in AllBlocked(h.semas)
                        <=> h.threads[t] # None
  BY DEF InPlace, Places
<1> QED
  BY <1>1, <1>2, <1>3, GoodIs, BlockedFinite

LEMMA NoThread == \A e \in ThreadType : e # None
  BY NoneAssumption

\* A status is set: e is the thread after that.
WithStatus(e, old, status) ==
  e \in ThreadType /\ e.status = status /\ e.fn = old.fn /\ e.pc = old.pc /\ e.n = old.n

LEMMA SetIs ==
  ASSUME NEW h \in Globals, NEW t \in Tids, h.threads[t] \in ThreadType, NEW status \in Status
  PROVE  \E e : /\ WithStatus(e, h.threads[t], status)
                /\ Set(h, t, status) = [h EXCEPT !.threads = [h.threads EXCEPT ![t] = e]]
<1> DEFINE e == [h.threads[t] EXCEPT !.status = status]
<1>1. WithStatus(e, h.threads[t], status)
  BY DEF ThreadType, WithStatus
<1>2. Set(h, t, status) = [h EXCEPT !.threads = [h.threads EXCEPT ![t] = e]]
  BY DEF Set
<1> HIDE DEF e
<1> QED
  BY <1>1, <1>2

\* The first of the run queue runs.
LEMMA SwitchIs ==
  ASSUME NEW h, NEW C, InPlace(h, C), ~QueueEmpty(h.runQueue)
  PROVE  LET u == Switch(h)
         IN  /\ u.current \in Tids /\ u.current \notin C /\ u.current = QueueFirst(h.runQueue)
             /\ InPlace(u, C \cup {u.current}) /\ Same(h, u, {})
             /\ u.semas = h.semas /\ u.zombie = h.zombie /\ u.exit = h.exit
             /\ u.threads[u.current].status = "RUNNING"
             /\ \A t \in Tids \ {u.current} : u.threads[t] = h.threads[t]
<1>t. PICK t : t = QueueFirst(h.runQueue)
  OBVIOUS
<1>0. PICK running \in Status : running = "RUNNING"
  BY DEF Status
<1>1. /\ Places(h.threads, h.runQueue, h.semas, h.numBlocked, C) /\ h \in Globals
      /\ Typed(h.threads, h.runQueue, h.semas)
  BY InPlaceParts DEF InPlace
<1>2. /\ t \in In(h.runQueue) /\ t \in Tids /\ t \notin C
      /\ Places(h.threads, QueueRest(h.runQueue), h.semas, h.numBlocked, C \cup {t})
  BY <1>t, <1>1, PlacesGet
<1>3. h.threads[t] \in ThreadType /\ h.threads[t] # None
  BY <1>2, InPlaceParts
<1>4. PICK e : /\ WithStatus(e, h.threads[t], running)
               /\ Set(h, t, running) = [h EXCEPT !.threads = [h.threads EXCEPT ![t] = e]]
  BY <1>1, <1>2, <1>3, SetIs
<1>5. e \in ThreadType /\ e.status = "RUNNING"
  BY <1>0, <1>4 DEF WithStatus
<1> DEFINE q == QueueRest(h.runQueue)
           T == [h.threads EXCEPT ![t] = e]
           u == Switch(h)
<1>6. q \in QueueType
  BY <1>2, QueueTypes DEF Places
<1>7. Places(T, q, h.semas, h.numBlocked, C \cup {t})
  <2>1. Typed(h.threads, q, h.semas)
    BY <1>1, <1>6 DEF Typed
  <2>2. Places(h.threads, q, h.semas, h.numBlocked, C \cup {t}) /\ t \in C \cup {t} /\ t \in Tids
    BY <1>2
  <2> HIDE DEF q
  <2> QED
    BY <2>1, <2>2, <1>5, PlacesSet
<1>8. T \in [Tids -> ThreadType \cup {None}]
  BY <1>1, <1>5 DEF Typed
<1>9. u = [[h EXCEPT !.threads = T] EXCEPT !.runQueue = QueueRest(@), !.current = t]
  BY <1>0, <1>t, <1>4 DEF Switch
<1>10. \A c \in Tids : T[c] = IF c = t THEN e ELSE h.threads[c]
  BY <1>1 DEF Typed
<1> HIDE DEF T, u
<1>11. /\ u \in Globals /\ u.threads = T /\ u.runQueue = q /\ u.current = t
       /\ u.semas = h.semas /\ u.numBlocked = h.numBlocked /\ u.zombie = h.zombie /\ u.exit = h.exit
  <2> HIDE DEF q
  <2>1. u = [h EXCEPT !.threads = T, !.runQueue = q, !.current = t]
    BY <1>1, <1>9 DEF q, Globals
  <2> QED
    BY <2>1, <1>1, <1>2, <1>6, <1>8 DEF Globals
<1> HIDE DEF q
<1>12. Same(h, u, {})
  BY <1>3, <1>4, <1>5, <1>10, <1>11, NoThread DEF Same, WithStatus
<1>13. InPlace(u, C \cup {u.current})
  BY <1>7, <1>11 DEF InPlace
<1> QED
  BY <1>t, <1>2, <1>5, <1>10, <1>11, <1>12, <1>13 DEF u
-----------------------------------------------------------------------------
(* Parts of the functions: a status, the run queue, a thread that has ended. *)

\* u has the semaphores, the zombie and the exit code of h.
Kept(h, u) == u.semas = h.semas /\ u.zombie = h.zombie /\ u.exit = h.exit

LEMMA SetInPlace ==
  ASSUME NEW h, NEW C, InPlace(h, C), NEW t \in C, t \in Tids, NEW status \in Status
  PROVE  LET u == Set(h, t, status)
         IN  /\ InPlace(u, C) /\ Same(h, u, {}) /\ Kept(h, u)
             /\ u.current = h.current /\ u.runQueue = h.runQueue /\ u.numBlocked = h.numBlocked
             /\ u.threads[t].status = status
             /\ \A c \in Tids \ {t} : u.threads[c] = h.threads[c]
<1>1. /\ Places(h.threads, h.runQueue, h.semas, h.numBlocked, C) /\ h \in Globals
      /\ Typed(h.threads, h.runQueue, h.semas)
  BY InPlaceParts DEF InPlace
<1>2. h.threads[t] \in ThreadType /\ h.threads[t] # None
  BY InPlaceParts
<1>3. PICK e : /\ WithStatus(e, h.threads[t], status)
               /\ Set(h, t, status) = [h EXCEPT !.threads = [h.threads EXCEPT ![t] = e]]
  BY <1>1, <1>2, SetIs
<1>4. e \in ThreadType /\ e.status = status
  BY <1>3 DEF WithStatus
<1> DEFINE T == [h.threads EXCEPT ![t] = e]
           u == Set(h, t, status)
<1>5. Places(T, h.runQueue, h.semas, h.numBlocked, C)
  BY <1>1, <1>4, PlacesSet
<1>6. T \in [Tids -> ThreadType \cup {None}]
  BY <1>1, <1>4 DEF Typed
<1>7. u = [h EXCEPT !.threads = T]
  BY <1>3
<1>8. \A c \in Tids : T[c] = IF c = t THEN e ELSE h.threads[c]
  BY <1>1 DEF Typed
<1> HIDE DEF T, u
<1>9. /\ u \in Globals /\ u.threads = T /\ u.runQueue = h.runQueue /\ u.current = h.current
      /\ u.semas = h.semas /\ u.numBlocked = h.numBlocked /\ u.zombie = h.zombie /\ u.exit = h.exit
  BY <1>1, <1>6, <1>7 DEF Globals
<1>10. Same(h, u, {})
  BY <1>2, <1>3, <1>4, <1>8, <1>9, NoThread DEF Same, WithStatus
<1>11. InPlace(u, C)
  BY <1>5, <1>9 DEF InPlace
<1> QED
  BY <1>4, <1>8, <1>9, <1>10, <1>11 DEF u, Kept

LEMMA QueueInPlace ==
  ASSUME NEW h, NEW C, InPlace(h, C), NEW t \in C, t \in Tids, h.threads[t].status = "RUNNABLE"
  PROVE  LET u == Queue(h, t)
         IN  /\ InPlace(u, C \ {t}) /\ Same(h, u, {}) /\ Kept(h, u)
             /\ u.current = h.current /\ u.threads = h.threads /\ u.numBlocked = h.numBlocked
             /\ In(u.runQueue) = In(h.runQueue) \cup {t}
<1> DEFINE q == QueueAdd(h.runQueue, t)
           u == Queue(h, t)
<1>1. Places(h.threads, h.runQueue, h.semas, h.numBlocked, C) /\ h \in Globals
  BY DEF InPlace
<1>2. Places(h.threads, q, h.semas, h.numBlocked, C \ {t})
  BY <1>1, PlacesQueue
<1>3. q \in QueueType
  BY <1>2, QueueTypes DEF Places
<1>4. In(q) = In(h.runQueue) \cup {t}
  <2>1. Good(h.runQueue) /\ t \notin In(h.runQueue)
    BY <1>1 DEF Places
  <2> QED
    BY <2>1, GoodAdd
<1>5. u = [h EXCEPT !.runQueue = q]
  BY DEF Queue
<1> HIDE DEF q, u
<1>6. /\ u \in Globals /\ u.threads = h.threads /\ u.runQueue = q /\ u.current = h.current
      /\ u.semas = h.semas /\ u.numBlocked = h.numBlocked /\ u.zombie = h.zombie /\ u.exit = h.exit
  BY <1>1, <1>3, <1>5 DEF Globals
<1>7. Same(h, u, {})
  BY <1>6 DEF Same
<1>8. InPlace(u, C \ {t})
  BY <1>2, <1>6 DEF InPlace
<1> QED
  BY <1>4, <1>6, <1>7, <1>8 DEF u, Kept

LEMMA ResumeInPlace ==
  ASSUME NEW h, NEW C, InPlace(h, C), h.zombie \in C, h.zombie \in Tids
  PROVE  LET u == Resume(h)
         IN  /\ InPlace(u, C \ {h.zombie}) /\ Same(h, u, {h.zombie})
             /\ u.semas = h.semas /\ u.zombie = None /\ u.exit = h.exit /\ u.current = h.current
             /\ \A c \in Tids \ {h.zombie} : u.threads[c] = h.threads[c]
<1>0. PICK t \in Tids : t = h.zombie
  OBVIOUS
<1> DEFINE T == [h.threads EXCEPT ![t] = None]
           u == Resume(h)
<1>1. /\ Places(h.threads, h.runQueue, h.semas, h.numBlocked, C) /\ h \in Globals
      /\ Typed(h.threads, h.runQueue, h.semas)
  BY InPlaceParts DEF InPlace
<1>2. Places(T, h.runQueue, h.semas, h.numBlocked, C \ {t})
  BY <1>0, <1>1, PlacesFree
<1>3. T \in [Tids -> ThreadType \cup {None}]
  BY <1>1 DEF Typed
<1>4. \A c \in Tids : T[c] = IF c = t THEN None ELSE h.threads[c]
  BY <1>1 DEF Typed
<1>5. h.zombie # None
  BY <1>0, BoundAssumption, NoneAssumption DEF Tids
<1>6. u = [h EXCEPT !.threads = T, !.zombie = None]
  BY <1>0, <1>5 DEF Resume
<1> HIDE DEF T, u
<1>7. /\ u \in Globals /\ u.threads = T /\ u.runQueue = h.runQueue /\ u.current = h.current
      /\ u.semas = h.semas /\ u.numBlocked = h.numBlocked /\ u.zombie = None /\ u.exit = h.exit
  BY <1>1, <1>3, <1>6 DEF Globals
<1>8. Same(h, u, {t})
  BY <1>4, <1>7 DEF Same
<1>9. InPlace(u, C \ {t})
  BY <1>2, <1>7 DEF InPlace
<1> QED
  BY <1>0, <1>4, <1>7, <1>8, <1>9 DEF u

\* What a call leaves: the process has exited, or everything is in its place.
Done(h, u) == u.exit # None \/ (Steady(u) /\ Same(h, u, {}) /\ u.semas = h.semas)

LEMMA SameTwice ==
  ASSUME NEW h, NEW u, NEW v, NEW D, Same(h, u, {}), Same(u, v, D)
  PROVE  Same(h, v, D)
<1> SUFFICES ASSUME NEW t \in Tids
    PROVE  /\ v.threads[t] # None <=> h.threads[t] # None /\ t \notin D
           /\ v.threads[t] # None =>
                /\ v.threads[t].fn = h.threads[t].fn /\ v.threads[t].pc = h.threads[t].pc
                /\ v.threads[t].n = h.threads[t].n
  BY DEF Same
<1>1. /\ u.threads[t] # None <=> h.threads[t] # None
      /\ u.threads[t] # None =>
           /\ u.threads[t].fn = h.threads[t].fn /\ u.threads[t].pc = h.threads[t].pc
           /\ u.threads[t].n = h.threads[t].n
  BY DEF Same
<1>2. /\ v.threads[t] # None <=> u.threads[t] # None /\ t \notin D
      /\ v.threads[t] # None =>
           /\ v.threads[t].fn = u.threads[t].fn /\ v.threads[t].pc = u.threads[t].pc
           /\ v.threads[t].n = u.threads[t].n
  BY DEF Same
<1> QED
  BY <1>1, <1>2

\* A thread that has been switched to runs.
LEMMA RunsIs ==
  ASSUME NEW u, InPlace(u, {u.current}), u.zombie = None, u.exit = None,
         u.threads[u.current].status = "RUNNING"
  PROVE  Steady(u)
BY DEF Steady, Runs

\* thread_yield() of a thread that has just been blocked.
LEMMA YieldBlocked ==
  ASSUME NEW h, InPlace(h, {}), h.zombie = None, h.exit = None,
         h.threads[h.current].status = "BLOCKED"
  PROVE  Done(h, ThreadYield(h))
<1>1. /\ h \in Globals /\ (QueueEmpty(h.runQueue) <=> In(h.runQueue) = {})
      /\ (QueueSize(h.runQueue) = 0 <=> In(h.runQueue) = {})
  BY InPlaceParts DEF InPlace
<1>2. CASE QueueSize(h.runQueue) = 0
  <2>1. ThreadYield(h) = [h EXCEPT !.exit = 0]
    BY <1>2 DEF ThreadYield
  <2>2. [h EXCEPT !.exit = 0].exit = 0
    BY <1>1 DEF Globals
  <2> QED
    BY <2>1, <2>2, NoneAssumption DEF Done
<1>3. CASE QueueSize(h.runQueue) # 0
  <2> DEFINE u == Switch(h)
  <2>1. /\ InPlace(u, {} \cup {u.current}) /\ Same(h, u, {}) /\ u.semas = h.semas
        /\ u.zombie = h.zombie /\ u.exit = h.exit /\ u.threads[u.current].status = "RUNNING"
    BY <1>1, <1>3, SwitchIs
  <2>2. ThreadYield(h) = u
    BY <1>3, <2>1 DEF ThreadYield, Resume
  <2> HIDE DEF u
  <2>3. {} \cup {u.current} = {u.current}
    OBVIOUS
  <2>4. Steady(u)
    BY <2>1, <2>3, RunsIs
  <2> QED
    BY <2>1, <2>2, <2>4 DEF Done
<1> QED
  BY <1>2, <1>3

\* thread_yield() of a thread that runs.
LEMMA YieldRuns ==
  ASSUME NEW h, Steady(h)
  PROVE  Done(h, ThreadYield(h))
<1>0. PICK old : old = h.current
  OBVIOUS
<1>1. /\ h \in Globals /\ (QueueEmpty(h.runQueue) <=> In(h.runQueue) = {}) /\ old \in Tids
      /\ (QueueSize(h.runQueue) = 0 <=> In(h.runQueue) = {}) /\ InPlace(h, {old})
      /\ h.zombie = None /\ h.exit = None
  BY <1>0, InPlaceParts DEF InPlace, Steady
<1>2. CASE QueueSize(h.runQueue) = 0 /\ h.threads[old].status = "BLOCKED"
  <2>1. ThreadYield(h) = [h EXCEPT !.exit = 0]
    BY <1>0, <1>2 DEF ThreadYield
  <2>2. [h EXCEPT !.exit = 0].exit = 0
    BY <1>1 DEF Globals
  <2> QED
    BY <2>1, <2>2, NoneAssumption DEF Done
<1>3. CASE QueueSize(h.runQueue) = 0 /\ h.threads[old].status # "BLOCKED"
  <2>1. ThreadYield(h) = h
    BY <1>0, <1>3 DEF ThreadYield
  <2>2. Same(h, h, {})
    BY DEF Same
  <2> QED
    BY <2>1, <2>2 DEF Done
<1>4. CASE QueueSize(h.runQueue) # 0
  <2>1. h.threads[old].status # "BLOCKED"
    BY <1>0, <1>1, <1>4 DEF Steady, Runs
  <2>2. PICK runnable \in Status : runnable = "RUNNABLE"
    BY DEF Status
  <2>3. PICK u : u = Switch(h)
    OBVIOUS
  <2>4. PICK v : v = Set(u, old, runnable)
    OBVIOUS
  <2>5. PICK w : w = Queue(v, old)
    OBVIOUS
  <2>6. /\ InPlace(u, {old} \cup {u.current}) /\ Same(h, u, {}) /\ u.semas = h.semas
        /\ u.zombie = h.zombie /\ u.exit = h.exit /\ u.threads[u.current].status = "RUNNING"
        /\ u.current \notin {old} /\ u.current \in Tids
    BY <1>1, <1>4, <2>3, SwitchIs
  <2>7. /\ InPlace(v, {old} \cup {u.current}) /\ Same(u, v, {}) /\ Kept(u, v)
        /\ v.current = u.current /\ v.threads[old].status = "RUNNABLE"
        /\ \A c \in Tids \ {old} : v.threads[c] = u.threads[c]
    <3>1. PICK C : C = {old} \cup {u.current}
      OBVIOUS
    <3>2. InPlace(u, C) /\ old \in C /\ old \in Tids
      BY <1>1, <2>6, <3>1
    <3>3. LET x == Set(u, old, runnable)
          IN  /\ InPlace(x, C) /\ Same(u, x, {}) /\ Kept(u, x)
              /\ x.current = u.current /\ x.threads[old].status = runnable
              /\ \A c \in Tids \ {old} : x.threads[c] = u.threads[c]
      BY <3>2, SetInPlace
    <3> QED
      BY <2>2, <2>4, <3>1, <3>3
  <2>8. /\ InPlace(w, ({old} \cup {u.current}) \ {old}) /\ Same(v, w, {}) /\ Kept(v, w)
        /\ w.current = v.current /\ w.threads = v.threads
    <3>1. PICK C : C = {old} \cup {u.current}
      OBVIOUS
    <3>2. InPlace(v, C) /\ old \in C /\ old \in Tids /\ v.threads[old].status = "RUNNABLE"
      BY <1>1, <2>7, <3>1
    <3>3. LET x == Queue(v, old)
          IN  /\ InPlace(x, C \ {old}) /\ Same(v, x, {}) /\ Kept(v, x)
              /\ x.current = v.current /\ x.threads = v.threads
      BY <3>2, QueueInPlace
    <3> QED
      BY <2>5, <3>1, <3>3
  <2>9. ({old} \cup {u.current}) \ {old} = {w.current}
    BY <2>6, <2>7, <2>8
  <2>10. w.zombie = None /\ w.exit = None /\ w.threads[w.current].status = "RUNNING"
         /\ w.semas = h.semas
    BY <1>1, <2>6, <2>7, <2>8 DEF Kept
  <2>11. Steady(w)
    BY <2>8, <2>9, <2>10, RunsIs
  <2>12. Same(h, w, {})
    BY <2>6, <2>7, <2>8, SameTwice
  <2>13. ThreadYield(h) = w
    BY <1>0, <1>4, <2>1, <2>2, <2>3, <2>4, <2>5, <2>10 DEF ThreadYield, Resume
  <2> QED
    BY <2>10, <2>11, <2>12, <2>13 DEF Done
<1> QED
  BY <1>2, <1>3, <1>4

LEMMA ZombieInPlace ==
  ASSUME NEW h, NEW C, InPlace(h, C), NEW t \in Tids
  PROVE  LET u == [h EXCEPT !.zombie = t]
         IN  /\ InPlace(u, C) /\ Same(h, u, {}) /\ u.zombie = t
             /\ u.semas = h.semas /\ u.exit = h.exit /\ u.current = h.current /\ u.threads = h.threads
<1> DEFINE u == [h EXCEPT !.zombie = t]
<1>1. h \in Globals
  BY DEF InPlace
<1>2. /\ u \in Globals /\ u.threads = h.threads /\ u.runQueue = h.runQueue /\ u.current = h.current
      /\ u.semas = h.semas /\ u.numBlocked = h.numBlocked /\ u.zombie = t /\ u.exit = h.exit
  BY <1>1 DEF Globals
<1> HIDE DEF u
<1>3. InPlace(u, C) /\ Same(h, u, {})
  BY <1>2 DEF InPlace, Same
<1> QED
  BY <1>2, <1>3 DEF u

\* thread_exit(): the thread is freed by the one that runs next.
LEMMA ExitIs ==
  ASSUME NEW h, Steady(h)
  PROVE  LET u == ThreadExit(h)
         IN  u.exit # None \/ (Steady(u) /\ Same(h, u, {h.current}) /\ u.semas = h.semas)
<1>0. PICK old : old = h.current
  OBVIOUS
<1>1. /\ h \in Globals /\ (QueueEmpty(h.runQueue) <=> In(h.runQueue) = {}) /\ old \in Tids
      /\ InPlace(h, {old}) /\ h.zombie = None /\ h.exit = None
  BY <1>0, InPlaceParts DEF InPlace, Steady
<1>2. CASE QueueEmpty(h.runQueue)
  <2>1. PICK n \in {0, 1} : ThreadExit(h) = [h EXCEPT !.exit = n]
    BY <1>2 DEF ThreadExit
  <2>2. [h EXCEPT !.exit = n].exit = n
    BY <1>1 DEF Globals
  <2> QED
    BY <2>1, <2>2, NoneAssumption
<1>3. CASE ~QueueEmpty(h.runQueue)
  <2>1. PICK terminated \in Status : terminated = "TERMINATED"
    BY DEF Status
  <2>2. PICK u : u = Set(h, old, terminated)
    OBVIOUS
  <2>3. PICK v : v = Switch(u)
    OBVIOUS
  <2>4. PICK w : w = [v EXCEPT !.zombie = old]
    OBVIOUS
  <2>5. PICK z : z = Resume(w)
    OBVIOUS
  <2>6. /\ InPlace(u, {old}) /\ Same(h, u, {}) /\ Kept(h, u) /\ u.runQueue = h.runQueue
    BY <1>1, <2>1, <2>2, SetInPlace
  <2>7. ~QueueEmpty(u.runQueue)
    BY <1>3, <2>6
  <2>8. /\ InPlace(v, {old} \cup {v.current}) /\ Same(u, v, {}) /\ v.semas = u.semas
        /\ v.exit = u.exit /\ v.threads[v.current].status = "RUNNING"
        /\ v.current \notin {old} /\ v.current \in Tids
    BY <2>3, <2>6, <2>7, SwitchIs
  <2>9. /\ InPlace(w, {old} \cup {v.current}) /\ Same(v, w, {}) /\ w.zombie = old
        /\ w.semas = v.semas /\ w.exit = v.exit /\ w.current = v.current /\ w.threads = v.threads
    BY <1>1, <2>4, <2>8, ZombieInPlace
  <2>10. w.zombie \in {old} \cup {v.current} /\ w.zombie \in Tids
    BY <1>1, <2>9
  <2>11. /\ InPlace(z, ({old} \cup {v.current}) \ {w.zombie}) /\ Same(w, z, {w.zombie})
         /\ z.semas = w.semas /\ z.zombie = None /\ z.exit = w.exit /\ z.current = w.current
         /\ \A c \in Tids \ {w.zombie} : z.threads[c] = w.threads[c]
    BY <2>5, <2>9, <2>10, ResumeInPlace
  <2>12. ({old} \cup {v.current}) \ {w.zombie} = {z.current}
    BY <2>8, <2>9, <2>11
  <2>13. /\ z.exit = None /\ z.semas = h.semas /\ z.threads[z.current].status = "RUNNING"
    BY <1>1, <2>6, <2>8, <2>9, <2>11 DEF Kept
  <2>14. Steady(z)
    BY <2>11, <2>12, <2>13, RunsIs
  <2>15. Same(h, z, {old})
    <3>1. Same(h, v, {})
      BY <2>6, <2>8, SameTwice
    <3>2. Same(h, w, {})
      BY <2>9, <3>1, SameTwice
    <3> QED
      BY <2>9, <2>11, <3>2, SameTwice
  <2>16. ThreadExit(h) = z
    BY <1>0, <1>3, <2>1, <2>2, <2>3, <2>4, <2>5 DEF ThreadExit
  <2> QED
    BY <1>0, <2>13, <2>14, <2>15, <2>16
<1> QED
  BY <1>2, <1>3

\* thread_create(): the thread that is made runs.
LEMMA CreateIs ==
  ASSUME NEW h, Steady(h), Free(h) # {}, NEW fn \in Fns, NEW pc \in Pcs
  PROVE  LET u == ThreadCreate(h, fn, pc)
         IN  /\ Steady(u) /\ u.semas = h.semas /\ h.threads[u.current] = None
             /\ u.threads[u.current] = Thread("RUNNING", fn, pc)
             /\ \A t \in Tids \ {u.current} :
                  /\ u.threads[t] # None <=> h.threads[t] # None
                  /\ u.threads[t] # None =>
                       /\ u.threads[t].fn = h.threads[t].fn /\ u.threads[t].pc = h.threads[t].pc
                       /\ u.threads[t].n = h.threads[t].n
<1>0. PICK old : old = h.current
  OBVIOUS
<1>1. /\ h \in Globals /\ old \in Tids /\ InPlace(h, {old}) /\ h.zombie = None /\ h.exit = None
  BY <1>0, InPlaceParts DEF InPlace, Steady
<1>2. PICK new : new = Min(Free(h))
  OBVIOUS
<1>3. new \in Tids /\ h.threads[new] = None
  <2>1. Free(h) \subseteq Nat /\ Free(h) # {}
    BY BoundAssumption DEF Free, Tids
  <2>2. new \in Free(h)
    BY <1>2, <2>1, Least DEF Min
  <2> QED
    BY <2>2 DEF Free
<1>4. PICK runnable \in Status : runnable = "RUNNABLE"
  BY DEF Status
<1>5. PICK e : e = Thread("RUNNING", fn, pc)
  OBVIOUS
<1>6. e \in ThreadType /\ e.status = "RUNNING"
  BY <1>5 DEF Thread, ThreadType, Status
<1>7. PICK u : u = Set(h, old, runnable)
  OBVIOUS
<1>8. PICK v : v = Queue(u, old)
  OBVIOUS
<1> DEFINE T == [v.threads EXCEPT ![new] = e]
           w == [v EXCEPT !.threads = T, !.current = new]
<1>9. /\ InPlace(u, {old}) /\ Same(h, u, {}) /\ Kept(h, u) /\ u.threads[old].status = "RUNNABLE"
      /\ u.current = h.current
  BY <1>1, <1>4, <1>7, SetInPlace
<1>10. /\ InPlace(v, {old} \ {old}) /\ Same(u, v, {}) /\ Kept(u, v) /\ v.current = u.current
  BY <1>1, <1>8, <1>9, QueueInPlace
<1>11. Same(h, v, {})
  BY <1>9, <1>10, SameTwice
<1>12. v.threads[new] = None
  BY <1>3, <1>11 DEF Same
<1>13. /\ Places(v.threads, v.runQueue, v.semas, v.numBlocked, {}) /\ v \in Globals
       /\ Typed(v.threads, v.runQueue, v.semas)
  <2>1. {old} \ {old} = {}
    OBVIOUS
  <2> QED
    BY <1>10, <2>1, InPlaceParts DEF InPlace
<1>14. Places(T, v.runQueue, v.semas, v.numBlocked, {} \cup {new})
  BY <1>3, <1>6, <1>12, <1>13, PlacesNew
<1>15. T \in [Tids -> ThreadType \cup {None}] /\ \A c \in Tids : T[c] = IF c = new THEN e ELSE v.threads[c]
  BY <1>6, <1>13 DEF Typed
<1>16. ThreadCreate(h, fn, pc) = w
  BY <1>0, <1>2, <1>4, <1>5, <1>7, <1>8 DEF ThreadCreate
<1> HIDE DEF T
<1>17. /\ w \in Globals /\ w.threads = T /\ w.runQueue = v.runQueue /\ w.current = new
       /\ w.semas = v.semas /\ w.numBlocked = v.numBlocked /\ w.zombie = v.zombie /\ w.exit = v.exit
  BY <1>3, <1>13, <1>15 DEF Globals
<1> HIDE DEF w
<1>18. InPlace(w, {w.current})
  <2>1. {} \cup {new} = {w.current}
    BY <1>17
  <2> QED
    BY <1>14, <1>17, <2>1 DEF InPlace
<1>19. /\ w.zombie = None /\ w.exit = None /\ w.semas = h.semas
       /\ w.threads[w.current] = e
  BY <1>1, <1>3, <1>9, <1>10, <1>15, <1>17 DEF Kept
<1>20. Steady(w)
  BY <1>6, <1>18, <1>19, RunsIs
<1>21. \A t \in Tids \ {new} :
         /\ w.threads[t] # None <=> h.threads[t] # None
         /\ w.threads[t] # None =>
              /\ w.threads[t].fn = h.threads[t].fn /\ w.threads[t].pc = h.threads[t].pc
              /\ w.threads[t].n = h.threads[t].n
  BY <1>11, <1>15, <1>17 DEF Same
<1> QED
  BY <1>3, <1>5, <1>16, <1>17, <1>19, <1>20, <1>21

-----------------------------------------------------------------------------
(* The semaphores.                                                          *)

OthersKept(h, u, x) ==
  \A y \in Semas \ {x} : u.semas[y].count = h.semas[y].count
                         /\ BlockedIn(u.semas, y) = BlockedIn(h.semas, y)

\* What a call of sema_dec() does to the semaphores, and one of sema_inc().
Took(h, u, x) ==
  /\ OthersKept(h, u, x)
  /\ \/ /\ h.semas[x].count > 0 /\ u.semas[x].count = h.semas[x].count - 1
        /\ BlockedIn(u.semas, x) = BlockedIn(h.semas, x)
     \/ /\ h.semas[x].count = 0 /\ u.semas[x].count = 0
        /\ h.current \notin BlockedIn(h.semas, x)
        /\ BlockedIn(u.semas, x) = BlockedIn(h.semas, x) \cup {h.current}
Gave(h, u, x) ==
  /\ OthersKept(h, u, x)
  /\ \/ /\ u.semas[x].count = h.semas[x].count + 1
        /\ BlockedIn(h.semas, x) = {} /\ BlockedIn(u.semas, x) = {}
     \/ /\ h.semas[x].count = 0 /\ u.semas[x].count = 0
        /\ \E t \in BlockedIn(h.semas, x) : BlockedIn(u.semas, x) = BlockedIn(h.semas, x) \ {t}

\* A count is set.
LEMMA CountInPlace ==
  ASSUME NEW h, NEW C, InPlace(h, C), NEW x \in Semas, NEW n \in Nat,
         BlockedIn(h.semas, x) = {}
  PROVE  LET u == [h EXCEPT !.semas[x].count = n]
         IN  /\ InPlace(u, C) /\ Same(h, u, {}) /\ OthersKept(h, u, x)
             /\ u.semas[x].count = n /\ BlockedIn(u.semas, x) = {}
             /\ u.current = h.current /\ u.runQueue = h.runQueue /\ u.threads = h.threads
             /\ u.zombie = h.zombie /\ u.exit = h.exit
             /\ AllBlocked(u.semas) = AllBlocked(h.semas)
<1> DEFINE q == h.semas[x].blocked
           S == [h.semas EXCEPT ![x] = [count |-> n, blocked |-> q]]
           u == [h EXCEPT !.semas[x].count = n]
<1>1. /\ Places(h.threads, h.runQueue, h.semas, h.numBlocked, C) /\ h \in Globals
      /\ h.semas \in [Semas -> SemaType]
  BY DEF InPlace, Globals
<1>2. [h.semas[x] EXCEPT !.count = n] = [count |-> n, blocked |-> q] /\ q \in QueueType
  BY <1>1 DEF SemaType
<1>3. S \in [Semas -> SemaType]
  BY <1>1, <1>2 DEF SemaType
<1>4. /\ S[x].count = n /\ S[x].blocked = q /\ BlockedIn(S, x) = In(q)
      /\ \A y \in Semas : y # x => S[y] = h.semas[y] /\ BlockedIn(S, y) = BlockedIn(h.semas, y)
  BY <1>1, OneSema
<1>5. \A y \in Semas : BlockedIn(S, y) = BlockedIn(h.semas, y) /\ S[y].blocked = h.semas[y].blocked
  BY <1>4 DEF BlockedIn
<1>6. AllBlocked(S) = AllBlocked(h.semas)
  BY <1>5 DEF AllBlocked
<1>7. \A y \in Semas : S[y].count = 0 \/ BlockedIn(S, y) = {}
  BY <1>1, <1>4, <1>5 DEF Places
<1>8. u = [h EXCEPT !.semas = S]
  BY <1>2
<1> HIDE DEF S, u, q
<1>9. Places(h.threads, h.runQueue, S, h.numBlocked, C)
  BY <1>1, <1>5, <1>6, <1>7 DEF Places
<1>10. /\ u \in Globals /\ u.threads = h.threads /\ u.runQueue = h.runQueue /\ u.current = h.current
       /\ u.semas = S /\ u.numBlocked = h.numBlocked /\ u.zombie = h.zombie /\ u.exit = h.exit
  BY <1>1, <1>3, <1>8 DEF Globals
<1>11. InPlace(u, C) /\ Same(h, u, {}) /\ OthersKept(h, u, x)
  BY <1>4, <1>9, <1>10 DEF InPlace, Same, OthersKept
<1> QED
  BY <1>4, <1>5, <1>6, <1>10, <1>11 DEF u

\* The thread that runs joins those that are blocked, or the first of them is in hand.
LEMMA BlockInPlace ==
  ASSUME NEW h, InPlace(h, {h.current}), NEW x \in Semas, h.semas[x].count = 0,
         h.threads[h.current].status = "BLOCKED"
  PROVE  LET u == [h EXCEPT !.semas[x].blocked = QueueAdd(@, h.current), !.numBlocked = @ + 1]
         IN  /\ InPlace(u, {}) /\ Same(h, u, {}) /\ OthersKept(h, u, x)
             /\ u.semas[x].count = 0 /\ h.current \notin BlockedIn(h.semas, x)
             /\ BlockedIn(u.semas, x) = BlockedIn(h.semas, x) \cup {h.current}
             /\ u.current = h.current /\ u.threads = h.threads
             /\ u.zombie = h.zombie /\ u.exit = h.exit
<1>0. PICK t : t = h.current
  OBVIOUS
<1> DEFINE q == QueueAdd(h.semas[x].blocked, t)
           S == [h.semas EXCEPT ![x] = [count |-> h.semas[x].count, blocked |-> q]]
           u == [h EXCEPT !.semas[x].blocked = QueueAdd(@, h.current), !.numBlocked = @ + 1]
<1>1. /\ Places(h.threads, h.runQueue, h.semas, h.numBlocked, {t}) /\ h \in Globals
      /\ h.semas \in [Semas -> SemaType] /\ Typed(h.threads, h.runQueue, h.semas)
      /\ t \in Tids /\ t \in {t} /\ h.threads[t].status = "BLOCKED"
  BY <1>0, InPlaceParts DEF InPlace, Globals
<1>2. In(q) = BlockedIn(h.semas, x) \cup {t}
      /\ Places(h.threads, h.runQueue, S, h.numBlocked + 1, {t} \ {t})
  BY <1>1, PlacesBlock
<1>3. /\ S[x].count = h.semas[x].count /\ S[x].blocked = q /\ BlockedIn(S, x) = In(q)
      /\ \A y \in Semas : y # x => S[y] = h.semas[y] /\ BlockedIn(S, y) = BlockedIn(h.semas, y)
  BY <1>1, OneSema
<1>4. Good(q)
  BY <1>2, <1>3 DEF Places
<1>5. q \in QueueType
  BY <1>4, QueueTypes
<1>6. S \in [Semas -> SemaType]
  BY <1>1, <1>5 DEF SemaType
<1>7. t \notin BlockedIn(h.semas, x)
  BY <1>1 DEF Places, AllBlocked
<1>8. [h.semas[x] EXCEPT !.blocked = QueueAdd(@, h.current)]
        = [count |-> h.semas[x].count, blocked |-> q]
  BY <1>0, <1>1 DEF SemaType
<1>9. u = [[h EXCEPT !.semas = S] EXCEPT !.numBlocked = @ + 1]
  BY <1>8
<1>n. h.numBlocked + 1 \in Int
  BY <1>1 DEF Globals
<1>10. \A y \in Semas \ {x} : S[y].count = h.semas[y].count /\ BlockedIn(S, y) = BlockedIn(h.semas, y)
  BY <1>3
<1> HIDE DEF S, u, q
<1>11. /\ u \in Globals /\ u.threads = h.threads /\ u.runQueue = h.runQueue /\ u.current = h.current
       /\ u.semas = S /\ u.numBlocked = h.numBlocked + 1 /\ u.zombie = h.zombie /\ u.exit = h.exit
  <2>1. u = [h EXCEPT !.semas = S, !.numBlocked = h.numBlocked + 1]
    BY <1>1, <1>9 DEF Globals
  <2> QED
    BY <1>1, <1>6, <1>n, <2>1 DEF Globals
<1>12. InPlace(u, {}) /\ Same(h, u, {}) /\ OthersKept(h, u, x)
  <2>1. {t} \ {t} = {}
    OBVIOUS
  <2> QED
    BY <1>2, <1>10, <1>11, <2>1 DEF InPlace, Same, OthersKept
<1> QED
  BY <1>0, <1>2, <1>3, <1>7, <1>11, <1>12 DEF u

Unblocked(h, x) == [h EXCEPT !.semas[x].blocked = QueueRest(@), !.numBlocked = @ - 1]

LEMMA UnblockInPlace ==
  ASSUME NEW h, NEW C, InPlace(h, C), NEW x \in Semas, ~QueueEmpty(h.semas[x].blocked)
  PROVE  LET t == QueueFirst(h.semas[x].blocked)
             u == Unblocked(h, x)
         IN  /\ InPlace(u, C \cup {t}) /\ Same(h, u, {}) /\ OthersKept(h, u, x)
             /\ u.semas[x].count = h.semas[x].count /\ h.semas[x].count = 0
             /\ t \in BlockedIn(h.semas, x) /\ t \in Tids /\ t \notin C
             /\ BlockedIn(u.semas, x) = BlockedIn(h.semas, x) \ {t}
             /\ u.current = h.current /\ u.threads = h.threads /\ u.runQueue = h.runQueue
             /\ u.zombie = h.zombie /\ u.exit = h.exit
<1>0. PICK t : t = QueueFirst(h.semas[x].blocked)
  OBVIOUS
<1> DEFINE q == QueueRest(h.semas[x].blocked)
           S == [h.semas EXCEPT ![x] = [count |-> h.semas[x].count, blocked |-> q]]
           u == Unblocked(h, x)
<1>1. /\ Places(h.threads, h.runQueue, h.semas, h.numBlocked, C) /\ h \in Globals
      /\ h.semas \in [Semas -> SemaType] /\ Typed(h.threads, h.runQueue, h.semas)
  BY InPlaceParts DEF InPlace, Globals
<1>2. /\ t \in BlockedIn(h.semas, x) /\ t \in Tids /\ In(q) = BlockedIn(h.semas, x) \ {t}
      /\ Places(h.threads, h.runQueue, S, h.numBlocked - 1, C \cup {t})
  BY <1>0, <1>1, PlacesUnblock
<1>3. /\ S[x].count = h.semas[x].count /\ S[x].blocked = q /\ BlockedIn(S, x) = In(q)
      /\ \A y \in Semas : y # x => S[y] = h.semas[y] /\ BlockedIn(S, y) = BlockedIn(h.semas, y)
  BY <1>1, OneSema
<1>4. Good(q)
  BY <1>2, <1>3 DEF Places
<1>5. q \in QueueType
  BY <1>4, QueueTypes
<1>6. S \in [Semas -> SemaType]
  BY <1>1, <1>5 DEF SemaType
<1>7. t \notin C /\ h.semas[x].count = 0
  <2>1. t \in AllBlocked(h.semas)
    BY <1>2 DEF AllBlocked
  <2> QED
    BY <1>1, <1>2, <2>1 DEF Places
<1>8. [h.semas[x] EXCEPT !.blocked = QueueRest(@)] = [count |-> h.semas[x].count, blocked |-> q]
  BY <1>1 DEF SemaType
<1>9. u = [[h EXCEPT !.semas = S] EXCEPT !.numBlocked = @ - 1]
  BY <1>8 DEF Unblocked
<1>n. h.numBlocked - 1 \in Int
  BY <1>1 DEF Globals
<1>10. \A y \in Semas \ {x} : S[y].count = h.semas[y].count /\ BlockedIn(S, y) = BlockedIn(h.semas, y)
  BY <1>3
<1> HIDE DEF S, u, q
<1>11. /\ u \in Globals /\ u.threads = h.threads /\ u.runQueue = h.runQueue /\ u.current = h.current
       /\ u.semas = S /\ u.numBlocked = h.numBlocked - 1 /\ u.zombie = h.zombie /\ u.exit = h.exit
  <2>1. u = [h EXCEPT !.semas = S, !.numBlocked = h.numBlocked - 1]
    BY <1>1, <1>9 DEF Globals
  <2> QED
    BY <1>1, <1>6, <1>n, <2>1 DEF Globals
<1>12. InPlace(u, C \cup {t}) /\ Same(h, u, {}) /\ OthersKept(h, u, x)
  BY <1>2, <1>10, <1>11 DEF InPlace, Same, OthersKept
<1> QED
  BY <1>0, <1>2, <1>3, <1>7, <1>11, <1>12 DEF u

LEMMA CountSteady ==
  ASSUME NEW h, Steady(h), NEW x \in Semas, NEW n \in Nat, BlockedIn(h.semas, x) = {}
  PROVE  LET u == [h EXCEPT !.semas[x].count = n]
         IN  /\ Steady(u) /\ Same(h, u, {}) /\ OthersKept(h, u, x)
             /\ u.semas[x].count = n /\ BlockedIn(u.semas, x) = {} /\ u.current = h.current
<1>0. PICK u : u = [h EXCEPT !.semas[x].count = n]
  OBVIOUS
<1>1. InPlace(h, {h.current}) /\ h.zombie = None /\ h.exit = None
  BY DEF Steady
<1>2. /\ InPlace(u, {h.current}) /\ Same(h, u, {}) /\ OthersKept(h, u, x)
      /\ u.semas[x].count = n /\ BlockedIn(u.semas, x) = {}
      /\ u.current = h.current /\ u.runQueue = h.runQueue /\ u.threads = h.threads
      /\ u.zombie = h.zombie /\ u.exit = h.exit
      /\ AllBlocked(u.semas) = AllBlocked(h.semas)
  BY <1>0, <1>1, CountInPlace
<1>3. Steady(u)
  BY <1>1, <1>2 DEF Steady, Runs
<1> QED
  BY <1>0, <1>2, <1>3

LEMMA DecIs ==
  ASSUME NEW h, Steady(h), NEW x \in Semas
  PROVE  LET u == SemaDec(h, x)
         IN  u.exit # None \/ (Steady(u) /\ Same(h, u, {}) /\ Took(h, u, x))
<1>1. /\ InPlace(h, {h.current}) /\ h.zombie = None /\ h.exit = None /\ h.current \in Tids
      /\ h.semas[x].count \in Nat /\ (h.semas[x].count = 0 \/ BlockedIn(h.semas, x) = {})
  BY InPlaceParts DEF Steady, InPlace, Globals, SemaType, Places
<1>2. CASE h.semas[x].count = 0
  <2>1. PICK blocked \in Status : blocked = "BLOCKED"
    BY DEF Status
  <2>2. PICK b : b = Set(h, h.current, blocked)
    OBVIOUS
  <2>3. PICK v : v = [b EXCEPT !.semas[x].blocked = QueueAdd(@, b.current), !.numBlocked = @ + 1]
    OBVIOUS
  <2>4. PICK u : u = ThreadYield(v)
    OBVIOUS
  <2>5. /\ InPlace(b, {h.current}) /\ Same(h, b, {}) /\ Kept(h, b)
        /\ b.current = h.current /\ b.threads[h.current].status = "BLOCKED"
    <3>1. h.current \in {h.current}
      OBVIOUS
    <3> QED
      BY <1>1, <2>1, <2>2, <3>1, SetInPlace
  <2>6. InPlace(b, {b.current}) /\ b.semas[x].count = 0 /\ b.threads[b.current].status = "BLOCKED"
    BY <1>2, <2>5 DEF Kept
  <2>7. /\ InPlace(v, {}) /\ Same(b, v, {}) /\ OthersKept(b, v, x)
        /\ v.semas[x].count = 0 /\ b.current \notin BlockedIn(b.semas, x)
        /\ BlockedIn(v.semas, x) = BlockedIn(b.semas, x) \cup {b.current}
        /\ v.current = b.current /\ v.threads = b.threads
        /\ v.zombie = b.zombie /\ v.exit = b.exit
    BY <2>3, <2>6, BlockInPlace
  <2>8. v.zombie = None /\ v.exit = None /\ v.threads[v.current].status = "BLOCKED"
    BY <1>1, <2>5, <2>6, <2>7 DEF Kept
  <2>9. Done(v, u)
    BY <2>4, <2>7, <2>8, YieldBlocked
  <2>10. SemaDec(h, x) = u
    BY <1>2, <2>1, <2>2, <2>3, <2>4, <2>5 DEF SemaDec
  <2>11. CASE Steady(u) /\ Same(v, u, {}) /\ u.semas = v.semas
    <3>1. Same(h, v, {})
      BY <2>5, <2>7, SameTwice
    <3>2. Same(h, u, {})
      BY <2>11, <3>1, SameTwice
    <3>3. Took(h, u, x)
      BY <1>2, <2>5, <2>7, <2>11 DEF Took, OthersKept, Kept
    <3> QED
      BY <2>10, <2>11, <3>2, <3>3
  <2> QED
    BY <2>9, <2>10, <2>11 DEF Done
<1>3. CASE h.semas[x].count # 0
  <2>1. PICK n : n = h.semas[x].count - 1
    OBVIOUS
  <2>2. n \in Nat /\ BlockedIn(h.semas, x) = {} /\ h.semas[x].count > 0
    BY <1>1, <1>3, <2>1
  <2>3. PICK u : u = [h EXCEPT !.semas[x].count = n]
    OBVIOUS
  <2>4. /\ Steady(u) /\ Same(h, u, {}) /\ OthersKept(h, u, x)
        /\ u.semas[x].count = n /\ BlockedIn(u.semas, x) = {}
    BY <2>2, <2>3, CountSteady
  <2>5. SemaDec(h, x) = u
    BY <1>3, <2>1, <2>3 DEF SemaDec
  <2> QED
    BY <2>1, <2>2, <2>4, <2>5 DEF Took
<1> QED
  BY <1>2, <1>3

LEMMA IncIs ==
  ASSUME NEW h, Steady(h), NEW x \in Semas
  PROVE  LET u == SemaInc(h, x)
         IN  Steady(u) /\ Same(h, u, {}) /\ Gave(h, u, x) /\ u.current = h.current
<1>1. /\ InPlace(h, {h.current}) /\ h.zombie = None /\ h.exit = None /\ h.current \in Tids
      /\ h.semas[x].count \in Nat /\ Good(h.semas[x].blocked)
  BY InPlaceParts DEF Steady, InPlace, Globals, SemaType
<1>2. CASE QueueEmpty(h.semas[x].blocked)
  <2>1. PICK n : n = h.semas[x].count + 1
    OBVIOUS
  <2>2. n \in Nat /\ BlockedIn(h.semas, x) = {}
    BY <1>1, <1>2, <2>1, GoodIs DEF BlockedIn
  <2>3. PICK u : u = [h EXCEPT !.semas[x].count = n]
    OBVIOUS
  <2>4. /\ Steady(u) /\ Same(h, u, {}) /\ OthersKept(h, u, x)
        /\ u.semas[x].count = n /\ BlockedIn(u.semas, x) = {} /\ u.current = h.current
    BY <2>2, <2>3, CountSteady
  <2>5. SemaInc(h, x) = u
    BY <1>2, <2>1, <2>3 DEF SemaInc
  <2> QED
    BY <2>1, <2>2, <2>4, <2>5 DEF Gave
<1>3. CASE ~QueueEmpty(h.semas[x].blocked)
  <2>1. PICK runnable \in Status : runnable = "RUNNABLE"
    BY DEF Status
  <2>2. PICK t : t = QueueFirst(h.semas[x].blocked)
    OBVIOUS
  <2>3. PICK v : v = Unblocked(h, x)
    OBVIOUS
  <2>4. PICK w : w = Set(v, t, runnable)
    OBVIOUS
  <2>5. PICK u : u = Queue(w, t)
    OBVIOUS
  <2>6. /\ InPlace(v, {h.current} \cup {t}) /\ Same(h, v, {}) /\ OthersKept(h, v, x)
        /\ v.semas[x].count = h.semas[x].count /\ h.semas[x].count = 0
        /\ t \in BlockedIn(h.semas, x) /\ t \in Tids /\ t \notin {h.current}
        /\ BlockedIn(v.semas, x) = BlockedIn(h.semas, x) \ {t}
        /\ v.current = h.current /\ v.threads = h.threads /\ v.runQueue = h.runQueue
        /\ v.zombie = h.zombie /\ v.exit = h.exit
    <3>1. InPlace(h, {h.current}) /\ ~QueueEmpty(h.semas[x].blocked)
      BY <1>1, <1>3
    <3> QED
      BY <3>1, <2>2, <2>3, UnblockInPlace
  <2>7. t \in {h.current} \cup {t} /\ InPlace(v, {h.current} \cup {t}) /\ t \in Tids
    BY <2>6
  <2>8. /\ InPlace(w, {h.current} \cup {t}) /\ Same(v, w, {}) /\ Kept(v, w)
        /\ w.current = v.current /\ w.threads[t].status = "RUNNABLE"
        /\ \A c \in Tids \ {t} : w.threads[c] = v.threads[c]
    BY <2>1, <2>4, <2>7, SetInPlace
  <2>9. /\ InPlace(u, ({h.current} \cup {t}) \ {t}) /\ Same(w, u, {}) /\ Kept(w, u)
        /\ u.current = w.current /\ u.threads = w.threads
    BY <2>5, <2>7, <2>8, QueueInPlace
  <2>10. ({h.current} \cup {t}) \ {t} = {u.current}
    BY <2>6, <2>8, <2>9
  <2>11. u.threads[u.current].status # "BLOCKED"
    <3>1. AllBlocked(h.semas) # {}
      BY <2>6 DEF AllBlocked
    <3>2. h.threads[h.current].status # "BLOCKED"
      BY <3>1 DEF Steady, Runs
    <3> QED
      BY <1>1, <2>6, <2>8, <2>9, <3>2
  <2>12. Steady(u)
    BY <1>1, <2>6, <2>8, <2>9, <2>10, <2>11 DEF Steady, Runs, Kept
  <2>13. Same(h, u, {})
    <3>1. Same(h, w, {})
      BY <2>6, <2>8, SameTwice
    <3> QED
      BY <2>9, <3>1, SameTwice
  <2>14. Gave(h, u, x)
    BY <2>6, <2>8, <2>9 DEF Gave, OthersKept, Kept
  <2>15. SemaInc(h, x) = u
    <3>1. u = [Queue(Set(h, t, runnable), t) EXCEPT !.semas[x].blocked = QueueRest(@),
                                                    !.numBlocked = @ - 1]
      <4>1. h \in Globals
        BY <1>1 DEF InPlace
      <4>2. PICK T : T = [h.threads EXCEPT ![t].status = runnable]
        OBVIOUS
      <4>3. PICK q : q = QueueAdd(h.runQueue, t)
        OBVIOUS
      <4>4. PICK S : S = [h.semas EXCEPT ![x].blocked = QueueRest(@)]
        OBVIOUS
      <4>5. Set(h, t, runnable) = [h EXCEPT !.threads = T]
        BY <4>2 DEF Set
      <4>6. Queue(Set(h, t, runnable), t) = [h EXCEPT !.threads = T, !.runQueue = q]
        BY <4>1, <4>3, <4>5 DEF Queue, Globals
      <4>7. v = [h EXCEPT !.semas = S, !.numBlocked = h.numBlocked - 1]
        BY <2>3, <4>1, <4>4 DEF Globals, Unblocked
      <4>8. w = [v EXCEPT !.threads = T]
        BY <2>4, <2>6, <4>2 DEF Set
      <4>9. u = [w EXCEPT !.runQueue = q]
        BY <2>5, <2>6, <2>8, <4>3, <4>1, <4>7, <4>8 DEF Queue, Globals
      <4>10. u = [h EXCEPT !.threads = T, !.runQueue = q, !.semas = S, !.numBlocked = h.numBlocked - 1]
        BY <4>1, <4>7, <4>8, <4>9 DEF Globals
      <4> QED
        BY <4>1, <4>4, <4>6, <4>10 DEF Globals
    <3> QED
      BY <1>3, <2>1, <2>2, <3>1 DEF SemaInc
  <2> QED
    BY <2>6, <2>8, <2>9, <2>12, <2>13, <2>14, <2>15
<1> QED
  BY <1>2, <1>3

\* u is h with the semaphores of X released and those that were blocked on them freed.
Freed(h, u, C, X) ==
  /\ InPlace(u, C) /\ u.current = h.current /\ u.runQueue = h.runQueue
  /\ u.zombie = h.zombie /\ u.exit = h.exit
  /\ \A t \in C \cap Tids : u.threads[t] = h.threads[t]
  /\ \A t \in Tids : u.threads[t] # None => u.threads[t] = h.threads[t]
  /\ \A x \in X : u.semas[x].count = 0 /\ BlockedIn(u.semas, x) = {}

LEMMA ReleaseIs ==
  ASSUME NEW h, NEW C, InPlace(h, C), NEW x \in Semas
  PROVE  Freed(h, SemaRelease(h, x), C, {x}) /\ OthersKept(h, SemaRelease(h, x), x)
<1> DEFINE V == Without(h.threads, BlockedIn(h.semas, x))
           S == [h.semas EXCEPT ![x] = Released]
           u == SemaRelease(h, x)
<1>1. /\ Places(h.threads, h.runQueue, h.semas, h.numBlocked, C) /\ h \in Globals
      /\ Typed(h.threads, h.runQueue, h.semas) /\ h.semas \in [Semas -> SemaType]
      /\ h.numBlocked \in Int /\ h.threads \in [Tids -> ThreadType \cup {None}]
  BY InPlaceParts DEF InPlace, Globals
<1>2. PICK b : b = h.numBlocked - QueueSize(h.semas[x].blocked)
  OBVIOUS
<1>3. /\ BlockedIn(S, x) = {} /\ \A y \in Semas : y # x => BlockedIn(S, y) = BlockedIn(h.semas, y)
      /\ Typed(V, h.runQueue, S) /\ Places(V, h.runQueue, S, b, C)
  <2>1. PICK T, r, U, n : T = h.threads /\ r = h.runQueue /\ U = h.semas /\ n = h.numBlocked
    OBVIOUS
  <2>2. Typed(T, r, U) /\ Places(T, r, U, n, C)
    BY <1>1, <2>1
  <2>3. LET Z == Without(T, BlockedIn(U, x))
            R == [U EXCEPT ![x] = Released]
        IN  /\ BlockedIn(R, x) = {} /\ \A y \in Semas : y # x => BlockedIn(R, y) = BlockedIn(U, y)
            /\ Typed(Z, r, R) /\ Places(Z, r, R, n - QueueSize(U[x].blocked), C)
    BY <2>2, PlacesRelease
  <2> QED
    BY <1>2, <2>1, <2>3
<1>4. S[x].count = 0 /\ \A y \in Semas : y # x => S[y].count = h.semas[y].count
  BY <1>1 DEF Released
<1>5. /\ \A t \in Tids : V[t] # None => V[t] = h.threads[t]
      /\ \A t \in C \cap Tids : V[t] = h.threads[t]
  <2>1. \A t \in Tids : V[t] = IF t \in BlockedIn(h.semas, x) THEN None ELSE h.threads[t]
    BY DEF Without
  <2>2. \A t \in C \cap Tids : t \notin BlockedIn(h.semas, x)
    BY <1>1 DEF Places, AllBlocked
  <2> HIDE DEF V
  <2> QED
    BY <2>1, <2>2
<1>6. u = [h EXCEPT !.threads = V, !.numBlocked = b, !.semas = S]
  <2>1. PICK q : q = h.semas[x].blocked
    OBVIOUS
  <2>2. Without(h.threads, Range(Items(q))) = V
    BY <2>1 DEF BlockedIn, In
  <2> HIDE DEF V
  <2>3. FreeAll(h, q) = [h EXCEPT !.threads = V, !.numBlocked = b]
    BY <1>2, <2>1, <2>2 DEF FreeAll
  <2>4. u = [[h EXCEPT !.threads = V, !.numBlocked = b] EXCEPT !.semas[x] = Released]
    BY <2>1, <2>3 DEF SemaRelease
  <2> QED
    BY <1>1, <2>4 DEF Globals
<1>7. b \in Int
  <2>1. QueueSize(h.semas[x].blocked) \in Int
    BY <1>1 DEF SemaType, QueueType, QueueSize
  <2> QED
    BY <1>1, <1>2, <2>1
<1> HIDE DEF u, V, S
<1>8. /\ u \in Globals /\ u.threads = V /\ u.runQueue = h.runQueue /\ u.current = h.current
      /\ u.semas = S /\ u.numBlocked = b /\ u.zombie = h.zombie /\ u.exit = h.exit
  <2>1. V \in [Tids -> ThreadType \cup {None}] /\ S \in [Semas -> SemaType]
    BY <1>3 DEF Typed
  <2> QED
    BY <1>1, <1>6, <1>7, <2>1 DEF Globals
<1>9. InPlace(u, C)
  BY <1>3, <1>8 DEF InPlace
<1>10. Freed(h, u, C, {x})
  BY <1>3, <1>4, <1>5, <1>8, <1>9 DEF Freed
<1>11. OthersKept(h, u, x)
  BY <1>3, <1>4, <1>8 DEF OthersKept
<1> QED
  BY <1>10, <1>11 DEF u

LEMMA FreedTwice ==
  ASSUME NEW h, NEW u, NEW C, NEW X \in SUBSET Semas, Freed(h, u, C, X), NEW x \in Semas
  PROVE  Freed(h, SemaRelease(u, x), C, X \cup {x})
<1>0. PICK v : v = SemaRelease(u, x)
  OBVIOUS
<1>1. Freed(u, v, C, {x}) /\ OthersKept(u, v, x)
  BY <1>0, ReleaseIs DEF Freed
<1>2. \A y \in X \cup {x} : v.semas[y].count = 0 /\ BlockedIn(v.semas, y) = {}
  <2>1. v.semas[x].count = 0 /\ BlockedIn(v.semas, x) = {}
    BY <1>1 DEF Freed
  <2>2. ASSUME NEW y \in X, y # x PROVE v.semas[y].count = 0 /\ BlockedIn(v.semas, y) = {}
    <3>1. u.semas[y].count = 0 /\ BlockedIn(u.semas, y) = {}
      BY DEF Freed
    <3> QED
      BY <1>1, <2>2, <3>1 DEF OthersKept
  <2> QED
    BY <2>1, <2>2
<1>3. Freed(h, v, C, X \cup {x})
  BY <1>1, <1>2 DEF Freed
<1> QED
  BY <1>0, <1>3

\* The semaphores at the end of a test: nothing is blocked any more.
LEMMA ReleaseAllIs ==
  ASSUME NEW h, NEW C, InPlace(h, C)
  PROVE  Freed(h, ReleaseAll(h), C, Semas) /\ AllBlocked(ReleaseAll(h).semas) = {}
<1>1. PICK lock, full, empty, ready, waiting, seats :
        /\ lock = "lock" /\ full = "full" /\ empty = "empty"
        /\ ready = "ready" /\ waiting = "waiting" /\ seats = "seats"
  OBVIOUS
<1>2. /\ lock \in Semas /\ full \in Semas /\ empty \in Semas
      /\ ready \in Semas /\ waiting \in Semas /\ seats \in Semas
      /\ Semas = {lock, full, empty, ready, waiting, seats}
  BY <1>1 DEF Semas
<1>3. PICK a : a = SemaRelease(h, lock)
  OBVIOUS
<1>4. PICK b : b = SemaRelease(a, full)
  OBVIOUS
<1>5. PICK c : c = SemaRelease(b, empty)
  OBVIOUS
<1>6. PICK d : d = SemaRelease(c, ready)
  OBVIOUS
<1>7. PICK e : e = SemaRelease(d, waiting)
  OBVIOUS
<1>8. PICK f : f = SemaRelease(e, seats)
  OBVIOUS
<1>9. Freed(h, a, C, {lock})
  BY <1>2, <1>3, ReleaseIs
<1>10. Freed(h, b, C, {lock} \cup {full})
  BY <1>2, <1>4, <1>9, FreedTwice
<1>11. Freed(h, c, C, {lock} \cup {full} \cup {empty})
  <2>1. {lock} \cup {full} \in SUBSET Semas
    BY <1>2
  <2> QED
    BY <1>2, <1>5, <1>10, <2>1, FreedTwice
<1>12. Freed(h, d, C, {lock} \cup {full} \cup {empty} \cup {ready})
  <2>1. {lock} \cup {full} \cup {empty} \in SUBSET Semas
    BY <1>2
  <2> QED
    BY <1>2, <1>6, <1>11, <2>1, FreedTwice
<1>13. Freed(h, e, C, {lock} \cup {full} \cup {empty} \cup {ready} \cup {waiting})
  <2>1. {lock} \cup {full} \cup {empty} \cup {ready} \in SUBSET Semas
    BY <1>2
  <2> QED
    BY <1>2, <1>7, <1>12, <2>1, FreedTwice
<1>14. Freed(h, f, C, {lock} \cup {full} \cup {empty} \cup {ready} \cup {waiting} \cup {seats})
  <2>1. {lock} \cup {full} \cup {empty} \cup {ready} \cup {waiting} \in SUBSET Semas
    BY <1>2
  <2> QED
    BY <1>2, <1>8, <1>13, <2>1, FreedTwice
<1>15. {lock} \cup {full} \cup {empty} \cup {ready} \cup {waiting} \cup {seats} = Semas
  BY <1>2
<1>16. f = ReleaseAll(h)
  BY <1>1, <1>3, <1>4, <1>5, <1>6, <1>7, <1>8 DEF ReleaseAll
<1>17. Freed(h, f, C, Semas)
  BY <1>14, <1>15
<1>18. AllBlocked(f.semas) = {}
  BY <1>17 DEF Freed, AllBlocked
<1> QED
  BY <1>16, <1>17, <1>18

-----------------------------------------------------------------------------
(* Where the threads are in their functions.                                *)

\* The entry of a thread that is in no queue changes.
LEMMA EntryInPlace ==
  ASSUME NEW h, NEW C, InPlace(h, C), NEW t \in C, t \in Tids, NEW e \in ThreadType
  PROVE  LET u == [h EXCEPT !.threads[t] = e]
         IN  /\ InPlace(u, C) /\ Kept(h, u) /\ u.current = h.current /\ u.runQueue = h.runQueue
             /\ u.threads[t] = e /\ \A c \in Tids \ {t} : u.threads[c] = h.threads[c]
<1> DEFINE T == [h.threads EXCEPT ![t] = e]
           u == [h EXCEPT !.threads[t] = e]
<1>1. /\ Places(h.threads, h.runQueue, h.semas, h.numBlocked, C) /\ h \in Globals
      /\ Typed(h.threads, h.runQueue, h.semas)
  BY InPlaceParts DEF InPlace
<1>2. Places(T, h.runQueue, h.semas, h.numBlocked, C)
  BY <1>1, PlacesSet
<1>3. T \in [Tids -> ThreadType \cup {None}]
  BY <1>1 DEF Typed
<1>4. \A c \in Tids : T[c] = IF c = t THEN e ELSE h.threads[c]
  BY <1>1 DEF Typed
<1>5. u = [h EXCEPT !.threads = T]
  OBVIOUS
<1> HIDE DEF T, u
<1>6. /\ u \in Globals /\ u.threads = T /\ u.runQueue = h.runQueue /\ u.current = h.current
      /\ u.semas = h.semas /\ u.numBlocked = h.numBlocked /\ u.zombie = h.zombie /\ u.exit = h.exit
  BY <1>1, <1>3, <1>5 DEF Globals
<1>7. InPlace(u, C)
  BY <1>2, <1>6 DEF InPlace
<1> QED
  BY <1>4, <1>6, <1>7 DEF u, Kept

\* u is h, but its current thread is elsewhere in its function.
Moved(h, u, fn, pc, n) ==
  /\ Steady(u) /\ Kept(h, u) /\ u.current = h.current /\ u.runQueue = h.runQueue
  /\ u.threads[h.current] # None
  /\ u.threads[h.current].fn = fn /\ u.threads[h.current].pc = pc /\ u.threads[h.current].n = n
  /\ \A c \in Tids \ {h.current} : u.threads[c] = h.threads[c]

LEMMA EntrySteady ==
  ASSUME NEW h, Steady(h), NEW e \in ThreadType, e.status = h.threads[h.current].status
  PROVE  Moved(h, [h EXCEPT !.threads[h.current] = e], e.fn, e.pc, e.n)
<1>0. PICK t, u : t = h.current /\ u = [h EXCEPT !.threads[t] = e]
  OBVIOUS
<1>1. InPlace(h, {t}) /\ t \in {t} /\ t \in Tids
  BY <1>0, InPlaceParts DEF Steady
<1>2. /\ InPlace(u, {t}) /\ Kept(h, u) /\ u.current = h.current /\ u.runQueue = h.runQueue
      /\ u.threads[t] = e /\ \A c \in Tids \ {t} : u.threads[c] = h.threads[c]
  BY <1>0, <1>1, EntryInPlace
<1>3. Steady(u)
  BY <1>0, <1>2 DEF Steady, Runs, Kept
<1> QED
  BY <1>0, <1>2, <1>3, NoThread DEF Moved

LEMMA CurrentIs ==
  ASSUME NEW h, Steady(h)
  PROVE  h.current \in Tids /\ h.threads[h.current] \in ThreadType /\ h.threads[h.current] # None
         /\ h \in Globals
<1>1. InPlace(h, {h.current})
  BY DEF Steady
<1> QED
  BY <1>1, InPlaceParts DEF InPlace

LEMMA GotoIs ==
  ASSUME Steady(g), NEW pc \in Pcs
  PROVE  Moved(g, Goto(pc), Me.fn, pc, Me.n)
<1>0. PICK t : t = g.current
  OBVIOUS
<1>1. PICK e : e = [g.threads[t] EXCEPT !.pc = pc]
  OBVIOUS
<1>2. g.threads[t] \in ThreadType
  BY <1>0, CurrentIs
<1>3. /\ e \in ThreadType /\ e.status = g.threads[t].status
      /\ e.fn = g.threads[t].fn /\ e.pc = pc /\ e.n = g.threads[t].n
  BY <1>1, <1>2 DEF ThreadType
<1>4. Goto(pc) = [g EXCEPT !.threads[g.current] = e]
  BY <1>0, <1>1 DEF Goto
<1> QED
  BY <1>0, <1>3, <1>4, EntrySteady DEF Me

LEMMA CountIs ==
  ASSUME Steady(g), NEW pc \in Pcs
  PROVE  Moved(g, Count(pc), Me.fn, pc, Me.n + 1)
<1>0. PICK t : t = g.current
  OBVIOUS
<1>1. PICK e : e = [[g.threads[t] EXCEPT !.pc = pc] EXCEPT !.n = @ + 1]
  OBVIOUS
<1>2. g.threads[t] \in ThreadType /\ g \in Globals /\ t \in Tids
  BY <1>0, CurrentIs
<1>3. /\ e \in ThreadType /\ e.status = g.threads[t].status
      /\ e.fn = g.threads[t].fn /\ e.pc = pc /\ e.n = g.threads[t].n + 1
  <2>1. PICK d : d = [g.threads[t] EXCEPT !.pc = pc]
    OBVIOUS
  <2>2. /\ d \in ThreadType /\ d.status = g.threads[t].status
        /\ d.fn = g.threads[t].fn /\ d.pc = pc /\ d.n = g.threads[t].n
    BY <1>2, <2>1 DEF ThreadType
  <2>3. e = [d EXCEPT !.n = @ + 1]
    BY <1>1, <2>1
  <2>4. /\ e \in ThreadType /\ e.status = d.status /\ e.fn = d.fn /\ e.pc = d.pc /\ e.n = d.n + 1
    BY <2>2, <2>3 DEF ThreadType
  <2> QED
    BY <2>2, <2>4
<1>4. Count(pc) = [g EXCEPT !.threads[g.current] = e]
  <2>1. PICK d : d = [g.threads[t] EXCEPT !.pc = pc]
    OBVIOUS
  <2>2. Goto(pc) = [g EXCEPT !.threads = [g.threads EXCEPT ![t] = d]]
    BY <1>0, <2>1 DEF Goto
  <2>3. e = [d EXCEPT !.n = @ + 1]
    BY <1>1, <2>1
  <2>4. Count(pc) = [Goto(pc) EXCEPT !.threads[t].n = @ + 1]
    BY <1>0 DEF Count
  <2>5. g.threads \in [Tids -> ThreadType \cup {None}]
    BY <1>2 DEF Globals
  <2>6. [[g.threads EXCEPT ![t] = d] EXCEPT ![t].n = @ + 1] = [g.threads EXCEPT ![t] = e]
    BY <1>2, <2>3, <2>5
  <2> QED
    BY <1>0, <1>2, <2>2, <2>4, <2>6 DEF Globals
<1> QED
  BY <1>0, <1>3, <1>4, EntrySteady DEF Me

LEMMA ToMainIs ==
  ASSUME NEW h, Steady(h), h.current = Main, NEW fn \in Fns, NEW pc \in Pcs
  PROVE  Moved(h, ToMain(h, fn, pc), fn, pc, h.threads[Main].n)
<1>0. PICK t : t = Main
  OBVIOUS
<1>1. PICK e : e = [[h.threads[t] EXCEPT !.fn = fn] EXCEPT !.pc = pc]
  OBVIOUS
<1>2. h.threads[t] \in ThreadType /\ h \in Globals /\ t \in Tids
  BY <1>0, CurrentIs
<1>3. /\ e \in ThreadType /\ e.status = h.threads[t].status
      /\ e.fn = fn /\ e.pc = pc /\ e.n = h.threads[t].n
  BY <1>1, <1>2 DEF ThreadType
<1>4. ToMain(h, fn, pc) = [h EXCEPT !.threads[h.current] = e]
  <2>1. PICK d : d = [h.threads[t] EXCEPT !.fn = fn]
    OBVIOUS
  <2>2. ToMain(h, fn, pc) = [[h EXCEPT !.threads[t].fn = fn] EXCEPT !.threads[t].pc = pc]
    BY <1>0 DEF ToMain
  <2>3. [h EXCEPT !.threads[t].fn = fn] = [h EXCEPT !.threads = [h.threads EXCEPT ![t] = d]]
    BY <2>1
  <2>4. e = [d EXCEPT !.pc = pc]
    BY <1>1, <2>1
  <2>5. h.threads \in [Tids -> ThreadType \cup {None}]
    BY <1>2 DEF Globals
  <2>6. [[h.threads EXCEPT ![t] = d] EXCEPT ![t].pc = pc] = [h.threads EXCEPT ![t] = e]
    BY <1>2, <2>4, <2>5
  <2>7. PICK X : X = [h.threads EXCEPT ![t] = d]
    OBVIOUS
  <2>8. ToMain(h, fn, pc) = [[h EXCEPT !.threads = X] EXCEPT !.threads = [X EXCEPT ![t].pc = pc]]
    BY <1>2, <2>2, <2>3, <2>7 DEF Globals
  <2>9. ToMain(h, fn, pc) = [h EXCEPT !.threads = [h.threads EXCEPT ![t] = e]]
    BY <1>2, <2>6, <2>7, <2>8 DEF Globals
  <2> QED
    BY <1>0, <2>9
<1> QED
  BY <1>0, <1>3, <1>4, EntrySteady

\* u has the threads of h but for those in D; the one that was current in h is at pc.
Stepped(h, u, D, pc, n) ==
  \A t \in Tids :
    /\ u.threads[t] # None <=> h.threads[t] # None /\ t \notin D
    /\ u.threads[t] # None =>
         /\ u.threads[t].fn = h.threads[t].fn
         /\ u.threads[t].pc = IF t = h.current THEN pc ELSE h.threads[t].pc
         /\ u.threads[t].n  = IF t = h.current THEN n ELSE h.threads[t].n

LEMMA MovedSame ==
  ASSUME NEW h, NEW v, NEW u, NEW pc, NEW n, NEW D, h.threads[h.current] # None,
         Moved(h, v, h.threads[h.current].fn, pc, n), Same(v, u, D)
  PROVE  Stepped(h, u, D, pc, n)
<1> SUFFICES ASSUME NEW t \in Tids
    PROVE  /\ u.threads[t] # None <=> h.threads[t] # None /\ t \notin D
           /\ u.threads[t] # None =>
                /\ u.threads[t].fn = h.threads[t].fn
                /\ u.threads[t].pc = IF t = h.current THEN pc ELSE h.threads[t].pc
                /\ u.threads[t].n  = IF t = h.current THEN n ELSE h.threads[t].n
  BY DEF Stepped
<1>1. /\ u.threads[t] # None <=> v.threads[t] # None /\ t \notin D
      /\ u.threads[t] # None =>
           /\ u.threads[t].fn = v.threads[t].fn /\ u.threads[t].pc = v.threads[t].pc
           /\ u.threads[t].n = v.threads[t].n
  BY DEF Same
<1>2. CASE t = h.current
  BY <1>1, <1>2 DEF Moved
<1>3. CASE t # h.current
  <2>1. v.threads[t] = h.threads[t]
    BY <1>3 DEF Moved
  <2> QED
    BY <1>1, <1>3, <2>1
<1> QED
  BY <1>2, <1>3

LEMMA SameStepped ==
  ASSUME NEW h, NEW u, NEW D, Same(h, u, D)
  PROVE  Stepped(h, u, D, h.threads[h.current].pc, h.threads[h.current].n)
BY DEF Same, Stepped

\* The calls of Code.
CallOK(c) == c.sema \in Semas /\ c.next \in Pcs /\ c.op \in {"dec", "inc"}

LEMMA CodeIs ==
  ASSUME NEW fn \in DOMAIN Code, NEW pc \in DOMAIN Code[fn]
  PROVE  fn # "main" /\ fn # "any" /\ CallOK(Code[fn][pc])
<1>1. fn \in {"producer", "consumer", "barber", "customer"}
  BY DEF Code
<1>2. CASE fn = "producer"
  <2>1. Code[fn] = Producer
    BY <1>2 DEF Code
  <2>2. pc \in {"begin", "lock", "full"}
    BY <2>1 DEF Producer
  <2>3. CallOK(Dec("empty", "lock")) /\ CallOK(Dec("lock", "put")) /\ CallOK(Inc("full", "begin"))
    BY DEF CallOK, Dec, Inc, Semas, Pcs
  <2>4. Producer["begin"] = Dec("empty", "lock")
    BY DEF Producer
  <2>5. Producer["lock"] = Dec("lock", "put")
    BY DEF Producer
  <2>6. Producer["full"] = Inc("full", "begin")
    BY DEF Producer
  <2>7. CallOK(Producer[pc])
    BY <2>2, <2>3, <2>4, <2>5, <2>6
  <2> QED
    BY <1>2, <2>1, <2>7
<1>3. CASE fn = "consumer"
  <2>1. Code[fn] = Consumer
    BY <1>3 DEF Code
  <2>2. pc \in {"begin", "lock", "empty"}
    BY <2>1 DEF Consumer
  <2>3. CallOK(Dec("full", "lock")) /\ CallOK(Dec("lock", "get")) /\ CallOK(Inc("empty", "begin"))
    BY DEF CallOK, Dec, Inc, Semas, Pcs
  <2>4. Consumer["begin"] = Dec("full", "lock")
    BY DEF Consumer
  <2>5. Consumer["lock"] = Dec("lock", "get")
    BY DEF Consumer
  <2>6. Consumer["empty"] = Inc("empty", "begin")
    BY DEF Consumer
  <2>7. CallOK(Consumer[pc])
    BY <2>2, <2>3, <2>4, <2>5, <2>6
  <2> QED
    BY <1>3, <2>1, <2>7
<1>4. CASE fn = "barber"
  <2>1. Code[fn] = Barber
    BY <1>4 DEF Code
  <2>2. pc \in {"begin", "seats", "ready"}
    BY <2>1 DEF Barber
  <2>3. CallOK(Dec("waiting", "seats")) /\ CallOK(Dec("seats", "cut")) /\ CallOK(Inc("ready", "begin"))
    BY DEF CallOK, Dec, Inc, Semas, Pcs
  <2>4. Barber["begin"] = Dec("waiting", "seats")
    BY DEF Barber
  <2>5. Barber["seats"] = Dec("seats", "cut")
    BY DEF Barber
  <2>6. Barber["ready"] = Inc("ready", "begin")
    BY DEF Barber
  <2>7. CallOK(Barber[pc])
    BY <2>2, <2>3, <2>4, <2>5, <2>6
  <2> QED
    BY <1>4, <2>1, <2>7
<1>5. CASE fn = "customer"
  <2>1. Code[fn] = Customer
    BY <1>5 DEF Code
  <2>2. pc \in {"begin", "wait", "chair"}
    BY <2>1 DEF Customer
  <2>3. CallOK(Dec("seats", "look")) /\ CallOK(Inc("waiting", "chair")) /\ CallOK(Dec("ready", "return"))
    BY DEF CallOK, Dec, Inc, Semas, Pcs
  <2>4. Customer["begin"] = Dec("seats", "look")
    BY DEF Customer
  <2>5. Customer["wait"] = Inc("waiting", "chair")
    BY DEF Customer
  <2>6. Customer["chair"] = Dec("ready", "return")
    BY DEF Customer
  <2>7. CallOK(Customer[pc])
    BY <2>2, <2>3, <2>4, <2>5, <2>6
  <2> QED
    BY <1>5, <2>1, <2>7
<1> QED
  BY <1>1, <1>2, <1>3, <1>4, <1>5

\* A call on a semaphore from a thread that goes on at pc after it.
LEMMA DecStep ==
  ASSUME Steady(g), NEW h, NEW pc, NEW n, Moved(g, h, Me.fn, pc, n), NEW x \in Semas
  PROVE  LET u == SemaDec(h, x)
         IN  u.exit # None \/ (Steady(u) /\ Stepped(g, u, {}, pc, n) /\ Took(g, u, x))
<1>1. PICK u : u = SemaDec(h, x)
  OBVIOUS
<1>2. Steady(h) /\ h.semas = g.semas /\ h.current = g.current /\ g.threads[g.current] # None
  BY CurrentIs DEF Moved, Kept
<1>3. u.exit # None \/ (Steady(u) /\ Same(h, u, {}) /\ Took(h, u, x))
  BY <1>1, <1>2, DecIs
<1>4. CASE Steady(u) /\ Same(h, u, {}) /\ Took(h, u, x)
  <2>1. Stepped(g, u, {}, pc, n)
    BY <1>2, <1>4, MovedSame DEF Me
  <2>2. Took(g, u, x)
    BY <1>2, <1>4 DEF Took, OthersKept
  <2> QED
    BY <1>1, <1>4, <2>1, <2>2
<1> QED
  BY <1>1, <1>3, <1>4

LEMMA IncStep ==
  ASSUME Steady(g), NEW h, NEW pc, NEW n, Moved(g, h, Me.fn, pc, n), NEW x \in Semas
  PROVE  LET u == SemaInc(h, x)
         IN  /\ Steady(u) /\ Stepped(g, u, {}, pc, n) /\ Gave(g, u, x)
             /\ u.current = g.current
<1>1. PICK u : u = SemaInc(h, x)
  OBVIOUS
<1>2. Steady(h) /\ h.semas = g.semas /\ h.current = g.current /\ g.threads[g.current] # None
  BY CurrentIs DEF Moved, Kept
<1>3. Steady(u) /\ Same(h, u, {}) /\ Gave(h, u, x) /\ u.current = h.current
  BY <1>1, <1>2, IncIs
<1>4. Stepped(g, u, {}, pc, n)
  BY <1>2, <1>3, MovedSame DEF Me
<1>5. Gave(g, u, x)
  BY <1>2, <1>3 DEF Gave, OthersKept
<1> QED
  BY <1>1, <1>2, <1>3, <1>4, <1>5

-----------------------------------------------------------------------------
(* The invariant: the process has exited, or every thread is in its place    *)
(* and main's is where it can be.                                            *)

\* Between two tests main's thread is alone.
Control(h) ==
  /\ \A t \in Tids : h.threads[t] # None /\ h.threads[t].fn = "main" =>
       t = Main /\ h.threads[t].pc \in {"begin", "make"}
  /\ h.threads[Main] # None /\ h.threads[Main].fn = "main" /\ h.threads[Main].pc = "begin" =>
       h.current = Main /\ In(h.runQueue) = {} /\ AllBlocked(h.semas) = {}

PlacesInv == g.exit = None => Steady(g) /\ Control(g)
TestInv   ==
  \E left \in Seq(Test) : \E makes, expected : test = [left |-> left, makes |-> makes, expected |-> expected]

LEMMA SteppedControl ==
  ASSUME Control(g), NEW u, NEW D, NEW pc, NEW n, Stepped(g, u, D, pc, n),
         Me.fn # "main" \/ (pc = "make" /\ Me.pc = "make")
  PROVE  Control(u)
<1>1. ASSUME NEW t \in Tids, u.threads[t] # None, u.threads[t].fn = "main"
      PROVE  t = Main /\ u.threads[t].pc \in {"begin", "make"} /\ u.threads[t].pc # "begin"
  <2>1. g.threads[t] # None /\ g.threads[t].fn = "main"
    BY <1>1 DEF Stepped
  <2>2. t = Main /\ g.threads[t].pc \in {"begin", "make"}
    BY <2>1 DEF Control
  <2>3. CASE t = g.current
    BY <1>1, <2>1, <2>2, <2>3 DEF Stepped, Me
  <2>4. CASE t # g.current
    <3>1. g.threads[t].pc # "begin"
      BY <2>1, <2>2, <2>4 DEF Control
    <3>2. u.threads[t].pc = g.threads[t].pc
      BY <1>1, <2>4 DEF Stepped
    <3> QED
      BY <2>2, <3>1, <3>2
  <2> QED
    BY <2>3, <2>4
<1> QED
  BY <1>1, TidsFinite DEF Control

\* Semaphores as sema_init() makes them: nothing is blocked.
LEMMA InitSemas ==
  ASSUME NEW S, NEW counts \in [Semas -> Nat],
         \A x \in Semas : S[x] = [count |-> counts[x], blocked |-> QueueInit]
  PROVE  /\ \A x \in Semas : S[x] \in SemaType /\ Good(S[x].blocked) /\ BlockedIn(S, x) = {}
         /\ \A x \in Semas : S[x].count = counts[x]
         /\ AllBlocked(S) = {} /\ Cardinality(AllBlocked(S)) = 0
<1>1. Good(QueueInit) /\ In(QueueInit) = {} /\ QueueInit \in QueueType
  BY GoodInit, QueueTypes
<1>2. \A x \in Semas : S[x].count = counts[x] /\ S[x].blocked = QueueInit /\ S[x] \in SemaType
  <2> SUFFICES ASSUME NEW x \in Semas
      PROVE  S[x].count = counts[x] /\ S[x].blocked = QueueInit /\ S[x] \in SemaType
    OBVIOUS
  <2>1. PICK n \in Nat, q \in QueueType : n = counts[x] /\ q = QueueInit
    BY <1>1
  <2>2. S[x] = [count |-> n, blocked |-> q]
    BY <2>1
  <2>3. S[x] \in SemaType /\ S[x].count = n /\ S[x].blocked = q
    BY <2>2 DEF SemaType
  <2> QED
    BY <2>1, <2>3
<1>3. \A x \in Semas : BlockedIn(S, x) = {}
  BY <1>1, <1>2 DEF BlockedIn
<1>4. AllBlocked(S) = {}
  BY <1>3 DEF AllBlocked
<1> QED
  BY <1>1, <1>2, <1>3, <1>4, FS_EmptySet

LEMMA InitPlaces == Init => PlacesInv /\ TestInv
<1> SUFFICES ASSUME Init PROVE PlacesInv /\ TestInv
  OBVIOUS
<1>1. PICK status \in Status :
        g = [current |-> Main, zombie |-> None, runQueue |-> QueueInit, numBlocked |-> 0,
             threads |-> [t \in Tids |-> IF t = Main THEN Thread(status, "main", "begin") ELSE None],
             semas   |-> [x \in Semas |-> Released], exit |-> None]
  BY DEF Init
<1>2. PICK e : e = Thread(status, "main", "begin")
  OBVIOUS
<1>3. e \in ThreadType /\ e.fn = "main" /\ e.pc = "begin"
  BY <1>2 DEF Thread, ThreadType, Fns, Pcs
<1>4. /\ g.current = Main /\ g.zombie = None /\ g.runQueue = QueueInit /\ g.numBlocked = 0
      /\ g.threads = [t \in Tids |-> IF t = Main THEN e ELSE None]
      /\ g.semas = [x \in Semas |-> Released] /\ g.exit = None
      /\ g = [current |-> g.current, zombie |-> g.zombie, runQueue |-> g.runQueue,
              numBlocked |-> g.numBlocked, threads |-> g.threads, semas |-> g.semas, exit |-> g.exit]
  BY <1>1, <1>2
<1>5. \A t \in Tids : g.threads[t] = IF t = Main THEN e ELSE None
  BY <1>4
<1>6. Good(QueueInit) /\ In(QueueInit) = {} /\ QueueInit \in QueueType
  BY GoodInit, QueueTypes
<1>7. /\ \A x \in Semas : g.semas[x] \in SemaType /\ Good(g.semas[x].blocked) /\ BlockedIn(g.semas, x) = {}
      /\ AllBlocked(g.semas) = {} /\ Cardinality(AllBlocked(g.semas)) = 0
  <2>1. PICK counts \in [Semas -> Nat] : counts = [x \in Semas |-> 0]
    OBVIOUS
  <2>2. PICK S : S = g.semas
    OBVIOUS
  <2>3. \A x \in Semas : S[x] = [count |-> counts[x], blocked |-> QueueInit]
    BY <1>4, <2>1, <2>2 DEF Released
  <2>4. /\ \A x \in Semas : S[x] \in SemaType /\ Good(S[x].blocked) /\ BlockedIn(S, x) = {}
        /\ AllBlocked(S) = {} /\ Cardinality(AllBlocked(S)) = 0
    BY <2>3, InitSemas
  <2> QED
    BY <2>2, <2>4
<1>8. g.semas \in [Semas -> SemaType]
  BY <1>4, <1>7
<1>9. g.threads \in [Tids -> ThreadType \cup {None}]
  BY <1>3, <1>4
<1>10. g \in Globals
  BY <1>4, <1>6, <1>8, <1>9, TidsFinite DEF Globals
<1>11. Places(g.threads, g.runQueue, g.semas, g.numBlocked, {g.current})
  BY <1>3, <1>4, <1>5, <1>6, <1>7, NoThread DEF Places
<1>12. Steady(g)
  BY <1>4, <1>6, <1>7, <1>10, <1>11 DEF Steady, InPlace, Runs
<1>13. Control(g)
  BY <1>3, <1>4, <1>5, <1>6, <1>7 DEF Control
<1>14. TestInv
  <2>1. PICK group \in Groups : test = [left |-> group, makes |-> <<>>, expected |-> 0]
    BY DEF Init
  <2>2. group \in Seq(Test)
    BY GroupAssumption
  <2> QED
    BY <2>1, <2>2, Zenon DEF TestInv
<1> QED
  BY <1>12, <1>13, <1>14 DEF PlacesInv

LEMMA CallIs ==
  ASSUME Steady(g), CallSema
  PROVE  LET c == Code[Me.fn][Me.pc]
         IN  /\ Me.fn \in DOMAIN Code /\ Me.pc \in DOMAIN Code[Me.fn] /\ CallOK(c) /\ Me.fn # "main"
             /\ \/ g'.exit # None
                \/ /\ Steady(g') /\ Stepped(g, g', {}, c.next, Me.n)
                   /\ IF c.op = "dec" THEN Took(g, g', c.sema) ELSE Gave(g, g', c.sema)
<1>0. PICK c : c = Code[Me.fn][Me.pc]
  OBVIOUS
<1>1. /\ Me.fn \in DOMAIN Code /\ Me.pc \in DOMAIN Code[Me.fn]
      /\ g' = IF c.op = "dec" THEN SemaDec(Goto(c.next), c.sema) ELSE SemaInc(Goto(c.next), c.sema)
  BY <1>0 DEF CallSema
<1>2. Me.fn # "main" /\ CallOK(c)
  BY <1>0, <1>1, CodeIs
<1>3. PICK x, pc, h : x = c.sema /\ pc = c.next /\ h = Goto(pc)
  OBVIOUS
<1>4. x \in Semas /\ pc \in Pcs
  BY <1>2, <1>3 DEF CallOK
<1>5. Moved(g, h, Me.fn, pc, Me.n)
  BY <1>3, <1>4, GotoIs
<1>6. CASE c.op = "dec"
  <2>1. g' = SemaDec(h, x)
    BY <1>1, <1>3, <1>6
  <2>2. g'.exit # None \/ (Steady(g') /\ Stepped(g, g', {}, pc, Me.n) /\ Took(g, g', x))
    BY <1>4, <1>5, <2>1, DecStep
  <2> QED
    BY <1>0, <1>1, <1>2, <1>3, <1>6, <2>2
<1>7. CASE c.op # "dec"
  <2>1. g' = SemaInc(h, x)
    BY <1>1, <1>3, <1>7
  <2>2. Steady(g') /\ Stepped(g, g', {}, pc, Me.n) /\ Gave(g, g', x)
    BY <1>4, <1>5, <2>1, IncStep
  <2> QED
    BY <1>0, <1>1, <1>2, <1>3, <1>7, <2>2
<1> QED
  BY <1>6, <1>7

\* The steps between two semaphores end with an increment.
LEMMA GiveIs ==
  ASSUME Steady(g), NEW pc \in Pcs, NEW x \in Semas,
         g' = SemaInc(Goto(pc), x) \/ g' = SemaInc(Count(pc), x)
  PROVE  /\ Steady(g') /\ Gave(g, g', x) /\ g'.current = g.current
         /\ \E n : Stepped(g, g', {}, pc, n)
<1>1. PICK h, n : Moved(g, h, Me.fn, pc, n) /\ g' = SemaInc(h, x)
  <2>1. Moved(g, Goto(pc), Me.fn, pc, Me.n) /\ Moved(g, Count(pc), Me.fn, pc, Me.n + 1)
    BY GotoIs, CountIs
  <2> QED
    BY <2>1
<1> QED
  BY <1>1, IncStep

LEMMA MeIs ==
  ASSUME Steady(g), Control(g)
  PROVE  /\ g.current \in Tids /\ Me # None /\ Me \in ThreadType
         /\ Me.fn = "main" => g.current = Main /\ Me.pc \in {"begin", "make"}
<1>1. g.current \in Tids /\ Me # None /\ Me \in ThreadType
  BY CurrentIs DEF Me
<1> QED
  BY <1>1 DEF Control, Me

\* A step that leaves every thread but the current one where it is.
LEMMA SteppedInv ==
  ASSUME Steady(g), Control(g), TestInv, UNCHANGED test, NEW D, NEW pc, NEW n,
         g'.exit # None \/ (Steady(g') /\ Stepped(g, g', D, pc, n)),
         Me.fn # "main" \/ (pc = "make" /\ Me.pc = "make")
  PROVE  PlacesInv' /\ TestInv'
<1>1. TestInv'
  BY DEF TestInv
<1>2. PICK u : u = g'
  OBVIOUS
<1>3. CASE Steady(u) /\ Stepped(g, u, D, pc, n)
  <2>1. Control(u)
    BY <1>3, SteppedControl
  <2> QED
    BY <1>1, <1>2, <1>3, <2>1 DEF PlacesInv
<1>4. CASE g'.exit # None
  BY <1>1, <1>4 DEF PlacesInv
<1> QED
  BY <1>2, <1>3, <1>4

LEMMA CallPlaces ==
  ASSUME Steady(g), Control(g), TestInv, CallSema
  PROVE  PlacesInv' /\ TestInv'
<1>1. PICK c : c = Code[Me.fn][Me.pc]
  OBVIOUS
<1>2. /\ Me.fn # "main"
      /\ g'.exit # None \/ (Steady(g') /\ Stepped(g, g', {}, c.next, Me.n))
  BY <1>1, CallIs
<1>3. UNCHANGED test
  BY DEF CallSema
<1> QED
  BY <1>2, <1>3, SteppedInv

LEMMA GivePlaces ==
  ASSUME Steady(g), Control(g), TestInv, Put \/ Get \/ Cut \/ Look
  PROVE  PlacesInv' /\ TestInv'
<1>1. PICK pc \in Pcs, x \in Semas : g' = SemaInc(Goto(pc), x) \/ g' = SemaInc(Count(pc), x)
  <2>1. CASE Put
    <3>1. "full" \in Pcs /\ "lock" \in Semas
      BY DEF Pcs, Semas
    <3> QED
      BY <2>1, <3>1 DEF Put
  <2>2. CASE Get
    <3>1. "empty" \in Pcs /\ "lock" \in Semas
      BY DEF Pcs, Semas
    <3> QED
      BY <2>2, <3>1 DEF Get
  <2>3. CASE Cut
    <3>1. "ready" \in Pcs /\ "seats" \in Semas
      BY DEF Pcs, Semas
    <3> QED
      BY <2>3, <3>1 DEF Cut
  <2>4. CASE Look
    <3>1. "wait" \in Pcs /\ "return" \in Pcs /\ "seats" \in Semas
      BY DEF Pcs, Semas
    <3> QED
      BY <2>4, <3>1 DEF Look
  <2> QED
    BY <2>1, <2>2, <2>3, <2>4
<1>2. PICK n : Steady(g') /\ Stepped(g, g', {}, pc, n)
  BY <1>1, GiveIs
<1>3. UNCHANGED test /\ Me.pc \in {"put", "get", "cut", "look"}
  BY DEF Put, Get, Cut, Look, At
<1>4. Me.fn # "main"
  BY <1>3, MeIs
<1> QED
  BY <1>2, <1>3, <1>4, SteppedInv

LEMMA ReturnPlaces ==
  ASSUME Steady(g), Control(g), TestInv, Return
  PROVE  PlacesInv' /\ TestInv'
<1>1. g' = ThreadExit(g) /\ UNCHANGED test
  BY DEF Return
<1>2. g'.exit # None \/ (Steady(g') /\ Same(g, g', {g.current}))
  BY <1>1, ExitIs
<1>3. g'.exit # None \/ (Steady(g') /\ Stepped(g, g', {g.current}, Me.pc, Me.n))
  <2>1. PICK u : u = g'
    OBVIOUS
  <2>2. Same(g, u, {g.current}) => Stepped(g, u, {g.current}, Me.pc, Me.n)
    BY SameStepped DEF Me
  <2> QED
    BY <1>2, <2>1, <2>2
<1>4. Me.fn # "main"
  BY MeIs DEF Return, At, On, Served
<1> QED
  BY <1>1, <1>3, <1>4, SteppedInv

LEMMA YieldPlaces ==
  ASSUME Steady(g), Control(g), TestInv, YieldMain
  PROVE  PlacesInv' /\ TestInv'
<1>1. g' = ThreadYield(g) /\ UNCHANGED test /\ Me.pc = "make"
  BY DEF YieldMain, At
<1>2. PICK u : u = g'
  OBVIOUS
<1>3. u.exit # None \/ (Steady(u) /\ Same(g, u, {}))
  BY <1>1, <1>2, YieldRuns DEF Done
<1>4. Same(g, u, {}) => Stepped(g, u, {}, Me.pc, Me.n)
  BY SameStepped DEF Me
<1>5. g'.exit # None \/ (Steady(g') /\ Stepped(g, g', {}, Me.pc, Me.n))
  BY <1>2, <1>3, <1>4
<1> QED
  BY <1>1, <1>5, SteppedInv

\* A thread is made from a function of a thread.
LEMMA CreateControl ==
  ASSUME NEW h, Steady(h), Control(h), Free(h) # {}, NEW fn \in Fns, fn # "main", NEW pc \in Pcs,
         h.threads[h.current].fn # "main" \/ h.threads[h.current].pc = "make"
  PROVE  Steady(ThreadCreate(h, fn, pc)) /\ Control(ThreadCreate(h, fn, pc))
<1>1. PICK u : u = ThreadCreate(h, fn, pc)
  OBVIOUS
<1>2. /\ Steady(u) /\ u.threads[u.current] = Thread("RUNNING", fn, pc)
      /\ \A t \in Tids \ {u.current} :
           /\ u.threads[t] # None <=> h.threads[t] # None
           /\ u.threads[t] # None =>
                /\ u.threads[t].fn = h.threads[t].fn /\ u.threads[t].pc = h.threads[t].pc
                /\ u.threads[t].n = h.threads[t].n
  BY <1>1, CreateIs
<1>3. u.threads[u.current].fn # "main"
  BY <1>2 DEF Thread
<1>4. ASSUME NEW t \in Tids, u.threads[t] # None, u.threads[t].fn = "main"
      PROVE  h.threads[t] # None /\ h.threads[t].fn = "main" /\ h.threads[t].pc = u.threads[t].pc
  BY <1>2, <1>3, <1>4
<1>5. \A t \in Tids : u.threads[t] # None /\ u.threads[t].fn = "main" =>
        t = Main /\ u.threads[t].pc \in {"begin", "make"}
  BY <1>4 DEF Control
<1>6. ~(u.threads[Main] # None /\ u.threads[Main].fn = "main" /\ u.threads[Main].pc = "begin")
  BY <1>4, TidsFinite DEF Control
<1> QED
  BY <1>1, <1>2, <1>5, <1>6 DEF Control

LEMMA TestMade ==
  ASSUME TestInv, NEW fn, Create(fn)
  PROVE  TestInv'
<1>1. PICK left \in Seq(Test) :
        \E makes, expected : test = [left |-> left, makes |-> makes, expected |-> expected]
  BY DEF TestInv
<1>2. PICK makes, expected : test = [left |-> left, makes |-> makes, expected |-> expected]
  BY <1>1
<1>3. test' = [left |-> left, makes |-> [makes EXCEPT ![fn] = @ - 1], expected |-> expected]
  BY <1>2 DEF Create
<1> QED
  BY <1>3 DEF TestInv

LEMMA MakePlaces ==
  ASSUME Steady(g), Control(g), TestInv, Make
  PROVE  PlacesInv' /\ TestInv'
<1>1. PICK fn \in DOMAIN Code : Create(fn) /\ g' = ThreadCreate(g, fn, "begin")
  BY DEF Make
<1>2. fn \in Fns /\ fn # "main"
  BY DEF Code, Fns
<1>3. PICK pc \in Pcs : pc = "begin"
  BY DEF Pcs
<1>4. g.threads[g.current].pc = "make" /\ Free(g) # {}
  BY <1>1 DEF Make, At, Me, Create
<1>5. Steady(g') /\ Control(g')
  BY <1>1, <1>2, <1>3, <1>4, CreateControl
<1> QED
  BY <1>1, <1>5, TestMade DEF PlacesInv

LEMMA FinishPlaces ==
  ASSUME Steady(g), Control(g), TestInv, Finish
  PROVE  PlacesInv' /\ TestInv'
<1>1. g' = ThreadExit(g) /\ UNCHANGED test /\ Me.fn = "main" /\ Me.pc = "begin"
  BY DEF Finish, On, At
<1>2. g.current = Main /\ Me # None /\ InPlace(g, {g.current})
  BY <1>1, MeIs DEF Steady
<1>3. In(g.runQueue) = {}
  BY <1>1, <1>2 DEF Control, Me
<1>4. QueueEmpty(g.runQueue) /\ g \in Globals
  BY <1>2, <1>3, InPlaceParts DEF InPlace
<1>5. g'.exit \in {0, 1}
  <2>1. PICK n \in {0, 1} : g' = [g EXCEPT !.exit = n]
    BY <1>1, <1>4 DEF ThreadExit
  <2> QED
    BY <1>4, <2>1 DEF Globals
<1>6. g'.exit # None
  BY <1>5, NoneAssumption
<1> QED
  BY <1>1, <1>6 DEF PlacesInv, TestInv

LEMMA AnyPlaces ==
  ASSUME Steady(g), Control(g), TestInv, AnyCall
  PROVE  PlacesInv' /\ TestInv'
<1>1. PICK h, n : h = Count("any") /\ n = Me.n + 1
  OBVIOUS
<1>2. PICK pc \in Pcs, fn \in Fns : pc = "any" /\ fn = "any"
  BY DEF Pcs, Fns
<1>3. Me.fn = "any"
  BY DEF AnyCall, On
<1>4. Moved(g, h, Me.fn, pc, n)
  BY <1>1, <1>2, CountIs
<1>5. Steady(h) /\ h.current = g.current /\ h.threads[h.current].fn = "any"
  BY <1>3, <1>4 DEF Moved
<1>6. g.threads[g.current] # None
  BY MeIs DEF Me
<1>7. CASE Create("any") /\ g' = ThreadCreate(h, fn, pc)
  <2>1. Stepped(g, h, {}, pc, n)
    <3>1. Same(h, h, {})
      BY DEF Same
    <3> QED
      BY <1>4, <1>6, <3>1, MovedSame DEF Me
  <2>2. Control(h)
    BY <1>3, <2>1, SteppedControl
  <2>3. Free(h) # {}
    <3>1. PICK t \in Tids : g.threads[t] = None
      BY <1>7 DEF Create, Free
    <3>2. h.threads[t] = None
      BY <2>1, <3>1 DEF Stepped
    <3> QED
      BY <3>2 DEF Free
  <2>4. Steady(g') /\ Control(g')
    BY <1>2, <1>5, <1>7, <2>2, <2>3, CreateControl
  <2>5. TestInv'
    BY <1>7, TestMade
  <2> QED
    BY <2>4, <2>5 DEF PlacesInv
<1>8. CASE UNCHANGED test /\ g' = ThreadYield(h)
  <2>1. PICK u : u = g'
    OBVIOUS
  <2>2. u.exit # None \/ (Steady(u) /\ Same(h, u, {}))
    BY <1>5, <1>8, <2>1, YieldRuns DEF Done
  <2>3. Same(h, u, {}) => Stepped(g, u, {}, pc, n)
    BY <1>4, <1>6, MovedSame DEF Me
  <2>4. g'.exit # None \/ (Steady(g') /\ Stepped(g, g', {}, pc, n))
    BY <2>1, <2>2, <2>3
  <2> QED
    BY <1>3, <1>8, <2>4, SteppedInv
<1>9. CASE UNCHANGED test /\ \E x \in {"lock", "full"} : g' = SemaDec(h, x)
  <2>1. PICK x \in Semas : g' = SemaDec(h, x)
    BY <1>9 DEF Semas
  <2>2. g'.exit # None \/ (Steady(g') /\ Stepped(g, g', {}, pc, n))
    BY <1>4, <2>1, DecStep
  <2> QED
    BY <1>3, <1>9, <2>2, SteppedInv
<1>10. CASE UNCHANGED test /\ \E x \in {"lock", "full"} : g' = SemaInc(h, x)
  <2>1. PICK x \in Semas : g' = SemaInc(h, x)
    BY <1>10 DEF Semas
  <2>2. Steady(g') /\ Stepped(g, g', {}, pc, n)
    BY <1>4, <2>1, IncStep
  <2> QED
    BY <1>3, <1>10, <2>2, SteppedInv
<1> QED
  BY <1>1, <1>2, <1>7, <1>8, <1>9, <1>10 DEF AnyCall

\* What a test sets its semaphores to.
LEMMA InitialIs ==
  ASSUME NEW kind \in {"slots", "barber", "any"}
  PROVE  DOMAIN Initial(kind) \subseteq Semas /\ \A x \in DOMAIN Initial(kind) : Initial(kind)[x] \in Nat
<1>1. CASE kind = "slots"
  <2>1. Initial(kind) = [lock |-> 1, full |-> 0, empty |-> NSLOTS]
    BY <1>1 DEF Initial
  <2> QED
    BY <2>1, SlotsAssumption DEF Semas
<1>2. CASE kind = "barber"
  <2>1. Initial(kind) = [ready |-> 1, waiting |-> 0, seats |-> 1]
    BY <1>2 DEF Initial
  <2> QED
    BY <2>1 DEF Semas
<1>3. CASE kind = "any"
  <2>1. Initial(kind) = [lock |-> 1, full |-> 0]
    BY <1>3 DEF Initial
  <2> QED
    BY <2>1 DEF Semas
<1> QED
  BY <1>1, <1>2, <1>3

\* Semaphores where some are initialized while nothing is blocked.
Ready(h, counts) ==
  [h EXCEPT !.semas = [x \in Semas |->
     IF x \in DOMAIN counts THEN [count |-> counts[x], blocked |-> QueueInit] ELSE @[x]]]

LEMMA ReadyIs ==
  ASSUME NEW h, Steady(h), In(h.runQueue) = {}, AllBlocked(h.semas) = {},
         NEW counts, \A x \in Semas \cap DOMAIN counts : counts[x] \in Nat
  PROVE  LET u == Ready(h, counts)
         IN  /\ Steady(u) /\ u.threads = h.threads /\ u.current = h.current
             /\ u.runQueue = h.runQueue /\ AllBlocked(u.semas) = {}
             /\ \A x \in Semas : u.semas[x].count = IF x \in DOMAIN counts THEN counts[x]
                                                    ELSE h.semas[x].count
<1>1. PICK S : S = [x \in Semas |-> IF x \in DOMAIN counts
                                    THEN [count |-> counts[x], blocked |-> QueueInit] ELSE h.semas[x]]
  OBVIOUS
<1>2. PICK u : u = Ready(h, counts)
  OBVIOUS
<1>3. /\ InPlace(h, {h.current}) /\ h \in Globals /\ h.zombie = None /\ h.exit = None
      /\ Places(h.threads, h.runQueue, h.semas, h.numBlocked, {h.current})
  BY DEF Steady, InPlace
<1>4. Good(QueueInit) /\ In(QueueInit) = {} /\ QueueInit \in QueueType
  BY GoodInit, QueueTypes
<1>5. ASSUME NEW x \in Semas
      PROVE  /\ S[x] \in SemaType /\ Good(S[x].blocked) /\ BlockedIn(S, x) = {}
             /\ S[x].count = IF x \in DOMAIN counts THEN counts[x] ELSE h.semas[x].count
  <2>1. CASE x \in DOMAIN counts
    <3>1. PICK n \in Nat, q \in QueueType : n = counts[x] /\ q = QueueInit
      BY <1>4, <2>1
    <3>2. S[x] = [count |-> n, blocked |-> q]
      BY <1>1, <2>1, <3>1
    <3>3. S[x] \in SemaType /\ S[x].count = n /\ S[x].blocked = q
      BY <3>2 DEF SemaType
    <3> QED
      BY <1>4, <2>1, <3>1, <3>3 DEF BlockedIn
  <2>2. CASE x \notin DOMAIN counts
    <3>1. S[x] = h.semas[x]
      BY <1>1, <2>2
    <3>2. BlockedIn(h.semas, x) = {}
      BY DEF AllBlocked
    <3>3. h.semas[x] \in SemaType /\ Good(h.semas[x].blocked)
      BY <1>3 DEF Globals, Places
    <3> QED
      BY <2>2, <3>1, <3>2, <3>3 DEF BlockedIn
  <2> QED
    BY <2>1, <2>2
<1>6. S \in [Semas -> SemaType]
  BY <1>1, <1>5
<1>7. AllBlocked(S) = {}
  BY <1>5 DEF AllBlocked
<1>8. u = [h EXCEPT !.semas = S]
  BY <1>1, <1>2 DEF Ready
<1>9. /\ u \in Globals /\ u.threads = h.threads /\ u.runQueue = h.runQueue /\ u.current = h.current
      /\ u.semas = S /\ u.numBlocked = h.numBlocked /\ u.zombie = h.zombie /\ u.exit = h.exit
  BY <1>3, <1>6, <1>8 DEF Globals
<1>10. Places(h.threads, h.runQueue, S, h.numBlocked, {h.current})
  BY <1>3, <1>5, <1>7 DEF Places
<1>11. Steady(u)
  BY <1>3, <1>7, <1>9, <1>10 DEF Steady, InPlace, Runs
<1> QED
  BY <1>2, <1>5, <1>7, <1>9, <1>11

LEMMA BeginPlaces ==
  ASSUME Steady(g), Control(g), TestInv, BeginTest
  PROVE  PlacesInv' /\ TestInv'
<1>1. Me.fn = "main" /\ Me.pc = "begin" /\ test.left # <<>>
  BY DEF BeginTest, On, At
<1>2. g.current = Main /\ In(g.runQueue) = {} /\ AllBlocked(g.semas) = {}
  BY <1>1, MeIs DEF Control, Me
<1>3. PICK t : t = Head(test.left)
  OBVIOUS
<1>4. test.left \in Seq(Test)
  BY DEF TestInv
<1>5. t \in Test /\ Tail(test.left) \in Seq(Test)
  BY <1>1, <1>3, <1>4
<1>6. t.kind \in {"slots", "barber", "any"}
  BY <1>5 DEF Test
<1>7. PICK counts : counts = Initial(t.kind)
  OBVIOUS
<1>8. \A x \in Semas \cap DOMAIN counts : counts[x] \in Nat
  BY <1>6, <1>7, InitialIs
<1>9. PICK ready : ready = Ready(g, counts)
  OBVIOUS
<1>10. Steady(ready) /\ ready.current = Main /\ ready.threads = g.threads
  BY <1>2, <1>8, <1>9, ReadyIs
<1>11. /\ test' = [left |-> Tail(test.left), makes |-> t.makes, expected |-> Remaining(t)]
       /\ g' = IF t.kind = "any" THEN ToMain(ready, "any", "any") ELSE ToMain(ready, "main", "make")
  BY <1>3, <1>7, <1>9 DEF BeginTest, Ready
<1>12. TestInv'
  BY <1>5, <1>11 DEF TestInv
<1>13. PICK fn \in Fns, pc \in Pcs :
         (fn = "any" \/ (fn = "main" /\ pc = "make")) /\ g' = ToMain(ready, fn, pc)
  BY <1>11 DEF Fns, Pcs
<1>14. Moved(ready, g', fn, pc, ready.threads[Main].n)
  BY <1>10, <1>13, ToMainIs
<1>15. /\ Steady(g') /\ g'.threads[Main].fn = fn /\ g'.threads[Main].pc = pc
       /\ \A c \in Tids \ {Main} : g'.threads[c] = g.threads[c]
  BY <1>10, <1>14 DEF Moved
<1>16. PICK u : u = g'
  OBVIOUS
<1>17. /\ u.threads[Main].fn = fn /\ u.threads[Main].pc = pc
       /\ \A c \in Tids \ {Main} : u.threads[c] = g.threads[c]
  BY <1>15, <1>16
<1>18. Control(u)
  BY <1>13, <1>17 DEF Control
<1> QED
  BY <1>12, <1>15, <1>16, <1>18 DEF PlacesInv

LEMMA EndPlaces ==
  ASSUME Steady(g), Control(g), TestInv, EndTest
  PROVE  PlacesInv' /\ TestInv'
<1>1. Me.fn = "main" /\ QueueSize(g.runQueue) = 0 /\ UNCHANGED test
  BY DEF EndTest, On
<1>2. g.current = Main /\ In(g.runQueue) = {} /\ g \in Globals
  <2>1. g.current = Main /\ InPlace(g, {g.current})
    BY <1>1, MeIs DEF Steady
  <2> QED
    BY <1>1, <2>1, InPlaceParts DEF InPlace
<1>3. TestInv'
  BY <1>1 DEF TestInv
<1>4. CASE g' = [g EXCEPT !.exit = 1]
  <2>1. g'.exit = 1
    BY <1>2, <1>4 DEF Globals
  <2> QED
    BY <1>3, <2>1, NoneAssumption DEF PlacesInv
<1>5. CASE g' = ReleaseAll(ToMain(g, "main", "begin"))
  <2>1. PICK fn \in Fns, pc \in Pcs : fn = "main" /\ pc = "begin"
    BY DEF Fns, Pcs
  <2>2. PICK h, u : h = ToMain(g, fn, pc) /\ u = ReleaseAll(h)
    OBVIOUS
  <2>3. Moved(g, h, fn, pc, g.threads[Main].n)
    BY <1>2, <2>2, ToMainIs
  <2>4. /\ InPlace(h, {h.current}) /\ h.zombie = None /\ h.exit = None /\ h.current = Main
        /\ h.runQueue = g.runQueue /\ \A c \in Tids \ {Main} : h.threads[c] = g.threads[c]
    BY <1>2, <2>3 DEF Moved, Steady
  <2>5. Freed(h, u, {h.current}, Semas) /\ AllBlocked(u.semas) = {}
    BY <2>2, <2>4, ReleaseAllIs
  <2>6. Steady(u)
    BY <1>2, <2>4, <2>5 DEF Freed, Steady, Runs
  <2>7. ASSUME NEW t \in Tids \ {Main}, u.threads[t] # None PROVE u.threads[t].fn # "main"
    <3>1. u.threads[t] = g.threads[t]
      BY <2>4, <2>5, <2>7 DEF Freed
    <3> QED
      BY <2>7, <3>1 DEF Control
  <2>8. u.threads[Main].pc = "begin"
    <3>1. h.threads[Main].pc = pc
      BY <1>2, <2>3 DEF Moved
    <3>2. u.threads[Main] = h.threads[Main]
      BY <2>4, <2>5, TidsFinite DEF Freed
    <3> QED
      BY <2>1, <3>1, <3>2
  <2>9. Control(u)
    BY <1>2, <2>4, <2>5, <2>7, <2>8 DEF Control, Freed
  <2>10. u = g'
    BY <1>5, <2>1, <2>2
  <2> QED
    BY <1>3, <2>6, <2>9, <2>10 DEF PlacesInv
<1> QED
  BY <1>4, <1>5 DEF EndTest

LEMMA NextPlaces == TestInv /\ PlacesInv /\ [Next]_vars => PlacesInv' /\ TestInv'
<1> SUFFICES ASSUME TestInv, PlacesInv, [Next]_vars PROVE PlacesInv' /\ TestInv'
  OBVIOUS
<1>1. CASE UNCHANGED vars
  <2>1. g' = g /\ test' = test
    BY <1>1 DEF vars
  <2>2. PlacesInv'
    BY <2>1 DEF PlacesInv
  <2> QED
    BY <2>1, <2>2 DEF TestInv
<1>2. CASE Next
  <2>1. g.exit = None
    BY <1>2 DEF Next, CallSema, Put, Get, Cut, Look, Return, Served, AnyCall, BeginTest, Make,
                YieldMain, EndTest, Finish, On, At
  <2>2. Steady(g) /\ Control(g)
    BY <2>1 DEF PlacesInv
  <2>3. CASE CallSema
    BY <2>2, <2>3, CallPlaces
  <2>4. CASE Put \/ Get \/ Cut \/ Look
    BY <2>2, <2>4, GivePlaces
  <2>5. CASE Return
    BY <2>2, <2>5, ReturnPlaces
  <2>6. CASE AnyCall
    BY <2>2, <2>6, AnyPlaces
  <2>7. CASE BeginTest
    BY <2>2, <2>7, BeginPlaces
  <2>8. CASE Make
    BY <2>2, <2>8, MakePlaces
  <2>9. CASE YieldMain
    BY <2>2, <2>9, YieldPlaces
  <2>10. CASE EndTest
    BY <2>2, <2>10, EndPlaces
  <2>11. CASE Finish
    BY <2>2, <2>11, FinishPlaces
  <2> QED
    BY <1>2, <2>3, <2>4, <2>5, <2>6, <2>7, <2>8, <2>9, <2>10, <2>11 DEF Next
<1> QED
  BY <1>1, <1>2

\* The invariant of the threads: as long as the process runs, each thread is in hand
\* of the processor, in the run queue or on one semaphore, whatever the tests do.
THEOREM PlacesInvCorrect == Spec => [](PlacesInv /\ TestInv)
<1>1. Init => PlacesInv /\ TestInv
  BY InitPlaces
<1>2. (PlacesInv /\ TestInv) /\ [Next]_vars => (PlacesInv /\ TestInv)'
  BY NextPlaces
<1> QED
  BY <1>1, <1>2, PTL DEF Spec

LEMMA PlacedIs == PlacesInv => ThreadsPlaced
<1> SUFFICES ASSUME PlacesInv, g.exit = None
    PROVE  /\ \A q \in Queues : QueueOK(q) /\ IsInjective(Items(q))
           /\ g.zombie = None
           /\ \A t \in Tids :
                LET places == {x \in Semas : t \in Blocked(x)}
                    queued == t \in Range(Items(g.runQueue))
                IN /\ (g.threads[t] # None) <=> (t = g.current \/ queued \/ places # {})
                   /\ t = g.current => ~queued /\ places = {}
                   /\ queued => places = {} /\ g.threads[t].status = "RUNNABLE"
                   /\ places # {} => Cardinality(places) = 1 /\ g.threads[t].status = "BLOCKED"
           /\ g.numBlocked = Cardinality(UNION {Blocked(x) : x \in Semas})
  BY DEF ThreadsPlaced
<1>1. /\ Places(g.threads, g.runQueue, g.semas, g.numBlocked, {g.current}) /\ g.zombie = None
      /\ InPlace(g, {g.current})
  BY DEF PlacesInv, Steady, InPlace
<1>2. \A x : Blocked(x) = BlockedIn(g.semas, x)
  BY DEF Blocked, BlockedIn, In
<1>3. \A q \in Queues : QueueOK(q) /\ IsInjective(Items(q))
  <2>1. \A q \in Queues : Good(q)
    BY <1>1 DEF Queues, Places
  <2> QED
    BY <2>1, GoodIs DEF Good
<1>4. g.numBlocked = Cardinality(UNION {Blocked(x) : x \in Semas})
  <2>1. UNION {Blocked(x) : x \in Semas} = AllBlocked(g.semas)
    BY <1>2 DEF AllBlocked
  <2> QED
    BY <1>1, <2>1 DEF Places
<1>5. ASSUME NEW t \in Tids, NEW places, places = {x \in Semas : t \in Blocked(x)},
             NEW queued \in BOOLEAN, queued <=> t \in Range(Items(g.runQueue))
      PROVE  /\ (g.threads[t] # None) <=> (t = g.current \/ queued \/ places # {})
             /\ t = g.current => ~queued /\ places = {}
             /\ queued => places = {} /\ g.threads[t].status = "RUNNABLE"
             /\ places # {} => Cardinality(places) = 1 /\ g.threads[t].status = "BLOCKED"
  <2>1. queued <=> t \in In(g.runQueue)
    BY <1>5 DEF In
  <2>2. places = {x \in Semas : t \in BlockedIn(g.semas, x)}
    BY <1>2, <1>5
  <2>3. places # {} <=> t \in AllBlocked(g.semas)
    BY <2>2 DEF AllBlocked
  <2>4. \A x, y \in places : x = y
    BY <1>1, <2>2 DEF Places
  <2>5. places # {} => Cardinality(places) = 1
    <3>1. ASSUME NEW x \in places PROVE places = {x}
      BY <2>4
    <3> QED
      BY <3>1, FS_Singleton
  <2> QED
    BY <1>1, <2>1, <2>3, <2>5 DEF Places
<1>6. \A t \in Tids :
        LET places == {x \in Semas : t \in Blocked(x)}
            queued == t \in Range(Items(g.runQueue))
        IN /\ (g.threads[t] # None) <=> (t = g.current \/ queued \/ places # {})
           /\ t = g.current => ~queued /\ places = {}
           /\ queued => places = {} /\ g.threads[t].status = "RUNNABLE"
           /\ places # {} => Cardinality(places) = 1 /\ g.threads[t].status = "BLOCKED"
  <2> SUFFICES ASSUME NEW t \in Tids
      PROVE  LET places == {x \in Semas : t \in Blocked(x)}
                 queued == t \in Range(Items(g.runQueue))
             IN /\ (g.threads[t] # None) <=> (t = g.current \/ queued \/ places # {})
                /\ t = g.current => ~queued /\ places = {}
                /\ queued => places = {} /\ g.threads[t].status = "RUNNABLE"
                /\ places # {} => Cardinality(places) = 1 /\ g.threads[t].status = "BLOCKED"
    OBVIOUS
  <2>1. PICK places : places = {x \in Semas : t \in Blocked(x)}
    OBVIOUS
  <2>2. PICK queued \in BOOLEAN : queued <=> t \in Range(Items(g.runQueue))
    OBVIOUS
  <2> QED
    BY <1>5, <2>1, <2>2
<1> QED
  BY <1>1, <1>3, <1>4, <1>6

\* No thread is ever lost or in two places, and num_blocked_threads counts those that
\* are blocked: for any tests, threads and semaphores, not only those that were run.
THEOREM ThreadsPlacedCorrect == Spec => []ThreadsPlaced
BY PlacesInvCorrect, PlacedIs, PTL

-----------------------------------------------------------------------------
(* What the tests share.  A thread owns a semaphore from the decrement that  *)
(* lets it go on to the increment that pays for it: of another semaphore,    *)
(* for those of slots and of customers.                                      *)

Owns(x, fn, pc) ==
  \/ x = "lock"    /\ pc \in {"put", "get"}
  \/ x = "empty"   /\ (pc = "empty" \/ (fn = "producer" /\ pc \in {"lock", "put"}))
  \/ x = "full"    /\ (pc = "full" \/ (fn = "consumer" /\ pc \in {"lock", "get"}))
  \/ x = "seats"   /\ pc \in {"look", "cut"}
  \/ x = "waiting" /\ pc \in {"wait", "seats", "cut"}

\* Where a thread that waits for a semaphore goes on.
Waits(x, fn, pc) ==
  \/ x = "lock"    /\ pc \in {"put", "get"}
  \/ x = "empty"   /\ fn = "producer" /\ pc = "lock"
  \/ x = "full"    /\ fn = "consumer" /\ pc = "lock"
  \/ x = "seats"   /\ pc \in {"look", "cut"}
  \/ x = "waiting" /\ pc = "seats"
  \/ x = "ready"   /\ pc = "return"

Points(fn, pc) ==
  \/ fn = "main"     /\ pc \in {"begin", "make"}
  \/ fn = "any"      /\ pc = "any"
  \/ fn = "producer" /\ pc \in {"begin", "lock", "put", "full"}
  \/ fn = "consumer" /\ pc \in {"begin", "lock", "get", "empty"}
  \/ fn = "barber"   /\ pc \in {"begin", "seats", "cut", "ready"}
  \/ fn = "customer" /\ pc \in {"begin", "look", "wait", "chair", "return"}

Owners(h, x) ==
  {t \in Tids : /\ h.threads[t] # None /\ t \notin BlockedIn(h.semas, x)
                /\ Owns(x, h.threads[t].fn, h.threads[t].pc)}
Level(h, x)   == h.semas[x].count + Cardinality(Owners(h, x))
Doing(h, fn)  == {t \in Tids : h.threads[t] # None /\ h.threads[t].fn = fn}

PointsOK(h, m) ==
  \A t \in Tids : h.threads[t] # None =>
    /\ Points(h.threads[t].fn, h.threads[t].pc)
    /\ h.threads[t].fn = "main" \/ h.threads[t].fn \in DOMAIN m
WaitsOK(h) ==
  \A x \in Semas : \A t \in BlockedIn(h.semas, x) :
    h.threads[t].fn = "any" \/ Waits(x, h.threads[t].fn, h.threads[t].pc)

\* A semaphore that a step does not call.
Spared(h, u, x) ==
  u.semas[x].count = h.semas[x].count /\ BlockedIn(u.semas, x) = BlockedIn(h.semas, x)

LEMMA OwnersFinite ==
  ASSUME NEW h, NEW x
  PROVE  IsFiniteSet(Owners(h, x)) /\ Cardinality(Owners(h, x)) \in Nat
BY TidsFinite, FS_Subset, FS_CardinalityType DEF Owners

LEMMA DoingFinite ==
  ASSUME NEW h, NEW fn
  PROVE  IsFiniteSet(Doing(h, fn)) /\ Cardinality(Doing(h, fn)) \in Nat
BY TidsFinite, FS_Subset, FS_CardinalityType DEF Doing

\* The semaphores of a steady process: no thread in hand is on one.
LEMMA SteadySemas ==
  ASSUME NEW h, Steady(h), NEW x \in Semas
  PROVE  /\ h.semas[x].count \in Nat /\ h.current \in Tids /\ h.threads[h.current] # None
         /\ h.current \notin BlockedIn(h.semas, x) /\ BlockedIn(h.semas, x) \subseteq Tids
         /\ \A t \in BlockedIn(h.semas, x) : h.threads[t] # None
         /\ h.semas[x].count = 0 \/ BlockedIn(h.semas, x) = {}
<1>1. h \in Globals /\ h.current \in Tids /\ h.threads[h.current] # None
  BY CurrentIs
<1>2. h.semas[x].count \in Nat
  BY <1>1 DEF Globals, SemaType
<1>3. Places(h.threads, h.runQueue, h.semas, h.numBlocked, {h.current}) /\ InPlace(h, {h.current})
  BY DEF Steady, InPlace
<1>4. AllBlocked(h.semas) \subseteq Tids
  BY <1>3, InPlaceParts
<1>5. BlockedIn(h.semas, x) \subseteq AllBlocked(h.semas)
  BY DEF AllBlocked
<1>6. \A t \in AllBlocked(h.semas) : t \notin {h.current}
  BY <1>3 DEF Places
<1>7. \A t \in AllBlocked(h.semas) : h.threads[t] # None
  BY <1>3, <1>4 DEF Places
<1>8. h.semas[x].count = 0 \/ BlockedIn(h.semas, x) = {}
  BY <1>3 DEF Places
<1> QED
  BY <1>1, <1>2, <1>4, <1>5, <1>6, <1>7, <1>8

\* Who owns a semaphore after a step of the current thread.
LEMMA OwnersStep ==
  ASSUME NEW h, NEW u, NEW D, NEW pc, NEW n, Stepped(h, u, D, pc, n), NEW x, NEW t \in Tids,
         t \notin D
  PROVE  /\ t # h.current /\ (t \in BlockedIn(u.semas, x) <=> t \in BlockedIn(h.semas, x)) =>
              (t \in Owners(u, x) <=> t \in Owners(h, x))
         /\ t = h.current /\ h.threads[t] # None =>
              (t \in Owners(u, x) <=> t \notin BlockedIn(u.semas, x) /\ Owns(x, h.threads[t].fn, pc))
BY DEF Stepped, Owners

\* A semaphore that the current thread owns after the step if it did before.
LEMMA KeptLevel ==
  ASSUME NEW h, Steady(h), NEW u, NEW pc, NEW n, Stepped(h, u, {}, pc, n), NEW x \in Semas,
         Spared(h, u, x),
         Owns(x, h.threads[h.current].fn, h.threads[h.current].pc)
           <=> Owns(x, h.threads[h.current].fn, pc)
  PROVE  Level(u, x) = Level(h, x)
<1>1. h.current \in Tids /\ h.threads[h.current] # None /\ h.current \notin BlockedIn(h.semas, x)
  BY SteadySemas
<1>2. \A t \in Tids : t \in Owners(u, x) <=> t \in Owners(h, x)
  <2> SUFFICES ASSUME NEW t \in Tids PROVE t \in Owners(u, x) <=> t \in Owners(h, x)
    OBVIOUS
  <2>1. CASE t = h.current
    <3>1. t \in Owners(u, x) <=> t \notin BlockedIn(u.semas, x) /\ Owns(x, h.threads[t].fn, pc)
      BY <1>1, <2>1, OwnersStep
    <3>2. t \in Owners(h, x) <=> Owns(x, h.threads[t].fn, h.threads[t].pc)
      BY <1>1, <2>1 DEF Owners
    <3> QED
      BY <1>1, <2>1, <3>1, <3>2 DEF Spared
  <2>2. CASE t # h.current
    BY <2>2, OwnersStep DEF Spared
  <2> QED
    BY <2>1, <2>2
<1>3. Owners(u, x) = Owners(h, x)
  BY <1>2 DEF Owners
<1> QED
  BY <1>3 DEF Level, Spared

\* The current thread comes to own a semaphore it has not called, or ceases to.
LEMMA EnterLevel ==
  ASSUME NEW h, Steady(h), NEW u, NEW pc, NEW n, Stepped(h, u, {}, pc, n), NEW x \in Semas,
         Spared(h, u, x),
         ~Owns(x, h.threads[h.current].fn, h.threads[h.current].pc),
         Owns(x, h.threads[h.current].fn, pc)
  PROVE  Level(u, x) = Level(h, x) + 1
<1>0. PICK c : c = h.current
  OBVIOUS
<1>1. /\ c \in Tids /\ h.threads[c] # None /\ c \notin BlockedIn(h.semas, x)
      /\ h.semas[x].count \in Nat
  BY <1>0, SteadySemas
<1>2. c \notin Owners(h, x)
  BY <1>0 DEF Owners
<1>3. c \in Owners(u, x)
  BY <1>0, <1>1, OwnersStep DEF Spared
<1>4. \A t \in Tids : t # c => (t \in Owners(u, x) <=> t \in Owners(h, x))
  BY <1>0, OwnersStep DEF Spared
<1>5. Owners(u, x) = Owners(h, x) \cup {c}
  BY <1>1, <1>3, <1>4 DEF Owners
<1>6. Cardinality(Owners(u, x)) = Cardinality(Owners(h, x)) + 1
  BY <1>2, <1>5, OwnersFinite, FS_AddElement
<1> QED
  BY <1>1, <1>6, OwnersFinite DEF Level, Spared

LEMMA LeaveLevel ==
  ASSUME NEW h, Steady(h), NEW u, NEW pc, NEW n, Stepped(h, u, {}, pc, n), NEW x \in Semas,
         Spared(h, u, x),
         Owns(x, h.threads[h.current].fn, h.threads[h.current].pc),
         ~Owns(x, h.threads[h.current].fn, pc)
  PROVE  Level(u, x) = Level(h, x) - 1
<1>0. PICK c : c = h.current
  OBVIOUS
<1>1. /\ c \in Tids /\ h.threads[c] # None /\ c \notin BlockedIn(h.semas, x)
      /\ h.semas[x].count \in Nat
  BY <1>0, SteadySemas
<1>2. c \in Owners(h, x)
  BY <1>0, <1>1 DEF Owners
<1>3. c \notin Owners(u, x)
  BY <1>0, <1>1, OwnersStep
<1>4. \A t \in Tids : t # c => (t \in Owners(u, x) <=> t \in Owners(h, x))
  BY <1>0, OwnersStep DEF Spared
<1>5. Owners(u, x) = Owners(h, x) \ {c}
  BY <1>1, <1>3, <1>4 DEF Owners
<1>6. Cardinality(Owners(u, x)) = Cardinality(Owners(h, x)) - 1
  BY <1>2, <1>5, OwnersFinite, FS_RemoveElement
<1> QED
  BY <1>1, <1>6, OwnersFinite DEF Level, Spared

\* A decrement, after which the current thread owns the semaphore or waits for it.
LEMMA TookLevel ==
  ASSUME NEW h, Steady(h), NEW u, NEW pc, NEW n, Stepped(h, u, {}, pc, n), NEW x \in Semas,
         Took(h, u, x),
         ~Owns(x, h.threads[h.current].fn, h.threads[h.current].pc),
         Owns(x, h.threads[h.current].fn, pc)
  PROVE  Level(u, x) = Level(h, x)
<1>0. PICK c : c = h.current
  OBVIOUS
<1>1. /\ c \in Tids /\ h.threads[c] # None /\ c \notin BlockedIn(h.semas, x)
      /\ h.semas[x].count \in Nat
  BY <1>0, SteadySemas
<1>2. c \notin Owners(h, x)
  BY <1>0 DEF Owners
<1>3. CASE /\ u.semas[x].count = h.semas[x].count - 1
           /\ BlockedIn(u.semas, x) = BlockedIn(h.semas, x)
  <2>1. c \in Owners(u, x)
    BY <1>0, <1>1, <1>3, OwnersStep
  <2>2. \A t \in Tids : t # c => (t \in Owners(u, x) <=> t \in Owners(h, x))
    BY <1>0, <1>3, OwnersStep
  <2>3. Owners(u, x) = Owners(h, x) \cup {c}
    BY <1>1, <2>1, <2>2 DEF Owners
  <2>4. Cardinality(Owners(u, x)) = Cardinality(Owners(h, x)) + 1
    BY <1>2, <2>3, OwnersFinite, FS_AddElement
  <2> QED
    BY <1>1, <1>3, <2>4, OwnersFinite DEF Level
<1>4. CASE /\ h.semas[x].count = 0 /\ u.semas[x].count = 0
           /\ BlockedIn(u.semas, x) = BlockedIn(h.semas, x) \cup {c}
  <2>1. c \notin Owners(u, x)
    BY <1>4 DEF Owners
  <2>2. \A t \in Tids : t # c => (t \in Owners(u, x) <=> t \in Owners(h, x))
    BY <1>0, <1>4, OwnersStep
  <2>3. Owners(u, x) = Owners(h, x)
    BY <1>2, <2>1, <2>2 DEF Owners
  <2> QED
    BY <1>4, <2>3 DEF Level
<1> QED
  BY <1>0, <1>3, <1>4 DEF Took

\* An increment by its owner: the count goes up, or the first that waits is the owner.
LEMMA GaveLevel ==
  ASSUME NEW h, Steady(h), NEW u, NEW pc, NEW n, Stepped(h, u, {}, pc, n), NEW x \in Semas,
         Gave(h, u, x),
         Owns(x, h.threads[h.current].fn, h.threads[h.current].pc),
         ~Owns(x, h.threads[h.current].fn, pc),
         \A t \in BlockedIn(h.semas, x) : Owns(x, h.threads[t].fn, h.threads[t].pc)
  PROVE  Level(u, x) = Level(h, x)
<1>0. PICK c : c = h.current
  OBVIOUS
<1>1. /\ c \in Tids /\ h.threads[c] # None /\ c \notin BlockedIn(h.semas, x)
      /\ h.semas[x].count \in Nat /\ BlockedIn(h.semas, x) \subseteq Tids
      /\ \A t \in BlockedIn(h.semas, x) : h.threads[t] # None
  BY <1>0, SteadySemas
<1>2. c \in Owners(h, x) /\ c \notin Owners(u, x)
  <2>1. c \in Owners(h, x)
    BY <1>0, <1>1 DEF Owners
  <2> QED
    BY <1>0, <1>1, <2>1, OwnersStep
<1>3. PICK A : A = Owners(h, x) \ {c}
  OBVIOUS
<1>4. IsFiniteSet(A) /\ Cardinality(A) = Cardinality(Owners(h, x)) - 1
  BY <1>2, <1>3, OwnersFinite, FS_RemoveElement
<1>5. CASE /\ u.semas[x].count = h.semas[x].count + 1
           /\ BlockedIn(h.semas, x) = {} /\ BlockedIn(u.semas, x) = {}
  <2>1. \A t \in Tids : t # c => (t \in Owners(u, x) <=> t \in Owners(h, x))
    BY <1>0, <1>5, OwnersStep
  <2>2. Owners(u, x) = A
    BY <1>2, <1>3, <2>1 DEF Owners
  <2> QED
    BY <1>1, <1>4, <1>5, <2>2, OwnersFinite DEF Level
<1>6. ASSUME NEW b \in BlockedIn(h.semas, x), h.semas[x].count = 0, u.semas[x].count = 0,
             BlockedIn(u.semas, x) = BlockedIn(h.semas, x) \ {b}
      PROVE  Level(u, x) = Level(h, x)
  <2>1. b \in Tids /\ b # c /\ b \notin Owners(h, x)
    BY <1>1 DEF Owners
  <2>2. b \in Owners(u, x)
    BY <1>0, <1>1, <1>6, <2>1 DEF Owners, Stepped
  <2>3. \A t \in Tids : t # c /\ t # b => (t \in Owners(u, x) <=> t \in Owners(h, x))
    BY <1>0, <1>6, OwnersStep
  <2>4. Owners(u, x) = A \cup {b}
    BY <1>2, <1>3, <2>1, <2>2, <2>3 DEF Owners
  <2>5. Cardinality(Owners(u, x)) = Cardinality(A) + 1
    BY <1>3, <1>4, <2>1, <2>4, FS_AddElement
  <2> QED
    BY <1>4, <1>6, <2>5, OwnersFinite DEF Level
<1> QED
  BY <1>5, <1>6 DEF Gave

-----------------------------------------------------------------------------
(* The ring.                                                                *)

SharedType ==
  [in : 0..NSLOTS - 1, out : 0..NSLOTS - 1, slots : [0..NSLOTS - 1 -> Tids \cup {None}],
   seats : 0..NSeats]

RingOK(c, r) ==
  /\ Len(r) <= NSLOTS /\ (c.out + Len(r)) % NSLOTS = c.in
  /\ \A i \in 1..Len(r) : c.slots[(c.out + i - 1) % NSLOTS] = r[i]

LEMMA ModIs ==
  ASSUME NEW k \in Nat, k < 2 * NSLOTS
  PROVE  k % NSLOTS = (IF k < NSLOTS THEN k ELSE k - NSLOTS) /\ k % NSLOTS \in 0..NSLOTS - 1
<1>1. NSLOTS \in Nat /\ NSLOTS > 0
  BY SlotsAssumption
<1>2. CASE k < NSLOTS
  BY <1>1, <1>2
<1>3. CASE k >= NSLOTS
  BY <1>1, <1>3
<1> QED
  BY <1>1, <1>2, <1>3

\* Slots one after another.
LEMMA WrapNext ==
  ASSUME NEW o \in 0..NSLOTS - 1, NEW n \in 0..NSLOTS
  PROVE  /\ (o + 1) % NSLOTS \in 0..NSLOTS - 1
         /\ (o + (n + 1)) % NSLOTS = (((o + n) % NSLOTS) + 1) % NSLOTS
         /\ (((o + 1) % NSLOTS) + n) % NSLOTS = (o + (n + 1)) % NSLOTS
<1>1. NSLOTS \in Nat /\ NSLOTS > 0
  BY SlotsAssumption
<1>2. PICK k \in Nat, m \in Nat, z \in Nat, j \in Nat, e \in Nat :
        /\ k = o + n /\ m = o + (n + 1) /\ z = o + 1
        /\ j = k % NSLOTS /\ e = z % NSLOTS
        /\ j = (IF k < NSLOTS THEN k ELSE k - NSLOTS)
        /\ e = (IF z < NSLOTS THEN z ELSE z - NSLOTS)
  <2>1. PICK k \in Nat, m \in Nat, z \in Nat : k = o + n /\ m = o + (n + 1) /\ z = o + 1
    BY <1>1
  <2>2. k < 2 * NSLOTS /\ z < 2 * NSLOTS
    BY <1>1, <2>1
  <2>3. /\ k % NSLOTS = IF k < NSLOTS THEN k ELSE k - NSLOTS
        /\ z % NSLOTS = IF z < NSLOTS THEN z ELSE z - NSLOTS
        /\ k % NSLOTS \in 0..NSLOTS - 1 /\ z % NSLOTS \in 0..NSLOTS - 1
    BY <2>2, ModIs
  <2>4. PICK j \in Nat, e \in Nat : j = k % NSLOTS /\ e = z % NSLOTS
    BY <1>1, <2>3
  <2> QED
    BY <2>1, <2>3, <2>4
<1>3. k < 2 * NSLOTS /\ z < 2 * NSLOTS /\ j + 1 < 2 * NSLOTS /\ e + n < 2 * NSLOTS
  BY <1>1, <1>2
<1>4. k % NSLOTS = j /\ z % NSLOTS = e
  BY <1>2
<1>5. PICK y \in Nat, x \in Nat : y = j + 1 /\ x = e + n
  BY <1>1, <1>2
<1>6. /\ y % NSLOTS = IF y < NSLOTS THEN y ELSE y - NSLOTS
      /\ x % NSLOTS = IF x < NSLOTS THEN x ELSE x - NSLOTS
      /\ z % NSLOTS \in 0..NSLOTS - 1
  BY <1>3, <1>5, <1>2, ModIs
<1>7. m % NSLOTS = y % NSLOTS /\ m % NSLOTS = x % NSLOTS
  <2>1. CASE m < 2 * NSLOTS
    <3>1. m % NSLOTS = IF m < NSLOTS THEN m ELSE m - NSLOTS
      BY <2>1, ModIs
    <3> QED
      BY <1>1, <1>2, <1>5, <1>6, <3>1
  <2>2. CASE m >= 2 * NSLOTS
    <3>1. m = 2 * NSLOTS /\ o = NSLOTS - 1 /\ n = NSLOTS
      BY <1>1, <1>2, <2>2
    <3>2. m % NSLOTS = 0
      BY <1>1, <3>1
    <3> QED
      BY <1>1, <1>2, <1>5, <1>6, <3>1, <3>2
  <2> QED
    BY <1>1, <1>2, <2>1, <2>2
<1> QED
  BY <1>2, <1>4, <1>5, <1>6, <1>7

LEMMA WrapApart ==
  ASSUME NEW o \in 0..NSLOTS - 1, NEW n \in 0..NSLOTS - 1, NEW i \in 1..n
  PROVE  /\ (o + i - 1) % NSLOTS \in 0..NSLOTS - 1
         /\ (o + i - 1) % NSLOTS # (o + n) % NSLOTS
<1>1. NSLOTS \in Nat /\ NSLOTS > 0
  BY SlotsAssumption
<1>2. PICK k \in Nat, m \in Nat : k = o + i - 1 /\ m = o + n
  BY <1>1
<1>3. k < m /\ m < 2 * NSLOTS /\ k < 2 * NSLOTS /\ m - k < NSLOTS
  BY <1>1, <1>2
<1>4. /\ k % NSLOTS = IF k < NSLOTS THEN k ELSE k - NSLOTS
      /\ m % NSLOTS = IF m < NSLOTS THEN m ELSE m - NSLOTS
      /\ k % NSLOTS \in 0..NSLOTS - 1
  BY <1>3, ModIs
<1>5. k % NSLOTS # m % NSLOTS
  BY <1>1, <1>3, <1>4
<1> QED
  BY <1>2, <1>4, <1>5

LEMMA RingPut ==
  ASSUME NEW c \in SharedType, NEW r \in Seq(Tids), RingOK(c, r), Len(r) < NSLOTS, NEW t \in Tids
  PROVE  LET d == [c EXCEPT !.slots[c.in] = t, !.in = (@ + 1) % NSLOTS]
         IN  /\ d \in SharedType /\ d.seats = c.seats
             /\ RingOK(d, Append(r, t)) /\ Append(r, t) \in Seq(Tids) /\ Len(Append(r, t)) = Len(r) + 1
<1>0. NSLOTS \in Nat /\ NSLOTS > 0
  BY SlotsAssumption
<1>1. /\ c.in \in 0..NSLOTS - 1 /\ c.out \in 0..NSLOTS - 1
      /\ c.slots \in [0..NSLOTS - 1 -> Tids \cup {None}] /\ Len(r) \in 0..NSLOTS - 1
  BY <1>0 DEF SharedType
<1>2. PICK in, slots, o, n : /\ in = (c.in + 1) % NSLOTS /\ slots = [c.slots EXCEPT ![c.in] = t]
                             /\ o = c.out /\ n = Len(r)
  OBVIOUS
<1>3. in \in 0..NSLOTS - 1 /\ slots \in [0..NSLOTS - 1 -> Tids \cup {None}]
  <2>1. 0 \in 0..NSLOTS
    BY <1>0
  <2>2. in \in 0..NSLOTS - 1
    BY <1>1, <1>2, <2>1, WrapNext
  <2> QED
    BY <1>1, <1>2, <2>2
<1>4. PICK d : d = [c EXCEPT !.slots[c.in] = t, !.in = (@ + 1) % NSLOTS]
  OBVIOUS
<1>5. d = [in |-> in, out |-> c.out, slots |-> slots, seats |-> c.seats]
  BY <1>2, <1>4 DEF SharedType
<1>6. d \in SharedType /\ d.seats = c.seats /\ d.in = in /\ d.out = o /\ d.slots = slots
  <2>1. c.seats \in 0..NSeats
    BY DEF SharedType
  <2> QED
    BY <1>1, <1>2, <1>3, <1>5, <2>1 DEF SharedType
<1>7. PICK q : q = Append(r, t)
  OBVIOUS
<1>8. /\ q \in Seq(Tids) /\ Len(q) = n + 1 /\ q[n + 1] = t
      /\ \A i \in 1..n : q[i] = r[i]
  BY <1>2, <1>7
<1>9. o \in 0..NSLOTS - 1 /\ n \in 0..NSLOTS - 1 /\ n \in 0..NSLOTS
  BY <1>0, <1>1, <1>2
<1>10. (o + n) % NSLOTS = c.in
  BY <1>2 DEF RingOK
<1>11. (o + Len(q)) % NSLOTS = in
  <2>1. (o + (n + 1)) % NSLOTS = (((o + n) % NSLOTS) + 1) % NSLOTS
    BY <1>9, WrapNext
  <2> QED
    BY <1>2, <1>8, <1>10, <2>1
<1>12. ASSUME NEW i \in 1..Len(q) PROVE slots[(o + i - 1) % NSLOTS] = q[i]
  <2>1. CASE i = n + 1
    <3>1. o + i - 1 = o + n
      BY <1>9, <2>1
    <3>2. slots[c.in] = t
      BY <1>1, <1>2
    <3> QED
      BY <1>8, <1>10, <2>1, <3>1, <3>2
  <2>2. CASE i # n + 1
    <3>1. i \in 1..n
      BY <1>8, <1>9, <2>2
    <3>2. c.slots[(o + i - 1) % NSLOTS] = r[i]
      BY <1>2, <3>1 DEF RingOK
    <3>3. (o + i - 1) % NSLOTS \in 0..NSLOTS - 1 /\ (o + i - 1) % NSLOTS # c.in
      BY <1>9, <1>10, <3>1, WrapApart
    <3>4. slots[(o + i - 1) % NSLOTS] = c.slots[(o + i - 1) % NSLOTS]
      BY <1>1, <1>2, <3>3
    <3> QED
      BY <1>8, <3>1, <3>2, <3>4
  <2> QED
    BY <2>1, <2>2
<1>13. Len(q) <= NSLOTS
  BY <1>0, <1>8, <1>9
<1>14. RingOK(d, q)
  BY <1>6, <1>11, <1>12, <1>13 DEF RingOK
<1> QED
  BY <1>2, <1>4, <1>6, <1>7, <1>8, <1>14

LEMMA RingGet ==
  ASSUME NEW c \in SharedType, NEW r \in Seq(Tids), RingOK(c, r), r # <<>>
  PROVE  LET d == [c EXCEPT !.out = (@ + 1) % NSLOTS]
             q == SubSeq(r, 2, Len(r))
         IN  /\ d \in SharedType /\ d.seats = c.seats
             /\ RingOK(d, q) /\ q \in Seq(Tids) /\ Len(q) = Len(r) - 1
<1>0. NSLOTS \in Nat /\ NSLOTS > 0
  BY SlotsAssumption
<1>1. /\ c.in \in 0..NSLOTS - 1 /\ c.out \in 0..NSLOTS - 1 /\ c.seats \in 0..NSeats
      /\ c.slots \in [0..NSLOTS - 1 -> Tids \cup {None}]
  BY DEF SharedType
<1>2. PICK out, o, n : out = (c.out + 1) % NSLOTS /\ o = c.out /\ n = Len(r)
  OBVIOUS
<1>3. n \in 1..NSLOTS /\ o \in 0..NSLOTS - 1
  <2>1. Len(r) \in Nat /\ Len(r) > 0
    OBVIOUS
  <2>2. Len(r) <= NSLOTS
    BY DEF RingOK
  <2> QED
    BY <1>0, <1>1, <1>2, <2>1, <2>2
<1>4. out \in 0..NSLOTS - 1
  <2>1. 0 \in 0..NSLOTS
    BY <1>0
  <2> QED
    BY <1>1, <1>2, <2>1, WrapNext
<1>5. PICK d : d = [c EXCEPT !.out = (@ + 1) % NSLOTS]
  OBVIOUS
<1>6. d = [in |-> c.in, out |-> out, slots |-> c.slots, seats |-> c.seats]
  BY <1>2, <1>5 DEF SharedType
<1>7. d \in SharedType /\ d.seats = c.seats /\ d.in = c.in /\ d.out = out /\ d.slots = c.slots
  BY <1>1, <1>4, <1>6 DEF SharedType
<1>8. PICK q : q = SubSeq(r, 2, Len(r))
  OBVIOUS
<1>9. /\ q \in Seq(Tids) /\ Len(q) = n - 1
      /\ \A i \in 1..n - 1 : q[i] = r[i + 1]
  BY <1>2, <1>3, <1>8
<1>10. ASSUME NEW i \in 0..NSLOTS PROVE (out + i) % NSLOTS = (o + (i + 1)) % NSLOTS
  BY <1>2, <1>3, WrapNext
<1>11. Len(q) <= NSLOTS /\ (out + Len(q)) % NSLOTS = c.in
  <2>1. PICK i \in 0..NSLOTS : i = n - 1
    BY <1>0, <1>3
  <2>2. o + (i + 1) = c.out + Len(r)
    BY <1>2, <1>3, <2>1
  <2>3. (c.out + Len(r)) % NSLOTS = c.in
    BY DEF RingOK
  <2> QED
    BY <1>0, <1>3, <1>9, <1>10, <2>1, <2>2, <2>3
<1>12. ASSUME NEW i \in 1..Len(q) PROVE c.slots[(out + i - 1) % NSLOTS] = q[i]
  <2>1. i \in 1..n - 1 /\ i + 1 \in 1..n /\ i - 1 \in 0..NSLOTS
    BY <1>0, <1>3, <1>9
  <2>2. c.slots[(c.out + (i + 1) - 1) % NSLOTS] = r[i + 1]
    BY <1>2, <2>1 DEF RingOK
  <2>3. PICK j \in 0..NSLOTS : j = i - 1
    BY <2>1
  <2>4. (out + j) % NSLOTS = (o + (j + 1)) % NSLOTS
    BY <1>10
  <2>5. o + (j + 1) = c.out + (i + 1) - 1 /\ out + j = out + i - 1
    BY <1>2, <1>3, <1>4, <2>1, <2>3
  <2> QED
    BY <1>9, <2>1, <2>2, <2>4, <2>5
<1>13. RingOK(d, q)
  BY <1>7, <1>11, <1>12 DEF RingOK
<1> QED
  BY <1>2, <1>5, <1>7, <1>8, <1>9, <1>13

-----------------------------------------------------------------------------
(* The invariant of what is shared.                                         *)

AtBegin(h) == h.threads[Main] # None /\ h.threads[Main].fn = "main" /\ h.threads[Main].pc = "begin"

\* Of the threads that never return, those there are and those to be made are the
\* ones that the test expects to find blocked.
Staying(h, fn, e) == Cardinality(Doing(h, fn)) + e.makes[fn] = e.expected

SlotsOK(h, r, e) ==
  "producer" \in DOMAIN e.makes /\ ~AtBegin(h) =>
    /\ Level(h, "lock") = 1 /\ Level(h, "empty") + Len(r) = NSLOTS /\ Level(h, "full") = Len(r)
    /\ r # <<>> => Doing(h, "producer") # {}
    /\ Staying(h, "producer", e)
ShopOK(h, e) ==
  "barber" \in DOMAIN e.makes /\ ~AtBegin(h) =>
    Level(h, "seats") = 1 /\ Staying(h, "barber", e) /\ e.expected > 0

MakesOK(m) ==
  \/ m = <<>> \/ m \in [{"any"} -> Nat]
  \/ m \in [{"producer", "consumer"} -> Nat] \/ m \in [{"barber", "customer"} -> Nat]

\* In other tests, and between two, the ends of the ring meet and all seats are free.
CountInv(h, c, r, e) ==
  /\ PointsOK(h, e.makes) /\ WaitsOK(h) /\ RingOK(c, r)
  /\ SlotsOK(h, r, e) /\ ShopOK(h, e)
  /\ Level(h, "waiting") + c.seats = NSeats
  /\ "producer" \notin DOMAIN e.makes \/ AtBegin(h) => c.in = c.out
  /\ "barber" \notin DOMAIN e.makes \/ AtBegin(h) => c.seats = NSeats
SharedInv ==
  /\ s \in SharedType /\ ring \in Seq(Tids) /\ MakesOK(test.makes)
  /\ g.exit = None => CountInv(g, s, ring, test)

Counted == {"lock", "empty", "full", "seats", "waiting"}

LEMMA CountKept ==
  ASSUME NEW h, NEW u, NEW c, NEW r, NEW e, CountInv(h, c, r, e),
         PointsOK(u, e.makes), WaitsOK(u), ~AtBegin(h), ~AtBegin(u),
         \A x \in Counted : Level(u, x) = Level(h, x),
         \A fn \in {"producer", "barber"} : Doing(u, fn) = Doing(h, fn)
  PROVE  CountInv(u, c, r, e)
<1>1. /\ Level(u, "lock") = Level(h, "lock") /\ Level(u, "empty") = Level(h, "empty")
      /\ Level(u, "full") = Level(h, "full") /\ Level(u, "seats") = Level(h, "seats")
      /\ Level(u, "waiting") = Level(h, "waiting")
  BY DEF Counted
<1>2. Doing(u, "producer") = Doing(h, "producer") /\ Doing(u, "barber") = Doing(h, "barber")
  OBVIOUS
<1>3. SlotsOK(u, r, e)
  BY <1>1, <1>2 DEF CountInv, SlotsOK, Staying
<1>4. ShopOK(u, e)
  BY <1>1, <1>2 DEF CountInv, ShopOK, Staying
<1> QED
  BY <1>1, <1>3, <1>4 DEF CountInv

\* A step of a thread within its function leaves the threads where the invariant has
\* them, and those that are blocked are the same but for the current thread.
LEMMA SteppedPoints ==
  ASSUME NEW h, NEW u, NEW D, NEW pc, NEW n, Stepped(h, u, D, pc, n), NEW m, PointsOK(h, m),
         h.current \in Tids, h.threads[h.current] # None, Points(h.threads[h.current].fn, pc)
  PROVE  PointsOK(u, m)
<1> SUFFICES ASSUME NEW t \in Tids, u.threads[t] # None
    PROVE  /\ Points(u.threads[t].fn, u.threads[t].pc)
           /\ u.threads[t].fn = "main" \/ u.threads[t].fn \in DOMAIN m
  BY DEF PointsOK
<1>1. /\ h.threads[t] # None /\ u.threads[t].fn = h.threads[t].fn
      /\ u.threads[t].pc = IF t = h.current THEN pc ELSE h.threads[t].pc
  BY DEF Stepped
<1>2. /\ Points(h.threads[t].fn, h.threads[t].pc)
      /\ h.threads[t].fn = "main" \/ h.threads[t].fn \in DOMAIN m
  BY <1>1 DEF PointsOK
<1> QED
  BY <1>1, <1>2

LEMMA SteppedWaits ==
  ASSUME NEW h, Steady(h), WaitsOK(h), NEW u, NEW D, NEW pc, NEW n, Stepped(h, u, D, pc, n),
         D \subseteq {h.current},
         \A x \in Semas : \A t \in BlockedIn(u.semas, x) :
           \/ t \in BlockedIn(h.semas, x)
           \/ /\ t = h.current /\ t \notin D
              /\ h.threads[t].fn = "any" \/ Waits(x, h.threads[t].fn, pc)
  PROVE  WaitsOK(u)
<1> SUFFICES ASSUME NEW x \in Semas, NEW t \in BlockedIn(u.semas, x)
    PROVE  u.threads[t].fn = "any" \/ Waits(x, u.threads[t].fn, u.threads[t].pc)
  BY DEF WaitsOK
<1>1. CASE t \in BlockedIn(h.semas, x)
  <2>1. t # h.current /\ t \in Tids /\ h.threads[t] # None
    BY <1>1, SteadySemas
  <2>2. u.threads[t].fn = h.threads[t].fn /\ u.threads[t].pc = h.threads[t].pc
    BY <2>1 DEF Stepped
  <2> QED
    BY <1>1, <2>2 DEF WaitsOK
<1>2. CASE /\ t = h.current /\ t \notin D
           /\ h.threads[t].fn = "any" \/ Waits(x, h.threads[t].fn, pc)
  <2>1. t \in Tids /\ h.threads[t] # None
    BY <1>2, SteadySemas
  <2>2. u.threads[t].fn = h.threads[t].fn /\ u.threads[t].pc = pc
    BY <1>2, <2>1 DEF Stepped
  <2> QED
    BY <1>2, <2>2
<1> QED
  BY <1>1, <1>2

LEMMA TookWaits ==
  ASSUME NEW h, Steady(h), WaitsOK(h), NEW u, NEW pc, NEW n, Stepped(h, u, {}, pc, n),
         NEW x \in Semas, Took(h, u, x),
         h.threads[h.current].fn = "any" \/ Waits(x, h.threads[h.current].fn, pc)
  PROVE  WaitsOK(u)
<1>1. ASSUME NEW y \in Semas, NEW t \in BlockedIn(u.semas, y)
      PROVE  t \in BlockedIn(h.semas, y) \/ (t = h.current /\ y = x)
  BY <1>1 DEF Took, OthersKept
<1>2. \A y \in Semas : \A t \in BlockedIn(u.semas, y) :
        \/ t \in BlockedIn(h.semas, y)
        \/ /\ t = h.current /\ t \notin {}
           /\ h.threads[t].fn = "any" \/ Waits(y, h.threads[t].fn, pc)
  BY <1>1
<1>3. {} \subseteq {h.current}
  OBVIOUS
<1> QED
  BY <1>2, <1>3, SteppedWaits

LEMMA GaveWaits ==
  ASSUME NEW h, Steady(h), WaitsOK(h), NEW u, NEW pc, NEW n, Stepped(h, u, {}, pc, n),
         NEW x \in Semas, Gave(h, u, x)
  PROVE  WaitsOK(u)
<1>1. ASSUME NEW y \in Semas, NEW t \in BlockedIn(u.semas, y) PROVE t \in BlockedIn(h.semas, y)
  BY <1>1 DEF Gave, OthersKept
<1>2. \A y \in Semas : \A t \in BlockedIn(u.semas, y) :
        \/ t \in BlockedIn(h.semas, y)
        \/ /\ t = h.current /\ t \notin {}
           /\ h.threads[t].fn = "any" \/ Waits(y, h.threads[t].fn, pc)
  BY <1>1
<1>3. {} \subseteq {h.current}
  OBVIOUS
<1> QED
  BY <1>2, <1>3, SteppedWaits

LEMMA SteppedDoing ==
  ASSUME NEW h, NEW u, NEW D, NEW pc, NEW n, Stepped(h, u, D, pc, n), NEW fn,
         \A t \in D : h.threads[t].fn # fn
  PROVE  Doing(u, fn) = Doing(h, fn)
<1>1. \A t \in Tids : t \in Doing(u, fn) <=> t \in Doing(h, fn)
  BY DEF Stepped, Doing
<1> QED
  BY <1>1 DEF Doing

LEMMA SteppedBegin ==
  ASSUME NEW h, Steady(h), Control(h), NEW u, NEW D, NEW pc, NEW n, Stepped(h, u, D, pc, n),
         h.threads[h.current].fn # "main" \/ (pc = "make" /\ h.threads[h.current].pc = "make")
  PROVE  ~AtBegin(h) /\ ~AtBegin(u)
<1>1. ~AtBegin(h)
  BY DEF AtBegin, Control
<1>2. ~AtBegin(u)
  <2> SUFFICES ASSUME AtBegin(u) PROVE FALSE
    OBVIOUS
  <2>1. h.threads[Main] # None /\ h.threads[Main].fn = "main"
    BY TidsFinite DEF AtBegin, Stepped
  <2>2. "begin" = IF Main = h.current THEN pc ELSE h.threads[Main].pc
    BY TidsFinite DEF AtBegin, Stepped
  <2> QED
    BY <1>1, <2>1, <2>2 DEF AtBegin
<1> QED
  BY <1>1, <1>2

\* The calls of Code: how they move a thread, and what it owns.
Moves(fn, pc, c) ==
  /\ Points(fn, c.next)
  /\ \A x \in Counted \ {c.sema} : Owns(x, fn, pc) <=> Owns(x, fn, c.next)
  /\ c.op = "dec" => Waits(c.sema, fn, c.next)
  /\ c.op = "dec" /\ c.sema \in Counted => ~Owns(c.sema, fn, pc) /\ Owns(c.sema, fn, c.next)
  /\ c.op # "dec" /\ c.sema \in Counted => Owns(c.sema, fn, pc) /\ ~Owns(c.sema, fn, c.next)

LEMMA CodeMoves ==
  ASSUME NEW fn \in DOMAIN Code, NEW pc \in DOMAIN Code[fn]
  PROVE  Moves(fn, pc, Code[fn][pc])
<1>1. fn \in {"producer", "consumer", "barber", "customer"}
  BY DEF Code
<1>2. CASE fn = "producer"
  <2>1. Code[fn] = Producer
    BY <1>2 DEF Code
  <2>2. pc \in {"begin", "lock", "full"}
    BY <2>1 DEF Producer
  <2>3. /\ Moves("producer", "begin", Dec("empty", "lock"))
        /\ Moves("producer", "lock", Dec("lock", "put"))
        /\ Moves("producer", "full", Inc("full", "begin"))
    BY DEF Moves, Points, Owns, Waits, Counted, Dec, Inc
  <2>4. Producer["begin"] = Dec("empty", "lock")
    BY DEF Producer
  <2>5. Producer["lock"] = Dec("lock", "put")
    BY DEF Producer
  <2>6. Producer["full"] = Inc("full", "begin")
    BY DEF Producer
  <2>7. Moves("producer", pc, Producer[pc])
    BY <2>2, <2>3, <2>4, <2>5, <2>6
  <2> QED
    BY <1>2, <2>1, <2>7
<1>3. CASE fn = "consumer"
  <2>1. Code[fn] = Consumer
    BY <1>3 DEF Code
  <2>2. pc \in {"begin", "lock", "empty"}
    BY <2>1 DEF Consumer
  <2>3. /\ Moves("consumer", "begin", Dec("full", "lock"))
        /\ Moves("consumer", "lock", Dec("lock", "get"))
        /\ Moves("consumer", "empty", Inc("empty", "begin"))
    BY DEF Moves, Points, Owns, Waits, Counted, Dec, Inc
  <2>4. Consumer["begin"] = Dec("full", "lock")
    BY DEF Consumer
  <2>5. Consumer["lock"] = Dec("lock", "get")
    BY DEF Consumer
  <2>6. Consumer["empty"] = Inc("empty", "begin")
    BY DEF Consumer
  <2>7. Moves("consumer", pc, Consumer[pc])
    BY <2>2, <2>3, <2>4, <2>5, <2>6
  <2> QED
    BY <1>3, <2>1, <2>7
<1>4. CASE fn = "barber"
  <2>1. Code[fn] = Barber
    BY <1>4 DEF Code
  <2>2. pc \in {"begin", "seats", "ready"}
    BY <2>1 DEF Barber
  <2>3. /\ Moves("barber", "begin", Dec("waiting", "seats"))
        /\ Moves("barber", "seats", Dec("seats", "cut"))
        /\ Moves("barber", "ready", Inc("ready", "begin"))
    BY DEF Moves, Points, Owns, Waits, Counted, Dec, Inc
  <2>4. Barber["begin"] = Dec("waiting", "seats")
    BY DEF Barber
  <2>5. Barber["seats"] = Dec("seats", "cut")
    BY DEF Barber
  <2>6. Barber["ready"] = Inc("ready", "begin")
    BY DEF Barber
  <2>7. Moves("barber", pc, Barber[pc])
    BY <2>2, <2>3, <2>4, <2>5, <2>6
  <2> QED
    BY <1>4, <2>1, <2>7
<1>5. CASE fn = "customer"
  <2>1. Code[fn] = Customer
    BY <1>5 DEF Code
  <2>2. pc \in {"begin", "wait", "chair"}
    BY <2>1 DEF Customer
  <2>3. /\ Moves("customer", "begin", Dec("seats", "look"))
        /\ Moves("customer", "wait", Inc("waiting", "chair"))
        /\ Moves("customer", "chair", Dec("ready", "return"))
    BY DEF Moves, Points, Owns, Waits, Counted, Dec, Inc
  <2>4. Customer["begin"] = Dec("seats", "look")
    BY DEF Customer
  <2>5. Customer["wait"] = Inc("waiting", "chair")
    BY DEF Customer
  <2>6. Customer["chair"] = Dec("ready", "return")
    BY DEF Customer
  <2>7. Moves("customer", pc, Customer[pc])
    BY <2>2, <2>3, <2>4, <2>5, <2>6
  <2> QED
    BY <1>5, <2>1, <2>7
<1> QED
  BY <1>1, <1>2, <1>3, <1>4, <1>5

\* Those who wait for a counted semaphore would own it.
LEMMA WaitsOwns ==
  ASSUME NEW x \in Counted, NEW fn, NEW pc, Waits(x, fn, pc)
  PROVE  Owns(x, fn, pc)
BY DEF Waits, Owns, Counted

\* No test but those of any calls has threads that make any.
LEMMA NoAny ==
  ASSUME NEW h, NEW m, PointsOK(h, m), MakesOK(m), NEW t \in Tids, h.threads[t] # None,
         h.threads[t].fn \in {"producer", "consumer", "barber", "customer"}
  PROVE  h.threads[t].fn \in DOMAIN m /\ "any" \notin DOMAIN m
<1>1. h.threads[t].fn \in DOMAIN m
  BY DEF PointsOK
<1>2. CASE m = <<>>
  BY <1>1, <1>2
<1>3. CASE m \in [{"any"} -> Nat]
  BY <1>1, <1>3
<1>4. CASE m \in [{"producer", "consumer"} -> Nat] \/ m \in [{"barber", "customer"} -> Nat]
  BY <1>1, <1>4
<1> QED
  BY <1>2, <1>3, <1>4 DEF MakesOK

LEMMA BlockedOwn ==
  ASSUME NEW h, Steady(h), NEW m, PointsOK(h, m), WaitsOK(h), "any" \notin DOMAIN m, NEW x \in Counted
  PROVE  \A t \in BlockedIn(h.semas, x) : Owns(x, h.threads[t].fn, h.threads[t].pc)
<1>1. x \in Semas
  BY DEF Counted, Semas
<1> SUFFICES ASSUME NEW t \in BlockedIn(h.semas, x) PROVE Owns(x, h.threads[t].fn, h.threads[t].pc)
  OBVIOUS
<1>2. t \in Tids /\ h.threads[t] # None
  BY <1>1, SteadySemas
<1>3. h.threads[t].fn # "any"
  BY <1>2 DEF PointsOK
<1>4. Waits(x, h.threads[t].fn, h.threads[t].pc)
  BY <1>1, <1>3 DEF WaitsOK
<1> QED
  BY <1>4, WaitsOwns

-----------------------------------------------------------------------------
(* The steps of the threads.                                                *)

LEMMA CallShared ==
  ASSUME Steady(g), Control(g), MakesOK(test.makes), CountInv(g, s, ring, test), CallSema
  PROVE  g'.exit # None \/ CountInv(g', s, ring, test)
<1>1. PICK c, u : c = Code[Me.fn][Me.pc] /\ u = g'
  OBVIOUS
<1>2. SUFFICES ASSUME u.exit = None PROVE CountInv(u, s, ring, test)
  BY <1>1
<1>3. /\ Me.fn \in DOMAIN Code /\ Me.pc \in DOMAIN Code[Me.fn] /\ c.sema \in Semas /\ Me.fn # "main"
      /\ Stepped(g, u, {}, c.next, Me.n)
      /\ IF c.op = "dec" THEN Took(g, u, c.sema) ELSE Gave(g, u, c.sema)
  BY <1>1, <1>2, CallIs DEF CallOK
<1>4. Moves(Me.fn, Me.pc, c)
  BY <1>1, <1>3, CodeMoves
<1>5. PICK fn, pc, next, x, n, t :
        /\ fn = Me.fn /\ pc = Me.pc /\ next = c.next /\ x = c.sema /\ n = Me.n /\ t = g.current
  OBVIOUS
<1>6. /\ t = g.current /\ fn = g.threads[t].fn /\ pc = g.threads[t].pc
      /\ Stepped(g, u, {}, next, n) /\ x \in Semas
      /\ t \in Tids /\ g.threads[t] # None /\ fn \in {"producer", "consumer", "barber", "customer"}
  BY <1>3, <1>5, CurrentIs DEF Me, Code
<1>7. PointsOK(g, test.makes) /\ WaitsOK(g)
  BY DEF CountInv
<1>8. "any" \notin DOMAIN test.makes
  BY <1>6, <1>7, NoAny
<1>9. PointsOK(u, test.makes)
  BY <1>4, <1>5, <1>6, <1>7, SteppedPoints DEF Moves
<1>10. WaitsOK(u)
  <2>1. CASE c.op = "dec"
    <3>1. Took(g, u, x) /\ Waits(x, fn, next)
      BY <1>3, <1>4, <1>5, <2>1 DEF Moves
    <3> QED
      BY <1>6, <1>7, <3>1, TookWaits
  <2>2. CASE c.op # "dec"
    <3>1. Gave(g, u, x)
      BY <1>3, <1>5, <2>2
    <3> QED
      BY <1>6, <1>7, <3>1, GaveWaits
  <2> QED
    BY <2>1, <2>2
<1>11. ASSUME NEW y \in Counted PROVE Level(u, y) = Level(g, y)
  <2>1. y \in Semas
    BY DEF Counted, Semas
  <2>2. CASE y # x
    <3>1. Spared(g, u, y)
      BY <1>3, <1>5, <2>1, <2>2 DEF Took, Gave, OthersKept, Spared
    <3>2. Owns(y, fn, pc) <=> Owns(y, fn, next)
      BY <1>4, <1>5, <2>2 DEF Moves
    <3> QED
      BY <1>6, <2>1, <3>1, <3>2, KeptLevel
  <2>3. CASE y = x /\ c.op = "dec"
    <3>1. Took(g, u, y) /\ ~Owns(y, fn, pc) /\ Owns(y, fn, next)
      BY <1>3, <1>4, <1>5, <2>3 DEF Moves
    <3> QED
      BY <1>6, <2>1, <3>1, TookLevel
  <2>4. CASE y = x /\ c.op # "dec"
    <3>1. Gave(g, u, y) /\ Owns(y, fn, pc) /\ ~Owns(y, fn, next)
      BY <1>3, <1>4, <1>5, <2>4 DEF Moves
    <3>2. \A b \in BlockedIn(g.semas, y) : Owns(y, g.threads[b].fn, g.threads[b].pc)
      BY <1>7, <1>8, BlockedOwn
    <3> QED
      BY <1>6, <2>1, <3>1, <3>2, GaveLevel
  <2> QED
    BY <2>2, <2>3, <2>4
<1>12. \A f \in {"producer", "barber"} : Doing(u, f) = Doing(g, f)
  BY <1>6, SteppedDoing
<1>13. ~AtBegin(g) /\ ~AtBegin(u)
  BY <1>3, <1>5, <1>6, SteppedBegin
<1> QED
  BY <1>9, <1>10, <1>11, <1>12, <1>13, CountKept

\* What the steps between two semaphores have in common: they release x.
LEMMA GiveShared ==
  ASSUME Steady(g), Control(g), MakesOK(test.makes), CountInv(g, s, ring, test),
         NEW pc \in Pcs, NEW x \in Counted, g' = SemaInc(Goto(pc), x) \/ g' = SemaInc(Count(pc), x),
         Me.fn \in {"producer", "consumer", "barber", "customer"}, Points(Me.fn, pc),
         Owns(x, Me.fn, Me.pc), ~Owns(x, Me.fn, pc)
  PROVE  /\ PointsOK(g', test.makes) /\ WaitsOK(g') /\ ~AtBegin(g) /\ ~AtBegin(g')
         /\ \A f : Doing(g', f) = Doing(g, f)
         /\ Me.fn \in DOMAIN test.makes /\ g.current \in Doing(g, Me.fn)
         /\ Level(g', x) = Level(g, x)
         /\ \A y \in Counted \ {x} :
              /\ (Owns(y, Me.fn, Me.pc) <=> Owns(y, Me.fn, pc)) => Level(g', y) = Level(g, y)
              /\ Owns(y, Me.fn, Me.pc) /\ ~Owns(y, Me.fn, pc) => Level(g', y) = Level(g, y) - 1
              /\ ~Owns(y, Me.fn, Me.pc) /\ Owns(y, Me.fn, pc) => Level(g', y) = Level(g, y) + 1
<1>1. PICK u, t, fn, old : u = g' /\ t = g.current /\ fn = Me.fn /\ old = Me.pc
  OBVIOUS
<1>2. /\ t \in Tids /\ g.threads[t] # None /\ fn = g.threads[t].fn /\ old = g.threads[t].pc
      /\ fn \in {"producer", "consumer", "barber", "customer"} /\ fn # "main"
  BY <1>1, CurrentIs DEF Me
<1>3. PointsOK(g, test.makes) /\ WaitsOK(g)
  BY DEF CountInv
<1>4. fn \in DOMAIN test.makes /\ "any" \notin DOMAIN test.makes
  BY <1>2, <1>3, NoAny
<1>5. x \in Semas /\ Counted \subseteq Semas
  BY DEF Counted, Semas
<1>6. PICK n : Stepped(g, u, {}, pc, n) /\ Gave(g, u, x)
  BY <1>1, <1>5, GiveIs
<1>7. PointsOK(u, test.makes)
  BY <1>1, <1>2, <1>3, <1>6, SteppedPoints
<1>8. WaitsOK(u)
  BY <1>3, <1>5, <1>6, GaveWaits
<1>9. ~AtBegin(g) /\ ~AtBegin(u)
  BY <1>1, <1>2, <1>6, SteppedBegin
<1>10. \A f : Doing(u, f) = Doing(g, f)
  BY <1>6, SteppedDoing
<1>11. Level(u, x) = Level(g, x)
  <2>1. \A b \in BlockedIn(g.semas, x) : Owns(x, g.threads[b].fn, g.threads[b].pc)
    BY <1>3, <1>4, BlockedOwn
  <2> QED
    BY <1>1, <1>2, <1>5, <1>6, <2>1, GaveLevel
<1>12. ASSUME NEW y \in Counted \ {x}
       PROVE  /\ (Owns(y, fn, old) <=> Owns(y, fn, pc)) => Level(u, y) = Level(g, y)
              /\ Owns(y, fn, old) /\ ~Owns(y, fn, pc) => Level(u, y) = Level(g, y) - 1
              /\ ~Owns(y, fn, old) /\ Owns(y, fn, pc) => Level(u, y) = Level(g, y) + 1
  <2>1. y \in Semas /\ Spared(g, u, y)
    BY <1>5, <1>6 DEF Gave, OthersKept, Spared
  <2>2. (Owns(y, fn, old) <=> Owns(y, fn, pc)) => Level(u, y) = Level(g, y)
    BY <1>1, <1>2, <1>6, <2>1, KeptLevel
  <2>3. Owns(y, fn, old) /\ ~Owns(y, fn, pc) => Level(u, y) = Level(g, y) - 1
    BY <1>1, <1>2, <1>6, <2>1, LeaveLevel
  <2>4. ~Owns(y, fn, old) /\ Owns(y, fn, pc) => Level(u, y) = Level(g, y) + 1
    BY <1>1, <1>2, <1>6, <2>1, EnterLevel
  <2> QED
    BY <2>2, <2>3, <2>4
<1>13. t \in Doing(g, fn)
  BY <1>2 DEF Doing
<1> QED
  BY <1>1, <1>4, <1>7, <1>8, <1>9, <1>10, <1>11, <1>12, <1>13

LEMMA LevelIs ==
  ASSUME NEW h, Steady(h), NEW x \in Counted
  PROVE  /\ Level(h, x) \in Nat
         /\ Owns(x, h.threads[h.current].fn, h.threads[h.current].pc) => Level(h, x) > 0
<1>1. x \in Semas
  BY DEF Counted, Semas
<1>2. /\ h.semas[x].count \in Nat /\ h.current \in Tids /\ h.threads[h.current] # None
      /\ h.current \notin BlockedIn(h.semas, x)
  BY <1>1, SteadySemas
<1>3. IsFiniteSet(Owners(h, x)) /\ Cardinality(Owners(h, x)) \in Nat
  BY OwnersFinite
<1>4. Owns(x, h.threads[h.current].fn, h.threads[h.current].pc) => Cardinality(Owners(h, x)) > 0
  <2> SUFFICES ASSUME Owns(x, h.threads[h.current].fn, h.threads[h.current].pc)
      PROVE  Cardinality(Owners(h, x)) > 0
    OBVIOUS
  <2>1. h.current \in Owners(h, x)
    BY <1>2 DEF Owners
  <2>2. Cardinality(Owners(h, x)) # 0
    BY <1>3, <2>1, FS_EmptySet
  <2> QED
    BY <1>3, <2>2
<1> QED
  BY <1>2, <1>3, <1>4 DEF Level

\* A slot is filled: one is free, for a producer at it owns one that is.
LEMMA PutShared ==
  ASSUME Steady(g), Control(g), s \in SharedType, ring \in Seq(Tids), MakesOK(test.makes),
         CountInv(g, s, ring, test), Put
  PROVE  s' \in SharedType /\ ring' \in Seq(Tids) /\ CountInv(g', s', ring', test)
<1>1. /\ Me.pc = "put" /\ g' = SemaInc(Goto("full"), "lock")
      /\ s' = [s EXCEPT !.slots[s.in] = g.current, !.in = (@ + 1) % NSLOTS]
      /\ ring' = Append(ring, g.current)
  BY DEF Put, At
<1>2. g.current \in Tids /\ Me # None
  BY CurrentIs DEF Me
<1>3. PICK pc \in Pcs, x \in Counted, fn \in {"producer"} :
        pc = "full" /\ x = "lock" /\ fn = "producer"
  BY DEF Pcs, Counted
<1>4. Me.fn = fn
  <2>1. Points(Me.fn, Me.pc)
    BY <1>2 DEF CountInv, PointsOK, Me
  <2> QED
    BY <1>1, <1>3, <2>1 DEF Points
<1>5. /\ Points(fn, pc) /\ Owns(x, fn, "put") /\ ~Owns(x, fn, pc)
      /\ Owns("empty", fn, "put") /\ ~Owns("empty", fn, pc)
      /\ ~Owns("full", fn, "put") /\ Owns("full", fn, pc)
      /\ ~Owns("waiting", fn, "put") /\ ~Owns("waiting", fn, pc)
      /\ {"empty", "full", "waiting"} \subseteq Counted \ {x}
  BY <1>3 DEF Points, Owns, Counted
<1>6. /\ g' = SemaInc(Goto(pc), x) /\ Owns(x, Me.fn, Me.pc) /\ ~Owns(x, Me.fn, pc) /\ Points(Me.fn, pc)
      /\ Me.fn \in {"producer", "consumer", "barber", "customer"}
  BY <1>1, <1>3, <1>4, <1>5
<1>7. PICK u : u = g'
  OBVIOUS
<1>8. /\ PointsOK(u, test.makes) /\ WaitsOK(u) /\ ~AtBegin(g) /\ ~AtBegin(u)
      /\ \A f : Doing(u, f) = Doing(g, f)
      /\ fn \in DOMAIN test.makes /\ g.current \in Doing(g, fn)
      /\ Level(u, x) = Level(g, x)
      /\ \A y \in Counted \ {x} :
           /\ (Owns(y, Me.fn, Me.pc) <=> Owns(y, Me.fn, pc)) => Level(u, y) = Level(g, y)
           /\ Owns(y, Me.fn, Me.pc) /\ ~Owns(y, Me.fn, pc) => Level(u, y) = Level(g, y) - 1
           /\ ~Owns(y, Me.fn, Me.pc) /\ Owns(y, Me.fn, pc) => Level(u, y) = Level(g, y) + 1
  BY <1>4, <1>6, <1>7, GiveShared
<1>9. /\ Level(u, "lock") = Level(g, "lock") /\ Level(u, "empty") = Level(g, "empty") - 1
      /\ Level(u, "full") = Level(g, "full") + 1 /\ Level(u, "waiting") = Level(g, "waiting")
  BY <1>1, <1>3, <1>4, <1>5, <1>8
<1>10. /\ Level(g, "lock") = 1 /\ Level(g, "empty") + Len(ring) = NSLOTS /\ Level(g, "full") = Len(ring)
       /\ Staying(g, "producer", test)
  BY <1>3, <1>8 DEF CountInv, SlotsOK
<1>11. Level(g, "empty") \in Nat /\ Level(g, "empty") > 0
  <2>1. PICK y \in Counted : y = "empty"
    BY DEF Counted
  <2>2. Owns(y, g.threads[g.current].fn, g.threads[g.current].pc)
    BY <1>1, <1>4, <1>5, <2>1 DEF Me
  <2> QED
    BY <2>1, <2>2, LevelIs
<1>12. Len(ring) \in Nat /\ Len(ring) < NSLOTS
  BY <1>10, <1>11
<1>13. /\ s' \in SharedType /\ s'.seats = s.seats /\ RingOK(s', ring') /\ ring' \in Seq(Tids)
       /\ Len(ring') = Len(ring) + 1
  BY <1>1, <1>2, <1>12, RingPut DEF CountInv
<1>14. SlotsOK(u, ring', test)
  <2>1. Doing(u, "producer") # {}
    BY <1>3, <1>8
  <2>2. Staying(u, "producer", test)
    BY <1>8, <1>10 DEF Staying
  <2> QED
    BY <1>9, <1>10, <1>11, <1>12, <1>13, <2>1, <2>2 DEF SlotsOK
<1>15. ShopOK(u, test)
  <2>1. "barber" \notin DOMAIN test.makes
    BY <1>3, <1>8 DEF MakesOK
  <2> QED
    BY <2>1 DEF ShopOK
<1>16. Level(u, "waiting") + s'.seats = NSeats
  BY <1>9, <1>13 DEF CountInv
<1> QED
  BY <1>7, <1>8, <1>13, <1>14, <1>15, <1>16 DEF CountInv

\* A slot is taken: one is filled, for a consumer at it owns one that is.
LEMMA GetShared ==
  ASSUME Steady(g), Control(g), s \in SharedType, ring \in Seq(Tids), MakesOK(test.makes),
         CountInv(g, s, ring, test), Get
  PROVE  s' \in SharedType /\ ring' \in Seq(Tids) /\ CountInv(g', s', ring', test)
<1>1. /\ Me.pc = "get" /\ g' = SemaInc(Count("empty"), "lock")
      /\ s' = [s EXCEPT !.out = (@ + 1) % NSLOTS]
      /\ ring' = SubSeq(ring, 2, Len(ring))
  BY DEF Get, At
<1>2. g.current \in Tids /\ Me # None
  BY CurrentIs DEF Me
<1>3. PICK pc \in Pcs, x \in Counted, fn \in {"consumer"} :
        pc = "empty" /\ x = "lock" /\ fn = "consumer"
  BY DEF Pcs, Counted
<1>4. Me.fn = fn
  <2>1. Points(Me.fn, Me.pc)
    BY <1>2 DEF CountInv, PointsOK, Me
  <2> QED
    BY <1>1, <1>3, <2>1 DEF Points
<1>5. /\ Points(fn, pc) /\ Owns(x, fn, "get") /\ ~Owns(x, fn, pc)
      /\ ~Owns("empty", fn, "get") /\ Owns("empty", fn, pc)
      /\ Owns("full", fn, "get") /\ ~Owns("full", fn, pc)
      /\ ~Owns("waiting", fn, "get") /\ ~Owns("waiting", fn, pc)
      /\ {"empty", "full", "waiting"} \subseteq Counted \ {x}
  BY <1>3 DEF Points, Owns, Counted
<1>6. /\ g' = SemaInc(Count(pc), x) /\ Owns(x, Me.fn, Me.pc) /\ ~Owns(x, Me.fn, pc) /\ Points(Me.fn, pc)
      /\ Me.fn \in {"producer", "consumer", "barber", "customer"}
  BY <1>1, <1>3, <1>4, <1>5
<1>7. PICK u : u = g'
  OBVIOUS
<1>8. /\ PointsOK(u, test.makes) /\ WaitsOK(u) /\ ~AtBegin(g) /\ ~AtBegin(u)
      /\ \A f : Doing(u, f) = Doing(g, f)
      /\ fn \in DOMAIN test.makes
      /\ Level(u, x) = Level(g, x)
      /\ \A y \in Counted \ {x} :
           /\ (Owns(y, Me.fn, Me.pc) <=> Owns(y, Me.fn, pc)) => Level(u, y) = Level(g, y)
           /\ Owns(y, Me.fn, Me.pc) /\ ~Owns(y, Me.fn, pc) => Level(u, y) = Level(g, y) - 1
           /\ ~Owns(y, Me.fn, Me.pc) /\ Owns(y, Me.fn, pc) => Level(u, y) = Level(g, y) + 1
  BY <1>4, <1>6, <1>7, GiveShared
<1>9. /\ Level(u, "lock") = Level(g, "lock") /\ Level(u, "empty") = Level(g, "empty") + 1
      /\ Level(u, "full") = Level(g, "full") - 1 /\ Level(u, "waiting") = Level(g, "waiting")
  BY <1>1, <1>3, <1>4, <1>5, <1>8
<1>10. "producer" \in DOMAIN test.makes /\ "barber" \notin DOMAIN test.makes
  BY <1>3, <1>8 DEF MakesOK
<1>11. /\ Level(g, "lock") = 1 /\ Level(g, "empty") + Len(ring) = NSLOTS /\ Level(g, "full") = Len(ring)
       /\ ring # <<>> => Doing(g, "producer") # {}
       /\ Staying(g, "producer", test)
  BY <1>8, <1>10 DEF CountInv, SlotsOK
<1>12. Level(g, "full") > 0 /\ Level(g, "empty") \in Nat
  <2>1. PICK y \in Counted, z \in Counted : y = "full" /\ z = "empty"
    BY DEF Counted
  <2>2. Owns(y, g.threads[g.current].fn, g.threads[g.current].pc)
    BY <1>1, <1>4, <1>5, <2>1 DEF Me
  <2> QED
    BY <2>1, <2>2, LevelIs
<1>13. Len(ring) \in Nat /\ ring # <<>>
  BY <1>11, <1>12
<1>14. /\ s' \in SharedType /\ s'.seats = s.seats /\ RingOK(s', ring') /\ ring' \in Seq(Tids)
       /\ Len(ring') = Len(ring) - 1
  BY <1>1, <1>13, RingGet DEF CountInv
<1>15. SlotsOK(u, ring', test)
  <2>1. Doing(u, "producer") # {}
    BY <1>8, <1>11, <1>13
  <2>2. Staying(u, "producer", test)
    BY <1>8, <1>11 DEF Staying
  <2> QED
    BY <1>9, <1>11, <1>12, <1>13, <1>14, <2>1, <2>2 DEF SlotsOK
<1>16. ShopOK(u, test)
  BY <1>10 DEF ShopOK
<1>17. Level(u, "waiting") + s'.seats = NSeats
  BY <1>9, <1>14 DEF CountInv
<1> QED
  BY <1>7, <1>8, <1>10, <1>14, <1>15, <1>16, <1>17 DEF CountInv

\* The free seats are changed by one that owns "seats", with the thread they are for.
LEMMA SeatsShared ==
  ASSUME Steady(g), Control(g), s \in SharedType, ring \in Seq(Tids), MakesOK(test.makes),
         CountInv(g, s, ring, test), Cut \/ Look
  PROVE  s' \in SharedType /\ CountInv(g', s', ring, test)
<1>0. NSeats \in Nat
  BY BoundAssumption
<1>1. g.current \in Tids /\ Me # None
  BY CurrentIs DEF Me
<1>2. /\ s.in \in 0..NSLOTS - 1 /\ s.out \in 0..NSLOTS - 1 /\ s.seats \in 0..NSeats
      /\ s.slots \in [0..NSLOTS - 1 -> Tids \cup {None}]
  BY DEF SharedType
<1>3. PICK pc \in Pcs, x \in Counted, d \in {-1, 0, 1} :
        /\ x = "seats" /\ g' = SemaInc(Goto(pc), x)
        /\ \/ Me.pc = "cut" /\ pc = "ready" /\ d = 1
           \/ Me.pc = "look" /\ pc = "wait" /\ d = -1 /\ s.seats > 0
           \/ Me.pc = "look" /\ pc = "return" /\ d = 0
        /\ s' = [s EXCEPT !.seats = s.seats + d]
  <2>0. "seats" \in Counted /\ {"ready", "wait", "return"} \subseteq Pcs
    BY DEF Counted, Pcs
  <2>1. CASE Cut
    <3>1. Me.pc = "cut" /\ g' = SemaInc(Goto("ready"), "seats") /\ s' = [s EXCEPT !.seats = s.seats + 1]
      BY <2>1 DEF Cut, At
    <3> QED
      BY <2>0, <3>1
  <2>2. CASE Look /\ s.seats > 0 /\ s' = [s EXCEPT !.seats = @ - 1] /\ g' = SemaInc(Goto("wait"), "seats")
    <3>1. Me.pc = "look"
      BY <2>2 DEF Look, At
    <3>2. s.seats - 1 = s.seats + (-1)
      BY <1>2
    <3>3. s' = [s EXCEPT !.seats = s.seats + (-1)]
      BY <2>2, <3>2
    <3> QED
      BY <2>0, <2>2, <3>1, <3>3
  <2>3. CASE Look /\ s' = s /\ g' = SemaInc(Goto("return"), "seats")
    <3>1. Me.pc = "look"
      BY <2>3 DEF Look, At
    <3>2. s.seats + 0 = s.seats
      BY <1>2
    <3>3. s' = [s EXCEPT !.seats = s.seats + 0]
      BY <2>3, <3>2 DEF SharedType
    <3> QED
      BY <2>0, <2>3, <3>1, <3>3
  <2> QED
    BY <2>1, <2>2, <2>3 DEF Look
<1>4. PICK fn \in {"barber", "customer"} : fn = Me.fn /\ (Me.pc = "cut" <=> fn = "barber")
  <2>1. Points(Me.fn, Me.pc)
    BY <1>1 DEF CountInv, PointsOK, Me
  <2> QED
    BY <1>3, <2>1 DEF Points
<1>5. PICK old : old = Me.pc
  OBVIOUS
<1>6. /\ Points(fn, pc) /\ Owns(x, fn, old) /\ ~Owns(x, fn, pc)
      /\ ~Owns("lock", fn, old) /\ ~Owns("lock", fn, pc)
      /\ ~Owns("empty", fn, old) /\ ~Owns("empty", fn, pc)
      /\ ~Owns("full", fn, old) /\ ~Owns("full", fn, pc)
  BY <1>3, <1>4, <1>5 DEF Points, Owns
<1>7. /\ d = 1 => Owns("waiting", fn, old) /\ ~Owns("waiting", fn, pc)
      /\ d = -1 => ~Owns("waiting", fn, old) /\ Owns("waiting", fn, pc)
      /\ d = 0 => ~Owns("waiting", fn, old) /\ ~Owns("waiting", fn, pc)
      /\ d = 1 \/ d = -1 \/ d = 0
  BY <1>3, <1>4, <1>5 DEF Owns
<1>8. PICK u : u = g'
  OBVIOUS
<1>9. /\ Me.fn \in {"producer", "consumer", "barber", "customer"}
      /\ Owns(x, Me.fn, Me.pc) /\ ~Owns(x, Me.fn, pc) /\ Points(Me.fn, pc)
  BY <1>4, <1>5, <1>6
<1>10. /\ PointsOK(u, test.makes) /\ WaitsOK(u) /\ ~AtBegin(g) /\ ~AtBegin(u)
       /\ \A f : Doing(u, f) = Doing(g, f)
       /\ fn \in DOMAIN test.makes
       /\ Level(u, x) = Level(g, x)
       /\ \A y \in Counted \ {x} :
            /\ (Owns(y, Me.fn, Me.pc) <=> Owns(y, Me.fn, pc)) => Level(u, y) = Level(g, y)
            /\ Owns(y, Me.fn, Me.pc) /\ ~Owns(y, Me.fn, pc) => Level(u, y) = Level(g, y) - 1
            /\ ~Owns(y, Me.fn, Me.pc) /\ Owns(y, Me.fn, pc) => Level(u, y) = Level(g, y) + 1
  BY <1>3, <1>4, <1>8, <1>9, GiveShared
<1>11. {"lock", "empty", "full", "waiting"} \subseteq Counted \ {x}
  BY <1>3 DEF Counted
<1>12. Level(g, "waiting") \in Nat /\ (d = 1 => Level(g, "waiting") > 0)
  <2>1. PICK y \in Counted : y = "waiting"
    BY DEF Counted
  <2>2. d = 1 => Owns(y, g.threads[g.current].fn, g.threads[g.current].pc)
    BY <1>4, <1>5, <1>7, <2>1 DEF Me
  <2> QED
    BY <2>1, <2>2, LevelIs
<1>13. Level(u, "waiting") = Level(g, "waiting") - d
  BY <1>4, <1>5, <1>7, <1>10, <1>11, <1>12
<1>14. Level(g, "waiting") + s.seats = NSeats
  BY DEF CountInv
<1>15. s.seats + d \in 0..NSeats /\ Level(u, "waiting") + (s.seats + d) = NSeats
  <2>1. PICK l \in Nat, m \in Int, seats \in 0..NSeats :
          l = Level(g, "waiting") /\ m = Level(u, "waiting") /\ seats = s.seats
    BY <1>2, <1>7, <1>12, <1>13
  <2>2. /\ m = l - d /\ l + seats = NSeats /\ (d = 1 => l > 0) /\ (d = -1 => seats > 0)
        /\ d = 1 \/ d = -1 \/ d = 0
    BY <1>3, <1>7, <1>12, <1>13, <1>14, <2>1
  <2>3. seats + d \in 0..NSeats /\ m + (seats + d) = NSeats
    <3>1. CASE d = 1
      BY <1>0, <2>2, <3>1
    <3>2. CASE d = -1
      BY <1>0, <2>2, <3>2
    <3>3. CASE d = 0
      BY <1>0, <2>2, <3>3
    <3> QED
      BY <2>2, <3>1, <3>2, <3>3
  <2> QED
    BY <2>1, <2>3
<1>16. s' \in SharedType /\ s'.seats = s.seats + d /\ s'.in = s.in /\ s'.out = s.out /\ s'.slots = s.slots
  BY <1>3, <1>15 DEF SharedType
<1>17. RingOK(s', ring)
  BY <1>16 DEF CountInv, RingOK
<1>18. "producer" \notin DOMAIN test.makes /\ "barber" \in DOMAIN test.makes
  BY <1>4, <1>10 DEF MakesOK
<1>19. SlotsOK(u, ring, test)
  BY <1>18 DEF SlotsOK
<1>20. ShopOK(u, test)
  <2>1. Level(u, "seats") = Level(g, "seats") /\ Doing(u, "barber") = Doing(g, "barber")
    BY <1>3, <1>10
  <2> QED
    BY <1>10, <2>1 DEF CountInv, ShopOK, Staying
<1> QED
  BY <1>8, <1>10, <1>15, <1>16, <1>17, <1>18, <1>19, <1>20 DEF CountInv

\* A step that calls no semaphore, of a thread that owns none.
LEMMA QuietShared ==
  ASSUME NEW h, Steady(h), Control(h), NEW c, NEW r, NEW e, CountInv(h, c, r, e),
         NEW u, NEW D \in {{}, {h.current}}, NEW pc, NEW n, Stepped(h, u, D, pc, n), u.semas = h.semas,
         Points(h.threads[h.current].fn, pc),
         \A x \in Counted : ~Owns(x, h.threads[h.current].fn, h.threads[h.current].pc)
                            /\ ~Owns(x, h.threads[h.current].fn, pc),
         D = {} \/ h.threads[h.current].fn \notin {"producer", "barber"},
         h.threads[h.current].fn # "main" \/ (pc = "make" /\ h.threads[h.current].pc = "make")
  PROVE  CountInv(u, c, r, e)
<1>1. PICK t, fn : t = h.current /\ fn = h.threads[t].fn
  OBVIOUS
<1>2. t \in Tids /\ h.threads[t] # None /\ PointsOK(h, e.makes) /\ WaitsOK(h)
  BY <1>1, CurrentIs DEF CountInv
<1>3. PointsOK(u, e.makes)
  BY <1>1, <1>2, SteppedPoints
<1>4. WaitsOK(u)
  <2>1. D \subseteq {h.current}
    OBVIOUS
  <2>2. \A x \in Semas : \A b \in BlockedIn(u.semas, x) :
          \/ b \in BlockedIn(h.semas, x)
          \/ /\ b = h.current /\ b \notin D
             /\ h.threads[b].fn = "any" \/ Waits(x, h.threads[b].fn, pc)
    OBVIOUS
  <2> QED
    BY <1>2, <2>1, <2>2, SteppedWaits
<1>5. ASSUME NEW x \in Counted PROVE Level(u, x) = Level(h, x)
  <2>1. t \notin Owners(h, x)
    BY <1>1 DEF Owners
  <2>2. t \notin Owners(u, x)
    BY <1>1, <1>2 DEF Owners, Stepped
  <2>3. \A b \in Tids : b # t => (b \in Owners(u, x) <=> b \in Owners(h, x))
    BY <1>1, OwnersStep
  <2>4. Owners(u, x) = Owners(h, x)
    BY <2>1, <2>2, <2>3 DEF Owners
  <2> QED
    BY <2>4 DEF Level
<1>6. \A f \in {"producer", "barber"} : Doing(u, f) = Doing(h, f)
  BY SteppedDoing
<1>7. ~AtBegin(h) /\ ~AtBegin(u)
  BY SteppedBegin
<1> QED
  BY <1>3, <1>4, <1>5, <1>6, <1>7, CountKept

LEMMA ReturnShared ==
  ASSUME Steady(g), Control(g), CountInv(g, s, ring, test), Return
  PROVE  g'.exit # None \/ CountInv(g', s, ring, test)
<1>1. PICK u, fn, pc, D : u = g' /\ fn = Me.fn /\ pc = Me.pc /\ D = {g.current}
  OBVIOUS
<1>2. SUFFICES ASSUME u.exit = None PROVE CountInv(u, s, ring, test)
  BY <1>1
<1>3. Same(g, u, {g.current}) /\ u.semas = g.semas
  BY <1>1, <1>2, ExitIs DEF Return
<1>4. Stepped(g, u, D, pc, Me.n)
  BY <1>1, <1>3, SameStepped DEF Me
<1>5. Points(fn, pc)
  BY <1>1, CurrentIs DEF CountInv, PointsOK, Me
<1>6. pc = "return" \/ (fn = "consumer" /\ pc = "begin") \/ fn = "any"
  BY <1>1 DEF Return, At, On, Served
<1>7. /\ fn \notin {"producer", "barber", "main"}
      /\ \A x \in Counted : ~Owns(x, fn, pc)
  BY <1>5, <1>6 DEF Points, Owns, Counted
<1>8. fn = g.threads[g.current].fn /\ pc = g.threads[g.current].pc /\ D \in {{}, {g.current}}
  BY <1>1 DEF Me
<1> QED
  BY <1>3, <1>4, <1>5, <1>7, <1>8, QuietShared

LEMMA YieldShared ==
  ASSUME Steady(g), Control(g), CountInv(g, s, ring, test), YieldMain
  PROVE  g'.exit # None \/ CountInv(g', s, ring, test)
<1>1. PICK u, fn, pc, D : u = g' /\ fn = Me.fn /\ pc = Me.pc /\ D = {}
  OBVIOUS
<1>2. SUFFICES ASSUME u.exit = None PROVE CountInv(u, s, ring, test)
  BY <1>1
<1>3. fn = "main" /\ pc = "make" /\ u = ThreadYield(g)
  BY <1>1 DEF YieldMain, On, At
<1>4. Same(g, u, {}) /\ u.semas = g.semas
  BY <1>2, <1>3, YieldRuns DEF Done
<1>5. Stepped(g, u, D, pc, Me.n)
  BY <1>1, <1>4, SameStepped DEF Me
<1>6. Points(fn, pc) /\ \A x \in Counted : ~Owns(x, fn, pc)
  BY <1>3 DEF Points, Owns, Counted
<1>7. fn = g.threads[g.current].fn /\ pc = g.threads[g.current].pc /\ D \in {{}, {g.current}}
  BY <1>1 DEF Me
<1> QED
  BY <1>1, <1>3, <1>4, <1>5, <1>6, <1>7, QuietShared

\* A new thread owns nothing and is one of those to be made.
LEMMA CreateShared ==
  ASSUME NEW h, Steady(h), Control(h), NEW c, NEW r, NEW e, CountInv(h, c, r, e), ~AtBegin(h),
         MakesOK(e.makes), Free(h) # {},
         NEW fn \in Fns, NEW pc \in Pcs, Points(fn, pc), \A x \in Counted : ~Owns(x, fn, pc),
         fn # "main", fn \in DOMAIN e.makes, e.makes[fn] > 0,
         NEW d, d.makes = [e.makes EXCEPT ![fn] = @ - 1], d.expected = e.expected
  PROVE  CountInv(ThreadCreate(h, fn, pc), c, r, d) /\ MakesOK(d.makes)
<1>1. PICK u, new : u = ThreadCreate(h, fn, pc) /\ new = u.current
  OBVIOUS
<1>2. /\ Steady(u) /\ u.semas = h.semas /\ h.threads[new] = None
      /\ u.threads[new] = Thread("RUNNING", fn, pc)
      /\ \A t \in Tids \ {new} :
           /\ u.threads[t] # None <=> h.threads[t] # None
           /\ u.threads[t] # None =>
                /\ u.threads[t].fn = h.threads[t].fn /\ u.threads[t].pc = h.threads[t].pc
  BY <1>1, CreateIs
<1>3. new \in Tids /\ u.threads[new] # None
  BY <1>1, <1>2, CurrentIs
<1>4. u.threads[new].fn = fn /\ u.threads[new].pc = pc
  BY <1>2 DEF Thread
<1>5. DOMAIN d.makes = DOMAIN e.makes
  OBVIOUS
<1>6. PointsOK(u, d.makes)
  <2> SUFFICES ASSUME NEW t \in Tids, u.threads[t] # None
      PROVE  /\ Points(u.threads[t].fn, u.threads[t].pc)
             /\ u.threads[t].fn = "main" \/ u.threads[t].fn \in DOMAIN d.makes
    BY DEF PointsOK
  <2>1. CASE t = new
    BY <1>4, <1>5, <2>1
  <2>2. CASE t # new
    BY <1>2, <1>5, <2>2 DEF CountInv, PointsOK
  <2> QED
    BY <2>1, <2>2
<1>7. WaitsOK(u)
  <2> SUFFICES ASSUME NEW x \in Semas, NEW t \in BlockedIn(h.semas, x)
      PROVE  u.threads[t].fn = "any" \/ Waits(x, u.threads[t].fn, u.threads[t].pc)
    BY <1>2 DEF WaitsOK
  <2>1. t \in Tids /\ h.threads[t] # None
    BY SteadySemas
  <2>2. u.threads[t].fn = h.threads[t].fn /\ u.threads[t].pc = h.threads[t].pc
    BY <1>2, <2>1
  <2> QED
    BY <2>2 DEF CountInv, WaitsOK
<1>8. ASSUME NEW x \in Counted PROVE Level(u, x) = Level(h, x)
  <2>1. new \notin Owners(h, x)
    BY <1>2 DEF Owners
  <2>2. new \notin Owners(u, x)
    BY <1>4 DEF Owners
  <2>3. \A t \in Tids : t # new => (t \in Owners(u, x) <=> t \in Owners(h, x))
    BY <1>2 DEF Owners
  <2>4. Owners(u, x) = Owners(h, x)
    BY <2>1, <2>2, <2>3 DEF Owners
  <2> QED
    BY <1>2, <2>4 DEF Level
<1>9. ASSUME NEW f PROVE Doing(u, f) = IF f = fn THEN Doing(h, f) \cup {new} ELSE Doing(h, f)
  <2>1. \A t \in Tids : t # new => (t \in Doing(u, f) <=> t \in Doing(h, f))
    BY <1>2 DEF Doing
  <2>2. new \in Doing(u, f) <=> f = fn
    BY <1>3, <1>4 DEF Doing
  <2>3. new \notin Doing(h, f)
    BY <1>2 DEF Doing
  <2> QED
    BY <1>3, <2>1, <2>2, <2>3 DEF Doing
<1>10. e.makes[fn] \in Nat /\ MakesOK(d.makes)
  <2>1. CASE e.makes = <<>>
    BY <2>1
  <2>2. CASE e.makes \in [{"any"} -> Nat]
    BY <2>2 DEF MakesOK
  <2>3. CASE e.makes \in [{"producer", "consumer"} -> Nat]
    BY <2>3 DEF MakesOK
  <2>4. CASE e.makes \in [{"barber", "customer"} -> Nat]
    BY <2>4 DEF MakesOK
  <2> QED
    BY <2>1, <2>2, <2>3, <2>4 DEF MakesOK
<1>11. ASSUME NEW f \in DOMAIN e.makes, Staying(h, f, e) PROVE Staying(u, f, d)
  <2>1. CASE f # fn
    BY <1>9, <2>1, <1>11 DEF Staying
  <2>2. CASE f = fn
    <3>1. Doing(u, f) = Doing(h, f) \cup {new} /\ new \notin Doing(h, f)
      BY <1>2, <1>9, <2>2 DEF Doing
    <3>2. Cardinality(Doing(u, f)) = Cardinality(Doing(h, f)) + 1
      BY <3>1, DoingFinite, FS_AddElement
    <3>3. d.makes[f] = e.makes[f] - 1
      BY <2>2
    <3> QED
      BY <1>10, <1>11, <2>2, <3>2, <3>3, DoingFinite DEF Staying
  <2> QED
    BY <2>1, <2>2
<1>12. ~AtBegin(u)
  BY <1>2, <1>4, TidsFinite DEF AtBegin
<1>13. /\ Level(u, "lock") = Level(h, "lock") /\ Level(u, "empty") = Level(h, "empty")
       /\ Level(u, "full") = Level(h, "full") /\ Level(u, "seats") = Level(h, "seats")
       /\ Level(u, "waiting") = Level(h, "waiting")
  BY <1>8 DEF Counted
<1>14. SlotsOK(u, r, d)
  <2> SUFFICES ASSUME "producer" \in DOMAIN e.makes
      PROVE  /\ Level(u, "lock") = 1 /\ Level(u, "empty") + Len(r) = NSLOTS /\ Level(u, "full") = Len(r)
             /\ r # <<>> => Doing(u, "producer") # {}
             /\ Staying(u, "producer", d)
    BY <1>5 DEF SlotsOK
  <2>1. /\ Level(h, "lock") = 1 /\ Level(h, "empty") + Len(r) = NSLOTS /\ Level(h, "full") = Len(r)
        /\ r # <<>> => Doing(h, "producer") # {}
        /\ Staying(h, "producer", e)
    BY DEF CountInv, SlotsOK
  <2>2. Staying(u, "producer", d)
    BY <1>11, <2>1
  <2>3. Doing(h, "producer") \subseteq Doing(u, "producer")
    BY <1>9
  <2> QED
    BY <1>13, <2>1, <2>2, <2>3
<1>15. ShopOK(u, d)
  BY <1>5, <1>11, <1>13 DEF CountInv, ShopOK
<1> QED
  BY <1>1, <1>6, <1>7, <1>10, <1>12, <1>13, <1>14, <1>15 DEF CountInv

LEMMA MakeShared ==
  ASSUME Steady(g), Control(g), TestInv, MakesOK(test.makes), CountInv(g, s, ring, test), Make
  PROVE  CountInv(g', s, ring, test') /\ MakesOK(test'.makes)
<1>1. PICK fn \in DOMAIN Code : Create(fn) /\ g' = ThreadCreate(g, fn, "begin")
  BY DEF Make
<1>2. fn \in Fns /\ fn \in {"producer", "consumer", "barber", "customer"}
  BY DEF Code, Fns
<1>3. PICK pc \in Pcs : pc = "begin"
  BY DEF Pcs
<1>4. Points(fn, pc) /\ \A x \in Counted : ~Owns(x, fn, pc)
  BY <1>2, <1>3 DEF Points, Owns, Counted
<1>5. fn \in DOMAIN test.makes /\ test.makes[fn] > 0 /\ Free(g) # {}
  BY <1>1 DEF Create
<1>6. ~AtBegin(g)
  BY DEF Make, At, Me, AtBegin, Control
<1>7. PICK e, d : e = test /\ d = test'
  OBVIOUS
<1>8. d.makes = [e.makes EXCEPT ![fn] = @ - 1] /\ d.expected = e.expected
  BY <1>1, <1>7 DEF Create, TestInv
<1>9. g' = ThreadCreate(g, fn, pc)
  BY <1>1, <1>3
<1>10. CountInv(ThreadCreate(g, fn, pc), s, ring, d) /\ MakesOK(d.makes)
  BY <1>2, <1>4, <1>5, <1>6, <1>7, <1>8, CreateShared
<1> QED
  BY <1>7, <1>9, <1>10

\* Threads that make any call leave the others' ring and shop alone.
LEMMA AnyShared ==
  ASSUME Steady(g), Control(g), TestInv, MakesOK(test.makes), CountInv(g, s, ring, test), AnyCall
  PROVE  MakesOK(test'.makes) /\ (g'.exit # None \/ CountInv(g', s, ring, test'))
<1>1. PICK h, n, t : h = Count("any") /\ n = Me.n + 1 /\ t = g.current
  OBVIOUS
<1>2. PICK pc \in Pcs, fn \in Fns : pc = "any" /\ fn = "any"
  BY DEF Pcs, Fns
<1>3. Me.fn = fn /\ Me = g.threads[t] /\ t \in Tids /\ g.threads[t] # None
  BY <1>1, <1>2, CurrentIs DEF AnyCall, On, Me
<1>4. PointsOK(g, test.makes) /\ WaitsOK(g)
  BY DEF CountInv
<1>5. Me.pc = pc /\ fn \in DOMAIN test.makes
  <2>1. Points(Me.fn, Me.pc) /\ (Me.fn = "main" \/ Me.fn \in DOMAIN test.makes)
    BY <1>3, <1>4 DEF PointsOK
  <2> QED
    BY <1>2, <1>3, <2>1 DEF Points
<1>6. "producer" \notin DOMAIN test.makes /\ "barber" \notin DOMAIN test.makes
  BY <1>2, <1>5 DEF MakesOK
<1>7. Points(fn, pc) /\ \A x \in Counted : ~Owns(x, fn, pc)
  BY <1>2 DEF Points, Owns, Counted
<1>8. Moved(g, h, Me.fn, pc, n)
  BY <1>1, <1>2, CountIs
<1>9. Steady(h) /\ h.current = t /\ h.threads[t].fn = fn /\ h.semas = g.semas
  BY <1>1, <1>3, <1>8 DEF Moved, Kept
<1>10. PICK D : D = {} /\ D \in {{}, {g.current}}
  OBVIOUS
<1>11. ASSUME NEW u, Stepped(g, u, D, pc, n), u.semas = g.semas PROVE CountInv(u, s, ring, test)
  <2>1. /\ Points(g.threads[g.current].fn, pc)
        /\ \A x \in Counted : ~Owns(x, g.threads[g.current].fn, g.threads[g.current].pc)
                              /\ ~Owns(x, g.threads[g.current].fn, pc)
        /\ g.threads[g.current].fn # "main"
    BY <1>1, <1>2, <1>3, <1>5, <1>7
  <2> QED
    BY <1>10, <1>11, <2>1, QuietShared
<1>12. CASE Create("any") /\ g' = ThreadCreate(h, fn, pc)
  <2>1. Stepped(g, h, D, pc, n)
    <3>1. Same(h, h, {})
      BY DEF Same
    <3> QED
      BY <1>3, <1>1, <1>8, <1>10, <3>1, MovedSame DEF Me
  <2>2. CountInv(h, s, ring, test)
    BY <1>9, <1>11, <2>1
  <2>3. Control(h) /\ ~AtBegin(h)
    BY <1>1, <1>2, <1>3, <2>1, SteppedControl, SteppedBegin
  <2>4. Free(h) # {} /\ test.makes[fn] > 0
    <3>1. PICK b \in Tids : g.threads[b] = None
      BY <1>12 DEF Create, Free
    <3>2. h.threads[b] = None
      BY <2>1, <3>1 DEF Stepped
    <3> QED
      BY <1>2, <1>12, <3>2 DEF Create, Free
  <2>5. PICK e, d : e = test /\ d = test'
    OBVIOUS
  <2>6. d.makes = [e.makes EXCEPT ![fn] = @ - 1] /\ d.expected = e.expected
    BY <1>2, <1>12, <2>5 DEF Create, TestInv
  <2>7. CountInv(ThreadCreate(h, fn, pc), s, ring, d) /\ MakesOK(d.makes)
    BY <1>2, <1>5, <1>7, <1>9, <2>2, <2>3, <2>4, <2>5, <2>6, CreateShared
  <2> QED
    BY <1>12, <2>5, <2>7
<1>13. CASE UNCHANGED test /\ g' = ThreadYield(h)
  <2>1. PICK u : u = g'
    OBVIOUS
  <2>2. u.exit # None \/ (Same(h, u, {}) /\ u.semas = h.semas)
    BY <1>2, <1>9, <1>13, <2>1, YieldRuns DEF Done
  <2>3. Same(h, u, {}) => Stepped(g, u, D, pc, n)
    BY <1>1, <1>3, <1>8, <1>10, MovedSame DEF Me
  <2> QED
    BY <1>9, <1>11, <1>13, <2>1, <2>2, <2>3
<1>14. ASSUME NEW u, NEW x \in {"lock", "full"}, Stepped(g, u, {}, pc, n), Took(g, u, x) \/ Gave(g, u, x)
       PROVE  CountInv(u, s, ring, test)
  <2>1. x \in Semas /\ g.threads[g.current].fn = "any" /\ g.threads[g.current].fn = fn
    BY <1>1, <1>2, <1>3 DEF Semas
  <2>2. PointsOK(u, test.makes)
    BY <1>1, <1>3, <1>4, <1>7, <1>14, SteppedPoints
  <2>3. WaitsOK(u)
    <3>1. CASE Took(g, u, x)
      BY <1>4, <1>14, <2>1, <3>1, TookWaits
    <3>2. CASE Gave(g, u, x)
      BY <1>4, <1>14, <2>1, <3>2, GaveWaits
    <3> QED
      BY <1>14, <3>1, <3>2
  <2>4. ~AtBegin(g) /\ ~AtBegin(u)
    BY <1>14, <2>1, SteppedBegin
  <2>5. PICK y \in Semas : y = "waiting" /\ y # x
    BY DEF Semas
  <2>6. Spared(g, u, y)
    BY <1>14, <2>5 DEF Took, Gave, OthersKept, Spared
  <2>7. Owns(y, g.threads[g.current].fn, g.threads[g.current].pc) <=> Owns(y, g.threads[g.current].fn, pc)
    BY <1>1, <1>3, <1>5
  <2>8. Level(u, y) = Level(g, y)
    BY <1>14, <2>6, <2>7, KeptLevel
  <2>9. SlotsOK(u, ring, test) /\ ShopOK(u, test)
    BY <1>6 DEF SlotsOK, ShopOK
  <2> QED
    BY <2>2, <2>3, <2>4, <2>5, <2>8, <2>9 DEF CountInv
<1>15. CASE UNCHANGED test /\ \E x \in {"lock", "full"} : g' = SemaDec(h, x)
  <2>1. PICK x \in {"lock", "full"} : g' = SemaDec(h, x)
    BY <1>15
  <2>2. x \in Semas
    BY DEF Semas
  <2>3. PICK u : u = g'
    OBVIOUS
  <2>4. u.exit # None \/ (Stepped(g, u, {}, pc, n) /\ Took(g, u, x))
    BY <1>8, <2>1, <2>2, <2>3, DecStep
  <2> QED
    BY <1>14, <1>15, <2>3, <2>4
<1>16. CASE UNCHANGED test /\ \E x \in {"lock", "full"} : g' = SemaInc(h, x)
  <2>1. PICK x \in {"lock", "full"} : g' = SemaInc(h, x)
    BY <1>16
  <2>2. x \in Semas
    BY DEF Semas
  <2>3. PICK u : u = g'
    OBVIOUS
  <2>4. Stepped(g, u, {}, pc, n) /\ Gave(g, u, x)
    BY <1>8, <2>1, <2>2, <2>3, IncStep
  <2> QED
    BY <1>14, <1>16, <2>3, <2>4
<1> QED
  BY <1>1, <1>2, <1>12, <1>13, <1>15, <1>16 DEF AnyCall

-----------------------------------------------------------------------------
(* The ends of the tests.                                                   *)

\* Only main's thread exists: nothing is owned or waited for.
LEMMA AloneIs ==
  ASSUME NEW h, Steady(h), h.current = Main, In(h.runQueue) = {}, AllBlocked(h.semas) = {}
  PROVE  /\ \A t \in Tids \ {Main} : h.threads[t] = None
         /\ h.threads[Main] # None /\ WaitsOK(h)
         /\ \A x \in Counted : ~Owns(x, h.threads[Main].fn, h.threads[Main].pc) =>
              Level(h, x) = h.semas[x].count
         /\ \A fn : h.threads[Main].fn # fn => Cardinality(Doing(h, fn)) = 0
<1>1. \A t \in Tids \ {Main} : h.threads[t] = None
  BY DEF Steady, InPlace, Places
<1>2. h.threads[Main] # None
  BY CurrentIs
<1>3. WaitsOK(h)
  BY DEF WaitsOK, AllBlocked
<1>4. ASSUME NEW x \in Counted, ~Owns(x, h.threads[Main].fn, h.threads[Main].pc)
      PROVE  Level(h, x) = h.semas[x].count
  <2>1. Owners(h, x) = {}
    BY <1>1, <1>4 DEF Owners
  <2>2. x \in Semas
    BY DEF Counted, Semas
  <2>3. h.semas[x].count \in Nat
    BY <2>2, SteadySemas
  <2> QED
    BY <2>1, <2>3, FS_EmptySet DEF Level
<1>5. ASSUME NEW fn, h.threads[Main].fn # fn PROVE Cardinality(Doing(h, fn)) = 0
  <2>1. Doing(h, fn) = {}
    BY <1>1, <1>5 DEF Doing
  <2> QED
    BY <2>1, FS_EmptySet
<1> QED
  BY <1>1, <1>2, <1>3, <1>4, <1>5

\* When all wait for one of two semaphores, and x is the lock they take last, they
\* all wait for the other, y.
LEMMA AllWait ==
  ASSUME NEW h, Steady(h), In(h.runQueue) = {}, NEW x \in Counted, NEW y \in Counted,
         ~Owns(x, h.threads[h.current].fn, h.threads[h.current].pc),
         ~Owns(y, h.threads[h.current].fn, h.threads[h.current].pc),
         AllBlocked(h.semas) # {}, Level(h, x) = 1,
         AllBlocked(h.semas) = BlockedIn(h.semas, x) \cup BlockedIn(h.semas, y),
         \A t \in BlockedIn(h.semas, y) : ~Owns(x, h.threads[t].fn, h.threads[t].pc)
  PROVE  Level(h, y) = 0
<1>1. x \in Semas /\ y \in Semas
  BY DEF Counted, Semas
<1>2. ASSUME NEW t \in Tids, h.threads[t] # None, t # h.current PROVE t \in AllBlocked(h.semas)
  BY <1>2 DEF Steady, InPlace, Places
<1>3. BlockedIn(h.semas, x) = {}
  <2> SUFFICES ASSUME BlockedIn(h.semas, x) # {} PROVE FALSE
    OBVIOUS
  <2>1. h.semas[x].count = 0
    BY <1>1, SteadySemas
  <2>2. Cardinality(Owners(h, x)) = 1
    BY <2>1, OwnersFinite DEF Level
  <2>3. PICK o : o \in Owners(h, x)
    BY <2>2, FS_EmptySet
  <2>4. /\ o \in Tids /\ h.threads[o] # None /\ o \notin BlockedIn(h.semas, x)
        /\ Owns(x, h.threads[o].fn, h.threads[o].pc)
    BY <2>3 DEF Owners
  <2>5. o \in BlockedIn(h.semas, y)
    BY <1>2, <2>4
  <2> QED
    BY <2>4, <2>5
<1>4. h.semas[y].count = 0
  BY <1>1, <1>3, SteadySemas
<1>5. Owners(h, y) = {}
  <2> SUFFICES ASSUME NEW o \in Owners(h, y) PROVE FALSE
    OBVIOUS
  <2>1. /\ o \in Tids /\ h.threads[o] # None /\ o \notin BlockedIn(h.semas, y)
        /\ Owns(y, h.threads[o].fn, h.threads[o].pc)
    BY DEF Owners
  <2> QED
    BY <1>2, <1>3, <2>1
<1> QED
  BY <1>4, <1>5, FS_EmptySet DEF Level

LEMMA BeginShared ==
  ASSUME Steady(g), Control(g), TestInv, s \in SharedType, CountInv(g, s, ring, test), BeginTest
  PROVE  ring' = <<>> /\ s' = s /\ MakesOK(test'.makes) /\ CountInv(g', s, <<>>, test')
<1>1. Me.fn = "main" /\ Me.pc = "begin" /\ test.left # <<>> /\ ring' = <<>> /\ s' = s
  BY DEF BeginTest, On, At
<1>2. g.current = Main /\ In(g.runQueue) = {} /\ AllBlocked(g.semas) = {} /\ AtBegin(g)
  BY <1>1, MeIs DEF Control, Me, AtBegin
<1>3. s.in = s.out /\ s.seats = NSeats /\ s.in \in 0..NSLOTS - 1
  BY <1>2 DEF CountInv, SharedType
<1>4. PICK t : t = Head(test.left)
  OBVIOUS
<1>5. t \in Test
  <2>1. test.left \in Seq(Test)
    BY DEF TestInv
  <2> QED
    BY <1>1, <1>4, <2>1
<1>6. PICK counts, e : counts = Initial(t.kind) /\ e = test'
  OBVIOUS
<1>7. t.kind \in {"slots", "barber", "any"}
  BY <1>5 DEF Test
<1>8. \A x \in Semas \cap DOMAIN counts : counts[x] \in Nat
  BY <1>6, <1>7, InitialIs
<1>9. PICK ready : ready = Ready(g, counts)
  OBVIOUS
<1>10. /\ Steady(ready) /\ ready.current = Main /\ ready.threads = g.threads
       /\ ready.runQueue = g.runQueue /\ AllBlocked(ready.semas) = {}
       /\ \A x \in Semas : ready.semas[x].count = IF x \in DOMAIN counts THEN counts[x]
                                                  ELSE g.semas[x].count
  BY <1>2, <1>8, <1>9, ReadyIs
<1>11. /\ e = [left |-> Tail(test.left), makes |-> t.makes, expected |-> Remaining(t)]
       /\ g' = IF t.kind = "any" THEN ToMain(ready, "any", "any") ELSE ToMain(ready, "main", "make")
  BY <1>4, <1>6, <1>9 DEF BeginTest, Ready
<1>12. e.makes = t.makes /\ e.expected = Remaining(t)
  BY <1>11
<1>13. PICK fn \in Fns, pc \in Pcs :
         /\ t.kind = "any" => fn = "any" /\ pc = "any"
         /\ t.kind # "any" => fn = "main" /\ pc = "make"
         /\ g' = ToMain(ready, fn, pc)
  BY <1>11 DEF Fns, Pcs
<1>14. PICK u : u = g'
  OBVIOUS
<1>15. Moved(ready, u, fn, pc, ready.threads[Main].n)
  BY <1>10, <1>13, <1>14, ToMainIs
<1>16. /\ Steady(u) /\ u.current = Main /\ In(u.runQueue) = {} /\ AllBlocked(u.semas) = {}
       /\ u.threads[Main].fn = fn /\ u.threads[Main].pc = pc /\ u.semas = ready.semas
  BY <1>2, <1>10, <1>15 DEF Moved, Kept
<1>17. /\ \A x \in Counted : ~Owns(x, fn, pc)
       /\ Points(fn, pc) /\ (fn = "main" \/ (t.kind = "any" /\ fn = "any")) /\ pc # "begin"
  <2>1. CASE t.kind = "any"
    <3>1. fn = "any" /\ pc = "any"
      BY <1>13, <2>1
    <3>2. \A x \in Counted : ~Owns(x, fn, pc)
      BY <3>1 DEF Owns, Counted
    <3>3. Points(fn, pc)
      BY <3>1 DEF Points
    <3> QED
      BY <2>1, <3>1, <3>2, <3>3
  <2>2. CASE t.kind # "any"
    <3>1. fn = "main" /\ pc = "make"
      BY <1>13, <2>2
    <3>2. \A x \in Counted : ~Owns(x, fn, pc)
      BY <3>1 DEF Owns, Counted
    <3>3. Points(fn, pc)
      BY <3>1 DEF Points
    <3> QED
      BY <2>2, <3>1, <3>2, <3>3
  <2> QED
    BY <2>1, <2>2
<1>18. /\ \A c \in Tids \ {Main} : u.threads[c] = None
       /\ u.threads[Main] # None /\ WaitsOK(u)
       /\ \A x \in Counted : Level(u, x) = u.semas[x].count
       /\ \A f : fn # f => Cardinality(Doing(u, f)) = 0
  BY <1>16, <1>17, AloneIs
<1>19. ASSUME NEW x \in Counted
       PROVE  Level(u, x) = IF x \in DOMAIN counts THEN counts[x] ELSE g.semas[x].count
  <2>1. x \in Semas
    BY DEF Counted, Semas
  <2> QED
    BY <1>10, <1>16, <1>18, <2>1
<1>20. g.semas["waiting"].count = 0
  <2>1. PICK x \in Counted : x = "waiting"
    BY DEF Counted
  <2>2. Level(g, x) + s.seats = NSeats
    BY <2>1 DEF CountInv
  <2>3. Level(g, x) \in Nat /\ g.semas[x].count \in Nat /\ Cardinality(Owners(g, x)) \in Nat
    BY LevelIs, OwnersFinite, SteadySemas DEF Counted, Semas
  <2> QED
    BY <1>3, <2>1, <2>2, <2>3, BoundAssumption DEF Level
<1>21. ~AtBegin(u)
  BY <1>16, <1>17 DEF AtBegin
<1>22. RingOK(s, <<>>)
  <2>1. NSLOTS \in Nat /\ NSLOTS > 0
    BY SlotsAssumption
  <2>2. PICK k \in Nat : k = s.in /\ k < NSLOTS /\ k < 2 * NSLOTS
    BY <1>3, <2>1
  <2>3. k % NSLOTS = k
    BY <2>1, <2>2, ModIs
  <2>4. s.out + Len(<<>>) = k
    BY <1>3, <2>2
  <2> QED
    BY <2>1, <2>2, <2>3, <2>4 DEF RingOK
<1>23. CASE t.kind = "slots"
  <2>1. t.makes \in [{"producer", "consumer"} -> Nat] /\ e.expected = t.makes["producer"]
    BY <1>5, <1>12, <1>23 DEF Test, Remaining
  <2>2. counts = [lock |-> 1, full |-> 0, empty |-> NSLOTS]
    BY <1>6, <1>23 DEF Initial
  <2>3. /\ Level(u, "lock") = 1 /\ Level(u, "full") = 0 /\ Level(u, "empty") = NSLOTS
        /\ Level(u, "waiting") = 0
    BY <1>19, <1>20, <2>2 DEF Counted
  <2>4. Cardinality(Doing(u, "producer")) = 0
    BY <1>13, <1>18, <1>23
  <2>5. Staying(u, "producer", e)
    BY <1>12, <2>1, <2>4 DEF Staying
  <2>6. SlotsOK(u, <<>>, e)
    BY <2>3, <2>5, SlotsAssumption DEF SlotsOK
  <2>7. "barber" \notin DOMAIN e.makes
    BY <1>12, <2>1
  <2>8. PointsOK(u, e.makes)
    BY <1>13, <1>16, <1>17, <1>18, <1>23 DEF PointsOK
  <2> QED
    BY <1>1, <1>3, <1>6, <1>12, <1>14, <1>18, <1>21, <1>22, <2>1, <2>3, <2>6, <2>7, <2>8,
       BoundAssumption DEF CountInv, ShopOK, MakesOK
<1>24. CASE t.kind = "barber"
  <2>1. /\ t.makes \in [{"barber", "customer"} -> Nat] /\ t.makes.barber > 0
        /\ e.expected = t.makes["barber"]
    BY <1>5, <1>12, <1>24 DEF Test, Remaining
  <2>2. counts = [ready |-> 1, waiting |-> 0, seats |-> 1]
    BY <1>6, <1>24 DEF Initial
  <2>3. Level(u, "seats") = 1 /\ Level(u, "waiting") = 0
    BY <1>19, <2>2 DEF Counted
  <2>4. Cardinality(Doing(u, "barber")) = 0
    BY <1>13, <1>18, <1>24
  <2>5. Staying(u, "barber", e)
    BY <1>12, <2>1, <2>4 DEF Staying
  <2>6. ShopOK(u, e)
    BY <2>1, <2>3, <2>5 DEF ShopOK
  <2>7. "producer" \notin DOMAIN e.makes
    BY <1>12, <2>1
  <2>8. PointsOK(u, e.makes)
    BY <1>13, <1>16, <1>17, <1>18, <1>24 DEF PointsOK
  <2> QED
    BY <1>1, <1>3, <1>6, <1>12, <1>14, <1>18, <1>21, <1>22, <2>1, <2>3, <2>6, <2>7, <2>8,
       BoundAssumption DEF CountInv, SlotsOK, MakesOK
<1>25. CASE t.kind = "any"
  <2>1. t.makes \in [{"any"} -> Nat]
    BY <1>5, <1>25 DEF Test
  <2>2. counts = [lock |-> 1, full |-> 0]
    BY <1>6, <1>25 DEF Initial
  <2>3. Level(u, "waiting") = 0
    BY <1>19, <1>20, <2>2 DEF Counted
  <2>4. "producer" \notin DOMAIN e.makes /\ "barber" \notin DOMAIN e.makes /\ "any" \in DOMAIN e.makes
    BY <1>12, <2>1
  <2>5. PointsOK(u, e.makes)
    BY <1>16, <1>17, <1>18, <2>4 DEF PointsOK
  <2> QED
    BY <1>1, <1>3, <1>6, <1>12, <1>14, <1>18, <1>21, <1>22, <2>1, <2>3, <2>4, <2>5,
       BoundAssumption DEF CountInv, SlotsOK, ShopOK, MakesOK
<1> QED
  BY <1>7, <1>23, <1>24, <1>25

\* At the end of a test only those that never return are left, and all are blocked:
\* producers on "empty", so the ring is full, or barbers on "waiting", so all seats are
\* free.  If there are no producers, nothing has been put in the ring.
LEMMA EndIs ==
  ASSUME Steady(g), Control(g), TestInv, s \in SharedType, ring \in Seq(Tids), MakesOK(test.makes),
         CountInv(g, s, ring, test), On("main"), At("make"), Made, In(g.runQueue) = {},
         g.numBlocked = test.expected
  PROVE  s.in = s.out /\ s.seats = NSeats
<1>1. Me.fn = "main" /\ Me.pc = "make" /\ g.current = Main /\ Me = g.threads[Main]
  <2>1. Me.fn = "main" /\ Me.pc = "make"
    BY DEF On, At
  <2> QED
    BY <2>1, MeIs DEF Me
<1>2. PICK B : B = AllBlocked(g.semas)
  OBVIOUS
<1>3. g \in Globals /\ Places(g.threads, g.runQueue, g.semas, g.numBlocked, {Main})
  BY <1>1 DEF Steady, InPlace
<1>4. B \subseteq Tids /\ Cardinality(B) = test.expected
  <2>1. AllBlocked(g.semas) \subseteq Tids
    BY InPlaceParts DEF Steady
  <2> QED
    BY <1>2, <1>3, <2>1 DEF Places
<1>5. ASSUME NEW t \in Tids, g.threads[t] # None, t # Main PROVE t \in B
  BY <1>2, <1>3, <1>5 DEF Places
<1>6. IsFiniteSet(B)
  BY <1>4, TidsFinite, FS_Subset
<1>7. ASSUME NEW fn \in DOMAIN test.makes, fn # "main", Staying(g, fn, test) PROVE B = Doing(g, fn)
  <2>1. Doing(g, fn) \subseteq B
    BY <1>1, <1>5, <1>7 DEF Doing
  <2>2. test.makes[fn] = 0
    BY DEF Made
  <2>3. Cardinality(Doing(g, fn)) = Cardinality(B)
    BY <1>4, <1>7, <2>2, DoingFinite DEF Staying
  <2> QED
    BY <1>6, <2>1, <2>3, FS_Subset
<1>8. ~AtBegin(g)
  BY <1>1 DEF AtBegin
<1>9. \A x \in Counted : ~Owns(x, g.threads[g.current].fn, g.threads[g.current].pc)
  BY <1>1 DEF Owns, Counted
<1>10. ASSUME NEW t \in B, NEW fn \in {"producer", "barber"}, B = Doing(g, fn)
       PROVE  \E x \in Semas : /\ t \in BlockedIn(g.semas, x) /\ g.threads[t].fn = fn
                               /\ Waits(x, fn, g.threads[t].pc) /\ Points(fn, g.threads[t].pc)
  <2>1. t \in Tids /\ g.threads[t] # None /\ g.threads[t].fn = fn
    BY <1>10 DEF Doing
  <2>2. PICK x \in Semas : t \in BlockedIn(g.semas, x)
    BY <1>2 DEF AllBlocked
  <2>3. Waits(x, fn, g.threads[t].pc)
    BY <2>1, <2>2 DEF CountInv, WaitsOK
  <2>4. Points(fn, g.threads[t].pc)
    BY <2>1 DEF CountInv, PointsOK
  <2> QED
    BY <2>1, <2>2, <2>3, <2>4
<1>11. CASE "producer" \in DOMAIN test.makes
  <2>1. /\ Level(g, "lock") = 1 /\ Level(g, "empty") + Len(ring) = NSLOTS
        /\ ring # <<>> => Doing(g, "producer") # {}
        /\ Staying(g, "producer", test)
    BY <1>8, <1>11 DEF CountInv, SlotsOK
  <2>2. B = Doing(g, "producer")
    BY <1>7, <1>11, <2>1
  <2>3. PICK x \in Counted, y \in Counted : x = "lock" /\ y = "empty"
    BY DEF Counted
  <2>4. ASSUME NEW t \in B
        PROVE  \/ t \in BlockedIn(g.semas, x)
               \/ t \in BlockedIn(g.semas, y) /\ ~Owns(x, g.threads[t].fn, g.threads[t].pc)
    <3>1. PICK z \in Semas : /\ t \in BlockedIn(g.semas, z) /\ g.threads[t].fn = "producer"
                             /\ Waits(z, "producer", g.threads[t].pc)
                             /\ Points("producer", g.threads[t].pc)
      BY <1>10, <2>2
    <3>2. z = x \/ (z = y /\ g.threads[t].pc = "lock")
      BY <2>3, <3>1 DEF Waits, Points
    <3>3. ~Owns(x, "producer", "lock")
      BY <2>3 DEF Owns
    <3> QED
      BY <3>1, <3>2, <3>3
  <2>5. Level(g, y) = 0 \/ B = {}
    <3>1. SUFFICES ASSUME B # {} PROVE Level(g, y) = 0
      OBVIOUS
    <3>2. BlockedIn(g.semas, x) \subseteq B /\ BlockedIn(g.semas, y) \subseteq B
      BY <1>2 DEF AllBlocked, Counted, Semas
    <3>3. B = BlockedIn(g.semas, x) \cup BlockedIn(g.semas, y)
      BY <2>4, <3>2
    <3>4. \A t \in BlockedIn(g.semas, y) : ~Owns(x, g.threads[t].fn, g.threads[t].pc)
      <4> SUFFICES ASSUME NEW t \in BlockedIn(g.semas, y)
          PROVE  ~Owns(x, g.threads[t].fn, g.threads[t].pc)
        OBVIOUS
      <4>1. t \notin BlockedIn(g.semas, x)
        BY <1>3, <2>3 DEF Places, Counted, Semas
      <4> QED
        BY <2>4, <3>2, <4>1
    <3> QED
      BY <1>2, <1>9, <2>1, <2>3, <3>1, <3>3, <3>4, AllWait
  <2>6. Len(ring) = 0 \/ Len(ring) = NSLOTS
    <3>1. ring = <<>> \/ B # {}
      BY <2>1, <2>2
    <3> QED
      BY <2>1, <2>3, <2>5, <3>1, SlotsAssumption
  <2>7. s.in = s.out
    <3>1. NSLOTS \in Nat /\ NSLOTS > 0
      BY SlotsAssumption
    <3>2. s.out \in 0..NSLOTS - 1
      BY DEF SharedType
    <3>3. (s.out + Len(ring)) % NSLOTS = s.in
      BY DEF CountInv, RingOK
    <3>4. PICK k \in Nat : k = s.out + Len(ring)
      BY <3>2
    <3>5. k < 2 * NSLOTS
      BY <2>6, <3>1, <3>2, <3>4
    <3>6. k % NSLOTS = IF k < NSLOTS THEN k ELSE k - NSLOTS
      BY <3>5, ModIs
    <3>7. k % NSLOTS = s.in
      BY <3>3, <3>4
    <3>8. CASE Len(ring) = 0
      BY <3>1, <3>2, <3>4, <3>6, <3>7, <3>8
    <3>9. CASE Len(ring) = NSLOTS
      BY <3>1, <3>2, <3>4, <3>6, <3>7, <3>9
    <3> QED
      BY <2>6, <3>8, <3>9
  <2>8. "barber" \notin DOMAIN test.makes
    BY <1>11 DEF MakesOK
  <2> QED
    BY <2>7, <2>8 DEF CountInv
<1>12. CASE "barber" \in DOMAIN test.makes
  <2>1. Level(g, "seats") = 1 /\ Staying(g, "barber", test) /\ test.expected > 0
    BY <1>8, <1>12 DEF CountInv, ShopOK
  <2>2. B = Doing(g, "barber")
    BY <1>7, <1>12, <2>1
  <2>3. PICK x \in Counted, y \in Counted : x = "seats" /\ y = "waiting"
    BY DEF Counted
  <2>4. ASSUME NEW t \in B
        PROVE  \/ t \in BlockedIn(g.semas, x)
               \/ t \in BlockedIn(g.semas, y) /\ ~Owns(x, g.threads[t].fn, g.threads[t].pc)
    <3>1. PICK z \in Semas : /\ t \in BlockedIn(g.semas, z) /\ g.threads[t].fn = "barber"
                             /\ Waits(z, "barber", g.threads[t].pc)
                             /\ Points("barber", g.threads[t].pc)
      BY <1>10, <2>2
    <3>2. z = x \/ (z = y /\ g.threads[t].pc = "seats")
      BY <2>3, <3>1 DEF Waits, Points
    <3>3. ~Owns(x, "barber", "seats")
      BY <2>3 DEF Owns
    <3> QED
      BY <3>1, <3>2, <3>3
  <2>5. B # {}
    <3> SUFFICES ASSUME B = {} PROVE FALSE
      OBVIOUS
    <3>1. Cardinality(B) = 0
      BY FS_EmptySet
    <3> QED
      BY <1>4, <2>1, <3>1
  <2>6. Level(g, y) = 0
    <3>2. BlockedIn(g.semas, x) \subseteq B /\ BlockedIn(g.semas, y) \subseteq B
      BY <1>2 DEF AllBlocked, Counted, Semas
    <3>3. B = BlockedIn(g.semas, x) \cup BlockedIn(g.semas, y)
      BY <2>4, <3>2
    <3>4. \A t \in BlockedIn(g.semas, y) : ~Owns(x, g.threads[t].fn, g.threads[t].pc)
      <4> SUFFICES ASSUME NEW t \in BlockedIn(g.semas, y)
          PROVE  ~Owns(x, g.threads[t].fn, g.threads[t].pc)
        OBVIOUS
      <4>1. t \notin BlockedIn(g.semas, x)
        BY <1>3, <2>3 DEF Places, Counted, Semas
      <4> QED
        BY <2>4, <3>2, <4>1
    <3> QED
      BY <1>2, <1>9, <2>1, <2>3, <2>5, <3>3, <3>4, AllWait
  <2>7. s.seats = NSeats
    <3>1. s.seats \in 0..NSeats /\ Level(g, "waiting") + s.seats = NSeats
      BY DEF CountInv, SharedType
    <3> QED
      BY <2>3, <2>6, <3>1, BoundAssumption
  <2>8. "producer" \notin DOMAIN test.makes
    BY <1>12 DEF MakesOK
  <2> QED
    BY <2>7, <2>8 DEF CountInv
<1>13. CASE "producer" \notin DOMAIN test.makes /\ "barber" \notin DOMAIN test.makes
  BY <1>13 DEF CountInv
<1> QED
  BY <1>11, <1>12, <1>13

LEMMA EndShared ==
  ASSUME Steady(g), Control(g), TestInv, s \in SharedType, ring \in Seq(Tids), MakesOK(test.makes),
         CountInv(g, s, ring, test), EndTest
  PROVE  g'.exit # None \/ CountInv(g', s, ring, test)
<1>1. On("main") /\ At("make") /\ Made /\ QueueSize(g.runQueue) = 0 /\ Me.fn = "main"
  BY DEF EndTest, On
<1>2. g.current = Main /\ In(g.runQueue) = {} /\ g \in Globals
  <2>1. g.current = Main /\ InPlace(g, {g.current})
    BY <1>1, MeIs DEF Steady
  <2> QED
    BY <1>1, <2>1, InPlaceParts DEF InPlace
<1>3. CASE g.current # Main \/ g.numBlocked # test.expected
  <2>1. g' = [g EXCEPT !.exit = 1]
    BY <1>3 DEF EndTest
  <2>2. g'.exit = 1
    BY <1>2, <2>1 DEF Globals
  <2> QED
    BY <2>2, NoneAssumption
<1>4. CASE g.current = Main /\ g.numBlocked = test.expected
  <2>1. PICK fn \in Fns, pc \in Pcs : fn = "main" /\ pc = "begin"
    BY DEF Fns, Pcs
  <2>2. PICK h, u : h = ToMain(g, fn, pc) /\ u = ReleaseAll(h)
    OBVIOUS
  <2>3. Moved(g, h, fn, pc, g.threads[Main].n)
    BY <1>2, <2>2, ToMainIs
  <2>4. /\ InPlace(h, {h.current}) /\ h.zombie = None /\ h.exit = None /\ h.current = Main
        /\ h.runQueue = g.runQueue /\ h.threads[Main].fn = fn /\ h.threads[Main].pc = pc
    BY <1>2, <2>3 DEF Moved, Steady
  <2>5. Freed(h, u, {h.current}, Semas) /\ AllBlocked(u.semas) = {}
    BY <2>2, <2>4, ReleaseAllIs
  <2>6. Steady(u)
    BY <1>2, <2>4, <2>5 DEF Freed, Steady, Runs
  <2>7. /\ u.current = Main /\ In(u.runQueue) = {}
        /\ u.threads[Main].fn = fn /\ u.threads[Main].pc = pc
    BY <1>2, <2>4, <2>5, TidsFinite DEF Freed
  <2>8. u = g'
    BY <1>4, <2>1, <2>2 DEF EndTest
  <2>9. Points(fn, pc) /\ \A x \in Counted : ~Owns(x, fn, pc)
    BY <2>1 DEF Points, Owns, Counted
  <2>10. /\ \A t \in Tids \ {Main} : u.threads[t] = None
         /\ u.threads[Main] # None /\ WaitsOK(u)
         /\ \A x \in Counted : Level(u, x) = u.semas[x].count
    BY <2>5, <2>6, <2>7, <2>9, AloneIs
  <2>11. AtBegin(u)
    BY <2>1, <2>7, <2>10 DEF AtBegin
  <2>12. Level(u, "waiting") = 0
    <3>1. PICK x \in Counted : x = "waiting" /\ x \in Semas
      BY DEF Counted, Semas
    <3>2. Level(u, x) = u.semas[x].count
      BY <2>10
    <3>3. u.semas[x].count = 0
      BY <2>5, <3>1 DEF Freed
    <3> QED
      BY <3>1, <3>2, <3>3
  <2>13. s.in = s.out /\ s.seats = NSeats
    BY <1>1, <1>2, <1>4, EndIs
  <2>14. PointsOK(u, test.makes)
    BY <2>1, <2>7, <2>9, <2>10 DEF PointsOK
  <2>15. RingOK(s, ring)
    BY DEF CountInv
  <2>16. SlotsOK(u, ring, test) /\ ShopOK(u, test)
    BY <2>11 DEF SlotsOK, ShopOK
  <2>17. Level(u, "waiting") + s.seats = NSeats
    BY <2>12, <2>13, BoundAssumption
  <2>18. CountInv(u, s, ring, test)
    BY <2>10, <2>13, <2>14, <2>15, <2>16, <2>17 DEF CountInv
  <2> QED
    BY <2>8, <2>18
<1> QED
  BY <1>2, <1>3, <1>4

-----------------------------------------------------------------------------
(* What is shared is right.                                                 *)

LEMMA InitShared == Init => SharedInv
<1> SUFFICES ASSUME Init PROVE SharedInv
  OBVIOUS
<1>1. PICK status \in Status :
        g = [current |-> Main, zombie |-> None, runQueue |-> QueueInit, numBlocked |-> 0,
             threads |-> [t \in Tids |-> IF t = Main THEN Thread(status, "main", "begin") ELSE None],
             semas   |-> [x \in Semas |-> Released], exit |-> None]
  BY DEF Init
<1>2. /\ g.current = Main /\ g.runQueue = QueueInit /\ g.semas = [x \in Semas |-> Released]
      /\ g.threads[Main] = Thread(status, "main", "begin") /\ g.exit = None
  BY <1>1, TidsFinite
<1>3. g.threads[Main].fn = "main" /\ g.threads[Main].pc = "begin"
  BY <1>2 DEF Thread
<1>4. Steady(g) /\ In(g.runQueue) = {}
  BY <1>2, InitPlaces, GoodInit DEF PlacesInv
<1>5. \A x \in Semas : g.semas[x].count = 0 /\ g.semas[x].blocked = QueueInit
  BY <1>2 DEF Released
<1>6. AllBlocked(g.semas) = {}
  BY <1>5, GoodInit DEF AllBlocked, BlockedIn
<1>7. \A x \in Counted : ~Owns(x, "main", "begin")
  BY DEF Owns, Counted
<1>8. /\ \A t \in Tids \ {Main} : g.threads[t] = None
      /\ g.threads[Main] # None /\ WaitsOK(g)
      /\ \A x \in Counted : Level(g, x) = g.semas[x].count
  BY <1>2, <1>3, <1>4, <1>6, <1>7, AloneIs
<1>9. Level(g, "waiting") = 0
  BY <1>5, <1>8 DEF Counted, Semas
<1>10. /\ s = [in |-> 0, out |-> 0, slots |-> [i \in 0..NSLOTS - 1 |-> None], seats |-> NSeats]
       /\ test.makes = <<>> /\ ring = <<>>
  BY DEF Init
<1>11. NSLOTS \in Nat /\ NSLOTS > 0 /\ NSeats \in Nat
  BY SlotsAssumption, BoundAssumption
<1>12. s \in SharedType
  BY <1>10, <1>11 DEF SharedType
<1>13. ring \in Seq(Tids) /\ Len(ring) = 0
  BY <1>10
<1>14. RingOK(s, ring)
  <2>1. PICK k \in Nat : k = 0 /\ k < NSLOTS /\ k < 2 * NSLOTS
    BY <1>11
  <2>2. k % NSLOTS = k
    BY <1>11, <2>1, ModIs
  <2>3. s.out + Len(ring) = k /\ s.in = k
    BY <1>10, <1>13, <2>1
  <2> QED
    BY <1>11, <1>13, <2>2, <2>3 DEF RingOK
<1>15. AtBegin(g)
  BY <1>3, <1>8 DEF AtBegin
<1>16. SlotsOK(g, ring, test) /\ ShopOK(g, test)
  BY <1>15 DEF SlotsOK, ShopOK
<1>17. PointsOK(g, test.makes)
  BY <1>3, <1>8 DEF PointsOK, Points
<1>18. MakesOK(test.makes)
  BY <1>10 DEF MakesOK
<1> QED
  BY <1>8, <1>9, <1>10, <1>11, <1>12, <1>13, <1>14, <1>16, <1>17, <1>18 DEF SharedInv, CountInv

LEMMA FinishExits ==
  ASSUME Steady(g), Control(g), Finish
  PROVE  g'.exit # None
<1>1. g' = ThreadExit(g) /\ Me.fn = "main" /\ Me.pc = "begin"
  BY DEF Finish, On, At
<1>2. g.current = Main /\ Me # None /\ InPlace(g, {g.current})
  BY <1>1, MeIs DEF Steady
<1>3. In(g.runQueue) = {}
  BY <1>1, <1>2 DEF Control, Me
<1>4. QueueEmpty(g.runQueue) /\ g \in Globals
  BY <1>2, <1>3, InPlaceParts DEF InPlace
<1>5. g'.exit \in {0, 1}
  <2>1. PICK n \in {0, 1} : g' = [g EXCEPT !.exit = n]
    BY <1>1, <1>4 DEF ThreadExit
  <2> QED
    BY <1>4, <2>1 DEF Globals
<1> QED
  BY <1>5, NoneAssumption

LEMMA NextShared == PlacesInv /\ TestInv /\ SharedInv /\ [Next]_vars => SharedInv'
<1> SUFFICES ASSUME PlacesInv, TestInv, SharedInv, [Next]_vars PROVE SharedInv'
  OBVIOUS
<1>1. s \in SharedType /\ ring \in Seq(Tids) /\ MakesOK(test.makes)
  BY DEF SharedInv
<1>2. ASSUME s' \in SharedType, ring' \in Seq(Tids), MakesOK(test'.makes),
             g'.exit # None \/ CountInv(g', s', ring', test')
      PROVE  SharedInv'
  <2>1. g'.exit = None => CountInv(g', s', ring', test')
    BY <1>2
  <2> QED
    BY <1>2, <2>1 DEF SharedInv, CountInv, PointsOK, WaitsOK, RingOK, SlotsOK, ShopOK, AtBegin,
       SharedType, Staying
<1>3. CASE UNCHANGED vars
  <2>1. g' = g /\ s' = s /\ test' = test /\ ring' = ring
    BY <1>3 DEF vars
  <2>2. g'.exit # None \/ CountInv(g', s', ring', test')
    BY <2>1 DEF SharedInv
  <2> QED
    BY <1>1, <1>2, <2>1, <2>2
<1>4. CASE Next
  <2>1. g.exit = None
    BY <1>4 DEF Next, CallSema, Put, Get, Cut, Look, Return, Served, AnyCall, BeginTest, Make,
                YieldMain, EndTest, Finish, On, At
  <2>2. Steady(g) /\ Control(g) /\ CountInv(g, s, ring, test)
    BY <2>1 DEF PlacesInv, SharedInv
  <2>3. ASSUME UNCHANGED <<s, ring>>, MakesOK(test'.makes), g'.exit # None \/ CountInv(g', s, ring, test')
        PROVE  SharedInv'
    BY <1>1, <1>2, <2>3
  <2>4. ASSUME UNCHANGED <<s, test, ring>>, g'.exit # None \/ CountInv(g', s, ring, test)
        PROVE  SharedInv'
    BY <1>1, <2>3, <2>4
  <2>5. CASE CallSema
    <3>1. g'.exit # None \/ CountInv(g', s, ring, test)
      BY <1>1, <2>2, <2>5, CallShared
    <3> QED
      BY <2>4, <2>5, <3>1 DEF CallSema
  <2>6. CASE Put
    <3>1. s' \in SharedType /\ ring' \in Seq(Tids) /\ CountInv(g', s', ring', test)
      BY <1>1, <2>2, <2>6, PutShared
    <3>2. test' = test
      BY <2>6 DEF Put
    <3> QED
      BY <1>1, <1>2, <3>1, <3>2
  <2>7. CASE Get
    <3>1. s' \in SharedType /\ ring' \in Seq(Tids) /\ CountInv(g', s', ring', test)
      BY <1>1, <2>2, <2>7, GetShared
    <3>2. test' = test
      BY <2>7 DEF Get
    <3> QED
      BY <1>1, <1>2, <3>1, <3>2
  <2>8. CASE Cut \/ Look
    <3>1. s' \in SharedType /\ CountInv(g', s', ring, test)
      BY <1>1, <2>2, <2>8, SeatsShared
    <3>2. test' = test /\ ring' = ring
      BY <2>8 DEF Cut, Look
    <3> QED
      BY <1>1, <1>2, <3>1, <3>2
  <2>9. CASE Return
    <3>1. g'.exit # None \/ CountInv(g', s, ring, test)
      BY <2>2, <2>9, ReturnShared
    <3> QED
      BY <2>4, <2>9, <3>1 DEF Return
  <2>10. CASE AnyCall
    <3>1. MakesOK(test'.makes) /\ (g'.exit # None \/ CountInv(g', s, ring, test'))
      BY <1>1, <2>2, <2>10, AnyShared
    <3> QED
      BY <2>3, <2>10, <3>1 DEF AnyCall
  <2>11. CASE BeginTest
    <3>1. ring' = <<>> /\ s' = s /\ MakesOK(test'.makes) /\ CountInv(g', s, <<>>, test')
      BY <1>1, <2>2, <2>11, BeginShared
    <3>2. ring' \in Seq(Tids) /\ CountInv(g', s', ring', test')
      BY <3>1
    <3> QED
      BY <1>1, <1>2, <3>1, <3>2
  <2>12. CASE Make
    <3>1. CountInv(g', s, ring, test') /\ MakesOK(test'.makes)
      BY <1>1, <2>2, <2>12, MakeShared
    <3> QED
      BY <2>3, <2>12, <3>1 DEF Make
  <2>13. CASE YieldMain
    <3>1. g'.exit # None \/ CountInv(g', s, ring, test)
      BY <2>2, <2>13, YieldShared
    <3> QED
      BY <2>4, <2>13, <3>1 DEF YieldMain
  <2>14. CASE EndTest
    <3>1. g'.exit # None \/ CountInv(g', s, ring, test)
      BY <1>1, <2>2, <2>14, EndShared
    <3> QED
      BY <2>4, <2>14, <3>1 DEF EndTest
  <2>15. CASE Finish
    <3>1. g'.exit # None
      BY <2>2, <2>15, FinishExits
    <3> QED
      BY <2>4, <2>15, <3>1 DEF Finish
  <2> QED
    BY <1>4, <2>5, <2>6, <2>7, <2>8, <2>9, <2>10, <2>11, <2>12, <2>13, <2>14, <2>15 DEF Next
<1> QED
  BY <1>3, <1>4

LEMMA SharedIs == PlacesInv /\ SharedInv => SharedIntact
<1> SUFFICES ASSUME PlacesInv, SharedInv PROVE SharedIntact
  OBVIOUS
<1>1. s \in SharedType /\ MakesOK(test.makes) /\ s.seats \in 0..NSeats
  BY DEF SharedInv, SharedType
<1>2. CASE g.exit # None
  BY <1>1, <1>2 DEF SharedIntact, RingIntact, SeatsCounted
<1>3. CASE g.exit = None
  <2>1. Steady(g) /\ Control(g) /\ CountInv(g, s, ring, test)
    BY <1>3 DEF PlacesInv, SharedInv
  <2>2. PointsOK(g, test.makes) /\ WaitsOK(g) /\ RingOK(s, ring)
    BY <2>1 DEF CountInv
  <2>3. ASSUME Me.pc = "get" PROVE ring # <<>>
    <3>1. PICK t \in Tids : t = g.current /\ g.threads[t] # None /\ Me = g.threads[t]
      BY <2>1, CurrentIs DEF Me
    <3>2. Points(Me.fn, Me.pc) /\ (Me.fn = "main" \/ Me.fn \in DOMAIN test.makes)
      BY <2>2, <3>1 DEF PointsOK
    <3>3. Me.fn = "consumer" /\ "consumer" \in DOMAIN test.makes
      BY <2>3, <3>2 DEF Points
    <3>4. "producer" \in DOMAIN test.makes
      BY <1>1, <3>3 DEF MakesOK
    <3>5. ~AtBegin(g)
      BY <2>1, <2>3, <3>1 DEF AtBegin, Control
    <3>6. PICK x \in Counted : x = "full"
      BY DEF Counted
    <3>7. Level(g, x) = Len(ring)
      BY <2>1, <3>4, <3>5, <3>6 DEF CountInv, SlotsOK
    <3>8. Owns(x, g.threads[g.current].fn, g.threads[g.current].pc)
      BY <2>3, <3>1, <3>3, <3>6 DEF Owns
    <3>9. Level(g, x) > 0
      BY <2>1, <3>8, LevelIs
    <3> QED
      BY <3>7, <3>9
  <2>4. RingIntact
    BY <2>2, <2>3 DEF RingIntact, RingOK
  <2>5. PICK x \in Counted : x = "waiting"
    BY DEF Counted
  <2>6. Owners(g, x) = Past("customer", {"wait"}, "seats") \cup Past("barber", {"seats", "cut"}, "waiting")
    <3>1. PICK y \in Semas, z \in Semas : y = "seats" /\ z = "waiting"
      BY DEF Semas
    <3>2. \A w : Blocked(w) = BlockedIn(g.semas, w)
      BY DEF Blocked, BlockedIn, In
    <3>3. ASSUME NEW t \in Tids, g.threads[t] # None
          PROVE  t \in Owners(g, z) <=>
                   \/ /\ t \notin BlockedIn(g.semas, y) /\ g.threads[t].fn = "customer"
                      /\ g.threads[t].pc = "wait"
                   \/ /\ t \notin BlockedIn(g.semas, z) /\ g.threads[t].fn = "barber"
                      /\ g.threads[t].pc \in {"seats", "cut"}
      <4>1. PICK fn, pc : fn = g.threads[t].fn /\ pc = g.threads[t].pc
        OBVIOUS
      <4>2. Points(fn, pc)
        BY <2>2, <3>3, <4>1 DEF PointsOK
      <4>3. t \in BlockedIn(g.semas, y) => fn = "any" \/ pc \in {"look", "cut"}
        <5>1. t \in BlockedIn(g.semas, y) => fn = "any" \/ Waits(y, fn, pc)
          BY <2>2, <4>1 DEF WaitsOK
        <5> QED
          BY <3>1, <5>1 DEF Waits
      <4>4. t \in BlockedIn(g.semas, z) => fn = "any" \/ pc = "seats"
        <5>1. t \in BlockedIn(g.semas, z) => fn = "any" \/ Waits(z, fn, pc)
          BY <2>2, <4>1 DEF WaitsOK
        <5> QED
          BY <3>1, <5>1 DEF Waits
      <4>5. t \in Owners(g, z) <=> t \notin BlockedIn(g.semas, z) /\ pc \in {"wait", "seats", "cut"}
        BY <3>1, <3>3, <4>1 DEF Owners, Owns
      <4>6. /\ pc = "wait" => fn = "customer"
            /\ pc \in {"seats", "cut"} => fn = "barber"
        BY <4>2 DEF Points
      <4> QED
        BY <4>1, <4>3, <4>4, <4>5, <4>6
    <3>4. \A t \in Owners(g, z) : t \in Tids /\ g.threads[t] # None
      BY DEF Owners
    <3> QED
      BY <2>5, <3>1, <3>2, <3>3, <3>4 DEF Past
  <2>7. SeatsCounted
    <3>1. Level(g, x) + s.seats = NSeats
      BY <2>1, <2>5 DEF CountInv
    <3>2. g.semas[x].count \in Nat /\ Cardinality(Owners(g, x)) \in Nat
      BY <2>1, SteadySemas, OwnersFinite DEF Counted, Semas
    <3>3. s.seats + Cardinality(Owners(g, x)) + g.semas[x].count = NSeats
      BY <1>1, <3>1, <3>2, BoundAssumption DEF Level
    <3> QED
      BY <1>1, <2>5, <2>6, <3>3 DEF SeatsCounted
  <2> QED
    BY <2>4, <2>7 DEF SharedIntact
<1> QED
  BY <1>2, <1>3

\* The invariant of what the tests share: what the semaphores count and those who own
\* them adds up, whatever the order in which the threads run.
THEOREM SharedInvCorrect == Spec => []SharedInv
<1>1. Init => SharedInv
  BY InitShared
<1>2. (PlacesInv /\ TestInv) /\ SharedInv /\ [Next]_vars => SharedInv'
  BY NextShared
<1> QED
  BY <1>1, <1>2, PlacesInvCorrect, PTL DEF Spec

\* The ring and the free seats are right because of the semaphores, from one test to the
\* next: for rings and shops of any size and any numbers of threads.
THEOREM SharedIntactCorrect == Spec => []SharedIntact
BY PlacesInvCorrect, SharedInvCorrect, SharedIs, PTL
=============================================================================
