---------------------------- MODULE KernelProofs ----------------------------
(* Theorems about the process module, for any number of slots, priority    *)
(* levels, users, processes and messages: types and waiting, then, on top  *)
(* of that invariant, run queues, counters, replies and the shutdown.      *)
EXTENDS Kernel, WellFoundedInduction, FiniteSetTheorems, TLAPS

-----------------------------------------------------------------------------
(* Sets of natural numbers.                                                *)

\* A nonempty set of natural numbers has a least element: a loop that looks for
\* the first of something finds it, if it is there.
LEMMA Least ==
  ASSUME NEW S \in SUBSET Nat, S # {}
  PROVE  \E x \in S : \A y \in S : x <= y
<1>1. PICK x \in S : \A y \in S : ~(<<y, x>> \in OpToRel(<, Nat))
  BY NatLessThanWellFounded, WFMin, Zenon
<1>2. \A y \in S : ~(y < x)
  BY <1>1 DEF OpToRel
<1> QED
  BY <1>2

LEMMA SubsetFinite ==
  ASSUME NEW N \in Nat, NEW S \in SUBSET (1..N)
  PROVE  IsFiniteSet(S) /\ Cardinality(S) \in Nat
<1>1. IsFiniteSet(1..N)
  BY FS_Interval
<1> QED
  BY <1>1, FS_Subset, FS_CardinalityType

\* Every set of numbers up to N can be enumerated in ascending order, as a loop over a
\* table does.  Argument: a smallest set without such an enumeration has a largest
\* element, and the enumeration of the others can be extended with it.
LEMMA AscendingExists ==
  ASSUME NEW N \in Nat, NEW S \in SUBSET (1..N)
  PROVE  \E q \in [1..Cardinality(S) -> S] : \A i, j \in 1..Cardinality(S) : i < j => q[i] < q[j]
<1> DEFINE Sorted(T, n) == \E q \in [1..n -> T] : \A i, j \in 1..n : i < j => q[i] < q[j]
           Bad == {n \in Nat : \E T \in SUBSET (1..N) : Cardinality(T) = n /\ ~Sorted(T, n)}
<1> HIDE DEF Bad
<1>1. ASSUME Bad # {} PROVE FALSE
  <2>1. Bad \in SUBSET Nat
    BY DEF Bad
  <2>2. PICK n \in Bad : \A m \in Bad : n <= m
    BY <2>1, <1>1, Least
  <2>3. PICK T \in SUBSET (1..N) : Cardinality(T) = n /\ ~Sorted(T, n)
    BY <2>2 DEF Bad
  <2>4. IsFiniteSet(T) /\ n \in Nat
    BY <2>3, SubsetFinite
  <2>5. T # {}
    <3>1. ASSUME T = {} PROVE FALSE
      <4>1. n = 0
        BY <3>1, <2>3, FS_EmptySet
      <4>2. [i \in 1..0 |-> i] \in [1..0 -> T]
        OBVIOUS
      <4>3. Sorted(T, 0)
        BY <4>2
      <4> QED
        BY <4>1, <4>3, <2>3
    <3> QED
      BY <3>1
  <2>6. PICK m \in T : \A y \in T : y <= m
    <3> DEFINE U == {N - s : s \in T}
    <3>0. \A s \in T : N - s \in Nat
      OBVIOUS
    <3>1. U \in SUBSET Nat /\ U # {}
      BY <3>0, <2>5
    <3>2. PICK x \in U : \A y \in U : x <= y
      BY <3>1, Least
    <3>3. PICK s \in T : x = N - s
      BY <3>2
    <3>4. \A y \in T : N - y \in U
      OBVIOUS
    <3>5. \A y \in T : N - s <= N - y
      BY <3>2, <3>3, <3>4
    <3> QED
      BY <3>3, <3>5
  <2>7. Cardinality(T \ {m}) = n - 1 /\ n - 1 \in Nat
    <3>1. Cardinality(T \ {m}) = n - 1
      BY <2>3, <2>4, <2>6, FS_RemoveElement
    <3>2. Cardinality(T \ {m}) \in Nat
      BY SubsetFinite
    <3> QED
      BY <3>1, <3>2
  <2>8. n - 1 \notin Bad
    BY <2>2, <2>4, <2>1
  <2>9. Sorted(T \ {m}, n - 1)
    BY <2>7, <2>8 DEF Bad
  <2>10. PICK q \in [1..(n - 1) -> T \ {m}] : \A i, j \in 1..(n - 1) : i < j => q[i] < q[j]
    BY <2>9
  <2> DEFINE r == [i \in 1..n |-> IF i = n THEN m ELSE q[i]]
  <2>11. \A y \in T : y \in Int
    BY <2>3
  <2>12. r \in [1..n -> T]
    BY <2>4, <2>6, <2>10
  <2>13. ASSUME NEW i \in 1..n, NEW j \in 1..n, i < j PROVE r[i] < r[j]
    <3>1. i \in 1..(n - 1) /\ r[i] = q[i]
      BY <2>4, <2>13
    <3>2. CASE j = n
      <4>1. q[i] \in T /\ q[i] # m
        BY <3>1, <2>10
      <4>2. q[i] <= m
        BY <4>1, <2>6
      <4>3. q[i] \in Int /\ m \in Int
        BY <4>1, <2>11
      <4>4. q[i] < m
        BY <4>1, <4>2, <4>3
      <4>5. r[j] = m
        BY <3>2
      <4>6. r[i] < r[j]
        BY <3>1, <4>4, <4>5
      <4> QED
        BY <4>6
    <3>3. CASE j # n
      BY <3>1, <3>3, <2>4, <2>10, <2>13
    <3> QED
      BY <3>2, <3>3
  <2>14. Sorted(T, n)
    BY <2>12, <2>13
  <2> QED
    BY <2>3, <2>14
<1>2. Sorted(S, Cardinality(S))
  BY <1>1, SubsetFinite DEF Bad
<1> QED
  BY <1>2

\* An ascending enumeration has every element, and each once.
LEMMA AscendingAll ==
  ASSUME NEW N \in Nat, NEW S \in SUBSET (1..N), NEW q \in [1..Cardinality(S) -> S],
         \A i, j \in 1..Cardinality(S) : i < j => q[i] < q[j]
  PROVE  /\ \A i, j \in 1..Cardinality(S) : q[i] = q[j] => i = j
         /\ \A s \in S : \E i \in 1..Cardinality(S) : q[i] = s
<1> DEFINE n == Cardinality(S)
<1>1. n \in Nat /\ IsFiniteSet(S)
  BY SubsetFinite
<1>2. q \in [1..n -> S] /\ \A i, j \in 1..n : i < j => q[i] < q[j]
  OBVIOUS
<1>3. \A s \in S : s \in Int
  OBVIOUS
<1> HIDE DEF n
<1>4. \A i, j \in 1..n : q[i] = q[j] => i = j
  <2> SUFFICES ASSUME NEW i \in 1..n, NEW j \in 1..n, q[i] = q[j], i # j PROVE FALSE
    OBVIOUS
  <2>1. i < j \/ j < i
    BY <1>1
  <2>2. q[i] < q[j] \/ q[j] < q[i]
    BY <1>2, <2>1
  <2>3. q[i] \in Int
    BY <1>2, <1>3
  <2> QED
    BY <2>2, <2>3
<1>5. q \in Injection(1..n, S)
  BY <1>2, <1>4 DEF Injection, IsInjective
<1>6. IsFiniteSet(1..n) /\ Cardinality(1..n) = n
  BY <1>1, FS_Interval
<1>7. q \in Surjection(1..n, S)
  BY <1>1, <1>5, <1>6, FS_Injection DEF n
<1>8. \A s \in S : \E i \in 1..n : q[i] = s
  BY <1>7 DEF Surjection
<1> QED
  BY <1>4, <1>8 DEF n

-----------------------------------------------------------------------------
(* Sets of slots and of levels.                                            *)

LEMMA SlotFinite == IsFiniteSet(Slot) /\ \A S \in SUBSET Slot : IsFiniteSet(S) /\ Cardinality(S) \in Nat
<1>1. IsFiniteSet(Slot)
  BY FS_Interval, SlotAssumption DEF Slot
<1> QED
  BY <1>1, FS_Subset, FS_CardinalityType

\* proc_find returns a process that is not free and has the pid, if there is one.
LEMMA FindIs ==
  ASSUME NEW t, NEW p
  PROVE  \/ Find(t, p) = 0 /\ \A s \in Live(t) : t.pid[s] # p
         \/ Find(t, p) \in Slot /\ t.state[Find(t, p)] # "free" /\ t.pid[Find(t, p)] = p
<1> DEFINE S == {s \in Live(t) : t.pid[s] = p}
<1>1. S \in SUBSET Nat /\ S \in SUBSET Slot
  BY SlotAssumption DEF Live, Slot
<1>2. CASE S = {}
  BY <1>2 DEF Find
<1>3. CASE S # {}
  <2>1. Find(t, p) = CHOOSE s \in S : \A r \in S : s <= r
    BY <1>3, Zenon DEF Find
  <2>2. \E s \in S : \A r \in S : s <= r
    BY <1>1, <1>3, Least
  <2>3. Find(t, p) \in S
    BY <2>1, <2>2
  <2> QED
    BY <2>3 DEF Live
<1> QED
  BY <1>2, <1>3

\* Every set of slots can be enumerated in ascending order, as the loops over
\* proc_set do.
LEMMA SlotOrderIs ==
  ASSUME NEW S \in SUBSET Slot
  PROVE  /\ SlotOrder(S) \in [1..Cardinality(S) -> S]
         /\ \A i, j \in 1..Cardinality(S) : i < j => SlotOrder(S)[i] < SlotOrder(S)[j]
<1>1. \E q \in [1..Cardinality(S) -> S] : \A i, j \in 1..Cardinality(S) : i < j => q[i] < q[j]
  BY AscendingExists, SlotAssumption DEF Slot
<1> QED
  BY <1>1 DEF SlotOrder

\* So an enumeration of a set of slots is a sequence of them.
LEMMA SlotOrderType ==
  ASSUME NEW S \in SUBSET Slot
  PROVE  SlotOrder(S) \in Seq(Slot) /\ \A i \in 1..Len(SlotOrder(S)) : SlotOrder(S)[i] \in S
<1>1. Cardinality(S) \in Nat
  BY SlotFinite
<1> QED
  BY <1>1, SlotOrderIs

-----------------------------------------------------------------------------
(* Each function of process.c maps tables to tables.                       *)

LEMMA LevelZero == 0 \in Level /\ Level \in SUBSET Nat
  BY LevelAssumption DEF Level

LEMMA TableCounters ==
  ASSUME NEW t \in Table
  PROVE  /\ t.nprocs + 1 \in Int /\ t.nprocs - 1 \in Int
         /\ t.nrunnable + 1 \in Int /\ t.nrunnable - 1 \in Int
         /\ t.gen + 1 \in Nat
         /\ \A n \in Nat : t.nrunnable + n \in Int
  BY DEF Table

LEMMA ToRunQueueType ==
  ASSUME NEW t \in Table, NEW s \in Slot
  PROVE  ToRunQueue(t, s) \in Table
<1> DEFINE l == t.level[s]
           q == [t.runq EXCEPT ![l] = Append(@, s)]
<1>1. l \in Level /\ t.runq \in [Level -> Seq(Slot)]
  BY DEF Table
<1>2. q \in [Level -> Seq(Slot)]
  BY <1>1
<1>3. ToRunQueue(t, s) = [t EXCEPT !.runq = q]
  BY DEF ToRunQueue
<1> HIDE DEF q
<1> QED
  BY <1>2, <1>3 DEF Table

LEMMA AllocType ==
  ASSUME NEW t \in Table, t.free # <<>>, NEW owner \in Nat, NEW u \in Uids, NEW kind \in Kind
  PROVE  Alloc(t, owner, u, kind) \in Table
<1>1. Head(t.free) \in Slot /\ Tail(t.free) \in Seq(Slot)
  BY DEF Table
<1>2. Quantum[0] \in Int /\ 0 \in Level
  BY QuantumAssumption, LevelZero
<1>3. t.gen \in Nat
  BY DEF Table
<1> DEFINE s == Head(t.free)
           a == [t EXCEPT !.free = Tail(@), !.state[s] = "runnable", !.pid[s] = t.gen,
                          !.uid[s] = u]
           b == [a EXCEPT !.owner[s] = owner, !.kind[s] = kind,
                          !.level[s] = 0, !.ticks[s] = Quantum[0]]
           c == [b EXCEPT !.gen = @ + 1, !.nprocs = @ + 1, !.nrunnable = @ + 1]
<1>4. Alloc(t, owner, u, kind) = c
  BY DEF Alloc
<1> HIDE DEF s
<1>5. a \in Table
  BY <1>1, <1>3 DEF Table, s
<1> HIDE DEF a
<1>6. b \in Table
  BY <1>1, <1>2, <1>5 DEF Table, s
<1> HIDE DEF b
<1>7. c \in Table
  BY <1>6, TableCounters DEF Table
<1> QED
  BY <1>4, <1>7

\* The parts of a table after proc_release().
LEMMA ReleaseIs ==
  ASSUME NEW t \in Table, NEW s \in Slot
  PROVE  LET u == Release(t, s)
         IN  /\ u.state = [t.state EXCEPT ![s] = "free"] /\ u.msgs = [t.msgs EXCEPT ![s] = NoMsgs]
             /\ u.waiting = [t.waiting EXCEPT ![s] = {}] /\ u.pid = [t.pid EXCEPT ![s] = NoPid]
             /\ u.server = [t.server EXCEPT ![s] = NoPid] /\ u.recv = [t.recv EXCEPT ![s] = "none"]
             /\ u.level = [t.level EXCEPT ![s] = 0]
             /\ u.free = Append(t.free, s) /\ u.alarm = t.alarm \ {s} /\ u.nprocs = t.nprocs - 1
             /\ u.gen = t.gen /\ u.runq = t.runq /\ u.nrunnable = t.nrunnable
             /\ u.current = t.current
<1> DEFINE a == [t EXCEPT !.state[s] = "free", !.msgs[s] = NoMsgs, !.waiting[s] = {},
                          !.pid[s] = NoPid, !.uid[s] = 0, !.owner[s] = NoPid]
           b == [a EXCEPT !.kind[s] = "kernel", !.level[s] = 0, !.ticks[s] = 0]
           c == [b EXCEPT !.server[s] = NoPid, !.alarm = t.alarm \ {s}, !.recv[s] = "none"]
           d == [c EXCEPT !.nprocs = t.nprocs - 1, !.free = Append(t.free, s)]
<1>1. Release(t, s) = d
  BY DEF Release
<1>2. /\ a.state = [t.state EXCEPT ![s] = "free"] /\ a.msgs = [t.msgs EXCEPT ![s] = NoMsgs]
      /\ a.waiting = [t.waiting EXCEPT ![s] = {}] /\ a.pid = [t.pid EXCEPT ![s] = NoPid]
      /\ a.server = t.server /\ a.recv = t.recv /\ a.level = t.level
      /\ a.gen = t.gen /\ a.runq = t.runq /\ a.nrunnable = t.nrunnable
      /\ a.current = t.current /\ DOMAIN a = DOMAIN t
  BY DEF Table
<1> HIDE DEF a
<1>3. /\ b.state = a.state /\ b.msgs = a.msgs /\ b.waiting = a.waiting /\ b.pid = a.pid
      /\ b.server = a.server /\ b.recv = a.recv /\ b.level = [a.level EXCEPT ![s] = 0]
      /\ b.gen = a.gen /\ b.runq = a.runq /\ b.nrunnable = a.nrunnable
      /\ b.current = a.current /\ DOMAIN b = DOMAIN t
  BY <1>2 DEF Table
<1> HIDE DEF b
<1>4. /\ c.state = b.state /\ c.msgs = b.msgs /\ c.waiting = b.waiting /\ c.pid = b.pid
      /\ c.server = [b.server EXCEPT ![s] = NoPid] /\ c.recv = [b.recv EXCEPT ![s] = "none"]
      /\ c.level = b.level /\ c.alarm = t.alarm \ {s}
      /\ c.gen = b.gen /\ c.runq = b.runq /\ c.nrunnable = b.nrunnable
      /\ c.current = b.current /\ DOMAIN c = DOMAIN t
  BY <1>3 DEF Table
<1> HIDE DEF c
<1>5. /\ d.state = c.state /\ d.msgs = c.msgs /\ d.waiting = c.waiting /\ d.pid = c.pid
      /\ d.server = c.server /\ d.recv = c.recv /\ d.level = c.level /\ d.alarm = c.alarm
      /\ d.free = Append(t.free, s) /\ d.nprocs = t.nprocs - 1
      /\ d.gen = c.gen /\ d.runq = c.runq /\ d.nrunnable = c.nrunnable /\ d.current = c.current
  BY <1>4 DEF Table
<1> HIDE DEF d
<1>6. /\ b.state = [t.state EXCEPT ![s] = "free"] /\ b.msgs = [t.msgs EXCEPT ![s] = NoMsgs]
      /\ b.waiting = [t.waiting EXCEPT ![s] = {}] /\ b.pid = [t.pid EXCEPT ![s] = NoPid]
      /\ b.server = t.server /\ b.recv = t.recv /\ b.level = [t.level EXCEPT ![s] = 0]
      /\ b.gen = t.gen /\ b.runq = t.runq /\ b.nrunnable = t.nrunnable /\ b.current = t.current
  BY <1>2, <1>3
<1>7. /\ d.state = b.state /\ d.msgs = b.msgs /\ d.waiting = b.waiting /\ d.pid = b.pid
      /\ d.server = [b.server EXCEPT ![s] = NoPid] /\ d.recv = [b.recv EXCEPT ![s] = "none"]
      /\ d.level = b.level /\ d.alarm = t.alarm \ {s}
      /\ d.gen = b.gen /\ d.runq = b.runq /\ d.nrunnable = b.nrunnable /\ d.current = b.current
  BY <1>4, <1>5
<1> QED
  BY <1>1, <1>5, <1>6, <1>7

LEMMA ReleaseType ==
  ASSUME NEW t \in Table, NEW s \in Slot
  PROVE  Release(t, s) \in Table
<1>1. NoMsgs \in [MsgType -> Seq(Nat)]
  BY DEF NoMsgs
<1> DEFINE a == [t EXCEPT !.state[s] = "free", !.msgs[s] = NoMsgs, !.waiting[s] = {},
                          !.pid[s] = NoPid, !.uid[s] = 0, !.owner[s] = NoPid]
           b == [a EXCEPT !.kind[s] = "kernel", !.level[s] = 0, !.ticks[s] = 0]
           c == [b EXCEPT !.server[s] = NoPid, !.alarm = t.alarm \ {s}, !.recv[s] = "none"]
           d == [c EXCEPT !.nprocs = t.nprocs - 1, !.free = Append(t.free, s)]
<1>2. Release(t, s) = d
  BY DEF Release
<1>3. a \in Table
  BY <1>1, UidAssumption DEF Table, NoPid
<1> HIDE DEF a
<1>4. b \in Table
  <2>1. "kernel" \in Kind /\ 0 \in Int
    BY DEF Kind
  <2> QED
    BY <1>3, <2>1, LevelZero DEF Table
<1> HIDE DEF b
<1>5. c \in Table
  BY <1>4 DEF Table, NoPid
<1> HIDE DEF c
<1>6. d \in Table
  <2>1. Append(t.free, s) \in Seq(Slot)
    BY DEF Table
  <2> QED
    BY <1>5, <2>1, TableCounters DEF Table
<1> QED
  BY <1>2, <1>6

LEMMA SendType ==
  ASSUME NEW t \in Table, NEW src \in Nat, NEW p, NEW type \in MsgType
  PROVE  Send(t, src, p, type) \in Table
<1> DEFINE d == Find(t, p)
           q == [t EXCEPT !.msgs[d][type] = Append(@, src)]
           w == [q EXCEPT !.state[d] = "runnable", !.nrunnable = @ + 1,
                          !.alarm = @ \ {d}, !.waiting[d] = @ \ {type}]
           b == [w EXCEPT !.level[d] = IF @ > 0 THEN @ - 1 ELSE @]
<1>1. CASE ~CanSend(t, src, p, type)
  BY <1>1 DEF Send
<1>2. CASE CanSend(t, src, p, type)
  <2>1. d \in Slot
    BY <1>2, FindIs DEF CanSend
  <2> HIDE DEF d
  <2>2. q \in Table
    <3> DEFINE m == [t.msgs EXCEPT ![d][type] = Append(@, src)]
    <3>1. t.msgs \in [Slot -> [MsgType -> Seq(Nat)]]
      BY DEF Table
    <3>2. m \in [Slot -> [MsgType -> Seq(Nat)]]
      BY <2>1, <3>1
    <3>3. q = [t EXCEPT !.msgs = m]
      OBVIOUS
    <3> HIDE DEF m, q
    <3> QED
      BY <3>2, <3>3 DEF Table
  <2> HIDE DEF q
  <2>3. w \in Table
    BY <2>1, <2>2, TableCounters DEF Table
  <2> HIDE DEF w
  <2>4. b \in Table
    <3>1. \A l \in Level : (IF l > 0 THEN l - 1 ELSE l) \in Level
      BY LevelAssumption DEF Level
    <3> QED
      BY <2>1, <2>3, <3>1 DEF Table
  <2> HIDE DEF b
  <2>5. ToRunQueue(b, d) \in Table
    BY <2>1, <2>4, ToRunQueueType
  <2>6. Send(t, src, p, type) \in {q, w, ToRunQueue(b, d)}
    BY <1>2 DEF Send, d, q, w, b
  <2> QED
    BY <2>2, <2>3, <2>5, <2>6
<1> QED
  BY <1>1, <1>2

LEMMA WakeupType ==
  ASSUME NEW t \in Table, NEW C \in SUBSET Slot
  PROVE  Wakeup(t, C) \in Table
<1> DEFINE Q(l) == SlotOrder({s \in C \ {t.current} : t.level[s] = l})
<1>1. \A l \in Level : Q(l) \in Seq(Slot)
  BY SlotOrderType
<1>2. t.nrunnable + Cardinality(C) \in Int
  BY SlotFinite, TableCounters
<1> HIDE DEF Q
<1>3. Wakeup(t, C) =
        [t EXCEPT !.state     = [s \in Slot |-> IF s \in C THEN "runnable" ELSE @[s]],
                  !.alarm     = @ \ C,
                  !.waiting   = [s \in Slot |-> IF s \in C THEN {} ELSE @[s]],
                  !.nrunnable = @ + Cardinality(C),
                  !.runq      = [l \in Level |-> @[l] \o Q(l)]]
  BY Zenon DEF Wakeup, Q
<1>4. [l \in Level |-> t.runq[l] \o Q(l)] \in [Level -> Seq(Slot)]
  BY <1>1 DEF Table
<1>5. /\ [s \in Slot |-> IF s \in C THEN "runnable" ELSE t.state[s]] \in
           [Slot -> {"free", "runnable", "waiting", "zombie"}]
      /\ t.alarm \ C \in SUBSET Slot
      /\ [s \in Slot |-> IF s \in C THEN {} ELSE t.waiting[s]] \in [Slot -> SUBSET MsgType]
  BY DEF Table
<1>6. Wakeup(t, C) =
        [t EXCEPT !.state     = [s \in Slot |-> IF s \in C THEN "runnable" ELSE t.state[s]],
                  !.alarm     = t.alarm \ C,
                  !.waiting   = [s \in Slot |-> IF s \in C THEN {} ELSE t.waiting[s]],
                  !.nrunnable = t.nrunnable + Cardinality(C),
                  !.runq      = [l \in Level |-> t.runq[l] \o Q(l)]]
  BY <1>3
<1> QED
  BY <1>2, <1>4, <1>5, <1>6 DEF Table

LEMMA TermType ==
  ASSUME NEW t \in Table, NEW s \in Slot
  PROVE  Term(t, s) \in Table
<1> DEFINE z == [t EXCEPT !.state[s] = "zombie",
                          !.nrunnable = IF t.state[s] = "runnable" THEN @ - 1 ELSE @]
           n == Send(z, t.pid[s], t.owner[s], "event")
<1>1. z \in Table
  BY TableCounters DEF Table
<1> HIDE DEF z
<1>2. n \in Table
  <2>1. t.pid[s] \in Nat /\ "event" \in MsgType
    BY DEF Table, MsgType
  <2> QED
    BY <1>1, <2>1, SendType
<1> HIDE DEF n
<1>3. Wakeup(n, Clients(n, t.pid[s])) \in Table
  <2>1. Clients(n, t.pid[s]) \in SUBSET Slot
    BY DEF Clients
  <2> QED
    BY <1>2, <2>1, WakeupType
<1>4. Term(t, s) \in {t, Wakeup(n, Clients(n, t.pid[s]))}
  BY DEF Term, n, z
<1> QED
  BY <1>3, <1>4

LEMMA ZapType ==
  ASSUME NEW t \in Table, NEW u, NEW s \in Slot
  PROVE  Zap(t, u, s) \in Table
<1>1. Term(t, s) \in Table
  BY TermType
<1>2. Release(Term(t, s), s) \in Table
  BY <1>1, ReleaseType
<1> QED
  BY <1>1, <1>2 DEF Zap

LEMMA ReceiveType ==
  ASSUME NEW t \in Table, NEW type \in MsgType, NEW timed \in BOOLEAN
  PROVE  Receive(t, type, timed) \in Table
<1>1. CASE t.msgs[t.current][type] # <<>>
  <2> DEFINE m == [t.msgs EXCEPT ![t.current][type] = Tail(@)]
  <2>1. t.msgs \in [Slot -> [MsgType -> Seq(Nat)]] /\ t.current \in Slot
    BY DEF Table
  <2>2. Tail(t.msgs[t.current][type]) \in Seq(Nat)
    BY <1>1, <2>1
  <2>3. m \in [Slot -> [MsgType -> Seq(Nat)]]
    BY <2>1, <2>2
  <2>4. Receive(t, type, timed) = [t EXCEPT !.msgs = m]
    BY <1>1 DEF Receive
  <2> HIDE DEF m
  <2> QED
    BY <2>3, <2>4 DEF Table
<1>2. CASE t.msgs[t.current][type] = <<>>
  <2>1. t.current \in Slot
    BY DEF Table
  <2> DEFINE c == t.current
             a == [t EXCEPT !.state[c] = "waiting", !.waiting[c] = @ \cup {type},
                            !.nrunnable = @ - 1, !.recv[c] = type]
             al == IF timed THEN t.alarm \cup {c} ELSE t.alarm
  <2>2. Receive(t, type, timed) = [a EXCEPT !.alarm = al]
    BY <1>2 DEF Receive
  <2> HIDE DEF c
  <2>3. a \in Table
    BY <2>1, TableCounters DEF Table, c
  <2>4. al \in SUBSET Slot
    BY <2>1 DEF Table, c
  <2> HIDE DEF a, al
  <2> QED
    BY <2>2, <2>3, <2>4 DEF Table
<1> QED
  BY <1>1, <1>2

-----------------------------------------------------------------------------
(* Type correctness.                                                       *)

LEMMA FirstIs ==
  ASSUME k \in Table, Queued # {}
  PROVE  /\ First \in Level /\ k.runq[First] # <<>>
         /\ Head(k.runq[First]) \in Slot
         /\ Dequeued \in Table
<1>1. Queued \in SUBSET Nat /\ Queued \in SUBSET Level
  BY LevelZero DEF Queued
<1>2. \E l \in Queued : \A m \in Queued : l <= m
  BY <1>1, Least
<1>3. First \in Queued
  BY <1>2 DEF First
<1>4. First \in Level /\ k.runq[First] # <<>>
  BY <1>3 DEF Queued
<1>5. k.runq \in [Level -> Seq(Slot)]
  BY DEF Table
<1> DEFINE q == [k.runq EXCEPT ![First] = Tail(@)]
<1>6. Head(k.runq[First]) \in Slot /\ q \in [Level -> Seq(Slot)]
  BY <1>4, <1>5
<1>7. Dequeued = [k EXCEPT !.runq = q]
  BY DEF Dequeued
<1> HIDE DEF q
<1>8. Dequeued \in Table
  BY <1>6, <1>7 DEF Table
<1> QED
  BY <1>4, <1>6, <1>8

LEMMA ControlType ==
  /\ Run \in Control /\ Suspend \in Control /\ Pick \in Control /\ Halt \in Control
  /\ \A t : AfterReceive(t) \in Control
BY DEF Run, Suspend, Pick, Halt, Control, AfterReceive

\* The initial table.
LEMMA InitType == Init => TypeOK
<1> SUFFICES ASSUME Init PROVE TypeOK
  OBVIOUS
<1>1. [j \in 1..(MaxProcs - 1) |-> j + 1] \in Seq(Slot)
  BY SlotAssumption DEF Slot
<1>2. 1 \in Slot /\ 0 \in Level /\ 0 \in Uids /\ Quantum[0] \in Int
  BY SlotAssumption, LevelZero, UidAssumption, QuantumAssumption DEF Slot
<1>3. NoMsgs \in [MsgType -> Seq(Nat)] /\ "kernel" \in Kind /\ NoPid \in Nat
  BY DEF NoMsgs, Kind, NoPid
<1>4. k \in Table
  BY <1>1, <1>2, <1>3 DEF Init, Table
<1> QED
  BY <1>4, ControlType DEF Init, TypeOK

\* Every action maps typed states to typed states.
LEMMA NextType == TypeOK /\ [Next]_vars => TypeOK'
<1> SUFFICES ASSUME TypeOK, [Next]_vars PROVE TypeOK'
  OBVIOUS
<1> USE DEF TypeOK
<1>0. /\ k \in Table /\ k.current \in Slot
      /\ \A s \in Slot : k.pid[s] \in Nat /\ k.uid[s] \in Uids /\ k.level[s] \in Level
      /\ \A n \in 1..MaxPid : n \in Nat
      /\ \A m \in {"request", "reply", "event"} : m \in MsgType
  <2>1. \A m \in {"request", "reply", "event"} : m \in MsgType
    BY DEF MsgType
  <2>2. k \in Table
    OBVIOUS
  <2>3. k.current \in Slot
    BY <2>2 DEF Table
  <2>4. \A s \in Slot : k.pid[s] \in Nat /\ k.uid[s] \in Uids /\ k.level[s] \in Level
    BY <2>2 DEF Table
  <2> QED
    BY <2>1, <2>2, <2>3, <2>4, BoundAssumption
<1>1. ASSUME NEW type \in {"request", "event"}, NEW timed \in BOOLEAN, Recv(type, timed)
      PROVE  TypeOK'
  <2>1. k' \in Table
    BY <1>0, <1>1, ReceiveType DEF Recv
  <2> QED
    BY <1>1, <2>1, ControlType DEF Recv
<1>2. ASSUME NEW p \in 1..MaxPid, Rpc(p) PROVE TypeOK'
  <2> DEFINE s == Send(k, k.pid[k.current], p, "request")
             r == [s EXCEPT !.server[k.current] = p]
  <2>1. s \in Table
    <3>1. k.pid[k.current] \in Nat /\ "request" \in MsgType
      BY <1>0
    <3> QED
      BY <3>1, <1>0, SendType
  <2> HIDE DEF s
  <2>2. r \in Table
    BY <1>0, <2>1 DEF Table
  <2> HIDE DEF r
  <2>3. Receive(r, "reply", FALSE) \in Table
    BY <1>0, <2>2, ReceiveType
  <2>4. k' = Receive(r, "reply", FALSE)
    BY <1>2 DEF Rpc, r, s
  <2> QED
    BY <1>2, <2>3, <2>4, ControlType DEF Rpc
<1>3. ASSUME NEW p \in 1..MaxPid, NEW type \in {"reply", "event"}, SendMsg(p, type)
      PROVE  TypeOK'
  <2>1. k' \in Table
    BY <1>0, <1>3, SendType DEF SendMsg
  <2> QED
    BY <1>3, <2>1 DEF SendMsg
<1>4. CASE Resume
  <2> DEFINE c == k.current
             type == k.recv[c]
             m == [k.msgs EXCEPT ![c][type] = IF @ = <<>> THEN @ ELSE Tail(@)]
             r == [k.recv EXCEPT ![c] = "none"]
  <2>1. type \in MsgType /\ k.msgs \in [Slot -> [MsgType -> Seq(Nat)]]
        /\ k.recv \in [Slot -> MsgType \cup {"none"}]
    BY <1>4, <1>0 DEF Resume, Table
  <2>2. m \in [Slot -> [MsgType -> Seq(Nat)]] /\ r \in [Slot -> MsgType \cup {"none"}]
    BY <2>1, <1>0
  <2>3. k' = [k EXCEPT !.recv = r, !.msgs = m]
    BY <1>4 DEF Resume
  <2> HIDE DEF m, r
  <2>4. k' \in Table
    BY <2>2, <2>3 DEF Table
  <2> QED
    BY <1>4, <2>4 DEF Resume
<1>5. CASE Exit
  <2>1. k' \in Table
    BY <1>0, <1>5, TermType DEF Exit
  <2> QED
    BY <1>5, <2>1, ControlType DEF Exit
<1>6. ASSUME NEW f \in Slot, NEW u \in Uids, NEW kind \in Kinds, Create(f, u, kind)
      PROVE  TypeOK'
  <2> DEFINE v == IF k.uid[f] # 0 THEN k.uid[f] ELSE u
             a == Alloc(k, k.pid[f], v, kind)
             b == ToRunQueue(a, k.current)
  <2>1. v \in Uids /\ kind \in Kind
    BY <1>0, KindAssumption
  <2> HIDE DEF v
  <2>2. a \in Table
    BY <1>0, <1>6, <2>1, AllocType DEF Create
  <2> HIDE DEF a
  <2>3. b \in Table
    BY <1>0, <2>2, ToRunQueueType
  <2>4. Head(k.free) \in Slot
    BY <1>6 DEF Create, Table
  <2>5. k' = [b EXCEPT !.current = Head(k.free)]
    BY <1>6 DEF Create, b, a, v
  <2> HIDE DEF b
  <2>6. k' \in Table
    BY <2>3, <2>4, <2>5 DEF Table
  <2> QED
    BY <1>6, <2>6 DEF Create
<1>7. ASSUME NEW f \in Slot, NEW s \in Slot, Kill(f, s) PROVE TypeOK'
  <2>1. k' \in Table
    BY <1>0, <1>7, ZapType DEF Kill
  <2> QED
    BY <1>7, <2>1, ControlType DEF Kill
<1>8. ASSUME NEW f \in Slot, KillAll(f) PROVE TypeOK'
  <2>1. Jobs \in SUBSET Slot
    BY DEF Jobs, Live
  <2>2. ctl.at \in {"run", "suspend", "pick"}
    BY <1>8 DEF KillAll, InKernelServer, Running
  <2>3. ctl' \in Control
    BY <1>0, <1>8, <2>1, <2>2 DEF KillAll, Control
  <2> QED
    BY <1>8, <2>3 DEF KillAll
<1>9. CASE ZapStep
  <2>1. PICK s \in ctl.todo : k' = Zap(k, ctl.uid, s) /\ ctl' = [ctl EXCEPT !.todo = @ \ {s}]
    BY <1>9 DEF ZapStep
  <2>2. ctl \in [at: {"zap"}, todo: SUBSET Slot, uid: Uids, then: {"run", "suspend", "pick"}]
    BY <1>9 DEF ZapStep, Control
  <2>3. s \in Slot
    BY <2>1, <2>2
  <2>4. k' \in Table
    BY <1>0, <2>1, <2>3, ZapType
  <2>5. ctl' \in Control
    BY <2>1, <2>2 DEF Control
  <2> QED
    BY <1>9, <2>4, <2>5 DEF ZapStep
<1>10. CASE ZapDone
  <2>1. ctl \in [at: {"zap"}, todo: SUBSET Slot, uid: Uids, then: {"run", "suspend", "pick"}]
    BY <1>10 DEF ZapDone, Control
  <2>2. ctl' \in Control
    BY <1>10, <2>1, ControlType DEF ZapDone, Control
  <2> QED
    BY <1>10, <2>2 DEF ZapDone
<1>11. CASE ClockInterrupt
  <2> DEFINE c == k.current
             left == k.ticks[c] - 1
             tk == [k.ticks EXCEPT ![c] = IF left < -1 THEN -1 ELSE left]
             lv == [k.level EXCEPT ![c] = IF left = 0 /\ @ < Levels - 1 THEN @ + 1 ELSE @]
  <2>1. left \in Int /\ k.ticks \in [Slot -> Int]
    BY <1>0 DEF Table
  <2>2. tk \in [Slot -> Int]
    BY <2>1, <1>0
  <2>3. lv \in [Slot -> Level]
    <3>1. \A l \in Level : l < Levels - 1 => l + 1 \in Level
      BY LevelAssumption DEF Level
    <3>2. k.level \in [Slot -> Level]
      BY DEF Table
    <3> QED
      BY <3>1, <3>2, <1>0
  <2>4. k' = [k EXCEPT !.ticks = tk, !.level = lv]
    BY <1>11 DEF ClockInterrupt
  <2>5. ctl' \in Control
    BY <1>11, ControlType DEF ClockInterrupt
  <2> HIDE DEF tk, lv
  <2>6. k' \in Table
    BY <2>2, <2>3, <2>4 DEF Table
  <2> QED
    BY <1>11, <2>5, <2>6 DEF ClockInterrupt
<1>12. CASE IoInterrupt
  BY <1>12, ControlType DEF IoInterrupt
<1>13. CASE Shutdown
  BY <1>13 DEF Shutdown
<1>14. ASSUME NEW f \in Slot, NEW p \in 1..MaxPid, DeviceReply(f, p) PROVE TypeOK'
  <2>1. k' \in Table
    BY <1>0, <1>14, SendType DEF DeviceReply
  <2> QED
    BY <1>14, <2>1 DEF DeviceReply
<1>15. ASSUME NEW expired \in SUBSET Alarms, SuspendReturns(expired) PROVE TypeOK'
  <2>1. expired \in SUBSET Slot
    BY DEF Alarms
  <2>2. k' \in Table
    BY <1>0, <1>15, <2>1, WakeupType DEF SuspendReturns
  <2> QED
    BY <1>15, <2>2, ControlType DEF SuspendReturns
<1>16. CASE ShutdownScan
  <2>1. Live(k) \in SUBSET Slot
    BY DEF Live
  <2> QED
    BY <1>16, <2>1, UidAssumption DEF ShutdownScan, Control
<1>17. CASE Curfew
  BY <1>17, ControlType DEF Curfew
<1>18. CASE PickZombie
  <2>1. k' \in Table
    BY <1>0, <1>18, FirstIs, ReleaseType DEF PickZombie
  <2> QED
    BY <1>18, <2>1 DEF PickZombie
<1>19. CASE Dispatch
  <2> DEFINE n == Head(k.runq[First])
             c == k.current
             t == [Dequeued EXCEPT !.ticks[n] = Quantum[k.level[n]]]
             u == IF k.state[c] = "runnable"    THEN ToRunQueue(t, c)
                  ELSE IF k.state[c] = "zombie" THEN Release(t, c)
                  ELSE t
  <2>1. n \in Slot /\ Dequeued \in Table
    BY <1>19, <1>0, FirstIs DEF Dispatch
  <2>2. Quantum[k.level[n]] \in Int
    BY <2>1, <1>0, QuantumAssumption
  <2>3. t \in Table
    BY <2>1, <2>2 DEF Table
  <2> HIDE DEF t
  <2>4. u \in Table
    BY <2>3, <1>0, ToRunQueueType, ReleaseType
  <2>5. k' = [u EXCEPT !.current = n]
    BY <1>19 DEF Dispatch, t
  <2> HIDE DEF u, n
  <2>6. k' \in Table
    BY <2>1, <2>4, <2>5 DEF Table
  <2> QED
    BY <1>19, <2>6, ControlType DEF Dispatch
<1>20. CASE PickNone
  BY <1>20, ControlType DEF PickNone
<1>21. CASE Halted
  BY <1>21 DEF Halted, vars
<1>22. CASE UNCHANGED vars
  BY <1>22 DEF vars
<1> QED
  BY <1>1, <1>2, <1>3, <1>4, <1>5, <1>6, <1>7, <1>8, <1>9, <1>10, <1>11, <1>12, <1>13,
     <1>14, <1>15, <1>16, <1>17, <1>18, <1>19, <1>20, <1>21, <1>22 DEF Next

\* The table, the run queues and the control state have their types in every
\* reachable state: slots, levels and counters stay within their ranges.
THEOREM TypeCorrect == Spec => []TypeOK
<1> QED
  BY InitType, NextType, PTL DEF Spec

-----------------------------------------------------------------------------
(* The inductive invariant behind WaitingInv and ClientHasServer.  A       *)
(* process that dies leaves, between the two halves of proc_term, clients  *)
(* without a server: X are the pids for which that is allowed.             *)

\* The free list holds free slots, none of them twice, as Release leaves them.
FreeOK(t) ==
  /\ \A i \in 1..Len(t.free) : t.state[t.free[i]] = "free"
  /\ \A i, j \in 1..Len(t.free) : i # j => t.free[i] # t.free[j]
  /\ \A s \in Slot : t.state[s] = "free" => t.waiting[s] = {} /\ s \notin t.alarm

\* WaitingInv, for a table.
MailOK(t) ==
  \A s \in Slot :
    /\ t.state[s] = "waiting"  => /\ t.recv[s] # "none"
                                  /\ t.waiting[s] = {t.recv[s]}
                                  /\ t.msgs[s][t.recv[s]] = <<>>
    /\ t.state[s] = "runnable" => t.waiting[s] = {} /\ s \notin t.alarm

Served(t, X) ==
  \A s \in Slot :
    t.state[s] = "waiting" /\ "reply" \in t.waiting[s] /\ t.server[s] \notin X
      => Alive(t, t.server[s])

TableInv(t, X) == t \in Table /\ FreeOK(t) /\ MailOK(t) /\ Served(t, X)

\* What the control state says about the current process and the loops that kill.
ControlInv ==
  /\ ctl.at = "run" => k.state[k.current] = "runnable"
  /\ ctl.at = "zap" => /\ ctl.todo \subseteq Live(k)
                       /\ ctl.then = "run" => k.state[k.current] \in {"runnable", "zombie"}

IInv == TypeOK /\ TableInv(k, {}) /\ ControlInv

\* The parts of a table the invariant is about, with their types.
LEMMA TableParts ==
  ASSUME NEW t \in Table
  PROVE  /\ t.state \in [Slot -> {"free", "runnable", "waiting", "zombie"}]
         /\ t.pid \in [Slot -> Nat] /\ t.server \in [Slot -> Nat]
         /\ t.waiting \in [Slot -> SUBSET MsgType] /\ t.alarm \in SUBSET Slot
         /\ t.msgs \in [Slot -> [MsgType -> Seq(Nat)]]
         /\ t.recv \in [Slot -> MsgType \cup {"none"}]
         /\ t.free \in Seq(Slot) /\ t.current \in Slot
  BY DEF Table

\* How the states may change while process s is dealt with: every other process stays
\* as it is or is woken up.
Wakes(t, u, S) ==
  /\ u.pid = t.pid /\ u.server = t.server /\ u.recv = t.recv /\ u.current = t.current
  /\ \A r \in Slot \ S : \/ u.state[r] = t.state[r]
                         \/ t.state[r] = "waiting" /\ u.state[r] = "runnable"

LEMMA SendFields ==
  ASSUME NEW t, NEW X, TableInv(t, X), NEW src \in Nat, NEW p, NEW type \in MsgType
  PROVE  TableInv(Send(t, src, p, type), X) /\ Wakes(t, Send(t, src, p, type), {})
<1> DEFINE d == Find(t, p)
           u == Send(t, src, p, type)
<1>1. t \in Table /\ u \in Table
  BY SendType DEF TableInv
<1>2. CASE ~CanSend(t, src, p, type)
  BY <1>2 DEF Send, Wakes
<1>3. CASE CanSend(t, src, p, type)
  <2>1. d \in Slot /\ t.state[d] # "free" /\ t.state[d] # "zombie"
    BY <1>3, FindIs DEF CanSend
  <2> DEFINE q == [t EXCEPT !.msgs[d][type] = Append(@, src)]
             w == [q EXCEPT !.state[d] = "runnable", !.nrunnable = @ + 1,
                            !.alarm = @ \ {d}, !.waiting[d] = @ \ {type}]
             b == [w EXCEPT !.level[d] = IF @ > 0 THEN @ - 1 ELSE @]
             r == ToRunQueue(b, d)
  <2>2. u = IF type \notin t.waiting[d] THEN q ELSE IF d = t.current THEN w ELSE r
    BY <1>3, Zenon DEF Send
  <2> HIDE DEF d, u
  <2>3. /\ q.pid = t.pid /\ q.server = t.server /\ q.recv = t.recv /\ q.free = t.free
        /\ q.current = t.current /\ q.state = t.state /\ q.waiting = t.waiting
        /\ q.alarm = t.alarm /\ q.msgs = [t.msgs EXCEPT ![d][type] = Append(@, src)]
    BY <1>1 DEF Table
  <2> DEFINE Woken(v) ==
        /\ v.pid = t.pid /\ v.server = t.server /\ v.recv = t.recv /\ v.free = t.free
        /\ v.current = t.current /\ v.state = [t.state EXCEPT ![d] = "runnable"]
        /\ v.waiting = [t.waiting EXCEPT ![d] = @ \ {type}]
        /\ v.alarm = t.alarm \ {d} /\ v.msgs = [t.msgs EXCEPT ![d][type] = Append(@, src)]
  <2>4. Woken(w)
    BY <1>1 DEF Table
  <2>5. Woken(r)
    BY <1>1 DEF Table, ToRunQueue
  <2> HIDE DEF q, w, b, r
  <2>6. t.state[d] \in {"runnable", "waiting"}
    BY <1>1, <2>1, TableParts
  <2>7. type \in t.waiting[d] => t.state[d] = "waiting" /\ t.waiting[d] = {type}
    BY <2>1, <2>6 DEF TableInv, MailOK
  <2>8. CASE type \notin t.waiting[d]
    <3>1. u = q
      BY <2>2, <2>8
    <3>2. Wakes(t, u, {})
      BY <2>3, <3>1 DEF Wakes
    <3>3. FreeOK(u)
      BY <2>3, <3>1 DEF TableInv, FreeOK
    <3>4. ASSUME NEW s \in Slot, t.state[s] = "waiting"
          PROVE  u.msgs[s][t.recv[s]] = t.msgs[s][t.recv[s]]
      <4>1. s = d => t.recv[s] # type
        BY <2>8, <3>4 DEF TableInv, MailOK
      <4>2. t.msgs \in [Slot -> [MsgType -> Seq(Nat)]] /\ t.recv[s] \in MsgType
        BY <1>1, <3>4, TableParts DEF TableInv, MailOK
      <4>3. CASE s = d
        BY <2>1, <2>3, <3>1, <4>1, <4>2, <4>3
      <4>4. CASE s # d
        BY <2>1, <2>3, <3>1, <4>2, <4>4
      <4> QED
        BY <4>3, <4>4
    <3>5. MailOK(u)
      BY <2>3, <3>1, <3>4 DEF TableInv, MailOK
    <3>6. Served(u, X)
      BY <2>3, <3>1 DEF TableInv, Served, Alive
    <3> QED
      BY <1>1, <3>2, <3>3, <3>5, <3>6 DEF TableInv, u
  <2>9. CASE type \in t.waiting[d]
    <3>1. Woken(u)
      BY <2>2, <2>4, <2>5, <2>9
    <3>0. \A s \in Slot : /\ u.state[s] = IF s = d THEN "runnable" ELSE t.state[s]
                          /\ u.waiting[s] = IF s = d THEN {} ELSE t.waiting[s]
      <4>1. t.state \in [Slot -> {"free", "runnable", "waiting", "zombie"}]
            /\ t.waiting \in [Slot -> SUBSET MsgType]
        BY <1>1, TableParts
      <4> QED
        BY <2>1, <2>7, <2>9, <3>1, <4>1
    <3>2. Wakes(t, u, {})
      BY <2>1, <2>7, <2>9, <3>0, <3>1 DEF Wakes
    <3>3. FreeOK(u)
      <4>1. \A s \in Slot : u.state[s] = "free" <=> t.state[s] = "free"
        BY <2>1, <3>0
      <4>2. \A i \in 1..Len(t.free) : t.free[i] \in Slot
        BY <1>1, TableParts
      <4>3. \A s \in Slot : u.state[s] = "free" => u.waiting[s] = t.waiting[s]
        BY <2>1, <3>0
      <4> QED
        BY <3>1, <4>1, <4>2, <4>3 DEF TableInv, FreeOK
    <3>4. MailOK(u)
      <4>1. ASSUME NEW s \in Slot \ {d}
            PROVE  u.state[s] = t.state[s] /\ u.waiting[s] = t.waiting[s] /\ u.msgs[s] = t.msgs[s]
        BY <1>1, <3>1, TableParts
      <4>2. u.state[d] = "runnable" /\ u.waiting[d] = {} /\ d \notin u.alarm
        BY <1>1, <2>1, <2>7, <2>9, <3>1, TableParts
      <4> QED
        BY <3>1, <4>1, <4>2 DEF TableInv, MailOK
    <3>5. Served(u, X)
      <4>1. \A s \in Slot : u.state[s] = t.state[s] \/ u.state[s] = "runnable"
        BY <1>1, <3>1, TableParts
      <4>2. \A s \in Slot : t.state[s] \in {"runnable", "waiting"}
                              => u.state[s] \in {"runnable", "waiting"}
        BY <4>1
      <4>3. \A s \in Slot : u.waiting[s] \subseteq t.waiting[s]
        BY <1>1, <3>1, TableParts
      <4> QED
        BY <3>1, <4>1, <4>2, <4>3 DEF TableInv, Served, Alive
    <3> QED
      BY <1>1, <3>2, <3>3, <3>4, <3>5 DEF TableInv, u
  <2> QED
    BY <2>8, <2>9
<1> QED
  BY <1>2, <1>3

LEMMA WakeupFields ==
  ASSUME NEW t, NEW X, TableInv(t, X), NEW C \in SUBSET Slot,
         \A s \in C : t.state[s] = "waiting"
  PROVE  TableInv(Wakeup(t, C), X) /\ Wakes(t, Wakeup(t, C), {})
<1> DEFINE u == Wakeup(t, C)
<1>1. t \in Table /\ u \in Table
  BY WakeupType DEF TableInv
<1>2. /\ u.pid = t.pid /\ u.server = t.server /\ u.recv = t.recv /\ u.free = t.free
      /\ u.msgs = t.msgs /\ u.current = t.current
      /\ u.state = [s \in Slot |-> IF s \in C THEN "runnable" ELSE t.state[s]]
      /\ u.alarm = t.alarm \ C
      /\ u.waiting = [s \in Slot |-> IF s \in C THEN {} ELSE t.waiting[s]]
  BY <1>1 DEF Wakeup, Table
<1> HIDE DEF u
<1>3. Wakes(t, u, {})
  BY <1>2 DEF Wakes
<1>4. FreeOK(u)
  <2>1. \A i \in 1..Len(t.free) : t.free[i] \in Slot
    BY <1>1, TableParts
  <2>2. \A s \in Slot : t.state[s] = "free" <=> u.state[s] = "free"
    BY <1>2
  <2>3. \A s \in Slot : u.state[s] = "free" => u.waiting[s] = t.waiting[s]
    BY <1>2
  <2> QED
    BY <1>2, <2>1, <2>2, <2>3 DEF TableInv, FreeOK
<1>5. MailOK(u)
  BY <1>2 DEF TableInv, MailOK
<1>6. Served(u, X)
  BY <1>2 DEF TableInv, Served, Alive
<1> QED
  BY <1>1, <1>3, <1>4, <1>5, <1>6 DEF TableInv, u

\* The table once proc_term has made process s a zombie.
Dead(t, s) ==
  [t EXCEPT !.state[s] = "zombie",
            !.nrunnable = IF t.state[s] = "runnable" THEN @ - 1 ELSE @]

LEMMA DeadFields ==
  ASSUME NEW t, TableInv(t, {}), NEW s \in Live(t)
  PROVE  /\ TableInv(Dead(t, s), {t.pid[s]})
         /\ \A r \in Slot : Dead(t, s).state[r] = IF r = s THEN "zombie" ELSE t.state[r]
         /\ Dead(t, s).pid = t.pid /\ Dead(t, s).server = t.server
         /\ Dead(t, s).recv = t.recv /\ Dead(t, s).current = t.current
         /\ Dead(t, s).waiting = t.waiting
<1> DEFINE p == t.pid[s]
           z == Dead(t, s)
<1>1. s \in Slot /\ t.state[s] # "free" /\ t \in Table
  BY DEF Live, TableInv
<1>2. z \in Table
  BY <1>1, TableCounters DEF Table, Dead
<1>3. /\ z.pid = t.pid /\ z.server = t.server /\ z.recv = t.recv /\ z.free = t.free
      /\ z.msgs = t.msgs /\ z.current = t.current /\ z.alarm = t.alarm
      /\ z.waiting = t.waiting /\ z.state = [t.state EXCEPT ![s] = "zombie"]
  BY <1>1 DEF Table, Dead
<1> HIDE DEF z
<1>4. \A r \in Slot : z.state[r] = IF r = s THEN "zombie" ELSE t.state[r]
  BY <1>1, <1>3, TableParts
<1>5. FreeOK(z)
  <2>1. \A i \in 1..Len(t.free) : t.free[i] \in Slot
    BY <1>1, TableParts
  <2> QED
    BY <1>1, <1>3, <1>4, <2>1 DEF TableInv, FreeOK
<1>6. MailOK(z)
  BY <1>3, <1>4 DEF TableInv, MailOK
<1>7. Served(z, {p})
  BY <1>3, <1>4 DEF TableInv, Served, Alive
<1> QED
  BY <1>2, <1>3, <1>4, <1>5, <1>6, <1>7 DEF TableInv, z

\* proc_term leaves no client of the dead process behind: whoever still waits for a
\* reply waits for somebody else.
LEMMA TermFields ==
  ASSUME NEW t, TableInv(t, {}), NEW s \in Live(t)
  PROVE  /\ TableInv(Term(t, s), {}) /\ Wakes(t, Term(t, s), {s})
         /\ Term(t, s).state[s] = "zombie"
<1> DEFINE p == t.pid[s]
           z == Dead(t, s)
           n == Send(z, p, t.owner[s], "event")
           C == Clients(n, p)
           u == Wakeup(n, C)
<1>1. s \in Slot /\ t.state[s] # "free" /\ t \in Table
  BY DEF Live, TableInv
<1>2. CASE t.state[s] = "zombie"
  BY <1>1, <1>2 DEF Term, Wakes
<1>3. CASE t.state[s] # "zombie"
  <2>1. /\ z.pid = t.pid /\ z.server = t.server /\ z.recv = t.recv /\ z.current = t.current
        /\ \A r \in Slot : z.state[r] = IF r = s THEN "zombie" ELSE t.state[r]
    BY DeadFields
  <2>2. TableInv(z, {p})
    BY DeadFields
  <2> HIDE DEF z
  <2>3. p \in Nat /\ "event" \in MsgType
    BY <1>1 DEF Table, MsgType
  <2>4. TableInv(n, {p}) /\ Wakes(z, n, {})
    BY <2>2, <2>3, SendFields
  <2> HIDE DEF n
  <2>5. C \in SUBSET Slot /\ \A c \in C : n.state[c] = "waiting"
    BY DEF Clients
  <2>6. TableInv(u, {p}) /\ Wakes(n, u, {})
    BY <2>4, <2>5, WakeupFields
  <2>7. u.state = [c \in Slot |-> IF c \in C THEN "runnable" ELSE n.state[c]]
        /\ u.waiting = [c \in Slot |-> IF c \in C THEN {} ELSE n.waiting[c]]
    BY <2>4 DEF Wakeup, TableInv, Table
  <2> HIDE DEF C, u
  <2>8. ASSUME NEW c \in Slot, u.state[c] = "waiting", "reply" \in u.waiting[c]
        PROVE  u.server[c] # p
    <3>1. c \notin C
      BY <2>7, <2>8
    <3>2. n.state[c] = "waiting" /\ "reply" \in n.waiting[c] /\ n.server[c] = u.server[c]
      BY <2>6, <2>7, <2>8, <3>1 DEF Wakes
    <3> QED
      BY <3>1, <3>2 DEF C, Clients
  <2>9. TableInv(u, {})
    BY <2>6, <2>8 DEF TableInv, Served
  <2>10. u.state[s] = "zombie" /\ Wakes(t, u, {s})
    BY <1>1, <2>1, <2>4, <2>6 DEF Wakes
  <2>11. Term(t, s) = u
    BY <1>3, Zenon DEF Term, u, C, n, z, Dead
  <2> QED
    BY <2>9, <2>10, <2>11
<1> QED
  BY <1>2, <1>3

LEMMA ReleaseFields ==
  ASSUME NEW t, TableInv(t, {}), NEW s \in Slot, t.state[s] = "zombie"
  PROVE  /\ TableInv(Release(t, s), {})
         /\ \A r \in Slot \ {s} : Release(t, s).state[r] = t.state[r]
         /\ Release(t, s).current = t.current
<1> DEFINE u == Release(t, s)
<1>1. t \in Table /\ u \in Table
  BY ReleaseType DEF TableInv
<1>2. /\ u.free = Append(t.free, s) /\ u.current = t.current /\ u.alarm = t.alarm \ {s}
      /\ \A r \in Slot \ {s} :
           /\ u.state[r] = t.state[r] /\ u.pid[r] = t.pid[r] /\ u.server[r] = t.server[r]
           /\ u.waiting[r] = t.waiting[r] /\ u.msgs[r] = t.msgs[r] /\ u.recv[r] = t.recv[r]
      /\ u.state[s] = "free" /\ u.waiting[s] = {}
  <2>1. /\ u.state = [t.state EXCEPT ![s] = "free"] /\ u.msgs = [t.msgs EXCEPT ![s] = NoMsgs]
        /\ u.waiting = [t.waiting EXCEPT ![s] = {}] /\ u.pid = [t.pid EXCEPT ![s] = NoPid]
        /\ u.free = Append(t.free, s) /\ u.current = t.current /\ u.alarm = t.alarm \ {s}
        /\ u.server = [t.server EXCEPT ![s] = NoPid] /\ u.recv = [t.recv EXCEPT ![s] = "none"]
    BY <1>1, ReleaseIs
  <2> HIDE DEF u
  <2>2. /\ DOMAIN t.state = Slot /\ DOMAIN t.msgs = Slot /\ DOMAIN t.waiting = Slot
        /\ DOMAIN t.pid = Slot /\ DOMAIN t.server = Slot /\ DOMAIN t.recv = Slot
    BY <1>1, TableParts
  <2> QED
    BY <2>1, <2>2
<1> HIDE DEF u
<1>3. FreeOK(u)
  <2>1. t.free \in Seq(Slot)
    BY <1>1 DEF Table
  <2>2. /\ Len(u.free) = Len(t.free) + 1 /\ u.free[Len(t.free) + 1] = s
        /\ \A i \in 1..Len(t.free) : u.free[i] = t.free[i]
    BY <1>2, <2>1
  <2>3. \A i \in 1..Len(t.free) : t.free[i] \in Slot /\ t.state[t.free[i]] = "free"
    BY <2>1 DEF TableInv, FreeOK
  <2>4. \A i \in 1..Len(t.free) : t.free[i] # s
    BY <2>3
  <2>5. Len(t.free) \in Nat
    BY <2>1
  <2>6. \A i \in 1..Len(u.free) : u.state[u.free[i]] = "free"
    <3> SUFFICES ASSUME NEW i \in 1..Len(u.free) PROVE u.state[u.free[i]] = "free"
      OBVIOUS
    <3>1. CASE i = Len(u.free)
      BY <1>2, <2>2, <3>1
    <3>2. CASE i # Len(u.free)
      BY <1>2, <2>2, <2>3, <2>4, <2>5, <3>2
    <3> QED
      BY <3>1, <3>2
  <2>7. ASSUME NEW i \in 1..Len(u.free), NEW j \in 1..Len(u.free), i # j
        PROVE  u.free[i] # u.free[j]
    <3>1. CASE i = Len(u.free)
      BY <2>2, <2>4, <2>5, <2>7, <3>1
    <3>2. CASE j = Len(u.free)
      BY <2>2, <2>4, <2>5, <2>7, <3>2
    <3>3. CASE i # Len(u.free) /\ j # Len(u.free)
      <4>1. i \in 1..Len(t.free) /\ j \in 1..Len(t.free)
        BY <2>2, <2>5, <3>3
      <4> QED
        BY <2>2, <2>7, <4>1 DEF TableInv, FreeOK
    <3> QED
      BY <3>1, <3>2, <3>3
  <2>8. \A r \in Slot : u.state[r] = "free" => u.waiting[r] = {} /\ r \notin u.alarm
    BY <1>2 DEF TableInv, FreeOK
  <2> QED
    BY <2>6, <2>7, <2>8 DEF FreeOK
<1>4. MailOK(u)
  BY <1>2 DEF TableInv, MailOK
<1>5. Served(u, {})
  <2>1. \A q : Alive(t, q) => Alive(u, q)
    BY <1>2 DEF Alive
  <2> QED
    BY <1>2, <2>1 DEF TableInv, Served
<1> QED
  BY <1>1, <1>2, <1>3, <1>4, <1>5 DEF TableInv, u

LEMMA ZapFields ==
  ASSUME NEW t, TableInv(t, {}), NEW u, NEW s \in Live(t)
  PROVE  /\ TableInv(Zap(t, u, s), {}) /\ Zap(t, u, s).current = t.current
         /\ \A r \in Slot \ {s} : \/ Zap(t, u, s).state[r] = t.state[r]
                                  \/ t.state[r] = "waiting" /\ Zap(t, u, s).state[r] = "runnable"
         /\ s = t.current => Zap(t, u, s).state[s] \in {t.state[s], "zombie"}
<1>1. /\ TableInv(Term(t, s), {}) /\ Wakes(t, Term(t, s), {s}) /\ Term(t, s).state[s] = "zombie"
      /\ s \in Slot
  BY TermFields DEF Live
<1>2. /\ TableInv(Release(Term(t, s), s), {})
      /\ \A r \in Slot \ {s} : Release(Term(t, s), s).state[r] = Term(t, s).state[r]
      /\ Release(Term(t, s), s).current = Term(t, s).current
  BY <1>1, ReleaseFields
<1>3. CASE Zap(t, u, s) = t
  BY <1>3
<1>4. CASE Zap(t, u, s) = Term(t, s)
  BY <1>1, <1>4 DEF Wakes
<1>5. CASE Zap(t, u, s) = Release(Term(t, s), s) /\ s # t.current
  BY <1>1, <1>2, <1>5 DEF Wakes
<1> QED
  BY <1>3, <1>4, <1>5, Zenon DEF Zap

\* What the invariant does not speak of: run queues, priorities and counters.
SameParts(t, u) ==
  /\ u.state = t.state /\ u.pid = t.pid /\ u.server = t.server /\ u.waiting = t.waiting
  /\ u.alarm = t.alarm /\ u.msgs = t.msgs /\ u.recv = t.recv /\ u.free = t.free

LEMMA SamePartsInv ==
  ASSUME NEW t, NEW u \in Table, NEW X, TableInv(t, X), SameParts(t, u)
  PROVE  TableInv(u, X)
  BY DEF SameParts, TableInv, FreeOK, MailOK, Served, Alive

\* sys_rpc notes the server of a process that runs.
Serve(t, p) == [t EXCEPT !.server[t.current] = p]

SameButServer(t, u) ==
  /\ u.state = t.state /\ u.pid = t.pid /\ u.waiting = t.waiting /\ u.alarm = t.alarm
  /\ u.msgs = t.msgs /\ u.recv = t.recv /\ u.free = t.free /\ u.current = t.current
  /\ u.gen = t.gen /\ u.level = t.level /\ u.runq = t.runq /\ u.nprocs = t.nprocs
  /\ u.nrunnable = t.nrunnable

LEMMA ServerFields ==
  ASSUME NEW t, TableInv(t, {}), t.state[t.current] = "runnable", NEW p \in Nat
  PROVE  /\ TableInv(Serve(t, p), {}) /\ SameButServer(t, Serve(t, p))
         /\ Serve(t, p).server = [t.server EXCEPT ![t.current] = p]
<1> DEFINE c == t.current
           u == Serve(t, p)
<1>1. t \in Table /\ c \in Slot
  BY TableParts DEF TableInv
<1>2. u \in Table
  BY <1>1 DEF Table, Serve
<1>3. SameButServer(t, u) /\ u.server = [t.server EXCEPT ![c] = p]
  BY <1>1 DEF Table, Serve, SameButServer
<1> HIDE DEF u
<1>4. \A x \in Slot \ {c} : u.server[x] = t.server[x]
  BY <1>1, <1>3, TableParts
<1>5. TableInv(u, {})
  BY <1>2, <1>3, <1>4 DEF SameButServer, TableInv, FreeOK, MailOK, Served, Alive
<1> QED
  BY <1>3, <1>5 DEF u

LEMMA ReceiveFields ==
  ASSUME NEW t, TableInv(t, {}), NEW type \in MsgType, NEW timed \in BOOLEAN,
         t.state[t.current] = "runnable",
         type = "reply" => Alive(t, t.server[t.current])
  PROVE  /\ TableInv(Receive(t, type, timed), {})
         /\ Receive(t, type, timed).current = t.current
         /\ Receive(t, type, timed).state[t.current] \in {"runnable", "waiting"}
<1> DEFINE c == t.current
           u == Receive(t, type, timed)
<1>1. t \in Table /\ u \in Table
  BY ReceiveType DEF TableInv
<1>2. /\ t.state \in [Slot -> {"free", "runnable", "waiting", "zombie"}]
      /\ t.waiting \in [Slot -> SUBSET MsgType] /\ t.msgs \in [Slot -> [MsgType -> Seq(Nat)]]
      /\ t.recv \in [Slot -> MsgType \cup {"none"}] /\ c \in Slot
      /\ \A i \in 1..Len(t.free) : t.free[i] \in Slot
  BY <1>1, TableParts
<1>3. CASE t.msgs[c][type] # <<>>
  <2>1. /\ u.state = t.state /\ u.pid = t.pid /\ u.server = t.server /\ u.waiting = t.waiting
        /\ u.alarm = t.alarm /\ u.recv = t.recv /\ u.free = t.free /\ u.current = t.current
        /\ u.msgs = [t.msgs EXCEPT ![c][type] = Tail(@)]
    BY <1>1, <1>3 DEF Receive, Table
  <2> HIDE DEF u
  <2>2. \A s \in Slot : t.state[s] = "waiting" => u.msgs[s] = t.msgs[s]
    BY <1>2, <2>1
  <2>3. FreeOK(u) /\ MailOK(u) /\ Served(u, {})
    BY <2>1, <2>2 DEF TableInv, FreeOK, MailOK, Served, Alive
  <2> QED
    BY <1>1, <2>1, <2>3 DEF TableInv, u
<1>4. CASE t.msgs[c][type] = <<>>
  <2>1. /\ u.pid = t.pid /\ u.server = t.server /\ u.msgs = t.msgs /\ u.free = t.free
        /\ u.current = t.current /\ u.state = [t.state EXCEPT ![c] = "waiting"]
        /\ u.waiting = [t.waiting EXCEPT ![c] = @ \cup {type}]
        /\ u.recv = [t.recv EXCEPT ![c] = type]
        /\ u.alarm = IF timed THEN t.alarm \cup {c} ELSE t.alarm
    BY <1>1, <1>4 DEF Receive, Table
  <2> HIDE DEF u
  <2>2. t.waiting[c] = {}
    BY <1>2 DEF TableInv, MailOK
  <2>3. \A s \in Slot : /\ u.state[s] = IF s = c THEN "waiting" ELSE t.state[s]
                        /\ u.waiting[s] = IF s = c THEN {type} ELSE t.waiting[s]
                        /\ u.recv[s] = IF s = c THEN type ELSE t.recv[s]
                        /\ s # c => (s \in u.alarm <=> s \in t.alarm)
    BY <1>2, <2>1, <2>2
  <2> HIDE DEF c
  <2>4. FreeOK(u)
    BY <1>2, <2>1, <2>3 DEF TableInv, FreeOK, c
  <2>5. MailOK(u)
    <3>1. type # "none"
      BY DEF MsgType
    <3> QED
      BY <1>4, <2>1, <2>3, <3>1 DEF TableInv, MailOK
  <2>6. Served(u, {})
    <3>1. \A p : Alive(t, p) => Alive(u, p)
      BY <2>1, <2>3 DEF Alive
    <3>2. \A s \in Slot : u.server[s] = t.server[s]
      BY <2>1
    <3> QED
      BY <2>3, <3>1, <3>2 DEF TableInv, Served, c
  <2> QED
    BY <1>1, <1>2, <2>1, <2>3, <2>4, <2>5, <2>6 DEF TableInv, u, c
<1> QED
  BY <1>3, <1>4

LEMMA AllocFields ==
  ASSUME NEW t, TableInv(t, {}), t.free # <<>>,
         NEW owner \in Nat, NEW v \in Uids, NEW kind \in Kind
  PROVE  /\ TableInv(Alloc(t, owner, v, kind), {})
         /\ Alloc(t, owner, v, kind).state[Head(t.free)] = "runnable"
<1> DEFINE s == Head(t.free)
           u == Alloc(t, owner, v, kind)
<1>1. t \in Table /\ u \in Table
  BY AllocType DEF TableInv
<1>2. t.free \in Seq(Slot)
  BY <1>1, TableParts
<1>3. /\ s = t.free[1] /\ 1 \in 1..Len(t.free) /\ Len(Tail(t.free)) = Len(t.free) - 1
      /\ Len(t.free) \in Nat
      /\ \A i \in 1..Len(Tail(t.free)) : Tail(t.free)[i] = t.free[i + 1]
  BY <1>2
<1>4. s \in Slot /\ t.state[s] = "free"
  BY <1>2, <1>3 DEF TableInv, FreeOK
<1>5. /\ u.server = t.server /\ u.waiting = t.waiting /\ u.alarm = t.alarm /\ u.msgs = t.msgs
      /\ u.recv = t.recv /\ u.free = Tail(t.free)
      /\ u.state = [t.state EXCEPT ![s] = "runnable"] /\ u.pid = [t.pid EXCEPT ![s] = t.gen]
  <2> DEFINE a == [t EXCEPT !.free = Tail(@), !.state[s] = "runnable", !.pid[s] = t.gen,
                            !.uid[s] = v]
             b == [a EXCEPT !.owner[s] = owner, !.kind[s] = kind,
                            !.level[s] = 0, !.ticks[s] = Quantum[0]]
             c == [b EXCEPT !.gen = @ + 1, !.nprocs = @ + 1, !.nrunnable = @ + 1]
  <2>1. u = c
    BY DEF Alloc
  <2> HIDE DEF s, u
  <2>2. /\ a.server = t.server /\ a.waiting = t.waiting /\ a.alarm = t.alarm /\ a.msgs = t.msgs
        /\ a.recv = t.recv /\ a.free = Tail(t.free) /\ DOMAIN a = DOMAIN t
        /\ a.state = [t.state EXCEPT ![s] = "runnable"] /\ a.pid = [t.pid EXCEPT ![s] = t.gen]
    BY <1>1 DEF Table
  <2> HIDE DEF a
  <2>3. SameParts(a, b) /\ DOMAIN b = DOMAIN t
    BY <1>1, <2>2 DEF Table, SameParts
  <2> HIDE DEF b
  <2>4. SameParts(b, c)
    BY <1>1, <2>3 DEF Table, SameParts
  <2> HIDE DEF c
  <2> QED
    BY <2>1, <2>2, <2>3, <2>4 DEF SameParts
<1> HIDE DEF u
<1>6. \A r \in Slot : u.state[r] = IF r = s THEN "runnable" ELSE t.state[r]
  BY <1>1, <1>4, <1>5, TableParts
<1>7. \A r \in Slot : r # s => u.pid[r] = t.pid[r]
  BY <1>1, <1>4, <1>5, TableParts
<1>8. FreeOK(u)
  <2>1. ASSUME NEW i \in 1..Len(u.free)
        PROVE  u.free[i] = t.free[i + 1] /\ i + 1 \in 1..Len(t.free) /\ i + 1 # 1
    BY <1>3, <1>5
  <2>2. \A i \in 1..Len(u.free) : u.free[i] \in Slot /\ u.free[i] # s
    BY <1>2, <1>3, <2>1 DEF TableInv, FreeOK
  <2>3. \A i \in 1..Len(u.free) : u.state[u.free[i]] = "free"
    BY <1>6, <2>1, <2>2 DEF TableInv, FreeOK
  <2>4. \A i, j \in 1..Len(u.free) : i # j => u.free[i] # u.free[j]
    <3> SUFFICES ASSUME NEW i \in 1..Len(u.free), NEW j \in 1..Len(u.free), i # j
                 PROVE  u.free[i] # u.free[j]
      OBVIOUS
    <3>1. i + 1 # j + 1
      OBVIOUS
    <3> QED
      BY <2>1, <3>1 DEF TableInv, FreeOK
  <2> QED
    BY <1>5, <1>6, <2>3, <2>4 DEF TableInv, FreeOK
<1>9. MailOK(u)
  <2>1. t.waiting[s] = {} /\ s \notin t.alarm
    BY <1>4 DEF TableInv, FreeOK
  <2> QED
    BY <1>5, <1>6, <2>1 DEF TableInv, MailOK
<1>10. Served(u, {})
  <2>1. \A p : Alive(t, p) => Alive(u, p)
    BY <1>4, <1>6, <1>7 DEF Alive
  <2> QED
    BY <1>5, <1>6, <2>1 DEF TableInv, Served
<1> QED
  BY <1>1, <1>4, <1>6, <1>8, <1>9, <1>10 DEF TableInv, u

LEMMA InitInv == Init => IInv
<1> SUFFICES ASSUME Init PROVE IInv
  OBVIOUS
<1>1. TypeOK /\ k \in Table
  BY InitType DEF TypeOK
<1>2. /\ k.state = [s \in Slot |-> IF s = 1 THEN "runnable" ELSE "free"]
      /\ k.waiting = [s \in Slot |-> {}] /\ k.alarm = {} /\ k.current = 1
      /\ k.free = [j \in 1..(MaxProcs - 1) |-> j + 1]
  BY DEF Init
<1>3. \A j \in 1..(MaxProcs - 1) : j + 1 \in Slot /\ j + 1 # 1
  BY SlotAssumption DEF Slot
<1>4. /\ Len(k.free) = MaxProcs - 1
      /\ \A j \in 1..Len(k.free) : k.free[j] = j + 1
  BY <1>2, SlotAssumption
<1>5. FreeOK(k)
  <2>1. ASSUME NEW j \in 1..Len(k.free) PROVE k.state[k.free[j]] = "free"
    <3>1. k.free[j] = j + 1 /\ j \in 1..(MaxProcs - 1)
      BY <1>4
    <3>2. j + 1 \in Slot /\ j + 1 # 1
      BY <3>1, <1>3
    <3>3. \A s \in Slot : s # 1 => k.state[s] = "free"
      BY <1>2
    <3> QED
      BY <3>1, <3>2, <3>3
  <2>2. \A i, j \in 1..Len(k.free) : i # j => k.free[i] # k.free[j]
    BY <1>4
  <2>3. \A s \in Slot : k.waiting[s] = {} /\ s \notin k.alarm
    BY <1>2
  <2> QED
    BY <2>1, <2>2, <2>3 DEF FreeOK
<1>6. MailOK(k) /\ Served(k, {})
  BY <1>2 DEF MailOK, Served
<1>7. ControlInv
  <2>1. ctl.at = "run" /\ 1 \in Slot
    BY SlotAssumption DEF Init, Run, Slot
  <2> QED
    BY <1>2, <2>1 DEF ControlInv
<1> QED
  BY <1>1, <1>5, <1>6, <1>7 DEF IInv, TableInv

\* Every action preserves the invariant.
LEMMA NextInv == IInv /\ [Next]_vars => IInv'
<1> SUFFICES ASSUME IInv, [Next]_vars PROVE TableInv(k', {}) /\ ControlInv'
  BY NextType DEF IInv, TableInv, FreeOK, MailOK, Served, Alive, Table
<1>0. /\ TypeOK /\ k \in Table /\ TableInv(k, {}) /\ ControlInv
      /\ k.current \in Slot /\ \A s \in Slot : k.pid[s] \in Nat /\ k.uid[s] \in Uids
      /\ \A m \in {"request", "reply", "event"} : m \in MsgType
      /\ \A n \in 1..MaxPid : n \in Nat
  <2>1. TypeOK /\ k \in Table /\ TableInv(k, {}) /\ ControlInv
    BY DEF IInv, TypeOK
  <2>2. k.current \in Slot
    BY <2>1 DEF Table
  <2>3. \A s \in Slot : k.pid[s] \in Nat /\ k.uid[s] \in Uids
    BY <2>1 DEF Table
  <2>4. \A m \in {"request", "reply", "event"} : m \in MsgType
    BY DEF MsgType
  <2> QED
    BY <2>1, <2>2, <2>3, <2>4, BoundAssumption
<1> DEFINE c == k.current
<1>a. ctl.at = "run" => k.state[c] = "runnable"
  BY <1>0 DEF ControlInv
<1>b. /\ Run.at = "run" /\ Suspend.at = "suspend" /\ Pick.at = "pick" /\ Halt.at = "halt"
  BY DEF Run, Suspend, Pick, Halt
<1>1. ASSUME NEW type \in {"request", "event"}, NEW timed \in BOOLEAN, Recv(type, timed)
      PROVE  TableInv(k', {}) /\ ControlInv'
  <2>1. k.state[c] = "runnable" /\ k' = Receive(k, type, timed) /\ ctl' = AfterReceive(k')
    BY <1>a, <1>1 DEF Recv, Running
  <2>2. TableInv(k', {}) /\ k'.current = c /\ k'.state[c] \in {"runnable", "waiting"}
    BY <1>0, <2>1, ReceiveFields
  <2> QED
    BY <1>b, <2>1, <2>2 DEF AfterReceive, ControlInv
<1>2. ASSUME NEW p \in 1..MaxPid, Rpc(p) PROVE TableInv(k', {}) /\ ControlInv'
  <2> DEFINE s == Send(k, k.pid[c], p, "request")
             r == Serve(s, p)
             d == Find(k, p)
  <2>1. /\ k.state[c] = "runnable" /\ k' = Receive([s EXCEPT !.server[c] = p], "reply", FALSE)
        /\ ctl' = AfterReceive(k') /\ CanSend(k, k.pid[c], p, "request")
    BY <1>a, <1>2 DEF Rpc, Running
  <2>2. TableInv(s, {}) /\ Wakes(k, s, {})
    <3>1. k.pid[c] \in Nat /\ "request" \in MsgType
      BY <1>0
    <3> QED
      BY <3>1, <1>0, SendFields
  <2>3. s.current = c /\ s.state[c] = "runnable"
    BY <1>0, <2>1, <2>2 DEF Wakes
  <2>4. Alive(s, p)
    <3>1. d \in Slot /\ k.state[d] \in {"runnable", "waiting"} /\ k.pid[d] = p
      BY <1>0, <2>1, FindIs, TableParts DEF CanSend
    <3>2. s.state[d] \in {"runnable", "waiting"} /\ s.pid[d] = p
      BY <2>2, <3>1 DEF Wakes
    <3> QED
      BY <3>1, <3>2 DEF Alive
  <2> HIDE DEF s
  <2>5. /\ TableInv(r, {}) /\ SameButServer(s, r) /\ r.server = [s.server EXCEPT ![s.current] = p]
    BY <1>0, <2>2, <2>3, ServerFields
  <2>6. r.server[c] = p
    BY <1>0, <2>2, <2>3, <2>5, TableParts DEF TableInv
  <2>7. k' = Receive(r, "reply", FALSE)
    BY <2>1, <2>3 DEF Serve
  <2> HIDE DEF r
  <2>8. r.current = c /\ r.state[c] = "runnable" /\ Alive(r, r.server[c])
    BY <2>3, <2>4, <2>5, <2>6 DEF SameButServer, Alive
  <2>9. TableInv(k', {}) /\ k'.current = c /\ k'.state[c] \in {"runnable", "waiting"}
    BY <1>0, <2>5, <2>7, <2>8, ReceiveFields
  <2> QED
    BY <1>b, <2>1, <2>9 DEF AfterReceive, ControlInv
<1>3. ASSUME NEW p \in 1..MaxPid, NEW type \in {"reply", "event"}, SendMsg(p, type)
      PROVE  TableInv(k', {}) /\ ControlInv'
  <2>1. TableInv(k', {}) /\ Wakes(k, k', {})
    BY <1>0, <1>3, SendFields DEF SendMsg
  <2>2. k'.current = c /\ k'.state[c] = "runnable" /\ ctl' = ctl /\ ctl.at = "run"
    BY <1>0, <1>3, <1>a, <2>1 DEF SendMsg, Running, Wakes
  <2> QED
    BY <2>1, <2>2 DEF ControlInv
<1>4. CASE Resume
  <2> DEFINE type == k.recv[c]
             m == [k.msgs EXCEPT ![c][type] = IF @ = <<>> THEN @ ELSE Tail(@)]
             r == [k.recv EXCEPT ![c] = "none"]
  <2>1. ctl.at = "run" /\ ctl' = ctl /\ k.state[c] = "runnable" /\ k' = [k EXCEPT !.recv = r, !.msgs = m]
    BY <1>4, <1>a DEF Resume
  <2>2. \A s \in Slot \ {c} : m[s] = k.msgs[s] /\ r[s] = k.recv[s]
    BY <1>0, TableParts
  <2> HIDE DEF m, r
  <2>3. /\ k'.state = k.state /\ k'.pid = k.pid /\ k'.server = k.server /\ k'.waiting = k.waiting
        /\ k'.alarm = k.alarm /\ k'.free = k.free /\ k'.current = k.current
        /\ k'.msgs = m /\ k'.recv = r
    BY <1>0, <2>1 DEF Table
  <2>4. k' \in Table
    BY <1>0, <1>4, NextType DEF TypeOK
  <2>5. TableInv(k', {})
    BY <1>0, <2>1, <2>2, <2>3, <2>4 DEF TableInv, FreeOK, MailOK, Served, Alive
  <2> QED
    BY <2>1, <2>3, <2>5 DEF ControlInv
<1>5. CASE Exit
  <2>1. c \in Live(k) /\ k' = Term(k, c) /\ ctl' = Suspend
    BY <1>0, <1>5, <1>a DEF Exit, Running, Live
  <2>2. TableInv(k', {})
    BY <1>0, <2>1, TermFields
  <2> QED
    BY <1>b, <2>1, <2>2 DEF ControlInv
<1>6. ASSUME NEW f \in Slot, NEW u \in Uids, NEW kind \in Kinds, Create(f, u, kind)
      PROVE  TableInv(k', {}) /\ ControlInv'
  <2> DEFINE v == IF k.uid[f] # 0 THEN k.uid[f] ELSE u
             a == Alloc(k, k.pid[f], v, kind)
             b == ToRunQueue(a, c)
             e == [b EXCEPT !.current = Head(k.free)]
  <2>1. v \in Uids /\ kind \in Kind /\ k.pid[f] \in Nat
    BY <1>0, KindAssumption
  <2>2. k.free # <<>> /\ k' = e /\ ctl' = ctl /\ ctl.at = "run"
    BY <1>6 DEF Create, InKernelServer, Running
  <2> HIDE DEF v
  <2>3. TableInv(a, {}) /\ a.state[Head(k.free)] = "runnable"
    BY <1>0, <2>1, <2>2, AllocFields
  <2> HIDE DEF a
  <2>4. a \in Table /\ b \in Table
    BY <1>0, <2>3, ToRunQueueType DEF TableInv
  <2>5. SameParts(a, b)
    BY <2>4 DEF SameParts, ToRunQueue, Table
  <2> HIDE DEF b
  <2>6. SameParts(b, e) /\ e.current = Head(k.free)
    BY <2>4 DEF SameParts, Table
  <2>7. k' \in Table
    BY <1>0, <1>6, NextType DEF Next, TypeOK
  <2> HIDE DEF e
  <2>8. TableInv(k', {})
    BY <2>2, <2>3, <2>4, <2>5, <2>6, <2>7, SamePartsInv
  <2>9. k'.state[k'.current] = "runnable"
    BY <2>2, <2>3, <2>5, <2>6 DEF SameParts
  <2> QED
    BY <2>2, <2>8, <2>9 DEF ControlInv
<1>7. ASSUME NEW f \in Slot, NEW s \in Slot, Kill(f, s) PROVE TableInv(k', {}) /\ ControlInv'
  <2>1. /\ s \in Live(k) /\ k' = Zap(k, k.uid[f], s) /\ k.state[c] = "runnable"
        /\ ctl' = IF k'.state[s] = "zombie" THEN Suspend ELSE Run
    BY <1>a, <1>7 DEF Kill, InKernelServer, Running
  <2>2. /\ TableInv(k', {}) /\ k'.current = c
        /\ s = c => k'.state[s] \in {k.state[s], "zombie"}
        /\ s # c => k'.state[c] \in {k.state[c], "runnable"}
    BY <1>0, <2>1, ZapFields
  <2>3. CASE k'.state[s] = "zombie"
    BY <1>b, <2>1, <2>2, <2>3 DEF ControlInv
  <2>4. CASE k'.state[s] # "zombie"
    BY <1>b, <2>1, <2>2, <2>4 DEF ControlInv
  <2> QED
    BY <2>3, <2>4
<1>8. ASSUME NEW f \in Slot, KillAll(f) PROVE TableInv(k', {}) /\ ControlInv'
  <2>1. /\ k' = k /\ ctl'.at = "zap" /\ ctl'.todo = Jobs /\ ctl'.then = ctl.at
    BY <1>8 DEF KillAll
  <2>2. Jobs \subseteq Live(k)
    BY DEF Jobs
  <2> QED
    BY <1>0, <1>a, <2>1, <2>2 DEF ControlInv
<1>9. CASE ZapStep
  <2>1. PICK s \in ctl.todo : k' = Zap(k, ctl.uid, s) /\ ctl' = [ctl EXCEPT !.todo = @ \ {s}]
    BY <1>9 DEF ZapStep
  <2>2. ctl.at = "zap" /\ ctl \in [at: {"zap"}, todo: SUBSET Slot, uid: Uids, then: {"run", "suspend", "pick"}]
    BY <1>0, <1>9 DEF ZapStep, TypeOK, Control
  <2>3. s \in Live(k) /\ ctl.todo \subseteq Live(k)
    BY <1>0, <2>1, <2>2 DEF ControlInv
  <2>4. /\ TableInv(k', {}) /\ k'.current = c
        /\ \A r \in Slot \ {s} : k'.state[r] \in {k.state[r], "runnable"}
        /\ s = c => k'.state[s] \in {k.state[s], "zombie"}
    BY <1>0, <2>1, <2>3, ZapFields
  <2>5. /\ ctl'.at = "zap" /\ ctl'.todo = ctl.todo \ {s} /\ ctl'.then = ctl.then
    BY <2>1, <2>2
  <2>6. ctl'.todo \subseteq Live(k')
    BY <2>3, <2>4, <2>5 DEF Live
  <2>7. ctl.then = "run" => k'.state[c] \in {"runnable", "zombie"}
    BY <1>0, <2>2, <2>4 DEF ControlInv
  <2> QED
    BY <2>4, <2>5, <2>6, <2>7 DEF ControlInv
<1>10. CASE ZapDone
  <2>1. ctl.at = "zap" /\ k' = k
        /\ ctl' = IF ctl.then # "pick" /\ k.state[c] = "zombie" THEN Suspend ELSE [at |-> ctl.then]
    BY <1>10 DEF ZapDone
  <2>2. ctl \in [at: {"zap"}, todo: SUBSET Slot, uid: Uids, then: {"run", "suspend", "pick"}]
    BY <1>0, <1>10 DEF ZapDone, TypeOK, Control
  <2>3. CASE ctl.then # "pick" /\ k.state[c] = "zombie"
    BY <1>0, <1>b, <2>1, <2>3 DEF ControlInv
  <2>4. CASE ~(ctl.then # "pick" /\ k.state[c] = "zombie")
    <3>1. ctl'.at = ctl.then /\ ctl.then \in {"run", "suspend", "pick"}
      BY <2>1, <2>2, <2>4
    <3> QED
      BY <1>0, <2>1, <2>4, <3>1 DEF ControlInv
  <2> QED
    BY <2>3, <2>4
<1>11. CASE ClockInterrupt
  <2> DEFINE left == k.ticks[c] - 1
             tk == [k.ticks EXCEPT ![c] = IF left < -1 THEN -1 ELSE left]
             lv == [k.level EXCEPT ![c] = IF left = 0 /\ @ < Levels - 1 THEN @ + 1 ELSE @]
  <2>1. k' = [k EXCEPT !.ticks = tk, !.level = lv] /\ ctl' \in {Run, Suspend} /\ ctl.at = "run"
    BY <1>11 DEF ClockInterrupt, InUserMode, Running
  <2> HIDE DEF tk, lv
  <2>2. SameParts(k, k') /\ k'.current = c
    BY <1>0, <2>1 DEF SameParts, Table
  <2>3. TableInv(k', {})
    BY <1>0, <1>11, <2>2, NextType, SamePartsInv DEF TypeOK, Next
  <2> QED
    BY <1>a, <1>b, <2>1, <2>2, <2>3 DEF ControlInv, SameParts
<1>12. CASE IoInterrupt
  BY <1>0, <1>b, <1>12 DEF IoInterrupt, ControlInv
<1>13. CASE Shutdown
  BY <1>0, <1>13 DEF Shutdown, ControlInv
<1>14. ASSUME NEW f \in Slot, NEW p \in 1..MaxPid, DeviceReply(f, p)
       PROVE  TableInv(k', {}) /\ ControlInv'
  <2>1. TableInv(k', {}) /\ Wakes(k, k', {})
    BY <1>0, <1>14, SendFields DEF DeviceReply
  <2> QED
    BY <1>14, <2>1 DEF DeviceReply, ControlInv
<1>15. ASSUME NEW expired \in SUBSET Alarms, SuspendReturns(expired)
       PROVE  TableInv(k', {}) /\ ControlInv'
  <2>1. TableInv(k', {})
    BY <1>0, <1>15, WakeupFields DEF SuspendReturns, Alarms
  <2> QED
    BY <1>b, <1>15, <2>1 DEF SuspendReturns, ControlInv
<1>16. CASE ShutdownScan
  BY <1>0, <1>16 DEF ShutdownScan, ControlInv
<1>17. CASE Curfew
  BY <1>0, <1>b, <1>17 DEF Curfew, ControlInv
<1>c. ASSUME Queued # {} PROVE /\ SameParts(k, Dequeued) /\ Dequeued.current = c
                               /\ TableInv(Dequeued, {}) /\ Dequeued \in Table
  <2>1. Dequeued \in Table
    BY <1>0, <1>c, FirstIs
  <2>2. SameParts(k, Dequeued) /\ Dequeued.current = c
    BY <1>0 DEF SameParts, Dequeued, Table
  <2> QED
    BY <1>0, <2>1, <2>2, SamePartsInv
<1>18. CASE PickZombie
  <2> DEFINE s == Head(k.runq[First])
  <2>1. /\ Queued # {} /\ s \in Slot /\ k.state[s] = "zombie" /\ k' = Release(Dequeued, s)
        /\ ctl' = ctl /\ ctl.at = "pick"
    BY <1>0, <1>18, FirstIs DEF PickZombie
  <2> HIDE DEF s
  <2>2. TableInv(Dequeued, {}) /\ Dequeued.state[s] = "zombie"
    BY <1>c, <2>1 DEF SameParts
  <2>3. TableInv(k', {})
    BY <2>1, <2>2, ReleaseFields
  <2> QED
    BY <2>1, <2>3 DEF ControlInv
<1>19. CASE Dispatch
  <2> DEFINE n == Head(k.runq[First])
             t == [Dequeued EXCEPT !.ticks[n] = Quantum[k.level[n]]]
             u == IF k.state[c] = "runnable"    THEN ToRunQueue(t, c)
                  ELSE IF k.state[c] = "zombie" THEN Release(t, c)
                  ELSE t
             e == [u EXCEPT !.current = n]
  <2>1. /\ Queued # {} /\ n \in Slot /\ k.state[n] = "runnable" /\ ctl' = Run /\ k' = e
    BY <1>0, <1>19, FirstIs DEF Dispatch
  <2>2. Quantum[k.level[n]] \in Int
    <3>1. k.level[n] \in Level
      BY <1>0, <2>1 DEF Table
    <3> QED
      BY <3>1, QuantumAssumption
  <2> HIDE DEF n
  <2>3. t \in Table
    BY <1>c, <2>1, <2>2 DEF Table
  <2>4. SameParts(Dequeued, t)
    BY <1>c, <2>1 DEF SameParts, Table
  <2> HIDE DEF t
  <2>5. TableInv(t, {}) /\ SameParts(k, t)
    BY <1>c, <2>1, <2>3, <2>4, SamePartsInv DEF SameParts
  <2>6. TableInv(u, {}) /\ u.state[n] = "runnable"
    <3>1. CASE k.state[c] = "runnable"
      <4>1. ToRunQueue(t, c) \in Table
        BY <1>0, <2>3, ToRunQueueType
      <4>2. SameParts(t, ToRunQueue(t, c))
        BY <2>3 DEF SameParts, ToRunQueue, Table
      <4>3. TableInv(ToRunQueue(t, c), {})
        BY <2>5, <4>1, <4>2, SamePartsInv
      <4> QED
        BY <2>1, <2>5, <3>1, <4>2, <4>3 DEF SameParts
    <3>2. CASE k.state[c] = "zombie"
      <4>1. t.state[c] = "zombie" /\ n # c /\ t.state[n] = "runnable"
        BY <2>1, <2>5, <3>2 DEF SameParts
      <4>2. TableInv(Release(t, c), {}) /\ Release(t, c).state[n] = "runnable"
        BY <1>0, <2>1, <2>5, <4>1, ReleaseFields
      <4> QED
        BY <3>2, <4>2
    <3>3. CASE k.state[c] \notin {"runnable", "zombie"}
      BY <2>1, <2>5, <3>3 DEF SameParts
    <3> QED
      BY <3>1, <3>2, <3>3
  <2> HIDE DEF u
  <2>7. u \in Table
    BY <2>6 DEF TableInv
  <2>8. SameParts(u, e) /\ e.current = n /\ e \in Table
    BY <2>1, <2>7 DEF SameParts, Table
  <2>9. TableInv(k', {}) /\ k'.current = n /\ k'.state[n] = "runnable"
    BY <2>1, <2>6, <2>8, SamePartsInv DEF SameParts
  <2> QED
    BY <1>b, <2>1, <2>9 DEF ControlInv
<1>20. CASE PickNone
  BY <1>0, <1>b, <1>20 DEF PickNone, ControlInv
<1>21. CASE UNCHANGED vars
  BY <1>0, <1>21 DEF vars, ControlInv
<1>22. CASE Halted
  BY <1>21, <1>22 DEF Halted
<1> QED
  BY <1>1, <1>2, <1>3, <1>4, <1>5, <1>6, <1>7, <1>8, <1>9, <1>10, <1>11, <1>12, <1>13,
     <1>14, <1>15, <1>16, <1>17, <1>18, <1>19, <1>20, <1>21, <1>22 DEF Next

THEOREM InvCorrect == Spec => []IInv
<1> QED
  BY InitInv, NextInv, PTL DEF Spec

\* A process waits exactly while it is inside proc_recv, its mailbox is empty and only
\* then can its alarm go off: the assertions of proc_recv and proc_send hold.
THEOREM WaitingCorrect == Spec => []WaitingInv
<1>1. IInv => WaitingInv
  BY DEF IInv, TableInv, MailOK, WaitingInv
<1> QED
  BY <1>1, InvCorrect, PTL

\* No process ever waits for a reply from a server that is dead, however many
\* processes there are and in whatever order they die.
THEOREM ClientHasServerCorrect == Spec => []ClientHasServer
<1>1. IInv => ClientHasServer
  BY DEF IInv, TableInv, Served, ClientHasServer
<1> QED
  BY <1>1, InvCorrect, PTL

-----------------------------------------------------------------------------
(* What the run queues hold.  X are processes that should be in a queue    *)
(* and are not: one that proc_zap has killed while it waited, until it     *)
(* releases it, and one that has been taken off to be run.                 *)

OnePlace(t) ==
  \A l, m \in Level : \A i \in 1..Len(t.runq[l]), j \in 1..Len(t.runq[m]) :
    t.runq[l][i] = t.runq[m][j] => l = m /\ i = j

RightPlace(t) ==
  \A l \in Level : \A i \in 1..Len(t.runq[l]) :
    /\ t.runq[l][i] # t.current
    /\ t.state[t.runq[l][i]] \in {"runnable", "zombie"}
    /\ t.state[t.runq[l][i]] = "runnable" => t.level[t.runq[l][i]] = l

OnQueue(t, s) == \E l \in Level : \E i \in 1..Len(t.runq[l]) : t.runq[l][i] = s

HasPlace(t, X) ==
  \A s \in Slot \ X : s # t.current /\ t.state[s] \in {"runnable", "zombie"} => OnQueue(t, s)

QueuesOK(t, X) == OnePlace(t) /\ RightPlace(t) /\ HasPlace(t, X)

\* Sequence q is p followed by the elements of S in some order.
Extends(p, q, S) ==
  /\ Len(p) <= Len(q) /\ \A i \in 1..Len(p) : q[i] = p[i]
  /\ \A i \in (Len(p) + 1)..Len(q) : q[i] \in S
  /\ \A i, j \in (Len(p) + 1)..Len(q) : q[i] = q[j] => i = j
  /\ \A s \in S : \E i \in (Len(p) + 1)..Len(q) : q[i] = s

LEMMA ExtendsNone == ASSUME NEW p \in Seq(Slot) PROVE Extends(p, p, {})
  BY DEF Extends

LEMMA ExtendsAppend ==
  ASSUME NEW p \in Seq(Slot), NEW s \in Slot
  PROVE  Extends(p, Append(p, s), {s})
  BY DEF Extends

\* An enumeration of a set of slots has all of them, each once.
LEMMA SlotOrderAll ==
  ASSUME NEW S \in SUBSET Slot
  PROVE  /\ Len(SlotOrder(S)) = Cardinality(S)
         /\ \A i, j \in 1..Cardinality(S) : SlotOrder(S)[i] = SlotOrder(S)[j] => i = j
         /\ \A s \in S : \E i \in 1..Cardinality(S) : SlotOrder(S)[i] = s
<1>1. /\ SlotOrder(S) \in [1..Cardinality(S) -> S]
      /\ \A i, j \in 1..Cardinality(S) : i < j => SlotOrder(S)[i] < SlotOrder(S)[j]
  BY SlotOrderIs
<1>2. Len(SlotOrder(S)) = Cardinality(S)
  BY <1>1, SlotFinite
<1>3. MaxProcs \in Nat /\ S \in SUBSET (1..MaxProcs)
  BY SlotAssumption DEF Slot
<1> DEFINE q == SlotOrder(S)
<1>4. /\ \A i, j \in 1..Cardinality(S) : q[i] = q[j] => i = j
      /\ \A s \in S : \E i \in 1..Cardinality(S) : q[i] = s
  <2>1. /\ q \in [1..Cardinality(S) -> S]
        /\ \A i, j \in 1..Cardinality(S) : i < j => q[i] < q[j]
    BY <1>1
  <2> HIDE DEF q
  <2> QED
    BY <2>1, <1>3, AscendingAll
<1> QED
  BY <1>2, <1>4

LEMMA ExtendsSlotOrder ==
  ASSUME NEW p \in Seq(Slot), NEW S \in SUBSET Slot
  PROVE  Extends(p, p \o SlotOrder(S), S)
<1> DEFINE q == SlotOrder(S)
           r == p \o q
           n == Len(p)
<1>1. q \in Seq(Slot) /\ \A i \in 1..Len(q) : q[i] \in S
  BY SlotOrderType
<1>2. /\ \A i, j \in 1..Len(q) : q[i] = q[j] => i = j
      /\ \A s \in S : \E i \in 1..Len(q) : q[i] = s
  BY SlotOrderAll
<1> HIDE DEF q
<1>3. /\ Len(r) = n + Len(q) /\ n \in Nat /\ Len(q) \in Nat
      /\ \A i \in 1..n : r[i] = p[i]
      /\ \A i \in (n + 1)..(n + Len(q)) : r[i] = q[i - n] /\ i - n \in 1..Len(q)
      /\ \A i \in 1..Len(q) : r[n + i] = q[i] /\ n + i \in (n + 1)..(n + Len(q))
  BY <1>1
<1> HIDE DEF r, n
<1>4. \A i \in (n + 1)..Len(r) : r[i] \in S
  BY <1>1, <1>3
<1>5. ASSUME NEW i \in (n + 1)..Len(r), NEW j \in (n + 1)..Len(r), r[i] = r[j] PROVE i = j
  <2>1. i - n = j - n
    BY <1>2, <1>3, <1>5
  <2> QED
    BY <1>3, <2>1
<1>6. ASSUME NEW s \in S PROVE \E i \in (n + 1)..Len(r) : r[i] = s
  <2>1. PICK i \in 1..Len(q) : q[i] = s
    BY <1>2
  <2> QED
    BY <1>3, <2>1
<1>7. Len(p) <= Len(r) /\ \A i \in 1..Len(p) : r[i] = p[i]
  BY <1>3 DEF n
<1>8. n = Len(p)
  BY DEF n
<1> QED
  BY <1>4, <1>5, <1>6, <1>7, <1>8 DEF Extends, r, q

\* The run queues of u are those of t with the processes E added, each at its level.
Joined(t, u, E) == \A l \in Level : Extends(t.runq[l], u.runq[l], {s \in E : u.level[s] = l})

LEMMA JoinedPlaces ==
  ASSUME NEW t \in Table, NEW u \in Table, NEW E \in SUBSET Slot, Joined(t, u, E),
         OnePlace(t), \A s \in E : ~OnQueue(t, s)
  PROVE  /\ OnePlace(u)
         /\ \A s \in Slot : OnQueue(u, s) <=> OnQueue(t, s) \/ s \in E
         /\ \A l \in Level : \A i \in 1..Len(u.runq[l]) :
              \/ i \in 1..Len(t.runq[l]) /\ u.runq[l][i] = t.runq[l][i]
              \/ u.runq[l][i] \in E /\ u.level[u.runq[l][i]] = l
<1>1. \A l \in Level : t.runq[l] \in Seq(Slot) /\ u.runq[l] \in Seq(Slot)
  BY DEF Table
<1>2. \A l \in Level : Len(t.runq[l]) \in Nat /\ Len(u.runq[l]) \in Nat
  BY <1>1
<1>3. ASSUME NEW l \in Level, NEW i \in 1..Len(u.runq[l])
      PROVE  \/ i \in 1..Len(t.runq[l]) /\ u.runq[l][i] = t.runq[l][i]
             \/ /\ i \in (Len(t.runq[l]) + 1)..Len(u.runq[l])
                /\ u.runq[l][i] \in E /\ u.level[u.runq[l][i]] = l
  BY <1>2, <1>3 DEF Joined, Extends
<1>4. ASSUME NEW l \in Level, NEW m \in Level, NEW i \in 1..Len(u.runq[l]),
             NEW j \in 1..Len(u.runq[m]), u.runq[l][i] = u.runq[m][j]
      PROVE  l = m /\ i = j
  <2> DEFINE New(a, x) == /\ x \in (Len(t.runq[a]) + 1)..Len(u.runq[a])
                          /\ u.runq[a][x] \in E /\ u.level[u.runq[a][x]] = a
             Old(a, x) == x \in 1..Len(t.runq[a]) /\ u.runq[a][x] = t.runq[a][x]
  <2>1. (Old(l, i) \/ New(l, i)) /\ (Old(m, j) \/ New(m, j))
    BY <1>3
  <2>2. CASE Old(l, i) /\ Old(m, j)
    <3>1. /\ i \in 1..Len(t.runq[l]) /\ j \in 1..Len(t.runq[m])
          /\ t.runq[l][i] = t.runq[m][j]
      BY <1>4, <2>2
    <3> QED
      BY <3>1, Zenon DEF OnePlace
  <2>3. CASE New(l, i) /\ New(m, j)
    <3>1. l = m
      BY <1>4, <2>3
    <3>2. Extends(t.runq[l], u.runq[l], {s \in E : u.level[s] = l})
      BY DEF Joined
    <3> QED
      BY <1>4, <2>3, <3>1, <3>2 DEF Extends
  <2>4. CASE Old(l, i) /\ New(m, j)
    BY <1>4, <2>4 DEF OnQueue
  <2>5. CASE New(l, i) /\ Old(m, j)
    BY <1>4, <2>5 DEF OnQueue
  <2> QED
    BY <2>1, <2>2, <2>3, <2>4, <2>5
<1>5. ASSUME NEW s \in Slot PROVE OnQueue(u, s) => OnQueue(t, s) \/ s \in E
  BY <1>3 DEF OnQueue
<1>6. ASSUME NEW s \in Slot, OnQueue(t, s) PROVE OnQueue(u, s)
  <2>1. PICK l \in Level : \E i \in 1..Len(t.runq[l]) : t.runq[l][i] = s
    BY <1>6 DEF OnQueue
  <2>2. PICK i \in 1..Len(t.runq[l]) : t.runq[l][i] = s
    BY <2>1
  <2>3. i \in 1..Len(u.runq[l]) /\ u.runq[l][i] = s
    BY <1>2, <2>2 DEF Joined, Extends
  <2> QED
    BY <2>3 DEF OnQueue
<1>7. ASSUME NEW s \in E PROVE OnQueue(u, s)
  <2>1. u.level[s] \in Level
    BY DEF Table
  <2>2. PICK i \in (Len(t.runq[u.level[s]]) + 1)..Len(u.runq[u.level[s]]) : u.runq[u.level[s]][i] = s
    BY <2>1 DEF Joined, Extends
  <2>3. i \in 1..Len(u.runq[u.level[s]])
    BY <1>2, <2>1, <2>2
  <2> QED
    BY <2>1, <2>2, <2>3 DEF OnQueue
<1>8. OnePlace(u)
  BY <1>4 DEF OnePlace
<1> QED
  BY <1>3, <1>5, <1>6, <1>7, <1>8

LEMMA JoinedNone ==
  ASSUME NEW t \in Table, NEW u, u.runq = t.runq
  PROVE  Joined(t, u, {})
<1>1. \A l \in Level : {s \in {} : u.level[s] = l} = {} /\ t.runq[l] \in Seq(Slot)
  BY DEF Table
<1> QED
  BY <1>1, ExtendsNone DEF Joined

LEMMA JoinedOne ==
  ASSUME NEW t \in Table, NEW u \in Table, NEW s \in Slot,
         u.runq = [t.runq EXCEPT ![u.level[s]] = Append(@, s)]
  PROVE  Joined(t, u, {s})
<1>1. t.runq \in [Level -> Seq(Slot)] /\ u.level[s] \in Level
  BY DEF Table
<1> SUFFICES ASSUME NEW l \in Level
             PROVE  Extends(t.runq[l], u.runq[l], {r \in {s} : u.level[r] = l})
  BY DEF Joined
<1>2. CASE l = u.level[s]
  <2>1. u.runq[l] = Append(t.runq[l], s) /\ {r \in {s} : u.level[r] = l} = {s}
    BY <1>1, <1>2
  <2> QED
    BY <1>1, <2>1, ExtendsAppend
<1>3. CASE l # u.level[s]
  <2>1. u.runq[l] = t.runq[l] /\ {r \in {s} : u.level[r] = l} = {}
    BY <1>1, <1>3
  <2> QED
    BY <1>1, <2>1, ExtendsNone
<1> QED
  BY <1>2, <1>3

-----------------------------------------------------------------------------
(* The rest of what the table says of itself.                              *)

Runnables(t) == {s \in Slot : t.state[s] = "runnable"}

CountsOK(t) ==
  t.nrunnable = Cardinality(Runnables(t)) /\ t.nprocs = Cardinality(Live(t))

FreeListed(t) ==
  \A s \in Slot : t.state[s] = "free" => \E i \in 1..Len(t.free) : t.free[i] = s

\* ReplyInv, for a table.
ReplyOK(t) ==
  \A s \in Slot :
    t.msgs[s]["reply"] # <<>> =>
      \/ t.state[s] = "zombie"
      \/ /\ t.state[s] = "runnable" /\ t.recv[s] = "reply"
         /\ t.msgs[s]["reply"] = <<t.server[s]>>

AlarmOK(t) ==
  \A s \in Slot : t.state[s] = "waiting" /\ t.recv[s] = "reply" => s \notin t.alarm

PidsOK(t) ==
  \A r, s \in Slot :
    t.state[r] # "free" /\ t.state[s] # "free" =>
      t.pid[r] < t.gen /\ (t.pid[r] = t.pid[s] => r = s)

Settled(t) == CountsOK(t) /\ FreeListed(t) /\ ReplyOK(t) /\ AlarmOK(t) /\ PidsOK(t)

QInv(t, X) == QueuesOK(t, X) /\ Settled(t)

LEMMA CountsAre ==
  ASSUME NEW t \in Table
  PROVE  /\ IsFiniteSet(Runnables(t)) /\ Cardinality(Runnables(t)) \in Nat
         /\ IsFiniteSet(Live(t)) /\ Cardinality(Live(t)) \in Nat
  BY SlotFinite DEF Runnables, Live

\* In u the waiting processes C of t have been woken: by a message, by the death of
\* their server or by their alarm.
Roused(t, u, C) ==
  /\ \A s \in C : t.state[s] = "waiting"
  /\ u.pid = t.pid /\ u.gen = t.gen /\ u.free = t.free /\ u.nprocs = t.nprocs
  /\ u.recv = t.recv /\ u.server = t.server /\ u.current = t.current
  /\ \A s \in Slot : u.state[s] = IF s \in C THEN "runnable" ELSE t.state[s]
  /\ \A s \in Slot \ C : u.level[s] = t.level[s] /\ (s \in u.alarm <=> s \in t.alarm)
  /\ \A s \in Slot : \/ u.msgs[s]["reply"] = t.msgs[s]["reply"]
                     \/ s \in C /\ t.recv[s] = "reply" /\ u.msgs[s]["reply"] = <<t.server[s]>>
  /\ u.nrunnable = t.nrunnable + Cardinality(C)
  /\ Joined(t, u, C \ {t.current})

LEMMA RousedInv ==
  ASSUME NEW t \in Table, NEW u \in Table, NEW C \in SUBSET Slot, Roused(t, u, C),
         NEW X, QInv(t, X)
  PROVE  /\ QInv(u, X)
         /\ \A s \in Slot \ C : OnQueue(u, s) <=> OnQueue(t, s)
<1> DEFINE E == C \ {t.current}
<1>1. /\ \A s \in C : t.state[s] = "waiting"
      /\ u.pid = t.pid /\ u.gen = t.gen /\ u.free = t.free /\ u.nprocs = t.nprocs
      /\ u.recv = t.recv /\ u.server = t.server /\ u.current = t.current
      /\ \A s \in Slot : u.state[s] = IF s \in C THEN "runnable" ELSE t.state[s]
      /\ \A s \in Slot \ C : u.level[s] = t.level[s] /\ (s \in u.alarm <=> s \in t.alarm)
      /\ Joined(t, u, E)
  BY DEF Roused
<1>2. OnePlace(t) /\ RightPlace(t) /\ HasPlace(t, X) /\ Settled(t)
  BY DEF QInv, QueuesOK
<1>3. \A s \in E : ~OnQueue(t, s)
  BY <1>1, <1>2 DEF RightPlace, OnQueue
<1>4. /\ OnePlace(u)
      /\ \A s \in Slot : OnQueue(u, s) <=> OnQueue(t, s) \/ s \in E
      /\ \A l \in Level : \A i \in 1..Len(u.runq[l]) :
           \/ i \in 1..Len(t.runq[l]) /\ u.runq[l][i] = t.runq[l][i]
           \/ u.runq[l][i] \in E /\ u.level[u.runq[l][i]] = l
  BY <1>1, <1>2, <1>3, JoinedPlaces
<1>5. RightPlace(u)
  <2> SUFFICES ASSUME NEW l \in Level, NEW i \in 1..Len(u.runq[l])
               PROVE  LET s == u.runq[l][i]
                      IN  /\ s # u.current /\ u.state[s] \in {"runnable", "zombie"}
                          /\ u.state[s] = "runnable" => u.level[s] = l
    BY DEF RightPlace
  <2> DEFINE s == u.runq[l][i]
  <2>1. CASE s \in E /\ u.level[s] = l
    BY <1>1, <2>1
  <2>2. CASE i \in 1..Len(t.runq[l]) /\ s = t.runq[l][i]
    <3>1. /\ s # t.current /\ t.state[s] \in {"runnable", "zombie"}
          /\ t.state[s] = "runnable" => t.level[s] = l
      BY <1>2, <2>2 DEF RightPlace
    <3>2. s \in Slot
      <4>1. t.runq[l] \in Seq(Slot)
        BY DEF Table
      <4> QED
        BY <2>2, <4>1
    <3> QED
      BY <1>1, <3>1, <3>2
  <2> QED
    BY <1>4, <2>1, <2>2
<1>6. HasPlace(u, X)
  BY <1>1, <1>2, <1>4 DEF HasPlace
<1>7. CountsOK(u)
  <2>1. Runnables(u) = Runnables(t) \cup C /\ Runnables(t) \cap C = {}
    BY <1>1 DEF Runnables
  <2>2. Live(u) = Live(t)
    BY <1>1 DEF Live
  <2>3. Cardinality(Runnables(u)) = Cardinality(Runnables(t)) + Cardinality(C)
    <3>1. IsFiniteSet(C) /\ Cardinality(C) \in Nat
      BY SlotFinite
    <3>2. Cardinality(Runnables(t) \cap C) = 0
      BY <2>1, FS_EmptySet
    <3>3. Cardinality(Runnables(t) \cup C)
            = Cardinality(Runnables(t)) + Cardinality(C) - Cardinality(Runnables(t) \cap C)
      BY <3>1, CountsAre, FS_Union
    <3> QED
      BY <2>1, <3>1, <3>2, <3>3, CountsAre
  <2> QED
    BY <1>1, <1>2, <2>2, <2>3 DEF CountsOK, Settled, Roused
<1>8. FreeListed(u)
  BY <1>1, <1>2 DEF Settled, FreeListed
<1>9. ReplyOK(u)
  <2> SUFFICES ASSUME NEW s \in Slot, u.msgs[s]["reply"] # <<>>
               PROVE  \/ u.state[s] = "zombie"
                      \/ /\ u.state[s] = "runnable" /\ u.recv[s] = "reply"
                         /\ u.msgs[s]["reply"] = <<u.server[s]>>
    BY DEF ReplyOK
  <2>1. CASE u.msgs[s]["reply"] = t.msgs[s]["reply"]
    BY <1>1, <1>2, <2>1 DEF Settled, ReplyOK
  <2>2. CASE s \in C /\ t.recv[s] = "reply" /\ u.msgs[s]["reply"] = <<t.server[s]>>
    BY <1>1, <2>2
  <2> QED
    BY <2>1, <2>2 DEF Roused
<1>10. AlarmOK(u)
  BY <1>1, <1>2 DEF Settled, AlarmOK
<1>11. PidsOK(u)
  BY <1>1, <1>2 DEF Settled, PidsOK
<1> QED
  BY <1>4, <1>5, <1>6, <1>7, <1>8, <1>9, <1>10, <1>11 DEF QInv, QueuesOK, Settled

-----------------------------------------------------------------------------
(* The functions of process.c, again.                                      *)

LEMMA RousedNone ==
  ASSUME NEW t \in Table, NEW u,
         u.pid = t.pid, u.gen = t.gen, u.free = t.free, u.nprocs = t.nprocs,
         u.recv = t.recv, u.server = t.server, u.current = t.current, u.state = t.state,
         u.level = t.level, u.alarm = t.alarm, u.nrunnable = t.nrunnable, u.runq = t.runq,
         \A s \in Slot : u.msgs[s]["reply"] = t.msgs[s]["reply"]
  PROVE  Roused(t, u, {})
<1>1. t.nrunnable + Cardinality({}) = t.nrunnable
  BY FS_EmptySet DEF Table
<1>2. Joined(t, u, {})
  BY JoinedNone
<1>3. {} \ {t.current} = {}
  OBVIOUS
<1> QED
  BY <1>1, <1>2, <1>3 DEF Roused

\* The processes C have been woken by a message of the type.
Answered(t, u, C, type) ==
  Roused(t, u, C) /\ \A s \in C : t.recv[s] = type /\ u.msgs[s][type] # <<>>

\* proc_send wakes the destination if that waits for a message of the type, and
\* nobody else; it has its message then.
LEMMA SendRouses ==
  ASSUME NEW t, NEW X, TableInv(t, X), ReplyOK(t),
         NEW src \in Nat, NEW p, NEW type \in MsgType
  PROVE  \E C \in SUBSET Slot : Answered(t, Send(t, src, p, type), C, type)
<1> DEFINE d == Find(t, p)
           u == Send(t, src, p, type)
<1>1. t \in Table /\ u \in Table
  BY SendType DEF TableInv
<1>2. CASE ~CanSend(t, src, p, type)
  <2>1. u = t
    BY <1>2 DEF Send
  <2>2. Roused(t, u, {})
    BY <1>1, <2>1, RousedNone
  <2> QED
    BY <2>2 DEF Answered
<1>3. CASE CanSend(t, src, p, type)
  <2>1. /\ d \in Slot /\ t.state[d] # "free" /\ t.state[d] # "zombie"
        /\ type = "reply" => t.server[d] = src /\ "reply" \in t.waiting[d]
    BY <1>3, FindIs DEF CanSend
  <2> DEFINE q == [t EXCEPT !.msgs[d][type] = Append(@, src)]
             w == [q EXCEPT !.state[d] = "runnable", !.nrunnable = @ + 1,
                            !.alarm = @ \ {d}, !.waiting[d] = @ \ {type}]
             b == [w EXCEPT !.level[d] = IF @ > 0 THEN @ - 1 ELSE @]
             r == ToRunQueue(b, d)
             ms == [t.msgs EXCEPT ![d][type] = Append(@, src)]
  <2>2. u = IF type \notin t.waiting[d] THEN q ELSE IF d = t.current THEN w ELSE r
    BY <1>3, Zenon DEF Send
  <2> HIDE DEF d, u
  <2>3. /\ q.pid = t.pid /\ q.gen = t.gen /\ q.free = t.free /\ q.nprocs = t.nprocs
        /\ q.recv = t.recv /\ q.server = t.server /\ q.current = t.current
        /\ q.state = t.state /\ q.level = t.level /\ q.alarm = t.alarm
        /\ q.nrunnable = t.nrunnable /\ q.runq = t.runq /\ q.msgs = ms /\ DOMAIN q = DOMAIN t
    BY <1>1 DEF Table
  <2> DEFINE Woken(v) ==
        /\ v.pid = t.pid /\ v.gen = t.gen /\ v.free = t.free /\ v.nprocs = t.nprocs
        /\ v.recv = t.recv /\ v.server = t.server /\ v.current = t.current
        /\ v.state = [t.state EXCEPT ![d] = "runnable"] /\ v.alarm = t.alarm \ {d}
        /\ v.nrunnable = t.nrunnable + 1 /\ v.msgs = ms
  <2> HIDE DEF q, ms
  <2>4. Woken(w) /\ w.level = t.level /\ w.runq = t.runq /\ DOMAIN w = DOMAIN t
    BY <1>1, <2>3 DEF Table
  <2> HIDE DEF w
  <2>5. /\ Woken(b) /\ b.runq = t.runq /\ DOMAIN b = DOMAIN t
        /\ b.level = [t.level EXCEPT ![d] = IF @ > 0 THEN @ - 1 ELSE @]
    BY <1>1, <2>4 DEF Table
  <2> HIDE DEF b
  <2>6. /\ Woken(r) /\ r.runq = [t.runq EXCEPT ![r.level[d]] = Append(@, d)]
        /\ r.level = b.level
    BY <1>1, <2>5 DEF Table, ToRunQueue
  <2> HIDE DEF r
  <2>7. \A s \in Slot : \A m \in MsgType :
          ms[s][m] = IF s = d /\ m = type THEN Append(t.msgs[d][type], src) ELSE t.msgs[s][m]
    BY <1>1, <2>1, TableParts DEF ms
  <2>8. t.state[d] \in {"runnable", "waiting"}
    BY <1>1, <2>1, TableParts
  <2>9. type \in t.waiting[d] => t.state[d] = "waiting" /\ t.recv[d] = type
    BY <2>1, <2>8 DEF TableInv, MailOK
  <2>10. "reply" \in MsgType
    BY DEF MsgType
  <2>11. CASE type \notin t.waiting[d]
    <3>1. u = q /\ type # "reply"
      BY <2>1, <2>2, <2>11
    <3>2. \A s \in Slot : ms[s]["reply"] = t.msgs[s]["reply"]
      BY <2>7, <2>10, <3>1
    <3>3. Roused(t, u, {})
      BY <1>1, <2>3, <3>1, <3>2, RousedNone
    <3> QED
      BY <3>3 DEF u, Answered
  <2>12. CASE type \in t.waiting[d]
    <3>1. Woken(u)
      BY <2>2, <2>4, <2>6, <2>12
    <3>2. \A s \in Slot : u.state[s] = IF s = d THEN "runnable" ELSE t.state[s]
      BY <1>1, <2>1, <3>1, TableParts
    <3>3. \A s \in Slot \ {d} : u.level[s] = t.level[s]
      <4>1. u.level = t.level \/ u.level = [t.level EXCEPT ![d] = IF @ > 0 THEN @ - 1 ELSE @]
        BY <2>2, <2>4, <2>5, <2>6, <2>12, Zenon
      <4>2. t.level \in [Slot -> Level]
        BY <1>1 DEF Table
      <4> QED
        BY <4>1, <4>2
    <3>4. ASSUME NEW s \in Slot
          PROVE  \/ u.msgs[s]["reply"] = t.msgs[s]["reply"]
                 \/ s = d /\ t.recv[s] = "reply" /\ u.msgs[s]["reply"] = <<t.server[s]>>
      <4>1. CASE s = d /\ type = "reply"
        <5>1. t.msgs[d]["reply"] = <<>>
          BY <2>1, <2>9, <2>12, <4>1 DEF ReplyOK
        <5>2. u.msgs[d]["reply"] = Append(<<>>, src) /\ t.server[d] = src /\ t.recv[d] = "reply"
          BY <2>1, <2>7, <2>9, <2>12, <3>1, <4>1, <5>1
        <5> QED
          BY <4>1, <5>2
      <4>2. CASE ~(s = d /\ type = "reply")
        BY <2>7, <2>10, <3>1, <4>2
      <4> QED
        BY <4>1, <4>2
    <3>5. Joined(t, u, {d} \ {t.current})
      <4>1. CASE d = t.current
        <5>1. u.runq = t.runq /\ {d} \ {t.current} = {}
          BY <2>2, <2>4, <2>12, <4>1
        <5> QED
          BY <1>1, <5>1, JoinedNone
      <4>2. CASE d # t.current
        <5>1. u.runq = [t.runq EXCEPT ![u.level[d]] = Append(@, d)] /\ {d} \ {t.current} = {d}
          BY <2>2, <2>6, <2>12, <4>2
        <5> QED
          BY <1>1, <2>1, <5>1, JoinedOne
      <4> QED
        BY <4>1, <4>2
    <3>6. Cardinality({d}) = 1
      BY FS_Singleton
    <3>7. Roused(t, u, {d})
      <4>1. \A s \in Slot \ {d} : s \in u.alarm <=> s \in t.alarm
        BY <3>1
      <4> QED
        BY <2>9, <2>12, <3>1, <3>2, <3>3, <3>4, <3>5, <3>6, <4>1 DEF Roused
    <3>8. t.recv[d] = type /\ u.msgs[d][type] # <<>>
      <4>1. t.msgs[d][type] \in Seq(Nat)
        BY <1>1, <2>1, TableParts
      <4>2. u.msgs[d][type] = Append(t.msgs[d][type], src)
        BY <2>1, <2>7, <3>1
      <4>3. Append(t.msgs[d][type], src) # <<>>
        BY <4>1
      <4> QED
        BY <2>9, <2>12, <4>2, <4>3
    <3> QED
      BY <2>1, <3>7, <3>8 DEF u, Answered
  <2> QED
    BY <2>11, <2>12
<1> QED
  BY <1>2, <1>3

LEMMA WakeupRouses ==
  ASSUME NEW t \in Table, NEW C \in SUBSET Slot, \A s \in C : t.state[s] = "waiting"
  PROVE  Roused(t, Wakeup(t, C), C) /\ Wakeup(t, C).msgs = t.msgs
<1> DEFINE u == Wakeup(t, C)
           Q(l) == SlotOrder({s \in C \ {t.current} : t.level[s] = l})
<1>1. /\ u.pid = t.pid /\ u.gen = t.gen /\ u.free = t.free /\ u.nprocs = t.nprocs
      /\ u.recv = t.recv /\ u.server = t.server /\ u.current = t.current
      /\ u.msgs = t.msgs /\ u.level = t.level
  BY DEF Wakeup, Table
<1>2. /\ u.state = [s \in Slot |-> IF s \in C THEN "runnable" ELSE t.state[s]]
      /\ u.alarm = t.alarm \ C /\ u.nrunnable = t.nrunnable + Cardinality(C)
  BY DEF Wakeup, Table
<1> HIDE DEF Q
<1>3. u.runq = [l \in Level |-> t.runq[l] \o Q(l)]
  BY DEF Wakeup, Table, Q
<1> HIDE DEF u
<1>4. Joined(t, u, C \ {t.current})
  <2> SUFFICES ASSUME NEW l \in Level
               PROVE  Extends(t.runq[l], u.runq[l], {s \in C \ {t.current} : u.level[s] = l})
    BY DEF Joined
  <2>1. t.runq[l] \in Seq(Slot) /\ u.runq[l] = t.runq[l] \o Q(l)
    BY <1>3 DEF Table
  <2>2. {s \in C \ {t.current} : u.level[s] = l} = {s \in C \ {t.current} : t.level[s] = l}
    BY <1>1
  <2>3. {s \in C \ {t.current} : t.level[s] = l} \in SUBSET Slot
    OBVIOUS
  <2> QED
    BY <2>1, <2>2, <2>3, ExtendsSlotOrder DEF Q
<1>5. Roused(t, u, C)
  BY <1>1, <1>2, <1>4 DEF Roused
<1> QED
  BY <1>1, <1>5 DEF u

\* Who stops waiting for a reply has it, or its server is dead.
Ends(t, u) ==
  \A s \in Slot :
    t.state[s] = "waiting" /\ t.recv[s] = "reply" /\ u.state[s] = "runnable"
      => u.msgs[s]["reply"] # <<>> \/ ~Alive(u, t.server[s])

\* While proc_term runs, the process that dies may be in no place: it was waiting.
LEMMA DeadInv ==
  ASSUME NEW t, TableInv(t, {}), QInv(t, {}), NEW s \in Live(t)
  PROVE  QInv(Dead(t, s), IF t.state[s] = "waiting" /\ s # t.current THEN {s} ELSE {})
<1> DEFINE z == Dead(t, s)
           X == IF t.state[s] = "waiting" /\ s # t.current THEN {s} ELSE {}
<1>1. s \in Slot /\ t.state[s] # "free" /\ t \in Table
  BY DEF Live, TableInv
<1>2. /\ z.pid = t.pid /\ z.server = t.server /\ z.recv = t.recv /\ z.free = t.free
      /\ z.msgs = t.msgs /\ z.current = t.current /\ z.alarm = t.alarm /\ z.gen = t.gen
      /\ z.level = t.level /\ z.runq = t.runq /\ z.nprocs = t.nprocs
      /\ z.nrunnable = IF t.state[s] = "runnable" THEN t.nrunnable - 1 ELSE t.nrunnable
  BY <1>1 DEF Table, Dead
<1>3. \A r \in Slot : z.state[r] = IF r = s THEN "zombie" ELSE t.state[r]
  BY DeadFields
<1>4. t.state[s] \in {"runnable", "waiting", "zombie"}
  BY <1>1, TableParts
<1> HIDE DEF z
<1>5. QueuesOK(z, X)
  <2>1. OnePlace(t) /\ RightPlace(t) /\ HasPlace(t, {})
    BY DEF QInv, QueuesOK
  <2>2. \A l \in Level : \A i \in 1..Len(t.runq[l]) : t.runq[l][i] \in Slot
    <3>1. \A l \in Level : t.runq[l] \in Seq(Slot)
      BY <1>1 DEF Table
    <3> QED
      BY <3>1
  <2>3. OnePlace(z)
    BY <1>2, <2>1 DEF OnePlace
  <2>4. RightPlace(z)
    BY <1>2, <1>3, <2>1, <2>2 DEF RightPlace
  <2>5. HasPlace(z, X)
    BY <1>2, <1>3, <1>4, <2>1 DEF HasPlace, OnQueue
  <2> QED
    BY <2>3, <2>4, <2>5 DEF QueuesOK
<1>6. Settled(t)
  BY DEF QInv
<1>7. CountsOK(z)
  <2>1. Live(z) = Live(t)
    BY <1>1, <1>3 DEF Live
  <2>2. Runnables(z) = Runnables(t) \ {s}
    BY <1>3 DEF Runnables
  <2>3. s \in Runnables(t) <=> t.state[s] = "runnable"
    BY <1>1 DEF Runnables
  <2>4. Cardinality(Runnables(t) \ {s}) =
          IF s \in Runnables(t) THEN Cardinality(Runnables(t)) - 1 ELSE Cardinality(Runnables(t))
    BY <1>1, CountsAre, FS_RemoveElement
  <2> QED
    BY <1>2, <1>6, <2>1, <2>2, <2>3, <2>4 DEF Settled, CountsOK
<1>8. FreeListed(z) /\ AlarmOK(z)
  BY <1>2, <1>3, <1>6 DEF Settled, FreeListed, AlarmOK
<1>9. ReplyOK(z)
  BY <1>2, <1>3, <1>6 DEF Settled, ReplyOK
<1>10. PidsOK(z)
  BY <1>1, <1>2, <1>3, <1>6 DEF Settled, PidsOK
<1> QED
  BY <1>5, <1>7, <1>8, <1>9, <1>10 DEF QInv, Settled, z

LEMMA TermInv ==
  ASSUME NEW t, TableInv(t, {}), QInv(t, {}), NEW s \in Live(t)
  PROVE  /\ QInv(Term(t, s), IF t.state[s] = "waiting" /\ s # t.current THEN {s} ELSE {})
         /\ t.state[s] = "waiting" => ~OnQueue(Term(t, s), s)
         /\ Ends(t, Term(t, s))
         /\ t.state[s] # "zombie" => ~Alive(Term(t, s), t.pid[s])
<1> DEFINE p == t.pid[s]
           z == Dead(t, s)
           n == Send(z, p, t.owner[s], "event")
           C == Clients(n, p)
           u == Wakeup(n, C)
           X == IF t.state[s] = "waiting" /\ s # t.current THEN {s} ELSE {}
<1>1. s \in Slot /\ t.state[s] # "free" /\ t \in Table
  BY DEF Live, TableInv
<1>2. CASE t.state[s] = "zombie"
  BY <1>1, <1>2 DEF Term, Ends
<1>3. CASE t.state[s] # "zombie"
  <2>1. /\ TableInv(z, {p}) /\ z \in Table /\ QInv(z, X) /\ ReplyOK(z)
        /\ z.pid = t.pid /\ z.server = t.server /\ z.recv = t.recv /\ z.current = t.current
        /\ \A r \in Slot : z.state[r] = IF r = s THEN "zombie" ELSE t.state[r]
    BY DeadFields, DeadInv DEF TableInv, QInv, Settled
  <2>2. z.runq = t.runq
    BY <1>1 DEF Dead, Table
  <2> HIDE DEF z
  <2>3. p \in Nat /\ "event" \in MsgType
    BY <1>1 DEF Table, MsgType
  <2>4. PICK D \in SUBSET Slot : Answered(z, n, D, "event")
    <3>1. TableInv(z, {p}) /\ ReplyOK(z) /\ p \in Nat /\ "event" \in MsgType
      BY <2>1, <2>3
    <3> QED
      BY <3>1, SendRouses, Zenon
  <2>5. TableInv(n, {p}) /\ n \in Table
    BY <2>1, <2>3, SendFields DEF TableInv
  <2> HIDE DEF n
  <2>6. QInv(n, X) /\ \A r \in Slot \ D : OnQueue(n, r) <=> OnQueue(z, r)
    BY <2>1, <2>4, <2>5, RousedInv DEF Answered
  <2>7. C \in SUBSET Slot /\ \A r \in C : n.state[r] = "waiting"
    BY DEF Clients
  <2>8. Roused(n, u, C) /\ u \in Table
    BY <2>5, <2>7, WakeupRouses, WakeupType
  <2> HIDE DEF u
  <2>9. \A r \in C : n.server[r] = p
    BY DEF Clients
  <2> HIDE DEF C
  <2>10. QInv(u, X) /\ \A r \in Slot \ C : OnQueue(u, r) <=> OnQueue(n, r)
    BY <2>5, <2>6, <2>7, <2>8, RousedInv
  <2>11. s \notin D /\ s \notin C
    BY <1>1, <2>1, <2>4, <2>7 DEF Answered, Roused
  <2>12. t.state[s] = "waiting" => ~OnQueue(u, s)
    <3>1. t.state[s] = "waiting" => ~OnQueue(t, s)
      BY DEF QInv, QueuesOK, RightPlace, OnQueue
    <3>2. OnQueue(z, s) <=> OnQueue(t, s)
      BY <2>2 DEF OnQueue
    <3> QED
      BY <1>1, <2>6, <2>10, <2>11, <3>1, <3>2
  <2>13. ~Alive(u, p)
    <3>1. \A r \in Slot : t.state[r] # "free" /\ t.pid[r] = p => r = s
      BY <1>1 DEF QInv, Settled, PidsOK
    <3>2. u.pid = t.pid
      BY <2>1, <2>4, <2>8 DEF Answered, Roused
    <3>3. \A r \in Slot : t.state[r] = "free" => u.state[r] = "free"
      BY <1>1, <2>1, <2>4, <2>8 DEF Answered, Roused
    <3>4. u.state[s] = "zombie"
      BY <1>1, <2>1, <2>4, <2>8, <2>11 DEF Answered, Roused
    <3> QED
      BY <3>1, <3>2, <3>3, <3>4 DEF Alive
  <2>14. Ends(t, u)
    <3> SUFFICES ASSUME NEW r \in Slot, t.state[r] = "waiting", t.recv[r] = "reply",
                        u.state[r] = "runnable"
                 PROVE  ~Alive(u, t.server[r])
      BY DEF Ends
    <3>1. r # s
      BY <1>1, <2>1, <2>4, <2>8, <2>11 DEF Answered, Roused
    <3>2. r \notin D
      BY <2>1, <2>4 DEF Answered
    <3>3. r \in C
      BY <2>1, <2>4, <2>8, <3>1, <3>2 DEF Answered, Roused
    <3>4. t.server[r] = p
      BY <2>1, <2>4, <2>9, <3>3 DEF Answered, Roused
    <3> QED
      BY <2>13, <3>4
  <2>15. Term(t, s) = u
    BY <1>3, Zenon DEF Term, u, C, n, z, Dead
  <2> QED
    BY <2>10, <2>12, <2>13, <2>14, <2>15
<1> QED
  BY <1>2, <1>3

\* A dead process is released once it is on no queue.
LEMMA ReleaseInv ==
  ASSUME NEW t, TableInv(t, {}), NEW X, QInv(t, X), NEW s \in Slot,
         t.state[s] = "zombie", ~OnQueue(t, s)
  PROVE  /\ QInv(Release(t, s), X \ {s})
         /\ \A r \in Slot : Release(t, s).state[r] = IF r = s THEN "free" ELSE t.state[r]
         /\ \A r \in Slot \ {s} : Release(t, s).pid[r] = t.pid[r] /\ Release(t, s).msgs[r] = t.msgs[r]
         /\ Release(t, s).runq = t.runq /\ Release(t, s).current = t.current
<1> DEFINE u == Release(t, s)
<1>1. t \in Table /\ u \in Table
  BY ReleaseType DEF TableInv
<1>2. /\ u.free = Append(t.free, s) /\ u.current = t.current /\ u.gen = t.gen
      /\ u.runq = t.runq /\ u.nprocs = t.nprocs - 1 /\ u.nrunnable = t.nrunnable
      /\ u.msgs[s] = NoMsgs
      /\ u.alarm = t.alarm \ {s}
      /\ \A r \in Slot : u.state[r] = IF r = s THEN "free" ELSE t.state[r]
      /\ \A r \in Slot \ {s} :
           /\ u.pid[r] = t.pid[r] /\ u.server[r] = t.server[r] /\ u.level[r] = t.level[r]
           /\ u.msgs[r] = t.msgs[r] /\ u.recv[r] = t.recv[r]
  <2>1. /\ u.state = [t.state EXCEPT ![s] = "free"] /\ u.msgs = [t.msgs EXCEPT ![s] = NoMsgs]
        /\ u.pid = [t.pid EXCEPT ![s] = NoPid] /\ u.free = Append(t.free, s)
        /\ u.alarm = t.alarm \ {s} /\ u.server = [t.server EXCEPT ![s] = NoPid]
        /\ u.recv = [t.recv EXCEPT ![s] = "none"] /\ u.level = [t.level EXCEPT ![s] = 0]
        /\ u.nprocs = t.nprocs - 1
        /\ u.gen = t.gen /\ u.runq = t.runq /\ u.nrunnable = t.nrunnable /\ u.current = t.current
    BY <1>1, ReleaseIs
  <2> HIDE DEF u
  <2>2. /\ DOMAIN t.state = Slot /\ DOMAIN t.msgs = Slot /\ DOMAIN t.pid = Slot
        /\ DOMAIN t.server = Slot /\ DOMAIN t.recv = Slot /\ DOMAIN t.level = Slot
    BY <1>1 DEF Table
  <2> QED
    BY <2>1, <2>2
<1> HIDE DEF u
<1>3. QueuesOK(t, X) /\ Settled(t)
  BY DEF QInv
<1>4. QueuesOK(u, X \ {s})
  <2>1. \A l \in Level : \A i \in 1..Len(t.runq[l]) : t.runq[l][i] \in Slot \ {s}
    <3>1. \A l \in Level : t.runq[l] \in Seq(Slot)
      BY <1>1 DEF Table
    <3> QED
      BY <3>1 DEF OnQueue
  <2>2. OnePlace(u)
    BY <1>2, <1>3 DEF QueuesOK, OnePlace
  <2>3. RightPlace(u)
    BY <1>2, <1>3, <2>1 DEF QueuesOK, RightPlace
  <2>4. HasPlace(u, X \ {s})
    BY <1>2, <1>3 DEF QueuesOK, HasPlace, OnQueue
  <2> QED
    BY <2>2, <2>3, <2>4 DEF QueuesOK
<1>5. CountsOK(u)
  <2>1. Runnables(u) = Runnables(t)
    BY <1>2 DEF Runnables
  <2>2. Live(u) = Live(t) \ {s} /\ s \in Live(t)
    BY <1>2 DEF Live
  <2>3. Cardinality(Live(t) \ {s}) = Cardinality(Live(t)) - 1
    BY <1>1, <2>2, CountsAre, FS_RemoveElement
  <2> QED
    BY <1>2, <1>3, <2>1, <2>2, <2>3 DEF Settled, CountsOK
<1>6. FreeListed(u)
  <2> SUFFICES ASSUME NEW r \in Slot, u.state[r] = "free"
               PROVE  \E i \in 1..Len(u.free) : u.free[i] = r
    BY DEF FreeListed
  <2>1. /\ t.free \in Seq(Slot) /\ Len(u.free) = Len(t.free) + 1 /\ u.free[Len(t.free) + 1] = s
        /\ Len(t.free) \in Nat /\ \A i \in 1..Len(t.free) : u.free[i] = t.free[i]
    BY <1>1, <1>2, TableParts
  <2>2. CASE r = s
    <3>1. Len(t.free) + 1 \in 1..Len(u.free)
      BY <2>1
    <3> QED
      BY <2>1, <2>2, <3>1
  <2>3. CASE r # s
    <3>1. PICK i \in 1..Len(t.free) : t.free[i] = r
      BY <1>2, <1>3, <2>3 DEF Settled, FreeListed
    <3> QED
      BY <2>1, <3>1
  <2> QED
    BY <2>2, <2>3
<1>7. ReplyOK(u)
  <2>1. u.msgs[s]["reply"] = <<>>
    BY <1>2 DEF NoMsgs, MsgType
  <2> QED
    BY <1>2, <1>3, <2>1 DEF Settled, ReplyOK
<1>8. AlarmOK(u) /\ PidsOK(u)
  BY <1>2, <1>3 DEF Settled, AlarmOK, PidsOK
<1> QED
  BY <1>2, <1>4, <1>5, <1>6, <1>7, <1>8 DEF QInv, Settled, u

LEMMA ZapInv ==
  ASSUME NEW t, TableInv(t, {}), QInv(t, {}), NEW v, NEW s \in Live(t)
  PROVE  /\ QInv(Zap(t, v, s), {}) /\ Ends(t, Zap(t, v, s))
         /\ s # t.current \/ Zap(t, v, s).state[s] # "free"
         /\ v = 0 => Zap(t, v, s).state[s] \in {"zombie", "free"}
<1> DEFINE m == Term(t, s)
           u == Zap(t, v, s)
           X == IF t.state[s] = "waiting" /\ s # t.current THEN {s} ELSE {}
<1>1. /\ QInv(m, X) /\ (t.state[s] = "waiting" => ~OnQueue(m, s)) /\ Ends(t, m)
      /\ (t.state[s] # "zombie" => ~Alive(m, t.pid[s])) /\ s \in Slot /\ t.state[s] # "free"
  BY TermInv DEF Live
<1>2. /\ TableInv(m, {}) /\ m.state[s] = "zombie"
  BY TermFields
<1> HIDE DEF m
<1>3. CASE ~(v # 0 /\ v # t.uid[s]) /\ t.state[s] = "waiting" /\ s # t.current
  <2>1. u = Release(m, s)
    BY <1>3 DEF Zap, m
  <2>2. /\ QInv(Release(m, s), X \ {s})
        /\ \A r \in Slot : Release(m, s).state[r] = IF r = s THEN "free" ELSE m.state[r]
        /\ \A r \in Slot \ {s} : Release(m, s).pid[r] = m.pid[r] /\ Release(m, s).msgs[r] = m.msgs[r]
    BY <1>1, <1>2, <1>3, ReleaseInv
  <2>3. X \ {s} = {}
    OBVIOUS
  <2>4. \A p : Alive(u, p) => Alive(m, p)
    BY <2>1, <2>2 DEF Alive
  <2>5. Ends(t, u)
    BY <1>1, <2>1, <2>2, <2>4 DEF Ends
  <2>6. QInv(u, {}) /\ u.state[s] = "free"
    BY <1>1, <2>1, <2>2, <2>3
  <2> QED
    BY <1>3, <2>5, <2>6
<1>4. CASE ~(v # 0 /\ v # t.uid[s]) /\ ~(t.state[s] = "waiting" /\ s # t.current)
  <2>1. u = m /\ X = {}
    BY <1>4 DEF Zap, m
  <2> QED
    BY <1>1, <1>2, <2>1
<1>5. CASE v # 0 /\ v # t.uid[s]
  <2>1. u = t
    BY <1>5 DEF Zap
  <2> QED
    BY <1>1, <1>5, <2>1 DEF Ends
<1> QED
  BY <1>3, <1>4, <1>5

\* proc_recv blocks the current process, which is on no queue.
LEMMA ReceiveInv ==
  ASSUME NEW t, TableInv(t, {}), QInv(t, {}), NEW type \in MsgType, NEW timed \in BOOLEAN,
         t.state[t.current] = "runnable", t.recv[t.current] = "none",
         type = "reply" => ~timed
  PROVE  /\ QInv(Receive(t, type, timed), {})
         /\ \A s \in Slot : Receive(t, type, timed).state[s] = "runnable" => t.state[s] = "runnable"
         /\ \A s \in Slot \ {t.current} :
              /\ Receive(t, type, timed).msgs[s] = t.msgs[s]
              /\ Receive(t, type, timed).state[s] = t.state[s]
         /\ Receive(t, type, timed).pid = t.pid
<1> DEFINE c == t.current
           u == Receive(t, type, timed)
<1>1. t \in Table /\ u \in Table
  BY ReceiveType DEF TableInv
<1>2. /\ t.state \in [Slot -> {"free", "runnable", "waiting", "zombie"}]
      /\ t.msgs \in [Slot -> [MsgType -> Seq(Nat)]]
      /\ t.recv \in [Slot -> MsgType \cup {"none"}] /\ c \in Slot
  BY <1>1, TableParts
<1>3. QueuesOK(t, {}) /\ Settled(t)
  BY DEF QInv
<1>4. c \notin t.alarm /\ t.msgs[c]["reply"] = <<>>
  BY <1>2, <1>3 DEF TableInv, MailOK, Settled, ReplyOK
<1>5. CASE t.msgs[c][type] # <<>>
  <2>1. /\ u.state = t.state /\ u.pid = t.pid /\ u.server = t.server /\ u.gen = t.gen
        /\ u.alarm = t.alarm /\ u.recv = t.recv /\ u.free = t.free /\ u.current = t.current
        /\ u.level = t.level /\ u.runq = t.runq /\ u.nprocs = t.nprocs
        /\ u.nrunnable = t.nrunnable /\ u.msgs = [t.msgs EXCEPT ![c][type] = Tail(@)]
    BY <1>1, <1>5 DEF Receive, Table
  <2> HIDE DEF u
  <2>2. "reply" \in MsgType /\ type # "reply"
    BY <1>4, <1>5 DEF MsgType
  <2>3. \A s \in Slot : u.msgs[s]["reply"] = t.msgs[s]["reply"]
    BY <1>2, <2>1, <2>2
  <2>4. Roused(t, u, {})
    BY <1>1, <2>1, <2>3, RousedNone
  <2>5. QInv(u, {})
    BY <1>1, <2>4, RousedInv DEF u
  <2>6. \A s \in Slot \ {c} : u.msgs[s] = t.msgs[s]
    BY <1>2, <2>1
  <2> QED
    BY <2>1, <2>5, <2>6 DEF u
<1>6. CASE t.msgs[c][type] = <<>>
  <2>1. /\ u.pid = t.pid /\ u.server = t.server /\ u.msgs = t.msgs /\ u.free = t.free
        /\ u.current = t.current /\ u.state = [t.state EXCEPT ![c] = "waiting"]
        /\ u.recv = [t.recv EXCEPT ![c] = type] /\ u.gen = t.gen /\ u.level = t.level
        /\ u.runq = t.runq /\ u.nprocs = t.nprocs /\ u.nrunnable = t.nrunnable - 1
        /\ u.alarm = IF timed THEN t.alarm \cup {c} ELSE t.alarm
    BY <1>1, <1>6 DEF Receive, Table
  <2> HIDE DEF u
  <2>2. \A s \in Slot : /\ u.state[s] = IF s = c THEN "waiting" ELSE t.state[s]
                        /\ u.recv[s] = IF s = c THEN type ELSE t.recv[s]
                        /\ s # c => (s \in u.alarm <=> s \in t.alarm)
    BY <1>2, <2>1
  <2>3. QueuesOK(u, {})
    <3>1. OnePlace(u)
      BY <1>3, <2>1 DEF QueuesOK, OnePlace
    <3>2. \A l \in Level : \A i \in 1..Len(t.runq[l]) : t.runq[l][i] \in Slot
      <4>1. \A l \in Level : t.runq[l] \in Seq(Slot)
        BY <1>1 DEF Table
      <4> QED
        BY <4>1
    <3>3. RightPlace(u)
      BY <1>3, <2>1, <2>2, <3>2 DEF QueuesOK, RightPlace
    <3>4. HasPlace(u, {})
      BY <1>3, <2>1, <2>2 DEF QueuesOK, HasPlace, OnQueue
    <3> QED
      BY <3>1, <3>3, <3>4 DEF QueuesOK
  <2>4. CountsOK(u)
    <3>1. Live(u) = Live(t)
      <4>1. \A s \in Slot : u.state[s] = "free" <=> t.state[s] = "free"
        BY <2>2
      <4> QED
        BY <4>1 DEF Live
    <3>2. Runnables(u) = Runnables(t) \ {c} /\ c \in Runnables(t)
      BY <1>2, <2>2 DEF Runnables
    <3>3. Cardinality(Runnables(t) \ {c}) = Cardinality(Runnables(t)) - 1
      BY <1>1, <3>2, CountsAre, FS_RemoveElement
    <3> QED
      BY <1>3, <2>1, <3>1, <3>2, <3>3 DEF Settled, CountsOK
  <2>5. FreeListed(u) /\ PidsOK(u)
    BY <1>2, <1>3, <2>1, <2>2 DEF Settled, FreeListed, PidsOK
  <2>6. ReplyOK(u)
    BY <1>3, <1>4, <2>1, <2>2 DEF Settled, ReplyOK
  <2>7. AlarmOK(u)
    BY <1>3, <1>4, <2>1, <2>2 DEF Settled, AlarmOK
  <2> QED
    BY <2>1, <2>2, <2>3, <2>4, <2>5, <2>6, <2>7 DEF QInv, Settled, u
<1> QED
  BY <1>5, <1>6

\* proc_alloc: the new process s is on no queue until somebody else runs.
Allocated(t, u, s) ==
  /\ QInv(u, {s}) /\ s \in Slot /\ t.state[s] = "free" /\ ~OnQueue(u, s)
  /\ \A r \in Slot : u.state[r] = IF r = s THEN "runnable" ELSE t.state[r]
  /\ u.current = t.current

LEMMA AllocInv ==
  ASSUME NEW t, TableInv(t, {}), QInv(t, {}), t.free # <<>>,
         NEW owner \in Nat, NEW v \in Uids, NEW kind \in Kind
  PROVE  Allocated(t, Alloc(t, owner, v, kind), Head(t.free))
<1> DEFINE s == Head(t.free)
           u == Alloc(t, owner, v, kind)
<1>1. t \in Table /\ u \in Table
  BY AllocType DEF TableInv
<1>2. t.free \in Seq(Slot)
  BY <1>1, TableParts
<1>3. /\ s = t.free[1] /\ 1 \in 1..Len(t.free) /\ Len(Tail(t.free)) = Len(t.free) - 1
      /\ Len(t.free) \in Nat
      /\ \A i \in 1..Len(Tail(t.free)) : Tail(t.free)[i] = t.free[i + 1]
  BY <1>2
<1>4. s \in Slot /\ t.state[s] = "free"
  BY <1>2, <1>3 DEF TableInv, FreeOK
<1>5. /\ u.server = t.server /\ u.alarm = t.alarm /\ u.msgs = t.msgs /\ u.recv = t.recv
      /\ u.free = Tail(t.free) /\ u.runq = t.runq /\ u.current = t.current
      /\ u.gen = t.gen + 1 /\ u.nprocs = t.nprocs + 1 /\ u.nrunnable = t.nrunnable + 1
      /\ u.state = [t.state EXCEPT ![s] = "runnable"] /\ u.pid = [t.pid EXCEPT ![s] = t.gen]
      /\ u.level = [t.level EXCEPT ![s] = 0]
  <2> DEFINE a == [t EXCEPT !.free = Tail(@), !.state[s] = "runnable", !.pid[s] = t.gen,
                            !.uid[s] = v]
             b == [a EXCEPT !.owner[s] = owner, !.kind[s] = kind,
                            !.level[s] = 0, !.ticks[s] = Quantum[0]]
             e == [b EXCEPT !.gen = @ + 1, !.nprocs = @ + 1, !.nrunnable = @ + 1]
             Rest(x, y) == x.server = y.server /\ x.alarm = y.alarm /\ x.msgs = y.msgs
                           /\ x.recv = y.recv /\ x.runq = y.runq /\ x.current = y.current
                           /\ DOMAIN x = DOMAIN y
  <2>1. u = e
    BY DEF Alloc
  <2> HIDE DEF s, u
  <2>2. /\ Rest(a, t) /\ a.free = Tail(t.free) /\ a.gen = t.gen /\ a.nprocs = t.nprocs
        /\ a.nrunnable = t.nrunnable /\ a.level = t.level
        /\ a.state = [t.state EXCEPT ![s] = "runnable"] /\ a.pid = [t.pid EXCEPT ![s] = t.gen]
    BY <1>1 DEF Table
  <2> HIDE DEF a
  <2>3. /\ Rest(b, a) /\ b.free = a.free /\ b.gen = a.gen /\ b.nprocs = a.nprocs
        /\ b.nrunnable = a.nrunnable /\ b.level = [a.level EXCEPT ![s] = 0]
        /\ b.state = a.state /\ b.pid = a.pid
    BY <1>1, <2>2 DEF Table
  <2> HIDE DEF b
  <2>4. /\ Rest(e, b) /\ e.free = b.free /\ e.gen = b.gen + 1 /\ e.nprocs = b.nprocs + 1
        /\ e.nrunnable = b.nrunnable + 1 /\ e.level = b.level
        /\ e.state = b.state /\ e.pid = b.pid
    BY <1>1, <2>2, <2>3 DEF Table
  <2> HIDE DEF e
  <2> QED
    BY <2>1, <2>2, <2>3, <2>4, Zenon
<1> HIDE DEF u, s
<1>6. /\ \A r \in Slot : u.state[r] = IF r = s THEN "runnable" ELSE t.state[r]
      /\ \A r \in Slot : u.pid[r] = IF r = s THEN t.gen ELSE t.pid[r]
      /\ \A r \in Slot \ {s} : u.level[r] = t.level[r]
      /\ t.gen \in Nat
  <2>1. /\ t.state \in [Slot -> {"free", "runnable", "waiting", "zombie"}]
        /\ t.pid \in [Slot -> Nat] /\ t.level \in [Slot -> Level] /\ t.gen \in Nat
    BY <1>1 DEF Table
  <2> QED
    BY <1>4, <1>5, <2>1
<1>7. QueuesOK(t, {}) /\ Settled(t)
  BY DEF QInv
<1>8. ~OnQueue(t, s)
  BY <1>4, <1>7 DEF QueuesOK, RightPlace, OnQueue
<1>9. QueuesOK(u, {s}) /\ ~OnQueue(u, s)
  <2>1. \A l \in Level : \A i \in 1..Len(t.runq[l]) : t.runq[l][i] \in Slot \ {s}
    <3>1. \A l \in Level : t.runq[l] \in Seq(Slot)
      BY <1>1 DEF Table
    <3> QED
      BY <1>8, <3>1 DEF OnQueue
  <2>2. OnePlace(u)
    BY <1>5, <1>7 DEF QueuesOK, OnePlace
  <2>3. RightPlace(u)
    BY <1>5, <1>6, <1>7, <2>1 DEF QueuesOK, RightPlace
  <2>4. HasPlace(u, {s})
    BY <1>5, <1>6, <1>7 DEF QueuesOK, HasPlace, OnQueue
  <2>5. ~OnQueue(u, s)
    BY <1>5, <1>8 DEF OnQueue
  <2> QED
    BY <2>2, <2>3, <2>4, <2>5 DEF QueuesOK
<1>10. CountsOK(u)
  <2>1. Live(u) = Live(t) \cup {s} /\ s \notin Live(t)
    BY <1>4, <1>6 DEF Live
  <2>2. Runnables(u) = Runnables(t) \cup {s} /\ s \notin Runnables(t)
    BY <1>4, <1>6 DEF Runnables
  <2>3. /\ Cardinality(Runnables(t) \cup {s}) = Cardinality(Runnables(t)) + 1
        /\ Cardinality(Live(t) \cup {s}) = Cardinality(Live(t)) + 1
    BY <1>1, <2>1, <2>2, CountsAre, FS_AddElement
  <2> QED
    BY <1>5, <1>7, <2>1, <2>2, <2>3 DEF Settled, CountsOK
<1>11. FreeListed(u)
  <2> SUFFICES ASSUME NEW r \in Slot, u.state[r] = "free"
               PROVE  \E i \in 1..Len(u.free) : u.free[i] = r
    BY DEF FreeListed
  <2>1. r # s /\ t.state[r] = "free"
    BY <1>6
  <2>2. PICK i \in 1..Len(t.free) : t.free[i] = r
    BY <1>7, <2>1 DEF Settled, FreeListed
  <2>3. i # 1
    BY <1>3, <2>1, <2>2 DEF s
  <2>4. i - 1 \in 1..Len(Tail(t.free)) /\ (i - 1) + 1 = i
    BY <1>3, <2>2, <2>3
  <2>5. Tail(t.free)[i - 1] = t.free[i]
    BY <1>3, <2>4
  <2> QED
    BY <1>5, <2>2, <2>4, <2>5
<1>12. ReplyOK(u) /\ AlarmOK(u)
  BY <1>4, <1>5, <1>6, <1>7 DEF Settled, ReplyOK, AlarmOK
<1>13. PidsOK(u)
  <2>1. \A r \in Slot : u.state[r] # "free" => (r = s /\ u.pid[r] = t.gen)
                          \/ (r # s /\ t.state[r] # "free" /\ u.pid[r] = t.pid[r] /\ t.pid[r] < t.gen)
    BY <1>6, <1>7 DEF Settled, PidsOK
  <2>2. \A r \in Slot : t.pid[r] \in Nat
    BY <1>1, TableParts
  <2> SUFFICES ASSUME NEW q \in Slot, NEW r \in Slot, u.state[q] # "free", u.state[r] # "free"
               PROVE  u.pid[q] < u.gen /\ (u.pid[q] = u.pid[r] => q = r)
    BY DEF PidsOK
  <2>3. u.pid[q] < u.gen
    BY <1>5, <1>6, <2>1, <2>2
  <2>4. q # s /\ r # s => (u.pid[q] = u.pid[r] => q = r)
    BY <1>6, <1>7, <2>1 DEF Settled, PidsOK
  <2>5. q = s /\ r # s => u.pid[q] # u.pid[r]
    BY <1>6, <2>1, <2>2
  <2>6. q # s /\ r = s => u.pid[q] # u.pid[r]
    BY <1>6, <2>1, <2>2
  <2> QED
    BY <2>3, <2>4, <2>5, <2>6
<1> QED
  BY <1>4, <1>5, <1>6, <1>9, <1>10, <1>11, <1>12, <1>13 DEF Allocated, QInv, Settled, u, s

\* The processor has gone over from the current process to n.
Switched(t, u, n) ==
  /\ u.current = n /\ u.state = t.state /\ u.pid = t.pid /\ u.gen = t.gen /\ u.free = t.free
  /\ u.nprocs = t.nprocs /\ u.nrunnable = t.nrunnable /\ u.recv = t.recv /\ u.alarm = t.alarm
  /\ u.server = t.server /\ u.msgs = t.msgs /\ u.level = t.level
  /\ u.runq = IF t.state[t.current] = "runnable"
              THEN [t.runq EXCEPT ![t.level[t.current]] = Append(@, t.current)] ELSE t.runq

LEMMA SwitchInv ==
  ASSUME NEW t \in Table, NEW u \in Table, NEW n \in Slot, QInv(t, {n}), Switched(t, u, n),
         n # t.current, ~OnQueue(t, n), t.state[t.current] # "zombie"
  PROVE  QInv(u, {})
<1> DEFINE c == t.current
           E == IF t.state[c] = "runnable" THEN {c} ELSE {}
<1>1. c \in Slot /\ E \in SUBSET Slot
  BY TableParts
<1>2. OnePlace(t) /\ RightPlace(t) /\ HasPlace(t, {n}) /\ Settled(t)
  BY DEF QInv, QueuesOK
<1>a. u.current = n /\ u.state = t.state /\ u.level = t.level
  BY DEF Switched
<1>3. Joined(t, u, E)
  <2>1. CASE t.state[c] = "runnable"
    <3>1. u.runq = [t.runq EXCEPT ![u.level[c]] = Append(@, c)]
      BY <2>1 DEF Switched
    <3> QED
      BY <1>1, <2>1, <3>1, JoinedOne
  <2>2. CASE t.state[c] # "runnable"
    <3>1. u.runq = t.runq
      BY <2>2 DEF Switched
    <3> QED
      BY <2>2, <3>1, JoinedNone
  <2> QED
    BY <2>1, <2>2
<1>4. \A s \in E : ~OnQueue(t, s)
  BY <1>2 DEF RightPlace, OnQueue
<1> HIDE DEF E
<1>5. /\ OnePlace(u)
      /\ \A s \in Slot : OnQueue(u, s) <=> OnQueue(t, s) \/ s \in E
      /\ \A l \in Level : \A i \in 1..Len(u.runq[l]) :
           \/ i \in 1..Len(t.runq[l]) /\ u.runq[l][i] = t.runq[l][i]
           \/ u.runq[l][i] \in E /\ u.level[u.runq[l][i]] = l
  BY <1>1, <1>2, <1>3, <1>4, JoinedPlaces
<1>6. RightPlace(u)
  <2> SUFFICES ASSUME NEW l \in Level, NEW i \in 1..Len(u.runq[l])
               PROVE  LET s == u.runq[l][i]
                      IN  /\ s # u.current /\ u.state[s] \in {"runnable", "zombie"}
                          /\ u.state[s] = "runnable" => u.level[s] = l
    BY DEF RightPlace
  <2> DEFINE s == u.runq[l][i]
  <2>1. CASE s \in E /\ u.level[s] = l
    BY <1>1, <1>a, <2>1 DEF E
  <2>2. CASE i \in 1..Len(t.runq[l]) /\ s = t.runq[l][i]
    <3>1. /\ t.state[s] \in {"runnable", "zombie"}
          /\ t.state[s] = "runnable" => t.level[s] = l
      BY <1>2, <2>2 DEF RightPlace
    <3>2. s # n
      BY <2>2 DEF OnQueue
    <3> QED
      BY <1>a, <3>1, <3>2
  <2> QED
    BY <1>5, <2>1, <2>2
<1>7. HasPlace(u, {})
  <2> SUFFICES ASSUME NEW s \in Slot, s # n, t.state[s] \in {"runnable", "zombie"}
               PROVE  OnQueue(u, s)
    BY <1>a DEF HasPlace
  <2>1. CASE s = c
    <3>1. c # n /\ t.state[c] = "runnable"
      BY <2>1
    <3> QED
      BY <1>1, <1>5, <2>1, <3>1 DEF E
  <2>2. CASE s # c
    BY <1>2, <1>5, <2>2 DEF HasPlace
  <2> QED
    BY <2>1, <2>2
<1>8. CountsOK(u)
  BY <1>2 DEF Switched, Settled, CountsOK, Runnables, Live
<1>9. FreeListed(u) /\ ReplyOK(u) /\ AlarmOK(u) /\ PidsOK(u)
  BY <1>2 DEF Switched, Settled, FreeListed, ReplyOK, AlarmOK, PidsOK
<1> QED
  BY <1>5, <1>6, <1>7, <1>8, <1>9 DEF QInv, QueuesOK, Settled

\* Taking the first process off the run queues.
LEMMA DequeueInv ==
  ASSUME k \in Table, QInv(k, {}), Queued # {}
  PROVE  LET n == Head(k.runq[First])
         IN  /\ n \in Slot /\ n # k.current
             /\ QInv(Dequeued, {n}) /\ ~OnQueue(Dequeued, n)
<1> DEFINE n == Head(k.runq[First])
           u == Dequeued
           f == First
<1>1. f \in Level /\ k.runq[f] # <<>> /\ n \in Slot /\ u \in Table
  BY FirstIs
<1>2. k.runq \in [Level -> Seq(Slot)]
  BY DEF Table
<1>3. /\ u.current = k.current /\ u.state = k.state /\ u.pid = k.pid /\ u.gen = k.gen
      /\ u.free = k.free /\ u.nprocs = k.nprocs /\ u.nrunnable = k.nrunnable
      /\ u.recv = k.recv /\ u.alarm = k.alarm /\ u.server = k.server /\ u.msgs = k.msgs
      /\ u.level = k.level /\ u.runq = [k.runq EXCEPT ![f] = Tail(@)]
  BY DEF Dequeued, Table
<1> HIDE DEF u, f
<1>4. /\ n = k.runq[f][1] /\ 1 \in 1..Len(k.runq[f])
      /\ Len(u.runq[f]) = Len(k.runq[f]) - 1 /\ Len(k.runq[f]) \in Nat
      /\ \A i \in 1..Len(u.runq[f]) : u.runq[f][i] = k.runq[f][i + 1] /\ i + 1 \in 1..Len(k.runq[f])
  BY <1>1, <1>2, <1>3 DEF f
<1>5. \A l \in Level \ {f} : u.runq[l] = k.runq[l]
  BY <1>2, <1>3
<1> DEFINE old(l, i) == IF l = f THEN i + 1 ELSE i
<1>6. \A l \in Level : \A i \in 1..Len(u.runq[l]) :
        /\ u.runq[l][i] = k.runq[l][old(l, i)] /\ old(l, i) \in 1..Len(k.runq[l])
        /\ l = f => old(l, i) # 1
  BY <1>4, <1>5
<1> HIDE DEF n
<1>7. OnePlace(k) /\ RightPlace(k) /\ HasPlace(k, {}) /\ Settled(k)
  BY DEF QInv, QueuesOK
<1>8. n # k.current
  BY <1>1, <1>4, <1>7 DEF RightPlace
<1>9. ~OnQueue(u, n)
  <2> SUFFICES ASSUME NEW l \in Level, NEW i \in 1..Len(u.runq[l]), u.runq[l][i] = n PROVE FALSE
    BY DEF OnQueue
  <2>1. /\ k.runq[l][old(l, i)] = k.runq[f][1] /\ old(l, i) \in 1..Len(k.runq[l])
        /\ l = f => old(l, i) # 1
    BY <1>4, <1>6
  <2> HIDE DEF old
  <2>2. l = f /\ old(l, i) = 1
    BY <1>1, <1>4, <1>7, <2>1 DEF OnePlace
  <2> QED
    BY <2>1, <2>2
<1>10. OnePlace(u)
  <2> SUFFICES ASSUME NEW l \in Level, NEW m \in Level, NEW i \in 1..Len(u.runq[l]),
                      NEW j \in 1..Len(u.runq[m]), u.runq[l][i] = u.runq[m][j]
               PROVE  l = m /\ i = j
    BY DEF OnePlace
  <2>1. /\ k.runq[l][old(l, i)] = k.runq[m][old(m, j)]
        /\ old(l, i) \in 1..Len(k.runq[l]) /\ old(m, j) \in 1..Len(k.runq[m])
    BY <1>6
  <2> HIDE DEF old
  <2>2. l = m /\ old(l, i) = old(m, j)
    BY <1>7, <2>1 DEF OnePlace
  <2> QED
    BY <2>2 DEF old
<1>11. RightPlace(u)
  <2> SUFFICES ASSUME NEW l \in Level, NEW i \in 1..Len(u.runq[l])
               PROVE  LET s == u.runq[l][i]
                      IN  /\ s # u.current /\ u.state[s] \in {"runnable", "zombie"}
                          /\ u.state[s] = "runnable" => u.level[s] = l
    BY DEF RightPlace
  <2>1. u.runq[l][i] = k.runq[l][old(l, i)] /\ old(l, i) \in 1..Len(k.runq[l])
    BY <1>6
  <2> HIDE DEF old
  <2> QED
    BY <1>3, <1>7, <2>1 DEF RightPlace
<1>12. HasPlace(u, {n})
  <2> SUFFICES ASSUME NEW s \in Slot \ {n}, s # k.current, k.state[s] \in {"runnable", "zombie"}
               PROVE  OnQueue(u, s)
    BY <1>3 DEF HasPlace
  <2>1. PICK l \in Level : \E i \in 1..Len(k.runq[l]) : k.runq[l][i] = s
    BY <1>7 DEF HasPlace, OnQueue
  <2>2. PICK i \in 1..Len(k.runq[l]) : k.runq[l][i] = s
    BY <2>1
  <2>3. CASE l # f
    BY <1>5, <2>2, <2>3 DEF OnQueue
  <2>4. CASE l = f
    <3>1. i # 1
      BY <1>4, <2>2, <2>4
    <3>2. i - 1 \in 1..Len(u.runq[f]) /\ (i - 1) + 1 = i
      BY <1>4, <2>2, <2>4, <3>1
    <3>3. u.runq[f][i - 1] = s
      BY <1>4, <2>2, <2>4, <3>2
    <3> QED
      BY <1>1, <3>2, <3>3 DEF OnQueue
  <2> QED
    BY <2>3, <2>4
<1>13. Settled(u)
  BY <1>3, <1>7 DEF Settled, CountsOK, Runnables, Live, FreeListed, ReplyOK, AlarmOK, PidsOK
<1> QED
  BY <1>1, <1>8, <1>9, <1>10, <1>11, <1>12, <1>13 DEF QInv, QueuesOK, n, u, f

-----------------------------------------------------------------------------
(* The inductive invariant.                                                *)

\* What the loop that kills everybody has done so far.
ShutdownOK ==
  /\ k.state[k.current] # "free"
  /\ ctl.at = "zap" /\ ctl.then = "pick" =>
       /\ shutting /\ ctl.uid = 0
       /\ \A s \in Live(k) \ ctl.todo : k.state[s] = "zombie"
  /\ ctl.at = "pick" /\ shutting => \A s \in Live(k) : k.state[s] = "zombie"

QueueInv == QInv(k, {}) /\ ShutdownOK

LEMMA AnsweredEnds ==
  ASSUME NEW t, NEW u, NEW C, NEW type, Answered(t, u, C, type)
  PROVE  Ends(t, u)
<1> SUFFICES ASSUME NEW s \in Slot, t.state[s] = "waiting", t.recv[s] = "reply",
                    u.state[s] = "runnable"
             PROVE  u.msgs[s]["reply"] # <<>>
  BY DEF Ends
<1>1. s \in C
  BY DEF Answered, Roused
<1> QED
  BY <1>1 DEF Answered

\* proc_send, for the processes that call it.
LEMMA SendInv ==
  ASSUME NEW t, TableInv(t, {}), QInv(t, {}), NEW src \in Nat, NEW p, NEW type \in MsgType
  PROVE  /\ QInv(Send(t, src, p, type), {}) /\ Ends(t, Send(t, src, p, type))
         /\ TableInv(Send(t, src, p, type), {})
         /\ \A s \in Slot : t.recv[s] # type /\ t.state[s] # "runnable"
                              => Send(t, src, p, type).state[s] # "runnable"
         /\ \A s \in Slot : t.state[s] # "waiting"
                              => Send(t, src, p, type).state[s] = t.state[s]
         /\ Send(t, src, p, type).current = t.current
         /\ Send(t, src, p, type).recv = t.recv
<1> DEFINE u == Send(t, src, p, type)
<1>1. t \in Table /\ TableInv(u, {}) /\ u \in Table /\ ReplyOK(t)
  BY SendFields DEF TableInv, QInv, Settled
<1>2. PICK C \in SUBSET Slot : Answered(t, u, C, type)
  <2>1. ReplyOK(t)
    BY <1>1
  <2> QED
    BY <2>1, SendRouses, Zenon
<1> HIDE DEF u
<1>3. Roused(t, u, C) /\ Ends(t, u)
  <2>1. Roused(t, u, C)
    BY <1>2 DEF Answered
  <2>2. Ends(t, u)
    BY <1>2, AnsweredEnds
  <2> QED
    BY <2>1, <2>2
<1>4. QInv(u, {})
  BY <1>1, <1>3, RousedInv
<1>5. \A s \in Slot : t.recv[s] # type /\ t.state[s] # "runnable" => u.state[s] # "runnable"
  BY <1>2 DEF Answered, Roused
<1>6. \A s \in Slot : t.state[s] # "waiting" => u.state[s] = t.state[s]
  BY <1>3 DEF Roused
<1> QED
  BY <1>1, <1>3, <1>4, <1>5, <1>6 DEF u, Roused

LEMMA InitQueueInv == Init => QueueInv
<1> SUFFICES ASSUME Init PROVE QueueInv
  OBVIOUS
<1>1. k \in Table
  BY InitType DEF TypeOK
<1>2. /\ k.state = [s \in Slot |-> IF s = 1 THEN "runnable" ELSE "free"] /\ k.current = 1
      /\ k.pid = [s \in Slot |-> IF s = 1 THEN 1 ELSE NoPid] /\ k.gen = 2
      /\ k.free = [j \in 1..(MaxProcs - 1) |-> j + 1] /\ k.nprocs = 1 /\ k.nrunnable = 1
      /\ k.runq = [l \in Level |-> <<>>] /\ k.msgs = [s \in Slot |-> NoMsgs]
      /\ k.recv = [s \in Slot |-> "none"] /\ ctl.at = "run"
  BY DEF Init, Run
<1>3. QueuesOK(k, {})
  <2>1. \A l \in Level : 1..Len(k.runq[l]) = {}
    BY <1>2
  <2>2. \A s \in Slot : s # k.current => k.state[s] = "free"
    BY <1>2
  <2> QED
    BY <2>1, <2>2 DEF QueuesOK, OnePlace, RightPlace, HasPlace
<1>4. CountsOK(k)
  <2>1. 1 \in Slot
    BY SlotAssumption DEF Slot
  <2>2. Runnables(k) = {1} /\ Live(k) = {1}
    BY <1>2, <2>1 DEF Runnables, Live
  <2>3. Cardinality({1}) = 1
    BY FS_Singleton
  <2> QED
    BY <1>2, <2>2, <2>3 DEF CountsOK
<1>5. FreeListed(k)
  <2> SUFFICES ASSUME NEW s \in Slot, s # 1 PROVE \E i \in 1..Len(k.free) : k.free[i] = s
    BY <1>2 DEF FreeListed
  <2>1. Len(k.free) = MaxProcs - 1
    BY <1>2, SlotAssumption
  <2>2. s - 1 \in 1..Len(k.free) /\ (s - 1) + 1 = s
    BY <2>1, SlotAssumption DEF Slot
  <2>3. k.free[s - 1] = s
    BY <1>2, <2>1, <2>2
  <2> QED
    BY <2>2, <2>3
<1>6. ReplyOK(k) /\ AlarmOK(k)
  BY <1>2 DEF ReplyOK, AlarmOK, NoMsgs, MsgType
<1>7. PidsOK(k)
  BY <1>2 DEF PidsOK
<1>8. ShutdownOK
  BY <1>1, <1>2, TableParts DEF ShutdownOK
<1> QED
  BY <1>3, <1>4, <1>5, <1>6, <1>7, <1>8 DEF QueueInv, QInv, Settled

\* Every action preserves the invariant, and ends RPCs as it should.
LEMMA NextQueueInv == IInv /\ QueueInv /\ [Next]_vars => QueueInv' /\ Ends(k, k')
<1> SUFFICES ASSUME IInv, QueueInv, [Next]_vars
             PROVE  QInv(k', {}) /\ ShutdownOK' /\ Ends(k, k')
  BY DEF QueueInv, QInv, QueuesOK, Settled, OnePlace, RightPlace, HasPlace, OnQueue, CountsOK,
         Runnables, Live, FreeListed, ReplyOK, AlarmOK, PidsOK
<1>0. /\ TypeOK /\ k \in Table /\ k' \in Table /\ TableInv(k, {}) /\ ControlInv /\ QInv(k, {})
      /\ ShutdownOK /\ k.current \in Slot
      /\ \A s \in Slot : k.pid[s] \in Nat /\ k.uid[s] \in Uids /\ k.recv[s] \in MsgType \cup {"none"}
      /\ \A m \in {"request", "reply", "event"} : m \in MsgType
      /\ \A n \in 1..MaxPid : n \in Nat
  <2>1. TypeOK /\ k \in Table /\ k' \in Table
    BY NextType DEF IInv, TypeOK
  <2>2. \A m \in {"request", "reply", "event"} : m \in MsgType
    BY DEF MsgType
  <2>3. /\ k.current \in Slot
        /\ \A s \in Slot : k.pid[s] \in Nat /\ k.uid[s] \in Uids /\ k.recv[s] \in MsgType \cup {"none"}
    BY <2>1 DEF Table
  <2> QED
    BY <2>1, <2>2, <2>3, BoundAssumption DEF IInv, QueueInv
<1> DEFINE c == k.current
<1>a. ctl.at = "run" => k.state[c] = "runnable"
  BY <1>0 DEF ControlInv
<1>b. /\ Run.at = "run" /\ Suspend.at = "suspend" /\ Pick.at = "pick" /\ Halt.at = "halt"
  BY DEF Run, Suspend, Pick, Halt
\* Outside the loops of proc_yield there is little to show about the control state.
<1>c. ASSUME ctl'.at \in {"run", "suspend", "halt"}, k'.state[k'.current] # "free" PROVE ShutdownOK'
  BY <1>c DEF ShutdownOK
<1>d. k' = k => Ends(k, k') /\ QInv(k', {}) /\ k'.state[k'.current] # "free"
  BY <1>0 DEF Ends, ShutdownOK
<1>1. ASSUME NEW type \in {"request", "event"}, NEW timed \in BOOLEAN, Recv(type, timed)
      PROVE  QInv(k', {}) /\ ShutdownOK' /\ Ends(k, k')
  <2>1. /\ k.state[c] = "runnable" /\ k.recv[c] = "none" /\ k' = Receive(k, type, timed)
        /\ ctl' = AfterReceive(k') /\ type \in MsgType /\ type # "reply"
    BY <1>0, <1>a, <1>1 DEF Recv, Running
  <2>2. /\ QInv(k', {}) /\ \A s \in Slot : k'.state[s] = "runnable" => k.state[s] = "runnable"
    BY <1>0, <2>1, ReceiveInv
  <2>3. k'.current = c /\ k'.state[c] \in {"runnable", "waiting"}
    BY <1>0, <2>1, ReceiveFields
  <2>4. Ends(k, k')
    BY <2>2 DEF Ends
  <2>5. ShutdownOK'
    BY <1>b, <1>c, <2>1, <2>3 DEF AfterReceive
  <2> QED
    BY <2>2, <2>4, <2>5
<1>2. ASSUME NEW p \in 1..MaxPid, Rpc(p) PROVE QInv(k', {}) /\ ShutdownOK' /\ Ends(k, k')
  <2> DEFINE s == Send(k, k.pid[c], p, "request")
             r == Serve(s, p)
  <2>1. /\ k.state[c] = "runnable" /\ k.recv[c] = "none" /\ p \in Nat
        /\ k' = Receive([s EXCEPT !.server[c] = p], "reply", FALSE)
        /\ ctl' = AfterReceive(k') /\ CanSend(k, k.pid[c], p, "request")
    BY <1>0, <1>a, <1>2 DEF Rpc, Running
  <2>2. /\ QInv(s, {}) /\ TableInv(s, {}) /\ s.current = c /\ s.recv = k.recv
        /\ \A x \in Slot : k.recv[x] # "request" /\ k.state[x] # "runnable"
                             => s.state[x] # "runnable"
        /\ \A x \in Slot : k.state[x] # "waiting" => s.state[x] = k.state[x]
    <3>1. k.pid[c] \in Nat /\ "request" \in MsgType
      BY <1>0
    <3> QED
      BY <3>1, <1>0, SendInv
  <2>3. Wakes(k, s, {})
    <3>1. k.pid[c] \in Nat /\ "request" \in MsgType
      BY <1>0
    <3> QED
      BY <3>1, <1>0, SendFields
  <2>4. Alive(s, p)
    <3>1. PICK d \in Slot : k.state[d] \in {"runnable", "waiting"} /\ k.pid[d] = p
      BY <1>0, <2>1, FindIs, TableParts DEF CanSend
    <3>2. s.state[d] \in {"runnable", "waiting"} /\ s.pid[d] = p
      BY <2>3, <3>1 DEF Wakes
    <3> QED
      BY <3>2 DEF Alive
  <2>5. k' = Receive(r, "reply", FALSE)
    BY <2>1, <2>2 DEF Serve
  <2>6. s.state[s.current] = "runnable"
    BY <1>0, <2>1, <2>2
  <2> HIDE DEF s
  <2>7. /\ TableInv(r, {}) /\ SameButServer(s, r) /\ r.server = [s.server EXCEPT ![s.current] = p]
    BY <2>1, <2>2, <2>6, ServerFields
  <2> HIDE DEF r
  <2>8. r.server[c] = p /\ \A x \in Slot \ {c} : r.server[x] = s.server[x]
    BY <1>0, <2>2, <2>7, TableParts DEF TableInv
  <2>9. r.current = c /\ r.state[c] = "runnable" /\ r.recv[c] = "none" /\ Alive(r, r.server[c])
    BY <2>1, <2>2, <2>4, <2>6, <2>7, <2>8 DEF SameButServer, Alive
  <2>10. QInv(r, {})
    <3>1. QueuesOK(s, {}) /\ Settled(s)
      BY <2>2 DEF QInv
    <3>2. QueuesOK(r, {})
      BY <2>7, <3>1 DEF SameButServer, QueuesOK, OnePlace, RightPlace, HasPlace, OnQueue
    <3>3. CountsOK(r) /\ FreeListed(r) /\ AlarmOK(r) /\ PidsOK(r)
      BY <2>7, <3>1 DEF SameButServer, Settled, CountsOK, Runnables, Live, FreeListed, AlarmOK, PidsOK
    <3>4. s.msgs[c]["reply"] = <<>>
      BY <1>0, <2>1, <2>2, <2>6, <3>1 DEF Settled, ReplyOK
    <3>5. ReplyOK(r)
      BY <2>7, <2>8, <3>1, <3>4 DEF SameButServer, Settled, ReplyOK
    <3> QED
      BY <3>2, <3>3, <3>5 DEF QInv, Settled
  <2>11. /\ QInv(k', {}) /\ \A x \in Slot : k'.state[x] = "runnable" => r.state[x] = "runnable"
    <3>1. /\ TableInv(r, {}) /\ r.state[r.current] = "runnable" /\ r.recv[r.current] = "none"
          /\ "reply" \in MsgType
      BY <1>0, <2>7, <2>9
    <3> QED
      BY <2>5, <2>10, <3>1, ReceiveInv
  <2>12. k'.current = c /\ k'.state[c] \in {"runnable", "waiting"}
    <3>1. /\ TableInv(r, {}) /\ "reply" \in MsgType /\ FALSE \in BOOLEAN
          /\ r.state[r.current] = "runnable" /\ Alive(r, r.server[r.current])
      BY <1>0, <2>7, <2>9
    <3>2. /\ Receive(r, "reply", FALSE).current = r.current
          /\ Receive(r, "reply", FALSE).state[r.current] \in {"runnable", "waiting"}
      BY <3>1, ReceiveFields
    <3> QED
      BY <3>2, <2>5, <2>9
  <2>13. ShutdownOK'
    BY <1>b, <1>c, <2>1, <2>12 DEF AfterReceive
  <2>14. Ends(k, k')
    BY <2>2, <2>7, <2>11 DEF Ends, SameButServer
  <2> QED
    BY <2>11, <2>13, <2>14
<1>3. ASSUME NEW p \in 1..MaxPid, NEW type \in {"reply", "event"}, SendMsg(p, type)
      PROVE  QInv(k', {}) /\ ShutdownOK' /\ Ends(k, k')
  <2>1. k' = Send(k, k.pid[c], p, type) /\ k.pid[c] \in Nat /\ type \in MsgType
        /\ ctl' = ctl /\ ctl.at = "run"
    BY <1>0, <1>3 DEF SendMsg, Running
  <2>2. /\ QInv(k', {}) /\ Ends(k, k') /\ k'.current = c
        /\ \A s \in Slot : k.state[s] # "waiting" => k'.state[s] = k.state[s]
    BY <1>0, <2>1, SendInv
  <2> QED
    BY <1>0, <1>a, <1>c, <2>1, <2>2
<1>4. CASE Resume
  <2> DEFINE type == k.recv[c]
             m == [k.msgs EXCEPT ![c][type] = IF @ = <<>> THEN @ ELSE Tail(@)]
             r == [k.recv EXCEPT ![c] = "none"]
  <2>1. ctl.at = "run" /\ ctl' = ctl /\ k.state[c] = "runnable" /\ k' = [k EXCEPT !.recv = r, !.msgs = m]
        /\ type # "none"
    BY <1>4, <1>a DEF Resume
  <2>2. /\ \A s \in Slot \ {c} : m[s] = k.msgs[s] /\ r[s] = k.recv[s]
        /\ r[c] = "none"
        /\ m[c]["reply"] = IF type = "reply" /\ k.msgs[c]["reply"] # <<>>
                           THEN Tail(k.msgs[c]["reply"]) ELSE k.msgs[c]["reply"]
    <3>1. type \in MsgType /\ "reply" \in MsgType
      BY <1>0, <2>1 DEF MsgType
    <3>2. k.msgs \in [Slot -> [MsgType -> Seq(Nat)]] /\ k.recv \in [Slot -> MsgType \cup {"none"}]
      BY <1>0, TableParts
    <3> QED
      BY <1>0, <3>1, <3>2
  <2> HIDE DEF m, r
  <2>3. /\ k'.state = k.state /\ k'.pid = k.pid /\ k'.gen = k.gen /\ k'.server = k.server
        /\ k'.alarm = k.alarm /\ k'.level = k.level /\ k'.runq = k.runq /\ k'.free = k.free
        /\ k'.nprocs = k.nprocs /\ k'.nrunnable = k.nrunnable /\ k'.current = k.current
        /\ k'.msgs = m /\ k'.recv = r
    BY <1>0, <2>1 DEF Table
  <2>4. QueuesOK(k, {}) /\ Settled(k)
    BY <1>0 DEF QInv
  <2>5. QueuesOK(k', {})
    BY <2>3, <2>4 DEF QueuesOK, OnePlace, RightPlace, HasPlace, OnQueue
  <2>6. CountsOK(k') /\ FreeListed(k') /\ PidsOK(k')
    BY <2>3, <2>4 DEF Settled, CountsOK, Runnables, Live, FreeListed, PidsOK
  <2>7. AlarmOK(k')
    BY <2>1, <2>2, <2>3, <2>4 DEF Settled, AlarmOK
  <2>8. m[c]["reply"] = <<>>
    <3>1. k.msgs[c]["reply"] # <<>> => type = "reply" /\ k.msgs[c]["reply"] = <<k.server[c]>>
      BY <1>0, <2>1, <2>4 DEF Settled, ReplyOK
    <3>2. Tail(<<k.server[c]>>) = <<>>
      OBVIOUS
    <3> QED
      BY <2>2, <3>1, <3>2
  <2>9. ReplyOK(k')
    BY <2>2, <2>3, <2>4, <2>8 DEF Settled, ReplyOK
  <2>10. Ends(k, k') /\ ShutdownOK'
    BY <1>c, <2>1, <2>3 DEF Ends
  <2> QED
    BY <2>5, <2>6, <2>7, <2>9, <2>10 DEF QInv, Settled
<1>5. CASE Exit
  <2>1. c \in Live(k) /\ k' = Term(k, c) /\ ctl' = Suspend /\ k.state[c] = "runnable"
    BY <1>0, <1>5, <1>a DEF Exit, Running, Live
  <2>2. QInv(k', {}) /\ Ends(k, k')
    BY <1>0, <2>1, TermInv
  <2>3. k'.state[c] = "zombie" /\ k'.current = c
    BY <1>0, <2>1, TermFields DEF Wakes
  <2> QED
    BY <1>b, <1>c, <2>1, <2>2, <2>3
<1>6. ASSUME NEW f \in Slot, NEW u \in Uids, NEW kind \in Kinds, Create(f, u, kind)
      PROVE  QInv(k', {}) /\ ShutdownOK' /\ Ends(k, k')
  <2> DEFINE v == IF k.uid[f] # 0 THEN k.uid[f] ELSE u
             a == Alloc(k, k.pid[f], v, kind)
             n == Head(k.free)
             b == ToRunQueue(a, c)
  <2>1. v \in Uids /\ kind \in Kind /\ k.pid[f] \in Nat
    BY <1>0, KindAssumption
  <2>2. k.free # <<>> /\ k' = [b EXCEPT !.current = n] /\ ctl' = ctl /\ ctl.at = "run"
    BY <1>6 DEF Create, InKernelServer, Running
  <2> HIDE DEF v
  <2>3. /\ QInv(a, {n}) /\ n \in Slot /\ k.state[n] = "free" /\ ~OnQueue(a, n)
        /\ \A r \in Slot : a.state[r] = IF r = n THEN "runnable" ELSE k.state[r]
        /\ a.current = c
    <3>1. TableInv(k, {}) /\ QInv(k, {}) /\ k.free # <<>>
      BY <1>0, <2>2
    <3>2. Allocated(k, a, n)
      BY <2>1, <3>1, AllocInv
    <3> QED
      BY <3>2 DEF Allocated
  <2>4. a \in Table
    BY <1>0, <2>1, <2>2, AllocType
  <2> HIDE DEF a, n
  <2>5. n # c /\ a.state[c] = "runnable"
    BY <1>0, <1>a, <2>2, <2>3
  <2>6. Switched(a, k', n)
    BY <2>2, <2>3, <2>4, <2>5 DEF Switched, ToRunQueue, Table
  <2>7. QInv(k', {})
    <3>1. a.state[a.current] # "zombie" /\ n # a.current
      BY <2>3, <2>5
    <3> QED
      BY <1>0, <2>3, <2>4, <2>6, <3>1, SwitchInv
  <2>8. k'.state = a.state /\ k'.current = n
    BY <2>6 DEF Switched
  <2> QED
    BY <1>c, <2>2, <2>3, <2>7, <2>8 DEF Ends
<1>7. ASSUME NEW f \in Slot, NEW s \in Slot, Kill(f, s) PROVE QInv(k', {}) /\ ShutdownOK' /\ Ends(k, k')
  <2>1. /\ s \in Live(k) /\ k' = Zap(k, k.uid[f], s) /\ k.state[c] = "runnable"
        /\ ctl' = IF k'.state[s] = "zombie" THEN Suspend ELSE Run
    BY <1>a, <1>7 DEF Kill, InKernelServer, Running
  <2>2. /\ QInv(k', {}) /\ Ends(k, k') /\ (s # c \/ k'.state[s] # "free")
    BY <1>0, <2>1, ZapInv
  <2>3. /\ k'.current = c
        /\ s # c => k'.state[c] \in {k.state[c], "runnable"}
    BY <1>0, <2>1, ZapFields
  <2>4. k'.state[c] # "free" /\ ctl'.at \in {"run", "suspend"}
    BY <1>b, <2>1, <2>2, <2>3
  <2> QED
    BY <1>c, <2>2, <2>3, <2>4
<1>8. ASSUME NEW f \in Slot, KillAll(f) PROVE QInv(k', {}) /\ ShutdownOK' /\ Ends(k, k')
  <2>1. k' = k /\ ctl'.at = "zap" /\ ctl'.then = ctl.at /\ ctl.at \in {"run", "suspend"}
    BY <1>8 DEF KillAll, InKernelServer, Running
  <2> QED
    BY <1>d, <2>1 DEF ShutdownOK
<1>9. CASE ZapStep
  <2>1. PICK s \in ctl.todo : k' = Zap(k, ctl.uid, s) /\ ctl' = [ctl EXCEPT !.todo = @ \ {s}]
    BY <1>9 DEF ZapStep
  <2>2. ctl.at = "zap" /\ ctl \in [at: {"zap"}, todo: SUBSET Slot, uid: Uids, then: {"run", "suspend", "pick"}]
    BY <1>0, <1>9 DEF ZapStep, TypeOK, Control
  <2>3. s \in Live(k) /\ s \in Slot
    BY <1>0, <2>1, <2>2 DEF ControlInv
  <2>4. /\ QInv(k', {}) /\ Ends(k, k') /\ (s # c \/ k'.state[s] # "free")
        /\ ctl.uid = 0 => k'.state[s] \in {"zombie", "free"}
    BY <1>0, <2>1, <2>3, ZapInv
  <2>5. /\ k'.current = c
        /\ \A r \in Slot \ {s} : \/ k'.state[r] = k.state[r]
                                 \/ k.state[r] = "waiting" /\ k'.state[r] = "runnable"
    <3>1. TableInv(k, {})
      BY <1>0
    <3>2. Zap(k, ctl.uid, s).current = k.current
      BY <2>3, <3>1, ZapFields
    <3>3. \A r \in Slot \ {s} :
             \/ Zap(k, ctl.uid, s).state[r] = k.state[r]
             \/ k.state[r] = "waiting" /\ Zap(k, ctl.uid, s).state[r] = "runnable"
      BY <2>3, <3>1, ZapFields
    <3> QED
      BY <2>1, <3>2, <3>3
  <2>6. /\ ctl'.at = "zap" /\ ctl'.todo = ctl.todo \ {s} /\ ctl'.then = ctl.then /\ ctl'.uid = ctl.uid
        /\ shutting' = shutting
    BY <1>9, <2>1, <2>2 DEF ZapStep
  <2>7. k'.state[k'.current] # "free"
    BY <1>0, <2>4, <2>5 DEF ShutdownOK
  <2>8. ASSUME ctl.then = "pick", NEW r \in Live(k') \ ctl'.todo PROVE k'.state[r] = "zombie"
    <3>1. CASE r = s
      BY <1>0, <2>2, <2>4, <2>8, <3>1 DEF ShutdownOK, Live
    <3>2. CASE r # s
      <4>1. r \in Live(k) \ ctl.todo
        BY <2>5, <2>6, <2>8, <3>2 DEF Live
      <4>2. k.state[r] = "zombie"
        BY <1>0, <2>2, <2>8, <4>1 DEF ShutdownOK
      <4> QED
        BY <2>5, <3>2, <4>1, <4>2 DEF Live
    <3> QED
      BY <3>1, <3>2
  <2> QED
    BY <1>0, <2>2, <2>4, <2>6, <2>7, <2>8 DEF ShutdownOK
<1>10. CASE ZapDone
  <2>1. ctl.at = "zap" /\ ctl.todo = {} /\ k' = k /\ shutting' = shutting
        /\ ctl' = IF ctl.then # "pick" /\ k.state[c] = "zombie" THEN Suspend ELSE [at |-> ctl.then]
    BY <1>10 DEF ZapDone
  <2>2. ctl.then \in {"run", "suspend", "pick"}
    BY <1>0, <1>10 DEF ZapDone, TypeOK, Control
  <2>3. CASE ctl.then = "pick"
    <3>1. ctl'.at = "pick" /\ \A s \in Live(k) : k.state[s] = "zombie"
      BY <1>0, <2>1, <2>3 DEF ShutdownOK
    <3> QED
      BY <1>d, <2>1, <3>1 DEF ShutdownOK
  <2>4. CASE ctl.then # "pick"
    <3>1. ctl'.at \in {"run", "suspend"}
      BY <1>b, <2>1, <2>2, <2>4
    <3> QED
      BY <1>c, <1>d, <2>1, <3>1
  <2> QED
    BY <2>3, <2>4
<1>11. CASE ClockInterrupt
  <2> DEFINE left == k.ticks[c] - 1
             tk == [k.ticks EXCEPT ![c] = IF left < -1 THEN -1 ELSE left]
             lv == [k.level EXCEPT ![c] = IF left = 0 /\ @ < Levels - 1 THEN @ + 1 ELSE @]
  <2>1. k' = [k EXCEPT !.ticks = tk, !.level = lv] /\ ctl' \in {Run, Suspend} /\ ctl.at = "run"
    BY <1>11 DEF ClockInterrupt, InUserMode, Running
  <2>2. \A s \in Slot \ {c} : lv[s] = k.level[s]
    BY <1>0 DEF Table
  <2> HIDE DEF tk, lv
  <2>3. /\ k'.state = k.state /\ k'.pid = k.pid /\ k'.gen = k.gen /\ k'.server = k.server
        /\ k'.alarm = k.alarm /\ k'.level = lv /\ k'.runq = k.runq /\ k'.free = k.free
        /\ k'.nprocs = k.nprocs /\ k'.nrunnable = k.nrunnable /\ k'.current = k.current
        /\ k'.msgs = k.msgs /\ k'.recv = k.recv
    BY <1>0, <2>1 DEF Table
  <2>4. QueuesOK(k, {}) /\ Settled(k)
    BY <1>0 DEF QInv
  <2>5. OnePlace(k') /\ HasPlace(k', {})
    BY <2>3, <2>4 DEF QueuesOK, OnePlace, HasPlace, OnQueue
  <2>6. RightPlace(k')
    <3>1. \A l \in Level : \A i \in 1..Len(k.runq[l]) : k.runq[l][i] \in Slot \ {c}
      <4>1. \A l \in Level : k.runq[l] \in Seq(Slot)
        BY <1>0 DEF Table
      <4> QED
        BY <2>4, <4>1 DEF QueuesOK, RightPlace
    <3> QED
      BY <2>2, <2>3, <2>4, <3>1 DEF QueuesOK, RightPlace
  <2>7. Settled(k')
    BY <2>3, <2>4 DEF Settled, CountsOK, Runnables, Live, FreeListed, PidsOK, AlarmOK, ReplyOK
  <2>8. Ends(k, k') /\ ShutdownOK'
    BY <1>a, <1>b, <1>c, <2>1, <2>3 DEF Ends
  <2> QED
    BY <2>5, <2>6, <2>7, <2>8 DEF QInv, QueuesOK
<1>12. CASE IoInterrupt
  BY <1>b, <1>c, <1>d, <1>12 DEF IoInterrupt
<1>13. CASE Shutdown
  BY <1>c, <1>d, <1>13 DEF Shutdown, InKernelServer, Running
<1>14. ASSUME NEW f \in Slot, NEW p \in 1..MaxPid, DeviceReply(f, p)
       PROVE  QInv(k', {}) /\ ShutdownOK' /\ Ends(k, k')
  <2>1. k' = Send(k, k.pid[f], p, "reply") /\ k.pid[f] \in Nat /\ "reply" \in MsgType
        /\ ctl' = ctl /\ ctl.at = "suspend"
    BY <1>0, <1>14 DEF DeviceReply
  <2>2. /\ QInv(k', {}) /\ Ends(k, k')
    BY <1>0, <2>1, SendInv
  <2>3. Wakes(k, k', {})
    BY <1>0, <2>1, SendFields
  <2>4. k'.state[k'.current] # "free"
    BY <1>0, <2>3 DEF Wakes, ShutdownOK
  <2> QED
    BY <1>c, <2>1, <2>2, <2>4
<1>15. ASSUME NEW expired \in SUBSET Alarms, SuspendReturns(expired)
       PROVE  QInv(k', {}) /\ ShutdownOK' /\ Ends(k, k')
  <2>1. k' = Wakeup(k, expired) /\ ctl' = Pick /\ ~shutting'
        /\ expired \in SUBSET Slot /\ \A s \in expired : k.state[s] = "waiting" /\ s \in k.alarm
    BY <1>15 DEF SuspendReturns, Alarms
  <2>2. Roused(k, k', expired)
    BY <1>0, <2>1, WakeupRouses
  <2>3. QInv(k', {})
    BY <1>0, <2>1, <2>2, RousedInv
  <2>4. Ends(k, k')
    BY <1>0, <2>1, <2>2 DEF Roused, Ends, QInv, Settled, AlarmOK
  <2>5. k'.state[k'.current] # "free"
    BY <1>0, <2>2 DEF Roused, ShutdownOK
  <2> QED
    BY <1>b, <2>1, <2>3, <2>4, <2>5 DEF ShutdownOK
<1>16. CASE ShutdownScan
  BY <1>0, <1>d, <1>16 DEF ShutdownScan, ShutdownOK
<1>17. CASE Curfew
  BY <1>b, <1>c, <1>d, <1>17 DEF Curfew
<1>18. CASE PickZombie
  <2> DEFINE s == Head(k.runq[First])
  <2>1. /\ Queued # {} /\ k.state[s] = "zombie" /\ k' = Release(Dequeued, s)
        /\ ctl' = ctl /\ ctl.at = "pick" /\ shutting' = shutting
    BY <1>18 DEF PickZombie
  <2>2. s \in Slot /\ s # c /\ QInv(Dequeued, {s}) /\ ~OnQueue(Dequeued, s)
    BY <1>0, <2>1, DequeueInv
  <2> HIDE DEF s
  <2>3. Dequeued \in Table /\ SameParts(k, Dequeued) /\ Dequeued.current = c
    BY <1>0, <2>1, FirstIs DEF SameParts, Dequeued, Table
  <2>4. TableInv(Dequeued, {}) /\ Dequeued.state = k.state
    BY <1>0, <2>3, SamePartsInv DEF SameParts
  <2>5. /\ QInv(k', {s} \ {s})
        /\ \A r \in Slot : k'.state[r] = IF r = s THEN "free" ELSE Dequeued.state[r]
        /\ k'.current = Dequeued.current
    BY <2>1, <2>2, <2>4, ReleaseInv
  <2>6. QInv(k', {})
    <3>1. {s} \ {s} = {}
      OBVIOUS
    <3> QED
      BY <2>5, <3>1
  <2>7. Ends(k, k')
    BY <2>4, <2>5 DEF Ends
  <2>8. ShutdownOK'
    BY <1>0, <2>1, <2>2, <2>3, <2>4, <2>5 DEF ShutdownOK, Live
  <2> QED
    BY <2>6, <2>7, <2>8
<1>19. CASE Dispatch
  <2> DEFINE n == Head(k.runq[First])
             t == [Dequeued EXCEPT !.ticks[n] = Quantum[k.level[n]]]
  <2>1. /\ Queued # {} /\ k.state[n] = "runnable" /\ ctl' = Run
        /\ k' = [(IF k.state[c] = "runnable"    THEN ToRunQueue(t, c)
                  ELSE IF k.state[c] = "zombie" THEN Release(t, c)
                  ELSE t) EXCEPT !.current = n]
    BY <1>19 DEF Dispatch
  <2>2. n \in Slot /\ n # c /\ QInv(Dequeued, {n}) /\ ~OnQueue(Dequeued, n)
    BY <1>0, <2>1, DequeueInv
  <2>3. Quantum[k.level[n]] \in Int
    <3>1. k.level[n] \in Level
      BY <1>0, <2>2 DEF Table
    <3> QED
      BY <3>1, QuantumAssumption
  <2>4. Dequeued \in Table /\ SameParts(k, Dequeued) /\ Dequeued.current = c
    BY <1>0, <2>1, FirstIs DEF SameParts, Dequeued, Table
  <2> HIDE DEF n
  <2>5. t \in Table /\ SameParts(Dequeued, t)
    BY <2>2, <2>3, <2>4 DEF SameParts, Table
  <2>6. /\ t.current = c /\ t.gen = Dequeued.gen /\ t.level = Dequeued.level
        /\ t.runq = Dequeued.runq /\ t.nprocs = Dequeued.nprocs
        /\ t.nrunnable = Dequeued.nrunnable
    BY <2>4 DEF Table
  <2> HIDE DEF t
  <2>7. TableInv(t, {}) /\ t.state = k.state
    BY <1>0, <2>4, <2>5, SamePartsInv DEF SameParts
  <2>8. QInv(t, {n}) /\ ~OnQueue(t, n)
    <3>1. QueuesOK(Dequeued, {n}) /\ Settled(Dequeued)
      BY <2>2 DEF QInv
    <3>2. t.state = Dequeued.state /\ t.current = Dequeued.current
      BY <2>4, <2>5, <2>6 DEF SameParts
    <3>3. QueuesOK(t, {n}) /\ ~OnQueue(t, n)
      BY <2>2, <2>6, <3>1, <3>2 DEF QueuesOK, OnePlace, RightPlace, HasPlace, OnQueue
    <3>4. Settled(t)
      BY <2>5, <2>6, <3>1 DEF SameParts, Settled, CountsOK, Runnables, Live, FreeListed, PidsOK,
                              AlarmOK, ReplyOK
    <3> QED
      BY <3>3, <3>4 DEF QInv
  <2>9. QInv(k', {}) /\ k'.current = n
        /\ \A r \in Slot : k'.state[r] = k.state[r] \/ (r = c /\ k'.state[r] = "free")
    <3>1. CASE k.state[c] = "zombie"
      <4> DEFINE u == Release(t, c)
      <4>1. k' = [u EXCEPT !.current = n] /\ t.state[c] = "zombie"
        BY <2>1, <2>7, <3>1
      <4>2. ~OnQueue(t, c)
        BY <2>6, <2>8 DEF QInv, QueuesOK, RightPlace, OnQueue
      <4>3. u \in Table
        BY <1>0, <2>5, ReleaseType
      <4>4. /\ QInv(u, {n} \ {c}) /\ u.runq = t.runq /\ u.current = c
            /\ \A r \in Slot : u.state[r] = IF r = c THEN "free" ELSE t.state[r]
        <5>1. c \in Slot /\ t.current = c
          BY <1>0, <2>6
        <5> QED
          BY <2>7, <2>8, <4>1, <4>2, <5>1, ReleaseInv
      <4> HIDE DEF u
      <4>5. {n} \ {c} = {n} /\ u.state[u.current] = "free" /\ ~OnQueue(u, n) /\ n # u.current
        BY <1>0, <2>2, <2>8, <4>4 DEF OnQueue
      <4>6. Switched(u, k', n)
        BY <4>1, <4>3, <4>5 DEF Switched, Table
      <4>7. QInv(k', {})
        BY <1>0, <2>2, <4>3, <4>4, <4>5, <4>6, SwitchInv
      <4> QED
        BY <2>7, <4>4, <4>6, <4>7 DEF Switched
    <3>2. CASE k.state[c] # "zombie"
      <4>1. k' = [(IF k.state[c] = "runnable" THEN ToRunQueue(t, c) ELSE t) EXCEPT !.current = n]
        BY <2>1, <3>2
      <4>2. Switched(t, k', n)
        <5>1. CASE k.state[c] = "runnable"
          BY <2>5, <2>6, <2>7, <4>1, <5>1 DEF Switched, ToRunQueue, Table
        <5>2. CASE k.state[c] # "runnable"
          BY <2>5, <2>6, <2>7, <4>1, <5>2 DEF Switched, Table
        <5> QED
          BY <5>1, <5>2
      <4>3. t.state[t.current] # "zombie" /\ n # t.current
        BY <2>2, <2>6, <2>7, <3>2
      <4>4. QInv(k', {})
        BY <1>0, <2>2, <2>5, <2>8, <4>2, <4>3, SwitchInv
      <4> QED
        BY <2>7, <4>2, <4>4 DEF Switched
    <3> QED
      BY <3>1, <3>2
  <2>10. Ends(k, k')
    BY <2>9 DEF Ends
  <2>11. k'.state[k'.current] # "free"
    BY <2>1, <2>2, <2>9
  <2> QED
    BY <1>b, <1>c, <2>1, <2>9, <2>10, <2>11
<1>20. CASE PickNone
  BY <1>b, <1>c, <1>d, <1>20 DEF PickNone
<1>21. CASE UNCHANGED vars
  BY <1>0, <1>d, <1>21 DEF vars, ShutdownOK
<1>22. CASE Halted
  BY <1>21, <1>22 DEF Halted
<1> QED
  BY <1>1, <1>2, <1>3, <1>4, <1>5, <1>6, <1>7, <1>8, <1>9, <1>10, <1>11, <1>12, <1>13,
     <1>14, <1>15, <1>16, <1>17, <1>18, <1>19, <1>20, <1>21, <1>22 DEF Next

-----------------------------------------------------------------------------
(* The properties the runs check.                                          *)

\* The inductive invariant of the queues, the counters and the pids holds in every state of
\* the process module.
THEOREM QueueInvCorrect == Spec => []QueueInv
<1>1. IInv /\ QueueInv /\ [Next]_vars => QueueInv'
  BY NextQueueInv
<1> QED
  BY <1>1, InitQueueInv, InvCorrect, PTL DEF Spec

\* How often something occurs in a sequence that has nothing twice.
LEMMA CountOnce ==
  ASSUME NEW q, NEW s, \A i, j \in 1..Len(q) : q[i] = s /\ q[j] = s => i = j
  PROVE  Count(q, s) = IF \E i \in 1..Len(q) : q[i] = s THEN 1 ELSE 0
<1>1. CASE \E i \in 1..Len(q) : q[i] = s
  <2>1. PICK i \in 1..Len(q) : q[i] = s
    BY <1>1
  <2>2. {j \in 1..Len(q) : q[j] = s} = {i}
    BY <2>1
  <2> QED
    BY <1>1, <2>2, FS_Singleton DEF Count
<1>2. CASE ~\E i \in 1..Len(q) : q[i] = s
  <2>1. {j \in 1..Len(q) : q[j] = s} = {}
    BY <1>2
  <2> QED
    BY <1>2, <2>1, FS_EmptySet DEF Count
<1> QED
  BY <1>1, <1>2

\* A process that can run, or that died while it could, is on exactly one run queue
\* exactly once, and no other process is on one: proc_set_runnable, proc_term,
\* proc_release and proc_yield keep it so in every interleaving with the interrupts.
THEOREM QueuedOnceCorrect == Spec => []QueuedOnce
<1>1. QueueInv /\ IInv => QueuedOnce
  <2> SUFFICES ASSUME QueueInv, IInv, NEW s \in Slot
               PROVE  LET on == {l \in Level : Count(k.runq[l], s) > 0}
                      IN  IF s # k.current /\ k.state[s] \in {"runnable", "zombie"}
                          THEN \E l \in Level : /\ on = {l} /\ Count(k.runq[l], s) = 1
                                                /\ k.state[s] = "runnable" => l = k.level[s]
                          ELSE on = {}
    BY DEF QueuedOnce
  <2> DEFINE On(l) == \E i \in 1..Len(k.runq[l]) : k.runq[l][i] = s
             on == {l \in Level : Count(k.runq[l], s) > 0}
  <2>1. OnePlace(k) /\ RightPlace(k) /\ HasPlace(k, {})
    BY DEF QueueInv, QInv, QueuesOK
  <2>2. ASSUME NEW l \in Level PROVE Count(k.runq[l], s) = IF On(l) THEN 1 ELSE 0
    <3>1. \A i, j \in 1..Len(k.runq[l]) : k.runq[l][i] = s /\ k.runq[l][j] = s => i = j
      BY <2>1 DEF OnePlace
    <3> QED
      BY <3>1, CountOnce
  <2>3. on = {l \in Level : On(l)}
    BY <2>2
  <2>4. \A l, m \in Level : On(l) /\ On(m) => l = m
    BY <2>1 DEF OnePlace
  <2>5. \A l \in Level : On(l) =>
          /\ s # k.current /\ k.state[s] \in {"runnable", "zombie"}
          /\ k.state[s] = "runnable" => l = k.level[s]
    BY <2>1 DEF RightPlace
  <2>6. CASE s # k.current /\ k.state[s] \in {"runnable", "zombie"}
    <3>1. PICK l \in Level : On(l)
      BY <2>1, <2>6 DEF HasPlace, OnQueue
    <3>2. on = {l}
      BY <2>3, <2>4, <3>1
    <3>3. Count(k.runq[l], s) = 1 /\ (k.state[s] = "runnable" => l = k.level[s])
      BY <2>2, <2>5, <3>1
    <3> QED
      BY <2>6, <3>2, <3>3
  <2>7. CASE ~(s # k.current /\ k.state[s] \in {"runnable", "zombie"})
    <3>1. on = {}
      BY <2>3, <2>5, <2>7
    <3> QED
      BY <2>7, <3>1
  <2> QED
    BY <2>6, <2>7
<1> QED
  BY <1>1, QueueInvCorrect, InvCorrect, PTL

\* proc_nprocs and proc_nrunnable, which seven functions keep up to date by hand, are
\* the number of live and of runnable processes, and every dead slot is on the free
\* list once.
THEOREM AccountingCorrect == Spec => []Accounting
<1>1. QueueInv /\ IInv => Accounting
  <2> SUFFICES ASSUME QueueInv, IInv PROVE Accounting
    OBVIOUS
  <2>1. CountsOK(k) /\ FreeListed(k) /\ FreeOK(k)
    BY DEF QueueInv, QInv, Settled, IInv, TableInv
  <2>2. ASSUME NEW s \in Slot PROVE Count(k.free, s) = IF s \in Live(k) THEN 0 ELSE 1
    <3>1. \A i, j \in 1..Len(k.free) : k.free[i] = s /\ k.free[j] = s => i = j
      BY <2>1 DEF FreeOK
    <3>2. Count(k.free, s) = IF \E i \in 1..Len(k.free) : k.free[i] = s THEN 1 ELSE 0
      BY <3>1, CountOnce
    <3>3. (\E i \in 1..Len(k.free) : k.free[i] = s) <=> k.state[s] = "free"
      BY <2>1 DEF FreeOK, FreeListed
    <3> QED
      BY <3>2, <3>3 DEF Live
  <2> QED
    BY <2>1, <2>2 DEF Accounting, CountsOK, Runnables
<1> QED
  BY <1>1, QueueInvCorrect, InvCorrect, PTL

\* A reply is only ever in the mailbox of the process that waits for it, alone and from
\* the server it asked: the assertions of proc_recv and sys_rpc hold.
THEOREM ReplyCorrect == Spec => []ReplyInv
<1>1. QueueInv => ReplyInv
  BY DEF QueueInv, QInv, Settled, ReplyOK, ReplyInv
<1> QED
  BY <1>1, QueueInvCorrect, PTL

\* Whoever stops waiting for a reply has got one or has lost its server: no alarm armed
\* by an earlier receive ends an RPC.
THEOREM RpcEndsCorrect == Spec => RpcEnds
<1>1. IInv /\ QueueInv /\ [Next]_vars
        => [\A s \in Slot :
              k.state[s] = "waiting" /\ k.recv[s] = "reply" /\ k'.state[s] = "runnable"
                => k'.msgs[s]["reply"] # <<>> \/ ~Alive(k', k.server[s])]_vars
  BY NextQueueInv DEF Ends
<1> QED
  BY <1>1, QueueInvCorrect, InvCorrect, PTL DEF Spec, RpcEnds

\* When the run queues are drained while the kernel shuts down, everybody but the current
\* process has been released and it is dead: the machine is switched off at once.
THEOREM ShutdownDrainsCorrect == Spec => []ShutdownDrains
<1>1. QueueInv /\ IInv => ShutdownDrains
  <2> SUFFICES ASSUME QueueInv, IInv, ctl.at = "pick", shutting, Queued = {}
               PROVE  k.nprocs = 1 /\ k.state[k.current] = "zombie"
    BY DEF ShutdownDrains
  <2>1. k \in Table /\ k.current \in Slot
    BY DEF IInv, TypeOK, Table
  <2>2. k.state[k.current] # "free" /\ \A s \in Live(k) : k.state[s] = "zombie"
    BY DEF QueueInv, ShutdownOK
  <2>3. \A s \in Slot : ~OnQueue(k, s)
    BY DEF Queued, OnQueue
  <2>4. Live(k) = {k.current}
    BY <2>1, <2>2, <2>3 DEF QueueInv, QInv, QueuesOK, HasPlace, Live
  <2>5. k.nprocs = 1
    BY <2>4, FS_Singleton DEF QueueInv, QInv, Settled, CountsOK
  <2> QED
    BY <2>2, <2>4, <2>5
<1> QED
  BY <1>1, QueueInvCorrect, InvCorrect, PTL

=============================================================================
