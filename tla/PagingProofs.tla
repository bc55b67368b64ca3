---------------------------- MODULE PagingProofs ----------------------------
(* Theorems about virtual memory, for any number of processes, pages,      *)
(* frames and entries of the TLB.                                          *)
EXTENDS Paging, WellFoundedInduction, FiniteSetTheorems, TLAPS, SequenceTheorems

-----------------------------------------------------------------------------
(* Sets of natural numbers.                                                *)

\* A nonempty set of natural numbers has a least element: a loop that looks for
\* the first of something finds it, if it is there.
LEMMA Least ==
  ASSUME NEW S \in SUBSET Nat, S # {}
  PROVE  \E x \in S : \A y \in S : x <= y
<1>1. PICK x \in S : \A y \in S : ~(<<y, x>> \in OpToRel(<, Nat))
  BY NatLessThanWellFounded, WFMin, Zenon
<1>2. \A y \in S : ~(y < x)
  BY <1>1 DEF OpToRel
<1> QED
  BY <1>2

LEMMA SubsetFinite ==
  ASSUME NEW N \in Nat, NEW S \in SUBSET (1..N)
  PROVE  IsFiniteSet(S) /\ Cardinality(S) \in Nat
<1>1. IsFiniteSet(1..N)
  BY FS_Interval
<1> QED
  BY <1>1, FS_Subset, FS_CardinalityType

\* Every set of numbers up to N can be enumerated in ascending order, as a loop over a
\* table does.  Argument: a smallest set without such an enumeration has a largest
\* element, and the enumeration of the others can be extended with it.
LEMMA AscendingExists ==
  ASSUME NEW N \in Nat, NEW S \in SUBSET (1..N)
  PROVE  \E q \in [1..Cardinality(S) -> S] : \A i, j \in 1..Cardinality(S) : i < j => q[i] < q[j]
<1> DEFINE Sorted(T, n) == \E q \in [1..n -> T] : \A i, j \in 1..n : i < j => q[i] < q[j]
           Bad == {n \in Nat : \E T \in SUBSET (1..N) : Cardinality(T) = n /\ ~Sorted(T, n)}
<1> HIDE DEF Bad
<1>1. ASSUME Bad # {} PROVE FALSE
  <2>1. Bad \in SUBSET Nat
    BY DEF Bad
  <2>2. PICK n \in Bad : \A m \in Bad : n <= m
    BY <2>1, <1>1, Least
  <2>3. PICK T \in SUBSET (1..N) : Cardinality(T) = n /\ ~Sorted(T, n)
    BY <2>2 DEF Bad
  <2>4. IsFiniteSet(T) /\ n \in Nat
    BY <2>3, SubsetFinite
  <2>5. T # {}
    <3>1. ASSUME T = {} PROVE FALSE
      <4>1. n = 0
        BY <3>1, <2>3, FS_EmptySet
      <4>2. [i \in 1..0 |-> i] \in [1..0 -> T]
        OBVIOUS
      <4>3. Sorted(T, 0)
        BY <4>2
      <4> QED
        BY <4>1, <4>3, <2>3
    <3> QED
      BY <3>1
  <2>6. PICK m \in T : \A y \in T : y <= m
    <3> DEFINE U == {N - s : s \in T}
    <3>0. \A s \in T : N - s \in Nat
      OBVIOUS
    <3>1. U \in SUBSET Nat /\ U # {}
      BY <3>0, <2>5
    <3>2. PICK x \in U : \A y \in U : x <= y
      BY <3>1, Least
    <3>3. PICK s \in T : x = N - s
      BY <3>2
    <3>4. \A y \in T : N - y \in U
      OBVIOUS
    <3>5. \A y \in T : N - s <= N - y
      BY <3>2, <3>3, <3>4
    <3> QED
      BY <3>3, <3>5
  <2>7. Cardinality(T \ {m}) = n - 1 /\ n - 1 \in Nat
    <3>1. Cardinality(T \ {m}) = n - 1
      BY <2>3, <2>4, <2>6, FS_RemoveElement
    <3>2. Cardinality(T \ {m}) \in Nat
      BY SubsetFinite
    <3> QED
      BY <3>1, <3>2
  <2>8. n - 1 \notin Bad
    BY <2>2, <2>4, <2>1
  <2>9. Sorted(T \ {m}, n - 1)
    BY <2>7, <2>8 DEF Bad
  <2>10. PICK q \in [1..(n - 1) -> T \ {m}] : \A i, j \in 1..(n - 1) : i < j => q[i] < q[j]
    BY <2>9
  <2> DEFINE r == [i \in 1..n |-> IF i = n THEN m ELSE q[i]]
  <2>11. \A y \in T : y \in Int
    BY <2>3
  <2>12. r \in [1..n -> T]
    BY <2>4, <2>6, <2>10
  <2>13. ASSUME NEW i \in 1..n, NEW j \in 1..n, i < j PROVE r[i] < r[j]
    <3>1. i \in 1..(n - 1) /\ r[i] = q[i]
      BY <2>4, <2>13
    <3>2. CASE j = n
      <4>1. q[i] \in T /\ q[i] # m
        BY <3>1, <2>10
      <4>2. q[i] <= m
        BY <4>1, <2>6
      <4>3. q[i] \in Int /\ m \in Int
        BY <4>1, <2>11
      <4>4. q[i] < m
        BY <4>1, <4>2, <4>3
      <4>5. r[j] = m
        BY <3>2
      <4>6. r[i] < r[j]
        BY <3>1, <4>4, <4>5
      <4> QED
        BY <4>6
    <3>3. CASE j # n
      BY <3>1, <3>3, <2>4, <2>10, <2>13
    <3> QED
      BY <3>2, <3>3
  <2>14. Sorted(T, n)
    BY <2>12, <2>13
  <2> QED
    BY <2>3, <2>14
<1>2. Sorted(S, Cardinality(S))
  BY <1>1, SubsetFinite DEF Bad
<1> QED
  BY <1>2

\* An ascending enumeration has every element, and each once.
LEMMA AscendingAll ==
  ASSUME NEW N \in Nat, NEW S \in SUBSET (1..N), NEW q \in [1..Cardinality(S) -> S],
         \A i, j \in 1..Cardinality(S) : i < j => q[i] < q[j]
  PROVE  /\ \A i, j \in 1..Cardinality(S) : q[i] = q[j] => i = j
         /\ \A s \in S : \E i \in 1..Cardinality(S) : q[i] = s
<1> DEFINE n == Cardinality(S)
<1>1. n \in Nat /\ IsFiniteSet(S)
  BY SubsetFinite
<1>2. q \in [1..n -> S] /\ \A i, j \in 1..n : i < j => q[i] < q[j]
  OBVIOUS
<1>3. \A s \in S : s \in Int
  OBVIOUS
<1> HIDE DEF n
<1>4. \A i, j \in 1..n : q[i] = q[j] => i = j
  <2> SUFFICES ASSUME NEW i \in 1..n, NEW j \in 1..n, q[i] = q[j], i # j PROVE FALSE
    OBVIOUS
  <2>1. i < j \/ j < i
    BY <1>1
  <2>2. q[i] < q[j] \/ q[j] < q[i]
    BY <1>2, <2>1
  <2>3. q[i] \in Int
    BY <1>2, <1>3
  <2> QED
    BY <2>2, <2>3
<1>5. q \in Injection(1..n, S)
  BY <1>2, <1>4 DEF Injection, IsInjective
<1>6. IsFiniteSet(1..n) /\ Cardinality(1..n) = n
  BY <1>1, FS_Interval
<1>7. q \in Surjection(1..n, S)
  BY <1>1, <1>5, <1>6, FS_Injection DEF n
<1>8. \A s \in S : \E i \in 1..n : q[i] = s
  BY <1>7 DEF Surjection
<1> QED
  BY <1>4, <1>8 DEF n

-----------------------------------------------------------------------------
(* The inductive invariant.                                                *)

Step == [op : {"in", "out", "fault", "read", "wait", "exit"},
         page : Page \cup {0}, write : BOOLEAN]

Types == TypeOK /\ todo \in [Procs -> Seq(Step)]

\* The process waits for the contents of page v, which has its frame.
Pending(p, v) == todo[p] # <<>> /\ Head(todo[p]).op = "read" /\ Head(todo[p]).page = v

\* What the page of a new process holds.
Initial(v) == IF v \in InExec THEN Program[v] ELSE Zero

\* Only the first step can be the reading of a page, a page of the executable.
Good(p, q) ==
  \A i \in 1..Len(q) :
    /\ q[i].op \in {"in", "out", "fault", "read"} => q[i].page \in Page
    /\ q[i].op = "read" => i = 1 /\ q[i].page \in InExec /\ pages[p][q[i].page] # Uninit

TodoOK == \A p \in Procs : (todo[p] # <<>> => Live(p)) /\ Good(p, todo[p])

\* A process that has not run has no pages, and will wait for its header first.
FreshOK ==
  /\ cur \notin fresh
  /\ \A p \in fresh : Live(p) =>
       /\ \A v \in Page : pages[p][v] = Uninit
       /\ todo[p] # <<>> /\ Head(todo[p]).op = "wait"

\* Frames have one owner: a page of a live process, or the list of free frames.
Owned ==
  /\ \A p, q \in Procs : \A v, w \in Page :
       Live(p) /\ Live(q) /\ pages[p][v] = pages[q][w] /\ pages[p][v] # Uninit => p = q /\ v = w
  /\ \A i, j \in 1..Len(free) : free[i] = free[j] => i = j
  /\ \A p \in Procs : \A v \in Page : \A i \in 1..Len(free) : Live(p) => free[i] # pages[p][v]
  /\ \A f \in Frame : \/ \E i \in 1..Len(free) : free[i] = f
                      \/ \E p \in Procs : \E v \in Page : Live(p) /\ pages[p][v] = f

OneEntry ==
  \A i, j \in Entry :
    tlb[i].phys # 0 /\ tlb[j].phys # 0 /\ tlb[i].virt = tlb[j].virt => i = j

\* An entry shows a page of some live process.
EntryOwned ==
  \A i \in Entry : tlb[i].phys # 0 =>
    \E p \in Procs : Live(p) /\ pages[p][tlb[i].virt] = tlb[i].phys

\* The process has run, and no other process has used the TLB since it was switched to.  A new
\* process, whose start does not flush the TLB, is none of these until it is resumed.
UsesTlb(p) ==
  \/ state[p] = "runnable" /\ (todo[p] = <<>> \/ Head(todo[p]).op # "wait")
  \/ Live(p) /\ \E v \in Page : pages[p][v] # Uninit

\* Then all entries are its own.
OwnTlb ==
  cur \in Procs /\ UsesTlb(cur) =>
    \A i \in Entry : tlb[i].phys # 0 => pages[cur][tlb[i].virt] = tlb[i].phys

\* A frame that is being filled is in no entry.
ReadUnmapped ==
  \A p \in Procs : \A v \in Page : Pending(p, v) =>
    \A i \in Entry : tlb[i].phys # 0 => tlb[i].phys # pages[p][v]

\* A page without contents of its own is as the process found it.
Untouched ==
  \A p \in Procs : \A v \in Page :
    Live(p) /\ (pages[p][v] = Uninit \/ Pending(p, v)) => mem[p][v] = Initial(v)

Has(p, v) == Live(p) /\ pages[p][v] # Uninit /\ ~Pending(p, v)

InFrame(p, v) == frames[pages[p][v]] = mem[p][v]

\* The memory of a process is in its frames, except that of a page which is in the TLB and may be
\* written: that is in the page.
Kept ==
  \A p \in Procs : \A v \in Page : Has(p, v) =>
    /\ \A i \in Entry : tlb[i].phys = pages[p][v] =>
         virt[tlb[i].virt] = mem[p][v] /\ (~tlb[i].write => InFrame(p, v))
    /\ (\A i \in Entry : tlb[i].phys # pages[p][v]) => InFrame(p, v)
    /\ p # cur => InFrame(p, v)

Memory == Owned /\ OneEntry /\ EntryOwned /\ OwnTlb /\ ReadUnmapped /\ Untouched /\ Kept

Inv == Types /\ TodoOK /\ FreshOK /\ Memory

-----------------------------------------------------------------------------
(* The operators of the model.                                             *)

LEMMA NumbersAre ==
  /\ NPages \in Nat /\ NFrames \in Nat /\ TlbSize \in Nat /\ Uninit \notin Frame /\ 0 \notin Page
  /\ \A v \in Page : v \in Nat
  /\ \A f \in Frame : f \in Nat
  /\ 1 \in Entry /\ \A i \in Entry : (i % TlbSize) + 1 \in Entry
<1>1. NPages \in Nat /\ NFrames \in Nat /\ TlbSize \in Nat \ {0}
  BY SizeAssumption
<1> QED
  BY <1>1 DEF Page, Frame, Entry, Uninit

LEMMA HeadTail ==
  ASSUME NEW E, NEW q \in Seq(E), q # <<>>
  PROVE  /\ Head(q) \in E /\ Tail(q) \in Seq(E) /\ Head(q) = q[1] /\ Len(q) \in Nat \ {0}
         /\ Len(Tail(q)) = Len(q) - 1
         /\ \A i \in 1..Len(Tail(q)) : Tail(q)[i] = q[i + 1] /\ i + 1 \in 1..Len(q) /\ i + 1 # 1
  OBVIOUS

LEMMA Prepend ==
  ASSUME NEW E, NEW q \in Seq(E), NEW x \in E
  PROVE  /\ <<x>> \o q \in Seq(E) /\ <<x>> \o q # <<>> /\ Head(<<x>> \o q) = x
         /\ (<<x>> \o q)[1] = x /\ Len(<<x>> \o q) = Len(q) + 1
         /\ \A i \in 2..Len(<<x>> \o q) : (<<x>> \o q)[i] = q[i - 1] /\ i - 1 \in 1..Len(q)
  OBVIOUS

LEMMA TlbIs ==
  ASSUME Types, NEW i \in Entry
  PROVE  /\ tlb[i].phys \in Frame \cup {0} /\ tlb[i].write \in BOOLEAN
         /\ tlb[i].phys # 0 => tlb[i].virt \in Page
         /\ tlb[i].write => tlb[i].phys # 0
<1> DEFINE t == tlb[i]
<1>1. t \in [virt : Page, phys : Frame, write : BOOLEAN] \cup {Unused}
  BY DEF Types, TypeOK
<1>2. /\ t.phys \in Frame \cup {0} /\ t.write \in BOOLEAN
      /\ t.phys # 0 => t.virt \in Page
      /\ t.write => t.phys # 0
  <2> HIDE DEF t
  <2>1. CASE t = Unused
    BY <2>1 DEF Unused
  <2>2. CASE t \in [virt : Page, phys : Frame, write : BOOLEAN]
    BY <2>2, NumbersAre DEF Frame
  <2> QED
    BY <1>1, <2>1, <2>2
<1> QED
  BY <1>2

\* The entry that the page of a writable frame is in is written back.
LEMMA SyncedIs ==
  ASSUME Types, NEW E \in SUBSET Entry, NEW content \in [Page -> Values]
  PROVE  /\ Synced(E, content) \in [Frame -> Values]
         /\ \A f \in Frame :
              \/ \E i \in E : /\ tlb[i].phys = f /\ tlb[i].write
                              /\ Synced(E, content)[f] = content[tlb[i].virt]
              \/ /\ \A i \in E : tlb[i].phys = f => ~tlb[i].write
                 /\ Synced(E, content)[f] = frames[f]
<1>1. ASSUME NEW f \in Frame
      PROVE  /\ Synced(E, content)[f] \in Values
             /\ \/ \E i \in E : /\ tlb[i].phys = f /\ tlb[i].write
                                /\ Synced(E, content)[f] = content[tlb[i].virt]
                \/ /\ \A i \in E : tlb[i].phys = f => ~tlb[i].write
                   /\ Synced(E, content)[f] = frames[f]
  <2> DEFINE D == {i \in E : tlb[i].phys = f /\ tlb[i].write}
  <2>1. Synced(E, content)[f] = IF D = {} THEN frames[f] ELSE content[tlb[CHOOSE i \in D : TRUE].virt]
    BY DEF Synced
  <2>2. CASE D = {}
    BY <2>1, <2>2 DEF Types, TypeOK
  <2>3. CASE D # {}
    <3> DEFINE i == CHOOSE i \in D : TRUE
    <3>1. i \in D
      BY <2>3
    <3> HIDE DEF i
    <3>2. i \in E /\ tlb[i].phys = f /\ tlb[i].write /\ tlb[i].virt \in Page
      BY <3>1, NumbersAre, TlbIs
    <3>3. Synced(E, content)[f] = content[tlb[i].virt]
      BY <2>1, <2>3 DEF i
    <3> QED
      BY <3>2, <3>3
  <2> QED
    BY <2>2, <2>3
<1>2. Synced(E, content) \in [Frame -> Values]
  BY <1>1 DEF Synced
<1> QED
  BY <1>1, <1>2

\* The frames of a process: each once.
LEMMA FramesOfIs ==
  ASSUME Types, NEW p \in Procs
  PROVE  /\ FramesOf(p) \in Seq(Frame)
         /\ \A i \in 1..Len(FramesOf(p)) :
              \E v \in Page : pages[p][v] # Uninit /\ FramesOf(p)[i] = pages[p][v]
         /\ \A v \in Page : pages[p][v] # Uninit =>
              \E i \in 1..Len(FramesOf(p)) : FramesOf(p)[i] = pages[p][v]
         /\ (\A v, w \in Page : pages[p][v] # Uninit /\ pages[p][v] = pages[p][w] => v = w) =>
              \A i, j \in 1..Len(FramesOf(p)) : FramesOf(p)[i] = FramesOf(p)[j] => i = j
<1> DEFINE S == {v \in Page : pages[p][v] # Uninit}
           n == Cardinality(S)

           r == CHOOSE q \in [1..n -> S] : \A i, j \in 1..n : i < j => q[i] < q[j]
<1>1. S \in SUBSET (1..NPages) /\ NPages \in Nat
  BY NumbersAre DEF Page
<1>2. n \in Nat /\ \E q \in [1..n -> S] : \A i, j \in 1..n : i < j => q[i] < q[j]
  BY <1>1, SubsetFinite, AscendingExists
<1>3. r \in [1..n -> S] /\ \A i, j \in 1..n : i < j => r[i] < r[j]
  BY <1>2
<1>4. FramesOf(p) = [i \in 1..n |-> pages[p][r[i]]]
  BY DEF FramesOf
<1> HIDE DEF r
<1> HIDE DEF S
<1>5. /\ \A i, j \in 1..n : r[i] = r[j] => i = j
      /\ \A s \in S : \E i \in 1..n : r[i] = s
  <2>1. /\ r \in [1..Cardinality(S) -> S]
        /\ \A i, j \in 1..Cardinality(S) : i < j => r[i] < r[j]
    BY <1>3
  <2>2. /\ \A i, j \in 1..Cardinality(S) : r[i] = r[j] => i = j
        /\ \A s \in S : \E i \in 1..Cardinality(S) : r[i] = s
    BY <1>1, <2>1, AscendingAll, ZenonT(30)
  <2> QED
    BY <2>2
<1> USE DEF S
<1>6. \A v \in S : v \in Page /\ pages[p][v] \in Frame /\ pages[p][v] # Uninit
  BY DEF Types, TypeOK
<1>7. \A v \in Page : pages[p][v] # Uninit => v \in S
  OBVIOUS
<1> HIDE DEF S, n
<1>8. FramesOf(p) \in Seq(Frame) /\ Len(FramesOf(p)) = n
  BY <1>2, <1>3, <1>4, <1>6
<1>9. \A i \in 1..n : FramesOf(p)[i] = pages[p][r[i]] /\ r[i] \in S
  BY <1>3, <1>4
<1> QED
  BY <1>5, <1>6, <1>7, <1>8, <1>9

\* What tlb_map() has done when it has used entry i.
Mapping(i, v, f, filled, content, write) ==
  /\ \A j \in Entry \ {i} : tlb[j].phys # 0 => tlb[j].virt # v
  /\ Mapped(v) => tlb[i].virt = v /\ tlb[i].phys # 0
  /\ tlb' = [tlb EXCEPT ![i] = [virt |-> v, phys |-> f, write |-> write]]
  /\ frames' = [g \in Frame |-> IF filled /\ g = f THEN content ELSE Synced({i}, virt)[g]]
  /\ virt' = [virt EXCEPT ![v] = frames'[f]]
  /\ index' \in Entry

LEMMA TlbMapIs ==
  ASSUME Types, OneEntry, NEW v \in Page, NEW f \in Frame, NEW filled, NEW content, NEW write,
         TlbMap(v, f, filled, content, write)
  PROVE  \E i \in Entry : Mapping(i, v, f, filled, content, write)
<1> DEFINE i == IF Mapped(v) THEN CHOOSE j \in EntriesOf(v) : TRUE ELSE index
<1>1. /\ frames' = [g \in Frame |-> IF filled /\ g = f THEN content ELSE Synced({i}, virt)[g]]
      /\ virt' = [virt EXCEPT ![v] = frames'[f]]
      /\ tlb' = [tlb EXCEPT ![i] = [virt |-> v, phys |-> f, write |-> write]]
      /\ index' = IF Mapped(v) THEN index ELSE (index % TlbSize) + 1
  BY DEF TlbMap
<1>2. index \in Entry
  BY DEF Types, TypeOK
<1>3. index' \in Entry
  BY <1>1, <1>2, NumbersAre
<1>4. CASE Mapped(v)
  <2>1. i \in EntriesOf(v)
    BY <1>4 DEF Mapped
  <2>2. i \in Entry /\ tlb[i].virt = v /\ tlb[i].phys # 0
    BY <2>1 DEF EntriesOf
  <2> HIDE DEF i
  <2>3. \A j \in Entry \ {i} : tlb[j].phys # 0 => tlb[j].virt # v
    BY <2>2 DEF OneEntry
  <2> QED
    BY <1>1, <1>3, <2>2, <2>3 DEF Mapping
<1>5. CASE ~Mapped(v)
  <2>1. i = index
    BY <1>5
  <2> HIDE DEF i
  <2>2. \A j \in Entry \ {i} : tlb[j].phys # 0 => tlb[j].virt # v
    BY <1>5 DEF Mapped, EntriesOf
  <2> QED
    BY <1>1, <1>2, <1>3, <1>5, <2>1, <2>2 DEF Mapping
<1> QED
  BY <1>4, <1>5
-----------------------------------------------------------------------------
(* What keeps the memory.                                                  *)

\* Writing entries back loses nothing.
LEMMA SyncKeeps ==
  ASSUME Types, Kept, NEW E \in SUBSET Entry, NEW p \in Procs, NEW v \in Page, Has(p, v)
  PROVE  /\ InFrame(p, v) => Synced(E, virt)[pages[p][v]] = mem[p][v]
         /\ (\E i \in E : tlb[i].phys = pages[p][v]) => Synced(E, virt)[pages[p][v]] = mem[p][v]
         /\ E = Entry => Synced(E, virt)[pages[p][v]] = mem[p][v]
<1> DEFINE f == pages[p][v]
           c == Synced(E, virt)[f]
<1>1. f \in Frame /\ virt \in [Page -> Values]
  BY DEF Types, TypeOK, Has
<1>2. \/ \E i \in E : /\ tlb[i].phys = f /\ tlb[i].write
                      /\ c = virt[tlb[i].virt]
      \/ /\ \A i \in E : tlb[i].phys = f => ~tlb[i].write
         /\ c = frames[f]
  BY <1>1, SyncedIs
<1>3. /\ \A i \in Entry : tlb[i].phys = f =>
           virt[tlb[i].virt] = mem[p][v] /\ (~tlb[i].write => frames[f] = mem[p][v])
      /\ (\A i \in Entry : tlb[i].phys # f) => frames[f] = mem[p][v]
      /\ InFrame(p, v) <=> frames[f] = mem[p][v]
  BY DEF Kept, InFrame
<1> HIDE DEF c, f
<1>4. /\ InFrame(p, v) => c = mem[p][v]
      /\ (\E i \in E : tlb[i].phys = f) => c = mem[p][v]
      /\ E = Entry => c = mem[p][v]
  BY <1>2, <1>3
<1> QED
  BY <1>4 DEF c, f

\* No entry is new.
Fewer == \A i \in Entry : tlb'[i] = tlb[i] \/ tlb'[i] = Unused

FewerProcs ==
  \A p \in Procs : /\ Live(p)' => Live(p)
                   /\ \A v \in Page : /\ Pending(p, v)' => Pending(p, v)
                                      /\ Has(p, v)' => Has(p, v)

LEMMA FewerKeeps ==
  ASSUME Memory, Fewer, FewerProcs, UNCHANGED <<pages, mem>>
  PROVE  OneEntry' /\ ReadUnmapped' /\ Untouched'
<1>1. OneEntry'
  BY DEF Memory, OneEntry, Fewer, Unused
<1>2. ReadUnmapped'
  BY DEF Memory, ReadUnmapped, Fewer, FewerProcs, Unused
<1>3. Untouched'
  BY DEF Memory, Untouched, FewerProcs, Initial
<1> QED
  BY <1>1, <1>2, <1>3

\* All pages are written back.
LEMMA SyncStep ==
  ASSUME Types, Kept, Fewer, FewerProcs, UNCHANGED <<pages, virt, mem>>,
         frames' = Synced(Entry, virt)
  PROVE  Kept'
<1> SUFFICES ASSUME NEW p \in Procs, NEW v \in Page, Has(p, v)'
             PROVE  /\ InFrame(p, v)'
                    /\ \A i \in Entry : tlb'[i].phys = pages'[p][v] =>
                         virt'[tlb'[i].virt] = mem'[p][v]
  BY DEF Kept
<1>1. Has(p, v)
  BY DEF FewerProcs
<1>2. InFrame(p, v)'
  BY <1>1, SyncKeeps DEF InFrame
<1>3. ASSUME NEW i \in Entry, tlb'[i].phys = pages'[p][v]
      PROVE  virt'[tlb'[i].virt] = mem'[p][v]
  <2>1. tlb'[i] = tlb[i]
    BY <1>1, <1>3 DEF Fewer, Unused, Has, Uninit
  <2> QED
    BY <1>1, <1>3, <2>1 DEF Kept
<1> QED
  BY <1>2, <1>3

\* The kernel does something else.
SameProcs ==
  \A p \in Procs : /\ Live(p)' <=> Live(p)
                   /\ \A v \in Page : Pending(p, v)' <=> Pending(p, v)

SameUser == cur' = cur /\ (cur \in Procs /\ UsesTlb(cur)' => UsesTlb(cur))

LEMMA FramesKept ==
  ASSUME Owned, SameProcs, UNCHANGED <<pages, free>>
  PROVE  Owned'
BY DEF Owned, SameProcs

LEMMA EntriesKept ==
  ASSUME EntryOwned, OwnTlb, SameProcs, SameUser, Fewer, UNCHANGED pages
  PROVE  EntryOwned' /\ OwnTlb'
<1>1. EntryOwned'
  <2> SUFFICES ASSUME NEW i \in Entry, tlb'[i].phys # 0
               PROVE  \E p \in Procs : Live(p)' /\ pages'[p][tlb'[i].virt] = tlb'[i].phys
    BY DEF EntryOwned
  <2>1. tlb'[i] = tlb[i]
    BY DEF Fewer, Unused
  <2>2. PICK p \in Procs : Live(p) /\ pages[p][tlb[i].virt] = tlb[i].phys
    BY <2>1 DEF EntryOwned
  <2> QED
    BY <2>1, <2>2 DEF SameProcs
<1>2. OwnTlb'
  <2> SUFFICES ASSUME cur' \in Procs, UsesTlb(cur)', NEW i \in Entry, tlb'[i].phys # 0
               PROVE  pages'[cur'][tlb'[i].virt] = tlb'[i].phys
    BY DEF OwnTlb
  <2>1. tlb'[i] = tlb[i]
    BY DEF Fewer, Unused
  <2>2. cur' = cur /\ UsesTlb(cur) /\ cur \in Procs
    BY DEF SameUser
  <2> QED
    BY <2>1, <2>2 DEF OwnTlb
<1> QED
  BY <1>1, <1>2

LEMMA QuietStep ==
  ASSUME Types, Memory, SameProcs, SameUser,
         UNCHANGED <<pages, frames, free, tlb, virt, mem>>
  PROVE  Memory'
<1>1. Fewer /\ FewerProcs
  BY DEF Fewer, FewerProcs, SameProcs, Has
<1>2. Owned' /\ EntryOwned' /\ OwnTlb'
  BY <1>1, FramesKept, EntriesKept DEF Memory
<1>3. OneEntry' /\ ReadUnmapped' /\ Untouched'
  BY <1>1, FewerKeeps
<1>4. Kept'
  BY <1>1 DEF Memory, Kept, FewerProcs, InFrame, SameUser
<1> QED
  BY <1>2, <1>3, <1>4 DEF Memory

\* The current process gets frame f for page v, or had it; the frame is filled with the contents
\* of the page, if nothing was in it.
Gets(v, f, filled, content) ==
  /\ cur \in Procs /\ f \in Frame /\ UsesTlb(cur) /\ Live(cur)
  /\ cur' = cur /\ mem' = mem
  /\ \A p \in Procs : Live(p)' <=> Live(p)
  /\ pages'[cur][v] = f /\ ~Pending(cur, v)'
  /\ \A p \in Procs : \A w \in Page : p # cur \/ w # v =>
       /\ pages'[p][w] = pages[p][w]
       /\ Pending(p, w)' => Pending(p, w)
       /\ Has(p, w)' => Has(p, w)
       /\ Live(p) => pages[p][w] # f
  /\ filled => content = mem[cur][v] /\ \A j \in Entry : tlb[j].phys # f
  /\ ~filled => Has(cur, v) /\ pages[cur][v] = f

LEMMA MapEntries ==
  ASSUME Types, Memory, TodoOK, NEW i \in Entry, NEW v \in Page, NEW f, NEW filled, NEW content, NEW write,
         Mapping(i, v, f, filled, content, write), Gets(v, f, filled, content)
  PROVE  /\ tlb'[i].virt = v /\ tlb'[i].phys = f /\ tlb'[i].write = write /\ f \in Frame /\ f # 0
         /\ \A j \in Entry : j # i => tlb'[j] = tlb[j]
         /\ \A j \in Entry : j # i /\ tlb[j].phys # 0 =>
              /\ pages[cur][tlb[j].virt] = tlb[j].phys /\ tlb[j].virt # v /\ tlb[j].virt \in Page
              /\ tlb[j].phys # f
<1>1. /\ tlb'[i].virt = v /\ tlb'[i].phys = f /\ tlb'[i].write = write /\ f \in Frame /\ f # 0
      /\ \A j \in Entry : j # i => tlb'[j] = tlb[j]
  BY NumbersAre DEF Mapping, Types, TypeOK, Gets, Uninit
<1>2. ASSUME NEW j \in Entry, j # i, tlb[j].phys # 0
      PROVE  /\ pages[cur][tlb[j].virt] = tlb[j].phys /\ tlb[j].virt # v /\ tlb[j].virt \in Page
             /\ tlb[j].phys # f
  <2>1. tlb[j].virt \in Page
    BY <1>2, TlbIs
  <2>2. tlb[j].virt # v
    BY <1>2 DEF Mapping
  <2>3. pages[cur][tlb[j].virt] = tlb[j].phys
    BY <1>2 DEF Memory, OwnTlb, Gets
  <2>4. pages[cur][tlb[j].virt] # f
    BY <2>1, <2>2 DEF Gets
  <2> QED
    BY <2>1, <2>2, <2>3, <2>4
<1> QED
  BY <1>1, <1>2

LEMMA MapFrames ==
  ASSUME Types, Memory, TodoOK, NEW i \in Entry, NEW v \in Page, NEW f, NEW filled, NEW content, NEW write,
         Mapping(i, v, f, filled, content, write), Gets(v, f, filled, content)
  PROVE  /\ frames'[f] = mem[cur][v] /\ virt'[v] = mem[cur][v]
         /\ \A w \in Page : w # v => virt'[w] = virt[w]
         /\ \A p \in Procs : \A w \in Page : Has(p, w) /\ pages[p][w] # f =>
              /\ InFrame(p, w) => frames'[pages[p][w]] = mem[p][w]
              /\ tlb[i].phys = pages[p][w] => frames'[pages[p][w]] = mem[p][w]
<1>1. /\ frames' = [g \in Frame |-> IF filled /\ g = f THEN content ELSE Synced({i}, virt)[g]]
      /\ virt' = [virt EXCEPT ![v] = frames'[f]]
      /\ f \in Frame /\ virt \in [Page -> Values] /\ Kept
  BY DEF Mapping, Gets, Types, TypeOK, Memory
<1>2. frames'[f] = mem[cur][v]
  <2>1. CASE filled
    BY <1>1, <2>1 DEF Gets
  <2>2. CASE ~filled
    <3>1. frames'[f] = Synced({i}, virt)[f] /\ f = pages[cur][v] /\ Has(cur, v) /\ cur \in Procs
      BY <1>1, <2>2 DEF Gets
    <3>2. CASE tlb[i].phys = f
      BY <1>1, <3>1, <3>2, SyncKeeps
    <3>3. CASE tlb[i].phys # f
      <4>1. \A j \in Entry : tlb[j].phys # f
        BY <3>3, MapEntries
      <4>2. InFrame(cur, v)
        BY <1>1, <3>1, <4>1 DEF Kept
      <4> QED
        BY <1>1, <3>1, <4>2, SyncKeeps
    <3> QED
      BY <3>2, <3>3
  <2> QED
    BY <2>1, <2>2
<1>3. virt'[v] = mem[cur][v] /\ \A w \in Page : w # v => virt'[w] = virt[w]
  BY <1>1, <1>2
<1>4. ASSUME NEW p \in Procs, NEW w \in Page, Has(p, w), pages[p][w] # f
      PROVE  /\ InFrame(p, w) => frames'[pages[p][w]] = mem[p][w]
             /\ tlb[i].phys = pages[p][w] => frames'[pages[p][w]] = mem[p][w]
  <2>1. pages[p][w] \in Frame
    BY <1>4 DEF Has, Types, TypeOK
  <2>2. frames'[pages[p][w]] = Synced({i}, virt)[pages[p][w]]
    BY <1>1, <1>4, <2>1
  <2> QED
    BY <1>1, <1>4, <2>2, SyncKeeps
<1> QED
  BY <1>2, <1>3, <1>4

\* What tlb_map() keeps.
LEMMA MapStep ==
  ASSUME Types, Memory, TodoOK, NEW i \in Entry, NEW v \in Page, NEW f, NEW filled, NEW content, NEW write,
         Mapping(i, v, f, filled, content, write), Gets(v, f, filled, content)
  PROVE  OneEntry' /\ EntryOwned' /\ OwnTlb' /\ ReadUnmapped' /\ Untouched' /\ Kept'
<1>1. /\ tlb'[i].virt = v /\ tlb'[i].phys = f /\ tlb'[i].write = write /\ f \in Frame /\ f # 0
      /\ \A j \in Entry : j # i => tlb'[j] = tlb[j]
      /\ \A j \in Entry : j # i /\ tlb[j].phys # 0 =>
           /\ pages[cur][tlb[j].virt] = tlb[j].phys /\ tlb[j].virt # v /\ tlb[j].virt \in Page
           /\ tlb[j].phys # f
  BY MapEntries
<1>2. /\ cur \in Procs /\ cur' = cur /\ mem' = mem /\ Live(cur)
      /\ \A p \in Procs : Live(p)' <=> Live(p)
      /\ pages'[cur][v] = f /\ ~Pending(cur, v)'
      /\ \A p \in Procs : \A w \in Page : p # cur \/ w # v =>
           /\ pages'[p][w] = pages[p][w]
           /\ Pending(p, w)' => Pending(p, w)
           /\ Has(p, w)' => Has(p, w)
           /\ Live(p) => pages[p][w] # f
  BY DEF Gets
<1>3. OneEntry'
  BY <1>1 DEF Memory, OneEntry
<1>4. \A j \in Entry : tlb'[j].phys # 0 => pages'[cur][tlb'[j].virt] = tlb'[j].phys
  BY <1>1, <1>2
<1>5. EntryOwned' /\ OwnTlb'
  BY <1>2, <1>4 DEF EntryOwned, OwnTlb
<1>6. ReadUnmapped'
  <2> SUFFICES ASSUME NEW p \in Procs, NEW w \in Page, Pending(p, w)',
                      NEW j \in Entry, tlb'[j].phys # 0
               PROVE  tlb'[j].phys # pages'[p][w]
    BY DEF ReadUnmapped
  <2>1. (p # cur \/ w # v) /\ Pending(p, w) /\ pages'[p][w] = pages[p][w]
    BY <1>2
  <2>2. Live(p)
    BY <2>1 DEF Pending, TodoOK
  <2>3. pages[p][w] # f
    BY <1>2, <2>1, <2>2
  <2>4. j # i => tlb[j].phys # pages[p][w]
    BY <1>1, <2>1 DEF Memory, ReadUnmapped
  <2> QED
    BY <1>1, <2>1, <2>3, <2>4
<1>7. Untouched'
  BY <1>1, <1>2 DEF Memory, Untouched, Uninit, Initial
<1>8. Kept'
  <2> SUFFICES ASSUME NEW p \in Procs, NEW w \in Page, Has(p, w)'
               PROVE  /\ \A j \in Entry : tlb'[j].phys = pages'[p][w] =>
                           virt'[tlb'[j].virt] = mem'[p][w] /\ (~tlb'[j].write => InFrame(p, w)')
                      /\ (\A j \in Entry : tlb'[j].phys # pages'[p][w]) => InFrame(p, w)'
                      /\ p # cur' => InFrame(p, w)'
    BY DEF Kept
  <2>1. /\ frames'[f] = mem[cur][v] /\ virt'[v] = mem[cur][v]
        /\ \A u \in Page : u # v => virt'[u] = virt[u]
        /\ Has(p, w) /\ pages[p][w] # f =>
             /\ InFrame(p, w) => frames'[pages[p][w]] = mem[p][w]
             /\ tlb[i].phys = pages[p][w] => frames'[pages[p][w]] = mem[p][w]
    BY MapFrames
  <2>2. InFrame(p, w)' <=> frames'[pages'[p][w]] = mem'[p][w]
    BY DEF InFrame
  <2>3. CASE p = cur /\ w = v
    <3>1. InFrame(p, w)'
      BY <1>2, <2>1, <2>2, <2>3
    <3>2. \A j \in Entry : tlb'[j].phys = f => j = i
      BY <1>1
    <3> QED
      BY <1>1, <1>2, <2>1, <2>3, <3>1, <3>2
  <2>4. CASE p # cur \/ w # v
    <3>1. /\ Has(p, w) /\ pages'[p][w] = pages[p][w] /\ pages[p][w] # f /\ mem'[p][w] = mem[p][w]
          /\ pages[p][w] # 0
      BY <1>2, <2>4 DEF Has, Uninit
    <3>2. /\ \A j \in Entry : tlb[j].phys = pages[p][w] =>
               virt[tlb[j].virt] = mem[p][w] /\ (~tlb[j].write => InFrame(p, w))
          /\ (\A j \in Entry : tlb[j].phys # pages[p][w]) => InFrame(p, w)
          /\ p # cur => InFrame(p, w)
      BY <3>1 DEF Memory, Kept
    <3>3. ASSUME NEW j \in Entry, tlb'[j].phys = pages'[p][w]
          PROVE  virt'[tlb'[j].virt] = mem'[p][w] /\ (~tlb'[j].write => InFrame(p, w)')
      <4>1. j # i /\ tlb'[j] = tlb[j] /\ tlb[j].phys # 0 /\ tlb[j].phys = pages[p][w]
        BY <1>1, <3>1, <3>3
      <4>2. virt'[tlb[j].virt] = virt[tlb[j].virt]
        BY <1>1, <2>1, <4>1
      <4> QED
        BY <2>1, <2>2, <3>1, <3>2, <4>1, <4>2
    <3>4. ASSUME \A j \in Entry : tlb'[j].phys # pages'[p][w]
          PROVE  InFrame(p, w)'
      <4>1. \A j \in Entry : j # i => tlb[j].phys # pages[p][w]
        BY <1>1, <3>1, <3>4
      <4> QED
        BY <2>1, <2>2, <3>1, <3>2, <4>1
    <3>5. p # cur' => InFrame(p, w)'
      BY <1>2, <2>1, <2>2, <3>1, <3>2
    <3> QED
      BY <3>3, <3>4, <3>5
  <2> QED
    BY <2>3, <2>4
<1> QED
  BY <1>3, <1>5, <1>6, <1>7, <1>8

-----------------------------------------------------------------------------
(* What the kernel has to do.                                              *)

NoReads(q) ==
  \A i \in 1..Len(q) : /\ q[i].op # "read"
                       /\ q[i].op \in {"in", "out", "fault"} => q[i].page \in Page

LEMMA TailHasNoReads ==
  ASSUME NEW p \in Procs, NEW q \in Seq(Step), q # <<>>, Good(p, q)
  PROVE  /\ Head(q) \in Step /\ Tail(q) \in Seq(Step) /\ NoReads(Tail(q))
         /\ Head(q).op \in {"in", "out", "fault", "read"} => Head(q).page \in Page
         /\ Head(q).op = "read" => Head(q).page \in InExec /\ pages[p][Head(q).page] # Uninit
         /\ Head(q).op # "read" => NoReads(q)
<1>1. /\ Head(q) \in Step /\ Tail(q) \in Seq(Step) /\ Head(q) = q[1] /\ 1 \in 1..Len(q)
      /\ \A i \in 1..Len(Tail(q)) : Tail(q)[i] = q[i + 1] /\ i + 1 \in 1..Len(q) /\ i + 1 # 1
  <2>1. /\ Head(q) \in Step /\ Tail(q) \in Seq(Step) /\ Head(q) = q[1] /\ Len(q) \in Nat \ {0}
        /\ \A i \in 1..Len(Tail(q)) : Tail(q)[i] = q[i + 1] /\ i + 1 \in 1..Len(q) /\ i + 1 # 1
    BY HeadTail
  <2> QED
    BY <2>1
<1>2. NoReads(Tail(q))
  BY <1>1 DEF NoReads, Good
<1>3. Head(q).op # "read" => NoReads(q)
  BY <1>1 DEF NoReads, Good
<1> QED
  BY <1>1, <1>2, <1>3 DEF Good

\* The steps of p become q.
Becomes(p, q) ==
  /\ q \in Seq(Step) /\ NoReads(q)
  /\ todo' = [todo EXCEPT ![p] = q]
  /\ q # <<>> => Live(p)'
  /\ \A r \in Procs \ {p} : /\ todo[r] # <<>> => Live(r)'
                            /\ \A v \in Page : pages[r][v] # Uninit => pages'[r][v] # Uninit

LEMMA TodoStep ==
  ASSUME Types, TodoOK, NEW p \in Procs, NEW q, Becomes(p, q)
  PROVE  /\ todo' \in [Procs -> Seq(Step)] /\ TodoOK'
         /\ todo'[p] = q /\ \A r \in Procs \ {p} : todo'[r] = todo[r]
         /\ \A r \in Procs : \A v \in Page : Pending(r, v)' <=> r # p /\ Pending(r, v)
<1>1. todo \in [Procs -> Seq(Step)] /\ todo' = [todo EXCEPT ![p] = q] /\ q \in Seq(Step)
  BY DEF Types, Becomes
<1>2. todo' \in [Procs -> Seq(Step)] /\ todo'[p] = q /\ \A r \in Procs \ {p} : todo'[r] = todo[r]
  BY <1>1
<1>3. TodoOK'
  <2> SUFFICES ASSUME NEW r \in Procs
               PROVE  (todo'[r] # <<>> => Live(r)') /\ Good(r, todo[r])'
    BY DEF TodoOK
  <2>1. CASE r = p
    BY <1>2, <2>1 DEF Good, NoReads, Becomes
  <2>2. CASE r # p
    <3>1. todo'[r] = todo[r] /\ (todo[r] # <<>> => Live(r)')
      BY <1>2, <2>2 DEF Becomes
    <3>2. \A v \in Page : pages[r][v] # Uninit => pages'[r][v] # Uninit
      BY <2>2 DEF Becomes
    <3>3. Good(r, todo[r])
      BY DEF TodoOK
    <3> QED
      BY <3>1, <3>2, <3>3 DEF Good
  <2> QED
    BY <2>1, <2>2
<1>4. ASSUME NEW r \in Procs, NEW v \in Page
      PROVE  Pending(r, v)' <=> r # p /\ Pending(r, v)
  <2>1. CASE r = p
    <3>1. q # <<>> => Head(q) = q[1] /\ 1 \in 1..Len(q)
      <4>1. q # <<>> => Head(q) = q[1] /\ Len(q) \in Nat \ {0}
        BY <1>1, HeadTail
      <4> QED
        BY <4>1
    <3> QED
      BY <1>2, <2>1, <3>1 DEF Pending, NoReads, Becomes
  <2>2. CASE r # p
    BY <1>2, <2>2 DEF Pending
  <2> QED
    BY <2>1, <2>2
<1> QED
  BY <1>2, <1>3, <1>4

OwnEntries == \A i \in Entry : tlb[i].phys # 0 => pages[cur][tlb[i].virt] = tlb[i].phys

LEMMA AtIs ==
  ASSUME Inv, NEW op, At(op)
  PROVE  /\ cur \in Procs /\ state[cur] = "runnable" /\ Live(cur) /\ halted = "no"
         /\ todo[cur] \in Seq(Step) /\ todo[cur] # <<>>
         /\ Head(todo[cur]) \in Step /\ Head(todo[cur]).op = op
         /\ Tail(todo[cur]) \in Seq(Step) /\ NoReads(Tail(todo[cur]))
         /\ op \in {"in", "out", "fault", "read"} => Head(todo[cur]).page \in Page
         /\ op = "read" => /\ Head(todo[cur]).page \in InExec
                           /\ pages[cur][Head(todo[cur]).page] # Uninit
         /\ op # "read" => NoReads(todo[cur]) /\ \A v \in Page : ~Pending(cur, v)
         /\ op # "wait" => UsesTlb(cur) /\ OwnEntries
<1>1. /\ cur \in Procs /\ state[cur] = "runnable" /\ halted = "no" /\ todo[cur] # <<>>
      /\ Head(todo[cur]).op = op
  BY DEF At, Running
<1>2. todo[cur] \in Seq(Step) /\ Good(cur, todo[cur]) /\ Live(cur)
  BY <1>1 DEF Inv, Types, TodoOK, Live
<1>3. /\ Head(todo[cur]) \in Step
      /\ Tail(todo[cur]) \in Seq(Step) /\ NoReads(Tail(todo[cur]))
      /\ op \in {"in", "out", "fault", "read"} => Head(todo[cur]).page \in Page
      /\ op = "read" => /\ Head(todo[cur]).page \in InExec
                        /\ pages[cur][Head(todo[cur]).page] # Uninit
      /\ op # "read" => NoReads(todo[cur])
  BY <1>1, <1>2, TailHasNoReads
<1>4. op # "read" => \A v \in Page : ~Pending(cur, v)
  BY <1>1 DEF Pending
<1>5. op # "wait" => UsesTlb(cur) /\ OwnEntries
  BY <1>1 DEF UsesTlb, OwnEntries, Inv, Memory, OwnTlb
<1> QED
  BY <1>1, <1>2, <1>3, <1>4, <1>5

LEMMA InUserIs ==
  ASSUME Inv, InUser
  PROVE  /\ cur \in Procs /\ state[cur] = "runnable" /\ Live(cur) /\ halted = "no" /\ todo[cur] = <<>>
         /\ UsesTlb(cur) /\ OwnEntries /\ \A v \in Page : ~Pending(cur, v)
<1>1. cur \in Procs /\ state[cur] = "runnable" /\ halted = "no" /\ todo[cur] = <<>>
  BY DEF InUser, Running
<1> QED
  BY <1>1 DEF Live, UsesTlb, OwnEntries, Inv, Memory, OwnTlb, Pending

LEMMA StepsTyped ==
  ASSUME NEW F \in [Procs -> Seq(Step)]
  PROVE  \A p \in Procs : \A i \in DOMAIN F[p] :
           F[p][i] \in [op : {"in", "out", "fault", "read", "wait", "exit"},
                        page : Page \cup {0}, write : BOOLEAN]
<1> SUFFICES ASSUME NEW p \in Procs, NEW i \in DOMAIN F[p] PROVE F[p][i] \in Step
  BY DEF Step
<1>1. F[p] \in Seq(Step)
  OBVIOUS
<1> HIDE DEF Step
<1> QED
  BY <1>1, ElementOfSeq

-----------------------------------------------------------------------------
(* Each action keeps the invariant.                                        *)

LEMMA CopyFaultStep ==
  ASSUME Inv, CopyFault
  PROVE  Inv'
<1> DEFINE d == Head(todo[cur])
           q == <<Do("fault", d.page, d.write)>> \o todo[cur]
<1>1. PICK op \in {"in", "out"} : At(op)
  BY DEF CopyFault
<1>2. /\ cur \in Procs /\ state[cur] = "runnable" /\ Live(cur)
      /\ todo[cur] \in Seq(Step) /\ todo[cur] # <<>> /\ NoReads(todo[cur])
      /\ d \in Step /\ d.page \in Page /\ UsesTlb(cur)
      /\ \A v \in Page : ~Pending(cur, v)
  BY <1>1, AtIs
<1>3. /\ todo' = [todo EXCEPT ![cur] = q]
      /\ UNCHANGED <<cur, state, fresh, pages, frames, free, tlb, index, virt, halted, mem, wrote>>
  BY <1>2 DEF CopyFault, Inv, Types
<1>4. q \in Seq(Step) /\ q # <<>> /\ NoReads(q)
  <2>1. Do("fault", d.page, d.write) \in Step
    BY <1>2 DEF Do, Step
  <2>2. /\ q \in Seq(Step) /\ q # <<>> /\ q[1] = Do("fault", d.page, d.write)
        /\ \A i \in 2..Len(q) : q[i] = todo[cur][i - 1] /\ i - 1 \in 1..Len(todo[cur])
    BY <1>2, <2>1, Prepend
  <2> HIDE DEF q
  <2>3. \A i \in 1..Len(q) : i = 1 \/ i \in 2..Len(q)
    BY <2>2
  <2> QED
    BY <1>2, <2>2, <2>3 DEF NoReads, Do
<1> HIDE DEF q
<1>5. \A p \in Procs : Live(p)' <=> Live(p)
  BY <1>3 DEF Live
<1>6. Becomes(cur, q)
  BY <1>2, <1>3, <1>4, <1>5 DEF Becomes, Inv, TodoOK
<1>7. /\ todo' \in [Procs -> Seq(Step)] /\ TodoOK' /\ SameProcs
      /\ \A r \in Procs \ {cur} : todo'[r] = todo[r]
  BY <1>2, <1>5, <1>6, TodoStep DEF SameProcs, Inv
<1>8. Types'
  BY <1>3, <1>7, StepsTyped DEF Types, TypeOK, Inv
<1>9. FreshOK'
  BY <1>3, <1>7 DEF FreshOK, Live, Inv, Types, TypeOK
<1>10. SameUser
  BY <1>2, <1>3 DEF SameUser
<1>11. Memory'
  BY <1>3, <1>7, <1>10, QuietStep DEF Inv
<1> QED
  BY <1>7, <1>8, <1>9, <1>11 DEF Inv

\* The first step has been done, or nothing is done any more.
LEMMA DoneStep ==
  ASSUME Inv, NEW op \in {"in", "wait"}, At(op), todo' = [todo EXCEPT ![cur] = Tail(@)],
         state' = state \/ state' = [state EXCEPT ![cur] = "waiting"],
         op = "wait" => state' = [state EXCEPT ![cur] = "waiting"],
         UNCHANGED <<cur, fresh, pages, frames, free, tlb, index, virt, halted, mem, wrote>>
  PROVE  Inv'
<1>1. /\ cur \in Procs /\ state[cur] = "runnable" /\ Live(cur)
      /\ Tail(todo[cur]) \in Seq(Step) /\ NoReads(Tail(todo[cur]))
      /\ \A v \in Page : ~Pending(cur, v)
      /\ op = "in" => UsesTlb(cur)
  BY AtIs
<1>2. todo' = [todo EXCEPT ![cur] = Tail(todo[cur])]
  BY <1>1 DEF Inv, Types
<1>3. \A p \in Procs : Live(p)' <=> Live(p)
  BY <1>1 DEF Live, Inv, Types, TypeOK
<1>4. Becomes(cur, Tail(todo[cur]))
  BY <1>1, <1>2, <1>3 DEF Becomes, Inv, TodoOK
<1>5. /\ todo' \in [Procs -> Seq(Step)] /\ TodoOK' /\ SameProcs
      /\ \A r \in Procs \ {cur} : todo'[r] = todo[r]
  BY <1>1, <1>3, <1>4, TodoStep DEF SameProcs, Inv
<1>6. state' \in [Procs -> {"free", "runnable", "waiting", "zombie", "dead"}]
  BY DEF Inv, Types, TypeOK
<1>7. Types'
  BY <1>5, <1>6, StepsTyped DEF Types, TypeOK, Inv
<1>8. FreshOK'
  BY <1>1, <1>3, <1>5 DEF FreshOK, Inv, Types, TypeOK
<1>9. SameUser
  BY <1>1, <1>3 DEF SameUser, UsesTlb, Inv, Types, TypeOK
<1>10. Memory'
  BY <1>5, <1>9, QuietStep DEF Inv
<1> QED
  BY <1>5, <1>7, <1>8, <1>10 DEF Inv

LEMMA CopyInStep ==
  ASSUME Inv, CopyIn
  PROVE  Inv'
<1> QED
  BY DoneStep DEF CopyIn

LEMMA WaitStep ==
  ASSUME Inv, Wait
  PROVE  Inv'
<1> QED
  BY DoneStep DEF Wait

\* Only the state of processes changes.
LEMMA StateStep ==
  ASSUME Inv, state' \in [Procs -> {"free", "runnable", "waiting", "zombie", "dead"}],
         \A p \in Procs : Live(p)' <=> Live(p),
         SameUser, fresh' \subseteq fresh, halted' \in {"no", "frames", "fault", "read"},
         UNCHANGED <<cur, todo, pages, frames, free, tlb, index, virt, mem, wrote>>
  PROVE  Inv'
<1>1. Types'
  BY DEF Inv, Types, TypeOK
<1>2. TodoOK'
  BY DEF Inv, TodoOK, Good
<1>3. FreshOK'
  BY DEF Inv, FreshOK, Types, TypeOK
<1>4. SameProcs
  BY DEF SameProcs, Pending
<1>5. Memory'
  BY <1>4, QuietStep DEF Inv
<1> QED
  BY <1>1, <1>2, <1>3, <1>5 DEF Inv

LEMMA StopStep ==
  ASSUME Inv, OutOfFrames \/ ReadFailed
  PROVE  Inv'
<1>1. UNCHANGED <<cur, state, fresh, todo, pages, frames, free, tlb, index, virt, mem, wrote>>
  BY DEF OutOfFrames, ReadFailed
<1>2. halted' \in {"no", "frames", "fault", "read"}
  BY DEF OutOfFrames, ReadFailed
<1>3. /\ \A p \in Procs : Live(p)' <=> Live(p)
      /\ SameUser
  BY <1>1 DEF Live, UsesTlb, SameUser
<1>4. state' \in [Procs -> {"free", "runnable", "waiting", "zombie", "dead"}] /\ fresh' \subseteq fresh
  BY <1>1 DEF Inv, Types, TypeOK
<1> QED
  BY <1>1, <1>2, <1>3, <1>4, StateStep

LEMMA WakeStep ==
  ASSUME Inv, NEW p \in Procs, Wake(p)
  PROVE  Inv'
<1>1. /\ state[p] = "waiting" /\ state' = [state EXCEPT ![p] = "runnable"]
      /\ p = cur => \E v \in Page : pages[p][v] # Uninit
      /\ UNCHANGED <<cur, fresh, todo, pages, frames, free, tlb, index, virt, halted, mem, wrote>>
  BY DEF Wake
<1>2. state' \in [Procs -> {"free", "runnable", "waiting", "zombie", "dead"}]
  BY <1>1 DEF Inv, Types, TypeOK
<1>3. \A r \in Procs : Live(r)' <=> Live(r)
  BY <1>1 DEF Live, Inv, Types, TypeOK
<1>4. SameUser
  <2> SUFFICES ASSUME cur \in Procs, UsesTlb(cur)' PROVE UsesTlb(cur)
    BY <1>1 DEF SameUser
  <2>1. CASE p = cur
    BY <1>1, <2>1 DEF UsesTlb, Live
  <2>2. CASE p # cur
    <3>1. state'[cur] = state[cur]
      BY <1>1, <2>2 DEF Inv, Types, TypeOK
    <3> QED
      BY <1>1, <2>2, <3>1 DEF UsesTlb, Live
  <2> QED
    BY <2>1, <2>2
<1>5. halted' \in {"no", "frames", "fault", "read"} /\ fresh' \subseteq fresh
  BY <1>1 DEF Inv, Types, TypeOK
<1> QED
  BY <1>1, <1>2, <1>3, <1>4, <1>5, StateStep

LEMMA ReapStep ==
  ASSUME Inv, NEW p \in Procs, Reap(p)
  PROVE  Inv'
<1>1. /\ state[p] = "zombie" /\ state' = [state EXCEPT ![p] = "free"] /\ fresh' \subseteq fresh
      /\ UNCHANGED <<cur, todo, pages, frames, free, tlb, index, virt, halted, mem, wrote>>
  BY DEF Reap
<1>2. state' \in [Procs -> {"free", "runnable", "waiting", "zombie", "dead"}]
  BY <1>1 DEF Inv, Types, TypeOK
<1>3. \A r \in Procs : Live(r)' <=> Live(r)
  BY <1>1 DEF Live, Inv, Types, TypeOK
<1>4. SameUser
  <2>1. cur \in Procs /\ state'[cur] = "runnable" => state[cur] = "runnable"
    BY <1>1 DEF Inv, Types, TypeOK
  <2> QED
    BY <1>1, <1>3, <2>1 DEF UsesTlb, SameUser
<1>5. halted' \in {"no", "frames", "fault", "read"}
  BY <1>1 DEF Inv, Types, TypeOK
<1> QED
  BY <1>1, <1>2, <1>3, <1>4, <1>5, StateStep

LEMMA WriteStep ==
  ASSUME Inv, NEW v \in Page, NEW x \in Values, Write(v, x)
  PROVE  Inv'
<1>1. /\ cur \in Procs /\ Live(cur) /\ todo[cur] = <<>> /\ OwnEntries
      /\ \A w \in Page : ~Pending(cur, w)
  BY InUserIs DEF Write
<1>2. /\ virt' = [virt EXCEPT ![v] = x]
      /\ mem' = [mem EXCEPT ![cur][v] = x]
      /\ wrote' = [wrote EXCEPT ![cur] = v]
      /\ UNCHANGED <<cur, state, fresh, todo, pages, frames, free, tlb, index, halted>>
  BY DEF Write
<1>3. /\ virt' \in [Page -> Values] /\ virt'[v] = x /\ \A w \in Page : w # v => virt'[w] = virt[w]
      /\ mem' \in [Procs -> [Page -> Values]] /\ mem'[cur][v] = x
      /\ \A p \in Procs : \A w \in Page : p # cur \/ w # v => mem'[p][w] = mem[p][w]
  BY <1>1, <1>2 DEF Inv, Types, TypeOK
<1>4. PICK i \in Entry : tlb[i].virt = v /\ tlb[i].phys # 0 /\ tlb[i].write
  BY DEF Write, Writable, EntriesOf
<1>5. pages[cur][v] = tlb[i].phys /\ pages[cur][v] # Uninit
  BY <1>1, <1>4 DEF OwnEntries, Uninit
<1>6. Types'
  BY <1>1, <1>2, <1>3 DEF Inv, Types, TypeOK
<1>7. TodoOK' /\ FreshOK'
  BY <1>2 DEF Inv, TodoOK, Good, FreshOK, Live
<1>8. Fewer /\ SameProcs /\ SameUser
  BY <1>2 DEF Fewer, SameProcs, SameUser, UsesTlb, Live, Pending
<1>9. Owned' /\ EntryOwned' /\ OwnTlb'
  BY <1>2, <1>8, FramesKept, EntriesKept DEF Inv, Memory
<1>10. OneEntry' /\ ReadUnmapped'
  BY <1>2, <1>8 DEF Inv, Memory, OneEntry, ReadUnmapped, SameProcs
<1>11. Untouched'
  BY <1>1, <1>2, <1>3, <1>5, <1>8 DEF Inv, Memory, Untouched, SameProcs, Initial
<1>12. Kept'
  <2> SUFFICES ASSUME NEW p \in Procs, NEW w \in Page, Has(p, w)'
               PROVE  /\ \A j \in Entry : tlb'[j].phys = pages'[p][w] =>
                           virt'[tlb'[j].virt] = mem'[p][w] /\ (~tlb'[j].write => InFrame(p, w)')
                      /\ (\A j \in Entry : tlb'[j].phys # pages'[p][w]) => InFrame(p, w)'
                      /\ p # cur' => InFrame(p, w)'
    BY DEF Kept
  <2>1. Has(p, w) /\ Live(p) /\ pages[p][w] # Uninit
    BY <1>2, <1>8 DEF SameProcs, Has
  <2>2. \A j \in Entry : tlb[j].phys = pages[p][w] => tlb[j].virt = w /\ p = cur
    <3> SUFFICES ASSUME NEW j \in Entry, tlb[j].phys = pages[p][w]
                 PROVE  tlb[j].virt = w /\ p = cur
      OBVIOUS
    <3>1. tlb[j].phys # 0 /\ pages[cur][tlb[j].virt] = pages[p][w]
      BY <1>1, <2>1 DEF OwnEntries, Uninit
    <3>2. tlb[j].virt \in Page
      BY <3>1, TlbIs DEF Inv
    <3> QED
      BY <1>1, <2>1, <3>1, <3>2 DEF Inv, Memory, Owned
  <2>3. CASE p = cur /\ w = v
    <3>1. \A j \in Entry : tlb[j].phys = pages[p][w] => tlb[j].virt = v /\ j = i
      BY <1>4, <2>1, <2>2, <2>3 DEF Inv, Memory, OneEntry, Uninit
    <3> QED
      BY <1>2, <1>3, <1>4, <1>5, <2>3, <3>1
  <2>4. CASE p # cur \/ w # v
    <3>1. mem'[p][w] = mem[p][w] /\ (InFrame(p, w)' <=> InFrame(p, w))
      BY <1>2, <1>3, <2>4 DEF InFrame
    <3>2. \A j \in Entry : tlb[j].phys = pages[p][w] => virt'[tlb[j].virt] = virt[tlb[j].virt]
      BY <1>3, <2>2, <2>4
    <3> QED
      BY <1>2, <2>1, <3>1, <3>2 DEF Inv, Memory, Kept
  <2> QED
    BY <2>3, <2>4
<1> QED
  BY <1>6, <1>7, <1>9, <1>10, <1>11, <1>12 DEF Inv, Memory

LEMMA TrapStep ==
  ASSUME Inv, InUser, NEW q \in Seq(Step), NoReads(q), q # <<>>, Head(q).op # "wait", Trap(q),
         wrote' \in [Procs -> Page \cup {0}]
  PROVE  Inv'
<1>1. /\ cur \in Procs /\ Live(cur) /\ todo[cur] = <<>> /\ UsesTlb(cur) /\ state[cur] = "runnable"
      /\ \A w \in Page : ~Pending(cur, w)
  BY InUserIs
<1>2. /\ frames' = Synced(Entry, virt)
      /\ todo' = [todo EXCEPT ![cur] = q]
      /\ UNCHANGED <<cur, state, fresh, pages, free, tlb, index, virt, halted, mem>>
  BY DEF Trap
<1>3. \A p \in Procs : Live(p)' <=> Live(p)
  BY <1>2 DEF Live
<1>4. Becomes(cur, q)
  BY <1>1, <1>2, <1>3 DEF Becomes, Inv, TodoOK
<1>5. /\ todo' \in [Procs -> Seq(Step)] /\ TodoOK' /\ SameProcs
      /\ \A r \in Procs \ {cur} : todo'[r] = todo[r]
  BY <1>1, <1>3, <1>4, TodoStep DEF SameProcs, Inv
<1>6. frames' \in [Frame -> Values]
  BY <1>2, SyncedIs DEF Inv, Types, TypeOK
<1>7. Types'
  BY <1>2, <1>5, <1>6, StepsTyped DEF Types, TypeOK, Inv
<1>8. FreshOK'
  BY <1>2, <1>3, <1>5 DEF FreshOK, Inv, Types, TypeOK
<1>9. SameUser /\ Fewer /\ FewerProcs
  BY <1>1, <1>2, <1>5 DEF SameUser, Fewer, FewerProcs, SameProcs, Has
<1>10. Owned' /\ EntryOwned' /\ OwnTlb'
  BY <1>2, <1>5, <1>9, FramesKept, EntriesKept DEF Inv, Memory
<1>11. OneEntry' /\ ReadUnmapped' /\ Untouched'
  BY <1>2, <1>9, FewerKeeps DEF Inv
<1>12. Kept'
  BY <1>2, <1>9, SyncStep DEF Inv, Memory
<1> QED
  BY <1>5, <1>7, <1>8, <1>10, <1>11, <1>12 DEF Inv, Memory

LEMMA TouchStep ==
  ASSUME Inv, NEW v \in Page, Touch(v)
  PROVE  Inv'
<1>1. Do("fault", v, TRUE) \in Step
  BY DEF Do, Step
<1>2. /\ <<Do("fault", v, TRUE)>> \in Seq(Step) /\ NoReads(<<Do("fault", v, TRUE)>>)
      /\ <<Do("fault", v, TRUE)>> # <<>> /\ Head(<<Do("fault", v, TRUE)>>).op # "wait"
  BY <1>1 DEF NoReads, Do
<1>3. wrote' \in [Procs -> Page \cup {0}]
  BY DEF Touch, Inv, Types, TypeOK
<1> QED
  BY <1>2, <1>3, TrapStep DEF Touch

LEMMA CallsAre ==
  ASSUME NEW s \in Page, NEW q \in Calls(s)
  PROVE  q \in Seq(Step) /\ NoReads(q) /\ q # <<>> /\ Head(q).op # "wait"
<1> DEFINE in(v)  == Do("in", v, FALSE)
           out(v) == Do("out", v, TRUE)
           exit   == Do("exit", 0, FALSE)
           wait   == Do("wait", 0, FALSE)
           Fit(d) == d \in Step /\ d.op # "read" /\ (d.op \in {"in", "out", "fault"} => d.page \in Page)
<1>1. /\ \A v \in Page : Fit(in(v)) /\ in(v).op = "in" /\ Fit(out(v)) /\ out(v).op = "out"
      /\ Fit(exit) /\ Fit(wait)
  BY DEF Do, Step
<1>2. \/ q = <<in(s), exit>>
      \/ q = <<in(s), out(s)>>
      \/ q = <<in(s), wait, out(s)>>
      \/ \E b, c \in Page :
           \/ q = <<in(s), in(b), out(s)>>
           \/ q = <<in(s), wait, out(b), out(s)>>
           \/ q = <<in(s), out(b), out(s)>>
           \/ q = <<in(s), in(b), wait, out(s)>>
           \/ q = <<in(s), in(b), wait, out(c), out(s)>>
  <2> DEFINE A == {<<in(s), exit>>, <<in(s), out(s)>>, <<in(s), wait, out(s)>>}
             B == {<<in(s), in(b), out(s)>> : b \in Page}
             C == {<<in(s), wait, out(b), out(s)>> : b \in Page}
             D == {<<in(s), out(b), out(s)>> : b \in Page}
             E == {<<in(s), in(b), wait, out(s)>> : b \in Page}
             F == {<<in(s), in(b), wait, out(c), out(s)>> : b, c \in Page}
  <2>1. Calls(s) = A \cup B \cup C \cup D \cup E \cup F
    BY DEF Calls
  <2> HIDE DEF in, out, exit, wait, A, B, C, D, E, F
  <2>2. q \in A => q = <<in(s), exit>> \/ q = <<in(s), out(s)>> \/ q = <<in(s), wait, out(s)>>
    BY Zenon DEF A
  <2>3. q \in B => \E b \in Page : q = <<in(s), in(b), out(s)>>
    BY Zenon DEF B
  <2>4. q \in C => \E b \in Page : q = <<in(s), wait, out(b), out(s)>>
    BY Zenon DEF C
  <2>5. q \in D => \E b \in Page : q = <<in(s), out(b), out(s)>>
    BY Zenon DEF D
  <2>6. q \in E => \E b \in Page : q = <<in(s), in(b), wait, out(s)>>
    BY Zenon DEF E
  <2>7. q \in F => \E b, c \in Page : q = <<in(s), in(b), wait, out(c), out(s)>>
    BY DEF F
  <2> QED
    BY <2>1, <2>2, <2>3, <2>4, <2>5, <2>6, <2>7, Zenon
<1> HIDE DEF in, out, exit, wait
<1>3. ASSUME q \in Seq(Step), \A i \in 1..Len(q) : Fit(q[i]), q # <<>>, Head(q) = in(s)
      PROVE  q \in Seq(Step) /\ NoReads(q) /\ q # <<>> /\ Head(q).op # "wait"
  BY <1>1, <1>3 DEF NoReads
<1> HIDE DEF Fit
<1>4. \A d : Fit(d) => d \in Step
  BY DEF Fit
<1>5. CASE q = <<in(s), exit>>
  BY <1>1, <1>3, <1>4, <1>5
<1>6. CASE q = <<in(s), out(s)>>
  BY <1>1, <1>3, <1>4, <1>6
<1>7. CASE q = <<in(s), wait, out(s)>>
  BY <1>1, <1>3, <1>4, <1>7
<1>8. ASSUME NEW b \in Page, NEW c \in Page,
             \/ q = <<in(s), in(b), out(s)>>
             \/ q = <<in(s), wait, out(b), out(s)>>
             \/ q = <<in(s), out(b), out(s)>>
             \/ q = <<in(s), in(b), wait, out(s)>>
             \/ q = <<in(s), in(b), wait, out(c), out(s)>>
      PROVE  q \in Seq(Step) /\ NoReads(q) /\ q # <<>> /\ Head(q).op # "wait"
  <2>1. Fit(in(b)) /\ Fit(out(b)) /\ Fit(out(c)) /\ Fit(in(s)) /\ Fit(out(s)) /\ Fit(wait)
    BY <1>1
  <2>2. /\ in(b) \in Step /\ out(b) \in Step /\ out(c) \in Step
        /\ in(s) \in Step /\ out(s) \in Step /\ wait \in Step
    BY <2>1, <1>4
  <2>3. q \in Seq(Step) /\ q # <<>> /\ Head(q) = in(s)
    <3>1. CASE q = <<in(s), in(b), out(s)>>
      BY <2>2, <3>1
    <3>2. CASE q = <<in(s), wait, out(b), out(s)>>
      BY <2>2, <3>2
    <3>3. CASE q = <<in(s), out(b), out(s)>>
      BY <2>2, <3>3
    <3>4. CASE q = <<in(s), in(b), wait, out(s)>>
      BY <2>2, <3>4
    <3>5. CASE q = <<in(s), in(b), wait, out(c), out(s)>>
      BY <2>2, <3>5
    <3> QED
      BY <1>8, <3>1, <3>2, <3>3, <3>4, <3>5
  <2>4. \A i \in 1..Len(q) : Fit(q[i])
    BY <1>8, <2>1
  <2> QED
    BY <1>3, <2>3, <2>4
<1> QED
  BY <1>2, <1>5, <1>6, <1>7, <1>8

LEMMA SyscallStep ==
  ASSUME Inv, Syscall
  PROVE  Inv'
<1>1. InUser /\ cur \in Procs /\ wrote[cur] \in Page /\ wrote \in [Procs -> Page \cup {0}]
  BY DEF Syscall, InUser, Running, Inv, Types, TypeOK
<1>2. PICK q \in Calls(wrote[cur]) : Trap(q)
  BY DEF Syscall
<1>3. q \in Seq(Step) /\ NoReads(q) /\ q # <<>> /\ Head(q).op # "wait"
  BY <1>1, CallsAre
<1>4. wrote' \in [Procs -> Page \cup {0}]
  BY <1>1 DEF Syscall
<1> QED
  BY <1>1, <1>2, <1>3, <1>4, TrapStep

LEMMA CopyOutStep ==
  ASSUME Inv, NEW x \in Values, CopyOut(x)
  PROVE  Inv'
<1> DEFINE v == Head(todo[cur]).page
           q == Tail(todo[cur])
<1>1. /\ cur \in Procs /\ state[cur] = "runnable" /\ Live(cur) /\ UsesTlb(cur) /\ OwnEntries
      /\ q \in Seq(Step) /\ NoReads(q) /\ v \in Page
      /\ \A w \in Page : ~Pending(cur, w)
  BY AtIs DEF CopyOut
<1>2. UNCHANGED <<cur, state, fresh, pages, free, tlb, index, wrote>>
  BY DEF CopyOut
<1>3. \A p \in Procs : Live(p)' <=> Live(p)
  BY <1>2 DEF Live
<1>4. CASE halted' = "fault" /\ UNCHANGED <<virt, frames, mem, todo>>
  <2>1. state' \in [Procs -> {"free", "runnable", "waiting", "zombie", "dead"}] /\ fresh' \subseteq fresh
    BY <1>2 DEF Inv, Types, TypeOK
  <2>2. SameUser /\ halted' \in {"no", "frames", "fault", "read"}
    BY <1>1, <1>2, <1>4 DEF SameUser
  <2> QED
    BY <1>2, <1>3, <1>4, <2>1, <2>2, StateStep
<1>5. CASE /\ Writable(v)
           /\ virt' = [virt EXCEPT ![v] = x]
           /\ frames' = Synced(Entry, virt')
           /\ mem' = [mem EXCEPT ![cur][v] = x]
           /\ todo' = [todo EXCEPT ![cur] = Tail(@)]
           /\ UNCHANGED halted
  <2>1. todo' = [todo EXCEPT ![cur] = q]
    BY <1>1, <1>5 DEF Inv, Types
  <2> HIDE DEF q, v
  <2>2. /\ virt' \in [Page -> Values] /\ virt'[v] = x
        /\ \A w \in Page : w # v => virt'[w] = virt[w]
        /\ mem' \in [Procs -> [Page -> Values]] /\ mem'[cur][v] = x
        /\ \A p \in Procs : \A w \in Page : p # cur \/ w # v => mem'[p][w] = mem[p][w]
    BY <1>1, <1>5 DEF Inv, Types, TypeOK
  <2>3. PICK i \in Entry : tlb[i].virt = v /\ tlb[i].phys # 0 /\ tlb[i].write
    BY <1>5 DEF Writable, EntriesOf
  <2>4. pages[cur][v] = tlb[i].phys /\ pages[cur][v] # Uninit
    BY <1>1, <2>3 DEF OwnEntries, Uninit
  <2>5. Becomes(cur, q)
    BY <1>1, <1>2, <1>3, <2>1 DEF Becomes, Inv, TodoOK
  <2>6. /\ todo' \in [Procs -> Seq(Step)] /\ TodoOK' /\ SameProcs
        /\ \A r \in Procs \ {cur} : todo'[r] = todo[r]
    BY <1>1, <1>3, <2>5, TodoStep DEF SameProcs, Inv
  <2>7. /\ frames' \in [Frame -> Values]
        /\ \A f \in Frame :
             \/ \E j \in Entry : /\ tlb[j].phys = f /\ tlb[j].write
                                 /\ frames'[f] = virt'[tlb[j].virt]
             \/ /\ \A j \in Entry : tlb[j].phys = f => ~tlb[j].write
                /\ frames'[f] = frames[f]
    <3>1. PICK c \in [Page -> Values] : c = virt'
      BY <2>2
    <3>2. /\ Synced(Entry, c) \in [Frame -> Values]
          /\ \A f \in Frame :
               \/ \E j \in Entry : /\ tlb[j].phys = f /\ tlb[j].write
                                   /\ Synced(Entry, c)[f] = c[tlb[j].virt]
               \/ /\ \A j \in Entry : tlb[j].phys = f => ~tlb[j].write
                  /\ Synced(Entry, c)[f] = frames[f]
      BY SyncedIs DEF Inv
    <3>3. frames' = Synced(Entry, c)
      BY <1>5, <3>1
    <3> QED
      BY <3>1, <3>2, <3>3
  <2>8. Types'
    BY <1>2, <1>5, <2>2, <2>6, <2>7, StepsTyped DEF Types, TypeOK, Inv
  <2>9. FreshOK'
    BY <1>1, <1>2, <1>3, <2>6 DEF FreshOK, Inv, Types, TypeOK
  <2>10. SameUser /\ Fewer
    BY <1>1, <1>2 DEF SameUser, Fewer
  <2>11. Owned' /\ EntryOwned' /\ OwnTlb'
    BY <1>2, <2>6, <2>10, FramesKept, EntriesKept DEF Inv, Memory
  <2>12. OneEntry' /\ ReadUnmapped'
    BY <1>2, <2>6 DEF Inv, Memory, OneEntry, ReadUnmapped, SameProcs
  <2>13. Untouched'
    BY <1>1, <1>2, <2>2, <2>4, <2>6 DEF Inv, Memory, Untouched, SameProcs, Initial
  <2>14. Kept'
    <3> SUFFICES ASSUME NEW p \in Procs, NEW w \in Page, Has(p, w)'
                 PROVE  /\ frames'[pages[p][w]] = mem'[p][w]
                        /\ \A j \in Entry : tlb[j].phys = pages[p][w] =>
                             virt'[tlb[j].virt] = mem'[p][w]
      BY <1>2 DEF Kept, InFrame
    <3>1. Has(p, w) /\ Live(p) /\ pages[p][w] # Uninit /\ pages[p][w] \in Frame
      BY <1>2, <2>6 DEF SameProcs, Has, Inv, Types, TypeOK
    <3>2. \A j \in Entry : tlb[j].phys = pages[p][w] => tlb[j].virt = w /\ p = cur
      <4> SUFFICES ASSUME NEW j \in Entry, tlb[j].phys = pages[p][w]
                   PROVE  tlb[j].virt = w /\ p = cur
        OBVIOUS
      <4>1. tlb[j].phys # 0 /\ pages[cur][tlb[j].virt] = pages[p][w]
        BY <1>1, <3>1 DEF OwnEntries, Uninit
      <4>2. tlb[j].virt \in Page
        BY <4>1, TlbIs DEF Inv
      <4> QED
        BY <1>1, <3>1, <4>1, <4>2 DEF Inv, Memory, Owned
    <3>3. /\ \A j \in Entry : tlb[j].phys = pages[p][w] =>
               virt[tlb[j].virt] = mem[p][w] /\ (~tlb[j].write => frames[pages[p][w]] = mem[p][w])
          /\ (\A j \in Entry : tlb[j].phys # pages[p][w]) => frames[pages[p][w]] = mem[p][w]
      BY <3>1 DEF Inv, Memory, Kept, InFrame
    <3>4. \A j \in Entry : tlb[j].phys = pages[p][w] => virt'[tlb[j].virt] = mem'[p][w]
      BY <2>2, <3>2, <3>3
    <3>5. frames'[pages[p][w]] = mem'[p][w]
      <4>1. CASE \E j \in Entry : /\ tlb[j].phys = pages[p][w]
                                  /\ frames'[pages[p][w]] = virt'[tlb[j].virt]
        BY <3>4, <4>1
      <4>2. CASE /\ \A j \in Entry : tlb[j].phys = pages[p][w] => ~tlb[j].write
                 /\ frames'[pages[p][w]] = frames[pages[p][w]]
        <5>1. p # cur \/ w # v
          BY <2>3, <2>4, <4>2
        <5>2. mem'[p][w] = mem[p][w]
          BY <2>2, <5>1
        <5> QED
          BY <3>3, <4>2, <5>2
      <4> QED
        BY <2>7, <3>1, <4>1, <4>2
    <3> QED
      BY <3>4, <3>5
  <2> QED
    BY <2>6, <2>8, <2>9, <2>11, <2>12, <2>13, <2>14 DEF Inv, Memory
<1> QED
  BY <1>4, <1>5 DEF CopyOut

\* What the steps that use tlb_map() have in common: the frames of other pages stay what they are.
LEMMA MappedTypes ==
  ASSUME Types, NEW i \in Entry, NEW v \in Page, NEW f \in Frame, NEW filled \in BOOLEAN,
         NEW content \in Values, NEW write \in BOOLEAN, Mapping(i, v, f, filled, content, write)
  PROVE  /\ frames' \in [Frame -> Values] /\ index' \in Entry /\ virt' \in [Page -> Values]
         /\ tlb' \in [Entry -> [virt : Page, phys : Frame, write : BOOLEAN] \cup {Unused}]
<1>1. Synced({i}, virt) \in [Frame -> Values]
  BY SyncedIs DEF Types, TypeOK
<1>2. frames' \in [Frame -> Values]
  BY <1>1 DEF Mapping
<1>3. virt' \in [Page -> Values]
  BY <1>2 DEF Mapping, Types, TypeOK
<1>4. [virt |-> v, phys |-> f, write |-> write] \in [virt : Page, phys : Frame, write : BOOLEAN]
  OBVIOUS
<1>5. tlb' \in [Entry -> [virt : Page, phys : Frame, write : BOOLEAN] \cup {Unused}]
  BY <1>4 DEF Mapping, Types, TypeOK
<1> QED
  BY <1>2, <1>3, <1>5 DEF Mapping

LEMMA FaultMappedStep ==
  ASSUME Inv, FaultMapped
  PROVE  Inv'
<1> DEFINE d == Head(todo[cur])
           q == Tail(todo[cur])
<1>1. /\ cur \in Procs /\ state[cur] = "runnable" /\ Live(cur) /\ UsesTlb(cur) /\ OwnEntries
      /\ q \in Seq(Step) /\ NoReads(q) /\ d.page \in Page /\ d \in Step
      /\ \A u \in Page : ~Pending(cur, u)
  BY AtIs DEF FaultMapped
<1>2. /\ todo' = [todo EXCEPT ![cur] = q]
      /\ UNCHANGED <<cur, state, fresh, pages, free, halted, mem, wrote>>
      /\ TlbMap(d.page, pages[cur][d.page], FALSE, Zero, d.write) /\ pages[cur][d.page] # Uninit
  BY <1>1 DEF FaultMapped, Inv, Types
<1>3. PICK v \in Page, w \in BOOLEAN, f \in Frame :
           TlbMap(v, f, FALSE, Zero, w) /\ f = pages[cur][v] /\ f # Uninit
  <2>1. d.write \in BOOLEAN /\ pages[cur][d.page] \in Frame
    BY <1>1, <1>2 DEF Step, Inv, Types, TypeOK
  <2> QED
    BY <1>1, <1>2, <2>1
<1> HIDE DEF d, q
<1>4. \A p \in Procs : Live(p)' <=> Live(p)
  BY <1>2 DEF Live
<1>5. Becomes(cur, q)
  BY <1>1, <1>2, <1>4 DEF Becomes, Inv, TodoOK
<1>6. /\ todo' \in [Procs -> Seq(Step)] /\ TodoOK' /\ SameProcs
      /\ \A r \in Procs \ {cur} : todo'[r] = todo[r]
      /\ \A u \in Page : ~Pending(cur, u)'
  BY <1>1, <1>2, <1>4, <1>5, TodoStep DEF SameProcs, Inv
<1>7. PICK i \in Entry : Mapping(i, v, f, FALSE, Zero, w)
  BY <1>3, TlbMapIs DEF Inv, Memory
<1>8. Types'
  <2>1. /\ frames' \in [Frame -> Values] /\ index' \in Entry /\ virt' \in [Page -> Values]
        /\ tlb' \in [Entry -> [virt : Page, phys : Frame, write : BOOLEAN] \cup {Unused}]
    BY <1>3, <1>7, MappedTypes, ValueAssumption DEF Inv
  <2> QED
    BY <1>2, <1>6, <2>1, StepsTyped DEF Types, TypeOK, Inv
<1>9. FreshOK'
  BY <1>1, <1>2, <1>4, <1>6 DEF FreshOK, Inv, Types, TypeOK
<1>10. Gets(v, f, FALSE, Zero)
  <2>1. \A p \in Procs : \A u \in Page : (p # cur \/ u # v) /\ Live(p) => pages[p][u] # f
    BY <1>1, <1>3 DEF Inv, Memory, Owned
  <2>2. Has(cur, v)
    BY <1>1, <1>3 DEF Has
  <2>3. \A p \in Procs : \A u \in Page : /\ Pending(p, u)' => Pending(p, u)
                                         /\ Has(p, u)' => Has(p, u)
    BY <1>2, <1>6 DEF SameProcs, Has
  <2> QED
    BY <1>1, <1>2, <1>3, <1>4, <1>6, <2>1, <2>2, <2>3 DEF Gets
<1>11. OneEntry' /\ EntryOwned' /\ OwnTlb' /\ ReadUnmapped' /\ Untouched' /\ Kept'
  BY <1>1, <1>7, <1>10, MapStep DEF Inv
<1>12. Owned'
  BY <1>2, <1>6, FramesKept DEF Inv, Memory
<1> QED
  BY <1>6, <1>8, <1>9, <1>11, <1>12 DEF Inv, Memory

LEMMA ReadDoneStep ==
  ASSUME Inv, ReadDone
  PROVE  Inv'
<1> DEFINE d == Head(todo[cur])
           q == Tail(todo[cur])
<1>1. /\ cur \in Procs /\ state[cur] = "runnable" /\ Live(cur) /\ UsesTlb(cur) /\ OwnEntries
      /\ q \in Seq(Step) /\ NoReads(q) /\ d.page \in Page /\ d \in Step
      /\ d.page \in InExec /\ pages[cur][d.page] # Uninit /\ todo[cur] # <<>> /\ d.op = "read"
  BY AtIs DEF ReadDone
<1>2. /\ todo' = [todo EXCEPT ![cur] = q]
      /\ TlbMap(d.page, pages[cur][d.page], TRUE, Program[d.page], d.write)
      /\ UNCHANGED <<cur, state, fresh, pages, free, halted, mem, wrote>>
  BY <1>1 DEF ReadDone, Inv, Types
<1>3. PICK v \in Page, w \in BOOLEAN, f \in Frame :
           /\ TlbMap(v, f, TRUE, Program[v], w) /\ f = pages[cur][v] /\ f # Uninit
           /\ v \in InExec /\ Head(todo[cur]).page = v /\ Program[v] \in Values
  <2>1. d.write \in BOOLEAN /\ pages[cur][d.page] \in Frame
    BY <1>1, <1>2 DEF Step, Inv, Types, TypeOK
  <2> QED
    BY <1>1, <1>2, <2>1, ValueAssumption
<1>4. Pending(cur, v) /\ \A u \in Page : u # v => ~Pending(cur, u)
  BY <1>1, <1>3 DEF Pending
<1> HIDE DEF d, q
<1>5. \A p \in Procs : Live(p)' <=> Live(p)
  BY <1>2 DEF Live
<1>6. Becomes(cur, q)
  BY <1>1, <1>2, <1>5 DEF Becomes, Inv, TodoOK
<1>7. /\ todo' \in [Procs -> Seq(Step)] /\ TodoOK'
      /\ \A r \in Procs \ {cur} : todo'[r] = todo[r]
      /\ \A p \in Procs : \A u \in Page : Pending(p, u)' <=> p # cur /\ Pending(p, u)
  BY <1>1, <1>6, TodoStep DEF Inv
<1>8. PICK i \in Entry : Mapping(i, v, f, TRUE, Program[v], w)
  BY <1>3, TlbMapIs DEF Inv, Memory
<1>9. Types'
  <2>1. /\ frames' \in [Frame -> Values] /\ index' \in Entry /\ virt' \in [Page -> Values]
        /\ tlb' \in [Entry -> [virt : Page, phys : Frame, write : BOOLEAN] \cup {Unused}]
    BY <1>3, <1>8, MappedTypes DEF Inv
  <2> QED
    BY <1>2, <1>7, <2>1, StepsTyped DEF Types, TypeOK, Inv
<1>10. FreshOK'
  BY <1>1, <1>2, <1>5, <1>7 DEF FreshOK, Inv, Types, TypeOK
<1>11. Gets(v, f, TRUE, Program[v])
  <2>1. \A p \in Procs : \A u \in Page : (p # cur \/ u # v) /\ Live(p) => pages[p][u] # f
    BY <1>1, <1>3 DEF Inv, Memory, Owned
  <2>2. \A j \in Entry : tlb[j].phys # f
    BY <1>1, <1>3, <1>4 DEF Inv, Memory, ReadUnmapped, Uninit
  <2>3. Program[v] = mem[cur][v]
    BY <1>1, <1>3, <1>4 DEF Inv, Memory, Untouched, Initial
  <2>4. \A p \in Procs : \A u \in Page : p # cur \/ u # v =>
          /\ Pending(p, u)' => Pending(p, u)
          /\ Has(p, u)' => Has(p, u)
    BY <1>2, <1>4, <1>5, <1>7 DEF Has
  <2> QED
    BY <1>1, <1>2, <1>3, <1>5, <1>7, <2>1, <2>2, <2>3, <2>4 DEF Gets
<1>12. OneEntry' /\ EntryOwned' /\ OwnTlb' /\ ReadUnmapped' /\ Untouched' /\ Kept'
  BY <1>1, <1>8, <1>11, MapStep DEF Inv
<1>13. Owned'
  BY <1>2, <1>5 DEF Owned, Inv, Memory
<1> QED
  BY <1>7, <1>9, <1>10, <1>12, <1>13 DEF Inv, Memory

\* The first free frame goes to a page that has none.
LEMMA AllocKeeps ==
  ASSUME Inv, cur \in Procs, NEW v \in Page, pages[cur][v] = Uninit, free # <<>>, Live(cur),
         pages' = [pages EXCEPT ![cur][v] = Head(free)], free' = Tail(free),
         \A p \in Procs : Live(p)' <=> Live(p)
  PROVE  /\ Owned' /\ Head(free) \in Frame
         /\ pages' \in [Procs -> [Page -> Frame \cup {Uninit}]] /\ free' \in Seq(Frame)
         /\ pages'[cur][v] = Head(free)
         /\ \A p \in Procs : \A w \in Page : p # cur \/ w # v =>
              pages'[p][w] = pages[p][w] /\ (Live(p) => pages[p][w] # Head(free))
         /\ \A j \in Entry : tlb[j].phys # Head(free)
<1>1. /\ Head(free) \in Frame /\ Tail(free) \in Seq(Frame) /\ Head(free) = free[1]
      /\ Len(free) \in Nat \ {0} /\ Len(Tail(free)) = Len(free) - 1 /\ free \in Seq(Frame)
      /\ \A i \in 1..Len(Tail(free)) :
           Tail(free)[i] = free[i + 1] /\ i + 1 \in 1..Len(free) /\ i + 1 # 1
  BY HeadTail DEF Inv, Types, TypeOK
<1>2. /\ pages' \in [Procs -> [Page -> Frame \cup {Uninit}]]
      /\ pages'[cur][v] = Head(free)
      /\ \A p \in Procs : \A w \in Page : p # cur \/ w # v => pages'[p][w] = pages[p][w]
  BY <1>1 DEF Inv, Types, TypeOK
<1> DEFINE h == Head(free)
<1>3. 1 \in 1..Len(free) /\ h = free[1] /\ h # Uninit
  BY <1>1, NumbersAre
<1>4. /\ \A p \in Procs : \A w \in Page : Live(p) => pages[p][w] # h
      /\ \A i \in 1..Len(Tail(free)) : Tail(free)[i] # h
  BY <1>1, <1>3 DEF Inv, Memory, Owned
<1>5. \A j \in Entry : tlb[j].phys # h
  <2> SUFFICES ASSUME NEW j \in Entry, tlb[j].phys = h PROVE FALSE
    OBVIOUS
  <2>1. tlb[j].phys # 0
    BY <1>3 DEF Uninit
  <2>2. tlb[j].virt \in Page
    BY <2>1, TlbIs DEF Inv
  <2> QED
    BY <1>4, <2>1, <2>2 DEF Inv, Memory, EntryOwned
<1>6. Owned'
  <2>1. \A p, q \in Procs : \A u, w \in Page :
          Live(p)' /\ Live(q)' /\ pages'[p][u] = pages'[q][w] /\ pages'[p][u] # Uninit => p = q /\ u = w
    <3> SUFFICES ASSUME NEW p \in Procs, NEW q \in Procs, NEW u \in Page, NEW w \in Page,
                        Live(p)', Live(q)', pages'[p][u] = pages'[q][w], pages'[p][u] # Uninit
                 PROVE  p = q /\ u = w
      OBVIOUS
    <3>1. Live(p) /\ Live(q)
      OBVIOUS
    <3>2. \/ p = cur /\ u = v /\ pages'[p][u] = h
          \/ (p # cur \/ u # v) /\ pages'[p][u] = pages[p][u] /\ pages[p][u] # h
      BY <1>2, <1>4, <3>1
    <3>3. \/ q = cur /\ w = v /\ pages'[q][w] = h
          \/ (q # cur \/ w # v) /\ pages'[q][w] = pages[q][w] /\ pages[q][w] # h
      BY <1>2, <1>4, <3>1
    <3>4. pages[p][u] = pages[q][w] /\ pages[p][u] # Uninit => p = q /\ u = w
      BY <3>1 DEF Inv, Memory, Owned
    <3> QED
      BY <3>2, <3>3, <3>4
  <2>2. \A i, j \in 1..Len(free') : free'[i] = free'[j] => i = j
    <3> SUFFICES ASSUME NEW i \in 1..Len(Tail(free)), NEW j \in 1..Len(Tail(free)),
                        Tail(free)[i] = Tail(free)[j]
                 PROVE  i = j
      OBVIOUS
    <3>1. free[i + 1] = free[j + 1] /\ i + 1 \in 1..Len(free) /\ j + 1 \in 1..Len(free)
      BY <1>1
    <3>2. i + 1 = j + 1
      BY <3>1 DEF Inv, Memory, Owned
    <3> QED
      BY <3>2, <1>1
  <2>3. \A p \in Procs : \A w \in Page : \A i \in 1..Len(free') : Live(p)' => free'[i] # pages'[p][w]
    <3> SUFFICES ASSUME NEW p \in Procs, NEW w \in Page, NEW i \in 1..Len(Tail(free)), Live(p)
                 PROVE  Tail(free)[i] # pages'[p][w]
      OBVIOUS
    <3>1. Tail(free)[i] # pages[p][w] /\ Tail(free)[i] # h
      BY <1>1, <1>4 DEF Inv, Memory, Owned
    <3> QED
      BY <1>2, <3>1
  <2>4. ASSUME NEW f \in Frame
        PROVE  \/ \E i \in 1..Len(free') : free'[i] = f
               \/ \E p \in Procs : \E w \in Page : Live(p)' /\ pages'[p][w] = f
    <3>1. CASE f = h
      BY <1>2, <3>1
    <3>2. CASE \E i \in 1..Len(free) : free[i] = f /\ f # h
      <4>1. PICK i \in 1..Len(free) : free[i] = f /\ i # 1
        BY <1>3, <3>2
      <4>2. i - 1 \in 1..Len(Tail(free)) /\ (i - 1) + 1 = i
        BY <1>1, <4>1
      <4>3. Tail(free)[i - 1] = f
        BY <1>1, <4>1, <4>2
      <4> QED
        BY <4>2, <4>3
    <3>3. CASE \E p \in Procs : \E w \in Page : Live(p) /\ pages[p][w] = f
      <4>1. PICK p \in Procs, w \in Page : Live(p) /\ pages[p][w] = f
        BY <3>3
      <4>2. f # Uninit
        BY NumbersAre
      <4>3. p # cur \/ w # v
        BY <4>1, <4>2
      <4> QED
        BY <1>2, <4>1, <4>3
    <3> QED
      BY <3>1, <3>2, <3>3 DEF Inv, Memory, Owned
  <2> QED
    BY <2>1, <2>2, <2>3, <2>4 DEF Owned
<1> QED
  BY <1>1, <1>2, <1>4, <1>5, <1>6

LEMMA FaultNewStep ==
  ASSUME Inv, FaultNew
  PROVE  Inv'
<1> DEFINE d == Head(todo[cur])
           q == Tail(todo[cur])
<1>1. /\ cur \in Procs /\ state[cur] = "runnable" /\ Live(cur) /\ UsesTlb(cur) /\ OwnEntries
      /\ q \in Seq(Step) /\ NoReads(q) /\ d.page \in Page /\ d \in Step /\ todo[cur] # <<>>
      /\ \A u \in Page : ~Pending(cur, u)
  BY AtIs DEF FaultNew, At
<1>2. /\ UNCHANGED <<cur, fresh, halted, mem, wrote>>
      /\ pages[cur][d.page] = Uninit /\ free # <<>>
      /\ pages' = [pages EXCEPT ![cur][d.page] = Head(free)] /\ free' = Tail(free)
      /\ \/ /\ d.page \in InExec
            /\ state' = [state EXCEPT ![cur] = "waiting"]
            /\ todo' = [todo EXCEPT ![cur] = <<[d EXCEPT !.op = "read"]>> \o q]
            /\ UNCHANGED <<frames, tlb, index, virt>>
         \/ /\ d.page \notin InExec
            /\ TlbMap(d.page, Head(free), TRUE, Zero, d.write)
            /\ todo' = [todo EXCEPT ![cur] = q]
            /\ UNCHANGED state
  BY <1>1 DEF FaultNew, Inv, Types
<1>3. PICK v \in Page, w \in BOOLEAN, f \in {Head(free)} : d.page = v /\ d.write = w /\ f = Head(free)
  BY <1>1 DEF Step
<1>4. \A p \in Procs : Live(p)' <=> Live(p)
  BY <1>1, <1>2 DEF Live, Inv, Types, TypeOK
<1> HIDE DEF q
<1>5. /\ Owned' /\ f \in Frame /\ f # Uninit
      /\ pages' \in [Procs -> [Page -> Frame \cup {Uninit}]] /\ free' \in Seq(Frame)
      /\ pages'[cur][v] = f
      /\ \A p \in Procs : \A u \in Page : p # cur \/ u # v =>
           pages'[p][u] = pages[p][u] /\ (Live(p) => pages[p][u] # f)
      /\ \A j \in Entry : tlb[j].phys # f
  <2>1. /\ pages[cur][v] = Uninit /\ free # <<>>
        /\ pages' = [pages EXCEPT ![cur][v] = Head(free)] /\ free' = Tail(free)
    BY <1>2, <1>3
  <2> HIDE DEF d
  <2>2. /\ Owned' /\ Head(free) \in Frame
        /\ pages' \in [Procs -> [Page -> Frame \cup {Uninit}]] /\ free' \in Seq(Frame)
        /\ pages'[cur][v] = Head(free)
        /\ \A p \in Procs : \A u \in Page : p # cur \/ u # v =>
             pages'[p][u] = pages[p][u] /\ (Live(p) => pages[p][u] # Head(free))
        /\ \A j \in Entry : tlb[j].phys # Head(free)
    BY <1>1, <1>4, <2>1, AllocKeeps
  <2>3. f # Uninit
    BY <1>3, <2>2, NumbersAre
  <2> QED
    BY <1>3, <2>2, <2>3
<1>6. pages[cur][v] = Uninit /\ mem[cur][v] = Initial(v)
  BY <1>1, <1>2, <1>3 DEF Inv, Memory, Untouched
<1>7. state' \in [Procs -> {"free", "runnable", "waiting", "zombie", "dead"}]
  BY <1>2 DEF Inv, Types, TypeOK
<1>8. \A p \in Procs \ {cur} : /\ todo[p] # <<>> => Live(p)'
                               /\ \A u \in Page : pages[p][u] # Uninit => pages'[p][u] # Uninit
  BY <1>4, <1>5 DEF Inv, TodoOK
<1>9. CASE /\ v \notin InExec
           /\ TlbMap(v, f, TRUE, Zero, w)
           /\ todo' = [todo EXCEPT ![cur] = q]
  <2>1. Becomes(cur, q)
    BY <1>1, <1>2, <1>4, <1>8, <1>9 DEF Becomes
  <2>2. /\ todo' \in [Procs -> Seq(Step)] /\ TodoOK' /\ SameProcs
        /\ \A r \in Procs \ {cur} : todo'[r] = todo[r]
        /\ \A u \in Page : ~Pending(cur, u)'
    BY <1>1, <1>2, <1>4, <2>1, TodoStep DEF SameProcs, Inv
  <2>3. PICK i \in Entry : Mapping(i, v, f, TRUE, Zero, w)
    BY <1>5, <1>9, TlbMapIs DEF Inv, Memory
  <2>4. /\ frames' \in [Frame -> Values] /\ index' \in Entry /\ virt' \in [Page -> Values]
        /\ tlb' \in [Entry -> [virt : Page, phys : Frame, write : BOOLEAN] \cup {Unused}]
    <3>1. f \in Frame /\ Zero \in Values /\ Types
      BY <1>5, ValueAssumption DEF Inv
    <3> QED
      BY <2>3, <3>1, MappedTypes
  <2>5. Types'
    BY <1>2, <1>5, <1>7, <2>2, <2>4, StepsTyped DEF Types, TypeOK, Inv
  <2>6. FreshOK'
    BY <1>1, <1>2, <1>4, <1>5, <2>2 DEF FreshOK, Inv, Types, TypeOK
  <2>7. Gets(v, f, TRUE, Zero)
    <3>1. Zero = mem[cur][v]
      BY <1>6, <1>9 DEF Initial
    <3>2. \A p \in Procs : \A u \in Page : p # cur \/ u # v =>
            /\ Pending(p, u)' => Pending(p, u)
            /\ Has(p, u)' => Has(p, u)
      BY <1>4, <1>5, <2>2 DEF SameProcs, Has
    <3> QED
      BY <1>1, <1>2, <1>4, <1>5, <2>2, <3>1, <3>2 DEF Gets
  <2>8. OneEntry' /\ EntryOwned' /\ OwnTlb' /\ ReadUnmapped' /\ Untouched' /\ Kept'
    BY <1>1, <2>3, <2>7, MapStep DEF Inv
  <2> QED
    BY <1>5, <2>2, <2>5, <2>6, <2>8 DEF Inv, Memory
<1>10. CASE /\ v \in InExec
            /\ todo' = [todo EXCEPT ![cur] = <<[d EXCEPT !.op = "read"]>> \o q]
            /\ UNCHANGED <<frames, tlb, index, virt>>
  <2> DEFINE r == [d EXCEPT !.op = "read"]
             s == <<r>> \o q
  <2>1. r \in Step /\ r.op = "read" /\ r.page = v
    BY <1>1, <1>3 DEF Step
  <2>2. /\ s \in Seq(Step) /\ s # <<>> /\ Head(s) = r /\ s[1] = r
        /\ \A i \in 2..Len(s) : s[i] = q[i - 1] /\ i - 1 \in 1..Len(q)
        /\ \A i \in 1..Len(s) : i = 1 \/ i \in 2..Len(s)
    <3>1. /\ s \in Seq(Step) /\ s # <<>> /\ Head(s) = r /\ s[1] = r
          /\ \A i \in 2..Len(s) : s[i] = q[i - 1] /\ i - 1 \in 1..Len(q)
      BY <1>1, <2>1, Prepend
    <3> QED
      BY <3>1
  <2> HIDE DEF r, s
  <2>3. todo' \in [Procs -> Seq(Step)] /\ todo'[cur] = s /\ \A p \in Procs \ {cur} : todo'[p] = todo[p]
    BY <1>1, <1>10, <2>2 DEF Inv, Types, r, s
  <2>4. \A i \in 1..Len(s) :
          /\ s[i].op \in {"in", "out", "fault", "read"} => s[i].page \in Page
          /\ s[i].op = "read" => i = 1 /\ s[i].page \in InExec /\ pages'[cur][s[i].page] # Uninit
    BY <1>1, <1>5, <1>10, <2>1, <2>2 DEF NoReads
  <2>5. TodoOK'
    <3> SUFFICES ASSUME NEW p \in Procs
                 PROVE  (todo'[p] # <<>> => Live(p)') /\ Good(p, todo[p])'
      BY DEF TodoOK
    <3>1. CASE p = cur
      BY <1>1, <1>2, <1>4, <2>3, <2>4, <3>1 DEF Good
    <3>2. CASE p # cur
      BY <1>8, <2>3, <3>2 DEF Inv, TodoOK, Good
    <3> QED
      BY <3>1, <3>2
  <2>6. \A p \in Procs : \A u \in Page :
          Pending(p, u)' <=> (p = cur /\ u = v) \/ (p # cur /\ Pending(p, u))
    BY <2>1, <2>2, <2>3 DEF Pending
  <2>7. Types'
    BY <1>2, <1>5, <1>7, <1>10, <2>3, StepsTyped DEF Types, TypeOK, Inv
  <2>8. FreshOK'
    BY <1>1, <1>2, <1>4, <1>5, <2>3 DEF FreshOK, Inv, Types, TypeOK
  <2>9. \A i \in Entry : tlb[i].phys # 0 => /\ pages'[cur][tlb[i].virt] = tlb[i].phys
                                            /\ tlb[i].virt \in Page
    <3> SUFFICES ASSUME NEW i \in Entry, tlb[i].phys # 0
                 PROVE  pages'[cur][tlb[i].virt] = tlb[i].phys /\ tlb[i].virt \in Page
      OBVIOUS
    <3>1. pages[cur][tlb[i].virt] = tlb[i].phys /\ tlb[i].virt \in Page
      BY <1>1, TlbIs DEF OwnEntries, Inv
    <3>2. tlb[i].virt # v
      BY <1>6, <3>1 DEF Uninit
    <3> QED
      BY <1>1, <1>5, <3>1, <3>2
  <2>10. EntryOwned' /\ OwnTlb' /\ OneEntry'
    BY <1>1, <1>2, <1>4, <1>10, <2>9 DEF EntryOwned, OwnTlb, OneEntry, Inv, Memory
  <2>11. ReadUnmapped'
    BY <1>1, <1>5, <1>10, <2>6 DEF ReadUnmapped, Inv, Memory
  <2>12. Untouched'
    BY <1>2, <1>4, <1>5, <1>6, <2>6 DEF Untouched, Inv, Memory, Initial
  <2>13. Kept'
    <3> SUFFICES ASSUME NEW p \in Procs, NEW u \in Page, Has(p, u)'
                 PROVE  /\ \A i \in Entry : tlb[i].phys = pages'[p][u] =>
                             virt[tlb[i].virt] = mem[p][u] /\ (~tlb[i].write => frames[pages'[p][u]] = mem[p][u])
                        /\ (\A i \in Entry : tlb[i].phys # pages'[p][u]) => frames[pages'[p][u]] = mem[p][u]
                        /\ p # cur => frames[pages'[p][u]] = mem[p][u]
      BY <1>2, <1>10 DEF Kept, InFrame
    <3>1. (p # cur \/ u # v) /\ pages'[p][u] = pages[p][u] /\ Has(p, u)
      BY <1>1, <1>4, <1>5, <2>6 DEF Has
    <3> QED
      BY <3>1 DEF Inv, Memory, Kept, InFrame
  <2> QED
    BY <1>5, <2>5, <2>7, <2>8, <2>10, <2>11, <2>12, <2>13 DEF Inv, Memory
<1> QED
  BY <1>2, <1>3, <1>9, <1>10

LEMMA ConcatIs ==
  ASSUME NEW E, NEW a \in Seq(E), NEW b \in Seq(E)
  PROVE  /\ a \o b \in Seq(E)
         /\ \A i \in 1..Len(a \o b) : \/ i \in 1..Len(a) /\ (a \o b)[i] = a[i]
                                      \/ /\ i \notin 1..Len(a)
                                         /\ \E k \in 1..Len(b) : i = k + Len(a) /\ (a \o b)[i] = b[k]
         /\ \A i \in 1..Len(a) : i \in 1..Len(a \o b) /\ (a \o b)[i] = a[i]
         /\ \A i \in 1..Len(b) : i + Len(a) \in 1..Len(a \o b) /\ (a \o b)[i + Len(a)] = b[i]
<1>1. /\ a \o b \in Seq(E) /\ Len(a) \in Nat /\ Len(b) \in Nat /\ Len(a \o b) = Len(a) + Len(b)
      /\ \A i \in 1..Len(a) + Len(b) :
           (a \o b)[i] = IF i <= Len(a) THEN a[i] ELSE b[i - Len(a)]
  OBVIOUS
<1>2. ASSUME NEW i \in 1..Len(a \o b), i \notin 1..Len(a)
      PROVE  \E k \in 1..Len(b) : i = k + Len(a) /\ (a \o b)[i] = b[k]
  <2>1. i - Len(a) \in 1..Len(b) /\ i = (i - Len(a)) + Len(a)
    BY <1>1, <1>2
  <2>2. (a \o b)[i] = b[i - Len(a)]
    BY <1>1, <1>2
  <2> QED
    BY <2>1, <2>2
<1>3. ASSUME NEW i \in 1..Len(a)
      PROVE  i \in 1..Len(a \o b) /\ (a \o b)[i] = a[i]
  BY <1>1
<1>4. ASSUME NEW i \in 1..Len(b)
      PROVE  i + Len(a) \in 1..Len(a \o b) /\ (a \o b)[i + Len(a)] = b[i]
  BY <1>1
<1> QED
  BY <1>1, <1>2, <1>3, <1>4

\* The frames of a process that dies are freed, each once.
LEMMA TermFrees ==
  ASSUME Inv, NEW p \in Procs, Live(p), ~Live(p)', free' = free \o FramesOf(p), pages' = pages,
         \A q \in Procs \ {p} : Live(q)' <=> Live(q)
  PROVE  free' \in Seq(Frame) /\ Owned'
<1> DEFINE G == FramesOf(p)
<1>1. /\ G \in Seq(Frame) /\ free \in Seq(Frame)
      /\ \A i \in 1..Len(G) : \E v \in Page : pages[p][v] # Uninit /\ G[i] = pages[p][v]
      /\ \A v \in Page : pages[p][v] # Uninit => \E i \in 1..Len(G) : G[i] = pages[p][v]
      /\ (\A v, w \in Page : pages[p][v] # Uninit /\ pages[p][v] = pages[p][w] => v = w) =>
           \A i, j \in 1..Len(G) : G[i] = G[j] => i = j
  BY FramesOfIs DEF Inv, Types, TypeOK
<1>2. \A v, w \in Page : pages[p][v] # Uninit /\ pages[p][v] = pages[p][w] => v = w
  BY DEF Inv, Memory, Owned
<1> HIDE DEF G
<1>3. \A i, j \in 1..Len(G) : G[i] = G[j] => i = j
  BY <1>1, <1>2
<1>4. free' = free \o G
  BY DEF G
<1>5. /\ free' \in Seq(Frame)
      /\ \A i \in 1..Len(free') : \/ i \in 1..Len(free) /\ free'[i] = free[i]
                                  \/ /\ i \notin 1..Len(free)
                                     /\ \E k \in 1..Len(G) : i = k + Len(free) /\ free'[i] = G[k]
      /\ \A i \in 1..Len(free) : i \in 1..Len(free') /\ free'[i] = free[i]
      /\ \A i \in 1..Len(G) : i + Len(free) \in 1..Len(free') /\ free'[i + Len(free)] = G[i]
  <2>1. /\ free \o G \in Seq(Frame)
        /\ \A i \in 1..Len(free \o G) :
             \/ i \in 1..Len(free) /\ (free \o G)[i] = free[i]
             \/ /\ i \notin 1..Len(free)
                /\ \E k \in 1..Len(G) : i = k + Len(free) /\ (free \o G)[i] = G[k]
        /\ \A i \in 1..Len(free) : i \in 1..Len(free \o G) /\ (free \o G)[i] = free[i]
        /\ \A i \in 1..Len(G) :
             i + Len(free) \in 1..Len(free \o G) /\ (free \o G)[i + Len(free)] = G[i]
    BY <1>1, ConcatIs
  <2> QED
    BY <1>4, <2>1
<1>6. \A i \in 1..Len(free) : \A j \in 1..Len(G) : free[i] # G[j]
  BY <1>1 DEF Inv, Memory, Owned
<1>7. \A i, j \in 1..Len(free') : free'[i] = free'[j] => i = j
  <2> SUFFICES ASSUME NEW i \in 1..Len(free'), NEW j \in 1..Len(free'), free'[i] = free'[j]
               PROVE  i = j
    OBVIOUS
  <2>1. CASE i \in 1..Len(free) /\ j \in 1..Len(free)
    BY <1>5, <2>1 DEF Inv, Memory, Owned
  <2>2. CASE i \in 1..Len(free) /\ j \notin 1..Len(free)
    BY <1>5, <1>6, <2>2
  <2>3. CASE i \notin 1..Len(free) /\ j \in 1..Len(free)
    BY <1>5, <1>6, <2>3
  <2>4. CASE i \notin 1..Len(free) /\ j \notin 1..Len(free)
    <3>1. PICK k \in 1..Len(G) : i = k + Len(free) /\ free'[i] = G[k]
      BY <1>5, <2>4
    <3>2. PICK l \in 1..Len(G) : j = l + Len(free) /\ free'[j] = G[l]
      BY <1>5, <2>4
    <3>3. k = l
      BY <1>3, <3>1, <3>2
    <3> QED
      BY <3>1, <3>2, <3>3
  <2> QED
    BY <2>1, <2>2, <2>3, <2>4
<1>8. ASSUME NEW q \in Procs, NEW w \in Page, NEW i \in 1..Len(free'), Live(q)'
      PROVE  free'[i] # pages'[q][w]
  <2>1. q # p /\ Live(q) /\ pages'[q][w] = pages[q][w]
    BY <1>8
  <2>2. CASE i \in 1..Len(free)
    BY <1>5, <2>1, <2>2 DEF Inv, Memory, Owned
  <2>3. CASE i \notin 1..Len(free)
    <3>1. PICK k \in 1..Len(G) : free'[i] = G[k]
      BY <1>5, <2>3
    <3>2. PICK v \in Page : pages[p][v] # Uninit /\ free'[i] = pages[p][v]
      BY <1>1, <3>1
    <3> QED
      BY <2>1, <3>2 DEF Inv, Memory, Owned
  <2> QED
    BY <2>2, <2>3
<1>9. ASSUME NEW f \in Frame
      PROVE  \/ \E i \in 1..Len(free') : free'[i] = f
             \/ \E q \in Procs : \E w \in Page : Live(q)' /\ pages'[q][w] = f
  <2>1. f # Uninit
    BY NumbersAre
  <2>2. CASE \E i \in 1..Len(free) : free[i] = f
    BY <1>5, <2>2
  <2>3. CASE \E q \in Procs : \E w \in Page : Live(q) /\ pages[q][w] = f
    <3>1. PICK q \in Procs, w \in Page : Live(q) /\ pages[q][w] = f
      BY <2>3
    <3>2. CASE q = p
      <4>1. PICK i \in 1..Len(G) : G[i] = f
        BY <1>1, <2>1, <3>1, <3>2
      <4> QED
        BY <1>5, <4>1
    <3>3. CASE q # p
      BY <3>1, <3>3
    <3> QED
      BY <3>2, <3>3
  <2> QED
    BY <2>2, <2>3 DEF Inv, Memory, Owned
<1>10. \A q, r \in Procs : \A v, w \in Page :
         Live(q)' /\ Live(r)' /\ pages'[q][v] = pages'[r][w] /\ pages'[q][v] # Uninit => q = r /\ v = w
  <2>1. \A q \in Procs : Live(q)' => Live(q)
    OBVIOUS
  <2> QED
    BY <2>1 DEF Inv, Memory, Owned
<1> QED
  BY <1>5, <1>7, <1>8, <1>9, <1>10 DEF Owned

LEMMA TermStep ==
  ASSUME Inv, NEW p \in Procs, NEW result \in {"dead", "free", "zombie"}, Live(p), Term(p, result)
  PROVE  Inv'
<1>1. /\ state' = [state EXCEPT ![p] = result]
      /\ frames' = Synced(Entry, virt)
      /\ tlb' = Emptied(Unmapped(p))
      /\ free' = free \o FramesOf(p)
      /\ fresh' \subseteq fresh
      /\ todo' = [todo EXCEPT ![p] = <<>>]
      /\ UNCHANGED <<cur, pages, index, virt, halted, mem, wrote>>
  BY DEF Term
<1>2. /\ state' \in [Procs -> {"free", "runnable", "waiting", "zombie", "dead"}]
      /\ ~Live(p)' /\ \A q \in Procs \ {p} : Live(q)' <=> Live(q)
      /\ \A q \in Procs \ {p} : state'[q] = state[q]
  BY <1>1 DEF Inv, Types, TypeOK, Live
<1>3. Becomes(p, <<>>)
  BY <1>1, <1>2 DEF Becomes, NoReads, Inv, TodoOK
<1>4. /\ todo' \in [Procs -> Seq(Step)] /\ TodoOK'
      /\ todo'[p] = <<>> /\ \A r \in Procs \ {p} : todo'[r] = todo[r]
      /\ \A r \in Procs : \A v \in Page : Pending(r, v)' <=> r # p /\ Pending(r, v)
  BY <1>3, TodoStep DEF Inv
<1>5. free' \in Seq(Frame) /\ Owned'
  BY <1>1, <1>2, TermFrees
<1>6. frames' \in [Frame -> Values]
  BY <1>1, SyncedIs DEF Inv, Types, TypeOK
<1>7. /\ tlb' \in [Entry -> [virt : Page, phys : Frame, write : BOOLEAN] \cup {Unused}]
      /\ Fewer /\ \A i \in Entry : i \in Unmapped(p) => tlb'[i] = Unused
  BY <1>1 DEF Emptied, Inv, Types, TypeOK, Fewer
<1>8. Types'
  BY <1>1, <1>2, <1>4, <1>5, <1>6, <1>7, StepsTyped DEF Inv, Types, TypeOK
<1>9. FreshOK'
  BY <1>1, <1>2, <1>4 DEF FreshOK, Inv, Types, TypeOK
<1>10. FewerProcs
  BY <1>1, <1>2, <1>4 DEF FewerProcs, Has
<1>11. OneEntry' /\ ReadUnmapped' /\ Untouched'
  BY <1>1, <1>7, <1>10, FewerKeeps DEF Inv
<1>12. Kept'
  BY <1>1, <1>7, <1>10, SyncStep DEF Inv, Memory
<1>13. EntryOwned'
  <2> SUFFICES ASSUME NEW i \in Entry, tlb'[i].phys # 0
               PROVE  \E q \in Procs : Live(q)' /\ pages'[q][tlb'[i].virt] = tlb'[i].phys
    BY DEF EntryOwned
  <2>1. tlb'[i] = tlb[i] /\ i \notin Unmapped(p)
    BY <1>7 DEF Fewer, Unused
  <2>2. PICK q \in Procs : Live(q) /\ pages[q][tlb[i].virt] = tlb[i].phys
    BY <2>1 DEF Inv, Memory, EntryOwned
  <2>3. tlb[i].virt \in Page
    BY <2>1, TlbIs DEF Inv
  <2>4. q # p
    <3> SUFFICES ASSUME q = p PROVE FALSE
      OBVIOUS
    <3>1. pages[p][tlb[i].virt] # Uninit /\ i \in EntriesOf(tlb[i].virt)
      BY <2>1, <2>2 DEF Uninit, EntriesOf
    <3>2. i \in Unmapped(p)
      BY <2>3, <3>1 DEF Unmapped
    <3> QED
      BY <2>1, <3>2
  <2> QED
    BY <1>1, <1>2, <2>1, <2>2, <2>4
<1>14. OwnTlb'
  <2> SUFFICES ASSUME cur' \in Procs, UsesTlb(cur)', NEW i \in Entry, tlb'[i].phys # 0
               PROVE  pages'[cur'][tlb'[i].virt] = tlb'[i].phys
    BY DEF OwnTlb
  <2>1. cur' = cur /\ tlb'[i] = tlb[i]
    BY <1>1, <1>7 DEF Fewer, Unused
  <2>2. cur # p
    BY <1>1, <1>2, <2>1 DEF UsesTlb, Live
  <2>3. UsesTlb(cur)
    BY <1>1, <1>2, <1>4, <2>1, <2>2 DEF UsesTlb
  <2> QED
    BY <1>1, <2>1, <2>3 DEF Inv, Memory, OwnTlb
<1> QED
  BY <1>4, <1>5, <1>8, <1>9, <1>11, <1>12, <1>13, <1>14 DEF Inv, Memory

LEMMA ExitStep ==
  ASSUME Inv, Exit
  PROVE  Inv'
<1>1. cur \in Procs /\ Live(cur)
  BY AtIs DEF Exit
<1>2. PICK p \in Procs : p = cur
  BY <1>1
<1>3. Term(p, "dead") /\ Live(p)
  BY <1>1, <1>2 DEF Exit
<1> QED
  BY <1>3, TermStep

LEMMA KillStep ==
  ASSUME Inv, NEW p \in Procs, Kill(p)
  PROVE  Inv'
<1>1. PICK result \in {"dead", "free", "zombie"} : Term(p, result)
  BY DEF Kill
<1>2. Live(p)
  BY DEF Kill, Live
<1> QED
  BY <1>1, <1>2, TermStep

LEMMA SpawnStep ==
  ASSUME Inv, NEW p \in Procs, Spawn(p)
  PROVE  Inv'
<1> DEFINE q == <<Do("wait", 0, FALSE), Do("out", Stack, TRUE)>>
<1>1. /\ cur = Server /\ state[p] = "free"
      /\ state' = [state EXCEPT ![p] = "runnable"]
      /\ fresh' = fresh \cup {p}
      /\ todo' = [todo EXCEPT ![p] = q]
      /\ pages' = [pages EXCEPT ![p] = [v \in Page |-> Uninit]]
      /\ mem' = [mem EXCEPT ![p] = [v \in Page |-> IF v \in InExec THEN Program[v] ELSE Zero]]
      /\ wrote' = [wrote EXCEPT ![p] = 0]
      /\ UNCHANGED <<cur, frames, free, tlb, index, virt, halted>>
  BY DEF Spawn
<1>2. /\ state' \in [Procs -> {"free", "runnable", "waiting", "zombie", "dead"}]
      /\ Live(p)' /\ ~Live(p) /\ \A r \in Procs \ {p} : Live(r)' <=> Live(r)
  BY <1>1 DEF Inv, Types, TypeOK, Live
<1>3. /\ pages' \in [Procs -> [Page -> Frame \cup {Uninit}]]
      /\ \A v \in Page : pages'[p][v] = Uninit
      /\ \A r \in Procs \ {p} : pages'[r] = pages[r]
  BY <1>1 DEF Inv, Types, TypeOK
<1>4. /\ mem' \in [Procs -> [Page -> Values]]
      /\ \A v \in Page : mem'[p][v] = Initial(v)
      /\ \A r \in Procs \ {p} : mem'[r] = mem[r]
  <2>1. \A v \in Page : Initial(v) \in Values
    BY ValueAssumption DEF Initial
  <2>2. mem' = [mem EXCEPT ![p] = [v \in Page |-> Initial(v)]]
    BY <1>1 DEF Initial
  <2> QED
    BY <2>1, <2>2 DEF Inv, Types, TypeOK
<1>5. q \in Seq(Step) /\ NoReads(q) /\ q # <<>> /\ Head(q).op = "wait"
  <2>1. Do("wait", 0, FALSE) \in Step /\ Do("out", Stack, TRUE) \in Step /\ Stack \in Page
    BY PageAssumption DEF Do, Step
  <2> QED
    BY <2>1 DEF NoReads, Do
<1> HIDE DEF q
<1>6. Becomes(p, q)
  BY <1>1, <1>2, <1>3, <1>5 DEF Becomes, Inv, TodoOK
<1>7. /\ todo' \in [Procs -> Seq(Step)] /\ TodoOK'
      /\ todo'[p] = q /\ \A r \in Procs \ {p} : todo'[r] = todo[r]
      /\ \A r \in Procs : \A v \in Page : Pending(r, v)' <=> r # p /\ Pending(r, v)
  BY <1>6, TodoStep DEF Inv
<1>8. Types'
  BY <1>1, <1>2, <1>3, <1>4, <1>7, StepsTyped DEF Inv, Types, TypeOK
<1>9. FreshOK'
  BY <1>1, <1>2, <1>3, <1>5, <1>7, ServerAssumption DEF FreshOK, Inv, Types, TypeOK
<1>10. Owned'
  <2>1. \A r \in Procs : \A v \in Page : Live(r)' /\ pages'[r][v] # Uninit =>
          r # p /\ Live(r) /\ pages'[r][v] = pages[r][v]
    BY <1>2, <1>3
  <2>2. \A i \in 1..Len(free) : free[i] # Uninit
    BY NumbersAre DEF Inv, Types, TypeOK
  <2>3. \A f \in Frame : \A r \in Procs : \A v \in Page : Live(r) /\ pages[r][v] = f =>
          Live(r)' /\ pages'[r][v] = f
    BY <1>2, <1>3
  <2>4. \A r, s \in Procs : \A v, w \in Page :
          Live(r)' /\ Live(s)' /\ pages'[r][v] = pages'[s][w] /\ pages'[r][v] # Uninit => r = s /\ v = w
    BY <2>1 DEF Inv, Memory, Owned
  <2>5. \A r \in Procs : \A v \in Page : \A i \in 1..Len(free') : Live(r)' => free'[i] # pages'[r][v]
    BY <1>1, <2>1, <2>2 DEF Inv, Memory, Owned
  <2>6. \A f \in Frame : \/ \E i \in 1..Len(free') : free'[i] = f
                         \/ \E r \in Procs : \E v \in Page : Live(r)' /\ pages'[r][v] = f
    BY <1>1, <2>3 DEF Inv, Memory, Owned
  <2> QED
    BY <1>1, <2>4, <2>5, <2>6 DEF Inv, Memory, Owned
<1>11. EntryOwned' /\ OneEntry' /\ OwnTlb'
  BY <1>1, <1>2, <1>3, ServerAssumption DEF Inv, Memory, EntryOwned, OneEntry, OwnTlb
<1>12. ReadUnmapped'
  BY <1>1, <1>3, <1>7 DEF Inv, Memory, ReadUnmapped
<1>13. Untouched'
  <2> SUFFICES ASSUME NEW r \in Procs, NEW v \in Page, Live(r)',
                      pages'[r][v] = Uninit \/ Pending(r, v)'
               PROVE  mem'[r][v] = Initial(v)
    BY DEF Untouched, Initial
  <2>1. CASE r = p
    BY <1>4, <2>1
  <2>2. CASE r # p
    <3>1. Live(r) /\ mem'[r][v] = mem[r][v] /\ (pages[r][v] = Uninit \/ Pending(r, v))
      BY <1>2, <1>3, <1>4, <1>7, <2>2
    <3> QED
      BY <3>1 DEF Inv, Memory, Untouched
  <2> QED
    BY <2>1, <2>2
<1>14. Kept'
  <2> SUFFICES ASSUME NEW r \in Procs, NEW v \in Page, Has(r, v)'
               PROVE  /\ \A i \in Entry : tlb[i].phys = pages'[r][v] =>
                           virt[tlb[i].virt] = mem'[r][v] /\ (~tlb[i].write => frames[pages'[r][v]] = mem'[r][v])
                      /\ (\A i \in Entry : tlb[i].phys # pages'[r][v]) => frames[pages'[r][v]] = mem'[r][v]
                      /\ r # cur => frames[pages'[r][v]] = mem'[r][v]
    BY <1>1 DEF Kept, InFrame
  <2>1. r # p /\ pages'[r][v] = pages[r][v] /\ mem'[r][v] = mem[r][v] /\ Has(r, v)
    BY <1>2, <1>3, <1>4, <1>7 DEF Has
  <2> QED
    BY <2>1 DEF Inv, Memory, Kept, InFrame
<1> QED
  BY <1>7, <1>8, <1>9, <1>10, <1>11, <1>12, <1>13, <1>14 DEF Inv, Memory

\* Another process is switched to: pages have been written back.
LEMMA SwitchKeeps ==
  ASSUME Inv, frames' = Synced(Entry, virt), Fewer,
         \A p \in Procs : Live(p)' <=> Live(p),
         UNCHANGED <<todo, pages, free, virt, mem>>
  PROVE  /\ frames' \in [Frame -> Values] /\ TodoOK'
         /\ Owned' /\ EntryOwned' /\ OneEntry' /\ ReadUnmapped' /\ Untouched' /\ Kept'
<1>1. frames' \in [Frame -> Values]
  BY SyncedIs DEF Inv, Types, TypeOK
<1>2. TodoOK'
  BY DEF Inv, TodoOK, Good
<1>3. SameProcs /\ FewerProcs
  BY DEF SameProcs, FewerProcs, Pending, Has
<1>4. Owned'
  BY <1>3, FramesKept DEF Inv, Memory
<1>5. OneEntry' /\ ReadUnmapped' /\ Untouched'
  BY <1>3, FewerKeeps DEF Inv
<1>6. Kept'
  BY <1>3, SyncStep DEF Inv, Memory
<1>7. EntryOwned'
  <2> SUFFICES ASSUME NEW i \in Entry, tlb'[i].phys # 0
               PROVE  \E p \in Procs : Live(p)' /\ pages'[p][tlb'[i].virt] = tlb'[i].phys
    BY DEF EntryOwned
  <2>1. tlb'[i] = tlb[i]
    BY DEF Fewer, Unused
  <2>2. PICK p \in Procs : Live(p) /\ pages[p][tlb[i].virt] = tlb[i].phys
    BY <2>1 DEF Inv, Memory, EntryOwned
  <2> QED
    BY <2>1, <2>2
<1> QED
  BY <1>1, <1>2, <1>4, <1>5, <1>6, <1>7

LEMMA ResumeStep ==
  ASSUME Inv, NEW p \in Procs \cup {Server}, Resume(p)
  PROVE  Inv'
<1>1. /\ cur' = p /\ p \notin fresh
      /\ state' = [q \in Procs |-> IF q = cur /\ state[q] = "dead" THEN "free" ELSE state[q]]
      /\ frames' = Synced(Entry, virt)
      /\ tlb' = Emptied(Entry)
      /\ UNCHANGED <<fresh, todo, pages, free, index, virt, halted, mem, wrote>>
  BY DEF Resume
<1>2. /\ state' \in [Procs -> {"free", "runnable", "waiting", "zombie", "dead"}]
      /\ \A q \in Procs : Live(q)' <=> Live(q)
  BY <1>1 DEF Inv, Types, TypeOK, Live
<1>3. /\ tlb' \in [Entry -> [virt : Page, phys : Frame, write : BOOLEAN] \cup {Unused}]
      /\ \A i \in Entry : tlb'[i] = Unused
  BY <1>1 DEF Emptied
<1>4. Fewer
  BY <1>3 DEF Fewer
<1>5. /\ frames' \in [Frame -> Values] /\ TodoOK'
      /\ Owned' /\ EntryOwned' /\ OneEntry' /\ ReadUnmapped' /\ Untouched' /\ Kept'
  BY <1>1, <1>2, <1>4, SwitchKeeps
<1>6. Types'
  BY <1>1, <1>2, <1>3, <1>5 DEF Inv, Types, TypeOK
<1>7. FreshOK'
  BY <1>1, <1>2 DEF FreshOK, Inv, Types, TypeOK
<1>8. OwnTlb'
  BY <1>3 DEF OwnTlb, Unused
<1> QED
  BY <1>5, <1>6, <1>7, <1>8 DEF Inv, Memory

LEMMA StartStep ==
  ASSUME Inv, NEW p \in Procs, Start(p)
  PROVE  Inv'
<1>1. /\ p \in fresh /\ state[p] = "runnable" /\ cur' = p
      /\ fresh' = fresh \ {p}
      /\ frames' = Synced(Entry, virt)
      /\ UNCHANGED <<state, todo, pages, free, tlb, index, virt, halted, mem, wrote>>
  BY DEF Start
<1>2. Fewer /\ \A q \in Procs : Live(q)' <=> Live(q)
  BY <1>1 DEF Fewer, Live
<1>3. /\ frames' \in [Frame -> Values] /\ TodoOK'
      /\ Owned' /\ EntryOwned' /\ OneEntry' /\ ReadUnmapped' /\ Untouched' /\ Kept'
  BY <1>1, <1>2, SwitchKeeps
<1>4. Types'
  BY <1>1, <1>3 DEF Inv, Types, TypeOK
<1>5. FreshOK'
  BY <1>1, <1>2 DEF FreshOK, Inv, Types, TypeOK
<1>6. OwnTlb'
  <2>1. /\ Live(p) /\ todo[p] # <<>> /\ Head(todo[p]).op = "wait"
        /\ \A v \in Page : pages[p][v] = Uninit
    BY <1>1 DEF Inv, FreshOK, Live
  <2>2. ~UsesTlb(cur)'
    BY <1>1, <2>1 DEF UsesTlb
  <2> QED
    BY <2>2 DEF OwnTlb
<1> QED
  BY <1>3, <1>4, <1>5, <1>6 DEF Inv, Memory

-----------------------------------------------------------------------------
(* The theorems.                                                           *)

LEMMA InvInitial ==
  ASSUME Init
  PROVE  Inv
<1>1. /\ cur = Server
      /\ state = [p \in Procs |-> "free"]
      /\ fresh = {}
      /\ todo = [p \in Procs |-> <<>>]
      /\ pages = [p \in Procs |-> [v \in Page |-> Uninit]]
      /\ frames = [f \in Frame |-> Zero]
      /\ free = [f \in Frame |-> f]
      /\ tlb = [i \in Entry |-> Unused]
      /\ index = 1
      /\ virt = [v \in Page |-> Zero]
      /\ halted = "no"
      /\ mem = [p \in Procs |-> [v \in Page |-> Zero]]
      /\ wrote = [p \in Procs |-> 0]
  BY DEF Init
<1>2. free \in Seq(Frame) /\ Len(free) = NFrames /\ \A f \in Frame : free[f] = f
  BY <1>1, NumbersAre DEF Frame
<1>3. /\ \A p \in Procs : ~Live(p) /\ todo[p] = <<>> /\ Len(todo[p]) = 0
      /\ \A i \in Entry : tlb[i].phys = 0
  BY <1>1 DEF Live, Unused
<1>4. todo \in [Procs -> Seq(Step)]
  BY <1>1
<1>5. Types
  BY <1>1, <1>2, <1>4, StepsTyped, NumbersAre, ValueAssumption DEF Types, TypeOK
<1>6. TodoOK /\ FreshOK
  BY <1>1, <1>3, ServerAssumption DEF TodoOK, FreshOK, Good
<1>7. Owned
  BY <1>2, <1>3 DEF Owned, Frame
<1>8. OneEntry /\ EntryOwned /\ OwnTlb
  BY <1>3 DEF OneEntry, EntryOwned, OwnTlb
<1>9. ReadUnmapped /\ Untouched /\ Kept
  BY <1>3 DEF ReadUnmapped, Untouched, Kept, Has
<1> QED
  BY <1>5, <1>6, <1>7, <1>8, <1>9 DEF Inv, Memory

LEMMA InvNext ==
  ASSUME Inv, [Next]_vars
  PROVE  Inv'
<1>1. ASSUME NEW v \in Page, NEW x \in Values, Write(v, x) PROVE Inv'
  BY <1>1, WriteStep
<1>2. ASSUME NEW v \in Page, Touch(v) PROVE Inv'
  BY <1>2, TouchStep
<1>3. ASSUME NEW x \in Values, CopyOut(x) PROVE Inv'
  BY <1>3, CopyOutStep
<1>4. CASE Syscall
  BY <1>4, SyscallStep
<1>5. CASE CopyFault \/ CopyIn \/ Wait
  BY <1>5, CopyFaultStep, CopyInStep, WaitStep
<1>6. CASE FaultMapped \/ FaultNew \/ ReadDone
  BY <1>6, FaultMappedStep, FaultNewStep, ReadDoneStep
<1>7. CASE OutOfFrames \/ ReadFailed
  BY <1>7, StopStep
<1>8. CASE Exit
  BY <1>8, ExitStep
<1>9. ASSUME NEW p \in Procs, Kill(p) \/ Spawn(p) \/ Wake(p) \/ Reap(p) \/ Start(p) PROVE Inv'
  BY <1>9, KillStep, SpawnStep, WakeStep, ReapStep, StartStep
<1>10. ASSUME NEW p \in Procs \cup {Server}, Resume(p) PROVE Inv'
  BY <1>10, ResumeStep
<1>11. CASE UNCHANGED vars
  <2>1. Types' /\ TodoOK' /\ FreshOK' /\ SameProcs /\ SameUser
    BY <1>11 DEF vars, Inv, Types, TypeOK, TodoOK, Good, FreshOK, Live, Pending, SameProcs, SameUser,
                 UsesTlb
  <2>2. Memory'
    BY <1>11, <2>1, QuietStep DEF vars, Inv
  <2> QED
    BY <2>1, <2>2 DEF Inv
<1> QED
  BY <1>1, <1>2, <1>3, <1>4, <1>5, <1>6, <1>7, <1>8, <1>9, <1>10, <1>11 DEF Next

\* The inductive invariant holds in every state of virtual memory, however many processes, pages,
\* frames and entries there are.
THEOREM InvCorrect == Spec => []Inv
BY InvInitial, InvNext, PTL DEF Spec

\* The tables of proc_pagefault(), frame_init() and the TLB hold pages, frames and entries that
\* exist.
THEOREM TypeCorrect == Spec => []TypeOK
<1>1. Inv => TypeOK
  BY DEF Inv, Types
<1> QED
  BY <1>1, InvCorrect, PTL

\* What a process reads is its own memory with what was last written to it, while it runs and after
\* others have run: proc_after_switch(), tlb.sync() and the order of frame_init() and tlb.map()
\* keep every page, for any sizes of memory and TLB.
THEOREM MemoryKeptCorrect == Spec => []MemoryKept
<1>1. ASSUME Inv PROVE OwnMemory
  <2> SUFFICES ASSUME InUser, NEW v \in Page, Mapped(v)
               PROVE  pages[cur][v] # Uninit /\ virt[v] = mem[cur][v]
    BY DEF OwnMemory
  <2>1. cur \in Procs /\ Live(cur) /\ OwnEntries /\ ~Pending(cur, v)
    BY <1>1, InUserIs
  <2>2. PICK i \in Entry : tlb[i].virt = v /\ tlb[i].phys # 0
    BY DEF Mapped, EntriesOf
  <2>3. pages[cur][v] = tlb[i].phys /\ Has(cur, v)
    BY <2>1, <2>2 DEF OwnEntries, Has, Uninit
  <2> QED
    BY <1>1, <2>1, <2>2, <2>3 DEF Inv, Memory, Kept, Has
<1>2. ASSUME Inv PROVE SavedMemory
  <2> SUFFICES ASSUME NEW p \in Procs \ {cur}, Live(p), NEW v \in Page, pages[p][v] # Uninit
               PROVE  \/ frames[pages[p][v]] = mem[p][v]
                      \/ \E i \in DOMAIN todo[p] : todo[p][i].op = "read" /\ todo[p][i].page = v
    BY DEF SavedMemory
  <2>1. CASE Pending(p, v)
    <3>1. todo[p] \in Seq(Step) /\ todo[p] # <<>>
      BY <1>2, <2>1 DEF Inv, Types, Pending
    <3>2. Head(todo[p]) = todo[p][1] /\ Len(todo[p]) \in Nat \ {0}
      BY <3>1, HeadTail
    <3>3. 1 \in DOMAIN todo[p]
      BY <3>1, <3>2
    <3> QED
      BY <2>1, <3>2, <3>3 DEF Pending
  <2>2. CASE ~Pending(p, v)
    BY <1>2, <2>2 DEF Inv, Memory, Kept, Has, InFrame
  <2> QED
    BY <2>1, <2>2
<1>3. Inv => MemoryKept
  BY <1>1, <1>2 DEF MemoryKept
<1> QED
  BY <1>3, InvCorrect, PTL

LEMMA CardinalityOfOne ==
  ASSUME NEW S, NEW x \in S, \A y \in S : y = x
  PROVE  Cardinality(S) = 1
<1>1. S = {x}
  OBVIOUS
<1> QED
  BY <1>1, FS_Singleton

\* Every frame is free or belongs to one page of one live process, and no entry of the TLB shows a
\* free one: proc_term() and the reaping of zombies neither lose a frame nor give it away twice,
\* however many there are.
THEOREM FramesOwnedCorrect == Spec => []FramesOwned
<1>1. ASSUME Inv, NEW f \in Frame
      PROVE  Cardinality({i \in DOMAIN free : free[i] = f})
               + Cardinality({x \in Procs \X Page : Live(x[1]) /\ pages[x[1]][x[2]] = f}) = 1
  <2> DEFINE F == {i \in DOMAIN free : free[i] = f}
             P == {x \in Procs \X Page : Live(x[1]) /\ pages[x[1]][x[2]] = f}
  <2>1. DOMAIN free = 1..Len(free) /\ f # Uninit
    BY <1>1, NumbersAre DEF Inv, Types, TypeOK
  <2>2. CASE \E i \in 1..Len(free) : free[i] = f
    <3>1. PICK i \in 1..Len(free) : free[i] = f
      BY <2>2
    <3>2. i \in F /\ \A j \in F : j = i
      BY <1>1, <2>1, <3>1 DEF Inv, Memory, Owned
    <3>3. P = {}
      BY <1>1, <3>1 DEF Inv, Memory, Owned
    <3> HIDE DEF F, P
    <3>4. Cardinality(F) = 1 /\ Cardinality(P) = 0
      BY <3>2, <3>3, CardinalityOfOne, FS_EmptySet
    <3> QED
      BY <3>4 DEF F, P
  <2>3. CASE \E p \in Procs : \E v \in Page : Live(p) /\ pages[p][v] = f
    <3>1. PICK p \in Procs, v \in Page : Live(p) /\ pages[p][v] = f
      BY <2>3
    <3>2. <<p, v>> \in P /\ \A x \in P : x = <<p, v>>
      BY <1>1, <2>1, <3>1 DEF Inv, Memory, Owned
    <3>3. F = {}
      BY <1>1, <2>1, <3>1 DEF Inv, Memory, Owned
    <3> HIDE DEF F, P
    <3>4. Cardinality(P) = 1 /\ Cardinality(F) = 0
      BY <3>2, <3>3, CardinalityOfOne, FS_EmptySet
    <3> QED
      BY <3>4 DEF F, P
  <2> QED
    BY <1>1, <2>2, <2>3 DEF Inv, Memory, Owned
<1>2. ASSUME Inv, NEW i \in Entry, NEW j \in DOMAIN free
      PROVE  tlb[i].phys # free[j]
  <2>1. free[j] \in Frame /\ j \in 1..Len(free)
    BY <1>2 DEF Inv, Types, TypeOK
  <2>2. CASE tlb[i].phys = 0
    BY <2>1, <2>2, NumbersAre DEF Uninit
  <2>3. CASE tlb[i].phys # 0
    <3>1. tlb[i].virt \in Page
      BY <1>2, <2>3, TlbIs DEF Inv
    <3> QED
      BY <1>2, <2>1, <2>3, <3>1 DEF Inv, Memory, Owned, EntryOwned
  <2> QED
    BY <2>2, <2>3
<1>3. Inv => FramesOwned
  BY <1>1, <1>2 DEF FramesOwned
<1> QED
  BY <1>3, InvCorrect, PTL

\* The page that proc_pagefault() found in no entry of the TLB is in none when frame_init() returns,
\* although the process may have waited there and others may have run.
THEOREM IndexStillRightCorrect == Spec => []IndexStillRight
<1>1. ASSUME Inv, At("read") PROVE ~Mapped(Head(todo[cur]).page)
  <2> DEFINE v == Head(todo[cur]).page
  <2>1. cur \in Procs /\ v \in Page /\ OwnEntries
    BY <1>1, AtIs
  <2>2. Pending(cur, v)
    BY <1>1 DEF At, Pending
  <2>3. \A i \in Entry : tlb[i].phys # 0 => tlb[i].phys # pages[cur][v]
    BY <1>1, <2>1, <2>2 DEF Inv, Memory, ReadUnmapped
  <2> HIDE DEF v
  <2>4. ~Mapped(v)
    BY <2>1, <2>3 DEF Mapped, EntriesOf, OwnEntries
  <2> QED
    BY <2>4 DEF v
<1>2. ASSUME Inv, At("fault"), pages[cur][Head(todo[cur]).page] = Uninit
      PROVE  ~Mapped(Head(todo[cur]).page)
  <2>1. OwnEntries
    BY <1>2, AtIs
  <2> QED
    BY <1>2, <2>1 DEF Mapped, EntriesOf, OwnEntries, Uninit
<1>3. Inv => IndexStillRight
  BY <1>1, <1>2 DEF IndexStillRight
<1> QED
  BY <1>3, InvCorrect, PTL
=============================================================================
